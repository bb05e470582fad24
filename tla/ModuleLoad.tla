----------------------------- MODULE ModuleLoad -----------------------------
(***************************************************************************)
(* How the driver compiles a program of several modules                    *)
(* (src/src/driver/driver.c): the recursive compile_module_impl, which is  *)
(* called back from Pass 0 of the importing module's analysis, the module  *)
(* table of the virtual machine, the path stack that finds circular        *)
(* imports, the order of the modules and their export tables.              *)
(*                                                                         *)
(* The recursion is a stack of frames, one per module in analysis, and a   *)
(* call or a returned value that is on its way.  The source of a module is *)
(* chosen when it is first opened.  One diagnostics buffer is shared by    *)
(* all modules.                                                            *)
(***************************************************************************)
EXTENDS Integers, Sequences, FiniteSets

CONSTANTS
  Path,        \* canonical paths of the modules
  Entry,       \* the module the command names
  Missing,     \* an import that no file belongs to
  Symbol,      \* names a module can export
  Sources(_),  \* the sources the module at a path may have
  None, Null   \* nothing under way; the NULL compile_module_impl returns

\* An import statement: `import x from` or the proxy export `export * from`
\* (re), of a relative path or of a package below deps/.
Import == [to : Path \cup {Missing}, re : BOOLEAN, package : BOOLEAN]
Fault  == {"none", "unreadable", "syntax", "sema"}

IsSource(s) ==
  /\ s.imports \in Seq(Import) /\ s.own \subseteq Symbol /\ s.fault \in Fault

ASSUME LoadAssumption ==
  /\ Entry \in Path /\ {Missing, None, Null} \cap Path = {} /\ None # Null
  /\ \A p \in Path : \A s \in Sources(p) : IsSource(s) /\ s # None

VARIABLES
  src,        \* the sources of the modules opened so far
  frames,     \* the modules in analysis, the innermost last
  call,       \* the path compile_module_impl is called with
  ret,        \* what it returned
  pathStack,  \* path_stack: borrowed strings, live until their owner frees them
  mods,       \* vm->modules: "absent", "stub" or "prepared"
  order,      \* vm->module_order
  exports,    \* sema_exports: <<name, the module that defines it>>
  hasErr,     \* diag_has_error
  status      \* "running", "ok" or "failed"

vars == <<src, frames, call, ret, pathStack, mods, order, exports, hasErr, status>>

Top       == frames[Len(frames)]
Opened    == {p \in Path : src[p] # None}
Front(s)  == SubSeq(s, 1, Len(s) - 1)
FramePaths == {frames[i].path : i \in DOMAIN frames}

Init ==
  /\ src = [p \in Path |-> None]
  /\ frames = <<>> /\ call = Entry /\ ret = None /\ pathStack = <<>>
  /\ mods = [p \in Path |-> "absent"] /\ order = <<>>
  /\ exports = [p \in Path |-> {}]
  /\ hasErr = FALSE /\ status = "running"

(***************************************************************************)
(* compile_module_impl up to the analysis.                                 *)
(***************************************************************************)
(* mutant: a module that is in the table is not looked for on the path stack *)
OnPathStackUncached(p) ==
  mods[p] = "absent" /\ \E i \in DOMAIN pathStack : pathStack[i].live /\ pathStack[i].path = p

\* Comparing with the live strings of the path stack.
OnPathStack(p) == \E i \in DOMAIN pathStack : pathStack[i].live /\ pathStack[i].path = p

\* The string of a module that failed was freed by the resolver but is still
\* on the stack; comparing with it may give any answer.
StaleOnPathStack == \E i \in DOMAIN pathStack : ~ pathStack[i].live

Returns(r) == call' = None /\ ret' = r

ReportCircular ==
  /\ call # None
  /\ OnPathStack(call) \/ StaleOnPathStack
  /\ hasErr' = TRUE
  /\ Returns(Null)
  /\ UNCHANGED <<src, frames, pathStack, mods, order, exports, status>>

UseCached ==
  /\ call # None /\ ~ OnPathStack(call)
  /\ mods[call] # "absent"
  /\ Returns(call)
  /\ UNCHANGED <<src, frames, pathStack, mods, order, exports, hasErr, status>>

\* Opening the file, unless it was opened in an earlier attempt.
Opens(p, s) ==
  /\ s \in (IF src[p] = None THEN Sources(p) ELSE {src[p]})
  /\ src' = [src EXCEPT ![p] = s]

\* A file that cannot be read, lexed or parsed; an error anywhere before stops
\* a module behind desugaring.  The path stays on the stack, its string not.
Reject ==
  /\ call # None /\ ~ OnPathStack(call) /\ mods[call] = "absent"
  /\ \E s \in Sources(call) :
       /\ Opens(call, s)
       /\ hasErr \/ s.fault \in {"unreadable", "syntax"}
       /\ hasErr' = (hasErr \/ s.fault = "syntax")
  /\ pathStack' = Append(pathStack, [path |-> call, live |-> FALSE])
  /\ Returns(Null)
  /\ UNCHANGED <<frames, mods, order, exports, status>>

\* The module is registered as a stub before its analysis begins.
Enter ==
  /\ call # None /\ ~ OnPathStack(call) /\ mods[call] = "absent"
  /\ ~ hasErr
  /\ \E s \in Sources(call) : Opens(call, s) /\ s.fault \in {"none", "sema"}
  /\ pathStack' = Append(pathStack, [path |-> call, live |-> TRUE])
  /\ mods' = [mods EXCEPT ![call] = "stub"]
  /\ frames' = Append(frames, [path |-> call, next |-> 1])
  /\ call' = None
  /\ UNCHANGED <<ret, order, exports, hasErr, status>>

(***************************************************************************)
(* Pass 0 of the innermost module: its imports in turn.  A failed import   *)
(* does not keep it from trying the next one.                              *)
(***************************************************************************)
Imports(p) == src[p].imports

AtImport == frames # <<>> /\ call = None /\ ret = None /\ Top.next <= Len(Imports(Top.path))

Skipped == frames' = [frames EXCEPT ![Len(frames)].next = @ + 1]

(* mutant: an import without a file is tried again *)
ImportMissingAgain ==
  /\ AtImport /\ Imports(Top.path)[Top.next].to = Missing
  /\ hasErr' = TRUE
  /\ UNCHANGED <<src, frames, call, ret, pathStack, mods, order, exports, status>>

ImportMissing ==
  /\ AtImport /\ Imports(Top.path)[Top.next].to = Missing
  /\ hasErr' = TRUE
  /\ Skipped
  /\ UNCHANGED <<src, call, ret, pathStack, mods, order, exports, status>>

ImportModule ==
  /\ AtImport /\ Imports(Top.path)[Top.next].to # Missing
  /\ call' = Imports(Top.path)[Top.next].to
  /\ UNCHANGED <<src, frames, ret, pathStack, mods, order, exports, hasErr, status>>

ImportReturns ==
  /\ frames # <<>> /\ ret \in Path
  /\ ret' = None /\ Skipped
  /\ UNCHANGED <<src, call, pathStack, mods, order, exports, hasErr, status>>

(* mutant: a failed import is not diagnosed *)
ImportFailsSilently ==
  /\ frames # <<>> /\ ret = Null
  /\ ret' = None /\ Skipped
  /\ UNCHANGED <<src, call, pathStack, mods, order, exports, hasErr, status>>

ImportFails ==
  /\ frames # <<>> /\ ret = Null
  /\ hasErr' = TRUE
  /\ ret' = None /\ Skipped
  /\ UNCHANGED <<src, call, pathStack, mods, order, exports, status>>

(***************************************************************************)
(* The end of the analysis.                                                *)
(***************************************************************************)
AtEnd == frames # <<>> /\ call = None /\ ret = None /\ Top.next > Len(Imports(Top.path))

\* build_sema_exports resolves a proxy export by its relative path only, so
\* that of a package adds nothing.
Forwards(i) == i.re /\ ~ i.package

\* What the table of p is merged from: its own names, then those its k-th
\* import forwards.
Candidates(p, k) ==
  IF k = 0 THEN src[p].own \X {p}
  ELSE IF Forwards(Imports(p)[k]) THEN exports[Imports(p)[k].to] ELSE {}

Turns(p) == 0..Len(Imports(p))

\* A name that is there already stays, whatever comes later.
Merged(p) ==
  {x \in UNION {Candidates(p, k) : k \in Turns(p)} :
     \E k \in Turns(p) :
       /\ x \in Candidates(p, k)
       /\ \A j \in 0..(k - 1) : \A y \in Candidates(p, j) : y[1] = x[1] => y = x}

(* mutant: a name that is there already is passed over without an error *)
ExportConflictIgnored(p) == FALSE

\* A name that means two things.
ExportConflict(p) ==
  \E j, k \in Turns(p) : \E x \in Candidates(p, j), y \in Candidates(p, k) :
    x[1] = y[1] /\ x # y

(* mutant: the path stays on the stack *)
PoppedNot(s) == s

Popped(s) == Front(s)

(* mutant: the module does not stay in the table *)
BoundNot(p) == [mods EXCEPT ![p] = "absent"]

Bound(p) == [mods EXCEPT ![p] = "prepared"]

Ordered(p) == Append(order, p)

Prepare ==
  /\ AtEnd /\ ~ hasErr /\ src[Top.path].fault = "none"
  /\ exports' = [exports EXCEPT ![Top.path] = Merged(Top.path)]
  /\ hasErr' = ExportConflict(Top.path)
  /\ mods' = Bound(Top.path)
  /\ order' = Ordered(Top.path)
  /\ pathStack' = Popped(pathStack)
  /\ frames' = Front(frames) /\ ret' = Top.path
  /\ UNCHANGED <<src, call, status>>

(* mutant: the module that failed stays in the table *)
UnboundNot(p) == mods

Unbound(p) == [mods EXCEPT ![p] = "absent"]

\* The module is destroyed.  Its path is not popped, and the resolver that
\* called frees the string.
AnalysisFails ==
  /\ AtEnd
  /\ hasErr \/ src[Top.path].fault = "sema"
  /\ hasErr' = TRUE
  /\ mods' = Unbound(Top.path)
  /\ pathStack' = [i \in DOMAIN pathStack |->
                     IF pathStack[i].path = Top.path
                     THEN [pathStack[i] EXCEPT !.live = FALSE] ELSE pathStack[i]]
  /\ frames' = Front(frames) /\ ret' = Null
  /\ UNCHANGED <<src, call, order, exports, status>>

\* compile_module_prepare looks at the diagnostics once more.
Finish ==
  /\ frames = <<>> /\ call = None /\ ret # None /\ status = "running"
  /\ status' = IF ret = Null \/ hasErr THEN "failed" ELSE "ok"
  /\ UNCHANGED <<src, frames, call, ret, pathStack, mods, order, exports, hasErr>>

Done == status # "running" /\ UNCHANGED vars

Next ==
  \/ ReportCircular \/ UseCached \/ Reject \/ Enter
  \/ ImportMissing \/ ImportModule \/ ImportReturns \/ ImportFails
  \/ Prepare \/ AnalysisFails \/ Finish \/ Done

\* The driver is one thread that never waits.
Spec == Init /\ [][Next]_vars /\ WF_vars(Next)

(***************************************************************************)
(* The import graph of the modules opened, as a reference.                 *)
(***************************************************************************)
Successors(p) ==
  IF p \in Opened THEN {Imports(p)[i].to : i \in DOMAIN Imports(p)} \ {Missing} ELSE {}

\* The targets of the proxy exports of p.
Forwarded(p, all) ==
  {Imports(p)[i].to : i \in {j \in DOMAIN Imports(p) :
     IF all THEN Imports(p)[j].re ELSE Forwards(Imports(p)[j])}}

\* The least set that contains P and is closed under succ.
Reach(P, succ) ==
  LET closed == {S \in SUBSET Path : P \subseteq S /\ \A q \in S : succ[q] \subseteq S}
  IN {q \in Path : \A S \in closed : q \in S}

Graph == [p \in Path |-> Successors(p)]
Cyclic == \E p \in Path : p \in Reach(Graph[p], Graph)

Reexports(all) == [p \in Path |-> IF mods[p] = "prepared" THEN Forwarded(p, all) ELSE {}]

Defined(P) == UNION {src[p].own \X {p} : p \in P \cap Opened}

(***************************************************************************)
(* Properties                                                              *)
(***************************************************************************)

\* The state has its type.
TypeOK ==
  /\ \A p \in Opened : src[p] \in Sources(p)
  /\ \A i \in DOMAIN frames :
       /\ frames[i].path \in Opened
       /\ frames[i].next \in 1..(Len(Imports(frames[i].path)) + 1)
  /\ call \in Path \cup {None} /\ ret \in Path \cup {None, Null}
  /\ \A i \in DOMAIN pathStack : pathStack[i].path \in Path /\ pathStack[i].live \in BOOLEAN
  /\ mods \in [Path -> {"absent", "stub", "prepared"}]
  /\ \A i \in DOMAIN order : order[i] \in Opened
  /\ exports \in [Path -> SUBSET (Symbol \X Path)]
  /\ hasErr \in BOOLEAN /\ status \in {"running", "ok", "failed"}

\* An importer is handed only modules whose analysis is finished, although a
\* module is in the table, as a stub, while it is analysed: the path stack must
\* be looked at before the table (the comment at driver.c:645).
ImportersGetPrepared == ret \in Path => mods[ret] = "prepared"

\* A stub in the table belongs to a module in analysis: one that failed was
\* destroyed and must not be found again.
StubsInAnalysis == \A p \in Path : mods[p] = "stub" <=> p \in FramePaths

\* In the module order every module stands behind all modules it imports, and
\* stays in the table: the generic instances, the finalisation and the C
\* backend go through this order.
OrderTopological ==
  \A i \in DOMAIN order :
    /\ mods[order[i]] = "prepared"
    /\ \A q \in Successors(order[i]) : \E j \in 1..(i - 1) : order[j] = q

\* Without an error, a module's export table has what it and the modules it
\* re-exports by path, directly or through others, define.
ExportsExact ==
  ~ hasErr => \A p \in Path : mods[p] = "prepared" =>
    exports[p] = Defined(Reach({p}, Reexports(FALSE)))

\* A program that compiles has no circular import, and each of its modules was
\* compiled exactly once; one that does not fails for a reason of its own: a
\* module that is wrong, an import without a file, a conflict of exported names
\* or a circular import.  A diamond of imports is none.
VerdictRight ==
  /\ status = "ok" =>
       /\ ~ Cyclic
       /\ {order[i] : i \in DOMAIN order} = Reach({Entry}, Graph)
       /\ \A i, j \in DOMAIN order : order[i] = order[j] => i = j
  /\ status = "failed" =>
       \/ Cyclic
       \/ \E p \in Opened : src[p].fault # "none"
       \/ \E p \in Opened : \E i \in DOMAIN Imports(p) : Imports(p)[i].to = Missing
       \/ \E p \in Path : \E x, y \in Defined(Reach({p}, Reexports(FALSE))) :
            x[1] = y[1] /\ x # y

\* Compilation ends for every import graph, circular ones included.
Terminates == <>(status # "running")

\* A proxy export forwards the export table of the module it names, however
\* that is named.
ReexportsForwarded ==
  ~ hasErr => \A p \in Path : mods[p] = "prepared" =>
    exports[p] = Defined(Reach({p}, Reexports(TRUE)))
=============================================================================
