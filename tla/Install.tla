------------------------------ MODULE Install ------------------------------
(***************************************************************************)
(* `clux install` and `clux.lock`: the postinstall hooks of a package tree *)
(* (src/cmd/install.c), the marker file that caches a hook that succeeded, *)
(* and the lockfile that install writes and `--locked` verifies            *)
(* (src/module/lockfile.c).                                                *)
(*                                                                         *)
(* The file system is shared and survives crashes.  Each command           *)
(* invocation is a process that walks the tree with an explicit stack in   *)
(* place of the C recursion, one step per access to the file system, so    *)
(* that other processes, the user and a crash can come between any two of  *)
(* them.  File contents are abstract values and SHA-256 is injective: a    *)
(* digest is represented by the text it was computed from.                 *)
(***************************************************************************)
EXTENDS Naturals, Sequences, FiniteSets

CONSTANTS
  Pkg,          \* package directories of the tree
  Root,         \* the directory package_find arrives at
  Deps,         \* Deps[p]: subdirectories of p/deps in strcmp order
  InstallMaxDepth, \* INSTALL_MAX_DEPTH of install.c
  LockMaxDepth, \* the literal 8 of collect_packages
  Id,           \* name and version of a package
  Cmd,          \* postinstall commands
  Manifest,     \* contents of clux.mod: [id, cmd, art]
  Scripted,     \* commands from which infer_script derives a script file
  NoCmd,        \* "declares no postinstall command"
  Content,      \* contents of a script or of a native artifact
  Absent,       \* the file does not exist
  Bad,          \* a clux.mod that does not parse or has the wrong schema
  Torn,         \* a file truncated by fopen "wb" and not yet (fully) written
  Target,       \* this platform, "OS-ARCH"
  OtherTarget,  \* another platform
  Process,      \* command invocations that may overlap
  MaxRuns,      \* bound on the number of invocations
  MaxEdits      \* bound on the number of edits by the user

(* what sha256(command, script) and the elements of clux.lock stand for *)
NoScript == "no script"
HookHash == Cmd \X (Content \cup {NoScript})
Entry    == [id : Id, mod : Manifest \cup {Bad},
             cmd : Cmd \cup {NoCmd}, scr : Content \cup {NoScript},
             art : Content \cup {Absent}]
Entries  == [Pkg -> Entry \cup {Absent}]     \* Absent: not listed
LockFile == [target : {Target, OtherTarget}, pkgs : Entries]

ASSUME InstallAssumption ==
  /\ Root \in Pkg
  /\ Deps \in [Pkg -> Seq(Pkg)]
  /\ InstallMaxDepth \in Nat /\ LockMaxDepth \in Nat
  /\ LockMaxDepth <= InstallMaxDepth            \* both are 8
  /\ MaxRuns \in Nat /\ MaxEdits \in Nat
  /\ Manifest \subseteq [id : Id, cmd : Cmd \cup {NoCmd}, art : BOOLEAN]
  /\ {Absent, Bad} \cap Manifest = {}
  /\ NoCmd \notin Cmd /\ Absent \notin Content
  /\ {Absent, Torn} \cap HookHash = {} /\ {Absent, Torn} \cap LockFile = {}

VARIABLES
  mod,     \* mod[p]: the text of p/clux.mod
  script,  \* script[p]: the file the postinstall command of p names
  art,     \* art[p]: the path-like native.link / native.runtime artifact of p
  marker,  \* marker[p]: first line of p/.clux/postinstall.ok
  lock,    \* the text of Root/clux.lock
  proc,    \* proc[i]: the local state of command invocation i
  ran,     \* history: ran[p], the hook hashes whose hook has succeeded in p
  runs,    \* number of invocations so far
  edits    \* number of edits so far

fs   == <<mod, script, art, marker, lock>>
vars == <<mod, script, art, marker, lock, proc, ran, runs, edits>>

-----------------------------------------------------------------------------
(* Contents of files and of the values derived from them *)

(* clux_lock_postinstall_script: false iff a script is inferred but missing *)
ScriptOk(p, c)   == c \in Scripted => script[p] # Absent
ScriptHash(p, c) == IF c \in Scripted /\ script[p] # Absent THEN script[p] ELSE NoScript

(* run_one: sha256(cmd "\n" script hash) *)
HookKey(p, c) == <<c, ScriptHash(p, c)>>

(* collect_artifacts: false iff a listed artifact is missing *)
ArtOk(p, m)   == m.art => art[p] # Absent
ArtHash(p, m) == IF m.art THEN art[p] ELSE Absent

(* One element of "packages": name/version, command and the list of         *)
(* artifacts come from the descriptor d parsed by collect_packages, the     *)
(* hashes from the files as they are when the node is hashed.               *)
EntryOf(p, d) == [id |-> d.id, mod |-> mod[p], cmd |-> d.cmd,
                  scr |-> IF d.cmd = NoCmd THEN NoScript ELSE ScriptHash(p, d.cmd),
                  art |-> ArtHash(p, d)]
EntryOk(p, d) == /\ mod[p] # Absent
                 /\ ArtOk(p, d)
                 /\ d.cmd # NoCmd => ScriptOk(p, d.cmd)

-----------------------------------------------------------------------------
(* A process *)

Idle == [pc |-> "idle", allow |-> FALSE, force |-> FALSE, locked |-> FALSE,
         stack |-> <<>>, failed |-> FALSE, key |-> Absent, nodes |-> <<>>,
         pkgs |-> [p \in Pkg |-> Absent], rc |-> 1]

Frame(p)    == [pkg |-> p, todo |-> <<>>, loaded |-> FALSE, desc |-> Bad]
Top(s)      == s[Len(s)]
Pop(s)      == [k \in 1..(Len(s) - 1) |-> s[k]]
Depth(s)    == Len(s) - 1        \* the `depth` argument of the top call
SetTop(s, f) == [s EXCEPT ![Len(s)] = f]

Update(i, r) == proc' = [proc EXCEPT ![i] = r]
Finish(i, rc) == Update(i, [Idle EXCEPT !.pc = "done", !.rc = rc])

(* cmd_install, up to install_tree or clux_lock_verify; cmd_build --locked  *)
(* enters the same verification through clux_lock_verify_for_source.        *)
Start(i, allow, force, locked) ==
  /\ proc[i].pc \in {"idle", "done", "crashed"}
  /\ runs < MaxRuns
  /\ runs' = runs + 1
  /\ IF mod[Root] \in {Absent, Bad} THEN Finish(i, 1)
     ELSE Update(i, [Idle EXCEPT
            !.pc = IF locked THEN "slurp" ELSE "tree",
            !.allow = allow /\ ~locked, !.force = force /\ ~locked, !.locked = locked,
            !.stack = <<Frame(Root)>>])
  /\ UNCHANGED <<mod, script, art, marker, lock, ran, edits>>

-----------------------------------------------------------------------------
(* install_tree *)

(* depth > INSTALL_MAX_DEPTH: return, silently; a package that cannot be    *)
(* loaded fails the install and neither it nor its dependencies are run.    *)
TreeEnter(i) ==
  LET s == proc[i].stack
      f == Top(s)
      p == f.pkg
  IN /\ proc[i].pc = "tree" /\ s # <<>> /\ ~f.loaded
     /\ Update(i,
          IF Depth(s) > InstallMaxDepth THEN [proc[i] EXCEPT !.stack = Pop(s)]
          ELSE IF mod[p] \in {Absent, Bad}
               THEN [proc[i] EXCEPT !.stack = Pop(s), !.failed = TRUE]
               ELSE [proc[i] EXCEPT !.stack = SetTop(s,
                       [pkg |-> p, todo |-> Deps[p], loaded |-> TRUE, desc |-> mod[p]])])
     /\ UNCHANGED <<mod, script, art, marker, lock, ran, runs, edits>>

(* mutant: the loop index is not advanced *)
TreeDescendStuck(i) ==
  LET s == proc[i].stack
      f == Top(s)
  IN /\ proc[i].pc \in {"tree", "collect"} /\ s # <<>> /\ f.loaded /\ f.todo # <<>>
     /\ Update(i, [proc[i] EXCEPT !.stack = Append(s, Frame(Head(f.todo)))])
     /\ UNCHANGED <<mod, script, art, marker, lock, ran, runs, edits>>

(* the loop over the subdirectories of deps/, here and in collect_packages: *)
(* the recursive call for one that has a clux.mod                           *)
TreeDescend(i) ==
  LET s == proc[i].stack
      f == Top(s)
      rest == SetTop(s, [f EXCEPT !.todo = Tail(f.todo)])
  IN /\ proc[i].pc \in {"tree", "collect"} /\ s # <<>> /\ f.loaded /\ f.todo # <<>>
     /\ Update(i, [proc[i] EXCEPT
          !.stack = IF mod[Head(f.todo)] = Absent THEN rest
                    ELSE Append(rest, Frame(Head(f.todo)))])
     /\ UNCHANGED <<mod, script, art, marker, lock, ran, runs, edits>>

(* mutant: run_one is called before the loop over deps/ *)
RunOneFirst(i) ==
  LET s == proc[i].stack
      f == Top(s)
      c == f.desc.cmd
  IN /\ proc[i].pc = "tree" /\ s # <<>> /\ f.loaded
     /\ Update(i,
          IF c = NoCmd THEN [proc[i] EXCEPT !.stack = Pop(s)]
          ELSE IF ~proc[i].allow THEN [proc[i] EXCEPT !.stack = Pop(s), !.failed = TRUE]
          ELSE [proc[i] EXCEPT !.pc = "hook", !.key = HookKey(f.pkg, c)])
     /\ UNCHANGED <<mod, script, art, marker, lock, ran, runs, edits>>

(* run_one, up to run_command: no command, scripts not allowed, cached by   *)
(* the marker, or start the hook.                                           *)
RunOne(i) ==
  LET s == proc[i].stack
      f == Top(s)
      c == f.desc.cmd
      key == HookKey(f.pkg, c)
      cached == ~proc[i].force /\ marker[f.pkg] = key
  IN /\ proc[i].pc = "tree" /\ s # <<>> /\ f.loaded /\ f.todo = <<>>
     /\ Update(i,
          IF c = NoCmd THEN [proc[i] EXCEPT !.stack = Pop(s)]
          ELSE IF ~proc[i].allow THEN [proc[i] EXCEPT !.stack = Pop(s), !.failed = TRUE]
          ELSE IF cached THEN [proc[i] EXCEPT !.stack = Pop(s)]
          ELSE [proc[i] EXCEPT !.pc = "hook", !.key = key])
     /\ UNCHANGED <<mod, script, art, marker, lock, ran, runs, edits>>

(* mutant: the exit status of system() is dropped *)
HookEndsIgnored(i, ok, a) ==
  LET p == Top(proc[i].stack).pkg
      c == Top(proc[i].stack).desc.cmd
  IN /\ proc[i].pc = "hook"
     /\ art' = [art EXCEPT ![p] = a]
     /\ ran' = IF ok THEN [ran EXCEPT ![p] = @ \cup {HookKey(p, c)}] ELSE ran
     /\ Update(i, [proc[i] EXCEPT !.pc = "mark"])
     /\ UNCHANGED <<mod, script, marker, lock, runs, edits>>

(* run_command: system(cmd) with cwd in the package.  The hook may write    *)
(* the artifact, whether it succeeds or fails.                              *)
HookEnds(i, ok, a) ==
  LET p == Top(proc[i].stack).pkg
      c == Top(proc[i].stack).desc.cmd
  IN /\ proc[i].pc = "hook"
     /\ art' = [art EXCEPT ![p] = a]
     /\ ran' = IF ok THEN [ran EXCEPT ![p] = @ \cup {HookKey(p, c)}] ELSE ran
     /\ Update(i, IF ok THEN [proc[i] EXCEPT !.pc = "mark"]
                  ELSE [proc[i] EXCEPT !.pc = "tree", !.failed = TRUE,
                                       !.stack = Pop(proc[i].stack)])
     /\ UNCHANGED <<mod, script, marker, lock, runs, edits>>

(* write_marker: fopen "wb" truncates the file, or fails *)
MarkOpen(i, ok) ==
  LET p == Top(proc[i].stack).pkg
  IN /\ proc[i].pc = "mark"
     /\ marker' = IF ok THEN [marker EXCEPT ![p] = Torn] ELSE marker
     /\ Update(i, IF ok THEN [proc[i] EXCEPT !.pc = "markw"]
                  ELSE [proc[i] EXCEPT !.pc = "tree", !.failed = TRUE,
                                       !.stack = Pop(proc[i].stack)])
     /\ UNCHANGED <<mod, script, art, lock, ran, runs, edits>>

(* fprintf + fclose; their results are not looked at, so a write that does  *)
(* not reach the disk (`ok` false) goes unnoticed.                          *)
MarkWrite(i, ok) ==
  LET p == Top(proc[i].stack).pkg
  IN /\ proc[i].pc = "markw"
     /\ marker' = [marker EXCEPT ![p] = IF ok THEN proc[i].key ELSE Torn]
     /\ Update(i, [proc[i] EXCEPT !.pc = "tree", !.stack = Pop(proc[i].stack)])
     /\ UNCHANGED <<mod, script, art, lock, ran, runs, edits>>

(* mutant: st.failed is not looked at *)
TreeDoneAlways(i) ==
  /\ proc[i].pc = "tree" /\ proc[i].stack = <<>>
  /\ Update(i, [proc[i] EXCEPT !.pc = "collect", !.stack = <<Frame(Root)>>])
  /\ UNCHANGED <<mod, script, art, marker, lock, ran, runs, edits>>

(* back in cmd_install: any failure ends the command, otherwise             *)
(* clux_lock_write collects the packages                                    *)
TreeDone(i) ==
  /\ proc[i].pc = "tree" /\ proc[i].stack = <<>>
  /\ IF proc[i].failed THEN Finish(i, 1)
     ELSE Update(i, [proc[i] EXCEPT !.pc = "collect", !.stack = <<Frame(Root)>>])
  /\ UNCHANGED <<mod, script, art, marker, lock, ran, runs, edits>>

-----------------------------------------------------------------------------
(* collect_packages (post-order, as install_tree, but every problem is an   *)
(* error); used by both the writer and the verifier                         *)

CollectEnter(i) ==
  LET s == proc[i].stack
      f == Top(s)
      p == f.pkg
  IN /\ proc[i].pc = "collect" /\ s # <<>> /\ ~f.loaded
     /\ IF Depth(s) > LockMaxDepth \/ mod[p] \in {Absent, Bad}
        THEN Finish(i, 1)
        ELSE Update(i, [proc[i] EXCEPT !.stack = SetTop(s,
               [pkg |-> p, todo |-> Deps[p], loaded |-> TRUE, desc |-> mod[p]])])
     /\ UNCHANGED <<mod, script, art, marker, lock, ran, runs, edits>>

CollectPush(i) ==
  LET s == proc[i].stack
      f == Top(s)
  IN /\ proc[i].pc = "collect" /\ s # <<>> /\ f.loaded /\ f.todo = <<>>
     /\ Update(i, [proc[i] EXCEPT !.stack = Pop(s),
                                  !.nodes = Append(@, [pkg |-> f.pkg, desc |-> f.desc])])
     /\ UNCHANGED <<mod, script, art, marker, lock, ran, runs, edits>>

(* mutant: the number of packages is not compared *)
CollectDoneUncounted(i) ==
  /\ proc[i].pc = "collect" /\ proc[i].stack = <<>>
  /\ Update(i, [proc[i] EXCEPT !.pc = IF proc[i].locked THEN "verify" ELSE "hash"])
  /\ UNCHANGED <<mod, script, art, marker, lock, ran, runs, edits>>

(* the verifier compares the number of packages here *)
CollectDone(i) ==
  /\ proc[i].pc = "collect" /\ proc[i].stack = <<>>
  /\ IF ~proc[i].locked THEN Update(i, [proc[i] EXCEPT !.pc = "hash"])
     ELSE IF Cardinality({p \in Pkg : proc[i].pkgs[p] # Absent}) # Len(proc[i].nodes)
       THEN Finish(i, 1)
     ELSE Update(i, [proc[i] EXCEPT !.pc = "verify"])
  /\ UNCHANGED <<mod, script, art, marker, lock, ran, runs, edits>>

-----------------------------------------------------------------------------
(* write_lockfile *)

HashNode(i) ==
  LET n == Head(proc[i].nodes)
      p == n.pkg
      d == n.desc
  IN /\ proc[i].pc = "hash" /\ proc[i].nodes # <<>>
     /\ IF ~EntryOk(p, d) THEN Finish(i, 1)
        ELSE Update(i, [proc[i] EXCEPT !.nodes = Tail(@), !.pkgs[p] = EntryOf(p, d)])
     /\ UNCHANGED <<mod, script, art, marker, lock, ran, runs, edits>>

LockOpen(i, ok) ==
  /\ proc[i].pc = "hash" /\ proc[i].nodes = <<>>
  /\ lock' = IF ok THEN Torn ELSE lock
  /\ IF ok THEN Update(i, [proc[i] EXCEPT !.pc = "lockw"]) ELSE Finish(i, 1)
  /\ UNCHANGED <<mod, script, art, marker, ran, runs, edits>>

(* fwrite + fclose are checked: a short write is an error *)
LockWrite(i, ok) ==
  /\ proc[i].pc = "lockw"
  /\ lock' = IF ok THEN [target |-> Target, pkgs |-> proc[i].pkgs] ELSE Torn
  /\ Finish(i, IF ok THEN 0 ELSE 1)
  /\ UNCHANGED <<mod, script, art, marker, ran, runs, edits>>

-----------------------------------------------------------------------------
(* clux_lock_verify_impl *)

(* read and parse clux.lock, check version and platform *)
VerifyRead(i) ==
  /\ proc[i].pc = "slurp"
  /\ IF lock \in {Absent, Torn} THEN Finish(i, 1)
     ELSE IF lock.target # Target THEN Finish(i, 1)
     ELSE Update(i, [proc[i] EXCEPT !.pc = "collect", !.pkgs = lock.pkgs])
  /\ UNCHANGED <<mod, script, art, marker, lock, ran, runs, edits>>

(* one iteration: find_pkg, verify_node, build_hook, collect_artifacts *)
VerifyNode(i) ==
  LET n == Head(proc[i].nodes)
      p == n.pkg
      d == n.desc
  IN /\ proc[i].pc = "verify" /\ proc[i].nodes # <<>>
     /\ IF EntryOk(p, d) /\ proc[i].pkgs[p] = EntryOf(p, d)
        THEN Update(i, [proc[i] EXCEPT !.nodes = Tail(@)])
        ELSE Finish(i, 1)
     /\ UNCHANGED <<mod, script, art, marker, lock, ran, runs, edits>>

VerifyDone(i) ==
  /\ proc[i].pc = "verify" /\ proc[i].nodes = <<>>
  /\ Finish(i, 0)
  /\ UNCHANGED <<mod, script, art, marker, lock, ran, runs, edits>>

-----------------------------------------------------------------------------
(* The environment *)

Active(i) == proc[i].pc \notin {"idle", "done", "crashed"}

(* the process is killed, or the machine goes down: files keep their state *)
Crash(i) ==
  /\ Active(i)
  /\ Update(i, [Idle EXCEPT !.pc = "crashed"])
  /\ UNCHANGED <<mod, script, art, marker, lock, ran, runs, edits>>

(* the user changes the project while no command runs: edits a clux.mod, a  *)
(* script or an artifact, or checks out the lockfile of another platform    *)
Edit ==
  /\ edits < MaxEdits
  /\ \A i \in Process : ~Active(i)
  /\ edits' = edits + 1
  /\ \/ \E p \in Pkg, m \in Manifest \cup {Absent, Bad} :
          mod' = [mod EXCEPT ![p] = m] /\ UNCHANGED <<script, art, lock>>
     \/ \E p \in Pkg, c \in Content \cup {Absent} :
          script' = [script EXCEPT ![p] = c] /\ UNCHANGED <<mod, art, lock>>
     \/ \E p \in Pkg, c \in Content \cup {Absent} :
          art' = [art EXCEPT ![p] = c] /\ UNCHANGED <<mod, script, lock>>
     \/ /\ lock \notin {Absent, Torn}
        /\ lock' = [lock EXCEPT !.target = OtherTarget]
        /\ UNCHANGED <<mod, script, art>>
  /\ UNCHANGED <<marker, proc, ran, runs>>

-----------------------------------------------------------------------------
Init ==
  /\ mod \in [Pkg -> Manifest \cup {Absent}] /\ mod[Root] # Absent
  /\ script \in [Pkg -> Content]
  /\ art = [p \in Pkg |-> Absent]
  /\ marker = [p \in Pkg |-> Absent]
  /\ lock = Absent
  /\ proc = [i \in Process |-> Idle]
  /\ ran = [p \in Pkg |-> {}]
  /\ runs = 0
  /\ edits = 0

(* everything process i does by itself once it has been started *)
Step(i) ==
  \/ TreeEnter(i) \/ TreeDescend(i) \/ RunOne(i) \/ TreeDone(i)
  \/ \E ok \in BOOLEAN, a \in Content \cup {Absent} : HookEnds(i, ok, a)
  \/ \E ok \in BOOLEAN : MarkOpen(i, ok) \/ MarkWrite(i, ok)
  \/ CollectEnter(i) \/ CollectPush(i) \/ CollectDone(i)
  \/ HashNode(i)
  \/ \E ok \in BOOLEAN : LockOpen(i, ok) \/ LockWrite(i, ok)
  \/ VerifyRead(i) \/ VerifyNode(i) \/ VerifyDone(i)

Next ==
  \/ \E i \in Process : Step(i) \/ Crash(i)
  \/ \E i \in Process, allow, force, locked \in BOOLEAN : Start(i, allow, force, locked)
  \/ Edit

Spec == Init /\ [][Next]_vars

(* A command that has been started keeps running (the operating system      *)
(* schedules it and its hook, which ends), unless it crashes.               *)
FairSpec == Spec /\ \A i \in Process : WF_vars(Step(i))

-----------------------------------------------------------------------------
(* Properties *)

FrameType == [pkg : Pkg, todo : Seq(Pkg), loaded : BOOLEAN, desc : Manifest \cup {Bad}]
NodeType  == [pkg : Pkg, desc : Manifest]
PC == {"idle", "tree", "hook", "mark", "markw", "collect", "hash", "lockw",
       "slurp", "verify", "done", "crashed"}
ProcType  == [pc : PC, allow : BOOLEAN, force : BOOLEAN, locked : BOOLEAN,
              stack : Seq(FrameType), failed : BOOLEAN, key : HookHash \cup {Absent},
              nodes : Seq(NodeType), pkgs : Entries, rc : {0, 1}]

StackOK(r) == \A k \in 1..Len(r.stack) : r.stack[k].loaded => r.stack[k].desc \in Manifest
HookOK(r)  == r.pc \in {"hook", "mark", "markw"} =>
                /\ r.stack # <<>> /\ r.key \in HookHash
                /\ Top(r.stack).loaded /\ Top(r.stack).desc.cmd # NoCmd

(* Every file and every local variable of install.c and lockfile.c holds a  *)
(* value of its type; a loaded frame has a parsed clux.mod, and so has the  *)
(* package whose hook is running or being marked.                           *)
TypeOK ==
  /\ mod \in [Pkg -> Manifest \cup {Absent, Bad}]
  /\ script \in [Pkg -> Content \cup {Absent}]
  /\ art \in [Pkg -> Content \cup {Absent}]
  /\ marker \in [Pkg -> HookHash \cup {Absent, Torn}]
  /\ lock \in LockFile \cup {Absent, Torn}
  /\ proc \in [Process -> ProcType]
  /\ ran \in [Pkg -> SUBSET HookHash]
  /\ runs \in 0..MaxRuns /\ edits \in 0..MaxEdits
  /\ \A i \in Process : StackOK(proc[i]) /\ HookOK(proc[i])

(* run_one treats a hook as cached when the first line of postinstall.ok    *)
(* equals the hash of its command and script: a complete marker is only     *)
(* ever the hash of a hook that really ended with status 0 in that package, *)
(* whatever crashes, failed writes and overlapping installs come between.   *)
MarkerImpliesRan == \A p \in Pkg : marker[p] \in HookHash => marker[p] \in ran[p]

(* A clux.lock that was written to the end vouches for its hooks: for every *)
(* package it lists with a postinstall command, that command has succeeded  *)
(* with exactly the script whose hash the lock records.  It needs           *)
(* install_tree to visit every package collect_packages visits, although    *)
(* the two recursions treat their depth limits and errors differently.      *)
LockedHooksRan ==
  lock \in LockFile =>
    \A p \in Pkg : LET e == lock.pkgs[p]
                  IN e # Absent /\ e.cmd # NoCmd => <<e.cmd, e.scr>> \in ran[p]

(* "deps first, then root": while the hook of a package runs and nothing    *)
(* has failed in this invocation, the hook of each package under its deps/  *)
(* has already succeeded in its present form.                               *)
DepsFirst ==
  \A i \in Process : proc[i].pc = "hook" /\ ~proc[i].failed =>
    LET s == proc[i].stack
        deps == Deps[Top(s).pkg]
    IN Depth(s) < InstallMaxDepth =>
         \A k \in 1..Len(deps) :
           mod[deps[k]] \in Manifest =>
             LET c == mod[deps[k]].cmd
             IN c # NoCmd => HookKey(deps[k], c) \in ran[deps[k]]

(* The reference for clux.lock, from the file system alone: the packages    *)
(* below Root at each depth, and what the lock should say of each.          *)
Present(p)    == mod[p] # Absent
ChildrenOf(S) == UNION {{Deps[p][k] : k \in 1..Len(Deps[p])} : p \in S}
Level[n \in Nat] == IF n = 0 THEN {Root} \cap {p \in Pkg : Present(p)}
                    ELSE {p \in ChildrenOf(Level[n - 1]) : Present(p)}
TreePkgs  == UNION {Level[n] : n \in 0..LockMaxDepth}
TreeOk    == /\ Level[LockMaxDepth + 1] = {}
             /\ \A p \in TreePkgs : mod[p] \in Manifest /\ EntryOk(p, mod[p])
LockFresh == /\ lock \in LockFile /\ lock.target = Target
             /\ TreeOk
             /\ lock.pkgs = [p \in Pkg |-> IF p \in TreePkgs THEN EntryOf(p, mod[p])
                                          ELSE Absent]

Finishes(i) == Active(i) /\ proc[i]'.pc = "done"

(* The exit code tells the truth.  `--locked` exits with 0 if and only if    *)
(* clux.lock is complete, is for this platform and lists precisely the      *)
(* packages of the tree with their present contents: a lock cut short by a  *)
(* crash is never accepted.  And when `clux install` exits with 0, the lock *)
(* on disk is such a one, so that a later --locked can only fail because of *)
(* a change.                                                                *)
ExitCodeTrue ==
  [][\A i \in Process : Finishes(i) =>
       IF proc[i].locked THEN proc[i]'.rc = 0 <=> LockFresh
       ELSE proc[i]'.rc = 0 => LockFresh']_vars

(* Every command that starts ends, or is killed: no deps/ tree, however     *)
(* deep, makes one of the two recursions run forever.                       *)
CommandsEnd == \A i \in Process : Active(i) ~> ~Active(i)
=============================================================================
