------------------------------ MODULE FuncBody ------------------------------
(***************************************************************************)
(* One function body on its way through the compiler: Pass 3a builds its   *)
(* scopes, rewrites `defer` and analyses the return paths, Pass 3b tracks  *)
(* which variable is definitely assigned, `__init__` bodies get the field  *)
(* check of init_tdz.c, and a body nothing was reported for is evaluated   *)
(* (ctfe_stmt.c; the C backend lowers the same tree in the same order).    *)
(*                                                                         *)
(* The analyses follow one storage location: a local declared `undefined`  *)
(* before the body, or the field of `self` in `__init__`.  A condition     *)
(* may read it; what a condition evaluates to is left open.                *)
(***************************************************************************)
EXTENDS Naturals, SequencesExt

CONSTANTS
  Functions, \* records [kind : {"var", "field"}, value : BOOLEAN, body : block]
  Nesting,   \* bound: how deep the blocks of a body nest
  Budget,    \* ctx->budget: statements an evaluation may execute
  DeferCap   \* length of collect_defer_calls' buffer (64)

Loops == {"while", "dowhile", "for"}
Jumps == {"ret", "brk", "cont"}
Ops == Loops \cup Jumps \cup {"if", "switch", "block", "set", "use", "panic", "defer", "def", "call"}

\* What the parser builds: the blocks of each construct, at most one simple
\* statement before and one after each round of a `for`.
Formed(s) ==
  /\ s.op \in Loops \cup {"block"} => Len(s.subs) = 1
  /\ s.op = "if" => Len(s.subs) = 2
  /\ \A h \in {s.init, s.update} : h # <<>> => /\ Len(h) = 1 /\ s.op = "for"
                                               /\ h[1].op \in {"use", "set"}

\* Statements over the given blocks.  `subs` holds a statement's blocks in
\* source order, `defers` the calls attached to a jump.
Statements(blocks) ==
  {s \in [op : Ops, reads : BOOLEAN, id : Nat, dflt : BOOLEAN, subs : Seq(blocks),
          init : blocks, update : blocks, defers : Seq(Nat)] : Formed(s)}

\* The blocks that nest at most n deep.
Level[n \in Nat] == IF n = 0 THEN {<<>>} ELSE Seq(Statements(Level[n - 1]))
Blocks == Level[Nesting]

ASSUME FuncBodyAssumption ==
  /\ Nesting \in Nat /\ Budget \in Nat /\ DeferCap \in Nat
  /\ \A f \in Functions : /\ f.kind \in {"var", "field"} /\ f.value \in BOOLEAN /\ f.body \in Blocks
                          /\ f.kind = "field" => ~f.value

Node(op) == [op |-> op, reads |-> FALSE, id |-> 0, dflt |-> FALSE, subs |-> <<>>,
             init |-> <<>>, update |-> <<>>, defers |-> <<>>]

-----------------------------------------------------------------------------
(* Pass 3a. *)

\* The defers a block registers, last first.
Registered[b \in Blocks] ==
  IF b = <<>> THEN <<>>
  ELSE Registered[Tail(b)] \o (IF Head(b).op = "defer" THEN <<Head(b).id>> ELSE <<>>)

\* Mutant: a jump calls the defers of its own block only.
ExitCallsOwnBlock(b, i, outer) == Registered[SubSeq(b, 1, i)]

\* The calls attached to a jump at statement i of a block: the block's own
\* defers so far, then those of every enclosing block of the function.
ExitCalls(b, i, outer) ==
  LET all == Registered[SubSeq(b, 1, i)] \o outer
  IN SubSeq(all, 1, IF Len(all) < DeferCap THEN Len(all) ELSE DeferCap)

\* A defer becomes a local function, a jump carries the calls it makes, and
\* the block ends with a call per defer.  The whole block is rewritten before
\* any nested block, which therefore sees all of its defers.
Desugar[b \in Blocks] == [outer \in Seq(Nat) |->
  LET own == Registered[b]
      Rewrite(i) ==
        CASE b[i].op = "defer" -> [b[i] EXCEPT !.op = "def"]
          [] b[i].op \in Jumps -> [b[i] EXCEPT !.defers = ExitCalls(b, i, outer)]
          [] OTHER -> [b[i] EXCEPT !.subs = [j \in DOMAIN @ |-> Desugar[@[j]][own \o outer]]]
  IN [i \in DOMAIN b |-> Rewrite(i)] \o [i \in DOMAIN own |-> [Node("call") EXCEPT !.id = own[i]]]]

\* Mutant: a switch without default counts as returning.
ReturnsOnNoDefault(s, inner) ==
  \/ s.op = "ret"
  \/ s.op \in {"block", "if", "switch"} /\ \A j \in DOMAIN inner : inner[j].rets

\* Does a statement return on every path, given whether its blocks do?
ReturnsOn(s, inner) ==
  \/ s.op = "ret"
  \/ s.op \in {"block", "if"} /\ \A j \in DOMAIN inner : inner[j].rets
  \/ s.op = "switch" /\ s.dflt /\ \A j \in DOMAIN inner : inner[j].rets

\* Whether the block returns on every path, and whether it is well formed:
\* nothing the user wrote follows such a statement, jumps are inside loops
\* (loop_depth > 0).
BuildBlock[b \in Blocks] == [inLoop \in BOOLEAN |->
  IF b = <<>> THEN [rets |-> FALSE, ok |-> TRUE]
  ELSE LET s     == Head(b)
           inner == [j \in DOMAIN s.subs |-> BuildBlock[s.subs[j]][inLoop \/ s.op \in Loops]]
           rest  == BuildBlock[Tail(b)][inLoop]
       IN [rets |-> ReturnsOn(s, inner) \/ rest.rets,
           ok   |-> /\ \A j \in DOMAIN inner : inner[j].ok
                    /\ s.op \in {"brk", "cont"} => inLoop
                    /\ IF ReturnsOn(s, inner) THEN \A i \in DOMAIN b : i > 1 => b[i].op = "call"
                                             ELSE rest.ok]]

\* build_func_tree: a function with a result must return on all paths.
BuildAccepts(f, b) ==
  LET r == BuildBlock[b][FALSE] IN r.ok /\ (f.value => r.rets)

-----------------------------------------------------------------------------
(* Pass 3b: init is flow_init of the variable, rets definitely_returns. *)

Flow(init, rets, ok) == [init |-> init, rets |-> rets, ok |-> ok]

Read(s, init) == s.reads => init

\* What an analysis says of a statement's blocks.
Arms(analysis, s, init) == [j \in DOMAIN s.subs |-> analysis[s.subs[j]][init]]
AllOk(arms) == \A j \in DOMAIN arms : arms[j].ok
AllReturn(arms) == \A j \in DOMAIN arms : arms[j].rets

\* Mutant: one branch that assigns is enough.
MeetIfAny(then, els) == then.init \/ els.init

\* A branch that returns does not take part where the paths of an `if` meet.
MeetIf(then, els) ==
  CASE then.rets /\ ~els.rets -> els.init
    [] els.rets  -> then.init
    [] OTHER     -> then.init /\ els.init

\* All branches of a `switch` take part; without default so does no branch.
MeetSwitch(s, before, arms) ==
  IF arms = <<>> THEN before
  ELSE /\ \A j \in DOMAIN arms : arms[j].init
       /\ s.dflt \/ before

\* What a loop body or a `for` header assigns is forgotten after the loop; a
\* do-while condition and a `for` update are read in the state after the body.
\* (`walk` is the analysis of the blocks.)
WalkLoop(walk, s, init) ==
  LET pre  == walk[s.init][init]
      body == walk[s.subs[1]][pre.init]
      upd  == walk[s.update][body.init]
  IN Flow(init, FALSE, /\ pre.ok /\ body.ok /\ upd.ok
                       /\ Read(s, IF s.op = "dowhile" THEN body.init ELSE pre.init))

WalkStmt(walk, s, init) ==
  LET arm == Arms(walk, s, init)
      ok  == Read(s, init) /\ AllOk(arm)
  IN CASE s.op = "set"    -> Flow(TRUE, FALSE, Read(s, init))
       [] s.op \in {"ret", "panic"} -> Flow(init, TRUE, Read(s, init))
       [] s.op = "block"  -> Flow(arm[1].init, arm[1].rets, ok)
       [] s.op = "if"     -> Flow(MeetIf(arm[1], arm[2]), arm[1].rets /\ arm[2].rets, ok)
       [] s.op = "switch" -> Flow(MeetSwitch(s, init, arm), s.dflt /\ AllReturn(arm), ok)
       [] s.op \in Loops  -> WalkLoop(walk, s, init)
       [] OTHER -> Flow(init, FALSE, Read(s, init))

\* Statements behind one that definitely returns are not looked at.
WalkBlock[b \in Blocks] == [init \in BOOLEAN |->
  IF b = <<>> THEN Flow(init, FALSE, TRUE)
  ELSE LET r    == WalkStmt(WalkBlock, Head(b), init)
           rest == WalkBlock[Tail(b)][r.init]
       IN IF r.rets THEN r ELSE Flow(rest.init, rest.rets, r.ok /\ rest.ok)]

-----------------------------------------------------------------------------
(* init_tdz.c: the field of self in an `__init__` body.  Statements it has   *)
(* no case for leave the state as it is and are not looked into.             *)

Fields(init, ok) == [init |-> init, ok |-> ok]

MeetFields(then, els) == then.init /\ els.init

TdzStmt(tdz, s, init) ==
  LET arm == Arms(tdz, s, init)
      ok  == Read(s, init) /\ AllOk(arm)
  IN CASE s.op = "use"   -> Fields(init, Read(s, init))
       [] s.op = "set"   -> Fields(TRUE, Read(s, init))
       [] s.op = "ret"   -> Fields(init, Read(s, init) /\ init)
       [] s.op = "block" -> arm[1]
       [] s.op = "if"    -> Fields(MeetFields(arm[1], arm[2]), ok)
       [] s.op = "while" -> Fields(init, ok)
       [] OTHER -> Fields(init, TRUE)

TdzBlock[b \in Blocks] == [init \in BOOLEAN |->
  IF b = <<>> THEN Fields(init, TRUE)
  ELSE LET r    == TdzStmt(TdzBlock, Head(b), init)
           rest == TdzBlock[Tail(b)][r.init]
       IN Fields(rest.init, r.ok /\ rest.ok)]

\* Mutant: the end of the body is not a return.
TdzAcceptsOpenEnd(b) == TdzBlock[b][FALSE].ok

\* sema_check_init_body: falling off the end counts as a return.
TdzAccepts(b) == LET r == TdzBlock[b][FALSE] IN r.ok /\ r.init

\* A parameter such as self is assigned on entry; a local is not.
WalkAccepts(f, b) ==
  /\ WalkBlock[b][f.kind = "field"].ok
  /\ f.kind = "field" => TdzAccepts(b)

-----------------------------------------------------------------------------
(* Where the analyses do not look.                                           *)

\* A `continue` goes to the condition of a do-while or the update of a `for`
\* in the state at the `continue`, which walk_dowhile and walk_for do not take
\* into account.  NoSkip: no such part reads the location; `behind` says that
\* the loop around the block has one that does.
ReadsBehind(s) == (s.op = "dowhile" /\ s.reads) \/ (s.update # <<>> /\ s.update[1].reads)

NoSkip[b \in Blocks] == [behind \in BOOLEAN |->
  b # <<>> => LET s == Head(b)
              IN /\ s.op = "cont" => ~behind
                 /\ \A j \in DOMAIN s.subs :
                      NoSkip[s.subs[j]][IF s.op \in Loops THEN ReadsBehind(s) ELSE behind]
                 /\ NoSkip[Tail(b)][behind]]

\* check_stmt has a case for every compound statement of the block.
Examined[b \in Blocks] ==
  b # <<>> => /\ Head(b).op \notin {"switch", "dowhile", "for"}
              /\ \A j \in DOMAIN Head(b).subs : Examined[Head(b).subs[j]]
              /\ Examined[Tail(b)]

\* The premises of NoUninitRead and FieldsAssigned.
LooksBehind == \A f \in Functions : f.kind = "var" => NoSkip[Desugar[f.body][<<>>]][FALSE]
LooksInside == \A f \in Functions : f.kind = "field" => Examined[Desugar[f.body][<<>>]]

-----------------------------------------------------------------------------
(* The compiler's passes and the evaluation. *)

VARIABLES
  fn,     \* the function
  body,   \* its body, rewritten by Pass 3a
  phase,  \* the pass, or how the evaluation ended
  k,      \* the blocks being executed, innermost last
  budget, \* ctx->budget
  x,      \* has the tracked location been assigned?
  uninit, \* history: it has been read before it was assigned
  ran,    \* history: the deferred bodies executed
  due     \* history: the deferred bodies whose scope has been left, last first in each

vars == <<fn, body, phase, k, budget, x, uninit, ran, due>>

Ends == {"rejected", "returned", "fell", "panicked", "exceeded"}

\* An entered block: what is left of it, which part of it comes next, whether
\* it is a loop body, and the defers reached in it (history).  Opening the
\* block is a charged step; a loop stays at the head of its block, as the part
\* of it that comes next, while its body runs.
Enter(b, loop, rest) ==
  Append(rest, [stmts |-> b, part |-> "open", loop |-> loop, reached |-> <<>>])

Top == k[Len(k)]
Stmt == Head(Top.stmts)
Advance == [k EXCEPT ![Len(k)].stmts = Tail(@), ![Len(k)].part = "stmt"]
Become(part) == [k EXCEPT ![Len(k)].part = part]

Init ==
  /\ fn \in Functions
  /\ body = fn.body /\ phase = "build"
  /\ k = <<>> /\ budget = Budget
  /\ x = FALSE /\ uninit = FALSE
  /\ ran = <<>> /\ due = <<>>

\* Pass 3a; its errors keep Pass 3b from running.
Build ==
  /\ phase = "build"
  /\ body' = Desugar[body][<<>>]
  /\ phase' = IF BuildAccepts(fn, body') THEN "walk" ELSE "rejected"
  /\ UNCHANGED <<fn, k, budget, x, uninit, ran, due>>

\* Pass 3b; its errors keep the body from being evaluated.
Walk ==
  /\ phase = "walk"
  /\ IF WalkAccepts(fn, body)
     THEN phase' = "run" /\ k' = Enter(body, FALSE, <<>>)
     ELSE phase' = "rejected" /\ k' = <<>>
  /\ UNCHANGED <<fn, body, budget, x, uninit, ran, due>>

\* The end of the innermost block, or the operation ahead.
Done == Top.part = "stmt" /\ Top.stmts = <<>>
Ahead == IF Top.part = "stmt" THEN Stmt.op ELSE Top.part

\* What the step ahead takes off the budget: one for a statement and one for
\* each call attached to a jump, whose bodies are not looked into.  A loop's
\* own tests cost nothing, since each round opens the body.
Tests == {"test", "until", "head"}
Cost == CASE Ahead \in Tests -> 0
          [] Ahead \in Jumps -> 1 + Len(Stmt.defers)
          [] OTHER -> 1

\* Before a `while` or `for` test, too, something must be left.
Affordable == budget >= Cost /\ (Ahead \in {"test", "head"} => budget > 0)

\* ctfe_eval_stmt_core charges every statement before it runs it.
Charge == Affordable /\ budget' = budget - Cost

Exec(op) ==
  /\ phase = "run" /\ ~Done /\ Ahead = op
  /\ Charge
  /\ UNCHANGED <<fn, body>>

Reading(s) == uninit' = (uninit \/ (s.reads /\ ~x))

Use == /\ Exec("use") /\ Reading(Stmt) /\ k' = Advance
       /\ UNCHANGED <<phase, x, ran, due>>

Set == /\ Exec("set") /\ Reading(Stmt) /\ x' = TRUE /\ k' = Advance
       /\ UNCHANGED <<phase, ran, due>>

\* The local function __defer_N is bound where the defer stood.
Def == /\ Exec("def")
       /\ k' = [Advance EXCEPT ![Len(k)].reached = <<Stmt.id>> \o @]
       /\ UNCHANGED <<phase, x, uninit, ran, due>>

Call == /\ Exec("call") /\ ran' = Append(ran, Stmt.id) /\ k' = Advance
        /\ UNCHANGED <<phase, x, uninit, due>>

\* A call of a function that does not return.
Panic == /\ Exec("panic") /\ phase' = "panicked" /\ k' = <<>>
         /\ UNCHANGED <<x, uninit, ran, due>>

\* An empty else is no else.
Branch == /\ Exec("if") /\ Reading(Stmt)
          /\ \/ k' = Enter(Stmt.subs[1], FALSE, Advance)
             \/ k' = IF Stmt.subs[2] = <<>> THEN Advance
                     ELSE Enter(Stmt.subs[2], FALSE, Advance)
          /\ UNCHANGED <<phase, x, ran, due>>

\* No fallthrough; without default the switch may match nothing.
Switch == /\ Exec("switch") /\ Reading(Stmt)
          /\ \/ ~Stmt.dflt /\ k' = Advance
             \/ \E j \in DOMAIN Stmt.subs : k' = Enter(Stmt.subs[j], FALSE, Advance)
          /\ UNCHANGED <<phase, x, ran, due>>

Block == /\ Exec("block") /\ k' = Enter(Stmt.subs[1], FALSE, Advance)
         /\ UNCHANGED <<phase, x, uninit, ran, due>>

\* The opening of a block and the steps of a loop that read nothing.
Pass(op, next) == /\ Exec(op) /\ k' = next
                  /\ UNCHANGED <<phase, x, uninit, ran, due>>

Open == Pass("open", Become("stmt"))
While == Pass("while", Become("test"))
DoWhile == Pass("dowhile", Enter(Stmt.subs[1], TRUE, Become("until")))
For == Pass("for", Become(IF Stmt.init = <<>> THEN "head" ELSE "init"))

Test(op, next) ==
  /\ Exec(op) /\ Reading(Stmt)
  /\ k' \in {Advance, Enter(Stmt.subs[1], TRUE, Become(next))}
  /\ UNCHANGED <<phase, x, ran, due>>

WhileTest == Test("test", "test")
DoTest == Test("until", "until")
ForTest == Test("head", IF Stmt.update = <<>> THEN "head" ELSE "update")

\* The init or update statement of a `for`.
Header(op, s) ==
  /\ Exec(op) /\ Reading(s)
  /\ x' = (x \/ s.op = "set")
  /\ k' = Become("head")
  /\ UNCHANGED <<phase, ran, due>>

ForInit == Header("init", Stmt.init[1])
ForUpdate == Header("update", Stmt.update[1])

\* The innermost loop body, and the defers of the blocks from n inwards, which
\* a step leaves.
LoopBody == CHOOSE n \in DOMAIN k : k[n].loop /\ \A m \in DOMAIN k : m > n => ~k[m].loop
Left(n) == due \o FlattenSeq(Reverse([i \in 1..(Len(k) + 1 - n) |-> k[n - 1 + i].reached]))

Return == /\ Exec("ret") /\ Reading(Stmt)
          /\ ran' = ran \o Stmt.defers /\ due' = Left(1)
          /\ k' = <<>> /\ phase' = "returned"
          /\ UNCHANGED x

\* A jump leaves the loop body; a `break` goes on behind the loop, a `continue`
\* with its next part.
Outside == SubSeq(k, 1, LoopBody - 1)

Jump(op, next) == /\ Exec(op)
                  /\ ran' = ran \o Stmt.defers /\ due' = Left(LoopBody)
                  /\ k' = next
                  /\ UNCHANGED <<phase, x, uninit>>

Break == Jump("brk", [Outside EXCEPT ![Len(Outside)].stmts = Tail(@), ![Len(Outside)].part = "stmt"])
Continue == Jump("cont", Outside)

\* The end of a block: its statements, calls of defers included, are done.
Leave ==
  /\ phase = "run" /\ Done
  /\ due' = Left(Len(k)) /\ k' = Front(k)
  /\ phase' = IF Len(k) = 1 THEN "fell" ELSE "run"
  /\ UNCHANGED <<fn, body, budget, x, uninit, ran>>

\* "ctfe: evaluation budget exceeded"
Exceed ==
  /\ phase = "run" /\ ~Done /\ ~Affordable
  /\ phase' = "exceeded" /\ k' = <<>>
  /\ UNCHANGED <<fn, body, budget, x, uninit, ran, due>>

Next ==
  \/ Build \/ Walk
  \/ Use \/ Set \/ Def \/ Call \/ Panic
  \/ Branch \/ Switch \/ Block \/ Open
  \/ While \/ WhileTest \/ DoWhile \/ DoTest
  \/ For \/ ForInit \/ ForTest \/ ForUpdate
  \/ Return \/ Break \/ Continue
  \/ Leave \/ Exceed

Spec == Init /\ [][Next]_vars

-----------------------------------------------------------------------------
(* Properties. *)

\* Every variable has its type; only a running body has entered blocks.
TypeOK ==
  /\ fn \in Functions
  /\ phase \in {"build", "walk", "run"} \cup Ends
  /\ budget \in 0..Budget
  /\ x \in BOOLEAN /\ uninit \in BOOLEAN
  /\ (phase = "run") <=> (k # <<>>)

\* Definite assignment is sound: a body that both passes accept never reads
\* the variable (or the field of self) before it was assigned, whatever its
\* conditions evaluate to (stmt_flow.c, init_tdz.c).
NoUninitRead == ~uninit

\* Return-path analysis is sound: an accepted function with a result never
\* runs into the end of its body (stmt_build_block.c).
AlwaysReturns == phase = "fell" => ~fn.value

\* An accepted `__init__` returns, explicitly or at its end, only with the
\* field assigned (init_tdz.c).
FieldsAssigned == fn.kind = "field" /\ phase \in {"returned", "fell"} => x

\* The rewriting of defer keeps its meaning: when a statement of the user's or
\* the caller goes on, exactly the defers of the scopes left so far have run,
\* each scope's last first, inner scopes before outer ones (stmt_build_defer.c).
DefersOnExit ==
  \/ phase = "run" /\ (Done \/ Ahead = "call")
  \/ phase \in {"panicked", "exceeded"}
  \/ ran = due
=============================================================================
