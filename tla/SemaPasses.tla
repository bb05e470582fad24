----------------------------- MODULE SemaPasses -----------------------------
(***************************************************************************)
(* How the semantic analysis of one module settles its global compile-time *)
(* entities: the speculative rounds of src/src/sema/sema.c and             *)
(* sema_pass.c, the composition of structs of struct_compose.c, and the    *)
(* real passes that follow them up to the walk of the function bodies.     *)
(*                                                                         *)
(* Type definitions, struct types, function signatures, comptime variables *)
(* and global variables need one another in any order, so the analysis     *)
(* tries all of them again and again, throwing its diagnostics away, until *)
(* a round makes nothing new ready; it then runs the same passes once with *)
(* the real diagnostics.                                                   *)
(*                                                                         *)
(* A declaration is its place in the source, 1..N.  The names it mentions  *)
(* are grouped by when the analysis looks at them:                         *)
(*   needs   the names its own evaluation reads: the right side of a type, *)
(*           the field types of a struct, the types of a signature, the    *)
(*           initialiser of a variable; a function among them is called    *)
(*   embeds  the structs a struct embeds with `...Base`                    *)
(*   body    the names a function reads when it is called                  *)
(*   cold    the other names of a function's body, on a path no compile-   *)
(*           time call takes                                               *)
(* A type definition stands for one with a layout of its own (a pointer, a *)
(* slice, an array of known length) and a field for one held by value.     *)
(***************************************************************************)
EXTENDS Integers, FiniteSets

CONSTANTS
  N,           \* declarations of the module
  Undeclared,  \* a name that no declaration has
  MaxRounds,   \* speculative rounds at most: 8 in the code
  Programs     \* the modules analysed

Decl == 1..N
Name == Decl \cup {Undeclared}
Kind == {"type", "struct", "func", "comptime", "var"}
Program ==
  [Decl -> [kind : Kind, needs : SUBSET Name, embeds : SUBSET Name,
            body : SUBSET Name, cold : SUBSET Name]]

\* The programs the model speaks of: only structs embed, and what they embed
\* is a struct or not declared; only functions have a body; no field type calls
\* a function, and a function that is called calls none.
WellFormed(p) ==
  LET of(k)  == {d \in Decl : p[d].kind = k}
      called == UNION {p[d].needs \cap of("func") : d \in Decl}
  IN \A d \in Decl :
       /\ p[d].embeds \subseteq of("struct") \cup {Undeclared}
       /\ p[d].kind # "struct" => p[d].embeds = {}
       /\ p[d].kind # "func" => p[d].body = {} /\ p[d].cold = {}
       /\ p[d].kind = "struct" => p[d].needs \cap of("func") = {}
       /\ d \in called => p[d].body \cap of("func") = {}

ASSUME PassesAssumption ==
  /\ N \in Nat /\ MaxRounds \in Nat \ {0} /\ Undeclared \notin Decl
  /\ Programs \subseteq {p \in Program : WellFormed(p)}

VARIABLES
  prog,     \* the module
  pass,     \* the pass that runs
  final,    \* the real passes run, not a speculative round
  round,    \* speculative rounds begun
  pos,      \* the place in the source the pass has come to
  ready,    \* declarations with an active symbol, value or signature
  open,     \* structs with a materialised type object
  before,   \* ready when the round began
  wasOpen,  \* open when the round began
  checked,  \* the latch that lets a round look for cycles of structs once
  walked,   \* functions whose body was walked
  missed,   \* <<f, n>>: walking f did not resolve the name n of its body
  errs,     \* declarations with an error in the real diagnostics
  settled,  \* the rounds ended because one changed nothing at all
  verdict   \* "none", "accepted" or "rejected"

vars == <<prog, pass, final, round, pos, ready, open, before, wasOpen,
          checked, walked, missed, errs, settled, verdict>>

Of(kinds) == {d \in Decl : prog[d].kind \in kinds}
Structs   == Of({"struct"})
Funcs     == Of({"func"})

(***************************************************************************)
(* What an evaluation reads.  Constant evaluation never reads a global     *)
(* variable.  A type or a signature may name a struct that is materialised *)
(* but not sealed yet.  A function that is called must have its signature, *)
(* and its body must run.                                                  *)
(***************************************************************************)
Constants(S) == S \ Of({"var"})

Reads(d, S, o) ==
  Constants(S) \cup (IF prog[d].kind \in {"type", "func"} THEN o ELSE {})

Calls(d) == prog[d].needs \cap Funcs

\* sema_expr and sema_resolve_type_slot resolve every name of d.
Resolves(d, S, o) == prog[d].needs \cup prog[d].embeds \subseteq Reads(d, S, o)

Evaluates(d, S, o) ==
  /\ Resolves(d, S, o)
  /\ \A f \in Calls(d) : prog[f].body \subseteq Constants(S)

\* Walking a body resolves what is ready.
Unresolved(f, S) == (prog[f].body \cup prog[f].cold) \ S

(***************************************************************************)
(* The passes.  A pass goes through the source once and visits what it     *)
(* finds not ready; the visit may make other declarations ready.           *)
(***************************************************************************)
KindsOf(p) ==
  CASE p = "types"   -> {"type", "struct"}
    [] p = "sigs"    -> {"func"}
    [] p = "vars"    -> {"comptime", "var"}
    [] p = "ctvars"  -> {"comptime"}
    [] p = "globals" -> {"var"}
    [] OTHER         -> {}

(* mutant: a comptime variable leaves the source when it was visited once *)
PendingUnlinked ==
  {d \in Of(KindsOf(pass)) \ ready :
     d >= pos /\ ~ (round > 1 /\ prog[d].kind = "comptime")}

Pending == {d \in Of(KindsOf(pass)) \ ready : d >= pos}
Visits(d) == d \in Pending /\ \A e \in Pending : d <= e

\* Diagnostics of a speculative round go to a buffer that is dropped.
Reported(ds) == IF final THEN errs \cup ds ELSE errs

\* ctfe_ensure_walked: the first compile-time call of a function walks it,
\* with the diagnostics of the moment, and nothing walks it again.
EnsureWalked(fs, S) ==
  LET new == fs \ walked IN
  /\ walked' = walked \cup new
  /\ missed' = missed \cup {p \in new \X Name : p[2] \in Unresolved(p[1], S)}

WalkErrors(fs, S) == {f \in fs \ walked : Unresolved(f, S) # {}}

\* sema_eval_type_def, a signature of pass2_types, sema_eval_comptime_var and
\* sema_eval_global_var.
Evaluate(kinds) ==
  \E d \in Of(kinds) :
    /\ Visits(d)
    /\ LET called == IF Resolves(d, ready, open) THEN Calls(d) ELSE {}
           done   == Evaluates(d, ready, open)
       IN /\ EnsureWalked(called, ready)
          /\ ready' = IF done THEN ready \cup {d} ELSE ready
          /\ errs' = Reported((IF done THEN {} ELSE {d}) \cup WalkErrors(called, ready))
    /\ pos' = d + 1
    /\ UNCHANGED <<prog, pass, final, round, open, before, wasOpen, checked, settled, verdict>>

EvalTypeDef      == pass = "types" /\ Evaluate({"type"})
ResolveSignature == pass = "sigs" /\ Evaluate({"func"})
EvalComptimeVar  == pass \in {"vars", "ctvars"} /\ Evaluate({"comptime"})
EvalGlobalVar    == pass \in {"vars", "globals"} /\ Evaluate({"var"})

(***************************************************************************)
(* Structs.  The first struct of a pass that is not ready materialises all *)
(* of them and then seals those it can, again and again, until none is     *)
(* left that it can: the least set that contains what is ready and is      *)
(* closed under sema_struct_compose_def.                                   *)
(***************************************************************************)
(* mutant: a struct does not wait for the structs it embeds *)
ComposeClosedNoEmbeds(S) ==
  /\ ready \subseteq S
  /\ \A s \in Structs : prog[s].needs \subseteq Constants(S) => s \in S

ComposeClosed(S) ==
  /\ ready \subseteq S
  /\ \A s \in Structs : Evaluates(s, S, {}) => s \in S

Composed ==
  LET closed == {S \in SUBSET Decl : ComposeClosed(S)}
  IN {d \in Decl : \A S \in closed : d \in S}

\* s lies on a cycle of the relation succ.
OnCycle(succ, s) ==
  \A S \in SUBSET Decl :
    (succ[s] \subseteq S /\ \A d \in S : succ[d] \subseteq S) => s \in S

Embedded == [d \in Decl |-> prog[d].embeds \cap Structs]

\* The first field that holds an unsealed struct by value; fields are in the
\* order of the declarations they name.
FirstBlocking(S) ==
  [d \in Decl |-> LET b == (prog[d].needs \cap Structs) \ S IN
     IF d \in Structs THEN {x \in b : \A y \in b : x <= y} ELSE {}]

CycleErrors(S) ==
  {s \in Structs : OnCycle(Embedded, s)}
    \cup {s \in Structs \ S : OnCycle(FirstBlocking(S), s)}

\* An embedded type that is not ready defers the struct without a word.
\* Otherwise a field whose type cannot be resolved is an error, unless it
\* only names a type, and so is an embedded name that is no struct.
FieldErrors(S) ==
  LET types == Of({"type", "struct"})
  IN {s \in Structs \ S :
        /\ prog[s].embeds \cap types \subseteq S
        /\ (prog[s].needs \cup prog[s].embeds) \ (Constants(S) \cup types) # {}}

ComposeStructs ==
  /\ pass = "types"
  /\ \E d \in Structs : Visits(d) /\ pos' = d + 1
  /\ open' = Structs
  /\ ready' = Composed
  /\ errs' = Reported(FieldErrors(Composed) \cup
                      (IF checked THEN {} ELSE CycleErrors(Composed)))
  /\ checked' = TRUE
  /\ UNCHANGED <<prog, pass, final, round, before, wasOpen, walked, missed, settled, verdict>>

(***************************************************************************)
(* The order of the passes.                                                *)
(***************************************************************************)
Init ==
  /\ prog \in Programs
  /\ pass = "types" /\ final = FALSE /\ round = 1 /\ pos = 1
  /\ ready = {} /\ open = {} /\ before = {} /\ wasOpen = {}
  /\ checked = FALSE /\ walked = {} /\ missed = {} /\ errs = {}
  /\ settled = FALSE /\ verdict = "none"

EndPass(from, to) ==
  /\ pass = from /\ Pending = {}
  /\ pass' = to /\ pos' = 1
  /\ UNCHANGED <<prog, ready, open, walked, missed>>

StayInRound == UNCHANGED <<final, round, before, wasOpen, checked, settled>>

EndTypes == EndPass("types", "sigs") /\ StayInRound /\ UNCHANGED <<errs, verdict>>
EndSignatures ==
  /\ EndPass("sigs", IF final THEN "ctvars" ELSE "vars")
  /\ StayInRound /\ UNCHANGED <<errs, verdict>>

ReadyCount(S) == Cardinality(S)

\* A round that made progress is followed by another one, MaxRounds at most.
AnotherRound == ReadyCount(ready) > ReadyCount(before) /\ round < MaxRounds

(* mutant: the loop over the rounds has no end *)
NextRoundForever ==
  /\ EndPass("vars", "types")
  /\ before' = ready /\ wasOpen' = open
  /\ UNCHANGED <<final, round, checked, errs, settled, verdict>>

NextRound ==
  /\ AnotherRound
  /\ EndPass("vars", "types")
  /\ round' = round + 1 /\ before' = ready /\ wasOpen' = open
  /\ UNCHANGED <<final, checked, errs, settled, verdict>>

(* mutant: the latch stays closed for the real passes *)
ResetReportsForgotten == UNCHANGED checked

\* sema_struct_compose_reset_reports
ResetReports == checked' = FALSE

LastRound ==
  /\ ~ AnotherRound
  /\ EndPass("vars", "types")
  /\ final' = TRUE
  /\ ResetReports
  /\ settled' = (ready = before /\ open = wasOpen)
  /\ UNCHANGED <<round, before, wasOpen, errs, verdict>>

EndComptimeVars == EndPass("ctvars", "globals") /\ StayInRound /\ UNCHANGED <<errs, verdict>>

\* An error so far ends the analysis before any body is looked at.
EndGlobals ==
  /\ EndPass("globals", IF errs = {} THEN "walk" ELSE "done")
  /\ verdict' = IF errs = {} THEN verdict ELSE "rejected"
  /\ StayInRound /\ UNCHANGED errs

\* Pass 3b walks the functions that are not walked yet.
WalkBodies ==
  /\ pass = "walk"
  /\ EnsureWalked(Funcs, ready)
  /\ errs' = Reported(WalkErrors(Funcs, ready))
  /\ pass' = "done"
  /\ verdict' = IF errs' = {} THEN "accepted" ELSE "rejected"
  /\ StayInRound /\ UNCHANGED <<prog, pos, ready, open>>

Done == pass = "done" /\ UNCHANGED vars

Next ==
  \/ EvalTypeDef \/ ComposeStructs \/ ResolveSignature
  \/ EvalComptimeVar \/ EvalGlobalVar
  \/ EndTypes \/ EndSignatures \/ NextRound \/ LastRound
  \/ EndComptimeVars \/ EndGlobals \/ WalkBodies \/ Done

\* The analysis is one thread that never waits.
Spec == Init /\ [][Next]_vars /\ WF_vars(Next)

(***************************************************************************)
(* What the analysis should find, independent of any order: the least set  *)
(* of declarations closed under evaluation, every struct being nameable.   *)
(***************************************************************************)
Closed(S) == \A d \in Decl : Evaluates(d, S, Structs) => d \in S

Resolvable ==
  LET closed == {S \in SUBSET Decl : Closed(S)}
  IN {d \in Decl : \A S \in closed : d \in S}

GoodProgram ==
  /\ Resolvable = Decl
  /\ \A f \in Funcs : Unresolved(f, Decl) = {}

(***************************************************************************)
(* Properties                                                              *)
(***************************************************************************)

\* The state has its type.
TypeOK ==
  /\ prog \in Program
  /\ pass \in {"types", "sigs", "vars", "ctvars", "globals", "walk", "done"}
  /\ final \in BOOLEAN /\ round \in 1..MaxRounds /\ pos \in 1..(N + 1)
  /\ ready \subseteq Decl /\ open \subseteq Structs
  /\ checked \in BOOLEAN /\ before \subseteq Decl /\ wasOpen \subseteq Structs
  /\ walked \subseteq Funcs /\ missed \subseteq Funcs \X Name
  /\ errs \subseteq Decl /\ settled \in BOOLEAN
  /\ verdict \in {"none", "accepted", "rejected"}

\* No round makes a declaration ready out of a half-finished one: whatever the
\* order of the source, a ready declaration follows from evaluations that are
\* all possible, never from itself (a signature built around a type that was
\* not resolved would never be built again).
Grounded == ready \subseteq Resolvable

\* A round that changes nothing is a fixpoint: what is ready then is exactly
\* what can be resolved in any order, although no visit of the round looks at
\* what a later visit of the same round makes ready.
SettledExact == settled => ready = Resolvable

\* Once the rounds have settled, only a program with a real error is rejected:
\* no diagnostic of a half-finished round comes out.
RejectsOnlyBad == settled /\ verdict = "rejected" => ~ GoodProgram

\* d is a struct that waits for structs which hold each other, some by value
\* and some by embedding; neither of the two cycle checks sees those.
DependsOn == [d \in Decl |-> (prog[d].needs \cup prog[d].embeds) \cap Structs]
BehindMixedCycle(d) ==
  /\ d \in Structs
  /\ ~ OnCycle(Embedded, d)
  /\ \E s \in Structs :
       /\ OnCycle(DependsOn, s)
       /\ \A S \in SUBSET Decl :
            (d \in S /\ \A e \in S : DependsOn[e] \subseteq S) => s \in S

\* Once the rounds have settled, an accepted program has everything ready but
\* structs behind such a cycle: the last pass reports every other failure,
\* although the speculative rounds reported it into a buffer that was dropped.
AcceptedComplete ==
  settled /\ verdict = "accepted" => \A d \in Decl \ ready : BehindMixedCycle(d)

\* The verdict on a module whose rounds settled is right both ways.
VerdictRight == RejectsOnlyBad /\ AcceptedComplete

\* The rounds, the passes and the walk come to an end for every program.
Terminates == <>(pass = "done")

\* Of an accepted program every body was checked with the real diagnostics: no
\* walk left a name unresolved that is not declared, or a comptime variable
\* that had no value to fold yet.
BodiesChecked ==
  verdict = "accepted" =>
    \A p \in missed : p[2] \in Decl /\ prog[p[2]].kind # "comptime"

\* A program without an error is accepted, whatever the order of its
\* declarations.
OrderFree == verdict = "rejected" => ~ GoodProgram
=============================================================================
