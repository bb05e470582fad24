-------------------------- MODULE SemaPassesProofs --------------------------
(***************************************************************************)
(* For modules of any size: what the passes make ready is grounded, and a  *)
(* round that changes nothing has found everything that can be resolved in *)
(* any order, after which the verdict is right.                            *)
(***************************************************************************)
EXTENDS SemaPasses, FiniteSetTheorems, WellFoundedInduction, TLAPS

(* d was visited, or found ready, in the speculative round that runs.       *)
Passed(d) ==
  \/ d \in Of({"type", "struct"}) /\ (pass = "types" => d < pos)
  \/ d \in Funcs /\ (pass = "vars" \/ (pass = "sigs" /\ d < pos))
  \/ d \in Of({"comptime", "var"}) /\ pass = "vars" /\ d < pos

(* The inductive invariant.  That a round without progress is a fixpoint is *)
(* not visible at its end alone: Tried says it of every declaration the     *)
(* round has passed so far, as long as nothing has changed.  Opened is what *)
(* makes every struct nameable by then.                                     *)
Opened ==
  ~ final => \A s \in Structs : Passed(s) => open = Structs
Tried ==
  ~ final /\ ready = before /\ open = wasOpen =>
    \A d \in Decl \ ready : Passed(d) => ~ Evaluates(d, ready, open)
Inv ==
  /\ TypeOK /\ Opened /\ Tried /\ Grounded
  /\ before \subseteq ready /\ wasOpen \subseteq open
  /\ ready \cap Structs # {} => open = Structs
  /\ ~ final => pass \in {"types", "sigs", "vars"}
  /\ pass = "vars" => ~ final
  /\ settled => final /\ Closed(ready)

-----------------------------------------------------------------------------
(* What evaluates stays evaluable when more is ready or open.               *)
LEMMA EvaluatesMonotone ==
  ASSUME NEW d, NEW S, NEW T, NEW o, NEW p, S \subseteq T, o \subseteq p,
         Evaluates(d, S, o)
  PROVE  Evaluates(d, T, p)
  BY DEF Evaluates, Resolves, Reads, Constants

(* Which structs are open does not matter to a struct.                      *)
LEMMA StructEvaluates ==
  ASSUME NEW d \in Structs, NEW S, NEW o, NEW p, Evaluates(d, S, o)
  PROVE  Evaluates(d, S, p)
  BY DEF Evaluates, Resolves, Reads, Structs, Of

(* A resolvable set is below every closed one.                              *)
LEMMA ResolvableIsLeast ==
  /\ \A S \in SUBSET Decl : Closed(S) => Resolvable \subseteq S
  /\ \A T \in SUBSET Decl :
       (\A S \in SUBSET Decl : Closed(S) => T \subseteq S) => T \subseteq Resolvable
  BY DEF Resolvable

(* The composition is the least compose-closed set.                         *)
LEMMA ComposedIsLeast ==
  ASSUME ready \subseteq Decl
  PROVE  /\ Composed \subseteq Decl
         /\ ComposeClosed(Composed)
         /\ \A S \in SUBSET Decl : ComposeClosed(S) => Composed \subseteq S
  <1>1. Composed \subseteq Decl
    BY DEF Composed
  <1>2. \A S \in SUBSET Decl : ComposeClosed(S) => Composed \subseteq S
    BY DEF Composed
  <1>3. ready \subseteq Composed
    BY DEF Composed, ComposeClosed
  <1>4. ASSUME NEW s \in Structs, Evaluates(s, Composed, {})
        PROVE  s \in Composed
    <2>1. s \in Decl
      BY DEF Structs, Of
    <2>2. ASSUME NEW S \in SUBSET Decl, ComposeClosed(S)
          PROVE  s \in S
      <3>1. Evaluates(s, S, {})
        BY <1>2, <1>4, <2>2, EvaluatesMonotone
      <3> QED
        BY <2>2, <3>1 DEF ComposeClosed
    <2> QED
      BY <2>1, <2>2 DEF Composed
  <1> QED
    BY <1>1, <1>2, <1>3, <1>4 DEF ComposeClosed

(* A closed set that contains what is ready is compose-closed.              *)
LEMMA ClosedIsComposeClosed ==
  ASSUME NEW S \in SUBSET Decl, Closed(S), ready \subseteq S
  PROVE  ComposeClosed(S)
  <1>1. ASSUME NEW s \in Structs, Evaluates(s, S, {})
        PROVE  s \in S
    <2>1. Evaluates(s, S, Structs)
      BY <1>1, StructEvaluates
    <2> QED
      BY <2>1 DEF Closed, Structs, Of
  <1> QED
    BY <1>1 DEF ComposeClosed

(* A declaration is of one of the five kinds.                               *)
LEMMA KindsCover ==
  ASSUME TypeOK
  PROVE  Decl = Of({"type", "struct"}) \cup Funcs \cup Of({"comptime", "var"})
  <1>1. \A d \in Decl : prog[d].kind \in Kind
    BY DEF TypeOK, Program
  <1> QED
    BY <1>1 DEF Funcs, Of, Kind

-----------------------------------------------------------------------------
(* Every name of a primed definition is the unprimed one: no step changes   *)
(* the module.                                                              *)
LEMMA SameProgram ==
  ASSUME prog' = prog
  PROVE  /\ \A kinds : Of(kinds)' = Of(kinds)
         /\ Structs' = Structs /\ Funcs' = Funcs
         /\ \A d, S, o : Evaluates(d, S, o)' <=> Evaluates(d, S, o)
         /\ \A S : Closed(S)' <=> Closed(S)
         /\ Resolvable' = Resolvable
  <1>1. \A kinds : Of(kinds)' = Of(kinds)
    BY DEF Of
  <1>2. Structs' = Structs /\ Funcs' = Funcs
    BY DEF Of, Structs, Funcs
  <1>3. \A d, S, o : Evaluates(d, S, o)' <=> Evaluates(d, S, o)
    BY DEF Evaluates, Resolves, Reads, Constants, Calls, Funcs, Of
  <1>4. \A S : Closed(S)' <=> Closed(S)
    BY <1>2, <1>3 DEF Closed
  <1>5. Resolvable' = Resolvable
    BY <1>4 DEF Resolvable
  <1> QED
    BY <1>1, <1>2, <1>3, <1>4, <1>5

LEMMA InitInv == Init => Inv
  <1> SUFFICES ASSUME Init PROVE Inv
    OBVIOUS
  <1>1. TypeOK
    <2>1. prog \in Program
      BY PassesAssumption DEF Init
    <2>2. 1 \in 1..MaxRounds /\ 1 \in 1..(N + 1)
      BY PassesAssumption
    <2> QED
      BY <2>1, <2>2 DEF Init, TypeOK
  <1>2. \A d \in Decl : ~ (d < 1)
    BY PassesAssumption DEF Decl
  <1>3. Opened /\ Tried
    BY <1>2 DEF Init, Opened, Tried, Passed, Funcs, Structs, Of
  <1>4. Grounded
    BY DEF Init, Grounded
  <1> QED
    BY <1>1, <1>3, <1>4 DEF Init, Inv

(* A visit that evaluates one declaration.                                  *)
LEMMA EvaluateInv ==
  ASSUME Inv, NEW kinds, "struct" \notin kinds, Evaluate(kinds)
  PROVE  Inv'
  <1> PICK d \in Of(kinds) :
        /\ Visits(d)
        /\ LET called == IF Resolves(d, ready, open) THEN Calls(d) ELSE {}
               done   == Evaluates(d, ready, open)
           IN /\ EnsureWalked(called, ready)
              /\ ready' = IF done THEN ready \cup {d} ELSE ready
              /\ errs' = Reported((IF done THEN {} ELSE {d}) \cup WalkErrors(called, ready))
        /\ pos' = d + 1
    BY Zenon DEF Evaluate
  <1>1. UNCHANGED <<prog, pass, final, round, open, before, wasOpen, checked, settled, verdict>>
    BY DEF Evaluate
  <1>2. ready' = IF Evaluates(d, ready, open) THEN ready \cup {d} ELSE ready
    OBVIOUS
  <1>3. d \in Decl /\ d \notin ready /\ d >= pos /\ d \notin Structs
    BY DEF Visits, Pending, Of, Structs
  <1>4. \A e \in Of(KindsOf(pass)) \ ready : e >= pos => d <= e
    BY DEF Visits, Pending
  <1>5. TypeOK
    BY DEF Inv
  <1>6. TypeOK'
    <2> DEFINE called == IF Resolves(d, ready, open) THEN Calls(d) ELSE {}
    <2>1. called \subseteq Funcs /\ Funcs \subseteq Decl
      BY DEF Calls, Funcs, Of
    <2>2. walked' \subseteq Funcs /\ missed' \subseteq Funcs \X Name
      BY <1>5, <2>1 DEF EnsureWalked, TypeOK
    <2>3. errs' \subseteq Decl
      BY <1>3, <1>5, <2>1 DEF Reported, WalkErrors, TypeOK
    <2>4. ready' \subseteq Decl /\ pos' \in 1..(N + 1)
      BY <1>2, <1>3, <1>5, PassesAssumption DEF TypeOK, Decl
    <2> QED
      BY <1>1, <1>5, <2>2, <2>3, <2>4, SameProgram DEF TypeOK
  <1>7. \A e \in Decl \ ready : Passed(e)' => Passed(e) \/ e = d
    <2> SUFFICES ASSUME NEW e \in Decl \ ready, Passed(e)', e # d
                 PROVE  Passed(e)
      OBVIOUS
    <2>1. d \in Int /\ e \in Int /\ pos \in Int
      BY <1>3, <1>5 DEF TypeOK, Decl
    <2>2. e < pos' => e < d
      BY <2>1
    <2>3. e \in Of(KindsOf(pass)) /\ e < pos' => e < pos
      BY <1>4, <2>1, <2>2
    <2>4. Of({"type", "struct"})' = Of({"type", "struct"}) /\ Funcs' = Funcs
          /\ Of({"comptime", "var"})' = Of({"comptime", "var"}) /\ pass' = pass
      BY <1>1, SameProgram
    <2>5. pass = "types" => KindsOf(pass) = {"type", "struct"}
      BY DEF KindsOf
    <2>6. pass = "sigs" => KindsOf(pass) = {"func"}
      BY DEF KindsOf
    <2>7. pass = "vars" => KindsOf(pass) = {"comptime", "var"}
      BY DEF KindsOf
    <2> QED
      BY <2>3, <2>4, <2>5, <2>6, <2>7 DEF Passed, Funcs
  <1>8. Opened'
    <2> SUFFICES ASSUME ~ final, NEW s \in Structs, Passed(s)'
                 PROVE  open = Structs
      BY <1>1, SameProgram DEF Opened
    <2>1. s \in Decl
      BY DEF Structs, Of
    <2>2. CASE s \in ready
      BY <2>2 DEF Inv
    <2>3. CASE s \notin ready
      BY <1>3, <1>7, <2>1, <2>3 DEF Inv, Opened
    <2> QED
      BY <2>2, <2>3
  <1>9. Tried'
    <2> SUFFICES ASSUME ~ final, ready' = before, open = wasOpen,
                        NEW e \in Decl \ ready', Passed(e)'
                 PROVE  ~ Evaluates(e, ready', open)
      BY <1>1, SameProgram DEF Tried
    <2>1. ready' = ready /\ ~ Evaluates(d, ready, open)
      BY <1>2, <1>3 DEF Inv
    <2> QED
      BY <1>7, <2>1 DEF Inv, Tried
  <1>10. open \subseteq Structs
    BY <1>5 DEF TypeOK
  <1>11. Grounded'
    <2>1. \A S \in SUBSET Decl : Closed(S) => ready' \subseteq S
      <3> SUFFICES ASSUME NEW S \in SUBSET Decl, Closed(S)
                   PROVE  ready' \subseteq S
        OBVIOUS
      <3>1. ready \subseteq S
        BY ResolvableIsLeast DEF Inv, Grounded
      <3>2. Evaluates(d, ready, open) => Evaluates(d, S, Structs)
        BY <1>10, <3>1, EvaluatesMonotone
      <3> QED
        BY <1>2, <1>3, <3>1, <3>2 DEF Closed
    <2>2. ready' \subseteq Decl
      BY <1>6 DEF TypeOK
    <2>3. ready' \subseteq Resolvable
      BY <2>1, <2>2, ResolvableIsLeast
    <2> QED
      BY <1>1, <2>3, SameProgram DEF Grounded
  <1>12. settled => ready' = ready
    <2> SUFFICES ASSUME settled, Evaluates(d, ready, open) PROVE FALSE
      BY <1>2
    <2>1. Evaluates(d, ready, Structs)
      BY <1>10, EvaluatesMonotone
    <2> QED
      BY <1>3, <2>1 DEF Inv, Closed
  <1>13. settled' => final' /\ Closed(ready)'
    BY <1>1, <1>12, SameProgram DEF Inv
  <1>14. ready \subseteq ready' /\ (ready' \cap Structs) = (ready \cap Structs)
    BY <1>2, <1>3
  <1>15. /\ before' \subseteq ready' /\ wasOpen' \subseteq open'
         /\ ready' \cap Structs' # {} => open' = Structs'
         /\ ~ final' => pass' \in {"types", "sigs", "vars"}
         /\ pass' = "vars" => ~ final'
    BY <1>1, <1>14, SameProgram DEF Inv
  <1> QED
    BY <1>6, <1>8, <1>9, <1>11, <1>13, <1>15 DEF Inv

(* A visit that composes the structs.                                       *)
LEMMA ComposeInv ==
  ASSUME Inv, ComposeStructs
  PROVE  Inv'
  <1> PICK d \in Structs : Visits(d) /\ pos' = d + 1
    BY DEF ComposeStructs
  <1>1. /\ pass = "types" /\ open' = Structs /\ ready' = Composed /\ checked' = TRUE
        /\ UNCHANGED <<prog, pass, final, round, before, wasOpen, walked, missed, settled, verdict>>
    BY DEF ComposeStructs
  <1>2. TypeOK /\ d \in Decl /\ d >= pos
    BY DEF Inv, Structs, Of, Visits, Pending
  <1>3. /\ Composed \subseteq Decl /\ ready \subseteq Composed
        /\ \A s \in Structs : Evaluates(s, Composed, {}) => s \in Composed
        /\ \A S \in SUBSET Decl : ComposeClosed(S) => Composed \subseteq S
    BY <1>2, ComposedIsLeast DEF TypeOK, ComposeClosed
  <1>4. TypeOK'
    <2>1. Structs \subseteq Decl
      BY DEF Structs, Of
    <2>2. errs' \subseteq Decl
      BY <1>2, <2>1 DEF ComposeStructs, Reported, FieldErrors, CycleErrors, TypeOK
    <2>3. pos' \in 1..(N + 1)
      BY <1>2, PassesAssumption DEF TypeOK, Decl
    <2> QED
      BY <1>1, <1>2, <1>3, <2>2, <2>3, SameProgram DEF TypeOK
  <1>5. Opened'
    BY <1>1, SameProgram DEF Opened
  <1>6. \A e \in Of({"type", "struct"}) \ ready : e < pos' => e < pos \/ e = d
    <2>1. \A e \in Of({"type", "struct"}) \ ready : e >= pos => d <= e
      BY <1>1 DEF Visits, Pending, KindsOf
    <2>2. d \in Int /\ pos \in Int /\ \A e \in Of({"type", "struct"}) : e \in Int
      BY <1>2 DEF TypeOK, Decl, Of
    <2> QED
      BY <2>1, <2>2
  <1>7. Tried'
    <2> SUFFICES ASSUME ~ final, ready' = before, open' = wasOpen,
                        NEW e \in Decl \ ready', Passed(e)'
                 PROVE  ~ Evaluates(e, ready', open')
      BY <1>1, SameProgram DEF Tried
    <2>1. ready' = ready /\ open' = open
      BY <1>1, <1>2, <1>3, SameProgram DEF Inv, TypeOK
    <2>2. CASE e \in Structs
      <3>1. ~ Evaluates(e, Composed, {})
        BY <1>1, <1>3, <2>2
      <3> QED
        BY <1>1, <2>2, <3>1, StructEvaluates
    <2>3. CASE e \notin Structs
      <3>1. e \in Of({"type", "struct"}) /\ e < pos'
        BY <1>1, SameProgram DEF Passed
      <3>2. e < pos
        BY <1>6, <2>1, <2>3, <3>1
      <3>3. Passed(e)
        BY <1>1, <3>1, <3>2 DEF Passed
      <3> QED
        BY <1>1, <2>1, <3>3 DEF Inv, Tried
    <2> QED
      BY <2>2, <2>3
  <1>8. Grounded'
    <2>1. \A S \in SUBSET Decl : Closed(S) => ready' \subseteq S
      <3> SUFFICES ASSUME NEW S \in SUBSET Decl, Closed(S)
                   PROVE  ready' \subseteq S
        OBVIOUS
      <3>1. ready \subseteq S
        BY ResolvableIsLeast DEF Inv, Grounded
      <3> QED
        BY <1>1, <1>3, <3>1, ClosedIsComposeClosed
    <2> QED
      BY <1>1, <1>3, <2>1, ResolvableIsLeast, SameProgram DEF Grounded
  <1>9. settled' => final' /\ Closed(ready)'
    <2>1. settled => ready' = ready
      BY <1>1, <1>2, <1>3, ClosedIsComposeClosed DEF Inv, TypeOK
    <2> QED
      BY <1>1, <2>1, SameProgram DEF Inv
  <1>10. /\ before' \subseteq ready' /\ wasOpen' \subseteq open' /\ open' = Structs'
         /\ ~ final' => pass' \in {"types", "sigs", "vars"}
         /\ pass' = "vars" => ~ final'
    BY <1>1, <1>2, <1>3, SameProgram DEF Inv, TypeOK
  <1> QED
    BY <1>4, <1>5, <1>7, <1>8, <1>9, <1>10 DEF Inv

-----------------------------------------------------------------------------
(* A step that makes nothing ready keeps these parts.                       *)
LEMMA NothingReady ==
  ASSUME Inv, UNCHANGED <<prog, ready, open>>
  PROVE  /\ Grounded' /\ (Closed(ready)' <=> Closed(ready))
         /\ ready' \cap Structs' # {} => open' = Structs'
  BY SameProgram DEF Inv, Grounded

(* The end of the types and of the signatures: the pass has left nothing.   *)
LEMMA EndPassInv ==
  ASSUME Inv, EndTypes \/ EndSignatures
  PROVE  Inv'
  <1>1. /\ Pending = {} /\ pos' = 1
        /\ UNCHANGED <<prog, ready, open, walked, missed, final, round, before,
                       wasOpen, checked, settled, errs, verdict>>
    BY DEF EndTypes, EndSignatures, EndPass, StayInRound
  <1>2. \/ pass = "types" /\ pass' = "sigs"
        \/ pass = "sigs" /\ pass' = "vars" /\ ~ final
        \/ pass = "sigs" /\ pass' = "ctvars" /\ final
    BY DEF EndTypes, EndSignatures, EndPass, Inv, TypeOK
  <1>3. TypeOK'
    BY <1>1, <1>2, PassesAssumption, SameProgram DEF Inv, TypeOK
  <1>4. ASSUME NEW e \in Decl \ ready, Passed(e)', ~ final
        PROVE  Passed(e)
    <2>1. e \in Int /\ ~ (e < 1) /\ pos \in Int
      BY DEF Inv, TypeOK, Decl
    <2>2. ~ (e \in Of(KindsOf(pass)) /\ e >= pos)
      BY <1>1 DEF Pending
    <2>3. e \in Of(KindsOf(pass)) => e < pos
      BY <2>1, <2>2
    <2>4. CASE pass = "types" /\ pass' = "sigs"
      <3>1. KindsOf(pass) = {"type", "struct"}
        BY <2>4 DEF KindsOf
      <3> QED
        BY <1>1, <1>4, <2>1, <2>3, <2>4, <3>1, SameProgram DEF Passed
    <2>5. CASE pass = "sigs" /\ pass' = "vars"
      <3>1. KindsOf(pass) = {"func"}
        BY <2>5 DEF KindsOf
      <3> QED
        BY <1>1, <1>4, <2>1, <2>3, <2>5, <3>1, SameProgram DEF Passed, Funcs
    <2> QED
      BY <1>2, <1>4, <2>4, <2>5
  <1>5. Tried'
    BY <1>1, <1>4, SameProgram DEF Inv, Tried
  <1>6. Opened'
    <2> SUFFICES ASSUME ~ final, NEW s \in Structs, Passed(s)'
                 PROVE  open = Structs
      BY <1>1, SameProgram DEF Opened
    <2>1. s \in Decl
      BY DEF Structs, Of
    <2> QED
      BY <1>4, <2>1 DEF Inv, Opened
  <1> QED
    BY <1>1, <1>2, <1>3, <1>5, <1>6, NothingReady DEF Inv

(* The end of a round: nothing is passed in the next one yet.               *)
LEMMA NextRoundInv ==
  ASSUME Inv, NextRound
  PROVE  Inv'
  <1>1. /\ pass' = "types" /\ pos' = 1 /\ before' = ready /\ wasOpen' = open
        /\ UNCHANGED <<prog, ready, open, walked, missed, final, checked, errs, settled, verdict>>
    BY DEF NextRound, EndPass
  <1>2. round' \in 1..MaxRounds
    BY PassesAssumption DEF NextRound, AnotherRound, Inv, TypeOK
  <1>3. TypeOK'
    BY <1>1, <1>2, PassesAssumption, SameProgram DEF Inv, TypeOK
  <1>4. \A e \in Decl : ~ Passed(e)'
    <2>1. \A e \in Decl : ~ (e < 1)
      BY DEF Decl
    <2> QED
      BY <1>1, <2>1 DEF Passed
  <1>5. Tried' /\ Opened'
    BY <1>1, <1>4, SameProgram DEF Tried, Opened, Structs, Of
  <1> QED
    BY <1>1, <1>3, <1>5, NothingReady DEF Inv

(* The end of the last round: if it changed nothing, all is closed.         *)
LEMMA LastRoundInv ==
  ASSUME Inv, LastRound
  PROVE  Inv'
  <1>1. /\ pass = "vars" /\ Pending = {} /\ pass' = "types" /\ pos' = 1 /\ final'
        /\ settled' = (ready = before /\ open = wasOpen) /\ checked' = FALSE
        /\ UNCHANGED <<prog, ready, open, walked, missed, round, before, wasOpen, errs, verdict>>
    BY DEF LastRound, EndPass, ResetReports
  <1>2. TypeOK
    BY DEF Inv
  <1>3. TypeOK'
    <2>1. settled' \in BOOLEAN
      BY <1>1
    <2>2. final' = TRUE
      BY DEF LastRound
    <2>3. pos' \in 1..(N + 1)
      BY <1>1, PassesAssumption
    <2> QED
      BY <1>1, <1>2, <2>1, <2>2, <2>3, SameProgram DEF TypeOK
  <1>4. ASSUME settled' PROVE Closed(ready)
    <2>1. CASE final
      BY <1>1, <2>1 DEF Inv
    <2>2. CASE ~ final
      <3>1. \A e \in Decl \ ready : Passed(e)
        <4>1. KindsOf(pass) = {"comptime", "var"}
          BY <1>1 DEF KindsOf
        <4>2. \A e \in Of({"comptime", "var"}) \ ready : e < pos
          <5>1. \A e \in Of({"comptime", "var"}) : e \in Int
            BY DEF Of, Decl
          <5> QED
            BY <1>1, <1>2, <4>1, <5>1 DEF Pending, TypeOK
        <4> QED
          BY <1>1, <1>2, <4>2, KindsCover DEF Passed
      <3>2. \A e \in Decl \ ready : ~ Evaluates(e, ready, open)
        BY <1>1, <1>4, <2>2, <3>1 DEF Inv, Tried
      <3>3. open = Structs
        <4>1. \A s \in Structs : Passed(s)
          BY <1>1 DEF Passed, Structs, Of
        <4> QED
          BY <1>2, <2>2, <4>1 DEF Inv, Opened, TypeOK
      <3> QED
        BY <3>2, <3>3 DEF Closed
    <2> QED
      BY <2>1, <2>2
  <1>5. Tried' /\ Opened'
    BY <1>1 DEF Tried, Opened
  <1> QED
    BY <1>1, <1>3, <1>4, <1>5, NothingReady DEF Inv

(* The last passes only look at what is ready.                              *)
LEMMA FinalInv ==
  ASSUME Inv, EndComptimeVars \/ EndGlobals \/ WalkBodies
  PROVE  Inv'
  <1>1. /\ pass' \in {"globals", "walk", "done"} /\ pos' \in {1, pos}
        /\ UNCHANGED <<prog, ready, open, final, round, before, wasOpen, checked, settled>>
    BY DEF EndComptimeVars, EndGlobals, WalkBodies, EndPass, StayInRound
  <1>2. final
    BY DEF EndComptimeVars, EndGlobals, WalkBodies, EndPass, Inv
  <1>3. walked' \subseteq Funcs /\ missed' \subseteq Funcs \X Name
    BY DEF EndComptimeVars, EndGlobals, WalkBodies, EndPass, EnsureWalked, Inv, TypeOK
  <1>4. errs' \subseteq Decl /\ verdict' \in {"none", "accepted", "rejected"}
    <2>1. Funcs \subseteq Decl
      BY DEF Funcs, Of
    <2> QED
      BY <2>1 DEF EndComptimeVars, EndGlobals, WalkBodies, StayInRound, Reported,
                  WalkErrors, Inv, TypeOK
  <1>5. TypeOK'
    BY <1>1, <1>3, <1>4, PassesAssumption, SameProgram DEF Inv, TypeOK
  <1>6. Tried' /\ Opened'
    BY <1>1, <1>2 DEF Tried, Opened
  <1> QED
    BY <1>1, <1>2, <1>5, <1>6, NothingReady DEF Inv

LEMMA NextInv == Inv /\ [Next]_vars => Inv'
  <1> SUFFICES ASSUME Inv, [Next]_vars PROVE Inv'
    OBVIOUS
  <1>1. CASE EvalTypeDef
    BY <1>1, EvaluateInv DEF EvalTypeDef
  <1>2. CASE ResolveSignature
    BY <1>2, EvaluateInv DEF ResolveSignature
  <1>3. CASE EvalComptimeVar
    BY <1>3, EvaluateInv DEF EvalComptimeVar
  <1>4. CASE EvalGlobalVar
    BY <1>4, EvaluateInv DEF EvalGlobalVar
  <1>5. CASE ComposeStructs
    BY <1>5, ComposeInv
  <1>6. CASE EndTypes \/ EndSignatures
    BY <1>6, EndPassInv
  <1>7. CASE NextRound
    BY <1>7, NextRoundInv
  <1>8. CASE LastRound
    BY <1>8, LastRoundInv
  <1>9. CASE EndComptimeVars \/ EndGlobals \/ WalkBodies
    BY <1>9, FinalInv
  <1>10. CASE Done \/ UNCHANGED vars
    <2>1. UNCHANGED vars
      BY <1>10 DEF Done
    <2>2. TypeOK'
      BY <2>1, SameProgram DEF vars, Inv, TypeOK
    <2>3. \A e : Passed(e)' <=> Passed(e)
      BY <2>1, SameProgram DEF vars, Passed
    <2>4. Tried' /\ Opened'
      BY <2>1, <2>3, SameProgram DEF vars, Inv, Tried, Opened
    <2> QED
      BY <2>1, <2>2, <2>4, NothingReady DEF vars, Inv
  <1> QED
    BY <1>1, <1>2, <1>3, <1>4, <1>5, <1>6, <1>7, <1>8, <1>9, <1>10 DEF Next

(* The invariant holds for modules of every size and shape.                 *)
THEOREM Invariance == Spec => []Inv
  BY InitInv, NextInv, PTL DEF Spec

(* The state has its type.                                                  *)
THEOREM TypeCorrect == Spec => []TypeOK
  <1>1. Inv => TypeOK
    BY DEF Inv
  <1> QED
    BY <1>1, Invariance, PTL

(* Nothing becomes ready out of a half-finished declaration.                *)
THEOREM GroundedCorrect == Spec => []Grounded
  <1>1. Inv => Grounded
    BY DEF Inv
  <1> QED
    BY <1>1, Invariance, PTL

(* Rounds that end because one changed nothing have found exactly what can  *)
(* be resolved in any order.                                                *)
THEOREM SettledCorrect == Spec => []SettledExact
  <1>1. Inv => SettledExact
    <2> SUFFICES ASSUME Inv, settled PROVE ready = Resolvable
      BY DEF SettledExact
    <2>1. ready \subseteq Decl /\ Closed(ready)
      BY DEF Inv, TypeOK
    <2> QED
      BY <2>1, ResolvableIsLeast DEF Inv, Grounded
  <1> QED
    BY <1>1, Invariance, PTL

-----------------------------------------------------------------------------
(***************************************************************************)
(* The verdict.  Inv says what is ready; that the real passes report all   *)
(* that is not is Verdicts.  A struct waits without a word for the structs *)
(* it embeds and for field types that are not sealed, so the last step is  *)
(* an argument about finite graphs: structs that only wait for each other  *)
(* wait for a cycle.                                                       *)
(***************************************************************************)
(* d was visited, or found ready, in the real passes so far.                *)
Visited(d) ==
  \/ d \in Of({"type", "struct"}) /\ (pass = "types" => d < pos)
  \/ d \in Funcs /\ (pass \in {"ctvars", "globals", "walk", "done"} \/ (pass = "sigs" /\ d < pos))
  \/ d \in Of({"comptime"}) /\ (pass \in {"globals", "walk", "done"} \/ (pass = "ctvars" /\ d < pos))
  \/ d \in Of({"var"}) /\ (pass \in {"walk", "done"} \/ (pass = "globals" /\ d < pos))

(* What the real passes have reported of rounds that settled: every visited *)
(* declaration that is not ready, except a struct, of which only the errors *)
(* in its fields and the two kinds of cycles are.                           *)
Diagnosed ==
  /\ \A d \in Decl \ ready : d \notin Structs /\ Visited(d) => d \in errs
  /\ \A d \in Structs \ ready : Visited(d) => checked
  /\ checked => FieldErrors(ready) \cup CycleErrors(ready) \subseteq errs
  /\ GoodProgram => errs = {}

Verdicts ==
  /\ ~ final => errs = {} /\ verdict = "none"
  /\ verdict = "accepted" => pass = "done" /\ errs = {}
  /\ verdict = "rejected" => errs # {}
  /\ settled => Diagnosed

-----------------------------------------------------------------------------
(* Natural numbers have a least one.                                        *)
LEMMA LeastNat ==
  ASSUME NEW T \in SUBSET Nat, T # {}
  PROVE  \E n \in T : \A m \in T : n <= m
  <1>. DEFINE R == OpToRel(<, Nat)
  <1>1. \A m, n \in Nat : m < n => <<m, n>> \in R
    BY DEF OpToRel
  <1>2. IsWellFoundedOn(R, Nat)
    BY NatLessThanWellFounded, Zenon
  <1>. HIDE DEF R
  <1>3. PICK n \in T : \A m \in T : ~ (<<m, n>> \in R)
    BY <1>2, WFMin
  <1>4. n \in Nat /\ \A m \in T : m \in Nat /\ ~ (m < n)
    BY <1>1, <1>3
  <1>. QED  BY <1>4

(* Each vertex of U has a successor in U.                                   *)
Endless(G, U) ==
  /\ G \in [Decl -> SUBSET Decl] /\ U \in SUBSET Decl
  /\ \A s \in U : G[s] \cap U # {}

(* A vertex of U on a cycle is in every closed set with d.                  *)
LeadsToCycle(G, U, d) ==
  \E s \in U :
    /\ OnCycle(G, s)
    /\ \A S \in SUBSET Decl : (d \in S /\ \A e \in S : G[e] \subseteq S) => s \in S

(* Such a finite set holds a cycle that a given one of them reaches: one    *)
(* whose own reach is least.                                                *)
LEMMA CycleReached ==
  ASSUME NEW G, NEW U, Endless(G, U), NEW d \in U
  PROVE  LeadsToCycle(G, U, d)
  <1>. DEFINE closed(S) == \A e \in S : G[e] \subseteq S
              reach(x)  == {y \in Decl : \A S \in SUBSET Decl : x \in S /\ closed(S) => y \in S}
              M         == reach(d) \cap U
              sizes     == {Cardinality(reach(s)) : s \in M}
  <1>0. G \in [Decl -> SUBSET Decl] /\ U \in SUBSET Decl /\ \A s \in U : G[s] \cap U # {}
    BY DEF Endless
  <1>1. IsFiniteSet(Decl)
    BY FS_Interval, PassesAssumption DEF Decl
  <1>2. ASSUME NEW x \in Decl
        PROVE  /\ x \in reach(x) /\ closed(reach(x)) /\ reach(x) \in SUBSET Decl
               /\ IsFiniteSet(reach(x)) /\ Cardinality(reach(x)) \in Nat
    <2>1. x \in reach(x) /\ reach(x) \in SUBSET Decl
      OBVIOUS
    <2>2. closed(reach(x))
      BY <1>0
    <2>. HIDE DEF reach
    <2>3. IsFiniteSet(reach(x)) /\ Cardinality(reach(x)) \in Nat
      BY <1>1, <2>1, FS_Subset, FS_CardinalityType
    <2>. QED  BY <2>1, <2>2, <2>3
  <1>3. d \in M
    BY <1>0, <1>2
  <1>4. sizes \subseteq Nat /\ sizes # {}
    <2>1. \A s \in M : s \in Decl
      BY <1>0
    <2>2. \A s \in M : Cardinality(reach(s)) \in Nat
      BY <1>2, <2>1
    <2>. HIDE DEF reach, M
    <2>. QED  BY <1>3, <2>2
  <1>5. PICK n \in sizes : \A m \in sizes : n <= m
    <2>. HIDE DEF sizes
    <2>. QED  BY <1>4, LeastNat
  <1>6. PICK s \in M : n = Cardinality(reach(s))
    BY <1>5
  <1>7. s \in U /\ s \in Decl
    BY <1>0, <1>6
  <1>8. PICK t \in G[s] : t \in U
    BY <1>0, <1>7
  <1>9. t \in Decl /\ \A S \in SUBSET Decl : closed(S) /\ s \in S => t \in S
    BY <1>0, <1>8
  <1>10. t \in M
    BY <1>0, <1>6, <1>8, <1>9
  <1>11. reach(t) \subseteq reach(s)
    BY <1>0, <1>7, <1>9
  <1>12. s \in reach(t)
    <2>1. Cardinality(reach(s)) <= Cardinality(reach(t))
      <3>. HIDE DEF reach, M
      <3>1. Cardinality(reach(t)) \in sizes
        BY <1>10
      <3>. QED  BY <1>5, <1>6, <3>1
    <2>2. reach(t) = reach(s)
      <3>. HIDE DEF reach
      <3>1. /\ IsFiniteSet(reach(s)) /\ Cardinality(reach(s)) \in Nat
            /\ Cardinality(reach(t)) \in Nat
        BY <1>2, <1>7, <1>9
      <3>. QED  BY <1>11, <2>1, <3>1, FS_Subset
    <2>. QED  BY <1>2, <1>7, <2>2
  <1>13. OnCycle(G, s)
    <2>1. ASSUME NEW S \in SUBSET Decl, G[s] \subseteq S, closed(S) PROVE s \in S
      BY <1>0, <1>8, <1>12, <2>1
    <2>. QED  BY <2>1 DEF OnCycle
  <1>14. \A S \in SUBSET Decl : d \in S /\ closed(S) => s \in S
    BY <1>6
  <1>. QED  BY <1>7, <1>13, <1>14 DEF LeadsToCycle

(* Definitions over a module that does not change.                          *)
LEMMA SameGood ==
  ASSUME prog' = prog
  PROVE  GoodProgram' <=> GoodProgram
  BY SameProgram DEF GoodProgram, Unresolved

LEMMA SameErrors ==
  ASSUME prog' = prog, ready' = ready
  PROVE  FieldErrors(ready)' = FieldErrors(ready) /\ CycleErrors(ready)' = CycleErrors(ready)
  <1>1. /\ Structs' = Structs /\ \A kinds : Of(kinds)' = Of(kinds)
    BY SameProgram
  <1>2. Embedded' = Embedded /\ FirstBlocking(ready)' = FirstBlocking(ready)
    BY <1>1 DEF Embedded, FirstBlocking
  <1>. QED  BY <1>1, <1>2 DEF FieldErrors, Constants, CycleErrors, OnCycle

(* A good module whose rounds settled has everything ready.                 *)
LEMMA GoodAllReady ==
  ASSUME Inv, settled, GoodProgram
  PROVE  ready = Decl /\ \A f \in Funcs : Unresolved(f, ready) = {}
  <1>1. ready \subseteq Decl /\ Closed(ready)
    BY DEF Inv, TypeOK
  <1>2. Resolvable \subseteq ready
    BY <1>1, ResolvableIsLeast
  <1>. QED  BY <1>1, <1>2 DEF GoodProgram

(* Once the rounds have settled nothing becomes ready.                      *)
LEMMA SettledStays ==
  ASSUME Inv, settled
  PROVE  /\ \A d \in Decl \ ready : ~ Evaluates(d, ready, open)
         /\ Composed = ready
  <1>1. ready \subseteq Decl /\ Closed(ready) /\ open \subseteq Structs
    BY DEF Inv, TypeOK
  <1>2. \A d \in Decl \ ready : ~ Evaluates(d, ready, open)
    BY <1>1, EvaluatesMonotone DEF Closed
  <1>3. Composed = ready
    BY <1>1, ClosedIsComposeClosed, ComposedIsLeast DEF ComposeClosed
  <1>. QED  BY <1>2, <1>3

LEMMA EvaluateVerdicts ==
  ASSUME Inv, Inv', Verdicts, NEW kinds, "struct" \notin kinds, Evaluate(kinds),
         pass # "done"
  PROVE  Verdicts'
  <1> PICK d \in Of(kinds) :
        /\ Visits(d)
        /\ LET called == IF Resolves(d, ready, open) THEN Calls(d) ELSE {}
               done   == Evaluates(d, ready, open)
           IN /\ EnsureWalked(called, ready)
              /\ ready' = IF done THEN ready \cup {d} ELSE ready
              /\ errs' = Reported((IF done THEN {} ELSE {d}) \cup WalkErrors(called, ready))
        /\ pos' = d + 1
    BY Zenon DEF Evaluate
  <1>1. UNCHANGED <<prog, pass, final, round, open, before, wasOpen, checked, settled, verdict>>
    BY DEF Evaluate
  <1>2. d \in Decl /\ d \notin ready /\ d >= pos /\ d \notin Structs
    BY DEF Visits, Pending, Of, Structs
  <1>3. errs \subseteq errs' /\ (~ final => errs' = errs)
    BY DEF Reported
  <1>4. settled => Diagnosed'
    <2>. SUFFICES ASSUME settled PROVE Diagnosed'
      OBVIOUS
    <2>1. final /\ ready' = ready /\ ~ Evaluates(d, ready, open)
      BY <1>2, SettledStays DEF Inv
    <2>2. d \in errs'
      BY <2>1 DEF Reported
    <2>3. ~ GoodProgram
      BY <1>2, GoodAllReady
    <2>4. \A e \in Decl \ ready : Visited(e)' => Visited(e) \/ e = d
      <3> SUFFICES ASSUME NEW e \in Decl \ ready, Visited(e)', e # d
                   PROVE  Visited(e)
        OBVIOUS
      <3>1. d \in Int /\ e \in Int /\ pos \in Int
        BY <1>2 DEF Inv, TypeOK, Decl
      <3>2. \A c \in Of(KindsOf(pass)) \ ready : c >= pos => d <= c
        BY DEF Visits, Pending
      <3>3. e \in Of(KindsOf(pass)) /\ e < pos' => e < pos
        BY <3>1, <3>2
      <3>4. pass' = pass /\ \A k : Of(k)' = Of(k)
        BY <1>1, SameProgram
      <3>5. /\ pass = "types" => KindsOf(pass) = {"type", "struct"}
            /\ pass = "sigs" => KindsOf(pass) = {"func"}
            /\ pass = "ctvars" => KindsOf(pass) = {"comptime"}
            /\ pass = "globals" => KindsOf(pass) = {"var"}
        BY DEF KindsOf
      <3> QED
        BY <3>3, <3>4, <3>5 DEF Visited, Funcs
    <2>5. Diagnosed
      BY DEF Verdicts
    <2>6. \A e \in Decl \ ready' : e \notin Structs' /\ Visited(e)' => e \in errs'
      BY <1>1, <1>3, <2>1, <2>2, <2>4, <2>5, SameProgram DEF Diagnosed
    <2>7. \A e \in Structs' \ ready' : Visited(e)' => checked'
      <3>1. Structs \subseteq Decl
        BY DEF Structs, Of
      <3>. QED  BY <1>1, <1>2, <2>1, <2>4, <2>5, <3>1, SameProgram DEF Diagnosed
    <2>8. checked => FieldErrors(ready) \cup CycleErrors(ready) \subseteq errs'
      BY <1>3, <2>5 DEF Diagnosed
    <2>9. checked' => (FieldErrors(ready) \cup CycleErrors(ready))' \subseteq errs'
      <3>1. FieldErrors(ready)' = FieldErrors(ready) /\ CycleErrors(ready)' = CycleErrors(ready)
        BY <1>1, <2>1, SameErrors
      <3>. QED  BY <1>1, <2>8, <3>1
    <2>. QED  BY <1>1, <2>3, <2>6, <2>7, <2>9, SameGood DEF Diagnosed
  <1>5. verdict # "accepted" /\ (verdict = "rejected" => errs' # {})
    BY <1>3 DEF Verdicts
  <1>. QED  BY <1>1, <1>3, <1>4, <1>5 DEF Verdicts

LEMMA ComposeVerdicts ==
  ASSUME Inv, Inv', Verdicts, ComposeStructs
  PROVE  Verdicts'
  <1> PICK d \in Structs : Visits(d) /\ pos' = d + 1
    BY DEF ComposeStructs
  <1>1. /\ pass = "types" /\ open' = Structs /\ ready' = Composed /\ checked' = TRUE
        /\ UNCHANGED <<prog, pass, final, round, before, wasOpen, walked, missed, settled, verdict>>
        /\ errs' = Reported(FieldErrors(Composed) \cup
                      (IF checked THEN {} ELSE CycleErrors(Composed)))
    BY DEF ComposeStructs
  <1>2. errs \subseteq errs' /\ (~ final => errs' = errs)
    BY <1>1 DEF Reported
  <1>3. d \in Decl /\ d >= pos /\ d \notin ready
    BY DEF Structs, Of, Visits, Pending
  <1>4. settled => Diagnosed'
    <2>. SUFFICES ASSUME settled PROVE Diagnosed'
      OBVIOUS
    <2>1. final /\ ready' = ready /\ Composed = ready
      BY <1>1, SettledStays DEF Inv
    <2>2. ~ GoodProgram
      BY <1>3, GoodAllReady
    <2>3. Diagnosed
      BY DEF Verdicts
    <2>4. \A e \in Decl \ ready : e \notin Structs /\ Visited(e)' => Visited(e)
      <3>1. \A e \in Of({"type", "struct"}) \ ready : e >= pos => d <= e
        BY <1>1 DEF Visits, Pending, KindsOf
      <3>2. d \in Int /\ pos \in Int /\ \A e \in Decl : e \in Int
        BY <1>3 DEF Inv, TypeOK, Decl
      <3>3. \A e \in Of({"type", "struct"}) \ ready : e # d /\ e < pos' => e < pos
        <4>1. \A e \in Of({"type", "struct"}) : e \in Int
          BY <3>2 DEF Of
        <4>. QED  BY <3>1, <3>2, <4>1
      <3>4. pass' = pass /\ \A k : Of(k)' = Of(k)
        BY <1>1, SameProgram
      <3>. QED  BY <1>1, <3>3, <3>4 DEF Visited, Funcs
    <2>5. \A e \in Decl \ ready' : e \notin Structs' /\ Visited(e)' => e \in errs'
      BY <1>1, <1>2, <2>1, <2>3, <2>4, SameProgram DEF Diagnosed
    <2>6. FieldErrors(ready) \cup CycleErrors(ready) \subseteq errs'
      BY <1>1, <1>2, <2>1, <2>3 DEF Diagnosed, Reported
    <2>7. (FieldErrors(ready) \cup CycleErrors(ready))' \subseteq errs'
      <3>1. FieldErrors(ready)' = FieldErrors(ready) /\ CycleErrors(ready)' = CycleErrors(ready)
        BY <1>1, <2>1, SameErrors
      <3>. QED  BY <2>6, <3>1
    <2>. QED  BY <1>1, <2>2, <2>5, <2>7, SameGood DEF Diagnosed
  <1>5. verdict # "accepted" /\ (verdict = "rejected" => errs' # {})
    BY <1>1, <1>2 DEF Verdicts
  <1>. QED  BY <1>1, <1>2, <1>4, <1>5 DEF Verdicts

(* A step of the real passes that makes nothing ready and visits nothing.   *)
LEMMA DiagnosedKept ==
  ASSUME Diagnosed, UNCHANGED <<prog, ready, checked>>, errs \subseteq errs',
         GoodProgram => errs' = {},
         \A e \in Decl \ ready : Visited(e)' => Visited(e)
  PROVE  Diagnosed'
  <1>1. FieldErrors(ready)' = FieldErrors(ready) /\ CycleErrors(ready)' = CycleErrors(ready)
    BY SameErrors
  <1>2. Structs' = Structs /\ Structs \subseteq Decl /\ (GoodProgram' <=> GoodProgram)
    BY SameProgram, SameGood DEF Structs, Of
  <1>3. \A e \in Decl \ ready' : e \notin Structs' /\ Visited(e)' => e \in errs'
    BY <1>2 DEF Diagnosed
  <1>4. \A e \in Structs' \ ready' : Visited(e)' => checked'
    BY <1>2 DEF Diagnosed
  <1>5. checked' => (FieldErrors(ready) \cup CycleErrors(ready))' \subseteq errs'
    BY <1>1 DEF Diagnosed
  <1>. QED  BY <1>2, <1>3, <1>4, <1>5 DEF Diagnosed

(* The end of a pass of the real passes: what it looks at was visited.      *)
LEMMA EndPassVisited ==
  ASSUME Inv, Inv', settled, EndTypes \/ EndSignatures \/ EndComptimeVars \/ EndGlobals
  PROVE  \A e \in Decl \ ready : Visited(e)' => Visited(e)
  <1>1. /\ Pending = {} /\ pos' = 1 /\ final /\ UNCHANGED <<prog, ready>>
        /\ \/ pass = "types" /\ pass' = "sigs"
           \/ pass = "sigs" /\ pass' = "ctvars"
           \/ pass = "ctvars" /\ pass' = "globals"
           \/ pass = "globals" /\ pass' \in {"walk", "done"}
    BY DEF EndTypes, EndSignatures, EndComptimeVars, EndGlobals, EndPass, Inv
  <1>. SUFFICES ASSUME NEW e \in Decl \ ready, Visited(e)' PROVE Visited(e)
    OBVIOUS
  <1>2. e \in Int /\ ~ (e < 1) /\ pos \in Int
    BY DEF Inv, TypeOK, Decl
  <1>3. e \in Of(KindsOf(pass)) => e < pos
    BY <1>1, <1>2 DEF Pending
  <1>4. /\ pass = "types" => KindsOf(pass) = {"type", "struct"}
        /\ pass = "sigs" => KindsOf(pass) = {"func"}
        /\ pass = "ctvars" => KindsOf(pass) = {"comptime"}
        /\ pass = "globals" => KindsOf(pass) = {"var"}
    BY DEF KindsOf
  <1>5. \A k : Of(k)' = Of(k)
    BY <1>1, SameProgram
  <1>6. Funcs' = Of({"func"}) /\ Funcs = Of({"func"})
    BY <1>5 DEF Funcs
  <1>. QED  BY <1>1, <1>2, <1>3, <1>4, <1>5, <1>6 DEF Visited

LEMMA EndPassVerdicts ==
  ASSUME Inv, Inv', Verdicts, EndTypes \/ EndSignatures \/ EndComptimeVars \/ EndGlobals
  PROVE  Verdicts'
  <1>1. /\ UNCHANGED <<prog, ready, checked, errs, settled, final>>
        /\ pass # "done"
        /\ verdict' = verdict \/ (errs # {} /\ final /\ verdict' = "rejected")
    <2>1. pass = "globals" => final
      BY DEF Inv
    <2>. QED
      BY <2>1 DEF EndTypes, EndSignatures, EndComptimeVars, EndGlobals, EndPass, StayInRound
  <1>2. settled => Diagnosed'
    <2>. SUFFICES ASSUME settled PROVE Diagnosed'
      OBVIOUS
    <2>1. \A e \in Decl \ ready : Visited(e)' => Visited(e)
      BY EndPassVisited
    <2>2. Diagnosed
      BY DEF Verdicts
    <2>3. GoodProgram => errs' = {}
      BY <1>1, <2>2 DEF Diagnosed
    <2>. QED  BY <1>1, <2>1, <2>2, <2>3, DiagnosedKept
  <1>. QED  BY <1>1, <1>2 DEF Verdicts

LEMMA NextRoundVerdicts ==
  ASSUME Inv, Inv', Verdicts, NextRound
  PROVE  Verdicts'
  <1>1. UNCHANGED <<errs, verdict, final, settled>> /\ pass # "done" /\ ~ final
    BY DEF NextRound, EndPass, Inv
  <1>2. ~ settled
    BY <1>1 DEF Inv
  <1>. QED  BY <1>1, <1>2 DEF Verdicts

LEMMA LastRoundVerdicts ==
  ASSUME Inv, Inv', Verdicts, LastRound
  PROVE  Verdicts'
  <1>1. /\ UNCHANGED <<errs, verdict, ready, prog>> /\ pass = "vars" /\ ~ final
        /\ pass' = "types" /\ pos' = 1 /\ final' /\ checked' = FALSE
    BY DEF LastRound, EndPass, ResetReports, Inv
  <1>2. errs = {} /\ verdict = "none"
    BY <1>1 DEF Verdicts
  <1>3. \A e \in Decl : ~ Visited(e)'
    <2>1. \A e \in Decl : ~ (e < 1)
      BY DEF Decl
    <2>. QED  BY <1>1, <2>1 DEF Visited
  <1>4. Diagnosed'
    <2>1. Structs' \subseteq Decl
      BY DEF Structs, Of
    <2>. QED  BY <1>1, <1>2, <1>3, <2>1 DEF Diagnosed
  <1>. QED  BY <1>1, <1>2, <1>4 DEF Verdicts

LEMMA WalkVerdicts ==
  ASSUME Inv, Inv', Verdicts, WalkBodies
  PROVE  Verdicts'
  <1>1. /\ UNCHANGED <<prog, ready, checked, settled, final, pos>> /\ pass = "walk" /\ pass' = "done"
        /\ errs' = Reported(WalkErrors(Funcs, ready)) /\ final
        /\ verdict' = IF errs' = {} THEN "accepted" ELSE "rejected"
    BY DEF WalkBodies, StayInRound, Inv
  <1>2. errs \subseteq errs'
    BY <1>1 DEF Reported
  <1>3. settled => Diagnosed'
    <2>. SUFFICES ASSUME settled PROVE Diagnosed'
      OBVIOUS
    <2>1. Diagnosed
      BY DEF Verdicts
    <2>2. GoodProgram => errs' = {}
      BY <1>1, <2>1, GoodAllReady DEF Diagnosed, Reported, WalkErrors
    <2>3. \A e \in Decl \ ready : Visited(e)' => Visited(e)
      BY <1>1, SameProgram DEF Visited
    <2>. QED  BY <1>1, <1>2, <2>1, <2>2, <2>3, DiagnosedKept
  <1>. QED  BY <1>1, <1>3 DEF Verdicts

LEMMA NextVerdicts ==
  ASSUME Inv, Inv', Verdicts, [Next]_vars
  PROVE  Verdicts'
  <1>1. ASSUME NEW kinds, Evaluate(kinds) PROVE pass # "done"
    <2>1. pass = "done" => KindsOf(pass) = {}
      BY DEF KindsOf
    <2>. QED  BY <1>1, <2>1, Zenon DEF Evaluate, Visits, Pending, Of
  <1>2. CASE EvalTypeDef \/ ResolveSignature \/ EvalComptimeVar \/ EvalGlobalVar
    BY <1>1, <1>2, EvaluateVerdicts
       DEF EvalTypeDef, ResolveSignature, EvalComptimeVar, EvalGlobalVar
  <1>3. CASE Done \/ UNCHANGED vars
    <2>1. UNCHANGED vars
      BY <1>3 DEF Done
    <2>2. \A e : Visited(e)' <=> Visited(e)
      BY <2>1, SameProgram DEF vars, Visited
    <2>3. settled => Diagnosed'
      <3>1. settled => (GoodProgram => errs' = {})
        BY <2>1 DEF vars, Verdicts, Diagnosed
      <3>. QED  BY <2>1, <2>2, <3>1, DiagnosedKept DEF vars, Verdicts
    <2>. QED  BY <2>1, <2>3 DEF vars, Verdicts
  <1>. QED
    BY <1>2, <1>3, ComposeVerdicts, EndPassVerdicts, NextRoundVerdicts, LastRoundVerdicts,
       WalkVerdicts DEF Next

LEMMA InitVerdicts == ASSUME Init PROVE Verdicts
  BY DEF Init, Verdicts

THEOREM Invariance2 == Spec => [](Inv /\ Verdicts /\ prog \in Programs)
  <1>1. Inv /\ Verdicts /\ [Next]_vars => (Inv /\ Verdicts)'
    BY NextInv, NextVerdicts
  <1>2. Init => Inv /\ Verdicts /\ prog \in Programs
    BY InitInv, InitVerdicts DEF Init
  <1>3. [Next]_vars => prog' = prog
    BY DEF Next, vars, EvalTypeDef, ResolveSignature, EvalComptimeVar, EvalGlobalVar, Evaluate,
           ComposeStructs, EndTypes, EndSignatures, NextRound, LastRound, EndComptimeVars,
           EndGlobals, EndPass, WalkBodies, Done
  <1>4. prog \in Programs /\ prog' = prog => (prog \in Programs)'
    OBVIOUS
  <1>. QED  BY <1>1, <1>2, <1>3, <1>4, PTL DEF Spec

(* In an accepted module whose rounds settled, a declaration that is not    *)
(* ready is a struct that waits for another one.                            *)
LEMMA UnreadyWaits ==
  ASSUME Inv, Verdicts, WellFormed(prog), settled, verdict = "accepted"
  PROVE  /\ Decl \ ready \subseteq Structs
         /\ \A s \in Decl \ ready : ~ OnCycle(Embedded, s)
         /\ \A s \in Decl \ ready : DependsOn[s] \cap (Decl \ ready) # {}
  <1>1. Diagnosed /\ pass = "done" /\ errs = {}
    BY DEF Verdicts
  <1>2. \A d \in Decl : Visited(d)
    BY <1>1, KindsCover DEF Visited, Inv, Of
  <1>3. Decl \ ready \subseteq Structs
    BY <1>1, <1>2 DEF Diagnosed
  <1>4. \A s \in Decl \ ready : s \notin FieldErrors(ready) /\ s \notin CycleErrors(ready)
    BY <1>1, <1>2, <1>3 DEF Diagnosed
  <1>5. \A s \in Decl \ ready : ~ OnCycle(Embedded, s)
    BY <1>3, <1>4 DEF CycleErrors
  <1>6. ASSUME NEW s \in Decl \ ready PROVE DependsOn[s] \cap (Decl \ ready) # {}
    <2>. DEFINE types == Of({"type", "struct"})
                names == prog[s].needs \cup prog[s].embeds
    <2>1. s \in Structs /\ s \in Decl /\ prog[s].kind = "struct" /\ names \subseteq Name
      BY <1>3 DEF Structs, Of, Inv, TypeOK, Program
    <2>2. Calls(s) = {}
      BY <2>1 DEF Calls, Funcs, Of, WellFormed
    <2>3. ~ (names \subseteq Constants(ready))
      <3>1. ~ Evaluates(s, ready, open)
        BY SettledStays
      <3>. QED  BY <2>1, <2>2, <3>1 DEF Evaluates, Resolves, Reads
    <2>4. /\ types \subseteq Decl
          /\ \A x \in types : x \in ready => x \in Constants(ready)
      BY DEF Of, Constants
    <2>5. \E x \in names : x \in types /\ x \notin ready
      <3>1. CASE ~ (prog[s].embeds \cap types \subseteq ready)
        BY <3>1
      <3>2. CASE names \ (Constants(ready) \cup types) = {}
        BY <2>3, <2>4, <3>2
      <3>3. s \notin FieldErrors(ready)
        BY <1>4
      <3>. QED  BY <2>1, <3>1, <3>2, <3>3 DEF FieldErrors
    <2>6. PICK x \in names : x \in Decl \ ready /\ x \in Structs
      BY <1>3, <2>4, <2>5
    <2>. QED  BY <2>1, <2>6 DEF DependsOn
  <1>. QED  BY <1>3, <1>5, <1>6

(* Rounds that settled give the right verdict, for modules of every size:   *)
(* what is rejected has an error of its own, and of what is accepted only   *)
(* structs behind a cycle of fields and embeddings are left.                *)
THEOREM VerdictCorrect == Spec => []VerdictRight
  <1>1. Inv /\ Verdicts /\ prog \in Programs => VerdictRight
    <2>. SUFFICES ASSUME Inv, Verdicts, prog \in Programs PROVE VerdictRight
      OBVIOUS
    <2>1. RejectsOnlyBad
      BY DEF Verdicts, Diagnosed, RejectsOnlyBad
    <2>2. ASSUME settled, verdict = "accepted", NEW d \in Decl \ ready
          PROVE  BehindMixedCycle(d)
      <3>1. /\ Decl \ ready \subseteq Structs /\ ~ OnCycle(Embedded, d)
            /\ \A s \in Decl \ ready : DependsOn[s] \cap (Decl \ ready) # {}
        BY <2>2, UnreadyWaits, PassesAssumption
      <3>2. DependsOn \in [Decl -> SUBSET Decl] /\ Decl \ ready \in SUBSET Decl
        BY DEF DependsOn, Structs, Of
      <3>. DEFINE U == Decl \ ready
                  G == DependsOn
      <3>3. G \in [Decl -> SUBSET Decl] /\ U \in SUBSET Decl /\ d \in U
            /\ \A s \in U : G[s] \cap U # {}
        BY <3>1, <3>2
      <3>. HIDE DEF U, G
      <3>4. LeadsToCycle(G, U, d)
        <4>1. Endless(G, U)
          BY <3>3 DEF Endless
        <4>2. d \in U
          BY <3>3
        <4>. QED  BY <4>1, <4>2, CycleReached, Zenon
      <3>. QED  BY <3>1, <3>4 DEF LeadsToCycle, BehindMixedCycle, U, G
    <2>. QED  BY <2>1, <2>2 DEF VerdictRight, AcceptedComplete
  <1>. QED  BY <1>1, Invariance2, PTL
=============================================================================
