------------------------------ MODULE Statements ------------------------------
(***************************************************************************)
(* Statements of a function body, through the three stages that must agree *)
(* on them: sema accepts or rejects a statement and rewrites it            *)
(* (src/src/sema/stmt_var.c, stmt_assign.c), constant evaluation runs it   *)
(* when the function is called at compile time (src/src/ctfe/), and the    *)
(* emitted C runs it when it is called at run time (src/src/cbackend/).    *)
(*   <<"declare", x, T, e>>  `var x: T = e`, of the type of e if T is Auto,*)
(*                           and without a value if e is Undef             *)
(*   <<"assign", t, op, e>>  `t op= e`, or `t = e` if op is "="            *)
(*   <<"eval", e>>           an expression                                 *)
(***************************************************************************)
EXTENDS Evaluation

L == INSTANCE Compiled WITH Order <- "left"
R == INSTANCE Compiled WITH Order <- "right"

CONSTANTS
  Programs,    \* sets of statements: [first |-> a sequence, then |-> a set]
  MaxSteps     \* bound: how many statements follow the first ones

VARIABLES
  program,     \* the one that is run
  env,         \* the variables: their types, and whether they have a value
  folded,      \* the store of constant evaluation
  ran,         \* the store of the compiled program
  last,        \* the last statement, and how each of the stages ended
  steps

vars == <<program, env, folded, ran, last, steps>>

Auto  == <<"auto">>
Undef == <<"undef">>

(***************************************************************************)
(* Sema: a statement is rejected, or accepted and rewritten to             *)
(* <<target, op, e>>, where the target of a declaration is <<"new", x, T>>.*)
(* Its operands are checked first.                                         *)
(***************************************************************************)
No == <<>>
Becomes(t, op, r) == IF Rejected(r) THEN No ELSE <<t, op, r.e>>

\* Nil goes only where the type is an option itself.
NilFor(T) == IF Kind(T) = "option" THEN As(T, <<"make", T, <<>>>>) ELSE Reject("nil")

Declares(x, T, r)  == Becomes(<<"new", x, T>>, "=", r)
DeclareAuto(x, r)  == IF TypeOf(r) = Void THEN No ELSE Declares(x, TypeOf(r), r)
Initializer(T, r)  == IF r.e = <<"nil">> THEN NilFor(T) ELSE Fit(r, T)
DeclareUndef(x, T) == IF T = Auto THEN No ELSE <<<<"new", x, T>>, "undefined", Undef>>

\* A name is declared once.
IsNew(x) == x \notin DOMAIN env

CheckDeclare(x, T, r) == IF T = Auto THEN DeclareAuto(x, r) ELSE Declares(x, T, Initializer(T, r))

\* What `old op e` is, put back where old was.
Operated(T, op, r) ==
  IF Rejected(r) THEN r
  ELSE IF op \notin Compound THEN Reject("compound")
  ELSE IF IsBad(Binary(op, Shadow(T), r.v)) THEN Reject("compound")
  ELSE IF IsBad(Assigned(T, Binary(op, Shadow(T), r.v))) THEN Reject("compound") ELSE r

\* A variable: a const one only until it has its value.
Barred(x) == HasConst(env[x].type) /\ env[x].set
NewFor(T, op, r) == IF op # "=" THEN Operated(T, op, r) ELSE IF r.e = <<"nil">> THEN NilFor(T) ELSE Fit(r, T)
CheckVariable(t, op, r) ==
  IF t[2] \notin DOMAIN env \/ Barred(t[2]) THEN No
  ELSE Becomes(t, op, NewFor(env[t[2]].type, op, r))

\* A member: the value it is a member of, or the one it is reached through,
\* must not itself be const.
OfConst(a) ==
  \/ HasConst(TypeOf(a))
  \/ Kind(Strip(TypeOf(a))) = "ptr" /\ IsQual(Sub(Strip(TypeOf(a))))
MemberOf(op, m, r) == IF Rejected(m) THEN No ELSE Becomes(m.e, op, NewFor(TypeOf(m), op, r))
MemberOn(name, op, a, r) == IF Rejected(a) \/ OfConst(a) THEN No ELSE MemberOf(op, CheckMember(name, a), r)
CheckMemberTarget(t, op, a, r) == IF Rejected(a) THEN No ELSE MemberOn(t[3], op, Reaching(a, t[3]), r)

\* What a pointer points to: not coerced.
NewThrough(T, op, r) == IF op # "=" THEN Operated(T, op, r) ELSE IF r.e = <<"nil">> THEN NilFor(T) ELSE Fitted(r, T)
CheckDerefTarget(op, a, r) ==
  CASE Rejected(a) \/ Kind(Strip(TypeOf(a))) # "ptr" -> No
    [] HasConst(Pointed(a.v)) -> No
    [] OTHER -> Becomes(<<"deref", a.e>>, op, NewThrough(Pointed(a.v), op, r))

\* An element: that of a struct is what its method points to; of the others the
\* operator is not looked at, and of a tuple only the type of
\* its first element is.
ConstElements(T) == Kind(T) = "slice" /\ Kind(Sub(T)) = "const"
CheckIndexTarget(op, a, i, r) ==
  CASE Rejected(a) \/ Rejected(i) -> No
    [] HasMethod(TypeOf(a), "index") -> CheckDerefTarget(op, Ask(a, "index", <<i>>), r)
    [] ~ HasLength(Strip(TypeOf(a))) \/ ~ IsInt(TypeOf(i)) -> No
    [] HasConst(TypeOf(a)) \/ ConstElements(Strip(TypeOf(a))) -> No
    [] OTHER -> Becomes(<<"index", a.e, i.e>>, op,
                        IF Rejected(r) THEN r ELSE Fit(r, ElementType(Strip(TypeOf(a)))))

(***************************************************************************)
(* A struct may say what it is to be assigned (`=`): an assignment, never  *)
(* a declaration, is then the call of that method.                         *)
(***************************************************************************)
\* The type of a target, as far as it is seen from its form.
RECURSIVE TargetType(_)
Behind(T) == IF Kind(Strip(T)) = "ptr" THEN Strip(Sub(Strip(T))) ELSE Strip(T)
MemberType(T, name) == IF HasParts(T) /\ FieldAt(T, name) # 0 THEN T[3][FieldAt(T, name)][2] ELSE Void
PointedBy(T) == IF Kind(T) = "ptr" THEN Strip(Sub(T)) ELSE Void
IndexedType(T, i) ==
  CASE Kind(T) \in {"array", "slice"} -> Strip(Sub(T))
    [] Kind(T) = "tuple" /\ i[1] = "int" -> IF i[2] \in 0..Len(T[2]) - 1 THEN Strip(T[2][i[2] + 1]) ELSE Void
    [] HasMethod(T, "index") -> PointedBy(Strip(Funcs[<<T[2], "index">>].out))
    [] OTHER -> Void
TargetType(t) ==
  CASE t[1] = "var" /\ t[2] \in DOMAIN env -> env[t[2]].type
    [] t[1] = "member" -> MemberType(Behind(TargetType(t[2])), t[3])
    [] t[1] = "deref"  -> PointedBy(Strip(TargetType(t[2])))
    [] t[1] = "index"  -> IndexedType(Strip(TargetType(t[2])), t[3])
    [] OTHER -> Void

Assigns(t) == HasMethod(TargetType(t), "=")
Dispatched(s) == s[1] = "assign" /\ s[3] = "=" /\ s[4] # <<"nil">> /\ s[4][1] # "unwrap" /\ Assigns(s[2])
CheckDispatch(a, r) ==
  IF Rejected(a) \/ Rejected(r) THEN No ELSE Becomes(<<"none">>, "=", Ask(a, "=", <<LentTo(r)>>))

\* A compound assignment to a variable whose struct has the operator, or says what
\* it is to be assigned, is the assignment of what the operator gives.
Spelled(s) ==
  /\ s[1] = "assign" /\ s[3] # "=" /\ s[2][1] = "var" /\ s[2][2] \in DOMAIN env
  /\ Assigns(s[2]) \/ HasMethod(env[s[2][2]].type, s[3])
SpelledOut(s) == IF Spelled(s) THEN <<"assign", s[2], "=", <<"bin", s[3], s[2], s[4]>>>> ELSE s

Operands(s) ==
  CASE s[1] = "eval" -> <<s[2]>>
    [] s[1] = "declare" -> IF s[4] = Undef THEN <<>> ELSE <<s[4]>>
    [] Dispatched(s) -> <<s[2], s[4]>>
    [] s[2][1] = "var" -> <<s[4]>>
    [] s[2][1] = "index" -> <<s[2][2], s[2][3], s[4]>>
    [] OTHER -> <<s[2][2], s[4]>>

CheckAssign(t, op, rs) ==
  CASE t[1] = "var"    -> CheckVariable(t, op, rs[1])
    [] t[1] = "member" -> CheckMemberTarget(t, op, rs[1], rs[2])
    [] t[1] = "index"  -> CheckIndexTarget(op, rs[1], rs[2], rs[3])
    [] t[1] = "deref"  -> CheckDerefTarget(op, rs[1], rs[2])

CheckStatement(s, rs) ==
  CASE s[1] = "eval" -> Becomes(<<"none">>, "=", rs[1])
    [] s[1] = "declare" /\ ~ IsNew(s[2]) -> No
    [] s[1] = "declare" /\ rs = <<>> -> DeclareUndef(s[2], s[3])
    [] s[1] = "declare" -> CheckDeclare(s[2], s[3], rs[1])
    [] Dispatched(s) -> CheckDispatch(rs[1], rs[2])
    [] s[1] = "assign"  -> CheckAssign(s[2], s[3], rs)

VerdictOn(s) == CheckStatement(s, CheckAll(env, Operands(s)))
Verdict(s) == IF Spelled(s) /\ Barred(s[2][2]) THEN No ELSE VerdictOn(SpelledOut(s))

(***************************************************************************)
(* What the stages are known to do differently (README, section 8).  These *)
(* statements are accepted and not run.                                    *)
(***************************************************************************)
RECURSIVE Within(_)
Inner(e) ==
  CASE e[1] \in {"int", "bool", "nil", "undef", "var", "variant", "none"} -> {}
    [] e[1] \in {"member", "deref", "addr", "lend", "unwrap", "as", "is", "len"} -> {e[2]}
    [] e[1] \in {"un", "isnil"} -> {e[3]}
    [] e[1] = "bin" -> {e[3], e[4]}
    [] e[1] \in {"index", "same"} -> {e[2], e[3]}
    [] e[1] \in {"cond", "slice"} -> {e[2], e[3], e[4]}
    [] OTHER -> {e[3][i] : i \in DOMAIN e[3]}
Within(e) == {e} \cup UNION {Within(f) : f \in Inner(e)}

\* A slice of an array that is a part of something is, in constant evaluation,
\* one of a copy.
CopyCut(e) == e[1] = "slice" /\ e[2][1] \in {"member", "deref", "unwrap", "index"}

\* There, tuples with an array or option in them are never equal, and structs
\* with an array in them cannot be compared.
Lacks(T, form) ==
  \/ form = "bin" /\ Kind(T) = "tuple" /\ \E i \in DOMAIN T[2] : Kind(Strip(T[2][i])) \in {"array", "option"}
  \/ form = "same" /\ Kind(T) = "struct" /\ \E i \in DOMAIN T[3] : Kind(Strip(T[3][i][2])) = "array"
Compared(e) == IF e[1] = "bin" THEN e[3] ELSE e[2]
NoEquality(e) ==
  /\ e[1] = "same" \/ (e[1] = "bin" /\ e[2] \in Equality)
  /\ Compared(e)[1] = "var" /\ Compared(e)[2] \in DOMAIN env /\ Lacks(Strip(env[Compared(e)[2]].type), e[1])

\* An option is made of a nil, or of an option, that is left as it is.
LooseOption(e) ==
  /\ e[1] = "make" /\ Kind(e[2]) \in {"option", "union"} /\ e[3] # <<>>
  /\ \/ e[3][1] = <<"nil">>
     \/ Kind(e[2]) = "option" /\ e[3][1][1] = "var" /\ e[3][1][2] \in DOMAIN env /\ Kind(env[e[3][1][2]].type) = "option"

\* A compound assignment to a variable without a value reads what nothing was
\* written to.
ReadsNothing(k) == k[1][1] = "var" /\ k[2] # "=" /\ ~ env[k[1][2]].set

\* A part of a tuple that is of another type than the first; an option that is
\* given what cannot become one of its kind.
OtherPart(t, types) == t[1] = "index" /\ Kind(Strip(types[t[2]])) = "tuple" /\ t[3] # <<"int", 0, <<"i32">>>>
OtherOption(T, S) ==
  Kind(Strip(T)) = "option" /\ Strip(S) # Strip(T) /\ (Kind(Strip(S)) = "option" \/ IsBad(Implicit(Shadow(Strip(S)), Sub(Strip(T)))))
PlaceGiven(s, types) == IF s[1] = "declare" THEN s[3] ELSE types[s[2]]
TypesIn(s) ==
  LET es == {s[4]} \cup (IF s[1] = "declare" THEN {} ELSE Within(s[2]))
  IN [e \in es |-> TypeOf(Check(env, e))]
LooselyOn(s, types) ==
  (s[1] = "assign" /\ OtherPart(s[2], types)) \/ OtherOption(PlaceGiven(s, types), types[s[4]])
Loosely(s) == s[1] # "eval" /\ s[4] \notin {Undef, <<"nil">>} /\ LooselyOn(s, TypesIn(s))

\* What the length of an array or tuple is asked of is not run in C: an effect or
\* a failure of it is there only in constant evaluation.
NotRun(e) ==
  e[1] = "len" /\ Kind(e[3]) # "slice" /\ \E f \in Within(e[2]) : f[1] \in {"call", "index", "deref", "unwrap"}

Uses(k) == Within(k[3]) \cup (IF k[1][1] \in {"new", "none"} THEN {} ELSE Within(k[1]))
Known(s, k) == ReadsNothing(k) \/ Loosely(s) \/ \E e \in Uses(k) : CopyCut(e) \/ NotRun(e) \/ NoEquality(e) \/ LooseOption(e)

(***************************************************************************)
(* Steps: the next statement, if it is accepted, is run in both ways.      *)
(***************************************************************************)
Fine  == <<"ok">>
Open  == <<"open">>
Ended(v) == IF IsBad(v) THEN v.data ELSE Fine

Named(st, known) == [x \in DOMAIN st \cap DOMAIN known |-> st[x]]

\* What the compiled program does, whatever order was taken.
SameEnd(l, r, known) == Ended(l.v) = Fine => Named(l.st, known) = Named(r.st, known)
Settled(l, r, known) == IF Ended(l.v) = Ended(r.v) /\ SameEnd(l, r, known) THEN Ended(l.v) ELSE Open

\* Temporaries are gone after the statement, those of constant evaluation only
\* if nothing refers to them.
Rooted(v) == IF Kind(v.type) \in {"ptr", "slice"} THEN {v.data[1]} ELSE {}
Reached(st, known) ==
  LET kept == DOMAIN known \cup UNION {Rooted(st[x]) : x \in DOMAIN st \cap DOMAIN known}
  IN [x \in DOMAIN st \cap kept |-> st[x]]

EnvAfter(k) ==
  CASE k[1][1] = "new" -> (k[1][2] :> [type |-> k[1][3], set |-> k[2] # "undefined"]) @@ env
    [] k[1][1] = "var" -> [env EXCEPT ![k[1][2]].set = TRUE]
    [] OTHER -> env

Running == last.folded = Fine /\ last.ran = Fine

Record(s, k, f, l, r, known) ==
  /\ env' = known
  /\ folded' = Reached(f.st, known)
  /\ ran' = Named(l.st, known)
  /\ last' = [statement |-> s, form |-> k, folded |-> Ended(f.v), ran |-> Settled(l, r, known)]

RunBoth(s, k) ==
  IF Known(s, k)
  THEN last' = [statement |-> s, form |-> k, folded |-> Fine, ran |-> Open] /\ UNCHANGED <<env, folded, ran>>
  ELSE Record(s, k, RunAll(<<k>>, folded), L!Body(<<k>>, ran), R!Body(<<k>>, ran), EnvAfter(k))

Step(s, k) == Running /\ k # No /\ RunBoth(s, k) /\ steps' = steps + 1 /\ UNCHANGED program

First == Programs[program].first
Coming ==
  IF steps < Len(First) THEN {First[steps + 1]}
  ELSE IF steps < Len(First) + MaxSteps THEN Programs[program].then ELSE {}

Empty == [x \in {} |-> 0]
Init ==
  /\ program \in DOMAIN Programs /\ steps = 0
  /\ env = Empty /\ folded = Empty /\ ran = Empty
  /\ last = [statement |-> <<"none">>, form |-> No, folded |-> Fine, ran |-> Fine]

Next == \E s \in Coming : Step(s, Verdict(s))
Spec == Init /\ [][Next]_vars

(***************************************************************************)
(* Properties.                                                             *)
(***************************************************************************)
HasValue == {x \in DOMAIN env : env[x].set}

TypeOK ==
  /\ program \in DOMAIN Programs /\ steps \in 0..Len(First) + MaxSteps
  /\ DOMAIN env \subseteq DOMAIN folded /\ DOMAIN ran = DOMAIN env

\* What sema accepts does not fail for its types: constant evaluation finds every
\* operation it needs and copies no value of another type byte by byte, the C
\* compiler takes what is emitted, and every variable holds a value of the type
\* it was declared with.  (sema checks on shadows, the vm runs on values, and
\* the C is written from the syntax: three different programs.)
Sound ==
  /\ last.folded[1] \notin {"type", "bytes", "rejected", "nowhere"}
  /\ last.ran[1] \notin {"cc", "bytes", "nowhere"}
  /\ last.folded = Fine => \A x \in HasValue : Strip(folded[x].type) = Strip(env[x].type)

\* A statement means the same at compile time and at run time: where the C
\* standard settles what the emitted program does, it panics exactly when
\* constant evaluation panics, and leaves every variable with the same value.
Refers(T) == Kind(Strip(T)) \in {"ptr", "slice"}
SameValue(x) ==
  IF Refers(env[x].type) /\ ran[x].data[1] \notin DOMAIN env THEN TRUE ELSE folded[x].data = ran[x].data
Agrees ==
  CASE last.ran = Fine -> last.folded = Fine /\ \A x \in HasValue : SameValue(x)
    [] last.ran[1] = "panic" -> last.folded[1] = "panic"
    [] OTHER -> TRUE

\* A const variable never changes once it has its value, whatever is written
\* through the pointers, the slices and the methods that a program can make.  What
\* is left open is what its parts are: they are not const themselves, so that a
\* part of one can be assigned (ConstHolds), and one that is lent to a method, or
\* pointed to, can be written.
Holds(x) == x \in DOMAIN ran' => ran'[x] = ran[x]
IsPart(t) == t[1] \in {"member", "index"}
InsidePart(s) == s[1] = "assign" /\ IsPart(s[2]) /\ IsPart(s[2][2])
LendsPart(k) == \E e \in Within(k[3]) : e[1] \in {"addr", "lend"} /\ IsPart(e[2])
Exposed(x) == \E y \in DOMAIN ran : Kind(ran[y].type) = "ptr" /\ ran[y].data[1] = x /\ ran[y].data[2] # <<>>
LeftOpen(s, k, x) == InsidePart(s) \/ Exposed(x) \/ LendsPart(k)
ConstKept ==
  [][\A x \in HasValue : HasConst(env[x].type) => Holds(x) \/ LeftOpen(last'.statement, last'.form, x)]_vars

\* A const variable never changes once it has its value: no field or element of
\* it can be written (stmt_assign.c:1045, 791).
ConstHolds == [][\A x \in HasValue : HasConst(env[x].type) => Holds(x)]_vars
=============================================================================
