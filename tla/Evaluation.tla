------------------------------ MODULE Evaluation ------------------------------
(***************************************************************************)
(* Constant evaluation of a checked expression (src/src/ctfe/): the        *)
(* operations of the vm on real values, in the order the operands are      *)
(* written.  A variable, and an element of an array or slice that lies     *)
(* somewhere, is not copied when it is evaluated: what an operand is is    *)
(* read when the operation is done, after what the later operands did.     *)
(* A result is [v, st, at]: the value, the store after it, and where the   *)
(* value still lies (<<>> when it is a copy).                              *)
(***************************************************************************)
EXTENDS Places, Typing

Got(v, st)   == [v |-> v, st |-> st, at |-> <<>>]
Lies(p, st)  == [v |-> Value(TypeAt(st, p), DataAt(st, p)), st |-> st, at |-> p]
Fail(r)      == IsBad(r.v)
IfGot(r, next) == IF Fail(r) THEN [r EXCEPT !.at = <<>>] ELSE next
Now(r, st)   == IF r.at = <<>> THEN r.v ELSE Value(TypeAt(st, r.at), DataAt(st, r.at))

\* A number, as an index of its own sign.
SignedIndex(v) == IF IsInt(v.type) THEN v.data ELSE -1

\* What an expression is evaluated for: its value, its place <<"place", e>>, all of
\* several expressions <<"all", es, wants, rs>>, and statements <<"run", does>>.
RECURSIVE Eval(_, _), SameParts(_, _, _, _)
Place(e, st)  == Eval(<<"place", e>>, st)
Lend(e, st)   == Eval(<<"lend", e>>, st)
RunAll(does, st) == Eval(<<"run", does>>, st)
EvalAll(es, wants, st, rs) == Eval(<<"all", es, wants, rs>>, st)

(***************************************************************************)
(* Where a value of type `want` is to go: cast if it can be, and as it is  *)
(* otherwise.                                                              *)
(***************************************************************************)
CastOr(v, T) == IF IsBad(Implicit(v, T)) THEN v ELSE Implicit(v, T)
EvalAs(r, want) ==
  IF Fail(r) \/ r.v.type \in {want, Strip(want)} THEN r ELSE Got(CastOr(r.v, Strip(want)), r.st)

(***************************************************************************)
(* Operators.                                                              *)
(***************************************************************************)
EvalBinary(op, a, b) == IfGot(b, Got(Binary(op, Now(a, b.st), b.v), b.st))

\* The left operand decides, or the right one is the result.
EvalLogic(e, a) == IF a.v.data = (e[2] = "||") THEN Got(a.v, a.st) ELSE Eval(e[4], a.st)

EvalBin(e, a) ==
  CASE Fail(a) -> a
    [] e[2] \in {"&&", "||"} -> EvalLogic(e, a)
    [] OTHER -> EvalBinary(e[2], a, Eval(e[4], a.st))

EvalUnary(op, a) == IfGot(a, Got(UnaryOp(op, a.v), a.st))
EvalCast(T, a) == IfGot(a, Got(Explicit(a.v, T), a.st))

IsNilOf(op, a) ==
  IfGot(a, Got(IF Kind(Strip(a.v.type)) # "option" THEN Bad("type", "nil", a.v.type)
                ELSE Value(Bool, (a.v.data = <<>>) = (op = "==")), a.st))

IsOf(i, a) ==
  IfGot(a, Got(IF Kind(Strip(a.v.type)) # "union" THEN Bad("type", "is", a.v.type)
               ELSE Value(Bool, a.v.data[1] = i), a.st))

(***************************************************************************)
(* Places: a pointer to it, or "nowhere".                                  *)
(***************************************************************************)
Nowhere(st) == Got(Bad("nowhere", "place", Void), st)
IsNowhere(r) == Fail(r) /\ r.v.data[1] = "nowhere"
At(st, p)    == Got(PointerTo(TypeAt(st, p), p), st)
PlaceOf(r)   == r.v.data

\* A pointer to something that is gone is reported.
Follow(r) ==
  CASE Fail(r) -> r
    [] Kind(r.v.type) # "ptr" -> Got(Bad("type", "deref", r.v.type), r.st)
    [] ~ Live(r.st, r.v.data) -> Got(Bad("undefined", "deref", r.v.type), r.st)
    [] OTHER -> Got(r.v, r.st)

\* Mutant: a member of a union is there whichever one it holds.
FieldInAny(T, b, i) ==
  IF Kind(T) \in {"struct", "union"} THEN Got(PointerTo(Parts(T)[i], Into(PlaceOf(b), i)), b.st)
  ELSE Got(Bad("type", "member", T), b.st)

\* A part of what lies at b.
FieldIn(T, b, i) ==
  CASE Kind(T) \notin {"struct", "union"} -> Got(Bad("type", "member", T), b.st)
    [] Kind(T) = "union" /\ DataAt(b.st, PlaceOf(b))[1] # i -> Got(Bad("panic", "member", T), b.st)
    [] OTHER -> Got(PointerTo(Parts(T)[i], Into(PlaceOf(b), i)), b.st)

ElementIn(T, b, i, st) ==
  CASE Kind(T) \in {"array", "tuple"} ->
         IF i \in 0..(IF Kind(T) = "array" THEN T[3] ELSE Len(T[2])) - 1
         THEN Got(PointerTo(OnePart(T, i + 1), Into(PlaceOf(b), i + 1)), st)
         ELSE Got(Bad("panic", "index", T), st)
    [] Kind(T) = "slice" ->
         LET s == DataAt(st, PlaceOf(b)) IN
         IF i \in 0..s[3] - 1 THEN Got(PointerTo(Sub(T), Along(<<s[1], s[2]>>, i)), st)
         ELSE Got(Bad("panic", "index", T), st)
    [] OTHER -> Got(Bad("type", "index", T), st)

PlaceIndex(b, i) == IF Fail(i) THEN i ELSE ElementIn(Strip(Pointed(b.v)), b, SignedIndex(i.v), i.st)

InsideOption(b) ==
  IF DataAt(b.st, PlaceOf(b)) = <<>> THEN Got(Bad("panic", "unwrap", Void), b.st)
  ELSE Got(PointerTo(Sub(Strip(Pointed(b.v))), Into(PlaceOf(b), 1)), b.st)

PlacePart(e, b) ==
  CASE Fail(b) -> b
    [] e[1] = "member" -> FieldIn(Strip(Pointed(b.v)), b, e[3])
    [] e[1] = "index"  -> PlaceIndex(b, Eval(e[3], b.st))
    [] e[1] = "unwrap" -> InsideOption(b)

EvalPlace(e, st) ==
  CASE e[1] = "var"   -> At(st, <<e[2], <<>>>>)
    [] e[1] = "deref" -> Follow(Eval(e[2], st))
    [] e[1] \in {"member", "index", "unwrap"} -> PlacePart(e, Place(e[2], st))
    [] OTHER -> Nowhere(st)

Load(r) == IF Fail(r) THEN r ELSE Got(ReadAt(r.st, PlaceOf(r), Pointed(r.v)), r.st)

(***************************************************************************)
(* Parts of a value that lies nowhere.                                     *)
(***************************************************************************)
PartOf(e, v) ==
  LET T == Strip(v.type) IN
  CASE IsBad(v) -> v
    [] e[1] = "member" -> IF ~ HasParts(T) THEN Bad("type", "member", T)
                          ELSE IF ~ OnePartLive(T, v.data, e[3]) THEN Bad("panic", "member", T)
                          ELSE Value(Parts(T)[e[3]], OnePartData(T, v.data, e[3]))
    [] e[1] = "unwrap" -> IF v.data = <<>> THEN Bad("panic", "unwrap", T) ELSE Value(Sub(T), v.data[1])

EvalPartOf(e, a) == Got(PartOf(e, a.v), a.st)
EvalPart(e, p, st) == IF IsNowhere(p) THEN EvalPartOf(e, Eval(e[2], st)) ELSE Load(p)

\* An index is applied to a value: an element of one that lies somewhere lies there too.
IndexedAt(T, a, i, st) ==
  CASE Kind(T) = "array" /\ a.at # <<>> -> Lies(Into(a.at, i + 1), st)
    [] Kind(T) = "slice" -> IF Live(st, Along(Start(a.v), i)) THEN Lies(Along(Start(a.v), i), st)
                            ELSE Got(Bad("undefined", "index", T), st)
    [] OTHER -> Got(Value(OnePart(T, i + 1), a.v.data[i + 1]), st)

Indexed(a, v, i) ==
  LET T == v.type
      n == CASE Kind(T) = "array" -> T[3] [] Kind(T) = "tuple" -> Len(T[2]) [] OTHER -> v.data[3]
  IN CASE ~ HasLength(T) -> Got(Bad("type", "index", T), i.st)
       [] IndexOf(i.v) \notin 0..n - 1 -> Got(Bad("panic", "index", T), i.st)
       [] OTHER -> IndexedAt(T, [a EXCEPT !.v = v], IndexOf(i.v), i.st)

EvalIndex(a, i) == IF Fail(i) THEN i ELSE Indexed(a, Now(a, i.st), i)
IndexOn(e, a)   == IF Fail(a) THEN a ELSE EvalIndex(a, Eval(e[3], a.st))

(***************************************************************************)
(* Addresses and slices.                                                   *)
(***************************************************************************)
\* A copy that lies in a temporary.
InTemp(v, st) ==
  IF IsBad(v) THEN Got(v, st) ELSE Got(PointerTo(v.type, <<FreshTemp(st), <<>>>>), Put(st, FreshTemp(st), v))

EvalAddr(p) == IF IsNowhere(p) THEN Got(Bad("type", "addr", Void), p.st) ELSE p
LendValue(a) == InTemp(a.v, a.st)
EvalLend(e, p, st) == IF IsNowhere(p) THEN LendValue(Eval(e, st)) ELSE p

CopiedSlice(T, p) == Got(SliceOf(Sub(T), Into(PlaceOf(p), 1), T[3]), p.st)

\* The array or slice to be cut, as a slice: an array that is only a value is copied.
AsSlice(a) ==
  LET T == Strip(a.v.type) IN
  CASE Fail(a) -> a
    [] Kind(T) = "slice" -> IF Live(a.st, <<a.v.data[1], Front(a.v.data[2])>>) THEN Got(a.v, a.st)
                            ELSE Got(Bad("undefined", "slice", T), a.st)
    [] Kind(T) # "array" -> Got(Bad("type", "slice", T), a.st)
    [] a.at # <<>> -> Got(SliceOf(Sub(T), Into(a.at, 1), T[3]), a.st)
    [] OTHER -> CopiedSlice(T, InTemp(a.v, a.st))

\* Bounds are numbers of their own sign.
CutBy(s, lo, hi, st) ==
  Got(IF 0 <= lo /\ lo <= hi /\ hi <= s.data[3] THEN SliceOf(Sub(s.type), Along(Start(s), lo), hi - lo)
      ELSE Bad("panic", "slice", s.type), st)
Cut(s, lo, hi) == IF Fail(hi) THEN hi ELSE CutBy(s, SignedIndex(lo.v), SignedIndex(hi.v), hi.st)
CutFrom(e, s, lo) == IF Fail(lo) THEN lo ELSE Cut(s.v, lo, Eval(e[4], lo.st))
EvalSlice(e, s) == IF Fail(s) THEN s ELSE CutFrom(e, s, Eval(e[3], s.st))

(***************************************************************************)
(* The equality function sema writes for a struct, a union, an option or   *)
(* an array: part by part with `==`, an array through a pointer to const.  *)
(***************************************************************************)
SamePartwise(T, x, y) ==
  CASE Kind(T) = "struct" -> SameParts(Parts(T), x, y, 1)
    [] Kind(T) = "union"  -> IF x[1] # y[1] THEN Value(Bool, FALSE) ELSE SameParts(<<Parts(T)[x[1]]>>, <<x[2]>>, <<y[2]>>, 1)
    [] Kind(T) = "option" -> IF <<>> \in {x, y} THEN Value(Bool, x = y) ELSE SameParts(<<Sub(T)>>, x, y, 1)
    [] Kind(T) = "array"  -> IF T[3] = 0 THEN Value(Bool, TRUE) ELSE Bad("type", "index", <<"const", T>>)
    [] OTHER -> Binary("==", Value(T, x), Value(T, y))

\* The first part that differs decides.
SameNext(v, Ts, x, y, i) == IF IsBad(v) \/ ~ v.data \/ i = Len(Ts) THEN v ELSE SameParts(Ts, x, y, i + 1)
SameParts(Ts, x, y, i) ==
  IF Ts = <<>> THEN Value(Bool, TRUE) ELSE SameNext(SamePartwise(Strip(Ts[i]), x[i], y[i]), Ts, x, y, i)

\* Both are passed by their addresses.
SameAt(T, p, q) == IfGot(q, Got(SamePartwise(T, DataAt(q.st, PlaceOf(p)), ReadAt(q.st, PlaceOf(q), T).data), q.st))
SameThen(e, p) == IF Fail(p) THEN p ELSE SameAt(Strip(Pointed(p.v)), p, Lend(e[3], p.st))

(***************************************************************************)
(* Values made of parts.  Parts are put together when all are there.       *)
(***************************************************************************)
AnyType == <<"any">>
Want(r, T) == IF T = AnyType THEN r ELSE EvalAs(r, T)

\* All of es, each as what is wanted of it: the results, or the first failure.
EvalRest(es, wants, rs, r) ==
  IF Fail(r) THEN [v |-> r.v, st |-> r.st, rs |-> <<>>] ELSE EvalAll(es, wants, r.st, Append(rs, r))
EvalEach(es, wants, st, rs) ==
  IF Len(rs) = Len(es) THEN [v |-> Shadow(Void), st |-> st, rs |-> rs]
  ELSE EvalRest(es, wants, rs, Want(Eval(es[Len(rs) + 1], st), wants[Len(rs) + 1]))

\* Data of a part: copied byte by byte, whatever the type of the value.
FitsPart(v, T) == Strip(v.type) = Strip(T)
Together(T, Ts, all) ==
  LET vs == [i \in DOMAIN all.rs |-> Now(all.rs[i], all.st)] IN
  CASE Fail(all) -> Got(all.v, all.st)
    [] \E i \in DOMAIN vs : ~ FitsPart(vs[i], Ts[i]) -> Got(Bad("bytes", "make", T), all.st)
    [] OTHER -> Got(Value(T, [i \in DOMAIN vs |-> vs[i].data]), all.st)

PartsOf(T) == IF Kind(T) = "array" THEN [i \in 1..T[3] |-> Sub(T)] ELSE Parts(T)
MakeParts(T, es, st) == Together(T, PartsOf(T), EvalAll(es, PartsOf(T), st, <<>>))

MakeMember(T, i, r) ==
  CASE Fail(r) -> r
    [] ~ FitsPart(r.v, Parts(T)[i]) -> Got(Bad("bytes", "make", T), r.st)
    [] OTHER -> Got(Value(T, <<i, r.v.data>>), r.st)

MakeSome(T, r) == IfGot(r, Got(Lift(r.v, T), r.st))
MakeCast(T, r) ==
  IfGot(r, Got(IF r.v.type = T THEN r.v ELSE IF IsBad(Implicit(r.v, T)) THEN Explicit(r.v, T) ELSE Implicit(r.v, T), r.st))

EvalMake(T, es, e, st) ==
  CASE Kind(T) \in {"struct", "tuple", "array"} -> MakeParts(T, es, st)
    [] Kind(T) = "union" -> MakeMember(T, e[4], EvalAs(Eval(es[1], st), Parts(T)[e[4]]))
    [] Kind(T) = "option" -> IF es = <<>> THEN Got(Value(T, <<>>), st) ELSE MakeSome(T, EvalAs(Eval(es[1], st), Sub(T)))
    [] OTHER -> MakeCast(T, Eval(es[1], st))

(***************************************************************************)
(* Statements: `target = e`, or with an operator before the `=`.           *)
(***************************************************************************)
Compound == {"+", "-", "*", "/", "%"}
NewValue(op, old, v) == IF op = "=" THEN v ELSE IF op \in Compound THEN Binary(op, old, v) ELSE Bad("type", "compound", old.type)

\* A variable takes what its type lets it be assigned, another place what can be
\* cast to its type.
StoreVar(x, v, st) == IF IsBad(v) THEN Got(v, st) ELSE Got(Shadow(Void), [st EXCEPT ![x] = v])
StoreAt(p, T, v, st) ==
  CASE IsBad(v) -> Got(v, st)
    [] ~ Writable(st, p, T) -> Got(Bad("bytes", "store", T), st)
    [] OTHER -> Got(Shadow(Void), WriteAt(st, p, T, v.data))
CastTo(v, T) == IF v.type = T THEN v ELSE Implicit(v, T)

AssignVar(x, op, r) ==
  IfGot(r, StoreVar(x, Assigned(r.st[x].type, NewValue(op, r.st[x], Now(r, r.st))), r.st))

AssignPlace(p, T, op, r) ==
  IfGot(r, StoreAt(p, T, CastTo(NewValue(op, ReadAt(r.st, p, T), Now(r, r.st)), T), r.st))

EvalThen(e, op, p) ==
  IF Fail(p) THEN p ELSE AssignPlace(PlaceOf(p), Pointed(p.v), op, EvalAs(Eval(e, p.st), Pointed(p.v)))

\* A declaration is the assignment to a new variable.
Bind(x, r) == IfGot(r, Got(Shadow(Void), Put(r.st, x, Now(r, r.st))))
Declaration(target, op, e, st) ==
  IF op = "undefined" THEN Got(Shadow(Void), Put(st, target[2], Value(Strip(target[3]), <<"nothing">>)))
  ELSE Bind(target[2], EvalAs(Eval(e, st), target[3]))

Execute(target, op, e, st) ==
  IF target[1] = "new" THEN Declaration(target, op, e, st)
  ELSE IF target[1] = "none" THEN Eval(e, st)
  ELSE IF target[1] = "var" THEN AssignVar(target[2], op, EvalAs(Eval(e, st), st[target[2]].type))
  ELSE EvalThen(e, op, Place(target, st))

RunRest(does, r) == IF Fail(r) \/ Len(does) = 1 THEN r ELSE RunAll(Tail(does), r.st)
EvalRun(does, st) ==
  IF does = <<>> THEN Got(Shadow(Void), st) ELSE RunRest(does, Execute(does[1][1], does[1][2], does[1][3], st))

(***************************************************************************)
(* Calls: the parameters are variables of their own, and what is returned  *)
(* is a copy.                                                              *)
(***************************************************************************)
ParamOf(v, T) == IF v.type = T THEN v ELSE CastOr(v, T)
Enter(f, all) ==
  [x \in {f.names[i] : i \in DOMAIN f.names} |->
     LET i == CHOOSE i \in DOMAIN f.names : f.names[i] = x IN ParamOf(Now(all.rs[i], all.st), f.ins[i])] @@ all.st

Leave(f, r) == Got(Now(r, r.st), Drop(r.st, {f.names[i] : i \in DOMAIN f.names}))
Return(f, r) == IF Fail(r) THEN r ELSE Leave(f, EvalAs(Eval(f.result, r.st), f.out))
EvalCall(f, all) == IF Fail(all) THEN Got(all.v, all.st) ELSE Return(f, RunAll(f.does, Enter(f, all)))

EvalVariant(T, n) == Value(T, Wrap(Sub(T), n))
EvalLen(a) == IfGot(a, Got(LengthOf(a.v), a.st))
EvalCond(e, c) == IF Fail(c) THEN c ELSE Eval(IF c.v.data THEN e[3] ELSE e[4], c.st)

Eval(e, st) ==
  CASE e[1] = "int"    -> Got(Value(e[3], e[2]), st)
    [] e[1] = "bool"   -> Got(Value(Bool, e[2]), st)
    [] e[1] = "nil"    -> Got(Bad("type", "nil", Void), st)
    [] e[1] = "none"   -> Got(Shadow(Void), st)
    [] e[1] = "variant" -> Got(EvalVariant(e[2], e[3]), st)
    [] e[1] = "len"    -> EvalLen(Eval(e[2], st))
    [] e[1] = "var"    -> Lies(<<e[2], <<>>>>, st)
    [] e[1] = "un"     -> EvalUnary(e[2], Eval(e[3], st))
    [] e[1] = "bin"    -> EvalBin(e, Eval(e[3], st))
    [] e[1] = "as"     -> EvalCast(e[3], Eval(e[2], st))
    [] e[1] = "isnil"  -> IsNilOf(e[2], Eval(e[3], st))
    [] e[1] = "is"     -> IsOf(e[3], Eval(e[2], st))
    [] e[1] = "same"   -> SameThen(e, Lend(e[2], st))
    [] e[1] = "cond"   -> EvalCond(e, Eval(e[2], st))
    [] e[1] \in {"member", "unwrap"} -> EvalPart(e, Place(e, st), st)
    [] e[1] = "index"  -> IndexOn(e, Eval(e[2], st))
    [] e[1] = "deref"  -> Load(Follow(Eval(e[2], st)))
    [] e[1] = "addr"   -> EvalAddr(Place(e[2], st))
    [] e[1] = "lend"   -> EvalLend(e[2], Place(e[2], st), st)
    [] e[1] = "place"  -> EvalPlace(e[2], st)
    [] e[1] = "all"    -> EvalEach(e[2], e[3], st, e[4])
    [] e[1] = "run"    -> EvalRun(e[2], st)
    [] e[1] = "slice"  -> EvalSlice(e, AsSlice(Eval(e[2], st)))
    [] e[1] = "make"   -> EvalMake(e[2], e[3], e, st)
    [] e[1] = "call"   -> EvalCall(Funcs[e[2]], EvalAll(e[3], [i \in DOMAIN e[3] |-> AnyType], st, <<>>))
=============================================================================
