------------------------------- MODULE Compiled -------------------------------
(***************************************************************************)
(* What the emitted C (src/src/cbackend/) does for a checked expression.   *)
(* The operators are those of C: operands narrower than an int are int,    *)
(* and an overflow of a signed type, a division by zero, a shift too far   *)
(* or a pointer to what is gone may do anything.  A number is kept as the  *)
(* int it is until it is converted: one that has left its type is wide.    *)
(* C leaves the order of operands, arguments and parts open: this module   *)
(* takes them from the left or from the right.                             *)
(***************************************************************************)
EXTENDS Places, Typing

CONSTANT Order   \* "left" or "right"

IntC == <<"i32">>

Gives(v, st) == [v |-> v, st |-> st]
Fails(r)     == IsBad(r.v)
WhenOk(r, next) == IF Fails(r) THEN r ELSE next

Narrow(T)   == IsInt(T) /\ BasicSize[Kind(T)] < BasicSize["i32"]
IsWide(v)   == IsInt(v.type) /\ v.data # Wrap(v.type, v.data)
Undefined(op, T) == Bad("undefined", op, T)

\* The type an operand has in C.
Promoted(T) == IF Narrow(T) THEN IntC ELSE T

\* A result n of type T, computed in the type it is promoted to.
Computed(op, T, n) ==
  CASE n = Wrap(Promoted(T), n) -> Value(T, n)
    [] Kind(Promoted(T)) \in Signed -> Undefined(op, T)
    [] OTHER -> Value(T, Wrap(T, n))

(***************************************************************************)
(* Operators.                                                              *)
(***************************************************************************)
\* The shifted operand keeps its own type.
ShiftBy(op, S, T, m, n) ==
  CASE n \notin 0..Bits(Promoted(S)) - 1 -> Undefined(op, T)
    [] op = ">>" -> Value(T, m \div 2 ^ n)
    [] m < 0 -> Undefined(op, T)
    [] OTHER -> Retyped(Computed(op, S, m * 2 ^ n), IF IsBad(Computed(op, S, m * 2 ^ n)) THEN <<"error">> ELSE T)

Calculate(op, S, T, m, n) ==
  CASE op = "+" -> Computed(op, T, m + n)
    [] op = "-" -> Computed(op, T, m - n)
    [] op = "*" -> Computed(op, T, m * n)
    [] op \in {"/", "%"} /\ n = 0 -> Undefined(op, T)
    [] op = "/" -> Computed(op, T, Quotient(m, n))
    [] op = "%" -> IF IsBad(Computed(op, T, Quotient(m, n))) THEN Undefined(op, T) ELSE Value(T, m - n * Quotient(m, n))
    [] op \in {"&", "|", "^"} -> Arithmetic(op, T, m, n)
    [] OTHER -> ShiftBy(op, S, T, m, n)

\* What sema says the type of the result is.
Common(S, T) == IF S = T \/ ~ Promotable(S, T) THEN S ELSE Promote(S, T)

Numbers(op, S, R, m, n) ==
  IF op \in Orders \cup Equality THEN Value(Bool, Comparison(op, m, n)) ELSE Calculate(op, S, Common(S, R), m, n)

\* Tuples and slices come here when the comparison of their bytes, or of their
\* parts, is settled (OperandsIn).
InC(op, a, b) ==
  LET S == Strip(a.type)
      R == Strip(b.type)
  IN CASE IsBad(a) -> a
       [] IsBad(b) -> b
       [] IsInt(S) /\ IsInt(R) -> IF IsWide(a) \/ IsWide(b) THEN Bad("wide", op, S) ELSE Numbers(op, S, R, a.data, b.data)
       [] S # R -> Bad("cc", op, S)
       [] OTHER -> Value(Bool, (a.data = b.data) = (op = "=="))

UnaryInC(op, a) ==
  LET T == Strip(a.type) IN
  CASE IsBad(a)  -> a
    [] IsWide([a EXCEPT !.type = T]) -> Bad("wide", op, T)
    [] op = "!"  -> Value(T, ~ a.data)
    [] op = "-"  -> Computed(op, T, -a.data)
    [] op = "~"  -> Computed(op, T, -1 - a.data)

\* A conversion, asked for or by putting a value somewhere.
Convert(v, T0) ==
  LET T == Strip(T0)
      S == Strip(v.type)
  IN CASE IsBad(v) -> v
       [] Kind(S) \in Ints \cup {"bool"} /\ Kind(T) \in Ints \cup {"bool"} ->
            IF IsWide(Retyped(v, S)) /\ (T = Bool \/ BasicSize[Kind(T)] > BasicSize[Kind(S)]) THEN Bad("wide", "convert", S)
            ELSE Value(T, Stored(S, T, v.data))
       [] Kind(S) = "enum" /\ IsInt(T) -> Value(T, v.data)
       [] Kind(S) \in {"option", "slice"} /\ Kind(T) = Kind(S) /\ Strip(Sub(S)) # Strip(Sub(T)) -> Bad("cc", "convert", S)
       [] Kind(S) = Kind(T) \/ Relaid(S, T) -> Value(T, v.data)
       [] OTHER -> Bad("cc", "convert", S)

\* What a variable, a place or a result is given: an option is put around what is none.
Holding(T, v, d) == IF IsBad(v) THEN v ELSE Value(T, d)
Some(v, T)  == Holding(T, Convert(v, Sub(T)), <<Convert(v, Sub(T)).data>>)
Given(v, T) ==
  IF Kind(Strip(T)) = "option" /\ Kind(Strip(v.type)) # "option" THEN Some(v, Strip(T)) ELSE Convert(v, T)

(***************************************************************************)
(* Expressions.                                                            *)
(***************************************************************************)
\* What is run for its value, as a <<"target", e>> or a <<"place", e>>, with others
\* <<"all", es, rs>>, or as the statements of a <<"body", does>>.
RECURSIVE Run(_, _)
Target(e, st)  == Run(<<"target", e>>, st)
Body(does, st) == Run(<<"body", does>>, st)

\* Several expressions, in the order the compiler takes: their results by place.
Turn(n, done) == IF Order = "left" THEN done + 1 ELSE n - done
RunNext(es, rs, i, r) ==
  IF Fails(r) THEN [v |-> r.v, st |-> r.st, rs |-> rs] ELSE Run(<<"all", es, (i :> r.v) @@ rs>>, r.st)
RunIn(es, st, rs) ==
  LET n == Cardinality(DOMAIN rs) IN
  IF n = Len(es) THEN [v |-> Shadow(Void), st |-> st, rs |-> rs]
  ELSE RunNext(es, rs, Turn(Len(es), n), Run(es[Turn(Len(es), n)], st))
InOrder(es, st) == Run(<<"all", es, [i \in {} |-> Shadow(Void)]>>, st)

LogicIn(e, a) == IF Fails(a) \/ a.v.data = (e[2] = "||") THEN a ELSE Run(e[4], a.st)
CondIn(e, c)  == IF Fails(c) THEN c ELSE Run(IF c.v.data THEN e[3] ELSE e[4], c.st)

BothIn(op, all) == WhenOk(all, Gives(InC(op, all.rs[1], all.rs[2]), all.st))
UnaryRun(op, a) == WhenOk(a, Gives(UnaryInC(op, a.v), a.st))
TestIn(a, positive, d) == WhenOk(a, Gives(Value(Bool, (a.v.data = d) = positive), a.st))
MemberTest(a, i) == WhenOk(a, Gives(Value(Bool, a.v.data[1] = i), a.st))

(***************************************************************************)
(* Lvalues.  The compiler tells them by the form of an expression, as sema *)
(* does (Addressable), the C compiler by what is emitted for it.           *)
(***************************************************************************)
RECURSIVE TypeIn(_, _), IsLvalue(_, _)

\* The type of an expression that has parts.
TypeIn(e, st) ==
  CASE e[1] = "var"  -> Strip(st[e[2]].type)
    [] e[1] = "call" -> Strip(Funcs[e[2]].out)
    [] e[1] = "make" -> Strip(e[2])
    [] e[1] = "as"   -> Strip(e[3])
    [] e[1] = "cond" -> TypeIn(e[3], st)
    [] e[1] \in {"addr", "lend"} -> <<"ptr", TypeIn(e[2], st)>>
    [] e[1] = "slice"  -> <<"slice", Sub(TypeIn(e[2], st))>>
    [] e[1] = "member" -> Strip(Parts(TypeIn(e[2], st))[e[3]])
    [] e[1] = "index" /\ Kind(TypeIn(e[2], st)) = "tuple" -> Strip(Parts(TypeIn(e[2], st))[e[3][2] + 1])
    [] OTHER -> Strip(Sub(TypeIn(e[2], st)))

\* A value that is made is a compound literal.  A member of a union, and an element
\* of what is no tuple, is reached through a pointer.
IsLvalue(e, st) ==
  \/ e[1] \in {"var", "deref", "make"}
  \/ e[1] \in {"member", "index"} /\ (IsLvalue(e[2], st) \/ Kind(TypeIn(e[2], st)) \in {"union", "array", "slice"})

(***************************************************************************)
(* Places, and the checks of the run time.                                 *)
(***************************************************************************)
PointTo(T, p, st) == Gives(PointerTo(T, p), st)

ThroughPointer(r) ==
  CASE Fails(r) -> r
    [] ~ Live(r.st, r.v.data) -> Gives(Undefined("deref", r.v.type), r.st)
    [] OTHER -> Gives(r.v, r.st)

\* A member of a union is there only while it is the one the tag names.
MemberAt(T, b, i) ==
  IF Kind(T) = "union" /\ DataAt(b.st, b.v.data)[1] # i THEN Gives(Bad("panic", "member", T), b.st)
  ELSE PointTo(Parts(T)[i], Into(b.v.data, i), b.st)

\* An index is an int64_t: one below zero is out of range.  That of a tuple must
\* be written down.
OutOfRange(i, n) == i.data < 0 \/ i.data >= n
ElementAt(T, p, i, written, st) ==
  CASE IsWide(i) -> Gives(Bad("wide", "index", T), st)
    [] Kind(T) = "tuple" /\ ~ written -> Gives(Bad("cc", "index", T), st)
    [] Kind(T) = "tuple" -> PointTo(T[2][i.data + 1], Into(p, i.data + 1), st)
    [] Kind(T) = "array" -> IF OutOfRange(i, T[3]) THEN Gives(Bad("panic", "index", T), st)
                            ELSE PointTo(Sub(T), Into(p, i.data + 1), st)
    [] OTHER -> LET s == DataAt(st, p) IN
                IF OutOfRange(i, s[3]) THEN Gives(Bad("panic", "index", T), st)
                ELSE PointTo(Sub(T), Along(<<s[1], s[2]>>, i.data), st)

\* What is in an option is copied out of it.
Unwrapped(o) == IF o.data = <<>> THEN Bad("panic", "unwrap", Void) ELSE Value(Sub(Strip(o.type)), o.data[1])
UnwrapIn(a)  == WhenOk(a, Gives(Unwrapped(a.v), a.st))

\* The array or slice and the index, one after the other.
Written(e) == e[3][1] = "int"
IndexThen(e, i, b)  == WhenOk(b, ElementAt(Strip(Pointed(b.v)), b.v.data, i.v, Written(e), b.st))
TargetThen(e, b, i) == WhenOk(i, ElementAt(Strip(Pointed(b.v)), b.v.data, i.v, Written(e), i.st))
IndexFirst(e, i)    == WhenOk(i, IndexThen(e, i, Target(e[2], i.st)))
TargetFirst(e, b)   == WhenOk(b, TargetThen(e, b, Run(e[3], b.st)))

PartAt(e, b) == WhenOk(b, MemberAt(Strip(Pointed(b.v)), b, e[3]))

\* What is no lvalue is put into a temporary first.
TempOf(r) == WhenOk(r, PointTo(r.v.type, <<FreshTemp(r.st), <<>>>>, Put(r.st, FreshTemp(r.st), Convert(r.v, r.v.type))))

TargetIn(e, st) ==
  CASE e[1] = "var"   -> PointTo(TypeAt(st, <<e[2], <<>>>>), <<e[2], <<>>>>, st)
    [] e[1] = "deref" -> ThroughPointer(Run(e[2], st))
    [] e[1] = "index" -> IF Order = "left" THEN TargetFirst(e, Target(e[2], st)) ELSE IndexFirst(e, Run(e[3], st))
    [] e[1] = "member" -> PartAt(e, Target(e[2], st))
    [] OTHER -> TempOf(Run(e, st))

\* The address of something, which must be an lvalue.
AddrIn(e, st) == IF IsLvalue(e, st) THEN Target(e, st) ELSE Gives(Bad("cc", "addr", Void), st)

\* What does not look like an lvalue is put into a temporary first.
PlaceIn(e, st) == IF Addressable(e) THEN AddrIn(e, st) ELSE TempOf(Run(e, st))

\* Of what is in an option the address is lent, whether there is something or not.
InsideOf(b)   == WhenOk(b, PointTo(Sub(Strip(Pointed(b.v))), Into(b.v.data, 1), b.st))
LendIn(e, st) == IF e[1] = "unwrap" THEN InsideOf(AddrIn(e[2], st)) ELSE PlaceIn(e, st)

Fetch(r) == WhenOk(r, Gives(ReadAt(r.st, r.v.data, Pointed(r.v)), r.st))

(***************************************************************************)
(* Equality.  That of slices is written out as the equality of their       *)
(* pointers and of their lengths: each operand is there twice.             *)
(***************************************************************************)
SlicesIn(e, all) ==
  IF Fails(BothIn("==", all)) \/ ~ BothIn("==", all).v.data THEN all ELSE InOrder(<<e[3], e[4]>>, all.st)

\* Bytes of an object that belong to none of its parts: what they hold is not
\* specified.  (The tag of a union has four bytes.)
RECURSIVE Padded(_)
SumOfSizes(Ts) == FoldFunction(+, 0, [i \in DOMAIN Ts |-> Size(Ts[i])])
Uneven(T, T1)  == Padded(T) \/ Align(T) > 4 \/ Size(T) % 4 # 0 \/ Size(T) # Size(T1)
Padded(T) ==
  CASE Kind(T) \in {"tuple", "struct"} ->
         Size(T) # SumOfSizes(Parts(T)) \/ \E i \in DOMAIN Parts(T) : Padded(Parts(T)[i])
    [] Kind(T) = "union"  -> \E i \in DOMAIN Parts(T) : Uneven(Parts(T)[i], Parts(T)[1])
    [] Kind(T) = "option" -> Align(Sub(T)) > 1 \/ Padded(Sub(T))
    [] IsQual(T) \/ Kind(T) = "array" -> Padded(Sub(T))
    [] OTHER -> FALSE

\* Tuples are compared by memcmp, their padding with them: when all of their parts
\* are equal that may say anything, but of a variable and itself.
Unspecified(op, T) == Bad("unspecified", op, T)
Itself(e) == e[3] = e[4] /\ e[3][1] = "var"
TuplesIn(e, T, all) ==
  CASE ~ IsLvalue(e[3], all.st) \/ ~ IsLvalue(e[4], all.st) -> [all EXCEPT !.v = Bad("cc", e[2], T)]
    [] Padded(T) /\ all.rs[1].data = all.rs[2].data /\ ~ Itself(e) -> [all EXCEPT !.v = Unspecified(e[2], T)]
    [] OTHER -> all

Compared(e, T, all) ==
  CASE Kind(T) = "slice" -> SlicesIn(e, all)
    [] Kind(T) = "tuple" -> TuplesIn(e, T, all)
    [] OTHER -> all
OperandsIn(e, all) ==
  IF Fails(all) \/ e[2] \notin Equality THEN all ELSE Compared(e, Strip(all.rs[1].type), all)

\* Structs and unions are compared by a function of their own, part by part, the
\* tuples among the parts too.
SameAs(a, b) ==
  CASE IsBad(a) -> a
    [] IsBad(b) -> b
    [] OTHER -> Value(Bool, a.data = b.data)
SamePointed(st, p, q) == SameAs(ReadAt(st, p.data, Pointed(p)), ReadAt(st, q.data, Pointed(p)))
SameThrough(all) == WhenOk(all, Gives(SamePointed(all.st, all.rs[1], all.rs[2]), all.st))

(***************************************************************************)
(* Slices: of an array or slice where it lies, or of a copy.               *)
(***************************************************************************)
WholeOf(b) ==
  LET T == Strip(Pointed(b.v)) IN
  IF Kind(T) = "array" THEN SliceOf(Sub(T), Into(b.v.data, 1), T[3]) ELSE ReadAt(b.st, b.v.data, T)

CutOf(s, lo, hi) ==
  CASE IsWide(lo) \/ IsWide(hi) -> Bad("wide", "slice", s.type)
    [] 0 <= lo.data /\ lo.data <= hi.data /\ hi.data <= s.data[3] ->
         SliceOf(Sub(s.type), Along(Start(s), lo.data), hi.data - lo.data)
    [] OTHER -> Bad("panic", "slice", s.type)
SliceEnd(b, lo, hi) == WhenOk(hi, Gives(CutOf(WholeOf([b EXCEPT !.st = hi.st]), lo.v, hi.v), hi.st))
SliceLow(e, b, lo)  == WhenOk(lo, SliceEnd(b, lo, Run(e[4], lo.st)))
SliceIn(e, b)       == WhenOk(b, SliceLow(e, b, Run(e[3], b.st)))

(***************************************************************************)
(* Values made of parts: an initializer converts each to the part's type.  *)
(***************************************************************************)
TypesOf(T) == CASE Kind(T) = "array" -> [i \in 1..T[3] |-> Sub(T)] [] OTHER -> Parts(T)

FirstBad(vs, v) == IF \E i \in DOMAIN vs : IsBad(vs[i]) THEN vs[CHOOSE i \in DOMAIN vs : IsBad(vs[i])] ELSE v
Initialized(T, vs) == FirstBad(vs, Value(T, [i \in DOMAIN vs |-> vs[i].data]))
PartsIn(T, es, all) == WhenOk(all, Gives(Initialized(T, [i \in DOMAIN es |-> Convert(all.rs[i], TypesOf(T)[i])]), all.st))

MemberIn(T, i, r) == WhenOk(r, Gives(Holding(T, Convert(r.v, Parts(T)[i]), <<i, Convert(r.v, Parts(T)[i]).data>>), r.st))
SomeIn(T, r) == WhenOk(r, Gives(Some(r.v, T), r.st))
CastIn(T, r) == WhenOk(r, Gives(Convert(r.v, T), r.st))

MakeIn(T, es, e, st) ==
  CASE Kind(T) \in {"struct", "tuple", "array"} -> PartsIn(T, es, InOrder(es, st))
    [] Kind(T) = "union" -> MemberIn(T, e[4], Run(es[1], st))
    [] Kind(T) = "option" -> IF es \in {<<>>, <<<<"nil">>>>} THEN Gives(Value(T, <<>>), st) ELSE SomeIn(T, Run(es[1], st))
    [] OTHER -> CastIn(T, Run(es[1], st))

(***************************************************************************)
(* Statements and calls.                                                   *)
(***************************************************************************)
WriteC(p, T, v, st) ==
  CASE IsBad(v) -> Gives(v, st)
    [] ~ Live(st, p) -> Gives(Undefined("write", T), st)
    [] OTHER -> Gives(Shadow(Void), WriteAt(st, p, T, v.data))

\* The old value of a compound assignment is read last.
NewIn(op, p, T, v, st) == IF op = "=" THEN v ELSE InC(op, ReadAt(st, p, T), v)
Stores(b, op, v, st) ==
  LET T == Pointed(b.v) IN WriteC(b.v.data, T, Given(NewIn(op, b.v.data, T, v, st), T), st)

ValueLast(op, b, r)   == WhenOk(r, Stores(b, op, r.v, r.st))
TargetLast(op, r, b)  == WhenOk(b, Stores(b, op, r.v, b.st))
FromTarget(e, op, b)  == WhenOk(b, ValueLast(op, b, Run(e, b.st)))
FromValue(t, op, r)   == WhenOk(r, TargetLast(op, r, Target(t, r.st)))

\* A declaration is the assignment to a new variable.
Bound(x, v, st)    == IF IsBad(v) THEN Gives(v, st) ELSE Gives(Shadow(Void), Put(st, x, v))
Initial(x, T, r)   == WhenOk(r, Bound(x, Given(r.v, T), r.st))
Uninitialized(T)   == Value(Strip(T), <<"nothing">>)
Declaration(t, op, e, st) ==
  IF op = "undefined" THEN Bound(t[2], Uninitialized(t[3]), st) ELSE Initial(t[2], t[3], Run(e, st))

Does(t, op, e, st) ==
  CASE t[1] = "new"  -> Declaration(t, op, e, st)
    [] t[1] = "none" -> Run(e, st)
    [] ~ IsLvalue(t, st) -> Gives(Bad("cc", "assign", Void), st)
    [] Order = "left" -> FromTarget(e, op, Target(t, st))
    [] OTHER -> FromValue(t, op, Run(e, st))

BodyRest(does, r) == IF Fails(r) THEN r ELSE Body(Tail(does), r.st)
BodyIn(does, st) ==
  IF does = <<>> THEN Gives(Shadow(Void), st) ELSE BodyRest(does, Does(does[1][1], does[1][2], does[1][3], st))

\* A variant is the number it stands for.  The length of an array or tuple is
\* known: what it is the length of is not run.
VariantIn(T, n) == Value(T, Wrap(Sub(T), n))
LengthIn(r) == WhenOk(r, Gives(Value(Usize, r.v.data[3]), r.st))
LenIn(e, T, st) ==
  CASE Kind(T) = "array" -> Gives(Value(Usize, T[3]), st)
    [] Kind(T) = "tuple" -> Gives(Value(Usize, Len(T[2])), st)
    [] OTHER -> LengthIn(Run(e, st))

Passed(f, all) == [i \in DOMAIN f.names |-> Convert(all.rs[i], f.ins[i])]
Frame(f, vs, st) ==
  [x \in {f.names[i] : i \in DOMAIN f.names} |-> vs[CHOOSE i \in DOMAIN f.names : f.names[i] = x]] @@ st
LeaveC(f, r)  == Gives(Given(r.v, f.out), Drop(r.st, {f.names[i] : i \in DOMAIN f.names}))
ReturnC(f, r) == IF Fails(r) THEN r ELSE LeaveC(f, Run(f.result, r.st))
EnterC(f, vs, st) ==
  IF \E i \in DOMAIN vs : IsBad(vs[i]) THEN Gives(FirstBad(vs, Shadow(Void)), st)
  ELSE ReturnC(f, Body(f.does, Frame(f, vs, st)))
CallIn(f, all) == WhenOk(all, EnterC(f, Passed(f, all), all.st))

Run(e, st) ==
  CASE e[1] = "int"   -> Gives(Value(e[3], e[2]), st)
    [] e[1] = "bool"  -> Gives(Value(Bool, e[2]), st)
    [] e[1] = "nil"   -> Gives(Bad("cc", "nil", Void), st)
    [] e[1] = "none"  -> Gives(Shadow(Void), st)
    [] e[1] = "variant" -> Gives(VariantIn(e[2], e[3]), st)
    [] e[1] = "len"   -> LenIn(e[2], e[3], st)
    [] e[1] = "un"    -> UnaryRun(e[2], Run(e[3], st))
    [] e[1] = "bin" /\ e[2] \in {"&&", "||"} -> LogicIn(e, Run(e[3], st))
    [] e[1] = "bin"   -> BothIn(e[2], OperandsIn(e, InOrder(<<e[3], e[4]>>, st)))
    [] e[1] = "as"    -> CastIn(e[3], Run(e[2], st))
    [] e[1] = "isnil" -> TestIn(Run(e[3], st), e[2] = "==", <<>>)
    [] e[1] = "is"    -> MemberTest(Run(e[2], st), e[3])
    [] e[1] = "same"  -> SameThrough(InOrder(<<<<"place", e[2]>>, <<"place", e[3]>>>>, st))
    [] e[1] = "cond"  -> CondIn(e, Run(e[2], st))
    [] e[1] = "addr"  -> AddrIn(e[2], st)
    [] e[1] = "lend"  -> LendIn(e[2], st)
    [] e[1] = "place" -> PlaceIn(e[2], st)
    [] e[1] = "unwrap" -> UnwrapIn(Run(e[2], st))
    [] e[1] = "target" -> TargetIn(e[2], st)
    [] e[1] = "all"   -> RunIn(e[2], st, e[3])
    [] e[1] = "body"  -> BodyIn(e[2], st)
    [] e[1] = "slice" -> SliceIn(e, PlaceIn(e[2], st))
    [] e[1] = "make"  -> MakeIn(e[2], e[3], e, st)
    [] e[1] = "call"  -> CallIn(Funcs[e[2]], InOrder(e[3], st))
    [] OTHER -> Fetch(Target(e, st))
=============================================================================
