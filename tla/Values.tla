-------------------------------- MODULE Values --------------------------------
(***************************************************************************)
(* Values of the vm and the operations their types have (the vtables of    *)
(* src/src/vm/type_*.c).  The same operations run on shadows, which have a *)
(* type and no data: sema types a program by running it on shadows, and    *)
(* constant evaluation runs it on real values.                             *)
(*                                                                         *)
(* Data: an integer, a boolean or a string; the parts of a tuple, array or *)
(* struct in a sequence; <<member, data>> for a union, <<>> or <<data>>    *)
(* for an option, <<root, path>> for a pointer and <<root, path, length>>   *)
(* for a slice.  Floats hold integers and do not round.                    *)
(***************************************************************************)
EXTENDS Types

B == INSTANCE Bitwise

Value(T, d) == [type |-> T, real |-> TRUE, data |-> d]
Shadow(T)   == [type |-> T, real |-> FALSE, data |-> <<>>]

\* What went wrong, in which operation, of which kind of type.
Bad(what, op, T) == Value(<<"error">>, <<what, op, Kind(T)>>)
IsBad(v) == Kind(v.type) = "error"

\* A result: real if all it comes from is.
Result(vs, T, d) == IF \A i \in DOMAIN vs : vs[i].real THEN Value(T, d) ELSE Shadow(T)
Retyped(v, T)    == [v EXCEPT !.type = T]

(***************************************************************************)
(* Integers.                                                               *)
(***************************************************************************)
Bits(T)  == ByteBits * BasicSize[Kind(T)]
Wrap(T, n) ==
  LET m == 2 ^ Bits(T)
      r == n % m
  IN IF Kind(T) \in Signed /\ r >= m \div 2 THEN r - m ELSE r

\* C divides towards zero.
Quotient(m, n) ==
  LET Abs(k) == IF k < 0 THEN -k ELSE k
      q == Abs(m) \div Abs(n)
  IN IF (m < 0) = (n < 0) THEN q ELSE -q

Residue(T, n) == n % (2 ^ Bits(T))

\* What is done to two operands of one type T.
Arithmetic(op, T, m, n) ==
  CASE op = "+" -> Value(T, Wrap(T, m + n))
    [] op = "-" -> Value(T, Wrap(T, m - n))
    [] op = "*" -> Value(T, Wrap(T, m * n))
    [] op \in {"/", "%"} ->
         IF n = 0 \/ (IsInt(T) /\ n = -1 /\ m = -(2 ^ (8 * ByteBits - 1))) THEN Bad("panic", op, T)
         ELSE Value(T, Wrap(T, IF op = "/" THEN Quotient(m, n) ELSE m - n * Quotient(m, n)))
    [] op = "&" -> Value(T, Wrap(T, B!&(Residue(T, m), Residue(T, n))))
    [] op = "|" -> Value(T, Wrap(T, B!|(Residue(T, m), Residue(T, n))))
    [] op = "^" -> Value(T, Wrap(T, B!^^(Residue(T, m), Residue(T, n))))
    [] op \in {"<<", ">>"} ->
         IF n \notin 0..(8 * ByteBits - 1) THEN Bad("undefined", op, T)
         ELSE Value(T, IF op = "<<" THEN Wrap(T, m * 2 ^ n) ELSE m \div 2 ^ n)

FloatArithmetic(op, T, m, n) ==
  CASE op = "+" -> Value(T, m + n)
    [] op = "-" -> Value(T, m - n)
    [] op = "*" -> Value(T, m * n)
    [] op = "/" -> IF n = 0 THEN Bad("panic", op, T) ELSE Value(T, Quotient(m, n))
    [] op = "%" -> IF n = 0 THEN Value(T, 0) ELSE Value(T, m - n * Quotient(m, n))

Comparison(op, m, n) ==
  CASE op = "==" -> m = n [] op = "!=" -> m # n [] op = "<" -> m < n
    [] op = "<=" -> m <= n [] op = ">" -> m > n [] op = ">=" -> m >= n

Arith     == {"+", "-", "*", "/", "%"}
BitOps    == {"&", "|", "^", "<<", ">>"}
Orders    == {"<", "<=", ">", ">="}
Equality  == {"==", "!="}
BinaryOps == Arith \cup BitOps \cup Orders \cup Equality

RECURSIVE HasOp(_, _), Binary(_, _, _), Implicit(_, _), Explicit(_, _), Assigned(_, _), SameData(_, _, _)

HasOp(op, T) ==
  CASE IsQual(T)  -> HasOp(op, Sub(T))
    [] IsInt(T)   -> op \in BinaryOps
    [] IsFloat(T) -> op \in BinaryOps \ BitOps
    [] Kind(T) \in {"array", "void"} -> FALSE
    [] OTHER -> op \in Equality

(***************************************************************************)
(* Equality of data of one type.                                           *)
(***************************************************************************)
\* Of a part: what has no `==` of its own is never equal, and what is left is
\* compared byte by byte.
SamePart(T, x, y) == IF Kind(T) \in {"array", "option"} THEN FALSE ELSE SameData(T, x, y)

SameData(T, x, y) ==
  CASE Kind(T) = "struct" -> \A i \in DOMAIN x : SamePart(T[3][i][2], x[i], y[i])
    [] Kind(T) = "tuple" -> \A i \in DOMAIN x : SamePart(T[2][i], x[i], y[i])
    [] Kind(T) = "union" -> x[1] = y[1] /\ SamePart(T[3][x[1]][2], x[2], y[2])
    [] OTHER -> x = y

(***************************************************************************)
(* Binary and unary operations.                                            *)
(***************************************************************************)
\* What a pointer, slice, opaque or option takes on the right is looked at only
\* when both are real.
Unlooked == {"ptr", "slice", "opaque"}

Equated(op, a, b) ==
  LET T == a.type
      same == SameData(T, a.data, b.data)
  IN CASE Kind(T) = "option" -> Bad("type", op, T)
       [] Kind(T) \in Unlooked /\ ~ (a.real /\ b.real) -> Shadow(Bool)
       [] a.type # b.type -> Bad("type", op, T)
       [] ~ (a.real /\ b.real) -> Shadow(Bool)
       [] OTHER -> Value(Bool, IF op = "==" THEN same ELSE ~ same)

\* Only values of one enum are compared, as the numbers they stand for.
EnumEquated(op, a, b) ==
  CASE a.type # b.type -> Bad("type", op, a.type)
    [] ~ (a.real /\ b.real) -> Shadow(Bool)
    [] OTHER -> Value(Bool, Comparison(op, a.data, b.data))

\* Types whose operations bring the operands to one type first.
Converts(T) == IsInt(T) \/ IsFloat(T) \/ Kind(T) \in {"bool", "str", "struct", "tuple", "union"}

\* On two operands of one type.
Operate(op, a, b) ==
  LET T == a.type IN
  CASE Kind(T) = "enum" -> EnumEquated(op, a, b)
    [] ~ Converts(T) \/ ~ (IsInt(T) \/ IsFloat(T)) -> Equated(op, a, b)
    [] op \in Orders \cup Equality ->
         IF a.real /\ b.real THEN Value(Bool, Comparison(op, a.data, b.data)) ELSE Shadow(Bool)
    [] ~ (a.real /\ b.real) -> Shadow(T)
    [] IsInt(T) -> Arithmetic(op, T, a.data, b.data)
    [] OTHER -> FloatArithmetic(op, T, a.data, b.data)

\* A qualified left operand is taken for what it qualifies, and the type of a
\* qualified right operand for that of the left one.
Unqualified(op, a, b) ==
  LET T == Sub(a.type) IN
  IF ~ IsQual(b.type) THEN Binary(op, Retyped(a, T), b)
  ELSE IF b.real /\ Strip(b.type) # Strip(T) THEN Bad("bytes", op, T)
  ELSE Binary(op, Retyped(a, T), Retyped(b, T))

Binary(op, a, b) ==
  CASE IsBad(a) -> a
    [] IsBad(b) -> b
    [] ~ HasOp(op, a.type) -> Bad("type", op, a.type)
    [] IsQual(a.type) -> Unqualified(op, a, b)
    [] ~ Converts(a.type) \/ a.type = b.type -> Operate(op, a, b)
    [] OTHER ->
         LET T  == IF Promotable(a.type, b.type) THEN Promote(a.type, b.type) ELSE a.type
             a2 == IF a.type = T THEN a ELSE Implicit(a, T)
             b2 == Implicit(b, T)
         IN IF IsBad(a2) THEN a2 ELSE IF IsBad(b2) THEN b2 ELSE Operate(op, a2, b2)

HasUnary(op, T) ==
  LET S == Strip(T) IN
  CASE op = "-" -> Kind(S) \in Signed \cup Floats
    [] op = "~" -> IsInt(S)
    [] op = "!" -> S = Bool

UnaryOp(op, a) ==
  LET T == Strip(a.type) IN
  CASE IsBad(a) -> a
    [] ~ HasUnary(op, a.type) -> Bad("type", op, a.type)
    [] ~ a.real -> Shadow(T)
    [] op = "!" -> Value(T, ~ a.data)
    [] op = "~" -> Value(T, Wrap(T, -1 - a.data))
    [] IsInt(T) -> Value(T, Wrap(T, -a.data))
    [] OTHER -> Value(T, -a.data)

(***************************************************************************)
(* Casts.  A cast reads the data by the source's type and writes it by the *)
(* target's.                                                               *)
(***************************************************************************)
Number(T, d) == IF T = Bool THEN IF d THEN 1 ELSE 0 ELSE d
Stored(S, T, d) ==
  LET n == Number(S, d) IN
  CASE T = Bool -> n # 0
    [] IsInt(T) -> Wrap(T, n)
    [] OTHER    -> n

\* A value as a qualified one: the target is the type itself, qualified.
Qualifies(T, S) == IsQual(T) /\ Strip(T) = S

NumberImplicit(v, T) ==
  LET S == v.type IN
  CASE Kind(S) \in Floats ->
         IF T = <<"f64">> THEN Result(<<v>>, T, v.data) ELSE Bad("type", "implicit", S)
    [] Kind(S) \in Signed ->
         IF Kind(T) \in Signed /\ Size(T) >= Size(S) THEN Result(<<v>>, T, v.data) ELSE Bad("type", "implicit", S)
    [] Kind(T) \in Signed \/ Size(T) < Size(S) -> Bad("type", "implicit", S)
    [] v.real /\ Kind(T) \notin Unsigned -> Bad("type", "implicit", S)
    [] OTHER -> Result(<<v>>, T, v.data)

PtrImplicit(v, T) ==
  LET S == v.type
      to == IF Kind(T) = "ptr" THEN Sub(T) ELSE Void
  IN IF T = Opaque \/ AddsQuals(Sub(S), to) \/ Upcasts(Sub(S), to) THEN Result(<<v>>, T, v.data)
     ELSE Bad("type", "implicit", S)

\* To an option: what it is an option of, or what becomes that.
Lift(v, T) ==
  LET inner == IF v.type = Sub(T) THEN v ELSE Implicit(v, Sub(T)) IN
  CASE ~ v.real -> Shadow(T)
    [] IsBad(inner) -> inner
    [] OTHER -> Value(T, <<inner.data>>)

\* An enum becomes a number only when it is asked to, and only one of the type
\* its numbers have.
EnumImplicit(v, T) == IF T = v.type THEN Result(<<v>>, T, v.data) ELSE Bad("type", "implicit", v.type)
EnumExplicit(v, T) ==
  CASE T \notin {v.type, Sub(v.type)} -> Bad("type", "explicit", v.type)
    [] T = v.type \/ ~ v.real -> Result(<<v>>, T, v.data)
    [] OTHER -> Value(T, Wrap(T, v.data))

\* What the type of the value itself does.
OwnImplicit(v, T) ==
  LET S == v.type
      ok == Result(<<v>>, T, v.data)
      no == Bad("type", "implicit", S)
      If(c) == IF c THEN ok ELSE no
  IN CASE IsQual(S) -> IF Kind(Strip(S)) \in {"bool", "str", "func", "type", "void"} THEN no
                       ELSE IF T = Sub(S) THEN ok ELSE Implicit(Retyped(v, Sub(S)), T)
       [] IsInt(S) \/ IsFloat(S) -> IF Qualifies(T, S) THEN ok ELSE NumberImplicit(v, T)
       [] Kind(S) = "ptr" -> PtrImplicit(v, T)
       [] Kind(S) \in {"slice", "opaque", "option"} -> If(~ v.real)
       [] Kind(S) = "struct" -> If(Compatible(IF IsQual(T) THEN Strip(T) ELSE T, S))
       [] Kind(S) = "tuple" -> If(TupleCompatible(T, S) \/ Relaid(T, S))
       [] Kind(S) = "array" -> If(Relaid(T, S))
       [] Kind(S) = "enum" -> EnumImplicit(v, T)
       [] OTHER -> no

Implicit(v, T) ==
  CASE IsBad(v) -> v
    [] v.type = T -> v
    [] Kind(T) = "option" /\ Kind(v.type) # "option" -> Lift(v, T)
    [] OTHER -> OwnImplicit(v, T)

Numeric == Ints \cup Floats \cup {"bool"}

\* To and from a raw address.
PtrExplicit(v, T) ==
  CASE ~ v.real -> Shadow(T)
    [] Kind(T) = "ptr" \/ T = Opaque -> Value(T, v.data)
    [] OTHER -> Bad("type", "explicit", v.type)

OpaqueExplicit(v, T) ==
  CASE ~ v.real -> Shadow(T)
    [] Kind(T) = "ptr" -> Value(T, v.data)
    [] OTHER -> Bad("type", "explicit", v.type)

Explicit(v, T) ==
  LET S == v.type
      no == Bad("type", "explicit", S)
  IN CASE IsBad(v) -> v
       [] S = T -> v
       [] IsQual(S) -> IF Kind(Strip(S)) \in {"str", "func", "type", "void"} THEN no
                       ELSE Explicit(Retyped(v, Sub(S)), T)
       [] Kind(S) \in Numeric ->
            IF Kind(T) \in Numeric THEN Result(<<v>>, T, IF v.real THEN Stored(S, T, v.data) ELSE <<>>) ELSE no
       [] Kind(S) = "ptr" -> PtrExplicit(v, T)
       [] S = Opaque -> OpaqueExplicit(v, T)
       [] Kind(S) = "slice" -> IF v.real THEN no ELSE Shadow(T)
       [] Kind(S) = "enum" -> EnumExplicit(v, T)
       [] Kind(S) \in {"str", "func", "type", "void"} -> no
       [] OTHER -> OwnImplicit(v, T)

(***************************************************************************)
(* Assignment: what the variable, of type T, then holds.                   *)
(***************************************************************************)
EnumAssigned(T, v) == IF v.type # T THEN Bad("type", "assign", T) ELSE v

Assigned(T, v) ==
  CASE IsBad(v) -> v
    [] Kind(T) \in {"type", "void"} -> Bad("type", "assign", T)
    [] IsQual(T) ->
         IF ~ IsQual(v.type) THEN Assigned(Sub(T), v)
         ELSE IF v.real /\ Strip(v.type) # Strip(T) THEN Bad("bytes", "assign", T)
         ELSE Assigned(Sub(T), Retyped(v, Sub(T)))
    [] Kind(T) = "str" -> IF v.real /\ v.type # T THEN Bad("bytes", "assign", T) ELSE Retyped(v, T)
    [] Kind(T) \in {"option", "opaque"} ->
         IF v.real /\ v.type # T THEN Bad("type", "assign", T) ELSE Retyped(v, T)
    [] Kind(T) = "enum" -> EnumAssigned(T, v)
    [] Kind(T) = "bool" -> IF v.type # T THEN Bad("type", "assign", T) ELSE v
    [] v.type = T -> v
    [] OTHER -> Implicit(v, T)

(***************************************************************************)
(* Indices.                                                                *)
(***************************************************************************)
\* An index is read as a number without sign of its own width.
IndexOf(i) == IF IsInt(i.type) THEN Residue(i.type, i.data) ELSE -1

LengthType(T) == IF Kind(T) = "tuple" THEN <<"u64">> ELSE Usize
HasLength(T)  == Kind(T) \in {"array", "slice", "tuple"}

\* What `len` says of a sequence.
LengthOf(v) ==
  LET T == Strip(v.type) IN
  CASE ~ v.real -> Shadow(Usize)
    [] Kind(T) = "array" -> Value(Usize, T[3])
    [] Kind(T) = "tuple" -> Value(Usize, Len(T[2]))
    [] Kind(T) = "slice" -> Value(Usize, v.data[3])
    [] OTHER -> Bad("type", "len", T)

ElementType(T) == IF Kind(T) = "tuple" THEN IF T[2] = <<>> THEN Void ELSE T[2][1] ELSE Sub(T)
=============================================================================
