-------------------------------- MODULE Types --------------------------------
(***************************************************************************)
(* Types of the vm (src/src/vm/type*.c): what they are made of, where the  *)
(* parts of a value lie, and which stand for one another.  Types are       *)
(* interned, so that equality of types is equality of pointers.  A type is *)
(* a tuple with its kind first:                                            *)
(*   <<"i8">> ... <<"type">>, <<"ptr", T>>, <<"slice", T>>,                *)
(*   <<"option", T>>, <<"const", T>>, <<"volatile", T>>, <<"array", T, n>>,*)
(*   <<"tuple", Ts>>, <<"func", Ts, T>>, <<"enum", T, Vs>> where Vs is a   *)
(*   sequence of <<name, number>>, and <<"struct", id, Fs>> or             *)
(*   <<"union", id, Fs>> where Fs is a sequence of <<name, T>>.            *)
(***************************************************************************)
EXTENDS Integers, Sequences, FiniteSets, TLC

CONSTANT ByteBits   \* the width of a byte: 8 in the code

Unsized == {"void"}

Signed   == {"i8", "i16", "i32", "i64"}
Unsigned == {"u8", "u16", "u32", "u64", "usize"}
Ints     == Signed \cup Unsigned
Floats   == {"f32", "f64"}
Basics   == Ints \cup Floats \cup {"bool", "str", "opaque", "type", "void", "error"}
Quals    == {"const", "volatile"}

Kind(T)    == T[1]
Sub(T)     == T[2]
Parts(T)   == IF Kind(T) = "tuple" THEN T[2] ELSE [i \in DOMAIN T[3] |-> T[3][i][2]]
IsInt(T)   == Kind(T) \in Ints
IsFloat(T) == Kind(T) \in Floats
IsQual(T)  == Kind(T) \in Quals

Bool == <<"bool">>
Str == <<"str">>
Opaque == <<"opaque">>
Usize == <<"usize">>
Void == <<"void">>
TypeType == <<"type">>

RECURSIVE Strip(_), HasConst(_), Size(_), Align(_), Extends(_, _), Equal(_, _)

Strip(T)    == IF IsQual(T) THEN Strip(Sub(T)) ELSE T
HasConst(T) == IF IsQual(T) THEN Kind(T) = "const" \/ HasConst(Sub(T)) ELSE FALSE

(***************************************************************************)
(* Layout.                                                                 *)
(***************************************************************************)
RoundUp(n, a) == ((n + a - 1) \div a) * a
Greatest(S)   == CHOOSE m \in S : \A n \in S : m >= n

Aligns(Ts) == Greatest({1} \cup {Align(Ts[i]) : i \in DOMAIN Ts})

\* The variant of an enum that has this name, 0 if there is none.
VariantAt(T, name) == IF \E i \in DOMAIN T[3] : T[3][i][1] = name
                      THEN CHOOSE i \in DOMAIN T[3] : T[3][i][1] = name ELSE 0

\* Where each of the parts starts, and after them where the last one ends.
Offsets(Ts) ==
  LET off[i \in 0..Len(Ts)] ==
        IF i = 0 THEN 0
        ELSE LET at == IF i = 1 THEN 0 ELSE off[i - 1] + Size(Ts[i - 1])
             IN RoundUp(at, Align(Ts[i]))
  IN [i \in 1..Len(Ts) + 1 |-> IF i <= Len(Ts) THEN off[i] ELSE IF Ts = <<>> THEN 0 ELSE off[i - 1] + Size(Ts[i - 1])]

PartsSize(Ts) == IF Ts = <<>> THEN 1 ELSE RoundUp(Offsets(Ts)[Len(Ts) + 1], Aligns(Ts))

OptionOffset(T) == RoundUp(1, Align(Sub(T)))
UnionOffset(T)  == RoundUp(1, Aligns(Parts(T)))

BasicSize == [i8 |-> 1, u8 |-> 1, bool |-> 1, i16 |-> 2, u16 |-> 2, i32 |-> 4, u32 |-> 4, f32 |-> 4,
              i64 |-> 8, u64 |-> 8, usize |-> 8, f64 |-> 8, str |-> 8, opaque |-> 8, type |-> 8,
              error |-> 8, void |-> 0]

Size(T) ==
  CASE Kind(T) \in Basics -> BasicSize[Kind(T)]
    [] Kind(T) \in {"ptr", "func"} -> 8
    [] Kind(T) = "slice" -> 16
    [] IsQual(T) -> Size(Sub(T))
    [] Kind(T) = "enum" -> Size(Sub(T))
    [] Kind(T) = "array" -> Size(Sub(T)) * T[3]
    [] Kind(T) = "option" -> OptionOffset(T) + Size(Sub(T))
    [] Kind(T) = "union" -> UnionOffset(T) + Greatest({Size(Parts(T)[i]) : i \in DOMAIN Parts(T)})
    [] Kind(T) \in {"tuple", "struct"} -> PartsSize(Parts(T))

Align(T) ==
  CASE Kind(T) = "void" -> 1
    [] Kind(T) \in Basics -> BasicSize[Kind(T)]
    [] Kind(T) \in {"ptr", "func", "slice"} -> 8
    [] IsQual(T) \/ Kind(T) \in {"array", "option"} -> Align(Sub(T))
    [] Kind(T) = "enum" -> Align(Sub(T))
    [] OTHER -> Aligns(Parts(T))

(***************************************************************************)
(* Which types stand for which.                                            *)
(***************************************************************************)
\* Structs with the same fields, whatever their names.
Compatible(S, T) ==
  /\ Kind(S) = "struct" /\ Kind(T) = "struct"
  /\ \/ S = T
     \/ /\ Len(S[3]) = Len(T[3])
        /\ \A i \in DOMAIN S[3] : S[3][i][1] = T[3][i][1] /\ Equal(S[3][i][2], T[3][i][2])

TupleCompatible(S, T) ==
  /\ Kind(S) = "tuple" /\ Kind(T) = "tuple"
  /\ Len(S[2]) = Len(T[2]) /\ \A i \in DOMAIN S[2] : Equal(S[2][i], T[2][i])

Equal(S, T) ==
  \/ S = T
  \/ Kind(S) = Kind(T) /\ Kind(S) \in {"ptr", "slice", "option"} /\ Equal(Sub(S), Sub(T))
  \/ Compatible(S, T) \/ TupleCompatible(S, T)

\* A struct that starts with the fields of another.
Prefix(base, T) ==
  /\ Kind(base) = "struct" /\ Kind(T) = "struct"
  /\ \/ base = T
     \/ /\ Len(base[3]) <= Len(T[3])
        /\ \A i \in DOMAIN base[3] : base[3][i][1] = T[3][i][1] /\ Equal(base[3][i][2], T[3][i][2])

\* A tuple of one type is laid out as an array.
AsArray(S, T) ==
  Kind(S) = "tuple" /\ Kind(T) = "array" /\ Len(S[2]) = T[3]
  /\ \A i \in DOMAIN S[2] : Equal(S[2][i], Sub(T))
Relaid(S, T) == AsArray(S, T) \/ AsArray(T, S)

\* Mutant: a struct may lose its const on the way to what it starts with.
KeepsConstNot(from, to) == TRUE

KeepsConst(from, to) == ~ HasConst(from) \/ HasConst(to)

RECURSIVE AddsQuals(_, _)
AddsQuals(from, to) == from = to \/ (IsQual(to) /\ AddsQuals(from, Sub(to)))

Upcasts(from, to) == KeepsConst(from, to) /\ Prefix(Strip(to), Strip(from))

Extends(S, T) ==
  \/ S = T
  \/ CASE IsQual(S) -> Extends(Sub(S), T)
       [] Kind(S) = "ptr" /\ Kind(T) = "ptr" -> Upcasts(Sub(S), Sub(T)) \/ Extends(Sub(S), Sub(T))
       [] Kind(S) \in {"slice", "option"} /\ Kind(T) = Kind(S) -> Extends(Sub(S), Sub(T))
       [] OTHER -> Compatible(S, T) \/ TupleCompatible(S, T)

Category(T) == CASE Kind(T) = "bool" -> 1 [] Kind(T) \in Signed -> 2 [] Kind(T) \in Unsigned -> 3
                 [] Kind(T) \in Floats -> 4 [] OTHER -> 0

Rank == [bool |-> 0, i8 |-> 1, u8 |-> 2, i16 |-> 3, u16 |-> 4, i32 |-> 5, u32 |-> 6, i64 |-> 7,
         u64 |-> 8, usize |-> 9, f32 |-> 10, f64 |-> 11]

\* What two operands become, if anything: the wider type of a category.
Promotable(S, T) == S = T \/ (Category(S) # 0 /\ Category(S) = Category(T))
Promote(S, T)    == IF S = T \/ Rank[Kind(S)] >= Rank[Kind(T)] THEN S ELSE T
=============================================================================
