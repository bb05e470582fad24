---------------------------- MODULE GenericInfer ----------------------------
(***************************************************************************)
(* The pure parts of src/src/sema/sema_generic.c: comptime values, and     *)
(* what the parameters of a generic function are bound to by the arguments *)
(* written and those passed.                                               *)
(*                                                                         *)
(* A type is a tuple with its constructor first: <<"prim", name>>,         *)
(* <<"struct", name, m>>, <<"inst", k>> for the k-th instance, <<w, t>>    *)
(* for w in Wrappers, <<"array", n, t>>, <<"tuple", ts>>, and              *)
(* <<"func", ts>> with the result last.  <<"val", c>> is the constant c as *)
(* a generic argument.                                                     *)
(*                                                                         *)
(* A pattern is the type of a parameter as it is written: a type in which  *)
(* <<"hole", i>> is the i-th generic parameter, <<"name", x>> another      *)
(* name, <<"of", g, ps>> an instance of the generic g, <<"far">> a name of *)
(* another module; the length of an array is a hole or <<"num", n>>.       *)
(***************************************************************************)
EXTENDS Integers, Sequences, TLC

CONSTANT Bits   \* the width of each integer type: 8 to 64 in the code

Wrappers == {"ptr", "slice", "option", "const", "volatile"}

RECURSIVE Stripped(_)
Stripped(t) == IF t[1] \in {"const", "volatile"} THEN Stripped(t[2]) ELSE t

(***************************************************************************)
(* A constant has its type and its bits, in `u` for u64 and in `i`, a      *)
(* signed number as wide as the widest, for the others; `b` is a boolean.  *)
(***************************************************************************)
Widest == CHOOSE n \in {Bits[t] : t \in DOMAIN Bits} : \A t \in DOMAIN Bits : Bits[t] <= n
Signed64(raw) == IF raw >= 2^(Widest - 1) THEN raw - 2^Widest ELSE raw

Const(type, i, u, b) == [type |-> type, i |-> i, u |-> u, b |-> b]

\* The bits of a value, without a sign.
Encode(type, value) ==
  LET raw == value % 2^Bits[type] IN
  IF type = "u64" THEN Const(type, 0, raw, FALSE) ELSE Const(type, Signed64(raw), 0, FALSE)

Literal(type, value) ==
  IF type = "bool" THEN Const("bool", 0, 0, value # 0) ELSE Encode(type, value)

RawBits(c) ==
  IF c.type = "bool" THEN (IF c.b THEN 1 ELSE 0)
  ELSE IF c.type = "u64" THEN c.u
  ELSE c.i % 2^Bits[c.type]

Converts(c, type) == type = "bool" \/ c.type # "bool"

\* To the type a comptime parameter declares.
Convert(c, type) ==
  IF type = "bool" THEN Const("bool", 0, 0, RawBits(c) # 0)
  ELSE IF c.type = type THEN c
  ELSE Const(type, Signed64(RawBits(c)), IF type = "u64" THEN RawBits(c) ELSE 0, FALSE)

\* How it stands in the name of an instance.
MangleValue(c) ==
  IF c.type = "bool" THEN (IF c.b THEN "true" ELSE "false")
  ELSE IF c.type = "u64" THEN ToString(c.u)
  ELSE IF c.type \in {"u8", "u16", "u32", "usize"} THEN ToString(RawBits(c))
  ELSE ToString(c.i)

(***************************************************************************)
(* Inference.  What is written and what is passed make a sequence of       *)
(* facts, in the order in which the code comes to them: <<i, t>>, the i-th *)
(* parameter is the type t, or <<i, <<"raw", n>>>>, it is a constant with  *)
(* these bits.  `vals` has the type each comptime parameter declares, ""   *)
(* for a type parameter.                                                   *)
(***************************************************************************)
Concat(ss) ==
  LET cat[i \in 0..Len(ss)] == IF i = 0 THEN <<>> ELSE cat[i - 1] \o ss[i]
  IN cat[Len(ss)]

Raw(i, n) == <<<<i, <<"raw", n>>>>>>

RECURSIVE Match(_, _, _), MatchArgs(_, _, _)

\* The arguments of an instance: a number that differs ends them.
MatchArgs(made, pats, as) ==
  IF pats = <<>> \/ as = <<>> THEN <<>>
  ELSE LET p == Head(pats)
           a == Head(as)
       IN IF a[1] = "val" /\ p[1] = "num" /\ p[2] # RawBits(a[2]) THEN <<>>
          ELSE (IF a[1] # "val" THEN Match(made, p, a)
                ELSE IF p[1] = "hole" THEN Raw(p[2], RawBits(a[2])) ELSE <<>>)
               \o MatchArgs(made, Tail(pats), Tail(as))

\* A pattern fills its holes and says nothing of what does not fit: the call
\* finds that out.  `made` has <<g, t, args>> for each instance t = g[args] the
\* analysis knows of.
Match(made, pat, t) ==
  CASE pat[1] = "hole" -> <<<<pat[2], t>>>>
    [] pat[1] \in {"const", "volatile"} -> Match(made, pat[2], Stripped(t))
    [] pat[1] = "option" -> Match(made, pat[2], IF t[1] = "option" THEN t[2] ELSE t)
    [] pat[1] \in {"ptr", "slice"} /\ t[1] = pat[1] -> Match(made, pat[2], t[2])
    [] pat[1] = "array" /\ t[1] = "array" /\ (pat[2][1] = "num" => pat[2][2] = t[2]) ->
         (IF pat[2][1] = "hole" THEN Raw(pat[2][2], t[2]) ELSE <<>>) \o Match(made, pat[3], t[3])
    [] pat[1] \in {"tuple", "func"} /\ t[1] = pat[1] /\ Len(pat[2]) = Len(t[2]) ->
         Concat([i \in DOMAIN t[2] |-> Match(made, pat[2][i], t[2][i])])
    [] pat[1] = "of" /\ \E m \in made : m[1] = pat[2] /\ m[2] = Stripped(t) ->
         MatchArgs(made, pat[3], (CHOOSE m \in made : m[1] = pat[2] /\ m[2] = Stripped(t))[3])
    [] OTHER -> <<>>

\* The arguments written say the first parameters, as many as are no pack.
Written(written) ==
  Concat([i \in DOMAIN written |->
    IF written[i][1] = "val" THEN Raw(i, RawBits(written[i][2])) ELSE <<<<i, written[i]>>>>])

\* A type says nothing of a value parameter, nor a number of a type parameter.
Of(facts, vals, i) ==
  SelectSeq(facts, LAMBDA f : f[1] = i /\ ((vals[i] = "") <=> f[2][1] # "raw"))

\* A number is kept in the fields for integers, whatever the type.
Kept(type, x) ==
  IF type = "" THEN x
  ELSE <<"val", Const(type, Signed64(x[2]), IF type = "u64" THEN x[2] ELSE 0, FALSE)>>

\* The first fact binds, and the others have to be the same.
BindFirst(facts, vals) ==
  [i \in DOMAIN vals |-> IF Of(facts, vals, i) = <<>> THEN <<>>
                         ELSE <<Kept(vals[i], Of(facts, vals, i)[1][2])>>]

Inconsistent(facts, vals) ==
  \E i \in DOMAIN vals : \E k \in 2..Len(Of(facts, vals, i)) :
    LET first == Kept(vals[i], Of(facts, vals, i)[1][2])
        x     == Of(facts, vals, i)[k][2]
    IN IF vals[i] = "" THEN x # first ELSE x[2] # RawBits(first[2])
=============================================================================
