-------------------------------- MODULE Typing --------------------------------
(***************************************************************************)
(* How sema types an expression (src/src/sema/expr*.c, coerce.c): it runs  *)
(* the operations of the vm on shadows of the operands, and rewrites what  *)
(* is sugar.  An expression is a tuple with its form first:                *)
(*   <<"int", n, T>>, <<"bool", b>>, <<"nil">>, <<"var", x>>,              *)
(*   <<"un", op, e>>, <<"bin", op, e, f>>, <<"as", e, T>>,                 *)
(*   <<"is", e, member>>, <<"cond", e, f, g>>, <<"size", T>>,              *)
(*   <<"member", e, name>>, <<"index", e, f>>, <<"slice", e, f, g>>,       *)
(*   <<"deref", e>>, <<"addr", e>>, <<"unwrap", e>>,                       *)
(*   <<"make", T, es>> of all the parts in their order, or of one member   *)
(*   of a union <<"make", T, es, member>>,                                 *)
(*   <<"call", f, es>>, <<"method", e, name, es>>, where a value that is   *)
(*   called is asked for its method "call", <<"variant", T, name>>,        *)
(*   <<"align", T>> and <<"len", e>>.                                      *)
(* Sugar is rewritten into <<"isnil", op, e>>, <<"same", e, f>> for the    *)
(* equality function sema writes, and <<"lend", e>> for the address of a   *)
(* value that need not lie anywhere.                                       *)
(* A checked expression comes with the shadow of its value and as it was   *)
(* rewritten.                                                              *)
(***************************************************************************)
EXTENDS Values

\* The functions: <<struct, name>>, the struct "" unless it is a method, to the names and types
\* of its parameters, the type of its result, the assignments its body makes and
\* the expression it returns.
CONSTANT Funcs

Typed(v, e)  == [v |-> v, e |-> e]
As(T, e)     == Typed(Shadow(T), e)
Reject(form) == Typed(Bad("rejected", form, Void), <<"none">>)
Rejected(r)  == IsBad(r.v)
TypeOf(r)    == r.v.type
If(a, r)     == IF Rejected(a) THEN a ELSE r
Checked(v, e, form) == IF IsBad(v) THEN Reject(form) ELSE Typed(v, e)

FieldAt(T, name) == IF \E i \in DOMAIN T[3] : T[3][i][1] = name
                    THEN CHOOSE i \in DOMAIN T[3] : T[3][i][1] = name ELSE 0

HasMethod(T, name) == Kind(Strip(T)) = "struct" /\ <<Strip(T)[2], name>> \in DOMAIN Funcs

(***************************************************************************)
(* The methods the language calls by itself have a contract, which every   *)
(* declaration of one was checked for: how many parameters they have, the  *)
(* receiver among them, and what they give.                                *)
(***************************************************************************)
OperatorMethods == Arith \cup BitOps \cup Orders \cup {"=="}
Arity == [m \in {"neg", "!", "~", "len", "deref"} |-> 1] @@ [m \in OperatorMethods \cup {"index", "="} |-> 2]
         @@ [m \in {"slice"} |-> 3]
TakesPointer(m) == m \in OperatorMethods \cup {"="}
Derefable(T) == Kind(Strip(T)) = "ptr" \/ HasMethod(T, "deref")

MustGive(m, T) ==
  /\ m \in Orders \cup {"==", "!"} => T = Bool
  /\ m = "len" => T = Usize
  /\ m \in {"index", "deref"} => Derefable(T)
  /\ m = "=" => T = Void

Contract(f, m) ==
  /\ f.ins # <<>> /\ (m \in DOMAIN Arity => Len(f.ins) = Arity[m])
  /\ TakesPointer(m) => Kind(Strip(f.ins[2])) = "ptr"
  /\ MustGive(m, f.out)

ASSUME OperatorContracts == \A f \in DOMAIN Funcs : f[1] # "" => Contract(Funcs[f], f[2])

(***************************************************************************)
(* Enums.  The constants given to the variants are read as signed numbers  *)
(* of their own width, and must be assignable to the underlying type.      *)
(***************************************************************************)
SignedOf(v) == LET m == 2 ^ Bits(v.type) IN IF v.data >= m \div 2 THEN v.data - m ELSE v.data

VariantTakes(U, items, i) ==
  /\ IsInt(items[i][2].type) /\ ~ IsBad(Assigned(U, items[i][2]))
  /\ \A j \in 1..i - 1 : items[j][1] # items[i][1] /\ SignedOf(items[j][2]) # SignedOf(items[i][2])

\* The enum over U with these names and constants, if it is one.
EnumType(U, items) ==
  IF IsInt(U) /\ \A i \in DOMAIN items : VariantTakes(U, items, i)
  THEN <<"enum", U, [i \in DOMAIN items |-> <<items[i][1], SignedOf(items[i][2])>>]>> ELSE Void

CheckVariant(T, name) ==
  IF Kind(T) # "enum" THEN Reject("variant")
  ELSE IF VariantAt(T, name) = 0 THEN Reject("variant")
  ELSE As(T, <<"variant", T, T[3][VariantAt(T, name)][2]>>)

CheckSize(form, T) == As(Usize, <<"int", IF form = "size" THEN Size(T) ELSE Align(T), Usize>>)

(***************************************************************************)
(* What is known of a variable: its type, and whether it is initialised on *)
(* every path that leads here.                                             *)
(***************************************************************************)
CheckVar(env, e) ==
  IF e[2] \notin DOMAIN env \/ ~ env[e[2]].set THEN Reject("var") ELSE As(env[e[2]].type, e)

(***************************************************************************)
(* A value where one of type T is wanted: an option is put around what can *)
(* be one, and the rest is left to the assignment that follows.            *)
(***************************************************************************)
Wrapped(T, e) == As(T, <<"make", T, <<e>>>>)

\* An option made of nil, of the very type it is of, or of an option as it is.
MakeOption(T, r) ==
  CASE r.e = <<"nil">> -> Wrapped(T, r.e)
    [] Rejected(r) -> r
    [] TypeOf(r) \notin {T, Sub(T)} -> Reject("make")
    [] OTHER -> Wrapped(T, r.e)

Coerce(r, T) ==
  LET want == Strip(T) IN
  CASE r.e = <<"nil">> -> IF Kind(want) = "option" THEN MakeOption(want, r) ELSE Reject("nil")
    [] Strip(TypeOf(r)) = want \/ Kind(want) # "option" \/ Kind(Strip(TypeOf(r))) = "option" -> r
    [] IsBad(Implicit(Shadow(Strip(TypeOf(r))), Sub(want))) -> r
    [] OTHER -> MakeOption(want, r)

\* Mutant: what is put into a place is coerced and not looked at.
FittedAny(r, T) == r

\* What is put into a place of type T: coerced, and then assigned on shadows.
Fitted(r, T) == IF Rejected(r) THEN r
                ELSE IF IsBad(Assigned(T, r.v)) THEN Reject("fit") ELSE r
Fit(r, T) == IF Rejected(r) /\ r.e # <<"nil">> THEN r ELSE Fitted(Coerce(r, T), T)

(***************************************************************************)
(* Calls.                                                                  *)
(***************************************************************************)
Converted(r, T) == IF r.v.type # T /\ IsBad(Implicit(r.v, T)) THEN Reject("argument") ELSE r

\* An argument of a function is coerced and then converted, one of a method is
\* looked at as it is and coerced afterwards.
PassedOn(r, T)   == IF Rejected(r) THEN r ELSE Converted(r, T)
Argument(r, T)   == IF Rejected(r) /\ r.e # <<"nil">> THEN r ELSE PassedOn(Coerce(r, T), T)
CoerceOn(r, T)   == IF Rejected(r) THEN r ELSE Coerce(r, T)
MethodArg(r, T)  == IF Rejected(r) THEN r ELSE CoerceOn(Converted(r, T), T)

Called(f, rs) ==
  IF \E i \in DOMAIN rs : Rejected(rs[i]) THEN Reject("call")
  ELSE As(Funcs[f].out, <<"call", f, [i \in DOMAIN rs |-> rs[i].e]>>)

CheckCall(f, rs) ==
  IF Len(rs) # Len(Funcs[f].ins) THEN Reject("call")
  ELSE Called(f, [i \in DOMAIN rs |-> Argument(rs[i], Funcs[f].ins[i])])

\* The receiver of a method: a pointer as it is, of anything else its address.
Receiver(a) ==
  IF Kind(Strip(TypeOf(a))) = "ptr" THEN As(TypeOf(a), a.e) ELSE As(<<"ptr", TypeOf(a)>>, <<"lend", a.e>>)
ReceiverType(a) ==
  IF Kind(Strip(TypeOf(a))) = "ptr" THEN Strip(Sub(Strip(TypeOf(a)))) ELSE Strip(TypeOf(a))

Invoke(f, self, rs) ==
  IF IsBad(Implicit(self.v, Funcs[f].ins[1])) \/ Len(rs) + 1 # Len(Funcs[f].ins) THEN Reject("method")
  ELSE Called(f, <<self>> \o [i \in DOMAIN rs |-> MethodArg(rs[i], Funcs[f].ins[i + 1])])

Ask(a, name, rs) ==
  IF ~ HasMethod(ReceiverType(a), name) THEN Reject("method")
  ELSE Invoke(<<ReceiverType(a)[2], name>>, Receiver(a), rs)

\* What is rewritten into a call of a method is checked as that, its operands as
\* they were: <<"ask", a, name, rs>>.
RECURSIVE Check(_, _)
CheckMethod(a, name, rs) == Check(<<>>, <<"ask", a, name, rs>>)

(***************************************************************************)
(* What a struct has no member for is asked of what its `deref` gives, and *)
(* so on, but of no struct twice.                                          *)
(***************************************************************************)
Owns(T, name) == Kind(T) = "struct" /\ (FieldAt(T, name) # 0 \/ HasMethod(T, name))

RECURSIVE Reach(_, _, _)
Reach(r, name, seen) ==
  CASE Rejected(r) \/ Owns(ReceiverType(r), name) -> r
    [] ReceiverType(r) \in seen -> Reject("deref")
    [] OTHER -> Reach(CheckMethod(r, "deref", <<>>), name, seen \cup {ReceiverType(r)})

\* `.*` goes on until there is a pointer.
RECURSIVE ToPointer(_, _)
ToPointer(r, seen) ==
  CASE Rejected(r) \/ Kind(Strip(TypeOf(r))) = "ptr" -> r
    [] Strip(TypeOf(r)) \in seen -> Reject("deref")
    [] OTHER -> ToPointer(CheckMethod(r, "deref", <<>>), seen \cup {Strip(TypeOf(r))})

\* A receiver that is a struct, or a pointer to one.
OfStruct(a) == Kind(ReceiverType(a)) = "struct"
Reaching(a, name) == IF OfStruct(a) THEN Reach(a, name, {}) ELSE a

CallReached(r, name, rs) == IF Rejected(r) THEN r ELSE CheckMethod(r, name, rs)
CheckInvocation(a, name, rs) == CallReached(Reaching(a, name), name, rs)

\* A value that is called is asked for its method `call`.
CheckCallable(a, rs) == IF ~ HasMethod(TypeOf(a), "call") THEN Reject("call") ELSE CheckMethod(a, "call", rs)

\* How long a sequence is: its method, or what is known of it.  A const one is
\* refused.
CheckLen(a) ==
  CASE HasMethod(TypeOf(a), "len") -> CheckMethod(a, "len", <<>>)
    [] Kind(TypeOf(a)) \notin {"array", "slice", "tuple"} -> Reject("len")
    [] OTHER -> As(Usize, <<"len", a.e, TypeOf(a)>>)

(***************************************************************************)
(* Unary operators.                                                        *)
(***************************************************************************)
UnaryName(op) == IF op = "-" THEN "neg" ELSE op
CheckUnary(op, a) ==
  IF HasMethod(TypeOf(a), UnaryName(op)) THEN CheckMethod(a, UnaryName(op), <<>>)
  ELSE IF op = "!" /\ TypeOf(a) # Bool THEN Reject("un")
  ELSE Checked(UnaryOp(op, a.v), <<"un", op, a.e>>, "un")

(***************************************************************************)
(* Binary operators.                                                       *)
(***************************************************************************)
CheckLogic(op, a, b) ==
  IF TypeOf(a) # Bool \/ TypeOf(b) # Bool THEN Reject("logic") ELSE As(Bool, <<"bin", op, a.e, b.e>>)

CheckNil(op, a) ==
  IF Kind(Strip(TypeOf(a))) # "option" THEN Reject("nil") ELSE As(Bool, <<"isnil", op, a.e>>)

\* Equality of these is a function sema writes.
Generated(T) == Kind(Strip(T)) \in {"struct", "union"}
EqualTo(a, b) == Implicit(Shadow(<<"ptr", TypeOf(b)>>), <<"ptr", <<"const", Strip(TypeOf(a))>>>>)
CheckEqual(op, a, b) ==
  IF IsBad(EqualTo(a, b)) THEN Reject("equal")
  ELSE As(Bool, IF op = "==" THEN <<"same", a.e, b.e>> ELSE <<"un", "!", <<"same", a.e, b.e>>>>)

\* Types that differ and do not promote: the right one must become the left one.
Meets(a, b) ==
  \/ TypeOf(a) = TypeOf(b) \/ Promotable(TypeOf(a), TypeOf(b))
  \/ ~ IsBad(Implicit(b.v, TypeOf(a)))

CheckOperator(op, a, b) ==
  IF ~ Meets(a, b) THEN Reject("bin") ELSE Checked(Binary(op, a.v, b.v), <<"bin", op, a.e, b.e>>, "bin")

\* An operator of the struct on the left: its method, and of `!=` what `==` is not.
Not(r) == IF Rejected(r) THEN r ELSE Typed(r.v, <<"un", "!", r.e>>)
LentTo(b) == As(<<"ptr", TypeOf(b)>>, <<"lend", b.e>>)
CheckMagic(op, a, b) ==
  IF op = "!=" THEN Not(CheckMethod(a, "==", <<LentTo(b)>>)) ELSE CheckMethod(a, op, <<LentTo(b)>>)
MagicOf(op) == IF op = "!=" THEN "==" ELSE op

CheckBinary(op, a, b) ==
  CASE op \in {"&&", "||"} -> CheckLogic(op, a, b)
    [] HasMethod(TypeOf(a), MagicOf(op)) -> CheckMagic(op, a, b)
    [] op \in Equality /\ Generated(TypeOf(a)) -> CheckEqual(op, a, b)
    [] OTHER -> CheckOperator(op, a, b)

CheckIs(e, a) ==
  IF Kind(TypeOf(a)) # "union" THEN Reject("is")
  ELSE IF FieldAt(TypeOf(a), e[3]) = 0 THEN Reject("is")
  ELSE As(Bool, <<"is", a.e, FieldAt(TypeOf(a), e[3])>>)

CheckCond(c, a, b) ==
  IF TypeOf(c) # Bool \/ TypeOf(a) # TypeOf(b) THEN Reject("cond") ELSE Typed(a.v, <<"cond", c.e, a.e, b.e>>)

(***************************************************************************)
(* Parts of a value.  What a part of a const value is is not const.        *)
(***************************************************************************)
HasParts(T) == Kind(T) \in {"struct", "union"}
PartAs(T, i, e) == IF i = 0 THEN Reject("member") ELSE As(T[3][i][2], <<"member", e, i>>)

\* One pointer is followed without being asked for.
PartThere(name, a, T) ==
  CASE HasParts(T) -> PartAs(T, FieldAt(T, name), a.e)
    [] Kind(T) = "ptr" /\ HasParts(Strip(Sub(T))) ->
         PartAs(Strip(Sub(T)), FieldAt(Strip(Sub(T)), name), <<"deref", a.e>>)
    [] OTHER -> Reject("member")
CheckMember(name, r) == IF Rejected(r) THEN r ELSE PartThere(name, r, Strip(TypeOf(r)))

\* The parts of a tuple differ in their types: which one must be written down.
ElementOf(a, i, T) ==
  CASE ~ HasLength(T) \/ ~ IsInt(TypeOf(i)) -> Reject("index")
    [] Kind(T) # "tuple" -> As(Sub(T), <<"index", a.e, i.e>>)
    [] i.e[1] = "int" /\ i.e[2] \in 0..Len(T[2]) - 1 -> As(T[2][i.e[2] + 1], <<"index", a.e, i.e>>)
    [] OTHER -> Reject("index")

\* The method `slice` of a struct takes two bounds, for which numbers that are
\* written down are long enough.
AsBound(r) == IF r.e[1] = "int" /\ r.e[3] = <<"i32">> THEN As(Usize, <<"int", r.e[2], Usize>>) ELSE r
SliceMethod(a, lo, hi) ==
  LET ins == Funcs[<<Strip(TypeOf(a))[2], "slice">>].ins IN
  IF Len(ins) # 3 THEN Reject("slice")
  ELSE IF {Strip(ins[2]), Strip(ins[3])} # {Usize} THEN Reject("slice")
  ELSE CheckMethod(a, "slice", <<AsBound(lo), AsBound(hi)>>)

CheckSlice(a, lo, hi) ==
  CASE HasMethod(TypeOf(a), "slice") -> SliceMethod(a, lo, hi)
    [] Kind(TypeOf(a)) \notin {"array", "slice"} -> Reject("slice")
    [] ~ IsInt(TypeOf(lo)) \/ ~ IsInt(TypeOf(hi)) -> Reject("slice")
    [] OTHER -> As(<<"slice", Sub(TypeOf(a))>>, <<"slice", a.e, lo.e, hi.e>>)

\* What a pointer points to, or what the chain of a struct ends in.
Dereferenced(r) == IF Rejected(r) THEN r ELSE As(Sub(Strip(TypeOf(r))), <<"deref", r.e>>)
CheckDeref(a) ==
  CASE Kind(TypeOf(a)) = "ptr" -> Dereferenced(a)
    [] Kind(Strip(TypeOf(a))) = "struct" -> Dereferenced(ToPointer(a, {}))
    [] OTHER -> Reject("deref")

\* An element of a struct is what its method `index` points to.
CheckIndex(a, i, T) ==
  IF HasMethod(T, "index") THEN CheckDeref(CheckMethod(a, "index", <<i>>))
  ELSE ElementOf(a, i, T)

RECURSIVE Addressable(_)
Addressable(e) == e[1] \in {"var", "deref", "index"} \/ (e[1] = "member" /\ Addressable(e[2]))

CheckAddr(a) ==
  IF ~ Addressable(a.e) THEN Reject("addr") ELSE As(<<"ptr", TypeOf(a)>>, <<"addr", a.e>>)

CheckUnwrap(a) ==
  IF Kind(TypeOf(a)) # "option" THEN Reject("unwrap") ELSE As(Sub(TypeOf(a)), <<"unwrap", a.e>>)

(***************************************************************************)
(* Values made of parts.                                                   *)
(***************************************************************************)
NilPart(T) == IF Kind(T) = "option" THEN As(T, <<"make", T, <<>>>>) ELSE Reject("nil")
Field(r, T)   == IF r.e = <<"nil">> THEN NilPart(T) ELSE Fit(r, T)
Element(r, T) == IF r.e = <<"nil">> THEN NilPart(T) ELSE Fitted(r, T)

\* The value itself, if all its parts were accepted.
Made(T, rs) ==
  IF \E i \in DOMAIN rs : Rejected(rs[i]) THEN Reject("make")
  ELSE As(T, <<"make", T, [i \in DOMAIN rs |-> rs[i].e]>>)

MakeStruct(T, rs) ==
  IF Len(rs) # Len(T[3]) THEN Reject("make") ELSE Made(T, [i \in DOMAIN rs |-> Field(rs[i], T[3][i][2])])
MakeTuple(T, rs) ==
  IF Len(rs) # Len(T[2]) THEN Reject("make") ELSE Made(T, [i \in DOMAIN rs |-> Element(rs[i], T[2][i])])
MakeArray(T, rs) ==
  IF Len(rs) # T[3] THEN Reject("make") ELSE Made(T, [i \in DOMAIN rs |-> Element(rs[i], Sub(T))])

PayloadOf(r, T) == IF r.e = <<"nil">> /\ Kind(T) = "option" THEN As(T, r.e) ELSE Fitted(r, T)
UnionOf(T, i, r) == IF Rejected(r) THEN r ELSE As(T, <<"make", T, <<r.e>>, i>>)
MakeUnion(T, r, i) == IF i = 0 THEN Reject("make") ELSE UnionOf(T, i, PayloadOf(r, T[3][i][2]))

\* What cannot be assigned is cast.
MakeBasic(T, r) ==
  CASE Rejected(r) -> r
    [] IsBad(Assigned(T, r.v)) /\ IsBad(Explicit(r.v, T)) -> Reject("make")
    [] OTHER -> Wrapped(T, r.e)

CheckMake(T, rs, e) ==
  CASE Kind(T) = "struct" -> MakeStruct(T, rs)
    [] Kind(T) = "tuple"  -> MakeTuple(T, rs)
    [] Kind(T) = "array"  -> MakeArray(T, rs)
    [] Kind(T) = "union"  -> MakeUnion(T, rs[1], FieldAt(T, e[4]))
    [] Kind(T) = "option" -> MakeOption(T, rs[1])
    [] OTHER -> MakeBasic(T, rs[1])

(***************************************************************************)
(* An expression.                                                          *)
(***************************************************************************)
Unary(e, a) ==
  CASE Rejected(a)      -> a
    [] e[1] = "un"      -> CheckUnary(e[2], a)
    [] e[1] = "as"      -> Checked(Explicit(a.v, e[3]), <<"as", a.e, e[3]>>, "as")
    [] e[1] = "is"      -> CheckIs(e, a)
    [] e[1] = "member"  -> CheckMember(e[3], Reaching(a, e[3]))
    [] e[1] = "deref"   -> CheckDeref(a)
    [] e[1] = "addr"    -> CheckAddr(a)
    [] e[1] = "unwrap"  -> CheckUnwrap(a)
    [] e[1] = "len"     -> CheckLen(a)

CheckIndexed(a, i) == If(a, If(i, CheckIndex(a, i, Strip(TypeOf(a)))))
CheckThree(e, rs) ==
  If(rs[1], If(rs[2], If(rs[3],
    IF e[1] = "cond" THEN CheckCond(rs[1], rs[2], rs[3]) ELSE CheckSlice(rs[1], rs[2], rs[3]))))
CheckReceiver(a, name, rs) == If(a, IF name = "call" THEN CheckCallable(a, rs) ELSE CheckInvocation(a, name, rs))

CheckAll(env, es) == [i \in DOMAIN es |-> Check(env, es[i])]

CheckBin(op, a, b) ==
  CASE a.e = <<"nil">> /\ b.e = <<"nil">> -> a
    [] op \in Equality /\ a.e = <<"nil">> -> If(b, CheckNil(op, b))
    [] op \in Equality /\ b.e = <<"nil">> -> If(a, CheckNil(op, a))
    [] Rejected(a) -> a
    [] Rejected(b) -> b
    [] OTHER -> CheckBinary(op, a, b)

Check(env, e) ==
  CASE e[1] = "int"   -> As(e[3], e)
    [] e[1] = "bool"  -> As(Bool, e)
    [] e[1] = "nil"   -> Typed(Bad("rejected", "nil", Void), e)
    [] e[1] \in {"size", "align"} -> CheckSize(e[1], e[2])
    [] e[1] = "variant" -> CheckVariant(e[2], e[3])
    [] e[1] = "var"   -> CheckVar(env, e)
    [] e[1] = "bin"   -> CheckBin(e[2], Check(env, e[3]), Check(env, e[4]))
    [] e[1] = "index" -> CheckIndexed(Check(env, e[2]), Check(env, e[3]))
    [] e[1] \in {"cond", "slice"} -> CheckThree(e, CheckAll(env, <<e[2], e[3], e[4]>>))
    [] e[1] = "make"  -> CheckMake(e[2], CheckAll(env, e[3]), e)
    [] e[1] = "call"  -> CheckCall(e[2], CheckAll(env, e[3]))
    [] e[1] = "method" -> CheckReceiver(Check(env, e[2]), e[3], CheckAll(env, e[4]))
    [] e[1] = "ask"   -> Ask(e[2], e[3], e[4])
    [] e[1] = "un"    -> Unary(e, Check(env, e[3]))
    [] OTHER -> Unary(e, Check(env, e[2]))
=============================================================================
