----------------------------- MODULE MCGenerics -----------------------------
\* Programs of three modules: "a" and "b" define generics, "main" uses them.
EXTENDS GenericMeaning

I(op, name, n) == <<[op |-> op, via |-> "", name |-> name, n |-> n]>>
T(x)        == I("name", x, 0)
Wr(w, e)    == e \o I("wrap", w, 0)
Ptr(e)      == Wr("ptr", e)
Arr(n, e)   == e \o I("array", "", n)
ArrN(x, e)  == e \o I("array", x, 0)
Val(t, n)   == I("value", t, n)
Tup(es)     == Concat(es) \o I("tuple", "", Len(es))
Open1(via, g) == <<[op |-> "open", via |-> via, name |-> g, n |-> 0]>>
Ap(via, g, args) == Open1(via, g) \o Concat(args) \o I("inst", "", Len(args))
\* A call with arguments in brackets, or without brackets.
With1(via, g, args, passed) ==
  Open1(via, g) \o Concat(args) \o I("with", "", 1) \o Concat(passed) \o I("call", "", 0)
Call(via, g, passed) == Open1(via, g) \o I("with", "", 0) \o Concat(passed) \o I("call", "", 0)
Run1(e) == e \o I("eval", "", 0)

Type(x)    == [name |-> x, val |-> "", pack |-> FALSE, ptr |-> FALSE, default |-> <<>>]
Pack(x)    == [Type(x) EXCEPT !.pack = TRUE]
Num(x, t)  == [Type(x) EXCEPT !.val = t]
Addr(x)    == [Type(x) EXCEPT !.ptr = TRUE]
Or(p, e)   == [p EXCEPT !.default = e]

G(m, name, kind, exported, params, own, body) ==
  [mod |-> m, name |-> name, kind |-> kind, exported |-> exported, params |-> params,
   own |-> own, body |-> body, takes |-> IF kind = "func" THEN Len(own) - 1 ELSE 0,
   rest |-> "", decor |-> <<>>]
Rest(g, x)   == [g EXCEPT !.rest = x]
Decor(g, es) == [g EXCEPT !.decor = es]

Pool == <<
  G("a", "id", "func", TRUE, <<Type("T")>>, <<T("T"), T("T")>>, <<>>),
  G("a", "Box", "struct", TRUE, <<Type("T")>>,
    <<T("T"), Ptr(Ap("", "Box", <<T("T")>>))>>, <<Ap("", "id", <<T("T")>>)>>),
  G("a", "Own", "struct", FALSE, <<Type("T")>>, <<Ap("", "Box", <<T("T")>>)>>, <<>>),
  G("a", "wrap", "func", TRUE, <<Type("T")>>,
    <<T("T"), Ap("", "Own", <<T("T")>>)>>, <<Ap("", "id", <<Ptr(T("T"))>>)>>),
  G("b", "At", "alias", TRUE, <<Type("T")>>, <<Ap("a", "Box", <<Ptr(T("T"))>>)>>, <<>>),
  G("b", "deep", "func", TRUE, <<Type("T")>>, <<T("T")>>, <<Ap("", "deep", <<Ptr(T("T"))>>)>>),
  G("b", "need", "func", TRUE, <<Addr("P")>>, <<T("P")>>, <<>>),
  G("b", "pk", "func", TRUE, <<Type("T"), Pack("U")>>, <<T("T")>>, <<Ap("", "need", <<Ptr(T("T"))>>)>>),
  G("b", "num", "struct", TRUE, <<Num("N", "u8")>>, <<T("int")>>, <<>>),
  G("b", "loop", "alias", TRUE, <<Type("T")>>, <<Ap("", "loop", <<T("T")>>)>>, <<>>),
  G("b", "far", "func", TRUE, <<Type("T")>>, <<Ap("", "At", <<T("T")>>)>>,
    <<Run1(Ap("", "pk", <<T("T")>>)), Ap("a", "wrap", <<T("T")>>)>>),
  G("main", "two", "func", FALSE, <<Type("T")>>, <<T("T"), T("S")>>,
    <<Ap("a", "id", <<T("T")>>), Run1(Ap("", "one", <<T("T")>>)),
      Run1(Ap("", "one", <<T("T")>>)), T("T")>>),
  G("main", "one", "func", FALSE, <<Type("T")>>, <<T("T")>>, <<T("Z"), Ap("b", "At", <<T("T")>>)>>),
  G("main", "self", "func", FALSE, <<Type("T")>>, <<T("T")>>, <<Ap("", "self", <<T("T")>>)>>),
  G("main", "odd", "func", FALSE, <<Type("T")>>, <<Ap("a", "Own", <<T("T")>>), T("T")>>, <<>>),
  \* What calls leave out.
  G("a", "unbox", "func", TRUE, <<Type("T")>>, <<Ptr(Ap("", "Box", <<T("T")>>)), T("T")>>,
    <<Call("", "id", <<T("T")>>)>>),
  G("b", "Vec", "struct", TRUE, <<Type("T"), Num("N", "u64")>>, <<ArrN("N", T("T"))>>, <<>>),
  G("b", "both", "func", TRUE, <<Type("T"), Num("N", "u64"), Or(Type("U"), T("T"))>>,
    <<ArrN("N", T("T")), Wr("option", T("U")), T("U")>>, <<Ap("", "Vec", <<T("T"), T("N")>>)>>),
  G("b", "vlen", "func", TRUE, <<Num("N", "u64"), Type("T")>>,
    <<Wr("const", Ap("", "Vec", <<Wr("slice", T("T")), T("N")>>)), T("T")>>, <<>>),
  Rest(G("b", "each", "func", TRUE, <<Pack("A")>>, <<T("int")>>,
    <<Call("a", "id", <<I("elem", "a", 0)>>), Call("", "most", <<T("int"), I("spread", "a", 0)>>)>>), "a"),
  Rest(G("b", "most", "func", TRUE, <<Type("T"), Pack("A")>>, <<T("T"), T("int")>>,
    <<Call("", "alone", <<I("spread", "r", 0)>>), Ap("a", "Box", <<I("pack", "r", 0)>>)>>), "r"),
  Rest(G("b", "alone", "func", TRUE, <<Pack("A")>>, <<T("int")>>, <<>>), "a"),
  G("b", "nums", "func", TRUE, <<Num("B", "bool"), [Num("N", "u8") EXCEPT !.pack = TRUE]>>, <<T("int")>>,
    <<Ap("", "num", <<I("elem", "N", 1)>>), Call("", "alone", <<I("spread", "N", 0)>>)>>),
  Decor(G("b", "log", "func", TRUE, <<Type("T"), Or(Num("N", "u8"), Val("i32", 2))>>, <<T("T"), T("int")>>,
    <<Ap("", "num", <<T("N")>>)>>), <<Call("a", "id", <<T("T")>>)>>),
  G("b", "pick", "func", TRUE, <<Num("B", "bool"), Type("T")>>, <<T("T"), T("T")>>, <<>>) >>

Uses == {
  Ap("a", "id", <<T("int")>>), Ap("a", "Box", <<Ptr(T("int"))>>), Ap("b", "At", <<T("int")>>),
  Ap("a", "Own", <<T("int")>>), Ap("b", "wrap", <<T("X")>>), Ap("b", "deep", <<T("int")>>),
  Ap("b", "need", <<T("int")>>), Ap("b", "pk", <<T("int"), T("S"), Ptr(T("int"))>>),
  Ap("b", "num", <<Val("i32", 1)>>), Ap("b", "num", <<T("int")>>), Ap("b", "loop", <<T("int")>>),
  Ap("b", "far", <<T("S")>>), Ap("", "two", <<T("X")>>), Ap("", "self", <<T("int")>>), Ap("", "odd", <<T("int")>>),
  Ap("a", "Box", <<Ap("b", "At", <<T("Y")>>)>>), Ap("a", "id", <<T("int"), T("int")>>) }

Box(t) == Ap("a", "Box", <<t>>)
Calls == {
  Call("a", "id", <<Wr("const", T("S"))>>), Call("a", "unbox", <<Ptr(Box(T("X")))>>),
  Call("b", "both", <<Arr(3, T("S")), T("int")>>), Call("b", "both", <<Arr(2, T("int")), Wr("option", T("X"))>>),
  With1("b", "both", <<T("S")>>, <<Arr(2, T("int")), T("int")>>), Call("b", "both", <<T("S"), T("int")>>),
  Call("b", "vlen", <<Ap("b", "Vec", <<Wr("slice", T("S")), Val("i32", 2)>>)>>),
  With1("b", "vlen", <<Val("i32", 1)>>, <<Ap("b", "Vec", <<Wr("slice", T("S")), Val("i32", 2)>>)>>),
  Call("b", "each", <<T("S"), T("X")>>), Call("b", "each", <<>>),
  Call("b", "alone", <<I("spread", "a", 0)>>),
  With1("b", "most", <<T("S"), T("X")>>, <<T("S"), T("X")>>), With1("b", "most", <<T("S"), T("X")>>, <<T("S")>>),
  With1("b", "nums", <<Val("i32", 1), Val("i32", 1), Val("u8", 2)>>, <<>>), Call("b", "nums", <<T("S")>>),
  With1("b", "nums", <<T("S"), Val("i32", 1)>>, <<>>), With1("b", "nums", <<Val("bool", 1), Val("i32", 1)>>, <<>>),
  With1("b", "log", <<T("S")>>, <<T("S")>>), Call("b", "log", <<T("int")>>) }

X == [name |-> "X", rhs |-> Ap("a", "Box", <<T("S")>>)]
Y == [name |-> "Y", rhs |-> Ptr(T("X"))]
Z == [name |-> "Z", rhs |-> T("int")]

MCMod == {"a", "b", "main"}
Prog(tops, roots) ==
  [order |-> <<"a", "b", "main">>, defs |-> Pool,
   structs |-> [m \in MCMod |-> IF m = "main" THEN <<"S">> ELSE <<>>],
   tops |-> [m \in MCMod |-> IF m = "main" THEN tops ELSE <<>>],
   roots |-> [m \in MCMod |-> IF m = "main" THEN <<roots>>
                              ELSE IF m = "a" THEN <<<<Ap("", "Box", <<T("int")>>)>>>> ELSE <<>>],
   reexports |-> [m \in MCMod |-> IF m = "b" THEN <<"a">> ELSE <<>>]]

MCPrims == {"int", "i32", "u8"}
MCBits == [u8 |-> 3, i32 |-> 4, u64 |-> 6]
\* A compile-time call of another module's function is rejected, so there is
\* only a program with it that is rejected anyway.
MCPrograms ==
  {Prog(tops, <<u, v>>) : tops \in {<<X, Y, Z>>, <<Z, Y, X>>}, u, v \in Uses}
    \cup {Prog(<<X, Y, Z>>, <<Run1(Ap("a", "id", <<T("int")>>)), Ap("b", "need", <<T("int")>>)>>)}
    \cup {Prog(<<X, Z>>, <<Box(T("S")), u, v>>) : u, v \in Calls}
\* Calls that leave out what the code then gets wrong: another module asked
\* for the same Box first, or a boolean is written and the rest is not.
MCInferred ==
  {[Prog(<<>>, <<Call("a", "unbox", <<Ptr(Box(T("int")))>>)>>) EXCEPT
      !.roots["b"] = <<<<Box(T("int"))>>>>],
   Prog(<<>>, <<With1("b", "pick", <<Val("bool", 1)>>, <<T("S")>>)>>)}

\* Two modules ask a third for the same function.
MCTwice == {Prog(<<>>, <<u, v>>) : u, v \in Uses}
=============================================================================
