----------------------------- MODULE MCStatements -----------------------------
(***************************************************************************)
(* Programs for TLC.  A byte has two bits: an i8 is -2..1, an i32 is       *)
(* -128..127.                                                              *)
(***************************************************************************)
EXTENDS Statements

I8 == <<"i8">>
U8 == <<"u8">>
I32 == <<"i32">>
Ptr(T) == <<"ptr", T>>
Opt(T) == <<"option", T>>
Const(T) == <<"const", T>>
Slice(T) == <<"slice", T>>
Arr(T, n) == <<"array", T, n>>
Pair == <<"tuple", <<I32, I8>>>>
InnerS == <<"struct", "I", <<<<"a", I8>>>>>>
S == <<"struct", "S", <<<<"a", I32>>, <<"b", I8>>>>>>
Long == <<"struct", "L", <<<<"a", I32>>, <<"b", I8>>, <<"c", I32>>>>>>
Outer == <<"struct", "O", <<<<"i", InnerS>>, <<"n", Arr(I32, 2)>>, <<"o", Opt(I8)>>>>>>
N == <<"struct", "N", <<<<"a", I32>>>>>>
M == <<"struct", "M", <<<<"a", I32>>>>>>
H == <<"struct", "H", <<<<"m", M>>, <<"n", I32>>>>>>
W == <<"struct", "W", <<<<"w", I32>>, <<"m", M>>>>>>
Q == <<"struct", "Q", <<<<"v", I32>>, <<"p", Ptr(W)>>>>>>
Color == EnumType(I32, <<<<"Red", Value(I32, 1)>>, <<"Green", Value(I8, -2)>>>>)
Tiny == EnumType(U8, <<<<"Lo", Value(U8, 1)>>, <<"Hi", Value(U8, 3)>>>>)
NoEnum == EnumType(I32, <<<<"Red", Value(I32, 1)>>, <<"Blue", Value(I8, 1)>>>>)
U == <<"union", "U", <<<<"n", I32>>, <<"s", S>>>>>>

V(x) == <<"var", x>>
Lit(n) == <<"int", n, I32>>
Byte(n) == <<"as", IF n < 0 THEN <<"un", "-", Lit(-n)>> ELSE Lit(n), I8>>
Bin(op, a, b) == <<"bin", op, a, b>>
Dot(e, m) == <<"member", e, m>>
At0(e, i) == <<"index", e, i>>
Star(e) == <<"deref", e>>
Amp(e) == <<"addr", e>>
Call(f, es) == <<"call", <<"", f>>, es>>
Make(T, es) == <<"make", T, es>>
Decl(x, T, e) == <<"declare", x, T, e>>
Set(t, e) == <<"assign", t, "=", e>>
Upd(t, op, e) == <<"assign", t, op, e>>
Do(e) == <<"eval", e>>
Nil == <<"nil">>

Fn(names, ins, out, does, result) == [names |-> names, ins |-> ins, out |-> out, does |-> does, result |-> result]
MCFuncs ==
  <<"", "inc">> :> Fn(<<"inc_p">>, <<Ptr(I32)>>, I32, <<<<Star(V("inc_p")), "+", Lit(1)>>>>, Star(V("inc_p")))
  @@ <<"", "sub">> :> Fn(<<"sub_a", "sub_b">>, <<I32, I32>>, I32, <<>>, Bin("-", V("sub_a"), V("sub_b")))
  @@ <<"", "low">> :> Fn(<<"low_n">>, <<I32>>, I8, <<>>, <<"as", V("low_n"), I8>>)
  @@ <<"", "or">> :> Fn(<<"or_o">>, <<Opt(I32)>>, I32, <<>>, <<"cond", <<"isnil", "==", V("or_o")>>, Lit(7), <<"unwrap", V("or_o")>>>>)
  @@ <<"", "mk">> :> Fn(<<"mk_a">>, <<I32>>, S, <<>>, Make(S, <<V("mk_a"), <<"as", V("mk_a"), I8>>>>))
  @@ <<"S", "get">> :> Fn(<<"get_self">>, <<Ptr(S)>>, I32, <<>>, <<"member", Star(V("get_self")), 1>>)
  @@ <<"N", "+">> :> Fn(<<"add_self", "add_o">>, <<Ptr(N), Ptr(N)>>, N, <<<<<<"member", Star(V("add_self")), 1>>, "+", Lit(1)>>>>,
                        Make(N, <<Bin("+", <<"member", Star(V("add_self")), 1>>, <<"member", Star(V("add_o")), 1>>)>>))
  @@ <<"N", "==">> :> Fn(<<"eq_self", "eq_o">>, <<Ptr(N), Ptr(N)>>, Bool, <<>>,
                        Bin("==", Bin("%", <<"member", Star(V("eq_self")), 1>>, Lit(2)), Bin("%", <<"member", Star(V("eq_o")), 1>>, Lit(2))))
  @@ <<"M", "=">> :> Fn(<<"set_self", "set_o">>, <<Ptr(M), Ptr(Const(M))>>, Void,
                        <<<<<<"member", Star(V("set_self")), 1>>, "=", Bin("+", <<"member", Star(V("set_o")), 1>>, Lit(1))>>>>, <<"none">>)
  @@ <<"M", "+">> :> Fn(<<"sum_self", "sum_o">>, <<Ptr(M), Ptr(M)>>, M, <<>>,
                        Make(M, <<Bin("+", <<"member", Star(V("sum_self")), 1>>, <<"member", Star(V("sum_o")), 1>>)>>))
  @@ <<"W", "bump">> :> Fn(<<"bump_self">>, <<Ptr(W)>>, I32, <<<<<<"member", Star(V("bump_self")), 1>>, "+", Lit(1)>>>>, <<"member", Star(V("bump_self")), 1>>)
  @@ <<"Q", "deref">> :> Fn(<<"deref_self">>, <<Ptr(Q)>>, Ptr(W), <<>>, <<"member", Star(V("deref_self")), 2>>)
  @@ <<"Q", "index">> :> Fn(<<"index_self", "index_i">>, <<Ptr(Q), I32>>, Ptr(I32), <<<<<<"member", Star(V("index_self")), 1>>, "+", V("index_i")>>>>,
                        <<"addr", <<"member", Star(V("index_self")), 1>>>>)
  @@ <<"Q", "slice">> :> Fn(<<"slice_self", "slice_lo", "slice_hi">>, <<Ptr(Q), Usize, Usize>>, Usize, <<>>, Bin("-", V("slice_hi"), V("slice_lo")))
  @@ <<"Q", "len">> :> Fn(<<"len_self">>, <<Ptr(Q)>>, Usize, <<>>, <<"as", <<"member", Star(V("len_self")), 1>>, Usize>>)
  @@ <<"Q", "call">> :> Fn(<<"call_self", "call_n">>, <<Ptr(Q), I32>>, I32, <<>>, Bin("+", <<"member", Star(V("call_self")), 1>>, V("call_n")))
  @@ <<"N", "neg">> :> Fn(<<"neg_self">>, <<Ptr(N)>>, I32, <<>>, <<"un", "-", <<"member", Star(V("neg_self")), 1>>>>)

Unwrap(e) == <<"unwrap", e>>
Neg(e) == <<"un", "-", e>>
As8(e) == <<"as", e, I8>>
Ints5 == {V("x"), V("y"), V("u"), V("z"), V("w")}

\* Numbers of different widths and signs.
Numbers ==
  [first |-> <<Decl("x", I8, Byte(1)), Decl("y", I8, Byte(-2)), Decl("u", U8, <<"as", Lit(3), U8>>),
               Decl("z", I32, Lit(5)), Decl("w", I32, Lit(100)), Decl("b", Bool, <<"bool", TRUE>>)>>,
   then |-> {Set(V("z"), Bin(op, a, b)) : op \in Arith \cup BitOps, a, b \in Ints5}
      \cup {Set(V("b"), Bin(op, a, b)) : op \in Orders \cup Equality, a, b \in Ints5}
      \cup {Set(V("x"), Bin(op, a, b)) : op \in Arith, a, b \in {V("x"), V("y")}}
      \cup {Upd(V(t), op, e) : t \in {"x", "z", "u"}, op \in Arith \cup BitOps, e \in Ints5}
      \cup {Set(V("x"), As8(e)) : e \in Ints5 \cup {Neg(V("z")), <<"un", "~", V("w")>>}}
      \cup {Set(V("u"), <<"as", e, U8>>) : e \in Ints5}
      \cup {Set(V("z"), Bin(op, Bin("+", V("x"), V("y")), e)) : op \in {"/", "*"}, e \in {V("x"), V("z")}}
      \cup {Set(V("z"), <<"cond", Bin(op, V("x"), V("y")), V("z"), V("w")>>) : op \in {"<", "=="}}
      \cup {Set(V("b"), Bin(op, Bin("<", V("x"), V("z")), Bin("==", Bin("/", V("w"), V("z")), V("w")))) : op \in {"&&", "||"}}
      \cup {Set(V("x"), Call("low", <<e>>)) : e \in Ints5} \cup {Set(V("b"), <<"un", "!", e>>) : e \in {V("b"), V("x")}}]

Base == <<Decl("x", I8, Byte(1)), Decl("z", I32, Lit(1)), Decl("b", Bool, <<"bool", TRUE>>)>>

\* Values made of parts.
Parted ==
  [first |-> Base \o <<Decl("s", S, Make(S, <<Lit(3), Byte(1)>>)), Decl("t", Auto, Make(Pair, <<Lit(4), Byte(0)>>)),
               Decl("a", Auto, Make(Arr(I32, 2), <<Lit(8), Lit(9)>>)), Decl("o", Opt(I32), Nil),
               Decl("u", U, <<"make", U, <<Lit(6)>>, "n">>), Decl("d", Outer, Make(Outer, <<Make(InnerS, <<Byte(1)>>), Make(Arr(I32, 2), <<Lit(1), Lit(2)>>), Nil>>))>>,
   then |-> {Set(t, e) : t \in {Dot(V("s"), "a"), Dot(V("s"), "b"), At0(V("a"), V("z")), At0(V("a"), V("x")), At0(V("t"), Lit(0)),
                                At0(V("t"), Lit(1)), Dot(Dot(V("d"), "i"), "a"), At0(Dot(V("d"), "n"), V("z")), Dot(V("u"), "n"), Dot(V("d"), "o")},
                         e \in {V("x"), V("z"), Lit(2), Call("or", <<V("o")>>)}}
      \cup {Upd(t, op, e) : t \in {Dot(V("s"), "a"), Dot(V("s"), "b"), At0(V("a"), V("z")), Dot(V("u"), "n")}, op \in {"+", "/"}, e \in {V("x"), V("z")}}
      \cup {Set(V("z"), e) : e \in {At0(V("a"), V("z")), At0(V("a"), V("x")), At0(V("t"), Lit(0)), Dot(V("s"), "a"), Dot(V("s"), "b"), Unwrap(V("o")),
                                    Dot(V("u"), "n"), Dot(Dot(V("u"), "s"), "a"), Call("or", <<V("o")>>), Call("or", <<V("z")>>), Call("or", <<Nil>>),
                                    Dot(Call("mk", <<V("z")>>), "a"), Unwrap(Dot(V("d"), "o")), <<"size", S>>}}
      \cup {Set(V("o"), e) : e \in {Nil, V("z"), V("x"), V("o"), Dot(V("d"), "o"), Make(Opt(I32), <<Nil>>), Make(Opt(I32), <<V("o")>>), Make(Opt(I32), <<V("z")>>), Make(Opt(I32), <<V("x")>>)}} \cup {Set(Dot(V("d"), "o"), e) : e \in {Nil, V("z"), V("x")}}
      \cup {Set(V("s"), e) : e \in {Call("mk", <<V("z")>>), Make(S, <<V("x"), V("x")>>), Make(S, <<V("z"), V("z")>>), V("t"), Dot(V("u"), "s"), Nil}}
      \cup {Set(V("t"), Make(Pair, <<a, b>>)) : a, b \in {V("x"), V("z")}} \cup {Set(V("a"), Make(Arr(I32, 2), <<a, b>>)) : a, b \in {V("x"), V("z"), V("b")}}
      \cup {Set(V("u"), e) : e \in {<<"make", U, <<V("z")>>, "n">>, <<"make", U, <<V("s")>>, "s">>, <<"make", U, <<V("x")>>, "n">>, V("s")}}
      \cup {Set(V("b"), e) : e \in {Bin("==", V("s"), Call("mk", <<V("z")>>)), Bin("!=", V("u"), <<"make", U, <<V("z")>>, "n">>), Bin("==", V("t"), Make(Pair, <<V("z"), V("x")>>)),
                                    Bin("==", V("a"), V("a")), Bin("==", V("o"), Nil), Bin("!=", Nil, V("o")), <<"is", V("u"), "n">>, Bin("==", V("d"), V("d")), Bin("==", V("o"), V("z"))}}]

\* Pointers, slices, methods, and calls that write what other operands read.
Aliased ==
  [first |-> Base \o <<Decl("s", S, Make(S, <<Lit(3), Byte(1)>>)), Decl("m", Long, Make(Long, <<Lit(1), Byte(0), Lit(2)>>)),
               Decl("a", Auto, Make(Arr(I32, 2), <<Lit(8), Lit(9)>>)), Decl("p", Auto, Amp(V("z"))), Decl("q", Auto, Amp(V("s"))),
               Decl("l", Auto, <<"slice", V("a"), Lit(0), Lit(2)>>)>>,
   then |-> {Set(Star(V("p")), e) : e \in {V("x"), V("z"), Bin("+", V("z"), Call("inc", <<V("p")>>))}} \cup {Upd(Star(V("p")), op, V("z")) : op \in {"+", "*"}}
      \cup {Set(V("p"), e) : e \in {Amp(V("z")), Amp(V("x")), Amp(Dot(V("s"), "a")), Amp(At0(V("a"), V("x"))), Amp(At0(V("l"), V("z"))), Amp(Dot(V("q"), "a")), V("q")}}
      \cup {Set(V("q"), e) : e \in {Amp(V("s")), Amp(V("m")), V("p")}} \cup {Set(Dot(V("q"), "a"), e) : e \in {V("z"), Lit(5)}} \cup {Set(Star(V("q")), Call("mk", <<V("z")>>)), Set(Star(V("q")), V("s")), Set(V("s"), Star(V("q")))}
      \cup {Set(V("z"), e) : e \in {Star(V("p")), Dot(V("q"), "a"), <<"method", V("s"), "get", <<>>>>, <<"method", V("q"), "get", <<>>>>, <<"method", Call("mk", <<V("z")>>), "get", <<>>>>,
              Bin("+", At0(V("a"), Lit(0)), Call("inc", <<Amp(At0(V("a"), Lit(0)))>>)), Call("sub", <<Call("inc", <<V("p")>>), Call("inc", <<V("p")>>)>>),
              Bin("*", V("z"), Call("inc", <<Amp(V("z"))>>)), At0(V("l"), V("z")), Call("inc", <<Amp(Dot(V("s"), "a"))>>), At0(V("a"), Call("inc", <<V("p")>>))}}
      \cup {Set(V("l"), e) : e \in {<<"slice", V("a"), Lit(1), Lit(2)>>, <<"slice", V("l"), V("z"), Lit(2)>>, <<"slice", V("l"), V("x"), V("z")>>, <<"slice", Make(Arr(I32, 2), <<V("z"), Lit(0)>>), Lit(0), Lit(1)>>, V("a")}}
      \cup {Set(At0(V("l"), e), V("z")) : e \in {V("z"), Lit(0), Call("inc", <<V("p")>>)}} \cup {Upd(At0(V("l"), Lit(0)), "+", Call("inc", <<V("p")>>)), Upd(V("z"), "+", Call("inc", <<V("p")>>))}
      \cup {Set(V("b"), Bin("==", e, f)) : e, f \in {V("p"), Amp(Dot(V("s"), "a")), Amp(At0(V("l"), Lit(0))), V("q")}} \cup {Set(V("b"), Bin("==", V("s"), V("m"))), Set(V("b"), Bin("==", V("l"), <<"slice", V("a"), Lit(1), Lit(2)>>))}]

\* What is const, and what points to it.
Guarded ==
  [first |-> Base \o <<Decl("c", Const(I32), Lit(3)), Decl("v", Const(I8), Byte(0)), Decl("k", Const(I32), Undef), Decl("p", Auto, Amp(V("z"))),
               Decl("n", Auto, Make(Arr(Const(I32), 2), <<Lit(1), Lit(2)>>))>>,
   then |-> {Set(V(t), e) : t \in {"c", "v", "k", "z"}, e \in {V("z"), V("c"), Lit(6)}} \cup {Upd(V(t), "+", Lit(1)) : t \in {"c", "v", "k"}}
      \cup {Set(V("p"), Amp(V(t))) : t \in {"c", "v", "k", "z"}} \cup {Set(Star(Amp(V(t))), Lit(9)) : t \in {"c", "v", "z"}}
      \cup {Decl("r", T, Amp(V(t))) : T \in {Auto, Ptr(I32), Ptr(Const(I32))}, t \in {"c", "v", "z"}} \cup {Set(V("p"), V("r")), Set(Star(V("r")), Lit(8)), Set(V("z"), Star(V("r"))), Set(V("z"), V("k"))}
      \cup {Decl("r", Auto, V("c")), Set(V("r"), Lit(2)), Set(At0(V("n"), Lit(0)), Lit(7)), Set(V("p"), Amp(At0(V("n"), Lit(0)))), Set(V("z"), At0(V("n"), V("x")))}
      \cup {Set(V("z"), Call("inc", <<Amp(V(t))>>)) : t \in {"c", "v", "z"}}]

\* Operators that structs define, on values, places and what is const.
Nn == {V("n"), V("k"), Make(N, <<V("z")>>), Bin("+", V("n"), V("n")), Star(V("q"))}
Operators ==
  [first |-> Base \o <<Decl("n", N, Make(N, <<Lit(3)>>)), Decl("k", Const(N), Make(N, <<Lit(4)>>)), Decl("q", Auto, Amp(V("n"))), Decl("s", S, Make(S, <<Lit(3), Byte(1)>>))>>,
   then |-> {Set(V("n"), Bin("+", e, f)) : e, f \in Nn} \cup {Upd(V(t), "+", e) : t \in {"n", "k", "s"}, e \in Nn} \cup {Set(V("z"), Neg(e)) : e \in Nn}
      \cup {Set(V("b"), Bin(op, e, f)) : op \in Equality \cup {"-"}, e, f \in Nn} \cup {Set(V("n"), e) : e \in Nn} \cup {Set(V("q"), Amp(V(t))) : t \in {"n", "k"}} \cup {Set(Dot(V(t), "a"), V("z")) : t \in {"k", "q", "n"}} \cup {Upd(Star(V("q")), "+", V("n")), Set(V("b"), Bin("<", V("n"), V("n"))), Set(V("b"), Bin("==", V("n"), V("s")))}]

\* Structs that say what it is to be assigned, indexed, cut, called, measured and
\* to look for a member elsewhere; enums and lengths.
Variant(T, name) == <<"variant", T, name>>
Length(e) == <<"len", e>>
AsInt(e) == <<"as", e, I32>>
Apply(e, es) == <<"method", e, "call", es>>
Ms == {V("m"), V("k"), Dot(V("h"), "m"), Dot(V("g"), "m"), Star(Amp(V("m")))}
Magic ==
  [first |-> Base \o <<Decl("m", M, Make(M, <<Lit(3)>>)), Decl("k", Const(M), Make(M, <<Lit(4)>>)), Decl("h", H, Make(H, <<Make(M, <<Lit(5)>>), Lit(6)>>)),
               Decl("g", Const(H), V("h")), Decl("w", W, Make(W, <<Lit(7), V("m")>>)), Decl("q", Q, Make(Q, <<Lit(2), Amp(V("w"))>>))>>,
   then |-> {Set(t, e) : t \in Ms, e \in Ms \cup {Bin("+", V("m"), V("m")), Make(M, <<V("z")>>)}} \cup {Upd(t, "+", e) : t, e \in Ms}
      \cup {Set(Dot(V("q"), "w"), V("z")), Upd(Dot(V("q"), "w"), "+", V("x")), Upd(Dot(V("q"), "v"), "+", V("z")), Set(Dot(V("q"), "m"), V("m")), Set(Dot(V("q"), "zz"), V("z"))}
      \cup {Set(At0(V("q"), V("z")), e) : e \in {V("x"), V("z"), At0(V("q"), Lit(1))}} \cup {Upd(At0(V("q"), Lit(1)), "+", V("x"))}
      \cup {Set(V("z"), e) : e \in {Dot(V("q"), "w"), Dot(Star(V("q")), "w"), <<"method", V("q"), "bump", <<>>>>, Apply(V("q"), <<V("x")>>), Apply(V("w"), <<>>),
              At0(V("q"), V("x")), AsInt(Length(V("q"))), AsInt(<<"slice", V("q"), Lit(1), Lit(3)>>), AsInt(<<"slice", V("q"), V("z"), Lit(3)>>), Dot(Dot(V("q"), "m"), "a")}}
      \cup {Set(Star(V("q")), V("w")), Set(V("w"), Star(V("q"))), Decl("r", Auto, Amp(Dot(V("g"), "m"))), Set(Star(V("r")), V("m"))}]

Measured ==
  [first |-> Base \o <<Decl("c", Color, Variant(Color, "Red")), Decl("e", Tiny, Variant(Tiny, "Hi")), Decl("a", Auto, Make(Arr(I32, 2), <<Lit(8), Lit(9)>>)),
               Decl("t", Auto, Make(Pair, <<Lit(4), Byte(0)>>)), Decl("l", Auto, <<"slice", V("a"), V("x"), Lit(2)>>), Decl("n", Const(Arr(I32, 2)), V("a")), Decl("p", Auto, Amp(V("z")))>>,
   then |-> {Set(V(t), e) : t \in {"c", "e", "x", "z"}, e \in {V("c"), V("e"), Variant(Color, "Green"), Variant(Tiny, "Lo"), Variant(Color, "Lo"), Variant(NoEnum, "Red"), V("z"), <<"as", V("z"), Color>>, Bin("+", V("c"), V("c"))}}
      \cup {Set(V("z"), <<"as", e, T>>) : e \in {V("c"), V("e"), Variant(Tiny, "Hi")}, T \in {I32, I8, U8}} \cup {Set(V("b"), Bin(op, e, f)) : op \in Equality \cup Orders, e, f \in {V("c"), V("e"), Variant(Color, "Green"), V("z")}}
      \cup {Set(V("z"), AsInt(e)) : e \in {Length(f) : f \in {V("a"), V("t"), V("l"), V("n"), V("z"), <<"slice", V("a"), V("z"), Lit(2)>>, Make(Arr(I32, 1), <<Call("inc", <<V("p")>>)>>)}} \cup {<<"align", S>>, <<"align", U>>, <<"size", Color>>, <<"align", Tiny>>}}
      \cup {Set(V("l"), <<"slice", V("l"), e, Length(V("l"))>>) : e \in {Lit(0), V("z"), V("x")}} \cup {Set(At0(V("a"), Bin("-", Length(V("l")), e)), V("z")) : e \in {<<"as", Lit(1), Usize>>, <<"as", V("z"), Usize>>}}]

\* A const struct with a struct and an array in it.
Layers ==
  [first |-> Base \o <<Decl("d", Const(Outer), Make(Outer, <<Make(InnerS, <<Byte(1)>>), Make(Arr(I32, 2), <<Lit(1), Lit(2)>>), Nil>>))>>,
   then |-> {Set(Dot(V("d"), "i"), Make(InnerS, <<V("x")>>)), Set(Dot(Dot(V("d"), "i"), "a"), Byte(0)), Set(At0(Dot(V("d"), "n"), V("z")), V("z"))}]

MCLayered == [layers |-> Layers]
MCPrograms == [numbers |-> Numbers, parted |-> Parted, aliased |-> Aliased, guarded |-> Guarded, operators |-> Operators,
               magic |-> Magic, measured |-> Measured]
=============================================================================
