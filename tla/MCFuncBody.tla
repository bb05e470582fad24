----------------------------- MODULE MCFuncBody -----------------------------
(* Small function bodies for TLC: an optional first statement, one compound *)
(* statement over short blocks, an optional last statement.                 *)
EXTENDS FuncBody

Plain(op) == Node(op)
Reading_(op) == [Node(op) EXCEPT !.reads = TRUE]
Defer(n) == [Node("defer") EXCEPT !.id = n]
With(op, cond, subs) == [Node(op) EXCEPT !.reads = cond, !.subs = subs]

Leaf == {Plain("set"), Reading_("use"), Plain("ret"), Reading_("ret"), Plain("panic"), Defer(2)}
Brk == Plain("brk")
Cont == Plain("cont")

\* Blocks of at most two statements over the leaves ls, the first one
\* possibly under an `if`.  No defer follows that `if`: a jump in it would
\* call the defer before it was reached.
Short(ls) == {<<>>} \cup {<<a>> : a \in ls}
Bodied(ls) ==
  Short(ls) \cup {<<a, b>> : a \in ls, b \in ls}
            \cup {<<With("if", FALSE, <<<<a>>, <<>>>>), b>> : a \in ls, b \in ls \ {Defer(2)}}

Ifs(ls) == {With("if", c, <<t, e>>) : c \in BOOLEAN, t \in Bodied(ls), e \in Short(ls)}
Switches(ls) ==
  {[With("switch", FALSE, <<a, b>>) EXCEPT !.dflt = d] :
     a \in Bodied(ls), b \in Short(ls), d \in BOOLEAN}
Nests(ls) == {With("block", FALSE, <<b>>) : b \in Bodied(ls)}
Whiles(ls) == {With("while", c, <<b>>) : c \in BOOLEAN, b \in Bodied(ls)}
DoWhiles(ls) == {With("dowhile", c, <<b>>) : c \in BOOLEAN, b \in Bodied(ls)}
Fors(ls) ==
  {[With("for", c, <<b>>) EXCEPT !.init = i, !.update = u] :
     c \in BOOLEAN, b \in Bodied(ls), i \in {<<>>, <<Plain("set")>>},
     u \in {<<>>, <<Reading_("use")>>, <<Plain("set")>>}}

Bodies(pre, mid, post) == {p \o <<m>> \o q : p \in pre, m \in mid, q \in post}
Pre == {<<>>, <<Plain("set")>>}
Post == {<<>>, <<Reading_("use")>>, <<Plain("ret")>>}

\* A `continue` leaves only `while` bodies; a jump that leaves a loop finds no
\* defer outside it.
Locals ==
  [kind : {"var"}, value : BOOLEAN,
   body : Bodies(Pre \cup {<<Defer(1)>>},
                 Ifs(Leaf) \cup Switches(Leaf) \cup Nests(Leaf) \cup Whiles(Leaf)
                   \cup DoWhiles(Leaf) \cup Fors(Leaf), Post)
          \cup Bodies(Pre, Whiles(Leaf \cup {Brk, Cont}) \cup DoWhiles(Leaf \cup {Brk})
                             \cup Fors(Leaf \cup {Brk}), Post)]

\* `__init__` bodies without the statements init_tdz.c does not look into.
Inits ==
  [kind : {"field"}, value : {FALSE},
   body : Bodies(Pre, Ifs(Leaf) \cup Nests(Leaf) \cup Whiles(Leaf \cup {Brk, Cont}), Post)]

Checked == Locals \cup Inits

\* What the theorems about the reads of the location assume of the functions.
ASSUME CheckedAssumption == Functions = Checked => LooksBehind /\ LooksInside

\* A `continue` in a do-while.
Continuing == [kind : {"var"}, value : {FALSE}, body : Bodies({<<>>}, DoWhiles(Leaf \cup {Cont}), {<<>>})]
=============================================================================
