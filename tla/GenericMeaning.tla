--------------------------- MODULE GenericMeaning ---------------------------
(***************************************************************************)
(* What a program with generics means, as docs/whitepaper/06-generics.md   *)
(* and 08-modules.md say it: a name in a definition is a parameter of it,  *)
(* a primitive type or a definition of its own module, `m::g` a generic    *)
(* that m exports or forwards, and an instance is a generic with the       *)
(* meaning of its arguments; a call without them has those that make it    *)
(* fit (6.7).  There are no caches, queues or contexts here.                *)
(***************************************************************************)
EXTENDS Generics

\* The meaning of a type: an instance is a generic with the meaning of its
\* arguments, a constant a number of its type.
Nothing == <<"bad">>

Wrapped(type, n) ==
  LET size == 2^Bits[type] IN
  IF type \in {"u8", "u16", "u32", "u64", "usize"} THEN n % size
  ELSE ((n + size \div 2) % size) - size \div 2

Constant(type, n) ==
  <<"val", type, IF type # "bool" THEN Wrapped(type, n) ELSE IF n = 0 THEN 0 ELSE 1>>

\* A chain of definitions longer than this has no end.
Fuel == 2 * MaxDepth + 4

RECURSIVE Means(_)
Means(t) ==
  CASE t[1] = "inst" -> <<"inst", insts[t[2]].def,
                          [i \in DOMAIN insts[t[2]].args |-> Means(insts[t[2]].args[i])]>>
    [] t[1] = "val"  -> Constant(t[2].type, RawBits(t[2]))
    [] t[1] \in Wrappers -> <<t[1], Means(t[2])>>
    [] t[1] = "array"    -> <<"array", t[2], Means(t[3])>>
    [] t[1] \in {"tuple", "func"} -> <<t[1], [i \in DOMAIN t[2] |-> Means(t[2][i])]>>
    [] OTHER -> t

TypeMeant(v) == IF v[1] = "val" THEN <<"prim", v[2]>> ELSE v

\* env: the definition whose parameters are bound and the arguments, or 0.
ParamsOf(env) == IF env.def = 0 THEN {} ELSE
  {i \in 1..FixedCount(env.def) : i <= Len(env.args)}

PackIn(env) == SubSeq(env.args, FixedCount(env.def) + 1, Len(env.args))

\* A pack of types is used through the arguments that have them.
IsPack(env, name) ==
  /\ env.def # 0 /\ HasPack(env.def)
  /\ LET p == Last(prog.defs[env.def].params) IN
       name = IF p.val = "" THEN prog.defs[env.def].rest ELSE p.name

Good(d, args) ==
  /\ PackIsLast(d)
  /\ IF HasPack(d) THEN Len(args) >= FixedCount(d) ELSE Len(args) = FixedCount(d)
  /\ \A i \in 1..Len(args) :
       /\ (ParamAt(d, i).val # "") <=> args[i][1] = "val"
       /\ i <= FixedCount(d) /\ ParamAt(d, i).ptr => args[i][1] = "ptr"
       /\ args[i] # Nothing

\* An argument in brackets has the type its parameter declares.
Given(d, args) ==
  [i \in DOMAIN args |->
     IF Declares(d, i) /\ ParamAt(d, i).val # "" /\ args[i][1] = "val"
     THEN Constant(ParamAt(d, i).val, args[i][3]) ELSE args[i]]

(***************************************************************************)
(* Inference: every parameter has the one argument that what is written    *)
(* and what is passed say, in whichever order they are looked at.          *)
(***************************************************************************)
RECURSIVE Unqualified(_)
Unqualified(t) == IF t[1] \in {"const", "volatile"} THEN Unqualified(t[2]) ELSE t

\* The generic of a pattern is the one its definition means.
RECURSIVE Says(_, _, _)
Says(m, pat, t) ==
  CASE pat[1] = "hole" -> {<<pat[2], t>>}
    [] pat[1] \in {"const", "volatile"} -> Says(m, pat[2], Unqualified(t))
    [] pat[1] = "option" -> Says(m, pat[2], IF t[1] = "option" THEN t[2] ELSE t)
    [] pat[1] \in {"ptr", "slice"} /\ t[1] = pat[1] -> Says(m, pat[2], t[2])
    [] pat[1] = "array" /\ t[1] = "array" ->
         Says(m, pat[2], <<"length", t[2]>>) \cup Says(m, pat[3], t[3])
    [] pat[1] \in {"tuple", "func"} /\ t[1] = pat[1] /\ Len(pat[2]) = Len(t[2]) ->
         UNION {Says(m, pat[2][i], t[2][i]) : i \in DOMAIN pat[2]}
    [] pat[1] = "of" /\ Unqualified(t)[1] = "inst" /\ Unqualified(t)[2] = Declared(m, pat[2]) ->
         UNION {Says(m, pat[3][i], Unqualified(t)[3][i]) : i \in DOMAIN pat[3]}
    [] OTHER -> {}

\* A number of another type is taken over; a type says nothing of a value.
Fitting(d, i, x) ==
  IF ParamAt(d, i).val = "" THEN IF x[1] \in {"val", "length"} THEN {} ELSE {x}
  ELSE IF x[1] = "length" THEN {Constant(ParamAt(d, i).val, x[2])}
  ELSE IF x[1] = "val" THEN {Constant(ParamAt(d, i).val, x[3])} ELSE {}

Said(d, written, passed, i) ==
  (IF i <= Len(written) THEN {written[i]} ELSE {})
    \cup UNION {Fitting(d, i, f[2]) : f \in
           {f \in UNION {Says(prog.defs[d].mod, Patterns(d, prog.defs[d].own[j], <<>>)[1], passed[j])
                           : j \in 1..prog.defs[d].takes} : f[1] = i}}

\* An item leaves its value and what it asked for.
RECURSIVE Run(_, _, _, _, _), NameMeans(_, _, _, _), Applied(_, _, _), Solved(_, _, _, _, _, _)

Begin == [vals |-> <<>>, syms |-> <<>>, asks |-> {}, bad |-> FALSE]

NameMeans(name, m, env, fuel) ==
  LET own == {i \in ParamsOf(env) : prog.defs[env.def].params[i].name = name}
      def == {i \in DOMAIN prog.tops[m] : prog.tops[m][i].name = name}
  IN IF own # {} THEN env.args[Pick(own)]
     ELSE IF name \in Prims THEN <<"prim", name>>
     ELSE IF \E i \in DOMAIN prog.structs[m] : prog.structs[m][i] = name
          THEN <<"struct", name, CHOOSE i \in DOMAIN prog.order : prog.order[i] = m>>
     ELSE IF def = {} \/ fuel = 0 THEN Nothing
     ELSE Run(prog.tops[m][Pick(def)].rhs, m, [def |-> 0, args |-> <<>>], Begin, fuel - 1).vals[1]

\* The arguments from the i-th on; a default sees those before it.
Solved(d, written, passed, i, done, fuel) ==
  LET said == Said(d, written, passed, i)
      w    == prog.defs[d].params[i].default
      one  == IF said # {} THEN CHOOSE x \in said : TRUE
              ELSE IF w = <<>> THEN Nothing
              ELSE IF w[1].op = "value" THEN Constant(ParamAt(d, i).val, w[1].n)
              ELSE NameMeans(w[1].name, prog.defs[d].mod, [def |-> d, args |-> done], fuel)
  IN IF i > FixedCount(d)
     THEN LET rest == SubSeq(passed, prog.defs[d].takes + 1, Len(passed))
              more == SubSeq(written, i, Len(written))
          IN IF more \in {<<>>, rest} THEN done \o rest ELSE <<Nothing>>
     ELSE Solved(d, written, passed, i + 1,
                 Append(done, IF Cardinality(said) > 1 THEN Nothing ELSE one), fuel)

\* An alias stands for its right side.
Applied(d, args, fuel) ==
  IF ~ Good(d, args) \/ fuel = 0 THEN Nothing
  ELSE IF prog.defs[d].kind = "alias"
       THEN Run(prog.defs[d].own[1], prog.defs[d].mod, [def |-> d, args |-> args],
                Begin, fuel - 1).vals[1]
       ELSE <<IF IsFunc(d) THEN "fn" ELSE "inst", d, args>>

Run(item, m, env, st, fuel) ==
  IF item = <<>> \/ st.bad THEN [st EXCEPT !.vals = IF st.bad THEN <<Nothing>> ELSE @] ELSE
  LET i    == Head(item)
      n    == IF i.op \in {"tuple", "func"} THEN i.n ELSE 1
      rest == SubSeq(st.vals, 1, Len(st.vals) - n)
      subs == SubSeq(st.vals, Len(st.vals) - n + 1, Len(st.vals))
      d    == IF i.via = "" THEN Declared(m, i.name) ELSE CrossFind(i.via, i.name)
      put(vals) == [st EXCEPT !.vals = vals, !.bad = \E k \in DOMAIN vals : vals[k] = Nothing]
      next ==
        CASE i.op = "name"  -> put(Append(st.vals, NameMeans(i.name, m, env, fuel)))
          [] i.op = "value" -> put(Append(st.vals, Constant(i.name, i.n)))
          [] i.op = "wrap"  -> put(Append(rest, <<i.name, subs[1]>>))
          [] i.op = "array" -> put(Append(rest, <<"array", IF i.name = "" THEN i.n
                                                  ELSE NameMeans(i.name, m, env, fuel)[3], subs[1]>>))
          [] i.op \in {"tuple", "func"} -> put(Append(rest, <<i.op, subs>>))
          [] i.op \in {"elem", "pack", "spread"} /\ ~ IsPack(env, i.name) -> put(<<Nothing>>)
          [] i.op = "elem"  -> put(Append(st.vals, IF i.n < Len(PackIn(env)) THEN PackIn(env)[i.n + 1]
                                                   ELSE Nothing))
          [] i.op = "pack"  -> put(Append(st.vals,
                                 <<"tuple", [k \in DOMAIN PackIn(env) |-> TypeMeant(PackIn(env)[k])]>>))
          [] i.op = "spread" -> put(st.vals \o PackIn(env))
          [] i.op = "open"  -> [st EXCEPT !.bad = (d = 0), !.syms =
                                  Append(@, [def |-> d, base |-> Len(st.vals), cut |-> Len(st.vals)])]
          [] i.op = "with"  -> [st EXCEPT !.syms[Len(st.syms)].cut = Len(st.vals)]
          [] i.op = "eval"  -> st
          [] OTHER ->
               LET f       == Last(st.syms)
                   cut     == IF i.op = "call" THEN f.cut ELSE Len(st.vals)
                   written == Given(f.def, SubSeq(st.vals, f.base + 1, cut))
                   passed  == [k \in 1..(Len(st.vals) - cut) |-> TypeMeant(st.vals[cut + k])]
                   args    == IF i.op = "inst" \/ Complete(f.def, written, passed) THEN written
                              ELSE Solved(f.def, written, passed, 1, <<>>, fuel)
                   v       == Applied(f.def, args, fuel)
               IN [st EXCEPT !.vals = Append(SubSeq(st.vals, 1, f.base), v), !.syms = Front(@),
                             !.asks = IF Good(f.def, args) THEN @ \cup {<<f.def, args>>} ELSE @,
                             !.bad = (v = Nothing)]
  IN Run(Tail(item), m, env, next, fuel)

Ran(item, m, env) ==
  Run(item, m, env, Begin, Fuel)

NoEnv == [def |-> 0, args |-> <<>>]

\* Everything the program says outside its generics, and inside an instance.
Outside ==
  UNION {{Ran(prog.tops[m][i].rhs, m, NoEnv) : i \in DOMAIN prog.tops[m]} : m \in Mod}
    \cup UNION {UNION {{Ran(prog.roots[m][i][j], m, NoEnv) : j \in DOMAIN prog.roots[m][i]}
                         : i \in DOMAIN prog.roots[m]} : m \in Mod}

InsideOf(r) ==
  LET d == prog.defs[r[1]]
      items == d.own \o d.body \o d.decor
  IN {Ran(items[j], d.mod, [def |-> r[1], args |-> r[2]]) : j \in DOMAIN items}

Asks(runs) == UNION {x.asks : x \in runs}

\* The requests that follow from these in at most n more steps.
RECURSIVE Closure(_, _)
Closure(reqs, n) ==
  LET more == UNION {Asks(InsideOf(r)) : r \in reqs} IN
  IF n = 0 \/ more \subseteq reqs THEN reqs ELSE Closure(reqs \cup more, n - 1)

Meant == Closure(Asks(Outside), MaxDepth + 1)

BadRequest ==
  \/ \E x \in Outside : x.bad
  \/ \E r \in Meant : \E x \in InsideOf(r) : x.bad

\* A request from inside a chain of n others, no two of them the same.
RECURSIVE Chain(_, _, _)
Chain(reqs, seen, n) ==
  reqs # {} /\ (n = 0 \/ \E r \in reqs \ seen : Chain(Asks(InsideOf(r)), seen \cup {r}, n - 1))

\* What is accepted means something, and its instances are those it means: for
\* each generic that is asked for, each combination of arguments, and no other
\* (06-generics.md:109).
InstancesExact ==
  phase = "accepted" =>
    /\ ~ BadRequest
    /\ {<<insts[k].def, [i \in DOMAIN insts[k].args |-> Means(insts[k].args[i])]>>
          : k \in DOMAIN insts} = Meant

\* A program is rejected for a request that is bad, or for one that is deeper
\* than the limit: never for the order in which the requests come.
FailsForAReason ==
  phase = "rejected" => BadRequest \/ Chain(Asks(Outside), {}, MaxDepth)
=============================================================================
