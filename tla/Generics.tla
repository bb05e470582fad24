------------------------------ MODULE Generics ------------------------------
(***************************************************************************)
(* Instances of generic functions and types: src/src/sema/sema_generic.c,  *)
(* with the lookup of other modules' generics (sema_cross.c), the queue of *)
(* function bodies of each module (sema.c, Pass 3b), the compile-time call *)
(* that walks a body early (ctfe_call.c) and the worklist over all modules *)
(* that follows the last one (driver.c).                                   *)
(*                                                                         *)
(* One thread walks everything, but an instantiation nests: while a body   *)
(* is walked a call asks for an instance, its signature asks for types,    *)
(* their fields for more types.  `stack` holds what is under way; what the *)
(* code keeps in fields of the analysis it saves and restores around each  *)
(* level (the depth, the module whose names are visible) is `ctx`, and the *)
(* scopes that bind type parameters are `scopes`.                          *)
(*                                                                         *)
(* What a body asks for is a sequence of items, each in postfix: "open" a  *)
(* generic, the arguments in brackets, "inst" to instantiate it; or "with" *)
(* after them, the types of what is passed, "call".  Other expressions     *)
(* play no part here; a variable stands for the type it is declared with.  *)
(***************************************************************************)
EXTENDS GenericInfer, FiniteSets

CONSTANTS
  Mod,        \* names of the modules
  Prims,      \* names of primitive types
  Programs,   \* the programs analysed
  MaxRounds,  \* speculative rounds at most: 8 in the code
  MaxDepth,   \* SEMA_GENERIC_MAX_DEPTH: 128 in the code
  MaxProxy    \* re-exports followed in a row: 16 in the code

Kind == {"func", "struct", "alias"}
Op   == {"name", "wrap", "value", "array", "tuple", "func", "elem", "pack", "spread",
         "open", "inst", "with", "call", "eval"}

\* via: the module named before `::`, or "" for a plain name.  n: how many
\* operands, the length of an array whose length is not `name`, the index of an
\* element, a number, or 1 for a call with brackets.
Instr == [op : Op, via : Mod \cup {""}, name : STRING, n : Nat]
Items == Seq(Seq(Instr))

\* A parameter takes a value of type `val`, or a type if that is ""; `extends *X`
\* wants a pointer; the last may be a pack.  A default is a name or a number.
Param == [name : STRING, val : STRING, pack : BOOLEAN, ptr : BOOLEAN, default : Seq(Instr)]

\* own: the types of a signature, of the fields of a struct, or the right side
\* of an alias.  body: what the body of a function or of a method asks for.
\* Of a function, `takes` is how many of `own` are its fixed parameters, `rest`
\* the name of its variadic one, and `decor` what its decorators ask for.
\* Unions are like structs here and enums like aliases.
Def == [mod : Mod, name : STRING, kind : Kind, exported : BOOLEAN,
        params : Seq(Param), own : Items, body : Items,
        takes : Nat, rest : STRING, decor : Items]

\* A definition `type name = rhs`.
Top == [name : STRING, rhs : Seq(Instr)]

\* order: module_order, each module behind those it imports.  structs: the types
\* of their own of each module.  roots: the bodies of its ordinary functions.
Program == [order : Seq(Mod), defs : Seq(Def), structs : [Mod -> Seq(STRING)],
            tops : [Mod -> Seq(Top)], roots : [Mod -> Seq(Items)],
            reexports : [Mod -> Seq(Mod)]]

ASSUME GenericsAssumption ==
  /\ "" \notin Mod /\ MaxRounds \in Nat \ {0} /\ MaxDepth \in Nat \ {0}
  /\ MaxProxy \in Nat /\ \A p \in Programs : p.order # <<>>

VARIABLES
  prog,      \* the program
  phase,     \* "begin", "rounds", "final", "bodies", "drain", "accepted", "rejected"
  at,        \* the place in the module order the analysis has come to
  round,     \* speculative rounds begun in this module
  pos,       \* the place in the type definitions or in the queue
  progress,  \* this round, or this pass over the modules, changed something
  named,     \* type names of the compile-time root scope, one for all modules
  ready,     \* <<m, t>>: the t-th type definition of m is evaluated
  aliases,   \* <<m, name, d>>: plain names a qualified use registered
  insts,     \* the instances, in order of creation
  sealed,    \* struct instances whose layout is complete
  shared,    \* vm->generic_types: <<name, type>>
  queue,     \* sema->funcs of each module
  stack,     \* walks and instantiations under way, the innermost last
  scopes,    \* instances whose parameters are bound, the innermost last
  ctx,       \* per module, the context of its analysis
  errs       \* the reasons of the errors in the real diagnostics

vars == <<prog, phase, at, round, pos, progress, named, ready, aliases, insts,
          sealed, shared, queue, stack, scopes, ctx, errs>>

The(S)   == CHOOSE x \in S : TRUE
Last(s)  == s[Len(s)]
Front(s) == SubSeq(s, 1, Len(s) - 1)
sema     == prog.order[at]
Defs     == DOMAIN prog.defs

\* The function a request of one is answered with.
Func(k) == <<"fn", k>>

\* module->sema is set when the analysis of the module is done.
Analysed(m) ==
  phase = "drain" \/ \E i \in 1..Len(prog.order) : i < at /\ prog.order[i] = m

AtRest(m) == [depth |-> 0, owner |-> m]

\* Diagnostics of the speculative rounds are dropped.
Reported(reason) == IF phase = "rounds" THEN errs ELSE errs \cup {reason}

(***************************************************************************)
(* Names.                                                                  *)
(***************************************************************************)
Pick(S) == IF S = {} THEN 0 ELSE CHOOSE d \in S : \A e \in S : d <= e

Declared(m, name) == Pick({d \in Defs : prog.defs[d].mod = m /\ prog.defs[d].name = name})
Exported(m, name) ==
  Pick({d \in Defs : /\ prog.defs[d].mod = m /\ prog.defs[d].name = name
                     /\ prog.defs[d].exported})

\* A module's own exports come before those it forwards, in source order.
CrossFind(m, name) ==
  LET find[k \in 0..MaxProxy] ==
        [x \in Mod |->
          IF Exported(x, name) # 0 THEN Exported(x, name)
          ELSE IF k = 0 THEN 0
          ELSE LET hits == {i \in DOMAIN prog.reexports[x] :
                              find[k - 1][prog.reexports[x][i]] # 0}
               IN IF hits = {} THEN 0
                  ELSE find[k - 1][prog.reexports[x][Pick(hits)]]]
  IN find[MaxProxy][m]

Plain(m, name) ==
  IF Declared(m, name) # 0 THEN Declared(m, name)
  ELSE Pick({d \in Defs : <<m, name, d>> \in aliases})

\* The value a name is bound to by the innermost instance that binds it, in
\* the scopes of whatever is under way.
Bindings(name) ==
  {<<i, j>> \in (1..Len(scopes)) \X (1..4) :
     LET k == insts[scopes[i]] IN
       /\ j <= Len(prog.defs[k.def].params) /\ j <= Len(k.args)
       /\ prog.defs[k.def].params[j].name = name /\ ~ prog.defs[k.def].params[j].pack}

Bound(name) ==
  LET b == CHOOSE b \in Bindings(name) : \A c \in Bindings(name) : c[1] <= b[1]
  IN insts[scopes[b[1]]].args[b[2]]

Known(name) ==
  Bindings(name) # {} \/ name \in Prims \/ \E e \in named : e[1] = name

Lookup(name) ==
  IF Bindings(name) # {} THEN Bound(name)
  ELSE IF \E e \in named : e[1] = name
       THEN (CHOOSE e \in named : e[1] = name)[2]
       ELSE <<"prim", name>>

\* scope_define refuses a name the scope has, and nobody looks at the result.
Defined(name, t) == IF \E e \in named : e[1] = name THEN named ELSE named \cup {<<name, t>>}

(***************************************************************************)
(* The name of an instance: the words that "$" separates.  A generic of    *)
(* another module has a prefix that stands for its module; a type is       *)
(* written by its display name, which does not tell the module, and an     *)
(* instance by its own words.                                              *)
(***************************************************************************)
RECURSIVE Mangled(_)

\* Mutant: what a pointer or an array is of is not written.
MangledBase(t) ==
  CASE t[1] = "inst" -> insts[t[2]].words
    [] t[1] = "val"  -> <<MangleValue(t[2])>>
    [] OTHER         -> <<t[1]>>

Mangled(t) ==
  CASE t[1] = "inst"        -> insts[t[2]].words
    [] t[1] = "val"         -> <<MangleValue(t[2])>>
    [] t[1] \in Wrappers    -> <<t[1]>> \o Mangled(t[2])
    [] t[1] = "array"       -> <<"[", ToString(t[2]), "]">> \o Mangled(t[3])
    [] t[1] \in {"tuple", "func"} ->
         <<t[1]>> \o Concat([i \in DOMAIN t[2] |-> <<",">> \o Mangled(t[2][i])]) \o <<"end">>
    [] OTHER                -> <<t[2]>>

OwnerPrefix(d) == IF prog.defs[d].mod = sema THEN <<>> ELSE <<prog.defs[d].mod>>

InstanceName(d, args) ==
  OwnerPrefix(d) \o <<prog.defs[d].name>> \o Concat([i \in 1..Len(args) |-> Mangled(args[i])])

(***************************************************************************)
(* The checks of a request, in the order of the code.                      *)
(***************************************************************************)
IsFunc(d)     == prog.defs[d].kind = "func"
HasPack(d)    == \E i \in DOMAIN prog.defs[d].params : prog.defs[d].params[i].pack
FixedCount(d) == Cardinality({i \in DOMAIN prog.defs[d].params : ~ prog.defs[d].params[i].pack})

ParamAt(d, i) == prog.defs[d].params[IF i <= FixedCount(d) THEN i ELSE FixedCount(d) + 1]

PackIsLast(d) ==
  \A i \in DOMAIN prog.defs[d].params :
    prog.defs[d].params[i].pack => i = Len(prog.defs[d].params)

\* Mutant: a pack takes no more than the parameters there are.
TakesNoPack(d, args) ==
  /\ PackIsLast(d) /\ Len(args) = FixedCount(d)
  /\ \A i \in 1..Len(args) : (ParamAt(d, i).val # "") <=> args[i][1] = "val"

Takes(d, args) ==
  /\ PackIsLast(d)
  /\ IF HasPack(d) THEN Len(args) >= FixedCount(d) ELSE Len(args) = FixedCount(d)
  /\ \A i \in 1..Len(args) : (ParamAt(d, i).val # "") <=> args[i][1] = "val"

Satisfies(d, args) ==
  \A i \in 1..FixedCount(d) : ParamAt(d, i).ptr => args[i][1] = "ptr"

(***************************************************************************)
(* The arguments in brackets, and those of a call that leaves some out.    *)
(***************************************************************************)
Declares(d, i) == i <= FixedCount(d) \/ HasPack(d)

\* A place for a value does not take a type, nor the other way round.
Reads(d, written) ==
  \A i \in DOMAIN written : Declares(d, i) =>
    IF ParamAt(d, i).val = "" THEN written[i][1] # "val"
    ELSE written[i][1] = "val" /\ Converts(written[i][2], ParamAt(d, i).val)

Read(d, written) ==
  [i \in DOMAIN written |->
     IF Declares(d, i) /\ ParamAt(d, i).val # ""
     THEN <<"val", Convert(written[i][2], ParamAt(d, i).val)>> ELSE written[i]]

\* The declared type of a parameter as a pattern.
HoleOf(d, name) ==
  Pick({i \in DOMAIN prog.defs[d].params : prog.defs[d].params[i].name = name})

Pushed(d, i, done) ==
  LET h    == HoleOf(d, i.name)
      n    == IF i.op \in {"tuple", "func", "inst"} THEN i.n ELSE 1
      rest == SubSeq(done, 1, Len(done) - n)
      subs == SubSeq(done, Len(done) - n + 1, Len(done))
  IN CASE i.op = "name"  -> Append(done, IF h # 0 THEN <<"hole", h>> ELSE <<"name", i.name>>)
       [] i.op = "value" -> Append(done, <<"num", i.n>>)
       [] i.op = "wrap"  -> Append(rest, <<i.name, subs[1]>>)
       [] i.op = "array" -> Append(rest, <<"array", IF h # 0 THEN <<"hole", h>> ELSE <<"num", i.n>>,
                                           subs[1]>>)
       [] i.op \in {"tuple", "func"} -> Append(rest, <<i.op, subs>>)
       [] i.op = "open"  -> Append(done, IF i.via = "" THEN <<"of", i.name, <<>>>> ELSE <<"far">>)
       [] OTHER -> LET g == Last(rest) IN
            Append(Front(rest), IF g[1] = "of" THEN <<"of", g[2], subs>> ELSE g)

RECURSIVE Patterns(_, _, _)
Patterns(d, item, done) ==
  IF item = <<>> THEN done
  ELSE The({Patterns(d, Tail(item), next) : next \in {Pushed(d, Head(item), done)}})

\* The generic of a pattern is looked up among the names of the module that
\* calls, and the type among the instances its own analysis has made.
MadeHere(names) ==
  {<<g, insts[e].type[1], insts[e].args>> :
     <<g, e>> \in {<<g, e>> \in names \X DOMAIN insts :
        /\ insts[e].sema = sema /\ insts[e].type # <<>> /\ ~ IsFunc(insts[e].def)
        /\ insts[e].def = Plain(ctx[sema].owner, g)}}

\* A default sees what is bound, and the defaults before it.
Defaulted(d, bound) ==
  LET got[i \in DOMAIN bound] ==
        LET p == prog.defs[d].params[i]
            w == p.default[1]
            h == HoleOf(d, w.name)
            seen == IF h \notin DOMAIN bound THEN <<>> ELSE IF h < i THEN got[h] ELSE bound[h]
        IN IF bound[i] # <<>> \/ p.default = <<>> THEN bound[i]
           ELSE IF w.op = "value" THEN <<<<"val", Convert(Literal(w.name, w.n), p.val)>>>>
           ELSE IF seen # <<>> THEN seen
           ELSE IF Known(w.name) THEN <<Lookup(w.name)>> ELSE <<>>
  IN got

No(why)  == [why |-> why, args |-> <<>>]
Yes(args) == [why |-> "", args |-> args]

\* What the brackets and the fixed parameters say.
Facts(d, written, passed) ==
  LET n    == IF prog.defs[d].takes <= Len(passed) THEN prog.defs[d].takes ELSE Len(passed)
      made == MadeHere({prog.defs[e].name : e \in Defs})
  IN Written(written)
       \o Concat([i \in 1..n |-> Match(made, Patterns(d, prog.defs[d].own[i], <<>>)[1], passed[i])])

\* What is passed behind the fixed parameters gives the types of the pack.
Decide(d, facts, more, extra) ==
  LET n     == FixedCount(d)
      vals  == [i \in 1..n |-> prog.defs[d].params[i].val]
      bound == Defaulted(d, BindFirst(facts, vals))
  IN IF more # <<>> /\ (~ HasPack(d) \/ Len(more) # Len(extra)) THEN No("arguments")
     ELSE IF Inconsistent(facts, vals) THEN No("inconsistent")
     ELSE IF \E k \in DOMAIN more : more[k] # extra[k] THEN No("inconsistent")
     ELSE IF \E i \in 1..n : bound[i] = <<>> THEN No("undecided")
     ELSE Yes([i \in 1..n |-> bound[i][1]] \o extra)

Infer(d, written, passed) ==
  The({Decide(d, facts, SubSeq(written, FixedCount(d) + 1, Len(written)),
              SubSeq(passed, prog.defs[d].takes + 1, Len(passed)))
         : facts \in {Facts(d, written, passed)}})

\* Everything is written: the types of what is passed are not looked at.
Complete(d, written, passed) ==
  LET extra == IF Len(passed) > prog.defs[d].takes THEN Len(passed) - prog.defs[d].takes ELSE 0
  IN IF ~ HasPack(d) THEN Len(written) = FixedCount(d)
     ELSE /\ Len(written) >= FixedCount(d)
          /\ Last(prog.defs[d].params).val # "" \/ Len(written) = FixedCount(d) + extra

\* The arguments of the instance a call asks for.
Arguments(d, brackets, written, passed) ==
  IF ~ Reads(d, written) THEN No("arguments")
  ELSE IF HasPack(d) /\ Last(prog.defs[d].params).val # "" /\ ~ brackets THEN No("undecided")
  ELSE IF Complete(d, written, passed) THEN Yes(Read(d, written))
  ELSE Infer(d, Read(d, written), passed)

(***************************************************************************)
(* The pack of the innermost instance, by the name of the variadic         *)
(* parameter or, when it is one of values, by its own.                     *)
(***************************************************************************)
Packs(name) ==
  /\ scopes # <<>> /\ HasPack(insts[Last(scopes)].def)
  /\ LET def == prog.defs[insts[Last(scopes)].def] IN
       name = IF Last(def.params).val = "" THEN def.rest ELSE Last(def.params).name

PackNow ==
  LET k == insts[Last(scopes)] IN SubSeq(k.args, FixedCount(k.def) + 1, Len(k.args))

TypePack == Last(prog.defs[insts[Last(scopes)].def].params).val = ""

\* An element of a pack of values becomes a literal of its type.
PackElem(i) ==
  LET e == PackNow[i] IN
  IF e[1] = "val" /\ e[2].type # "bool" THEN <<"val", Encode(e[2].type, RawBits(e[2]))>> ELSE e

TypeOf(v) == IF v[1] = "val" THEN <<"prim", v[2].type>> ELSE v

PackTuple == <<"tuple", [k \in DOMAIN PackNow |-> TypeOf(PackElem(k))]>>

(***************************************************************************)
(* Frames.  A frame works through its items; `vals` are the results of the *)
(* current item and `syms` the generics it has open.  `back` is the        *)
(* context it restores, `ok` that none of its items failed.                *)
(***************************************************************************)
Frame(kind, id, items) ==
  [kind |-> kind, id |-> id, items |-> items, vals |-> <<>>, syms |-> <<>>,
   ok |-> TRUE, back |-> ctx[sema]]

top    == Last(stack)
Instrs == top.items[1]
Due(op) == stack # <<>> /\ top.items # <<>> /\ Instrs # <<>> /\ Instrs[1].op = op
Ended(kinds) ==
  /\ stack # <<>> /\ top.kind \in kinds
  /\ top.items = <<>> \/ (Len(top.items) = 1 /\ Instrs = <<>>)

Replaced(s, f) == [s EXCEPT ![Len(s)] = f]
Go(f) == stack' = Replaced(stack, f)

\* The frame goes on behind its first instruction, with these results.
Gone(f, vals) == [f EXCEPT !.items[1] = Tail(@), !.vals = vals]

\* The result of a request takes the place of its arguments.
Answered(f, v) ==
  [Gone(f, SubSeq(f.vals, 1, Last(f.syms).base) \o <<v>>) EXCEPT !.syms = Front(@)]

\* An item that fails is given up; the frame goes on with the next.
Failed(f) == [f EXCEPT !.items[1] = <<>>, !.vals = <<>>, !.syms = <<>>, !.ok = FALSE]

fixed == <<prog, at, round>>

NextItem ==
  /\ stack # <<>> /\ Len(top.items) > 1 /\ Instrs = <<>>
  /\ Go([top EXCEPT !.items = Tail(@), !.vals = <<>>])
  /\ UNCHANGED <<fixed, phase, pos, progress, named, ready, aliases, insts, sealed,
                 shared, queue, scopes, ctx, errs>>

\* What the instruction puts in place of its operands, or <<>>.
Result(i, vals) ==
  LET n    == IF i.op \in {"tuple", "func"} THEN i.n ELSE 1
      rest == SubSeq(vals, 1, Len(vals) - n)
      subs == SubSeq(vals, Len(vals) - n + 1, Len(vals))
      size == IF i.name = "" THEN i.n ELSE RawBits(Lookup(i.name)[2])
  IN CASE i.op = "name"  -> IF Known(i.name) THEN <<Append(vals, Lookup(i.name))>> ELSE <<>>
       [] i.op = "value" -> <<Append(vals, <<"val", Literal(i.name, i.n)>>)>>
       [] i.op = "wrap"  -> <<Append(rest, <<i.name, subs[1]>>)>>
       [] i.op = "array" -> IF i.name = "" \/ Known(i.name)
                            THEN <<Append(rest, <<"array", size, subs[1]>>)>> ELSE <<>>
       [] i.op \in {"tuple", "func"} -> <<Append(rest, <<i.op, subs>>)>>
       [] i.op = "elem"  -> IF Packs(i.name) /\ i.n < Len(PackNow)
                            THEN <<Append(vals, PackElem(i.n + 1))>> ELSE <<>>
       [] OTHER          -> IF Packs(i.name) THEN <<Append(vals, PackTuple)>> ELSE <<>>

Operand ==
  /\ \E op \in {"name", "wrap", "value", "array", "tuple", "func", "elem", "pack"} : Due(op)
  /\ LET got == Result(Instrs[1], top.vals) IN
     \/ got # <<>> /\ Go(Gone(top, got[1])) /\ UNCHANGED errs
     \/ got = <<>> /\ Go(Failed(top)) /\ errs' = Reported("unknown")
  /\ UNCHANGED <<fixed, phase, pos, progress, named, ready, aliases, insts, sealed,
                 shared, queue, scopes, ctx>>

\* The arguments in brackets are all there.
With ==
  /\ Due("with")
  /\ Go([Gone(top, top.vals) EXCEPT
            !.syms[Len(top.syms)] = [@ EXCEPT !.cut = Len(top.vals), !.brackets = Instrs[1].n = 1]])
  /\ UNCHANGED <<fixed, phase, pos, progress, named, ready, aliases, insts, sealed,
                 shared, queue, scopes, ctx, errs>>

\* A generic whose only parameter is a pack, called without brackets, is given
\* the types of the pack there.
Alone(s) ==
  /\ TypePack /\ ~ s.brackets
  /\ Len(prog.defs[s.def].params) = 1 /\ HasPack(s.def)

\* `...args` in a call.
Spread ==
  /\ Due("spread")
  /\ LET s     == Last(top.syms)
         elems == [k \in DOMAIN PackNow |-> PackElem(k)]
     IN IF ~ Packs(Instrs[1].name)
        THEN Go(Failed(top)) /\ errs' = Reported("unknown")
        ELSE /\ UNCHANGED errs
             /\ IF Alone(s)
                THEN Go([Gone(top, SubSeq(top.vals, 1, s.cut) \o elems
                                     \o SubSeq(top.vals, s.cut + 1, Len(top.vals)) \o elems)
                         EXCEPT !.syms[Len(top.syms)] =
                                  [@ EXCEPT !.cut = @ + Len(elems), !.brackets = TRUE]])
                ELSE Go(Gone(top, top.vals \o elems))
  /\ UNCHANGED <<fixed, phase, pos, progress, named, ready, aliases, insts, sealed,
                 shared, queue, scopes, ctx>>

\* The generic a use names, looked up in the module whose names are visible.
Open ==
  /\ Due("open")
  /\ LET m == ctx[sema].owner
         i == Instrs[1]
         d == IF i.via = "" THEN Plain(m, i.name) ELSE CrossFind(i.via, i.name)
     IN IF d = 0
        THEN Go(Failed(top)) /\ errs' = Reported("unknown") /\ UNCHANGED aliases
        ELSE /\ Go([Gone(top, top.vals) EXCEPT !.syms =
                     Append(@, [def |-> d, base |-> Len(top.vals), cut |-> Len(top.vals),
                                brackets |-> FALSE])])
             /\ aliases' = IF i.via # "" /\ Plain(m, i.name) = 0
                           THEN aliases \cup {<<m, i.name, d>>} ELSE aliases
             /\ UNCHANGED errs
  /\ UNCHANGED <<fixed, phase, pos, progress, named, ready, insts, sealed, shared,
                 queue, scopes, ctx>>

(***************************************************************************)
(* A request for an instance.                                              *)
(***************************************************************************)
\* Each analysis has a cache of its own.  A type is found by what it is made of
\* as well, when it has one yet.
Cached(d, args) ==
  {e \in DOMAIN insts :
     /\ insts[e].sema = sema
     /\ \/ insts[e].words = InstanceName(d, args)
        \/ ~ IsFunc(d) /\ insts[e].def = d /\ insts[e].args = args /\ insts[e].type # <<>>}

Sharing(d, args) ==
  IF IsFunc(d) THEN {} ELSE {e \in shared : e[1] = InstanceName(d, args)}

Passes(d, args) ==
  Takes(d, args) /\ ctx[sema].depth < MaxDepth /\ Satisfies(d, args)

Refuse(d, args) ==
  /\ ~ Passes(d, args)
  /\ errs' = Reported(IF ~ Takes(d, args) THEN "arguments"
                      ELSE IF ctx[sema].depth >= MaxDepth THEN "depth" ELSE "constraint")
  /\ Go(Failed(top))
  /\ UNCHANGED <<insts, queue, scopes, ctx>>

\* The table of all modules is asked for a type before the cache is.  A function
\* is answered by its signature, which a call of it from its own signature does
\* not find yet; a type by the object it has so far.
Reuse(d, args) ==
  /\ Passes(d, args)
  /\ \/ \E e \in Sharing(d, args) : Go(Answered(top, e[2])) /\ UNCHANGED errs
     \/ /\ Sharing(d, args) = {} /\ Cached(d, args) # {}
        /\ LET e == Pick(Cached(d, args)) IN
           \/ /\ IsFunc(d) /\ insts[e].sig
              /\ Go(Answered(top, Func(e))) /\ UNCHANGED errs
           \/ /\ IsFunc(d) /\ ~ insts[e].sig
              /\ Go(Failed(top)) /\ UNCHANGED errs
           \/ /\ ~ IsFunc(d) /\ insts[e].type # <<>>
              /\ Go(Answered(top, insts[e].type[1])) /\ UNCHANGED errs
           \/ /\ ~ IsFunc(d) /\ insts[e].type = <<>>
              /\ Go(Failed(top)) /\ errs' = Reported("recursive")
  /\ UNCHANGED <<insts, queue, scopes, ctx>>

Entry(k, items, scope) ==
  [inst |-> k, items |-> items, scope |-> scope, walked |-> FALSE, walks |-> 0]

\* The body of a function with decorators calls them, and the last of those
\* calls is of the function as it is written.
Wrapper(d) == IF prog.defs[d].decor = <<>> THEN prog.defs[d].body ELSE prog.defs[d].decor

\* The body of a function instance is queued where the function is defined, when
\* that module is analysed.  The open object of a struct is there before its
\* fields are.
Create(d, args) ==
  /\ Passes(d, args) /\ Sharing(d, args) = {} /\ Cached(d, args) = {}
  /\ LET k     == Len(insts) + 1
         home  == prog.defs[d].mod
         owner == IF Analysed(home) THEN home ELSE ""
         to    == IF Analysed(home) THEN home ELSE sema
     IN /\ insts' = Append(insts,
             [sema |-> sema, def |-> d, args |-> args, words |-> InstanceName(d, args),
              owner |-> owner, depth |-> ctx[sema].depth + 1, sig |-> FALSE,
              type |-> IF prog.defs[d].kind = "struct" THEN <<<<"inst", k>>>> ELSE <<>>])
        /\ queue' = IF IsFunc(d)
                    THEN [queue EXCEPT ![to] =
                            Append(@, Entry(k, Wrapper(d), FALSE))]
                    ELSE queue
        /\ stack' = Append(stack, Frame(prog.defs[d].kind, k, prog.defs[d].own))
        /\ scopes' = Append(scopes, k)
        /\ ctx' = [ctx EXCEPT ![sema] =
                     [depth |-> @.depth + 1, owner |-> IF owner = "" THEN @.owner ELSE owner]]
  /\ UNCHANGED errs

\* A request names its arguments, or leaves them to what is passed.
Instantiate ==
  /\ Due("inst") \/ Due("call")
  /\ LET s       == Last(top.syms)
         cut     == IF Due("call") THEN s.cut ELSE Len(top.vals)
     IN \E written \in {SubSeq(top.vals, s.base + 1, cut)},
            passed \in {[i \in 1..(Len(top.vals) - cut) |-> TypeOf(top.vals[cut + i])]} :
        \E got \in {IF Due("call") THEN Arguments(s.def, s.brackets, written, passed)
                    ELSE IF Reads(s.def, written) THEN Yes(Read(s.def, written)) ELSE No("arguments")} :
        \/ /\ got.why # ""
           /\ Go(Failed(top)) /\ errs' = Reported(got.why)
           /\ UNCHANGED <<insts, queue, scopes, ctx>>
        \/ /\ got.why = ""
           /\ Refuse(s.def, got.args) \/ Reuse(s.def, got.args) \/ Create(s.def, got.args)
  /\ UNCHANGED <<fixed, phase, pos, progress, named, ready, aliases, sealed, shared>>

(***************************************************************************)
(* Walking a body, from the queue of the module or from a compile-time     *)
(* call.  A function is marked as walked when its walk is over.            *)
(***************************************************************************)
\* An instance sees its own bindings and the module it belongs to.
Inside(i, back) ==
  IF i = 0 THEN back
  ELSE [depth |-> insts[i].depth, owner |-> IF insts[i].owner = "" THEN back.owner ELSE insts[i].owner]

Walk(s, j) ==
  LET e == queue[sema][j] IN
    /\ stack' = Append(s, Frame("walk", j, e.items))
    /\ scopes' = IF e.inst = 0 THEN scopes ELSE Append(scopes, e.inst)
    /\ ctx' = [ctx EXCEPT ![sema] = Inside(e.inst, @)]

\* The call knows the functions of the module under analysis only.
Eval ==
  /\ Due("eval")
  /\ LET found == {j \in DOMAIN queue[sema] :
                     queue[sema][j].inst = Last(top.vals)[2] /\ IsFunc(insts[Last(top.vals)[2]].def)}
         on    == Gone(top, top.vals)
     IN \/ /\ found = {}
           /\ Go(Failed(top)) /\ errs' = Reported("unknown") /\ UNCHANGED <<scopes, ctx>>
        \/ /\ found # {} /\ queue[sema][Pick(found)].walked
           /\ Go(on) /\ UNCHANGED <<scopes, ctx, errs>>
        \/ /\ found # {} /\ ~ queue[sema][Pick(found)].walked
           /\ Walk(Replaced(stack, on), Pick(found)) /\ UNCHANGED errs
  /\ UNCHANGED <<fixed, phase, pos, progress, named, ready, aliases, insts, sealed,
                 shared, queue>>

(***************************************************************************)
(* The end of a frame.                                                     *)
(***************************************************************************)
Back == ctx' = [ctx EXCEPT ![sema] = top.back]

\* What waits for the instance goes on with its value, or gives its item up.
Return(ok, v) ==
  LET s == Front(stack) IN
  stack' = Replaced(s, IF ok THEN Answered(Last(s), v) ELSE Failed(Last(s)))

\* A signature, and the tree of the body's scopes.  What is queued for a function
\* with decorators is the wrapper that calls them; its own body follows.
EndFunc ==
  /\ Ended({"func"})
  /\ LET k   == top.id
         def == prog.defs[insts[k].def]
         to  == IF insts[k].owner = "" THEN sema ELSE insts[k].owner
         j   == CHOOSE j \in DOMAIN queue[to] : queue[to][j].inst = k
         src == IF def.decor = <<>> THEN <<>> ELSE <<Entry(k, def.body, TRUE)>>
     IN IF top.ok
        THEN /\ insts' = [insts EXCEPT ![k].sig = TRUE]
             /\ queue' = [queue EXCEPT ![to] = [@ EXCEPT ![j].scope = TRUE] \o src]
        ELSE UNCHANGED <<insts, queue>>
  /\ errs' = IF top.ok THEN errs ELSE Reported("signature")
  /\ Return(top.ok, Func(top.id))
  /\ scopes' = Front(scopes) /\ Back
  /\ UNCHANGED <<fixed, phase, pos, progress, named, ready, aliases, sealed, shared>>

EndAlias ==
  /\ Ended({"alias"})
  /\ LET k == top.id
         t == Last(top.vals)
     IN IF top.ok
        THEN /\ insts' = [insts EXCEPT ![k].type = <<t>>]
             /\ shared' = shared \cup {<<insts[k].words, t>>}
             /\ Return(TRUE, t)
        ELSE Return(FALSE, <<"prim", "">>) /\ UNCHANGED <<insts, shared>>
  /\ scopes' = Front(scopes) /\ Back
  /\ UNCHANGED <<fixed, phase, pos, progress, named, ready, aliases, sealed, queue, errs>>

\* Mutant: the early return of a struct that fails keeps its bindings.
EndStructLeaks ==
  /\ Ended({"struct"})
  /\ LET k    == top.id
         t    == <<"inst", k>>
         body == prog.defs[insts[k].def].body
     IN IF top.ok
        THEN /\ sealed' = sealed \cup {k}
             /\ shared' = shared \cup {<<insts[k].words, t>>}
             /\ queue' = IF body = <<>> THEN queue
                         ELSE [queue EXCEPT ![sema] = Append(@, Entry(k, body, TRUE))]
             /\ Return(TRUE, t)
        ELSE Return(FALSE, t) /\ UNCHANGED <<sealed, shared, queue>>
  /\ errs' = IF top.ok THEN errs ELSE Reported("field")
  /\ scopes' = (IF top.ok THEN Front(scopes) ELSE scopes) /\ Back
  /\ UNCHANGED <<fixed, phase, pos, progress, named, ready, aliases, insts>>

\* The methods of a struct are queued in the module that asked for it.
EndStruct ==
  /\ Ended({"struct"})
  /\ LET k    == top.id
         t    == <<"inst", k>>
         body == prog.defs[insts[k].def].body
     IN IF top.ok
        THEN /\ sealed' = sealed \cup {k}
             /\ shared' = shared \cup {<<insts[k].words, t>>}
             /\ queue' = IF body = <<>> THEN queue
                         ELSE [queue EXCEPT ![sema] = Append(@, Entry(k, body, TRUE))]
             /\ Return(TRUE, t)
        ELSE Return(FALSE, t) /\ UNCHANGED <<sealed, shared, queue>>
  /\ errs' = IF top.ok THEN errs ELSE Reported("field")
  /\ scopes' = Front(scopes) /\ Back
  /\ UNCHANGED <<fixed, phase, pos, progress, named, ready, aliases, insts>>

EndWalk ==
  /\ Ended({"walk"})
  /\ LET e == queue[sema][top.id] IN
       /\ queue' = [queue EXCEPT ![sema][top.id] = [@ EXCEPT !.walked = TRUE, !.walks = @ + 1]]
       /\ scopes' = IF e.inst = 0 THEN scopes ELSE Front(scopes)
  /\ stack' = Front(stack) /\ Back
  /\ UNCHANGED <<fixed, phase, pos, progress, named, ready, aliases, insts, sealed, shared, errs>>

EndTop ==
  /\ Ended({"top"})
  /\ IF top.ok
     THEN /\ ready' = ready \cup {<<sema, top.id>>} /\ progress' = TRUE
          /\ named' = Defined(prog.tops[sema][top.id].name, Last(top.vals))
          /\ UNCHANGED errs
     ELSE errs' = Reported("definition") /\ UNCHANGED <<ready, progress, named>>
  /\ stack' = Front(stack)
  /\ UNCHANGED <<fixed, phase, pos, aliases, insts, sealed, shared, queue, scopes, ctx>>

(***************************************************************************)
(* The passes of a module, and the worklist over all of them.              *)
(***************************************************************************)
Idle(phases) == stack = <<>> /\ phase \in phases

\* The types of their own have their names before anything is evaluated.
Materialise ==
  /\ Idle({"begin"})
  /\ LET own == prog.structs[sema]
         def[i \in 0..Len(own)] ==
           IF i = 0 \/ \E e \in named : e[1] = own[i] THEN {}
           ELSE {<<own[i], <<"struct", own[i], at>>>>}
     IN named' = named \cup UNION {def[i] : i \in 1..Len(own)}
  /\ phase' = "rounds" /\ round' = 1 /\ pos' = 1 /\ progress' = FALSE
  /\ UNCHANGED <<prog, at, ready, aliases, insts, sealed, shared, queue, stack, scopes, ctx, errs>>

EvalTop ==
  /\ Idle({"rounds", "final"}) /\ pos <= Len(prog.tops[sema])
  /\ stack' = IF <<sema, pos>> \in ready THEN stack
              ELSE <<Frame("top", pos, <<prog.tops[sema][pos].rhs>>)>>
  /\ pos' = pos + 1
  /\ UNCHANGED <<fixed, phase, progress, named, ready, aliases, insts, sealed, shared,
                 queue, scopes, ctx, errs>>

EndRound ==
  /\ Idle({"rounds"}) /\ pos > Len(prog.tops[sema])
  /\ \/ /\ progress /\ round < MaxRounds
        /\ round' = round + 1 /\ UNCHANGED phase
     \/ /\ ~ (progress /\ round < MaxRounds)
        /\ phase' = "final" /\ UNCHANGED round
  /\ pos' = 1 /\ progress' = FALSE
  /\ UNCHANGED <<prog, at, named, ready, aliases, insts, sealed, shared, queue, stack,
                 scopes, ctx, errs>>

EndFinal ==
  /\ Idle({"final"}) /\ pos > Len(prog.tops[sema])
  /\ phase' = IF errs = {} THEN "bodies" ELSE "rejected"
  /\ pos' = 1
  /\ UNCHANGED <<fixed, progress, named, ready, aliases, insts, sealed, shared, queue,
                 stack, scopes, ctx, errs>>

\* An instance whose signature failed has no tree of scopes and is only marked;
\* the drain looks at instances alone, and counts the ones it walks.
WalkNext ==
  /\ Idle({"bodies", "drain"}) /\ pos <= Len(queue[sema])
  /\ LET e == queue[sema][pos] IN
     \/ /\ e.walked \/ (phase = "drain" /\ e.inst = 0)
        /\ UNCHANGED <<queue, stack, scopes, ctx, progress>>
     \/ /\ ~ e.walked /\ e.inst # 0 /\ ~ e.scope
        /\ queue' = [queue EXCEPT ![sema][pos].walked = TRUE]
        /\ UNCHANGED <<stack, scopes, ctx, progress>>
     \/ /\ ~ e.walked /\ e.scope /\ (phase = "drain" => e.inst # 0)
        /\ Walk(stack, pos) /\ progress' = (phase = "drain" \/ progress)
        /\ UNCHANGED queue
  /\ pos' = pos + 1
  /\ UNCHANGED <<fixed, phase, named, ready, aliases, insts, sealed, shared, errs>>

\* The next module, or the drain from the first one on.
EndBodies ==
  /\ Idle({"bodies"}) /\ pos > Len(queue[sema])
  /\ phase' = IF errs # {} THEN "rejected" ELSE IF at < Len(prog.order) THEN "begin" ELSE "drain"
  /\ at' = IF errs # {} THEN at ELSE IF at < Len(prog.order) THEN at + 1 ELSE 1
  /\ pos' = 1 /\ progress' = FALSE
  /\ UNCHANGED <<prog, round, named, ready, aliases, insts, sealed, shared, queue, stack,
                 scopes, ctx, errs>>

\* Mutant: one pass over the modules is all.
NextDrainOnce ==
  /\ Idle({"drain"}) /\ pos > Len(queue[sema])
  /\ \/ /\ at < Len(prog.order)
        /\ at' = at + 1 /\ UNCHANGED <<phase, progress>>
     \/ /\ at = Len(prog.order)
        /\ phase' = IF errs # {} THEN "rejected" ELSE "accepted"
        /\ at' = 1 /\ progress' = FALSE
  /\ pos' = 1
  /\ UNCHANGED <<prog, round, named, ready, aliases, insts, sealed, shared, queue, stack,
                 scopes, ctx, errs>>

\* Mutant: a pass that found nothing is followed by another.
NextDrainForever ==
  /\ Idle({"drain"}) /\ pos > Len(queue[sema])
  /\ \/ /\ at < Len(prog.order)
        /\ at' = at + 1 /\ UNCHANGED <<phase, progress>>
     \/ /\ at = Len(prog.order)
        /\ phase' = IF errs # {} THEN "rejected" ELSE phase
        /\ at' = 1 /\ progress' = FALSE
  /\ pos' = 1
  /\ UNCHANGED <<prog, round, named, ready, aliases, insts, sealed, shared, queue, stack,
                 scopes, ctx, errs>>

\* Draining one module adds instances to others the pass is through with.
NextDrain ==
  /\ Idle({"drain"}) /\ pos > Len(queue[sema])
  /\ \/ /\ at < Len(prog.order)
        /\ at' = at + 1 /\ UNCHANGED <<phase, progress>>
     \/ /\ at = Len(prog.order)
        /\ phase' = IF errs # {} THEN "rejected" ELSE IF progress THEN phase ELSE "accepted"
        /\ at' = 1 /\ progress' = FALSE
  /\ pos' = 1
  /\ UNCHANGED <<prog, round, named, ready, aliases, insts, sealed, shared, queue, stack,
                 scopes, ctx, errs>>

Done == phase \in {"accepted", "rejected"} /\ UNCHANGED vars

Init ==
  /\ prog \in Programs
  /\ phase = "begin" /\ at = 1 /\ round = 0 /\ pos = 1 /\ progress = FALSE
  /\ named = {} /\ ready = {} /\ aliases = {} /\ insts = <<>> /\ sealed = {}
  /\ shared = {} /\ stack = <<>> /\ scopes = <<>> /\ errs = {}
  /\ queue = [m \in Mod |-> [i \in 1..Len(prog.roots[m]) |-> Entry(0, prog.roots[m][i], TRUE)]]
  /\ ctx = [m \in Mod |-> AtRest(m)]

Next ==
  \/ NextItem \/ Operand \/ Open \/ With \/ Spread \/ Instantiate \/ Eval
  \/ EndFunc \/ EndAlias \/ EndStruct \/ EndWalk \/ EndTop
  \/ Materialise \/ EvalTop \/ EndRound \/ EndFinal
  \/ WalkNext \/ EndBodies \/ NextDrain \/ Done

\* One thread runs the analysis to its end.
Spec == Init /\ [][Next]_vars /\ WF_vars(Next)

-----------------------------------------------------------------------------
\* What is bound, and the context, are those of the frames under way, and
\* nothing is left of a frame that ended, whichever way it ended: every early
\* return of instantiate_func_impl, sema_generic_instantiate_type and of the
\* walk of an instance restores what it changed.
Binds(f) ==
  IF f.kind \in Kind THEN <<f.id>>
  ELSE IF f.kind = "walk" /\ queue[sema][f.id].inst # 0 THEN <<queue[sema][f.id].inst>>
  ELSE <<>>

Restored ==
  /\ scopes = Concat([i \in DOMAIN stack |-> Binds(stack[i])])
  /\ ctx[sema].depth = IF scopes = <<>> THEN 0 ELSE insts[Last(scopes)].depth
  /\ \A m \in Mod : m # sema \/ stack = <<>> => ctx[m] = AtRest(m)

\* No body is walked twice, and when the program is accepted every body has
\* been: those of the instances that draining one module queued in another are
\* not lost (driver.c:812).
WalkedOnce ==
  \A m \in Mod : \A j \in DOMAIN queue[m] :
    LET e == queue[m][j] IN
      /\ e.walks <= 1
      /\ phase = "accepted" => e.scope /\ e.walked /\ e.walks = 1

\* Each combination of arguments has one instance of its own
\* (docs/whitepaper/06-generics.md:109), so the module that defines a function
\* has one body for it.
OneDefinition ==
  \A m \in Mod : \A i, j \in DOMAIN queue[m] :
    LET I == queue[m][i].inst  J == queue[m][j].inst IN
      I # 0 /\ J # 0 /\ IsFunc(insts[I].def) /\ insts[I].def = insts[J].def
        /\ insts[I].args = insts[J].args => i = j

\* The analysis of every program ends, by acceptance or with an error: a chain
\* of ever larger instances meets the limit on the depth.
Terminates == <>(phase \in {"accepted", "rejected"})
=============================================================================
