---------------------------- MODULE MCSemaPasses ----------------------------
(***************************************************************************)
(* Every module of three declarations in which a declaration mentions at most  *)
(* two names and calls at most one function.                                 *)
(***************************************************************************)
EXTENDS SemaPasses

Entity(k, needs, embeds, body, cold) ==
  [kind |-> k, needs |-> needs, embeds |-> embeds, body |-> body, cold |-> cold]

\* The declarations at place d.
Choices(d) ==
  LET decls  == {{e} : e \in Decl \ {d}}
      others == decls \cup {{Undeclared}}
  IN {Entity("type", n, {}, {}, {}) : n \in {{}, {d}} \cup others}
     \cup {Entity("struct", n, {}, {}, {}) : n \in {{}, {d}} \cup decls}
     \cup {Entity("struct", n, e, {}, {}) : n \in {{}} \cup decls, e \in decls}
     \cup {Entity("struct", {}, {Undeclared}, {}, {})}
     \cup {Entity("func", n, {}, {}, {}) : n \in {{}} \cup decls}
     \cup {Entity("func", {}, {}, b, {}) : b \in others}
     \cup {Entity("func", {}, {}, {}, c) : c \in others}
     \cup {Entity("comptime", n \cup m, {}, {}, {}) : n, m \in {{}} \cup decls}
     \cup {Entity("var", n, {}, {}, {}) : n \in {{}} \cup decls}

Bounded(p) ==
  /\ \A d \in Decl : Cardinality({f \in p[d].needs \cap Decl : p[f].kind = "func"}) <= 1
  /\ Cardinality({d \in Decl : Undeclared \in
       p[d].needs \cup p[d].embeds \cup p[d].body \cup p[d].cold}) <= 1

MCPrograms ==
  {p \in {<<a, b, c>> : a \in Choices(1), b \in Choices(2), c \in Choices(3)} :
     WellFormed(p) /\ Bounded(p)}
=============================================================================
