--------------------------- MODULE FuncBodyProofs ---------------------------
(***************************************************************************)
(* Proofs about FuncBody.                                                  *)
(***************************************************************************)
EXTENDS FuncBody, NaturalsInduction, WellFoundedInduction, SequenceTheorems, TLAPS


-----------------------------------------------------------------------------
(* The blocks, and recursion over them. *)

(* A nonempty set of naturals has a least element.                          *)
LEMMA LeastNat ==
  ASSUME NEW T \in SUBSET Nat, T # {}
  PROVE  \E n \in T : \A m \in T : n <= m
  <1> DEFINE R == OpToRel(<, Nat)
  <1>1. \A m, n \in Nat : m < n => <<m, n>> \in R
    BY DEF OpToRel
  <1>2. IsWellFoundedOn(R, Nat)
    BY NatLessThanWellFounded, Zenon
  <1> HIDE DEF R
  <1>3. PICK n \in T : \A m \in T : ~ (<<m, n>> \in R)
    BY <1>2, WFMin
  <1>4. n \in Nat /\ \A m \in T : m \in Nat /\ ~ (m < n)
    BY <1>1, <1>3
  <1> QED  BY <1>4

(* the levels up to n *)
Levels(g, n) ==
  /\ g[0] = {<<>>}
  /\ \A i \in 1..n : g[i] = Seq(Statements(g[i - 1]))

(* The recursive definition of Level has a solution.                        *)
LEMMA LevelIs ==
  \A n \in Nat : Level[n] = IF n = 0 THEN {<<>>} ELSE Seq(Statements(Level[n - 1]))
  <1>1. ASSUME NEW g, NEW h, NEW n \in Nat, NEW m \in Nat, Levels(g, n), Levels(h, m),
               NEW j \in Nat, j <= n, j <= m
        PROVE  g[j] = h[j]
    <2> DEFINE T == {i \in Nat : i <= n /\ i <= m /\ g[i] # h[i]}
    <2> SUFFICES ASSUME T # {} PROVE FALSE
      BY <1>1
    <2>1. PICK i \in T : \A l \in T : i <= l
      BY LeastNat
    <2>2. i \in Nat /\ i <= n /\ i <= m /\ g[i] # h[i]
      OBVIOUS
    <2>3. i # 0
      BY <1>1, <2>2 DEF Levels
    <2>4. i - 1 \in Nat /\ i - 1 < i /\ i \in 1..n /\ i \in 1..m
      BY <2>2, <2>3
    <2>5. g[i - 1] = h[i - 1]
      BY <2>1, <2>2, <2>4
    <2>6. g[i] = Seq(Statements(g[i - 1])) /\ h[i] = Seq(Statements(h[i - 1]))
      BY <1>1, <2>4, Zenon DEF Levels
    <2> QED
      BY <2>2, <2>5, <2>6, Zenon
  <1>2. \A n \in Nat : \E g : Levels(g, n)
    <2> DEFINE T == {n \in Nat : ~ \E g : Levels(g, n)}
    <2> SUFFICES ASSUME T # {} PROVE FALSE
      OBVIOUS
    <2>1. PICK n \in T : \A m \in T : n <= m
      BY LeastNat
    <2>2. n \in Nat /\ ~ \E g : Levels(g, n)
      OBVIOUS
    <2>3. n # 0
      <3>1. Levels([i \in {0} |-> {<<>>}], 0)
        BY DEF Levels
      <3> QED
        BY <2>2, <3>1
    <2>4. n - 1 \in Nat /\ n - 1 \notin T
      BY <2>1, <2>2, <2>3
    <2>5. PICK g : Levels(g, n - 1)
      BY <2>4
    <2> DEFINE h == [i \in 0..n |-> IF i = n THEN Seq(Statements(g[n - 1])) ELSE g[i]]
    <2>6. \A i \in 0..n : h[i] = IF i = n THEN Seq(Statements(g[n - 1])) ELSE g[i]
      BY Zenon
    <2> HIDE DEF h
    <2>7. h[0] = {<<>>}
      BY <2>2, <2>3, <2>5, <2>6 DEF Levels
    <2>8. ASSUME NEW i \in 1..n PROVE h[i] = Seq(Statements(h[i - 1]))
      <3>1. i \in 0..n /\ i - 1 \in 0..n /\ i - 1 # n
        BY <2>2
      <3>2. h[i - 1] = g[i - 1]
        BY <2>6, <3>1, Zenon
      <3>3. CASE i = n
        BY <2>6, <3>1, <3>2, <3>3, Zenon
      <3>4. CASE i # n
        <4>1. i \in 1..(n - 1)
          BY <2>2, <3>4
        <4>2. g[i] = Seq(Statements(g[i - 1]))
          BY <2>5, <4>1, Zenon DEF Levels
        <4> QED
          BY <2>6, <3>1, <3>2, <3>4, <4>2, Zenon
      <3> QED
        BY <3>3, <3>4
    <2>9. Levels(h, n)
      BY <2>7, <2>8 DEF Levels
    <2> QED
      BY <2>2, <2>9
  <1> DEFINE at(n) == CHOOSE g : Levels(g, n)
             step(g, n) == IF n = 0 THEN {<<>>} ELSE Seq(Statements(g[n - 1]))
             G == [n \in Nat |-> at(n)[n]]
  <1>3. \A n \in Nat : Levels(at(n), n)
    BY <1>2, Zenon
  <1> HIDE DEF at
  <1>4. ASSUME NEW n \in Nat PROVE G[n] = step(G, n)
    <2>1. CASE n = 0
      BY <1>3, <2>1 DEF Levels
    <2>2. CASE n # 0
      <3>1. n - 1 \in Nat /\ n \in 1..n /\ n - 1 <= n /\ n - 1 <= n - 1
        BY <2>2
      <3>2. at(n)[n] = Seq(Statements(at(n)[n - 1]))
        BY <1>3, <3>1, Zenon DEF Levels
      <3>3. at(n)[n - 1] = at(n - 1)[n - 1]
        BY <1>1, <1>3, <3>1
      <3>4. G[n] = at(n)[n] /\ G[n - 1] = at(n - 1)[n - 1]
        BY <3>1
      <3> HIDE DEF G
      <3> QED
        BY <2>2, <3>2, <3>3, <3>4, Zenon
    <2> QED
      BY <2>1, <2>2
  <1>5. G = [n \in Nat |-> step(G, n)]
    <2>1. \A n \in Nat : G[n] = step(G, n)
      BY <1>4
    <2>2. G = [n \in Nat |-> G[n]]
      BY Zenon
    <2> HIDE DEF G
    <2> QED
      BY <2>1, <2>2, Zenon
  <1> HIDE DEF G
  <1>6. Level = [n \in Nat |-> step(Level, n)]
    <2>1. Level = CHOOSE g : g = [n \in Nat |-> step(g, n)]
      BY Zenon DEF Level
    <2> HIDE DEF step
    <2> QED
      BY <1>5, <2>1, Zenon
  <1>7. \A n \in Nat : Level[n] = step(Level, n)
    <2> HIDE DEF step
    <2> QED
      BY <1>6, Zenon
  <1> QED
    BY <1>7, Zenon

(* The levels, one by one.                                                  *)
LEMMA LevelCases ==
  /\ Level[0] = {<<>>}
  /\ \A n \in Nat : n # 0 => Level[n] = Seq(Statements(Level[n - 1]))
  <1>1. Level[0] = {<<>>}
    BY LevelIs, Zenon
  <1>2. \A n \in Nat : n # 0 => Level[n] = Seq(Statements(Level[n - 1]))
    BY LevelIs, Zenon
  <1> QED
    BY <1>1, <1>2

(* Blocks that nest less deep nest deep enough.                             *)
LEMMA LevelGrows ==
  \A m \in Nat, n \in Nat : m <= n => Level[m] \subseteq Level[n]
  <1> DEFINE T == {n \in Nat : ~ (Level[n] \subseteq Level[n + 1])}
  <1>1. T = {}
    <2> SUFFICES ASSUME T # {} PROVE FALSE
      OBVIOUS
    <2>1. PICK n \in T : \A m \in T : n <= m
      BY LeastNat
    <2>2. n \in Nat /\ ~ (Level[n] \subseteq Level[n + 1])
      OBVIOUS
    <2>3. n + 1 \in Nat /\ n + 1 # 0 /\ (n + 1) - 1 = n
      BY <2>2
    <2>4. Level[n + 1] = Seq(Statements(Level[n]))
      BY <2>3, LevelCases
    <2>5. CASE n = 0
      <3>1. Level[n] = {<<>>}
        BY <2>2, <2>5, LevelCases
      <3>2. <<>> \in Level[n + 1]
        BY <2>4
      <3> QED
        BY <2>2, <3>1, <3>2
    <2>6. CASE n # 0
      <3>1. n - 1 \in Nat /\ n - 1 \notin T /\ (n - 1) + 1 = n
        BY <2>1, <2>2, <2>6
      <3>2. Level[n - 1] \subseteq Level[n]
        BY <3>1
      <3>3. Level[n] = Seq(Statements(Level[n - 1]))
        BY <2>2, <2>6, LevelCases
      <3>4. Seq(Level[n - 1]) \subseteq Seq(Level[n])
        BY <3>2
      <3>5. Statements(Level[n - 1]) \subseteq Statements(Level[n])
        BY <3>2, <3>4 DEF Statements
      <3>6. Seq(Statements(Level[n - 1])) \subseteq Seq(Statements(Level[n]))
        BY <3>5
      <3> QED
        BY <2>2, <2>4, <3>3, <3>6
    <2> QED
      BY <2>5, <2>6
  <1>2. \A n \in Nat : Level[n] \subseteq Level[n + 1]
    BY <1>1
  <1> HIDE DEF T
  <1> SUFFICES ASSUME NEW m \in Nat PROVE \A n \in Nat : m <= n => Level[m] \subseteq Level[n]
    OBVIOUS
  <1> DEFINE U == {n \in Nat : m <= n /\ ~ (Level[m] \subseteq Level[n])}
  <1> SUFFICES ASSUME U # {} PROVE FALSE
    OBVIOUS
  <1>3. PICK n \in U : \A i \in U : n <= i
    BY LeastNat
  <1>4. n \in Nat /\ m <= n /\ ~ (Level[m] \subseteq Level[n])
    OBVIOUS
  <1>5. n # m
    BY <1>4
  <1>6. n - 1 \in Nat /\ m <= n - 1 /\ n - 1 \notin U /\ (n - 1) + 1 = n
    BY <1>3, <1>4, <1>5
  <1>7. Level[m] \subseteq Level[n - 1]
    BY <1>6
  <1>8. Level[n - 1] \subseteq Level[n]
    BY <1>2, <1>6
  <1> QED
    BY <1>4, <1>7, <1>8

(* the blocks in a statement, and those that a block is made of *)
Inner(s) == {s.subs[j] : j \in DOMAIN s.subs} \cup {s.init, s.update}
Parts(b) == IF b = <<>> THEN {} ELSE {Tail(b)} \cup UNION {Inner(b[i]) : i \in DOMAIN b}

Stmts == Statements(Blocks)

(* A block is a sequence of statements over blocks.                         *)
LEMMA BlocksIn ==
  ASSUME NEW n \in Nat, NEW b \in Level[n]
  PROVE  /\ b \in Seq(Statements(Level[n]))
         /\ b # <<>> => /\ n # 0 /\ b \in Seq(Statements(Level[n - 1])) /\ Tail(b) \in Level[n]
                        /\ Len(Tail(b)) < Len(b)
                        /\ \A i \in DOMAIN b : Inner(b[i]) \subseteq Level[n - 1]
  <1>1. CASE n = 0
    <2>1. Level[n] = {<<>>}
      BY <1>1, LevelCases
    <2>2. b = <<>>
      BY <2>1
    <2>3. <<>> \in Seq(Statements(Level[n]))
      OBVIOUS
    <2> QED
      BY <2>2, <2>3, Zenon
  <1>2. CASE n # 0
    <2>0. n - 1 \in Nat
      BY <1>2
    <2>1. n - 1 \in Nat /\ Level[n] = Seq(Statements(Level[n - 1]))
      BY <1>2, <2>0, LevelCases, Zenon
    <2>2. Level[n - 1] \subseteq Level[n]
      BY <2>1, LevelGrows
    <2>3. Seq(Level[n - 1]) \subseteq Seq(Level[n])
      BY <2>2
    <2>4. Statements(Level[n - 1]) \subseteq Statements(Level[n])
      BY <2>2, <2>3 DEF Statements
    <2> DEFINE S == Statements(Level[n - 1])
    <2>5. b \in Seq(S)
      BY <2>1
    <2> HIDE DEF S
    <2>6. b # <<>> => Head(b) \in S /\ Tail(b) \in Seq(S) /\ Len(Tail(b)) = Len(b) - 1 /\ Len(b) \in Nat
      BY <2>5, HeadTailProperties
    <2>7. Seq(Statements(Level[n - 1])) \subseteq Seq(Statements(Level[n]))
      BY <2>4
    <2>8. \A i \in DOMAIN b : Inner(b[i]) \subseteq Level[n - 1]
      <3>1. \A i \in DOMAIN b : b[i] \in Statements(Level[n - 1])
        BY <2>5 DEF S
      <3> QED
        BY <3>1 DEF Inner, Statements
    <2> QED
      BY <1>2, <2>1, <2>5, <2>6, <2>7, <2>8 DEF S
  <1> QED
    BY <1>1, <1>2

(* What a block is, and that the parts of a block are blocks.               *)
LEMMA BlockIs ==
  /\ Blocks = Level[Nesting] /\ <<>> \in Blocks
  /\ \A b \in Blocks : /\ b \in Seq(Stmts)
                       /\ b # <<>> => Head(b) \in Stmts /\ Tail(b) \in Blocks
                       /\ Parts(b) \subseteq Blocks
  <1>1. Nesting \in Nat
    BY FuncBodyAssumption
  <1>2. <<>> \in Level[Nesting]
    <2>1. CASE Nesting = 0
      BY <2>1, LevelCases
    <2>2. CASE Nesting # 0
      <3>1. Level[Nesting] = Seq(Statements(Level[Nesting - 1]))
        BY <1>1, <2>2, LevelCases, Zenon
      <3> QED
        BY <3>1
    <2> QED
      BY <2>1, <2>2
  <1>3. ASSUME NEW b \in Blocks
        PROVE  /\ b \in Seq(Stmts)
               /\ b # <<>> => Head(b) \in Stmts /\ Tail(b) \in Blocks
               /\ Parts(b) \subseteq Blocks
    <2>1. b \in Level[Nesting]
      BY DEF Blocks
    <2>2. b \in Seq(Stmts)
      BY <1>1, <2>1, BlocksIn, Zenon DEF Stmts, Blocks
    <2>3. ASSUME b # <<>> PROVE /\ Head(b) \in Stmts /\ Tail(b) \in Blocks
                                      /\ \A i \in DOMAIN b : Inner(b[i]) \subseteq Blocks
      <3>1. /\ Nesting # 0 /\ Tail(b) \in Level[Nesting]
            /\ \A i \in DOMAIN b : Inner(b[i]) \subseteq Level[Nesting - 1]
        BY <1>1, <2>1, <2>3, BlocksIn
      <3>2. Nesting - 1 \in Nat /\ Level[Nesting - 1] \subseteq Level[Nesting]
        BY <1>1, <3>1, LevelGrows
      <3>3. Head(b) \in Stmts
        BY <2>2, <2>3
      <3> QED
        BY <3>1, <3>2, <3>3 DEF Blocks
    <2> QED
      BY <2>2, <2>3 DEF Parts
  <1> QED
    BY <1>2, <1>3 DEF Blocks

(* What holds of a block when it holds of its parts holds of every block.   *)
LEMMA BlockInduction ==
  ASSUME NEW P, \A b \in Blocks : Parts(b) \subseteq P => b \in P
  PROVE  \A b \in Blocks : b \in P
  <1> DEFINE T == {n \in Nat : n <= Nesting /\ ~ (Level[n] \subseteq P)}
  <1>0. Nesting \in Nat /\ Blocks = Level[Nesting]
    BY FuncBodyAssumption, BlockIs
  <1>1. T = {}
    <2> SUFFICES ASSUME T # {} PROVE FALSE
      OBVIOUS
    <2>1. PICK n \in T : \A m \in T : n <= m
      BY LeastNat
    <2>2. n \in Nat /\ n <= Nesting /\ ~ (Level[n] \subseteq P)
      OBVIOUS
    <2> DEFINE L == {Len(b) : b \in Level[n] \ P}
    <2>3. \A b \in Level[n] : Len(b) \in Nat
      BY <2>2, BlocksIn, LenProperties
    <2>4. L \in SUBSET Nat /\ L # {}
      BY <2>2, <2>3
    <2>5. PICK l \in L : \A i \in L : l <= i
      BY <2>4, LeastNat
    <2>6. PICK b \in Level[n] \ P : l = Len(b)
      OBVIOUS
    <2>7. Level[n] \subseteq Blocks
      BY <1>0, <2>2, LevelGrows
    <2>8. Parts(b) \subseteq P
      <3> SUFFICES ASSUME b # <<>> PROVE Tail(b) \in P /\ \A i \in DOMAIN b : Inner(b[i]) \subseteq P
        BY DEF Parts
      <3>1. /\ n # 0 /\ Tail(b) \in Level[n] /\ Len(Tail(b)) < Len(b)
            /\ \A i \in DOMAIN b : Inner(b[i]) \subseteq Level[n - 1]
        BY <2>2, BlocksIn
      <3>2. Tail(b) \in P
        <4>1. Tail(b) \notin P => Len(Tail(b)) \in L
          BY <3>1
        <4>2. Len(b) \in Nat /\ Len(Tail(b)) \in Nat
          BY <2>3, <3>1
        <4> HIDE DEF L
        <4> QED
          BY <2>5, <2>6, <3>1, <4>1, <4>2
      <3>3. n - 1 \in Nat /\ n - 1 <= Nesting /\ n - 1 \notin T
        BY <1>0, <2>1, <2>2, <3>1
      <3>4. Level[n - 1] \subseteq P
        BY <3>3
      <3> QED
        BY <3>1, <3>2, <3>4
    <2> QED
      BY <2>6, <2>7, <2>8
  <1> HIDE DEF T
  <1>2. Nesting \notin T
    BY <1>1
  <1>3. Level[Nesting] \subseteq P
    BY <1>0, <1>2 DEF T
  <1> QED
    BY <1>0, <1>3

(* A function on blocks may be defined from its values on their parts.      *)
FromParts(F, V) ==
  /\ F \in [[Blocks -> V] -> [Blocks -> V]]
  /\ \A g, h \in [Blocks -> V], b \in Blocks :
       (\A c \in Parts(b) : g[c] = h[c]) => F[g][b] = F[h][b]

Solution(f, F, V) == f \in [Blocks -> V] /\ \A b \in Blocks : f[b] = F[f][b]

(* An equation that determines a function on a block from what it is on the *)
(* parts of the block has a solution.                                       *)
LEMMA BlockRecursion ==
  ASSUME NEW V, NEW F, V # {}, FromParts(F, V)
  PROVE  \E f : Solution(f, F, V)
  <1>v. PICK v \in V : TRUE
    OBVIOUS
  <1> DEFINE Attempt(C, g) == /\ C \subseteq Blocks /\ g \in [Blocks -> V]
                              /\ \A b \in C : Parts(b) \subseteq C /\ g[b] = F[g][b]
             Solves(g, b) == \E C : Attempt(C, g) /\ b \in C
             D == {b \in Blocks : \E g : Solves(g, b)}
             at(b) == CHOOSE g : Solves(g, b)
             u == [b \in Blocks |-> IF b \in D THEN at(b)[b] ELSE v]
  <1>0. /\ F \in [[Blocks -> V] -> [Blocks -> V]]
        /\ \A g, h \in [Blocks -> V], b \in Blocks :
             (\A c \in Parts(b) : g[c] = h[c]) => F[g][b] = F[h][b]
    BY Zenon DEF FromParts
  <1>1. \A g, b : Solves(g, b) => /\ g \in [Blocks -> V] /\ b \in Blocks /\ g[b] = F[g][b]
                                  /\ \A c \in Parts(b) : Solves(g, c)
    BY Zenon
  <1> HIDE DEF Solves
  <1>2. \A b \in Blocks : \A g, h : Solves(g, b) /\ Solves(h, b) => g[b] = h[b]
    <2> DEFINE P == {b \in Blocks : \A g, h : Solves(g, b) /\ Solves(h, b) => g[b] = h[b]}
    <2>1. ASSUME NEW b \in Blocks, Parts(b) \subseteq P PROVE b \in P
      <3> SUFFICES ASSUME NEW g, NEW h, Solves(g, b), Solves(h, b) PROVE g[b] = h[b]
        BY Zenon
      <3>1. \A c \in Parts(b) : g[c] = h[c]
        BY <1>1, <2>1
      <3>2. g \in [Blocks -> V] /\ h \in [Blocks -> V] /\ g[b] = F[g][b] /\ h[b] = F[h][b]
        BY <1>1, Zenon
      <3> QED
        BY <1>0, <3>1, <3>2, Zenon
    <2>2. \A b \in Blocks : b \in P
      <3> HIDE DEF P
      <3> QED
        BY <2>1, BlockInduction, Zenon
    <2> QED
      BY <2>2
  <1>3. \A b \in D : b \in Blocks /\ Solves(at(b), b)
    BY Zenon
  <1>4. \A g, b : Solves(g, b) => b \in D
    BY <1>1, Zenon
  <1> HIDE DEF D, at
  <1>5. ASSUME NEW b \in D PROVE at(b)[b] \in V
    BY <1>1, <1>3
  <1>6. u \in [Blocks -> V] /\ \A b \in D : u[b] = at(b)[b]
    BY <1>3, <1>5
  <1> HIDE DEF u
  <1>7. ASSUME NEW b \in D PROVE Parts(b) \subseteq D /\ u[b] = F[u][b]
    <2>1. Solves(at(b), b) /\ b \in Blocks /\ at(b) \in [Blocks -> V] /\ at(b)[b] = F[at(b)][b]
      BY <1>1, <1>3, Zenon
    <2>2. ASSUME NEW c \in Parts(b) PROVE c \in D /\ u[c] = at(b)[c]
      <3>1. Solves(at(b), c) /\ c \in D
        BY <1>1, <1>4, <2>1, Zenon
      <3>2. c \in Blocks /\ Solves(at(c), c)
        BY <1>3, <3>1, Zenon
      <3>3. at(c)[c] = at(b)[c]
        BY <1>2, <3>1, <3>2, Zenon
      <3> QED
        BY <1>6, <3>1, <3>3, Zenon
    <2>3. F[u][b] = F[at(b)][b]
      BY <1>0, <1>6, <2>1, <2>2, Zenon
    <2> QED
      BY <1>6, <2>1, <2>2, <2>3
  <1>8. ASSUME NEW b \in Blocks, Parts(b) \subseteq D PROVE b \in D
    <2> SUFFICES ASSUME b \notin D PROVE FALSE
      OBVIOUS
    <2> DEFINE g == [u EXCEPT ![b] = F[u][b]]
    <2>1. F[u] \in [Blocks -> V] /\ F[u][b] \in V
      BY <1>0, <1>6
    <2>2. g \in [Blocks -> V] /\ g[b] = F[u][b] /\ \A c \in Blocks : c # b => g[c] = u[c]
      BY <1>6, <2>1
    <2> HIDE DEF g
    <2>3. \A c \in D : c \in Blocks /\ c # b
      BY <1>3
    <2>4. ASSUME NEW c \in D \cup {b} PROVE c \in Blocks /\ Parts(c) \subseteq D /\ g[c] = F[g][c]
      <3>1. c \in Blocks /\ Parts(c) \subseteq D
        BY <1>7, <1>8, <2>3
      <3>2. \A e \in Parts(c) : g[e] = u[e]
        BY <2>2, <2>3, <3>1
      <3>3. F[g][c] = F[u][c]
        BY <1>0, <1>6, <2>2, <3>1, <3>2, Zenon
      <3>4. g[c] = F[u][c]
        BY <1>7, <2>2, <2>3, <3>1
      <3> QED
        BY <3>1, <3>3, <3>4
    <2>5. Attempt(D \cup {b}, g)
      BY <1>3, <2>2, <2>4
    <2>6. Solves(g, b)
      BY <2>5 DEF Solves
    <2> QED
      BY <1>4, <2>6
  <1>9. \A b \in Blocks : b \in D
    BY <1>8, BlockInduction, Zenon
  <1> QED
    BY <1>6, <1>7, <1>9 DEF Solution


-----------------------------------------------------------------------------
(* What the recursive definitions compute. *)

(* BuildBlock, one level down                                               *)
Built == [rets : BOOLEAN, ok : BOOLEAN]
BuildIn(g, s, inLoop) == [j \in DOMAIN s.subs |-> g[s.subs[j]][inLoop \/ s.op \in Loops]]
BuildStep(g, b, inLoop) ==
  IF b = <<>> THEN [rets |-> FALSE, ok |-> TRUE]
  ELSE [rets |-> ReturnsOn(Head(b), BuildIn(g, Head(b), inLoop)) \/ g[Tail(b)][inLoop].rets,
        ok   |-> /\ \A j \in DOMAIN BuildIn(g, Head(b), inLoop) : BuildIn(g, Head(b), inLoop)[j].ok
                 /\ Head(b).op \in {"brk", "cont"} => inLoop
                 /\ IF ReturnsOn(Head(b), BuildIn(g, Head(b), inLoop))
                    THEN \A i \in DOMAIN b : i > 1 => b[i].op = "call"
                    ELSE g[Tail(b)][inLoop].ok]

(* The parts of a block that is not empty.                                  *)
LEMMA PartsIs ==
  ASSUME NEW b \in Blocks, b # <<>>
  PROVE  /\ Tail(b) \in Parts(b) /\ Head(b).init \in Parts(b) /\ Head(b).update \in Parts(b)
         /\ \A j \in DOMAIN Head(b).subs : Head(b).subs[j] \in Parts(b)
         /\ \A i \in DOMAIN b : Inner(b[i]) \subseteq Parts(b)
         /\ Parts(b) \subseteq Blocks
  <1>1. b \in Seq(Stmts) /\ Parts(b) \subseteq Blocks
    BY BlockIs
  <1>2. 1 \in DOMAIN b /\ Head(b) = b[1]
    <2> HIDE DEF Stmts
    <2> QED
      BY <1>1, HeadTailProperties, EmptySeq
  <1>3. \A i \in DOMAIN b : Inner(b[i]) \subseteq Parts(b)
    BY Zenon DEF Parts
  <1> QED
    BY <1>1, <1>2, <1>3 DEF Parts, Inner

(* BuildBlock's recursive definition has a solution.                        *)
LEMMA BuildIs ==
  /\ BuildBlock \in [Blocks -> [BOOLEAN -> Built]]
  /\ \A b \in Blocks, inLoop \in BOOLEAN : BuildBlock[b][inLoop] = BuildStep(BuildBlock, b, inLoop)
  <1> DEFINE V == [BOOLEAN -> Built]
             step(g) == [b \in Blocks |-> [inLoop \in BOOLEAN |-> BuildStep(g, b, inLoop)]]
             F == [g \in [Blocks -> V] |-> step(g)]
  <1>1. ASSUME NEW g, NEW b \in Blocks, NEW il \in BOOLEAN, \A c \in Parts(b) : g[c] \in V
        PROVE  BuildStep(g, b, il) \in Built
    <2>1. CASE b = <<>>
      BY <2>1 DEF BuildStep, Built
    <2>2. CASE b # <<>>
      <3>1. g[Tail(b)][il] \in Built
        BY <1>1, <2>2, PartsIs
      <3>2. g[Tail(b)][il].rets \in BOOLEAN /\ g[Tail(b)][il].ok \in BOOLEAN
        BY <3>1 DEF Built
      <3> QED
        BY <2>2, <3>2 DEF BuildStep, Built
    <2> QED
      BY <2>1, <2>2
  <1>2. ASSUME NEW g, NEW h, NEW b \in Blocks, NEW il \in BOOLEAN, \A c \in Parts(b) : g[c] = h[c]
        PROVE  BuildStep(g, b, il) = BuildStep(h, b, il)
    <2>1. CASE b = <<>>
      BY <2>1 DEF BuildStep
    <2>2. CASE b # <<>>
      <3>1. g[Tail(b)] = h[Tail(b)] /\ \A j \in DOMAIN Head(b).subs : g[Head(b).subs[j]] = h[Head(b).subs[j]]
        BY <1>2, <2>2, PartsIs
      <3>2. BuildIn(g, Head(b), il) = BuildIn(h, Head(b), il)
        BY <3>1 DEF BuildIn
      <3> QED
        BY <2>2, <3>1, <3>2 DEF BuildStep
    <2> QED
      BY <2>1, <2>2
  <1>3. \A g : \A b \in Blocks : \A il \in BOOLEAN : step(g)[b][il] = BuildStep(g, b, il)
    OBVIOUS
  <1>4. ASSUME NEW g \in [Blocks -> V] PROVE step(g) \in [Blocks -> V]
    <2>1. \A b \in Blocks : Parts(b) \subseteq Blocks
      BY BlockIs
    <2>2. \A b \in Blocks : \A c \in Parts(b) : g[c] \in V
      BY <2>1
    <2>3. \A b \in Blocks : \A il \in BOOLEAN : BuildStep(g, b, il) \in Built
      BY <1>1, <2>2
    <2> QED
      BY <2>3
  <1>5. /\ F \in [[Blocks -> V] -> [Blocks -> V]]
        /\ \A g \in [Blocks -> V] : F[g] = step(g)
    <2> HIDE DEF step
    <2> QED
      BY <1>4
  <1>6. \A g, h \in [Blocks -> V], b \in Blocks : (\A c \in Parts(b) : g[c] = h[c]) => step(g)[b] = step(h)[b]
    BY <1>2
  <1> HIDE DEF F
  <1>7. \A g, h \in [Blocks -> V], b \in Blocks : (\A c \in Parts(b) : g[c] = h[c]) => F[g][b] = F[h][b]
    <2> SUFFICES ASSUME NEW g \in [Blocks -> V], NEW h \in [Blocks -> V], NEW b \in Blocks,
                        \A c \in Parts(b) : g[c] = h[c]
                 PROVE  F[g][b] = F[h][b]
      OBVIOUS
    <2> HIDE DEF step, V
    <2>1. F[g] = step(g) /\ F[h] = step(h)
      BY <1>5, Zenon
    <2>2. step(g)[b] = step(h)[b]
      BY <1>6, Zenon
    <2> QED
      BY <2>1, <2>2, Zenon
  <1>8. [inLoop \in BOOLEAN |-> [rets |-> FALSE, ok |-> TRUE]] \in V
    BY DEF Built
  <1>9. PICK f \in [Blocks -> V] : \A b \in Blocks : f[b] = F[f][b]
    <2>1. F \in [[Blocks -> V] -> [Blocks -> V]]
      BY <1>5, Zenon
    <2>2. V # {}
      BY <1>8, Zenon
    <2> HIDE DEF V
    <2>3. FromParts(F, V)
      BY <1>7, <2>1, Zenon DEF FromParts
    <2>4. \E f : Solution(f, F, V)
      BY <2>2, <2>3, BlockRecursion, Zenon
    <2> QED
      BY <2>4, Zenon DEF Solution
  <1>10. f = step(f)
    <2>1. step(f) \in [Blocks -> V] /\ \A b \in Blocks : f[b] = step(f)[b]
      BY <1>4, <1>5, <1>9, Zenon
    <2> HIDE DEF step
    <2> QED
      BY <2>1
  <1>11. BuildBlock = step(BuildBlock)
    <2>1. BuildBlock = CHOOSE g : g = step(g)
      BY Zenon DEF BuildBlock, BuildStep, BuildIn
    <2> HIDE DEF step
    <2> QED
      BY <1>10, <2>1, Zenon
  <1>12. \A b \in Blocks : \A il \in BOOLEAN : BuildBlock[b][il] = BuildStep(BuildBlock, b, il)
    BY <1>3, <1>11, Zenon
  <1>13. DOMAIN BuildBlock = Blocks /\ \A b \in Blocks : BuildBlock[b] = [il \in BOOLEAN |-> BuildStep(BuildBlock, b, il)]
    <2>1. DOMAIN step(BuildBlock) = Blocks
      BY Zenon
    <2> QED
      BY <1>11, <2>1, Zenon
  <1>14. \A b \in Blocks : b \in {c \in Blocks : BuildBlock[c] \in V}
    <2> DEFINE P == {c \in Blocks : BuildBlock[c] \in V}
    <2>1. ASSUME NEW b \in Blocks, Parts(b) \subseteq P PROVE BuildBlock[b] \in V
      <3>1. \A il \in BOOLEAN : BuildStep(BuildBlock, b, il) \in Built
        BY <1>1, <2>1
      <3> QED
        BY <1>13, <3>1
    <2>2. \A b \in Blocks : Parts(b) \subseteq P => b \in P
      BY <2>1
    <2> HIDE DEF P
    <2>3. \A b \in Blocks : b \in P
      BY <2>2, BlockInduction, Zenon
    <2> QED
      BY <2>3 DEF P
  <1>15. BuildBlock = step(BuildBlock) /\ \A b \in Blocks : BuildBlock[b] \in V
    BY <1>11, <1>14
  <1>16. BuildBlock \in [Blocks -> V]
    <2>1. BuildBlock = [b \in Blocks |-> BuildBlock[b]]
      BY <1>11, <1>13, Zenon
    <2> QED
      BY <1>15, <2>1
  <1> QED
    BY <1>12, <1>16

(* Registered, one statement on *)
RegisteredStep(g, b) ==
  IF b = <<>> THEN <<>>
  ELSE g[Tail(b)] \o (IF Head(b).op = "defer" THEN <<Head(b).id>> ELSE <<>>)

(* Registered's recursive definition has a solution, and it lists           *)
(* identifiers.                                                             *)
LEMMA RegisteredIs ==
  /\ Registered \in [Blocks -> Seq(Nat)]
  /\ \A b \in Blocks : Registered[b] = RegisteredStep(Registered, b)
  <1> DEFINE step(g) == [b \in Blocks |-> RegisteredStep(g, b)]
             F == [g \in [Blocks -> Seq(Nat)] |-> step(g)]
  <1>1. \A g : \A b \in Blocks : (\A c \in Parts(b) : g[c] \in Seq(Nat)) => step(g)[b] \in Seq(Nat)
    <2> SUFFICES ASSUME NEW g, NEW b \in Blocks, \A c \in Parts(b) : g[c] \in Seq(Nat)
                 PROVE  RegisteredStep(g, b) \in Seq(Nat)
      BY Zenon
    <2>1. CASE b = <<>>
      BY <2>1 DEF RegisteredStep
    <2>2. CASE b # <<>>
      <3>1. g[Tail(b)] \in Seq(Nat)
        BY <2>2, PartsIs
      <3>2. Head(b).id \in Nat
        BY <2>2, BlockIs DEF Stmts, Statements
      <3> QED
        BY <2>2, <3>1, <3>2 DEF RegisteredStep
    <2> QED
      BY <2>1, <2>2
  <1>2. \A g, h : \A b \in Blocks : (\A c \in Parts(b) : g[c] = h[c]) => step(g)[b] = step(h)[b]
    <2> SUFFICES ASSUME NEW g, NEW h, NEW b \in Blocks, \A c \in Parts(b) : g[c] = h[c]
                 PROVE  RegisteredStep(g, b) = RegisteredStep(h, b)
      OBVIOUS
    <2>1. b # <<>> => g[Tail(b)] = h[Tail(b)]
      BY PartsIs, Zenon
    <2> QED
      BY <2>1 DEF RegisteredStep
  <1>3. \A g : \A b \in Blocks : step(g)[b] = RegisteredStep(g, b)
    OBVIOUS
  <1>4. \A g : DOMAIN step(g) = Blocks /\ step(g) = [b \in Blocks |-> step(g)[b]]
    BY Zenon
  <1>p. \A b \in Blocks : Parts(b) \subseteq Blocks
    BY BlockIs, Zenon
  <1>5. \A g \in [Blocks -> Seq(Nat)] : step(g) \in [Blocks -> Seq(Nat)]
    <2> HIDE DEF step
    <2>1. \A g \in [Blocks -> Seq(Nat)] : \A b \in Blocks : step(g)[b] \in Seq(Nat)
      BY <1>1, <1>p
    <2> QED
      BY <1>4, <2>1
  <1> HIDE DEF step
  <1>6. F \in [[Blocks -> Seq(Nat)] -> [Blocks -> Seq(Nat)]] /\ \A g \in [Blocks -> Seq(Nat)] : F[g] = step(g)
    BY <1>5, Zenon
  <1> HIDE DEF F
  <1>7. FromParts(F, Seq(Nat))
    <2>1. ASSUME NEW g \in [Blocks -> Seq(Nat)], NEW h \in [Blocks -> Seq(Nat)], NEW b \in Blocks,
                 \A c \in Parts(b) : g[c] = h[c]
          PROVE  F[g][b] = F[h][b]
      <3>1. F[g] = step(g) /\ F[h] = step(h)
        BY <1>6, Zenon
      <3>2. step(g)[b] = step(h)[b]
        BY <1>2, <2>1, Zenon
      <3> QED
        BY <3>1, <3>2, Zenon
    <2> QED
      BY <1>6, <2>1, Zenon DEF FromParts
  <1>8. Seq(Nat) # {}
    <2>1. <<>> \in Seq(Nat)
      OBVIOUS
    <2> QED
      BY <2>1, Zenon
  <1>9. PICK f \in [Blocks -> Seq(Nat)] : \A b \in Blocks : f[b] = F[f][b]
    <2>1. \E f : Solution(f, F, Seq(Nat))
      BY <1>7, <1>8, BlockRecursion, Zenon
    <2> QED
      BY <2>1, Zenon DEF Solution
  <1>10. f = step(f)
    <2>1. step(f) \in [Blocks -> Seq(Nat)] /\ \A b \in Blocks : f[b] = step(f)[b]
      BY <1>5, <1>6, <1>9, Zenon
    <2> QED
      BY <2>1
  <1>11. Registered = step(Registered)
    <2>1. Registered = CHOOSE g : g = step(g)
      BY Zenon DEF Registered, RegisteredStep, step
    <2> QED
      BY <1>10, <2>1, Zenon
  <1>12. \A b \in Blocks : Registered[b] \in Seq(Nat)
    <2> DEFINE P == {c \in Blocks : Registered[c] \in Seq(Nat)}
    <2>1. \A b \in Blocks : Parts(b) \subseteq P => b \in P
      BY <1>1, <1>11
    <2> HIDE DEF P
    <2>2. \A b \in Blocks : b \in P
      BY <2>1, BlockInduction, Zenon
    <2> QED
      BY <2>2 DEF P
  <1>13. Registered \in [Blocks -> Seq(Nat)]
    <2>1. Registered = [b \in Blocks |-> Registered[b]]
      BY <1>4, <1>11, Zenon
    <2> QED
      BY <1>12, <2>1
  <1> QED
    BY <1>3, <1>11, <1>13, Zenon

(* A function on 1..n is a sequence.                                        *)
LEMMA Mapped ==
  ASSUME NEW L, NEW n \in Nat, NEW u \in [1..n -> L]
  PROVE  u \in Seq(L) /\ Len(u) = n
  <1>1. u \in Seq(L)
    BY SeqDef, Zenon
  <1>2. DOMAIN u = 1..n
    OBVIOUS
  <1> QED
    BY <1>1, <1>2, LenProperties

(* An initial part of a block is a block.                                   *)
LEMMA InitialPart ==
  ASSUME NEW b \in Blocks, NEW i \in DOMAIN b
  PROVE  SubSeq(b, 1, i) \in Blocks
  <1>1. Nesting \in Nat /\ Blocks = Level[Nesting]
    BY FuncBodyAssumption, BlockIs
  <1>2. b \in Seq(Stmts) /\ b # <<>>
    BY BlockIs
  <1>3. Nesting # 0
    BY <1>1, <1>2, LevelCases
  <1>4. Blocks = Seq(Statements(Level[Nesting - 1]))
    BY <1>1, <1>3, LevelCases, Zenon
  <1> DEFINE L == Statements(Level[Nesting - 1])
  <1> HIDE DEF L
  <1>5. b \in Seq(L) /\ i \in 1..Len(b)
    BY <1>4 DEF L
  <1>6. SubSeq(b, 1, i) \in Seq(L)
    BY <1>5, SubSeqProperties
  <1> QED
    BY <1>4, <1>6 DEF L

(* The calls attached to a jump. *)
LEMMA ExitCallsType ==
  ASSUME NEW b \in Blocks, NEW i \in DOMAIN b, NEW outer \in Seq(Nat)
  PROVE  ExitCalls(b, i, outer) \in Seq(Nat)
  <1> DEFINE all == Registered[SubSeq(b, 1, i)] \o outer
             n == IF Len(all) < DeferCap THEN Len(all) ELSE DeferCap
  <1>1. Registered[SubSeq(b, 1, i)] \in Seq(Nat)
    BY InitialPart, RegisteredIs
  <1>2. all \in Seq(Nat)
    BY <1>1
  <1>3. n \in Nat /\ n <= Len(all)
    BY <1>2, FuncBodyAssumption
  <1> HIDE DEF all, n
  <1>4. SubSeq(all, 1, n) \in Seq(Nat)
    BY <1>2, <1>3
  <1> QED
    BY <1>4 DEF ExitCalls, all, n

(* Desugar, one level down                                                  *)
Rewritten(g, b, i, outer) ==
  CASE b[i].op = "defer" -> [b[i] EXCEPT !.op = "def"]
    [] b[i].op \in Jumps -> [b[i] EXCEPT !.defers = ExitCalls(b, i, outer)]
    [] OTHER -> [b[i] EXCEPT !.subs = [j \in DOMAIN @ |-> g[@[j]][Registered[b] \o outer]]]
DesugarStep(g, b, outer) ==
  [i \in DOMAIN b |-> Rewritten(g, b, i, outer)]
    \o [i \in DOMAIN Registered[b] |-> [Node("call") EXCEPT !.id = Registered[b][i]]]

(* The rewriting of a statement keeps its shape.                            *)
LEMMA RewrittenType ==
  ASSUME NEW L, <<>> \in L, NEW g, NEW b \in Blocks, b \in Seq(Statements(L)), NEW i \in DOMAIN b,
         NEW outer \in Seq(Nat), \A c \in Inner(b[i]), o \in Seq(Nat) : g[c][o] \in L
  PROVE  Rewritten(g, b, i, outer) \in Statements(L)
  <1> DEFINE s == b[i]
             o == Registered[b] \o outer
  <1>1. s \in Statements(L)
    OBVIOUS
  <1>2. o \in Seq(Nat)
    <2>1. Registered[b] \in Seq(Nat)
      BY RegisteredIs
    <2> QED
      BY <2>1
  <1> HIDE DEF o
  <1>3. CASE s.op = "defer"
    <2>1. Rewritten(g, b, i, outer) = [s EXCEPT !.op = "def"]
      BY <1>3 DEF Rewritten, Jumps
    <2>2. [s EXCEPT !.op = "def"] \in Statements(L)
      BY <1>1, <1>3 DEF Statements, Formed, Ops, Loops, Jumps
    <2> QED
      BY <2>1, <2>2
  <1>4. CASE s.op \in Jumps
    <2>1. Rewritten(g, b, i, outer) = [s EXCEPT !.defers = ExitCalls(b, i, outer)]
      BY <1>4 DEF Rewritten, Jumps
    <2>2. ExitCalls(b, i, outer) \in Seq(Nat)
      BY ExitCallsType
    <2>3. [s EXCEPT !.defers = ExitCalls(b, i, outer)] \in Statements(L)
      BY <1>1, <2>2 DEF Statements, Formed
    <2> QED
      BY <2>1, <2>3
  <1>5. CASE s.op # "defer" /\ s.op \notin Jumps
    <2> DEFINE subs == [j \in DOMAIN s.subs |-> g[s.subs[j]][o]]
    <2>1. Rewritten(g, b, i, outer) = [s EXCEPT !.subs = subs]
      BY <1>5 DEF Rewritten, o
    <2>2. s.subs \in Seq(L)
      BY <1>1 DEF Statements
    <2>3. \A j \in DOMAIN s.subs : g[s.subs[j]][o] \in L
      BY <1>2 DEF Inner
    <2>4. subs \in Seq(L) /\ Len(subs) = Len(s.subs)
      <3>1. DOMAIN s.subs = 1..Len(s.subs) /\ Len(s.subs) \in Nat
        BY <2>2
      <3>2. subs \in [1..Len(s.subs) -> L]
        BY <2>3, <3>1
      <3> HIDE DEF subs
      <3> QED
        BY <3>1, <3>2, Mapped
    <2> HIDE DEF subs
    <2>5. [s EXCEPT !.subs = subs] \in Statements(L)
      BY <1>1, <2>4 DEF Statements, Formed
    <2> QED
      BY <2>1, <2>5
  <1> QED
    BY <1>3, <1>4, <1>5

(* The rewriting of a block nests no deeper.                                *)
LEMMA DesugarStepType ==
  ASSUME NEW n \in Nat, n <= Nesting, NEW g, NEW b \in Level[n], NEW outer \in Seq(Nat),
         \A i \in DOMAIN b : \A c \in Inner(b[i]), o \in Seq(Nat) : n # 0 => g[c][o] \in Level[n - 1]
  PROVE  DesugarStep(g, b, outer) \in Level[n]
  <1>0. b \in Blocks
    BY FuncBodyAssumption, BlockIs, LevelGrows
  <1>1. CASE n = 0
    <2>1. Level[n] = {<<>>} /\ b = <<>>
      BY <1>1, LevelCases
    <2>2. Registered[b] = <<>>
      BY <1>0, <2>1, RegisteredIs DEF RegisteredStep
    <2>3. [i \in DOMAIN b |-> Rewritten(g, b, i, outer)] = <<>>
      BY <2>1
    <2>4. [i \in DOMAIN Registered[b] |-> [Node("call") EXCEPT !.id = Registered[b][i]]] = <<>>
      BY <2>2
    <2>5. DesugarStep(g, b, outer) = <<>> \o <<>>
      BY <2>3, <2>4, Zenon DEF DesugarStep
    <2>6. DesugarStep(g, b, outer) = <<>>
      BY <2>5
    <2> QED
      BY <2>1, <2>6
  <1>2. CASE n # 0
    <2> DEFINE L == Level[n - 1]
    <2>1. n - 1 \in Nat /\ Level[n] = Seq(Statements(L)) /\ <<>> \in L
      <3>1. n - 1 \in Nat /\ Level[n] = Seq(Statements(L))
        BY <1>2, LevelCases
      <3>2. Level[0] = {<<>>} /\ 0 <= n - 1
        BY <3>1, LevelCases
      <3>3. Level[0] \subseteq L
        BY <3>1, <3>2, LevelGrows
      <3> QED
        BY <3>1, <3>2, <3>3
    <2>2. b \in Seq(Statements(L))
      BY <2>1
    <2> HIDE DEF L
    <2>3. ASSUME NEW i \in DOMAIN b PROVE Rewritten(g, b, i, outer) \in Statements(L)
      <3>1. \A c \in Inner(b[i]), o \in Seq(Nat) : g[c][o] \in L
        BY <1>2 DEF L
      <3> QED
        BY <1>0, <2>1, <2>2, <3>1, RewrittenType
    <2> DEFINE S == Statements(L)
               p == [i \in DOMAIN b |-> Rewritten(g, b, i, outer)]
               q == [i \in DOMAIN Registered[b] |-> [Node("call") EXCEPT !.id = Registered[b][i]]]
    <2>4. Registered[b] \in Seq(Nat)
      BY <1>0, RegisteredIs
    <2>5. ASSUME NEW m \in Nat PROVE [Node("call") EXCEPT !.id = m] \in S
      <3>1. <<>> \in Seq(L) /\ <<>> \in Seq(Nat)
        OBVIOUS
      <3> QED
        BY <2>1, <3>1 DEF Node, Statements, Formed, Ops, Loops, Jumps
    <2> HIDE DEF S
    <2>6. p \in Seq(S)
      BY <2>2, <2>3 DEF S
    <2>7. q \in Seq(S)
      <3> DEFINE l == Len(Registered[b])
      <3>1. l \in Nat /\ DOMAIN Registered[b] = 1..l /\ \A i \in 1..l : Registered[b][i] \in Nat
        <4>1. PICK reg \in Seq(Nat) : reg = Registered[b]
          BY <2>4, Zenon
        <4>2. /\ Len(reg) \in Nat /\ DOMAIN reg = 1..Len(reg)
              /\ \A i \in 1..Len(reg) : reg[i] \in Nat
          BY <4>1, LenProperties, ElementOfSeq
        <4> QED
          BY <4>1, <4>2, Zenon
      <3>2. \A i \in 1..l : q[i] \in S
        BY <2>5, <3>1
      <3>3. DOMAIN q = 1..l
        BY <3>1
      <3> HIDE DEF l
      <3>4. q \in [1..l -> S]
        BY <3>2, <3>3
      <3> HIDE DEF q
      <3> QED
        BY <3>1, <3>4, Mapped
    <2>8. DesugarStep(g, b, outer) = p \o q
      BY Zenon DEF DesugarStep
    <2> HIDE DEF p, q
    <2>9. p \o q \in Seq(S)
      BY <2>6, <2>7
    <2> QED
      BY <2>1, <2>8, <2>9 DEF S
  <1> QED
    BY <1>1, <1>2

(* Desugar's recursive definition has a solution, and what it makes of a    *)
(* block is a block that nests no deeper.                                   *)
LEMMA DesugarIs ==
  /\ \A b \in Blocks, outer \in Seq(Nat) : Desugar[b][outer] = DesugarStep(Desugar, b, outer)
  /\ \A b \in Blocks, outer \in Seq(Nat) : Desugar[b][outer] \in Blocks
  <1> DEFINE V == [Seq(Nat) -> Blocks]
             d == [outer \in Seq(Nat) |-> <<>>]
             step(g) == [b \in Blocks |-> [outer \in Seq(Nat) |-> DesugarStep(g, b, outer)]]
             clamp(g) == [b \in Blocks |-> IF step(g)[b] \in V THEN step(g)[b] ELSE d]
             F == [g \in [Blocks -> V] |-> clamp(g)]
  <1>1. \A g : \A b \in Blocks : \A outer \in Seq(Nat) : step(g)[b][outer] = DesugarStep(g, b, outer)
    OBVIOUS
  <1>2. \A g, h : \A b \in Blocks : (\A c \in Parts(b) : g[c] = h[c]) => step(g)[b] = step(h)[b]
    <2> SUFFICES ASSUME NEW g, NEW h, NEW b \in Blocks, \A c \in Parts(b) : g[c] = h[c],
                        NEW outer \in Seq(Nat)
                 PROVE  DesugarStep(g, b, outer) = DesugarStep(h, b, outer)
      OBVIOUS
    <2>1. ASSUME NEW i \in DOMAIN b PROVE Rewritten(g, b, i, outer) = Rewritten(h, b, i, outer)
      <3>1. \A j \in DOMAIN b[i].subs : b[i].subs[j] \in Parts(b)
        <4>1. \A j \in DOMAIN b[i].subs : b[i].subs[j] \in Inner(b[i])
          BY DEF Inner
        <4>2. Inner(b[i]) \subseteq Parts(b)
          <5>1. b # <<>>
            OBVIOUS
          <5> QED
            BY <5>1, PartsIs
        <4> QED
          BY <4>1, <4>2
      <3>2. \A o : [j \in DOMAIN b[i].subs |-> g[b[i].subs[j]][o]] = [j \in DOMAIN b[i].subs |-> h[b[i].subs[j]][o]]
        BY <3>1
      <3> QED
        BY <3>2, Zenon DEF Rewritten
    <2>2. [i \in DOMAIN b |-> Rewritten(g, b, i, outer)] = [i \in DOMAIN b |-> Rewritten(h, b, i, outer)]
      BY <2>1
    <2> QED
      BY <2>2, Zenon DEF DesugarStep
  <1>3. \A g : DOMAIN step(g) = Blocks /\ step(g) = [b \in Blocks |-> step(g)[b]]
    BY Zenon
  <1>4. d \in V
    BY BlockIs
  <1> HIDE DEF step, V, d
  <1>5. \A g : clamp(g) \in [Blocks -> V]
    BY <1>4
  <1>6. \A g : \A b \in Blocks : step(g)[b] \in V => clamp(g)[b] = step(g)[b]
    BY Zenon
  <1>7. \A g, h : \A b \in Blocks : (\A c \in Parts(b) : g[c] = h[c]) => clamp(g)[b] = clamp(h)[b]
    BY <1>2
  <1> HIDE DEF clamp
  <1>8. F \in [[Blocks -> V] -> [Blocks -> V]] /\ \A g \in [Blocks -> V] : F[g] = clamp(g)
    BY <1>5, Zenon
  <1> HIDE DEF F
  <1>9. PICK f \in [Blocks -> V] : \A b \in Blocks : f[b] = F[f][b]
    <2>1. ASSUME NEW g \in [Blocks -> V], NEW h \in [Blocks -> V], NEW b \in Blocks,
                 \A c \in Parts(b) : g[c] = h[c]
          PROVE  F[g][b] = F[h][b]
      <3>1. F[g] = clamp(g) /\ F[h] = clamp(h)
        BY <1>8, Zenon
      <3>2. clamp(g)[b] = clamp(h)[b]
        BY <1>7, <2>1, Zenon
      <3> QED
        BY <3>1, <3>2, Zenon
    <2>2. FromParts(F, V)
      BY <1>8, <2>1, Zenon DEF FromParts
    <2>3. \E f : Solution(f, F, V)
      BY <1>4, <2>2, BlockRecursion, Zenon
    <2> QED
      BY <2>3, Zenon DEF Solution
  <1>10. \A b \in Blocks : f[b] = clamp(f)[b]
    BY <1>8, <1>9, Zenon
  <1>11. \A b \in Blocks : \A n \in Nat : n <= Nesting /\ b \in Level[n] =>
            \A outer \in Seq(Nat) : f[b][outer] \in Level[n]
    <2> DEFINE Deep(b) == \A n \in Nat : n <= Nesting /\ b \in Level[n] =>
                             \A outer \in Seq(Nat) : f[b][outer] \in Level[n]
               P == {b \in Blocks : Deep(b)}
    <2>1. ASSUME NEW b \in Blocks, Parts(b) \subseteq P PROVE Deep(b)
      <3>1. \A c \in Parts(b) : Deep(c)
        BY <2>1
      <3>2. ASSUME NEW n \in Nat, n <= Nesting, b \in Level[n], NEW outer \in Seq(Nat)
            PROVE  DesugarStep(f, b, outer) \in Level[n]
        <4>1. ASSUME NEW i \in DOMAIN b, NEW c \in Inner(b[i]), NEW o \in Seq(Nat), n # 0
              PROVE  f[c][o] \in Level[n - 1]
          <5>1. b # <<>>
            OBVIOUS
          <5>2. c \in Parts(b)
            BY <5>1, PartsIs
          <5>3. c \in Level[n - 1]
            BY <3>2, <5>1, BlocksIn
          <5>4. n - 1 \in Nat /\ n - 1 <= Nesting
            BY <3>2, <4>1, FuncBodyAssumption
          <5> QED
            BY <3>1, <5>2, <5>3, <5>4
        <4> QED
          BY <3>2, <4>1, DesugarStepType
      <3>3. f[b] = step(f)[b]
        <4>1. Nesting \in Nat /\ Nesting <= Nesting /\ b \in Level[Nesting] /\ Blocks = Level[Nesting]
          BY FuncBodyAssumption, BlockIs
        <4>2. \A outer \in Seq(Nat) : step(f)[b][outer] \in Blocks
          BY <1>1, <3>2, <4>1
        <4>3. step(f)[b] \in V
          BY <4>2 DEF step, V
        <4> QED
          BY <1>6, <1>10, <4>3
      <3>4. \A outer \in Seq(Nat) : f[b][outer] = DesugarStep(f, b, outer)
        BY <1>1, <3>3
      <3> QED
        BY <3>2, <3>4
    <2>2. \A b \in Blocks : Parts(b) \subseteq P => b \in P
      BY <2>1
    <2> HIDE DEF P
    <2>3. \A b \in Blocks : b \in P
      BY <2>2, BlockInduction, Zenon
    <2> QED
      BY <2>3 DEF P
  <1>12. ASSUME NEW b \in Blocks PROVE f[b] = step(f)[b]
    <2>1. \A i \in DOMAIN b : \A c \in Inner(b[i]), o \in Seq(Nat) : Nesting # 0 => f[c][o] \in Level[Nesting - 1]
      <3> SUFFICES ASSUME NEW i \in DOMAIN b, NEW c \in Inner(b[i]), NEW o \in Seq(Nat), Nesting # 0
                   PROVE  f[c][o] \in Level[Nesting - 1]
        OBVIOUS
      <3>1. b # <<>>
        OBVIOUS
      <3>2. Nesting \in Nat /\ Nesting - 1 \in Nat /\ Nesting - 1 <= Nesting /\ b \in Level[Nesting]
        BY FuncBodyAssumption, BlockIs
      <3>3. c \in Level[Nesting - 1]
        BY <3>1, <3>2, BlocksIn
      <3>4. c \in Blocks
        BY <3>1, PartsIs
      <3> QED
        BY <1>11, <3>2, <3>3, <3>4
    <2>2. Nesting \in Nat /\ Nesting <= Nesting /\ b \in Level[Nesting] /\ Blocks = Level[Nesting]
      BY FuncBodyAssumption, BlockIs
    <2>3. \A outer \in Seq(Nat) : DesugarStep(f, b, outer) \in Blocks
      BY <2>1, <2>2, DesugarStepType
    <2>4. step(f)[b] \in V
      BY <1>1, <2>3 DEF step, V
    <2> QED
      BY <1>6, <1>10, <2>4
  <1>13. f = step(f)
    <2>1. f = [b \in Blocks |-> f[b]]
      OBVIOUS
    <2> QED
      BY <1>3, <1>12, <2>1
  <1>14. Desugar = step(Desugar)
    <2>1. Desugar = CHOOSE g : g = step(g)
      BY Zenon DEF Desugar, DesugarStep, Rewritten, step
    <2> QED
      BY <1>13, <2>1, Zenon
  <1>15. \A b \in Blocks, outer \in Seq(Nat) : Desugar[b][outer] = DesugarStep(Desugar, b, outer)
    BY <1>1, <1>14, Zenon
  <1>16. \A b \in Blocks : \A outer \in Seq(Nat) : Desugar[b][outer] \in Blocks
    <2> DEFINE Deep(b) == \A n \in Nat : n <= Nesting /\ b \in Level[n] =>
                             \A outer \in Seq(Nat) : Desugar[b][outer] \in Level[n]
               P == {b \in Blocks : Deep(b)}
    <2>1. ASSUME NEW b \in Blocks, Parts(b) \subseteq P PROVE Deep(b)
      <3>1. \A c \in Parts(b) : Deep(c)
        BY <2>1
      <3>2. ASSUME NEW n \in Nat, n <= Nesting, b \in Level[n], NEW outer \in Seq(Nat)
            PROVE  DesugarStep(Desugar, b, outer) \in Level[n]
        <4>1. ASSUME NEW i \in DOMAIN b, NEW c \in Inner(b[i]), NEW o \in Seq(Nat), n # 0
              PROVE  Desugar[c][o] \in Level[n - 1]
          <5>1. b # <<>>
            OBVIOUS
          <5>2. c \in Parts(b)
            BY <5>1, PartsIs
          <5>3. c \in Level[n - 1]
            BY <3>2, <5>1, BlocksIn
          <5>4. n - 1 \in Nat /\ n - 1 <= Nesting
            BY <3>2, <4>1, FuncBodyAssumption
          <5> QED
            BY <3>1, <5>2, <5>3, <5>4
        <4> QED
          BY <3>2, <4>1, DesugarStepType
      <3> QED
        BY <1>15, <3>2
    <2>2. \A b \in Blocks : Parts(b) \subseteq P => b \in P
      BY <2>1
    <2> HIDE DEF P
    <2>3. \A b \in Blocks : b \in P
      BY <2>2, BlockInduction, Zenon
    <2>4. Nesting \in Nat /\ Nesting <= Nesting /\ Blocks = Level[Nesting]
      BY FuncBodyAssumption, BlockIs
    <2> QED
      BY <2>3, <2>4 DEF P
  <1> QED
    BY <1>15, <1>16


-----------------------------------------------------------------------------
(* The stack of entered blocks. *)

PartNames == {"open", "stmt", "test", "until", "init", "head", "update"}
Frame == [stmts : Blocks, part : PartNames, loop : BOOLEAN, reached : Seq(Nat)]

(* the parts of a loop that come next while its body runs *)
Rounds == {"test", "until", "head", "update"}

(* the part that comes next is one of the statement at the head *)
Fits(f) ==
  /\ f.part \notin {"open", "stmt"} => f.stmts # <<>>
  /\ f.part = "test" => Head(f.stmts).op = "while"
  /\ f.part = "until" => Head(f.stmts).op = "dowhile"
  /\ f.part \in {"init", "head", "update"} => Head(f.stmts).op = "for"
  /\ f.part = "init" => Head(f.stmts).init # <<>>
  /\ f.part = "update" => Head(f.stmts).update # <<>>

(* a loop stays at the head of its block while its body is entered, every   *)
(* other statement has been taken off *)
Shape(q) ==
  /\ q \in Seq(Frame)
  /\ \A j \in 1..Len(q) : Fits(q[j])
  /\ q # <<>> => ~q[1].loop
  /\ \A j \in 1..Len(q) - 1 : q[j].part \in IF q[j + 1].loop THEN Rounds ELSE {"stmt"}

(* r is q down to block m, of which b is left and the part p comes next *)
To(q, r, m, b, p) ==
  /\ m \in 1..Len(q) /\ r \in Seq(Frame) /\ Len(r) = m
  /\ \A j \in 1..m - 1 : r[j] = q[j]
  /\ r[m].stmts = b /\ r[m].part = p /\ r[m].loop = q[m].loop

(* r is q with the block c entered, b and p left of the one around it *)
In(q, r, b, p, c, lp) ==
  /\ Len(q) \in 1..Len(q) /\ r \in Seq(Frame) /\ Len(r) = Len(q) + 1
  /\ \A j \in 1..Len(q) - 1 : r[j] = q[j]
  /\ r[Len(q)].stmts = b /\ r[Len(q)].part = p /\ r[Len(q)].loop = q[Len(q)].loop
  /\ r[Len(q) + 1].stmts = c /\ r[Len(q) + 1].part = "open" /\ r[Len(q) + 1].loop = lp

(* A step that goes on in an entered block keeps the shape.                 *)
LEMMA ShapeTo ==
  ASSUME NEW q, NEW r, NEW m, NEW b, NEW p, Shape(q), To(q, r, m, b, p), Fits(r[m])
  PROVE  Shape(r)
  <1>1. Len(q) \in Nat /\ m \in 1..Len(q) /\ r \in Seq(Frame) /\ Len(r) = m
    BY DEF Shape, To
  <1>2. \A j \in 1..m : Fits(r[j])
    BY <1>1 DEF Shape, To
  <1>3. ~r[1].loop
    BY <1>1 DEF Shape, To
  <1>4. ASSUME NEW j \in 1..m - 1 PROVE r[j].part \in IF r[j + 1].loop THEN Rounds ELSE {"stmt"}
    <2>1. r[j] = q[j] /\ j \in 1..Len(q) - 1
      BY <1>1 DEF To
    <2>2. r[j + 1].loop = q[j + 1].loop
      BY <1>1 DEF To
    <2> QED
      BY <2>1, <2>2 DEF Shape
  <1> QED
    BY <1>1, <1>2, <1>3, <1>4 DEF Shape

(* A step that enters a block keeps the shape.                              *)
LEMMA ShapeIn ==
  ASSUME NEW q, NEW r, NEW b, NEW p, NEW c, NEW lp, Shape(q), In(q, r, b, p, c, lp),
         Fits(r[Len(q)]), p \in IF lp THEN Rounds ELSE {"stmt"}
  PROVE  Shape(r)
  <1> DEFINE n == Len(q)
  <1>1. n \in Nat /\ n >= 1 /\ r \in Seq(Frame) /\ Len(r) = n + 1
    BY DEF Shape, In
  <1>2. Fits(r[n + 1])
    BY DEF In, Fits
  <1>3. \A j \in 1..n + 1 : Fits(r[j])
    BY <1>1, <1>2 DEF Shape, In
  <1>4. ~r[1].loop
    BY <1>1 DEF Shape, In
  <1>5. ASSUME NEW j \in 1..n PROVE r[j].part \in IF r[j + 1].loop THEN Rounds ELSE {"stmt"}
    <2>1. CASE j = n
      BY <2>1 DEF In
    <2>2. CASE j # n
      <3>1. r[j] = q[j] /\ j \in 1..n - 1
        BY <1>1, <2>2 DEF In
      <3>2. r[j + 1].loop = q[j + 1].loop
        BY <1>1, <3>1 DEF In
      <3> QED
        BY <3>1, <3>2 DEF Shape
    <2> QED
      BY <2>1, <2>2
  <1> QED
    BY <1>1, <1>3, <1>4, <1>5 DEF Shape

(* What a block of the stack looks like. *)
LEMMA FrameIs ==
  ASSUME NEW q, Shape(q), NEW j \in 1..Len(q)
  PROVE  /\ q[j] \in Frame /\ q[j].stmts \in Blocks /\ q[j].loop \in BOOLEAN /\ q[j].part \in PartNames
         /\ q[j].reached \in Seq(Nat) /\ Fits(q[j])
         /\ q[j].stmts # <<>> => Head(q[j].stmts) \in Stmts /\ Tail(q[j].stmts) \in Blocks
  <1>1. q[j] \in Frame /\ Fits(q[j])
    BY DEF Shape
  <1>2. q[j].stmts \in Blocks
    BY <1>1 DEF Frame
  <1> QED
    BY <1>1, <1>2, BlockIs DEF Frame

(* a sequence as q but in its last element *)
Same(q, r) == r \in Seq(Frame) /\ Len(r) = Len(q) /\ \A j \in 1..Len(q) - 1 : r[j] = q[j]

EndsIn(f, r, q, n, S) == r \in [1..n -> S] /\ r[n] = f /\ \A j \in 1..n - 1 : r[j] = q[j]

(* Replacing the last element of a function on 1..n leaves the others.      *)
LEMMA LastReplaced ==
  ASSUME NEW S, NEW n \in Nat, n >= 1, NEW q \in [1..n -> S], NEW f \in S
  PROVE  EndsIn(f, [q EXCEPT ![n] = f], q, n, S)
  BY DEF EndsIn

(* The same for a stack.                                                    *)
LEMMA Replaced ==
  ASSUME NEW q \in Seq(Frame), q # <<>>, NEW f \in Frame
  PROVE  /\ Len(q) \in 1..Len(q) /\ Same(q, [q EXCEPT ![Len(q)] = f]) /\ [q EXCEPT ![Len(q)] = f][Len(q)] = f
  <1>1. Len(q) \in Nat /\ Len(q) \in 1..Len(q) /\ q \in [1..Len(q) -> Frame]
    <2>1. Len(q) \in Nat /\ Len(q) # 0 /\ q \in [1..Len(q) -> Frame]
      BY LenProperties, EmptySeq
    <2> QED
      BY <2>1
  <1> DEFINE r == [q EXCEPT ![Len(q)] = f]
  <1>2. r \in [1..Len(q) -> Frame] /\ r[Len(q)] = f /\ \A j \in 1..Len(q) - 1 : r[j] = q[j]
    <2>1. Len(q) >= 1
      BY <1>1
    <2>2. EndsIn(f, [q EXCEPT ![Len(q)] = f], q, Len(q), Frame)
      BY <1>1, <2>1, LastReplaced, Zenon
    <2> QED
      BY <2>2, Zenon DEF EndsIn
  <1> HIDE DEF r
  <1>3. r \in Seq(Frame) /\ Len(r) = Len(q)
    BY <1>1, <1>2, Mapped
  <1> QED
    BY <1>1, <1>2, <1>3, Zenon DEF Same, r

(* Advance takes the statement at the head off the innermost block.         *)
LEMMA AdvancedIs ==
  ASSUME NEW q \in Seq(Frame), q # <<>>, q[Len(q)].stmts # <<>>
  PROVE  \E r : /\ r = [q EXCEPT ![Len(q)].stmts = Tail(@), ![Len(q)].part = "stmt"]
                /\ Same(q, r) /\ Len(q) \in 1..Len(q) /\ r[Len(q)].stmts = Tail(q[Len(q)].stmts)
                /\ r[Len(q)].part = "stmt" /\ r[Len(q)].loop = q[Len(q)].loop
                /\ r[Len(q)].reached = q[Len(q)].reached
  <1> DEFINE t == q[Len(q)]
             f == [t EXCEPT !.stmts = Tail(@), !.part = "stmt"]
             r == [q EXCEPT ![Len(q)].stmts = Tail(@), ![Len(q)].part = "stmt"]
  <1>1. Len(q) \in Nat /\ Len(q) \in 1..Len(q) /\ q \in [1..Len(q) -> Frame]
    <2>1. Len(q) \in Nat /\ Len(q) # 0 /\ q \in [1..Len(q) -> Frame]
      BY LenProperties, EmptySeq
    <2> QED
      BY <2>1
  <1>2. t \in Frame /\ t.stmts \in Blocks /\ Tail(t.stmts) \in Blocks
    <2>1. t \in Frame
      BY <1>1
    <2>2. t.stmts \in Blocks
      BY <2>1 DEF Frame
    <2> QED
      BY <2>1, <2>2, BlockIs
  <1>3. /\ f \in Frame /\ f.stmts = Tail(t.stmts) /\ f.part = "stmt" /\ f.loop = t.loop
        /\ f.reached = t.reached
    BY <1>2 DEF Frame, PartNames
  <1>4. r = [q EXCEPT ![Len(q)] = f]
    BY <1>1, <1>2 DEF Frame
  <1> HIDE DEF f, r
  <1>5. Same(q, r) /\ r[Len(q)] = f
    BY <1>1, <1>3, <1>4, Replaced
  <1> QED
    BY <1>1, <1>3, <1>5 DEF r

(* A step to Advance goes on behind the statement.                          *)
LEMMA AdvanceIs ==
  ASSUME Shape(k), k # <<>>, Top.stmts # <<>>
  PROVE  /\ To(k, Advance, Len(k), Tail(Top.stmts), "stmt")
         /\ Advance[Len(k)].reached = Top.reached
  <1>1. k \in Seq(Frame)
    BY DEF Shape
  <1>2. PICK r : /\ r = [k EXCEPT ![Len(k)].stmts = Tail(@), ![Len(k)].part = "stmt"]
                 /\ Same(k, r) /\ Len(k) \in 1..Len(k) /\ r[Len(k)].stmts = Tail(k[Len(k)].stmts)
                 /\ r[Len(k)].part = "stmt" /\ r[Len(k)].loop = k[Len(k)].loop
                 /\ r[Len(k)].reached = k[Len(k)].reached
    BY <1>1, AdvancedIs, Zenon DEF Top
  <1>3. r = Advance
    BY <1>2, Zenon DEF Advance
  <1> QED
    BY <1>2, <1>3 DEF To, Same, Top

(* A step to Become goes on with that part of the statement.                *)
LEMMA BecomeIs ==
  ASSUME Shape(k), k # <<>>, NEW p \in PartNames
  PROVE  To(k, Become(p), Len(k), Top.stmts, p)
  <1>1. k \in Seq(Frame) /\ Len(k) \in 1..Len(k)
    <2>1. k \in Seq(Frame)
      BY DEF Shape
    <2>2. Len(k) \in Nat /\ Len(k) # 0
      BY <2>1, LenProperties, EmptySeq
    <2> QED
      BY <2>1, <2>2
  <1>2. Top \in Frame
    BY <1>1, FrameIs, Zenon DEF Top
  <1> DEFINE f == [Top EXCEPT !.part = p]
  <1>3. f \in Frame /\ f.stmts = Top.stmts /\ f.part = p /\ f.loop = Top.loop
    BY <1>2 DEF Frame
  <1>4. Become(p) = [k EXCEPT ![Len(k)] = f]
    BY <1>1, <1>2 DEF Become, Top, Frame
  <1> HIDE DEF f
  <1>5. Same(k, Become(p)) /\ Become(p)[Len(k)] = f
    BY <1>1, <1>3, <1>4, Replaced
  <1> QED
    BY <1>1, <1>3, <1>5 DEF To, Same, Top

(* A step to Enter enters the block.                                        *)
LEMMA EnterIs ==
  ASSUME NEW q, NEW r, NEW b, NEW p, To(q, r, Len(q), b, p), NEW c \in Blocks, NEW lp \in BOOLEAN
  PROVE  In(q, Enter(c, lp, r), b, p, c, lp)
  <1> DEFINE f == [stmts |-> c, part |-> "open", loop |-> lp, reached |-> <<>>]
             s == Append(r, f)
  <1>1. f \in Frame /\ f.stmts = c /\ f.part = "open" /\ f.loop = lp
    BY DEF Frame, PartNames
  <1> HIDE DEF f
  <1>2. r \in Seq(Frame) /\ Len(r) = Len(q) /\ Len(q) \in Nat /\ Len(q) \in 1..Len(q)
    BY DEF To
  <1>3. s \in Seq(Frame) /\ Len(s) = Len(q) + 1 /\ s[Len(q) + 1] = f /\ \A j \in 1..Len(q) : s[j] = r[j]
    BY <1>1, <1>2, AppendProperties
  <1> HIDE DEF s
  <1>4. Enter(c, lp, r) = s
    BY DEF Enter, f, s
  <1> QED
    BY <1>1, <1>2, <1>3, <1>4 DEF To, In

(* The innermost loop body. *)
LEMMA LoopBodyIs ==
  ASSUME Shape(k), NEW j \in 1..Len(k), k[j].loop
  PROVE  /\ LoopBody \in 2..Len(k) /\ k[LoopBody].loop
         /\ \A m \in LoopBody + 1..Len(k) : ~k[m].loop
         /\ k[LoopBody - 1].part \in Rounds
  <1>1. k \in Seq(Frame) /\ Len(k) \in Nat /\ DOMAIN k = 1..Len(k)
    BY LenProperties DEF Shape
  <1> DEFINE T == {i \in Nat : i < Len(k) /\ k[Len(k) - i].loop}
  <1>2. Len(k) - j \in T
    BY <1>1
  <1>3. PICK i \in T : \A m \in T : i <= m
    BY <1>2, LeastNat
  <1> DEFINE n == Len(k) - i
  <1>4. n \in 1..Len(k) /\ k[n].loop
    BY <1>1
  <1>5. ASSUME NEW m \in DOMAIN k, m > n PROVE ~k[m].loop
    <2>1. Len(k) - m \in Nat /\ Len(k) - m < Len(k) /\ Len(k) - m < i /\ Len(k) - (Len(k) - m) = m
      BY <1>1, <1>5
    <2>2. Len(k) - m \notin T
      BY <1>3, <2>1
    <2> QED
      BY <2>1, <2>2
  <1> HIDE DEF T, n
  <1>6. LoopBody \in DOMAIN k /\ k[LoopBody].loop /\ \A m \in DOMAIN k : m > LoopBody => ~k[m].loop
    <2>1. \E l \in DOMAIN k : k[l].loop /\ \A m \in DOMAIN k : m > l => ~k[m].loop
      BY <1>1, <1>4, <1>5
    <2> QED
      BY <2>1, Zenon DEF LoopBody
  <1> DEFINE l == LoopBody
  <1> HIDE DEF l
  <1>7. l \in 1..Len(k) /\ k[l].loop /\ \A m \in 1..Len(k) : m > l => ~k[m].loop
    BY <1>1, <1>6 DEF l
  <1>8. l # 1
    <2>1. k # <<>>
      BY <1>1, <1>7
    <2> QED
      BY <1>7, <2>1 DEF Shape
  <1>9. l - 1 \in 1..Len(k) - 1 /\ (l - 1) + 1 = l
    BY <1>1, <1>7, <1>8
  <1>10. k[l - 1].part \in Rounds
    BY <1>7, <1>9 DEF Shape
  <1> QED
    BY <1>1, <1>7, <1>9, <1>10 DEF l

(* The stack down to block m, and with the statement there taken off.       *)
LEMMA DownTo ==
  ASSUME Shape(k), NEW m \in 1..Len(k)
  PROVE  /\ To(k, SubSeq(k, 1, m), m, k[m].stmts, k[m].part)
         /\ k[m].stmts # <<>> =>
              \E r : /\ r = [SubSeq(k, 1, m) EXCEPT ![Len(SubSeq(k, 1, m))].stmts = Tail(@),
                                                     ![Len(SubSeq(k, 1, m))].part = "stmt"]
                     /\ To(k, r, m, Tail(k[m].stmts), "stmt")
  <1> DEFINE q == SubSeq(k, 1, m)
  <1>1. k \in Seq(Frame) /\ Len(k) \in Nat
    BY LenProperties DEF Shape
  <1>2. q \in Seq(Frame) /\ Len(q) = m /\ \A j \in 1..m : q[j] = k[j]
    BY <1>1, SubSeqProperties
  <1> HIDE DEF q
  <1>3. To(k, q, m, k[m].stmts, k[m].part)
    BY <1>1, <1>2 DEF To
  <1>4. ASSUME k[m].stmts # <<>>
        PROVE \E r : /\ r = [q EXCEPT ![Len(q)].stmts = Tail(@), ![Len(q)].part = "stmt"]
                     /\ To(k, r, m, Tail(k[m].stmts), "stmt")
    <2>1. q # <<>> /\ q[Len(q)] = k[m]
      BY <1>2
    <2>2. PICK r : /\ r = [q EXCEPT ![Len(q)].stmts = Tail(@), ![Len(q)].part = "stmt"]
                   /\ Same(q, r) /\ Len(q) \in 1..Len(q) /\ r[Len(q)].stmts = Tail(q[Len(q)].stmts)
                   /\ r[Len(q)].part = "stmt" /\ r[Len(q)].loop = q[Len(q)].loop
                   /\ r[Len(q)].reached = q[Len(q)].reached
      BY <1>2, <1>4, <2>1, AdvancedIs, Zenon
    <2>3. To(k, r, m, Tail(k[m].stmts), "stmt")
      BY <1>1, <1>2, <2>1, <2>2 DEF To, Same
    <2> QED
      BY <2>2, <2>3, Zenon
  <1> QED
    BY <1>3, <1>4, Zenon DEF q


-----------------------------------------------------------------------------
(* The steps of an evaluation, by what they do to the stack. *)

AtStmt(ops) == Top.part = "stmt" /\ Top.stmts # <<>> /\ Stmt.op \in ops
On(b, p) == To(k, k', Len(k), b, p)
Stays == x' = x /\ uninit' = uninit
MayRead(s) == uninit' => uninit \/ (s.reads /\ ~x)

(* a statement that goes on to the next one *)
Straight ==
  /\ AtStmt({"use", "set", "def", "call"}) /\ On(Tail(Top.stmts), "stmt")
  /\ x' = (x \/ Stmt.op = "set")
  /\ uninit' => uninit \/ (Stmt.op \in {"use", "set"} /\ Stmt.reads /\ ~x)

(* an `if` without else or a `switch` without default that enters no block *)
Skip ==
  /\ AtStmt({"if", "switch"}) /\ On(Tail(Top.stmts), "stmt")
  /\ Stmt.op = "if" => Stmt.subs[2] = <<>>
  /\ Stmt.op = "switch" => ~Stmt.dflt
  /\ x' = x /\ MayRead(Stmt)

(* a statement that enters one of its blocks *)
Arm ==
  /\ AtStmt({"if", "switch", "block"})
  /\ \E j \in DOMAIN Stmt.subs : In(k, k', Tail(Top.stmts), "stmt", Stmt.subs[j], FALSE)
  /\ x' = x
  /\ uninit' => uninit \/ (Stmt.op # "block" /\ Stmt.reads /\ ~x)

(* a block or a loop begins *)
Opened == Top.part = "open" /\ On(Top.stmts, "stmt") /\ Stays
Begun ==
  /\ \/ AtStmt({"while"}) /\ On(Top.stmts, "test")
     \/ AtStmt({"for"}) /\ On(Top.stmts, IF Stmt.init = <<>> THEN "head" ELSE "init")
     \/ AtStmt({"dowhile"}) /\ In(k, k', Top.stmts, "until", Stmt.subs[1], TRUE)
  /\ Stays

(* a loop's condition, which ends the loop or starts another round *)
Following(p) ==
  IF Top.part = "head" THEN p = IF Stmt.update = <<>> THEN "head" ELSE "update" ELSE p = Top.part
Tested ==
  /\ Top.part \in {"test", "until", "head"}
  /\ \/ On(Tail(Top.stmts), "stmt")
     \/ \E p : Following(p) /\ In(k, k', Top.stmts, p, Stmt.subs[1], TRUE)
  /\ x' = x /\ MayRead(Stmt)

(* the first part of a `for` or the one after each round *)
HeaderDone ==
  \E h : /\ \/ Top.part = "init" /\ h = Stmt.init[1]
            \/ Top.part = "update" /\ h = Stmt.update[1]
         /\ On(Top.stmts, "head")
         /\ x' = (x \/ h.op = "set") /\ MayRead(h)

(* the evaluation ends before the end of the body *)
Ended ==
  /\ k' = <<>> /\ x' = x
  /\ \/ AtStmt({"ret"}) /\ phase' = "returned" /\ MayRead(Stmt)
     \/ phase' \in {"panicked", "exceeded"} /\ uninit' = uninit

(* a jump out of the innermost loop body, which block m entered *)
Around(m) ==
  /\ m + 1 \in 2..Len(k) /\ k[m + 1].loop /\ k[m].part \in Rounds
  /\ \A i \in m + 2..Len(k) : ~k[i].loop
Jumped ==
  /\ \E m \in 1..Len(k) : /\ Around(m)
            /\ \/ AtStmt({"brk"}) /\ To(k, k', m, Tail(k[m].stmts), "stmt")
               \/ AtStmt({"cont"}) /\ To(k, k', m, k[m].stmts, k[m].part)
  /\ Stays

(* the end of a block *)
Dropped ==
  /\ Top.part = "stmt" /\ Top.stmts = <<>>
  /\ IF Len(k) = 1 THEN k' = <<>> /\ phase' = "fell"
     ELSE To(k, k', Len(k) - 1, k[Len(k) - 1].stmts, k[Len(k) - 1].part)
  /\ Stays

Evaluates == Straight \/ Skip \/ Arm \/ Opened \/ Begun \/ Tested \/ HeaderDone \/ Ended \/ Jumped \/ Dropped

(* The next operation is at the head of the innermost block, or its part.   *)
LEMMA AheadIs ==
  ASSUME Shape(k), k # <<>>, NEW op, Exec(op)
  PROVE  /\ k \in Seq(Frame) /\ Len(k) \in 1..Len(k) /\ Top \in Frame /\ Fits(Top) /\ phase = "run"
         /\ op \in Ops => AtStmt({op}) /\ Stmt \in Stmts
         /\ op \in PartNames \ {"stmt"} => Top.part = op
  <1>1. k \in Seq(Frame) /\ Len(k) \in 1..Len(k)
    <2>1. k \in Seq(Frame)
      BY DEF Shape
    <2>2. Len(k) \in Nat /\ Len(k) # 0
      BY <2>1, LenProperties, EmptySeq
    <2> QED
      BY <2>1, <2>2
  <1>2. Top \in Frame /\ Fits(Top) /\ (Top.stmts # <<>> => Stmt \in Stmts)
    BY <1>1, FrameIs, Zenon DEF Top, Stmt
  <1>3. Top.part \in PartNames
    BY <1>2 DEF Frame
  <1>4. phase = "run" /\ ~Done /\ Ahead = op
    BY DEF Exec
  <1>5. ASSUME op \in Ops PROVE AtStmt({op}) /\ Stmt \in Stmts
    <2>1. Top.part = "stmt"
      BY <1>3, <1>4, <1>5 DEF Ahead, PartNames, Ops, Loops, Jumps
    <2>2. Top.stmts # <<>> /\ Stmt.op = op
      BY <1>4, <2>1 DEF Done, Ahead
    <2> QED
      BY <1>2, <2>1, <2>2 DEF AtStmt
  <1>6. ASSUME op \in PartNames \ {"stmt"} PROVE Top.part = op
    <2> SUFFICES ASSUME Top.part = "stmt" PROVE FALSE
      BY <1>4 DEF Ahead
    <2>1. Top.stmts # <<>> /\ Stmt.op = op /\ Stmt.op \in Ops
      BY <1>2, <1>4 DEF Done, Ahead, Stmts, Statements
    <2> QED
      BY <1>6, <2>1 DEF PartNames, Ops, Loops, Jumps
  <1> QED
    BY <1>1, <1>2, <1>4, <1>5, <1>6

(* The blocks of a statement.                                               *)
LEMMA SubsAre ==
  ASSUME NEW s \in Stmts
  PROVE  /\ s.subs \in Seq(Blocks) /\ s.init \in Blocks /\ s.update \in Blocks
         /\ s.reads \in BOOLEAN /\ s.dflt \in BOOLEAN /\ s.op \in Ops
         /\ \A j \in DOMAIN s.subs : s.subs[j] \in Blocks
         /\ s.op \in Loops \cup {"block"} => DOMAIN s.subs = {1}
         /\ s.op = "if" => DOMAIN s.subs = {1, 2}
         /\ \A h \in {s.init, s.update} : h # <<>> => Len(h) = 1 /\ s.op = "for" /\ h[1].op \in {"use", "set"}
  <1>1. s.subs \in Seq(Blocks) /\ DOMAIN s.subs = 1..Len(s.subs) /\ Len(s.subs) \in Nat
    BY DEF Stmts, Statements
  <1>2. /\ s.op \in Loops \cup {"block"} => Len(s.subs) = 1
        /\ s.op = "if" => Len(s.subs) = 2
    BY DEF Stmts, Statements, Formed
  <1>3. /\ s.op \in Loops \cup {"block"} => DOMAIN s.subs = {1}
        /\ s.op = "if" => DOMAIN s.subs = {1, 2}
    <2>1. 1..1 = {1} /\ 1..2 = {1, 2}
      OBVIOUS
    <2> QED
      BY <1>1, <1>2, <2>1, Zenon
  <1>4. \A h \in {s.init, s.update} : h # <<>> => Len(h) = 1 /\ s.op = "for" /\ h[1].op \in {"use", "set"}
    BY DEF Stmts, Statements, Formed
  <1>5. /\ s.init \in Blocks /\ s.update \in Blocks
        /\ s.reads \in BOOLEAN /\ s.dflt \in BOOLEAN /\ s.op \in Ops
    BY DEF Stmts, Statements
  <1> QED
    BY <1>1, <1>3, <1>4, <1>5

(* The steps of the statements other than loops and jumps.                  *)
LEMMA StmtSteps ==
  ASSUME Shape(k), k # <<>>, x \in BOOLEAN, uninit \in BOOLEAN,
         Use \/ Set \/ Def \/ Call \/ Branch \/ Switch \/ Block
  PROVE  Evaluates /\ phase' = "run"
  <1>1. CASE Use
    <2>1. Exec("use") /\ "use" \in Ops
      BY <1>1 DEF Use, Ops
    <2>2. AtStmt({"use"}) /\ phase = "run"
      BY <2>1, AheadIs, Zenon
    <2>3. On(Tail(Top.stmts), "stmt")
      BY <1>1, <2>2, AdvanceIs DEF AtStmt, On, Use
    <2> QED
      BY <1>1, <2>2, <2>3 DEF Evaluates, Straight, AtStmt, Use, Reading
  <1>2. CASE Set
    <2>1. Exec("set") /\ "set" \in Ops
      BY <1>2 DEF Set, Ops
    <2>2. AtStmt({"set"}) /\ phase = "run"
      BY <2>1, AheadIs, Zenon
    <2>3. On(Tail(Top.stmts), "stmt")
      BY <1>2, <2>2, AdvanceIs DEF AtStmt, On, Set
    <2> QED
      BY <1>2, <2>2, <2>3 DEF Evaluates, Straight, AtStmt, Set, Reading
  <1>3. CASE Def
    <2>1. Exec("def") /\ "def" \in Ops
      BY <1>3 DEF Def, Ops
    <2>2. AtStmt({"def"}) /\ phase = "run" /\ Stmt \in Stmts
      BY <2>1, AheadIs, Zenon
    <2>3. On(Tail(Top.stmts), "stmt")
      <3>1. To(k, Advance, Len(k), Tail(Top.stmts), "stmt") /\ Advance[Len(k)].reached = Top.reached
        BY <2>2, AdvanceIs, Zenon DEF AtStmt
      <3> DEFINE q == Advance
                 n == Len(k)
                 f == [q[n] EXCEPT !.reached = <<Stmt.id>> \o @]
      <3>2. q \in Seq(Frame) /\ Len(q) = n /\ q # <<>> /\ q[n] \in Frame /\ n \in 1..n
        BY <3>1 DEF To
      <3>3. Stmt.id \in Nat
        BY <2>2 DEF Stmts, Statements
      <3> HIDE DEF q, n
      <3>4. f \in Frame /\ f.stmts = q[n].stmts /\ f.part = q[n].part /\ f.loop = q[n].loop
        <4>1. q[n].reached \in Seq(Nat)
          BY <3>2 DEF Frame
        <4>2. <<Stmt.id>> \o q[n].reached \in Seq(Nat)
          BY <3>3, <4>1
        <4> QED
          BY <3>2, <4>2 DEF Frame
      <3>5. [q EXCEPT ![n].reached = <<Stmt.id>> \o @] = [q EXCEPT ![n] = f]
        BY <3>2 DEF Frame
      <3> HIDE DEF f
      <3>6. Same(q, [q EXCEPT ![n] = f]) /\ [q EXCEPT ![n] = f][n] = f
        <4>1. n = Len(q)
          BY <3>2
        <4> QED
          BY <3>2, <3>4, <4>1, Replaced
      <3>7. k' = [q EXCEPT ![n] = f]
        BY <1>3, <3>5 DEF Def, q, n
      <3>8. To(k, [q EXCEPT ![n] = f], n, Tail(Top.stmts), "stmt")
        BY <3>1, <3>2, <3>4, <3>6 DEF To, Same, q, n
      <3> QED
        BY <3>7, <3>8 DEF On, n
    <2> QED
      BY <1>3, <2>2, <2>3 DEF Evaluates, Straight, AtStmt, Def
  <1>4. CASE Call
    <2>1. Exec("call") /\ "call" \in Ops
      BY <1>4 DEF Call, Ops
    <2>2. AtStmt({"call"}) /\ phase = "run"
      BY <2>1, AheadIs, Zenon
    <2>3. On(Tail(Top.stmts), "stmt")
      BY <1>4, <2>2, AdvanceIs DEF AtStmt, On, Call
    <2> QED
      BY <1>4, <2>2, <2>3 DEF Evaluates, Straight, AtStmt, Call
  <1>5. CASE Branch
    <2>1. Exec("if") /\ "if" \in Ops
      BY <1>5 DEF Branch, Ops
    <2>2. AtStmt({"if"}) /\ phase = "run" /\ Stmt \in Stmts
      BY <2>1, AheadIs, Zenon
    <2>3. To(k, Advance, Len(k), Tail(Top.stmts), "stmt")
      BY <2>2, AdvanceIs DEF AtStmt
    <2>4. DOMAIN Stmt.subs = {1, 2} /\ Stmt.subs[1] \in Blocks /\ Stmt.subs[2] \in Blocks
      BY <2>2, SubsAre DEF AtStmt
    <2>5. phase' = "run" /\ x' = x /\ MayRead(Stmt)
      BY <1>5, <2>2 DEF Branch, Reading, MayRead
    <2>6. \A j \in {1, 2} : In(k, Enter(Stmt.subs[j], FALSE, Advance), Tail(Top.stmts), "stmt", Stmt.subs[j], FALSE)
      BY <2>3, <2>4, EnterIs
    <2>7. CASE k' = Advance /\ Stmt.subs[2] = <<>>
      <3>1. On(Tail(Top.stmts), "stmt")
        BY <2>3, <2>7, Zenon DEF On
      <3>2. Skip
        BY <2>2, <2>5, <2>7, <3>1 DEF Skip, AtStmt
      <3> QED
        BY <2>5, <3>2 DEF Evaluates
    <2>8. CASE \E j \in {1, 2} : k' = Enter(Stmt.subs[j], FALSE, Advance)
      <3>1. \E j \in DOMAIN Stmt.subs : In(k, k', Tail(Top.stmts), "stmt", Stmt.subs[j], FALSE)
        BY <2>4, <2>6, <2>8, Zenon
      <3>2. Arm
        BY <2>2, <2>5, <3>1 DEF Arm, AtStmt, MayRead
      <3> QED
        BY <2>5, <3>2 DEF Evaluates
    <2> QED
      BY <1>5, <2>7, <2>8 DEF Branch
  <1>6. CASE Switch
    <2>1. Exec("switch") /\ "switch" \in Ops
      BY <1>6 DEF Switch, Ops
    <2>2. AtStmt({"switch"}) /\ phase = "run" /\ Stmt \in Stmts
      BY <2>1, AheadIs, Zenon
    <2>3. To(k, Advance, Len(k), Tail(Top.stmts), "stmt")
      BY <2>2, AdvanceIs DEF AtStmt
    <2>5. phase' = "run" /\ x' = x /\ MayRead(Stmt)
      BY <1>6, <2>2 DEF Switch, Reading, MayRead
    <2>6. \A j \in DOMAIN Stmt.subs :
            In(k, Enter(Stmt.subs[j], FALSE, Advance), Tail(Top.stmts), "stmt", Stmt.subs[j], FALSE)
      BY <2>2, <2>3, SubsAre, EnterIs
    <2>7. CASE k' = Advance /\ ~Stmt.dflt
      <3>1. On(Tail(Top.stmts), "stmt")
        BY <2>3, <2>7, Zenon DEF On
      <3>2. Skip
        BY <2>2, <2>5, <2>7, <3>1 DEF Skip, AtStmt
      <3> QED
        BY <2>5, <3>2 DEF Evaluates
    <2>8. CASE \E j \in DOMAIN Stmt.subs : k' = Enter(Stmt.subs[j], FALSE, Advance)
      <3>1. \E j \in DOMAIN Stmt.subs : In(k, k', Tail(Top.stmts), "stmt", Stmt.subs[j], FALSE)
        BY <2>6, <2>8, Zenon
      <3>2. Arm
        BY <2>2, <2>5, <3>1 DEF Arm, AtStmt, MayRead
      <3> QED
        BY <2>5, <3>2 DEF Evaluates
    <2> QED
      BY <1>6, <2>7, <2>8, Zenon DEF Switch
  <1>7. CASE Block
    <2>1. Exec("block") /\ "block" \in Ops
      BY <1>7 DEF Block, Ops
    <2>2. AtStmt({"block"}) /\ phase = "run" /\ Stmt \in Stmts
      BY <2>1, AheadIs, Zenon
    <2>3. To(k, Advance, Len(k), Tail(Top.stmts), "stmt")
      BY <2>2, AdvanceIs DEF AtStmt
    <2>4. DOMAIN Stmt.subs = {1} /\ Stmt.subs[1] \in Blocks
      BY <2>2, SubsAre DEF AtStmt
    <2>5. phase' = "run" /\ x' = x /\ uninit' = uninit /\ k' = Enter(Stmt.subs[1], FALSE, Advance)
      BY <1>7, <2>2 DEF Block
    <2>6. In(k, k', Tail(Top.stmts), "stmt", Stmt.subs[1], FALSE)
      BY <2>3, <2>4, <2>5, EnterIs
    <2>7. Arm
      BY <2>2, <2>4, <2>5, <2>6 DEF Arm, AtStmt
    <2> QED
      BY <2>5, <2>7 DEF Evaluates
  <1> QED
    BY <1>1, <1>2, <1>3, <1>4, <1>5, <1>6, <1>7

(* The steps of a loop that read nothing.                                   *)
LEMMA PassIs ==
  ASSUME Shape(k), k # <<>>, NEW op, NEW next, Pass(op, next)
  PROVE  Exec(op) /\ k' = next /\ Stays /\ phase' = phase
  BY DEF Pass, Stays

(* What the test of a loop does to the stack.                               *)
LEMMA TestIs ==
  ASSUME Shape(k), k # <<>>, NEW op \in {"test", "until", "head"}, NEW p \in PartNames, Following(p), Test(op, p)
  PROVE  Tested /\ phase' = "run"
  <1>1. Exec(op) /\ phase' = phase /\ x' = x /\ Reading(Stmt)
    BY DEF Test
  <1>2. Top.part = op /\ phase = "run" /\ Fits(Top) /\ Top \in Frame
    <2>1. op \in PartNames \ {"stmt"}
      BY DEF PartNames
    <2> QED
      BY <1>1, <2>1, AheadIs, Zenon
  <1>3. Top.stmts # <<>> /\ Top.stmts \in Blocks
    BY <1>2 DEF Fits, Frame
  <1>4. Stmt \in Stmts /\ DOMAIN Stmt.subs = {1} /\ Stmt.subs[1] \in Blocks
    <2>1. Stmt \in Stmts
      BY <1>3, BlockIs DEF Stmt
    <2>2. Stmt.op \in Loops
      BY <1>2 DEF Fits, Stmt, Loops
    <2> QED
      BY <2>1, <2>2, SubsAre
  <1>5. MayRead(Stmt)
    BY <1>1 DEF Reading, MayRead
  <1>6. CASE k' = Advance
    <2>1. On(Tail(Top.stmts), "stmt")
      BY <1>3, <1>6, AdvanceIs, Zenon DEF On
    <2> QED
      BY <1>1, <1>2, <1>5, <2>1 DEF Tested
  <1>7. CASE k' = Enter(Stmt.subs[1], TRUE, Become(p))
    <2>1. To(k, Become(p), Len(k), Top.stmts, p)
      BY BecomeIs
    <2>2. In(k, k', Top.stmts, p, Stmt.subs[1], TRUE)
      BY <1>4, <1>7, <2>1, EnterIs
    <2> QED
      BY <1>1, <1>2, <1>5, <2>2 DEF Tested
  <1> QED
    BY <1>6, <1>7 DEF Test

(* The steps of loops, and the opening of a block.                          *)
LEMMA LoopSteps ==
  ASSUME Shape(k), k # <<>>, x \in BOOLEAN, uninit \in BOOLEAN,
         Open \/ While \/ DoWhile \/ For \/ WhileTest \/ DoTest \/ ForTest \/ ForInit \/ ForUpdate
  PROVE  Evaluates /\ phase' = "run"
  <1>1. CASE Open
    <2>1. Exec("open") /\ k' = Become("stmt") /\ Stays /\ phase' = phase
      BY <1>1, PassIs, Zenon DEF Open
    <2>2. Top.part = "open" /\ phase = "run"
      <3>1. "open" \in PartNames \ {"stmt"}
        BY DEF PartNames
      <3> QED
        BY <2>1, <3>1, AheadIs, Zenon
    <2>3. On(Top.stmts, "stmt")
      BY <2>1, BecomeIs DEF On, PartNames
    <2> QED
      BY <2>1, <2>2, <2>3 DEF Evaluates, Opened
  <1>2. CASE While
    <2>1. Exec("while") /\ k' = Become("test") /\ Stays /\ phase' = phase
      BY <1>2, PassIs, Zenon DEF While
    <2>2. AtStmt({"while"}) /\ phase = "run"
      <3>1. "while" \in Ops
        BY DEF Ops, Loops
      <3> QED
        BY <2>1, <3>1, AheadIs, Zenon
    <2>3. On(Top.stmts, "test")
      BY <2>1, BecomeIs DEF On, PartNames
    <2> QED
      BY <2>1, <2>2, <2>3 DEF Evaluates, Begun
  <1>3. CASE DoWhile
    <2>1. Exec("dowhile") /\ k' = Enter(Stmt.subs[1], TRUE, Become("until")) /\ Stays /\ phase' = phase
      BY <1>3, PassIs, Zenon DEF DoWhile
    <2>2. AtStmt({"dowhile"}) /\ phase = "run" /\ Stmt \in Stmts
      <3>1. "dowhile" \in Ops
        BY DEF Ops, Loops
      <3> QED
        BY <2>1, <3>1, AheadIs, Zenon
    <2>3. DOMAIN Stmt.subs = {1} /\ Stmt.subs[1] \in Blocks
      BY <2>2, SubsAre DEF AtStmt, Loops
    <2>4. To(k, Become("until"), Len(k), Top.stmts, "until")
      BY BecomeIs DEF PartNames
    <2>5. In(k, k', Top.stmts, "until", Stmt.subs[1], TRUE)
      BY <2>1, <2>3, <2>4, EnterIs
    <2> QED
      BY <2>1, <2>2, <2>5 DEF Evaluates, Begun
  <1>4. CASE For
    <2> DEFINE p == IF Stmt.init = <<>> THEN "head" ELSE "init"
    <2>0. Pass("for", Become(p))
      BY <1>4, Zenon DEF For
    <2>p. p \in PartNames
      BY DEF PartNames
    <2> HIDE DEF p
    <2>1. Exec("for") /\ k' = Become(p) /\ Stays /\ phase' = phase
      BY <2>0, PassIs, Zenon
    <2>2. AtStmt({"for"}) /\ phase = "run"
      <3>1. "for" \in Ops
        BY DEF Ops, Loops
      <3> QED
        BY <2>1, <3>1, AheadIs, Zenon
    <2>3. On(Top.stmts, p)
      BY <2>1, <2>p, BecomeIs DEF On
    <2> QED
      BY <2>1, <2>2, <2>3, Zenon DEF Evaluates, Begun, p
  <1>5. CASE WhileTest
    <2>1. Exec("test") /\ "test" \in PartNames \ {"stmt"}
      BY <1>5 DEF WhileTest, Test, PartNames
    <2>2. Top.part = "test"
      BY <2>1, AheadIs, Zenon
    <2>3. Tested /\ phase' = "run"
      BY <1>5, <2>2, TestIs DEF WhileTest, Following, PartNames
    <2> QED
      BY <2>3 DEF Evaluates
  <1>6. CASE DoTest
    <2>1. Exec("until") /\ "until" \in PartNames \ {"stmt"}
      BY <1>6 DEF DoTest, Test, PartNames
    <2>2. Top.part = "until"
      BY <2>1, AheadIs, Zenon
    <2>3. Tested /\ phase' = "run"
      BY <1>6, <2>2, TestIs DEF DoTest, Following, PartNames
    <2> QED
      BY <2>3 DEF Evaluates
  <1>7. CASE ForTest
    <2> DEFINE p == IF Stmt.update = <<>> THEN "head" ELSE "update"
    <2>1. Exec("head") /\ "head" \in PartNames \ {"stmt"}
      BY <1>7 DEF ForTest, Test, PartNames
    <2>2. Top.part = "head"
      BY <2>1, AheadIs, Zenon
    <2>3. Following(p) /\ p \in PartNames
      BY <2>2 DEF Following, PartNames
    <2>4. Test("head", p)
      BY <1>7, Zenon DEF ForTest
    <2> HIDE DEF p
    <2>5. Tested /\ phase' = "run"
      BY <2>3, <2>4, TestIs
    <2> QED
      BY <2>5 DEF Evaluates
  <1>8. CASE ForInit
    <2>1. Exec("init") /\ "init" \in PartNames \ {"stmt"}
      BY <1>8 DEF ForInit, Header, PartNames
    <2>2. Top.part = "init" /\ phase = "run"
      BY <2>1, AheadIs, Zenon
    <2>3. On(Top.stmts, "head")
      BY <1>8, BecomeIs DEF On, PartNames, ForInit, Header
    <2>4. /\ x' = (x \/ Stmt.init[1].op = "set") /\ MayRead(Stmt.init[1])
          /\ phase' = phase
      BY <1>8 DEF ForInit, Header, Reading, MayRead
    <2>5. HeaderDone
      BY <2>2, <2>3, <2>4, Zenon DEF HeaderDone
    <2> QED
      BY <2>2, <2>4, <2>5 DEF Evaluates
  <1>9. CASE ForUpdate
    <2>1. Exec("update") /\ "update" \in PartNames \ {"stmt"}
      BY <1>9 DEF ForUpdate, Header, PartNames
    <2>2. Top.part = "update" /\ phase = "run"
      BY <2>1, AheadIs, Zenon
    <2>3. On(Top.stmts, "head")
      BY <1>9, BecomeIs DEF On, PartNames, ForUpdate, Header
    <2>4. /\ x' = (x \/ Stmt.update[1].op = "set") /\ MayRead(Stmt.update[1])
          /\ phase' = phase
      BY <1>9 DEF ForUpdate, Header, Reading, MayRead
    <2>5. HeaderDone
      BY <2>2, <2>3, <2>4, Zenon DEF HeaderDone
    <2> QED
      BY <2>2, <2>4, <2>5 DEF Evaluates
  <1> QED
    BY <1>1, <1>2, <1>3, <1>4, <1>5, <1>6, <1>7, <1>8, <1>9

(* The steps that end the evaluation before the end of the body.            *)
LEMMA EndSteps ==
  ASSUME Shape(k), k # <<>>, Panic \/ Return \/ Exceed
  PROVE  Ended
  <1>1. CASE Panic
    BY <1>1 DEF Panic, Ended
  <1>2. CASE Return
    <2>1. Exec("ret") /\ "ret" \in Ops
      BY <1>2 DEF Return, Ops, Jumps
    <2>2. AtStmt({"ret"})
      BY <2>1, AheadIs, Zenon
    <2> QED
      BY <1>2, <2>2 DEF Return, Ended, Reading, MayRead
  <1>3. CASE Exceed
    BY <1>3 DEF Exceed, Ended
  <1> QED
    BY <1>1, <1>2, <1>3

(* A jump out of a loop body; there must be one.                            *)
LEMMA JumpSteps ==
  ASSUME Shape(k), k # <<>>, NEW j \in 1..Len(k), k[j].loop, Break \/ Continue
  PROVE  Jumped /\ phase' = "run"
  <1> DEFINE m == LoopBody - 1
  <1>1. /\ LoopBody \in 2..Len(k) /\ k[LoopBody].loop /\ k[m].part \in Rounds
        /\ \A i \in LoopBody + 1..Len(k) : ~k[i].loop
    BY LoopBodyIs
  <1>2. Len(k) \in Nat
    BY LenProperties DEF Shape
  <1>3. m \in 1..Len(k) /\ Around(m)
    BY <1>1, <1>2 DEF Around
  <1>4. Outside = SubSeq(k, 1, m)
    BY DEF Outside
  <1>5. k[m].stmts # <<>>
    <2>1. Fits(k[m])
      BY <1>3, FrameIs
    <2> QED
      BY <1>1, <2>1 DEF Fits, Rounds
  <1> HIDE DEF m
  <1>6. CASE Break
    <2>1. Exec("brk") /\ "brk" \in Ops
      BY <1>6 DEF Break, Jump, Ops, Jumps
    <2>2. AtStmt({"brk"}) /\ phase = "run"
      BY <2>1, AheadIs, Zenon
    <2>3. k' = [Outside EXCEPT ![Len(Outside)].stmts = Tail(@), ![Len(Outside)].part = "stmt"] /\ Stays /\ phase' = phase
      BY <1>6 DEF Break, Jump, Stays
    <2>4. PICK r : /\ r = [SubSeq(k, 1, m) EXCEPT ![Len(SubSeq(k, 1, m))].stmts = Tail(@),
                                                     ![Len(SubSeq(k, 1, m))].part = "stmt"]
                   /\ To(k, r, m, Tail(k[m].stmts), "stmt")
      BY <1>3, <1>5, DownTo
    <2>5. k' = r
      BY <1>4, <2>3, <2>4, Zenon
    <2>6. To(k, k', m, Tail(k[m].stmts), "stmt")
      BY <2>4, <2>5, Zenon
    <2> QED
      BY <1>3, <2>2, <2>3, <2>6, Zenon DEF Jumped
  <1>7. CASE Continue
    <2>1. Exec("cont") /\ "cont" \in Ops
      BY <1>7 DEF Continue, Jump, Ops, Jumps
    <2>2. AtStmt({"cont"}) /\ phase = "run"
      BY <2>1, AheadIs, Zenon
    <2>3. k' = Outside /\ Stays /\ phase' = phase
      BY <1>7 DEF Continue, Jump, Stays
    <2>4. To(k, SubSeq(k, 1, m), m, k[m].stmts, k[m].part)
      BY <1>3, DownTo
    <2>5. To(k, k', m, k[m].stmts, k[m].part)
      BY <1>4, <2>3, <2>4, Zenon
    <2> QED
      BY <1>3, <2>2, <2>3, <2>5, Zenon DEF Jumped
  <1> QED
    BY <1>6, <1>7

(* The end of a block.                                                      *)
LEMMA LeaveStep ==
  ASSUME Shape(k), k # <<>>, Leave
  PROVE  Dropped /\ phase' = IF Len(k) = 1 THEN "fell" ELSE "run"
  <1>1. k \in Seq(Frame) /\ Len(k) \in Nat /\ Len(k) # 0
    <2>1. k \in Seq(Frame)
      BY DEF Shape
    <2> QED
      BY <2>1, LenProperties, EmptySeq
  <1>2. Top.part = "stmt" /\ Top.stmts = <<>> /\ Stays
    BY DEF Leave, Done, Stays
  <1>3. k' = SubSeq(k, 1, Len(k) - 1) /\ phase' = IF Len(k) = 1 THEN "fell" ELSE "run"
    BY DEF Leave, Front
  <1>4. CASE Len(k) = 1
    <2>1. SubSeq(k, 1, Len(k) - 1) = <<>>
      BY <1>1, <1>4
    <2> QED
      BY <1>2, <1>3, <1>4, <2>1 DEF Dropped
  <1>5. CASE Len(k) # 1
    <2>1. Len(k) - 1 \in 1..Len(k)
      <3>1. \A n \in Nat : n # 0 /\ n # 1 => n - 1 \in 1..n
        OBVIOUS
      <3> QED
        BY <1>1, <1>5, <3>1, Zenon
    <2>2. To(k, k', Len(k) - 1, k[Len(k) - 1].stmts, k[Len(k) - 1].part)
      BY <1>3, <2>1, DownTo
    <2> QED
      BY <1>2, <1>3, <1>5, <2>2 DEF Dropped
  <1> QED
    BY <1>4, <1>5


-----------------------------------------------------------------------------
(* What return-path analysis says of the stack. *)

InLoop(q, j) == \E i \in 1..j : q[i].loop
OnlyCalls(b) == \A i \in DOMAIN b : b[i].op = "call"

(* what is left of every block is well formed where it stands; only the     *)
(* calls of defers stand behind a statement that returns *)
PlacedAt(b, il) == OnlyCalls(b) \/ BuildBlock[b][il].ok
Placed(q) == \A j \in 1..Len(q) : PlacedAt(q[j].stmts, InLoop(q, j))

(* one of the blocks outside loops returns on every path *)
Sure(b) == BuildBlock[b][FALSE].rets /\ BuildBlock[b][FALSE].ok
Returning(q) == \E j \in 1..Len(q) : ~InLoop(q, j) /\ Sure(q[j].stmts)

(* the first statement does not return on every path *)
Passes(b) == \A il \in BOOLEAN : ~ReturnsOn(Head(b), BuildIn(BuildBlock, Head(b), il))

(* What BuildBlock says of a block, from its first statement and the rest.  *)
LEMMA BuildUnfold ==
  ASSUME NEW b \in Blocks, b # <<>>, NEW il \in BOOLEAN
  PROVE  LET inner == BuildIn(BuildBlock, Head(b), il)
         IN /\ BuildBlock[b][il].rets <=> ReturnsOn(Head(b), inner) \/ BuildBlock[Tail(b)][il].rets
            /\ BuildBlock[b][il].ok <=>
                 /\ \A j \in DOMAIN inner : inner[j].ok
                 /\ Head(b).op \in {"brk", "cont"} => il
                 /\ ReturnsOn(Head(b), inner) => \A i \in DOMAIN b : i > 1 => b[i].op = "call"
                 /\ ReturnsOn(Head(b), inner) \/ BuildBlock[Tail(b)][il].ok
  <1> DEFINE inner == BuildIn(BuildBlock, Head(b), il)
             R == ReturnsOn(Head(b), inner) \/ BuildBlock[Tail(b)][il].rets
             O == /\ \A j \in DOMAIN inner : inner[j].ok
                  /\ Head(b).op \in {"brk", "cont"} => il
                  /\ IF ReturnsOn(Head(b), inner) THEN \A i \in DOMAIN b : i > 1 => b[i].op = "call"
                                                 ELSE BuildBlock[Tail(b)][il].ok
  <1>1. BuildBlock[b][il] = BuildStep(BuildBlock, b, il)
    BY BuildIs
  <1>2. BuildStep(BuildBlock, b, il) = [rets |-> R, ok |-> O]
    BY Zenon DEF BuildStep
  <1>3. (R <=> ReturnsOn(Head(b), inner) \/ BuildBlock[Tail(b)][il].rets)
    BY Zenon
  <1>4. O <=> /\ \A j \in DOMAIN inner : inner[j].ok
              /\ Head(b).op \in {"brk", "cont"} => il
              /\ ReturnsOn(Head(b), inner) => \A i \in DOMAIN b : i > 1 => b[i].op = "call"
              /\ ReturnsOn(Head(b), inner) \/ BuildBlock[Tail(b)][il].ok
    <2> HIDE DEF inner
    <2> QED
      BY Zenon
  <1> HIDE DEF R, O
  <1>5. (BuildBlock[b][il].rets <=> R) /\ (BuildBlock[b][il].ok <=> O)
    <2>1. BuildBlock[b][il].rets = R /\ BuildBlock[b][il].ok = O
      BY <1>1, <1>2
    <2> QED
      BY <2>1
  <1> QED
    BY <1>3, <1>4, <1>5

(* The rest of a block is well formed like the block, and returns if the    *)
(* first statement does not.                                                *)
LEMMA BuildTail ==
  ASSUME NEW b \in Blocks, b # <<>>, NEW il \in BOOLEAN
  PROVE  /\ PlacedAt(b, il) => PlacedAt(Tail(b), il)
         /\ Passes(b) /\ Sure(b) => Sure(Tail(b))
  <1>1. b \in Seq(Stmts) /\ Tail(b) \in Blocks
    BY BlockIs
  <1>2. \A i \in DOMAIN Tail(b) : i + 1 \in DOMAIN b /\ Tail(b)[i] = b[i + 1] /\ i + 1 > 1
    <2> HIDE DEF Stmts
    <2>1. Len(b) \in Nat /\ DOMAIN b = 1..Len(b) /\ Tail(b) \in Seq(Stmts) /\ Len(Tail(b)) = Len(b) - 1
      BY <1>1, LenProperties, HeadTailProperties
    <2>2. DOMAIN Tail(b) = 1..Len(b) - 1
      BY <2>1, LenProperties
    <2>3. \A i \in 1..Len(b) - 1 : i + 1 \in 1..Len(b) /\ i + 1 > 1
      BY <2>1
    <2>4. \A i \in 1..Len(Tail(b)) : Tail(b)[i] = b[i + 1]
      BY <1>1, HeadTailProperties
    <2> QED
      BY <2>1, <2>2, <2>3, <2>4
  <1>3. OnlyCalls(b) => OnlyCalls(Tail(b))
    BY <1>2 DEF OnlyCalls
  <1> DEFINE ret == ReturnsOn(Head(b), BuildIn(BuildBlock, Head(b), il))
  <1>4. BuildBlock[b][il].ok =>
          IF ret THEN \A i \in DOMAIN b : i > 1 => b[i].op = "call" ELSE BuildBlock[Tail(b)][il].ok
    BY BuildUnfold
  <1>5. BuildBlock[b][il].ok => PlacedAt(Tail(b), il)
    BY <1>2, <1>4 DEF PlacedAt, OnlyCalls
  <1>6. ASSUME Passes(b), Sure(b) PROVE Sure(Tail(b))
    <2>2. ~ReturnsOn(Head(b), BuildIn(BuildBlock, Head(b), FALSE))
      BY <1>6 DEF Passes
    <2>3. /\ BuildBlock[b][FALSE].rets => BuildBlock[Tail(b)][FALSE].rets
          /\ BuildBlock[b][FALSE].ok => BuildBlock[Tail(b)][FALSE].ok
      BY <2>2, BuildUnfold
    <2> QED
      BY <1>6, <2>3 DEF Sure
  <1> QED
    BY <1>3, <1>5, <1>6 DEF PlacedAt

(* So is a block of the first statement; one of a statement that is not a   *)
(* loop returns unless the rest does.                                       *)
LEMMA BuildSub ==
  ASSUME NEW b \in Blocks, b # <<>>, NEW il \in BOOLEAN, NEW j \in DOMAIN Head(b).subs, Head(b).op # "call"
  PROVE  /\ PlacedAt(b, il) => PlacedAt(Head(b).subs[j], il \/ Head(b).op \in Loops)
         /\ Sure(b) /\ Head(b).op \in {"if", "switch", "block"} => Sure(Head(b).subs[j]) \/ Sure(Tail(b))
  <1> DEFINE s == Head(b)
  <1>1. b \in Seq(Stmts)
    BY BlockIs
  <1>2. ~OnlyCalls(b)
    <2> HIDE DEF Stmts
    <2>1. 1 \in DOMAIN b /\ Head(b) = b[1]
      BY <1>1, HeadTailProperties, EmptySeq
    <2> QED
      BY <2>1 DEF OnlyCalls
  <1>3. \A l \in BOOLEAN : BuildBlock[b][l].ok => BuildBlock[s.subs[j]][l \/ s.op \in Loops].ok
    <2> SUFFICES ASSUME NEW l \in BOOLEAN, BuildBlock[b][l].ok
                 PROVE  BuildBlock[s.subs[j]][l \/ s.op \in Loops].ok
      OBVIOUS
    <2>2. \A i \in DOMAIN BuildIn(BuildBlock, s, l) : BuildIn(BuildBlock, s, l)[i].ok
      BY BuildUnfold
    <2> QED
      BY <2>2 DEF BuildIn
  <1>4. ASSUME Sure(b), s.op \in {"if", "switch", "block"} PROVE Sure(s.subs[j]) \/ Sure(Tail(b))
    <2>2. CASE ReturnsOn(s, BuildIn(BuildBlock, s, FALSE))
      <3>1. \A i \in DOMAIN BuildIn(BuildBlock, s, FALSE) : BuildIn(BuildBlock, s, FALSE)[i].rets
        BY <1>4, <2>2 DEF ReturnsOn
      <3>2. BuildBlock[s.subs[j]][FALSE \/ s.op \in Loops].rets
        BY <3>1 DEF BuildIn
      <3>3. (FALSE \/ s.op \in Loops) = FALSE
        BY <1>4 DEF Loops
      <3>4. BuildBlock[s.subs[j]][FALSE].ok
        BY <1>3, <1>4, <3>3 DEF Sure
      <3> QED
        BY <3>2, <3>3, <3>4 DEF Sure
    <2>3. CASE ~ReturnsOn(s, BuildIn(BuildBlock, s, FALSE))
      <3>1. /\ BuildBlock[b][FALSE].rets => BuildBlock[Tail(b)][FALSE].rets
            /\ BuildBlock[b][FALSE].ok => BuildBlock[Tail(b)][FALSE].ok
        BY <2>3, BuildUnfold
      <3> QED
        BY <1>4, <3>1 DEF Sure
    <2> QED
      BY <2>2, <2>3
  <1> QED
    BY <1>2, <1>3, <1>4 DEF PlacedAt

(* What a step leaves of the block m it goes down to, and of the block      *)
(* around one that it enters.                                               *)
Kept(q, m, b) == \/ b = q[m].stmts
                 \/ q[m].stmts # <<>> /\ b = Tail(q[m].stmts) /\ Passes(q[m].stmts)
Goes(q, r) ==
  \E m \in 1..Len(q) : \E b, p :
    /\ To(q, r, m, b, p) /\ Kept(q, m, b)
    /\ \A j \in m + 1..Len(q) : InLoop(q, j) \/ q[j].stmts = <<>>
Enters(q, r) ==
  LET o == q[Len(q)].stmts
  IN /\ o # <<>> /\ Head(o).op \in Loops \cup {"if", "switch", "block"}
     /\ \E j \in DOMAIN Head(o).subs : \E p :
          IF Head(o).op \in Loops THEN In(q, r, o, p, Head(o).subs[j], TRUE)
                                  ELSE In(q, r, Tail(o), p, Head(o).subs[j], FALSE)

Entered(q, r, j, b, p, lp) ==
  LET o == q[Len(q)].stmts
  IN /\ In(q, r, b, p, Head(o).subs[j], lp)
     /\ b = IF lp THEN o ELSE Tail(o)
     /\ lp \in BOOLEAN /\ lp = (Head(o).op \in Loops)

(* The two ways to enter a block in one form.                               *)
LEMMA EntersAs ==
  ASSUME NEW q, NEW r, Enters(q, r)
  PROVE  \E j \in DOMAIN Head(q[Len(q)].stmts).subs : \E b, p, lp : Entered(q, r, j, b, p, lp)
  <1> DEFINE o == q[Len(q)].stmts
             s == Head(o)
  <1>1. PICK j \in DOMAIN s.subs : \E p :
            IF s.op \in Loops THEN In(q, r, o, p, s.subs[j], TRUE) ELSE In(q, r, Tail(o), p, s.subs[j], FALSE)
    BY Zenon DEF Enters
  <1>2. PICK p : IF s.op \in Loops THEN In(q, r, o, p, s.subs[j], TRUE) ELSE In(q, r, Tail(o), p, s.subs[j], FALSE)
    BY <1>1
  <1> HIDE DEF o, s
  <1>3. CASE s.op \in Loops
    <2>0. (s.op \in Loops) = TRUE
      BY <1>3
    <2>1. In(q, r, o, p, s.subs[j], TRUE)
      BY <1>2, <1>3, Zenon
    <2>2. Entered(q, r, j, o, p, TRUE)
      BY <2>0, <2>1, Zenon DEF Entered, o, s
    <2> QED
      BY <2>2, Zenon DEF o, s
  <1>4. CASE s.op \notin Loops
    <2>0. (s.op \in Loops) = FALSE
      BY <1>4
    <2>1. In(q, r, Tail(o), p, s.subs[j], FALSE)
      BY <1>2, <1>4, Zenon
    <2>2. Entered(q, r, j, Tail(o), p, FALSE)
      BY <2>0, <2>1, Zenon DEF Entered, o, s
    <2> QED
      BY <2>2, Zenon DEF o, s
  <1> QED
    BY <1>3, <1>4, Zenon

(* The statements that do not return on every path.                         *)
LEMMA PassesIs ==
  ASSUME NEW b \in Blocks, b # <<>>,
         \/ Head(b).op \notin {"ret", "block", "if", "switch"}
         \/ Head(b).op = "if" /\ Head(b).subs[2] = <<>>
         \/ Head(b).op = "switch" /\ ~Head(b).dflt
  PROVE  Passes(b)
  <1> DEFINE s == Head(b)
  <1>0. s \in Stmts
    BY BlockIs
  <1> SUFFICES ASSUME NEW il \in BOOLEAN, ReturnsOn(s, BuildIn(BuildBlock, s, il)) PROVE FALSE
    BY DEF Passes
  <1>1. s.op = "if" /\ s.subs[2] = <<>>
    BY Zenon DEF ReturnsOn
  <1> HIDE DEF s
  <1>a. \A j \in DOMAIN BuildIn(BuildBlock, s, il) : BuildIn(BuildBlock, s, il)[j].rets
    BY <1>1 DEF ReturnsOn
  <1>3. 2 \in DOMAIN s.subs
    BY <1>0, <1>1, SubsAre
  <1>2. /\ 2 \in DOMAIN BuildIn(BuildBlock, s, il)
        /\ BuildIn(BuildBlock, s, il)[2] = BuildBlock[s.subs[2]][il \/ s.op \in Loops]
    BY <1>3, Zenon DEF BuildIn
  <1>4. BuildBlock[<<>>][il \/ s.op \in Loops].rets
    BY <1>1, <1>2, <1>a
  <1>5. BuildBlock[<<>>][il \/ s.op \in Loops] = BuildStep(BuildBlock, <<>>, il \/ s.op \in Loops)
    BY BlockIs, BuildIs
  <1> QED
    BY <1>4, <1>5 DEF BuildStep

(* Every step of an evaluation keeps the shape of the stack.                *)
LEMMA Coarsely ==
  ASSUME Shape(k), k # <<>>, Evaluates
  PROVE  \/ Ended
         \/ Dropped /\ Len(k) = 1
         \/ Shape(k') /\ k' # <<>> /\ (Goes(k, k') \/ Enters(k, k'))
  <1> DEFINE n == Len(k)
             o == Top.stmts
  <1>1. n \in 1..n /\ n \in Nat /\ o = k[n].stmts
    <2>1. n \in Nat /\ n # 0
      BY LenProperties, EmptySeq DEF Shape
    <2> QED
      BY <2>1 DEF Top
  <1>2. /\ o \in Blocks /\ Top.part \in PartNames /\ Fits(Top)
        /\ o # <<>> => Stmt \in Stmts /\ Stmt = Head(o) /\ Tail(o) \in Blocks
    BY <1>1, FrameIs DEF Top, Stmt
  <1> HIDE DEF n, o
  <1>3. ASSUME NEW b, NEW p, On(b, p), Kept(k, n, b), Fits(k'[n]) PROVE Shape(k') /\ Goes(k, k')
    <2>1. To(k, k', n, b, p)
      BY <1>3 DEF On, n
    <2>2. Shape(k')
      BY <1>3, <2>1, ShapeTo
    <2>3. \A j \in n + 1..Len(k) : FALSE
      BY <1>1 DEF n
    <2> QED
      BY <1>1, <1>3, <2>1, <2>2, <2>3 DEF Goes, n
  <1>4. ASSUME On(Tail(o), "stmt"), o # <<>>, Passes(o) PROVE Shape(k') /\ Goes(k, k')
    <2>1. Fits(k'[n])
      BY <1>4 DEF On, To, n, Fits
    <2>2. Kept(k, n, Tail(o))
      BY <1>1, <1>4 DEF Kept
    <2> QED
      BY <1>3, <1>4, <2>1, <2>2
  <1>5. ASSUME NEW p, On(o, p),
               p \notin {"open", "stmt"} => o # <<>>, p = "test" => Stmt.op = "while", p = "until" => Stmt.op = "dowhile",
               p \in {"init", "head", "update"} => Stmt.op = "for",
               p = "init" => Stmt.init # <<>>, p = "update" => Stmt.update # <<>>
        PROVE  Shape(k') /\ Goes(k, k')
    <2>1. k'[n].stmts = o /\ k'[n].part = p
      BY <1>5 DEF On, To, n
    <2>2. Fits(k'[n])
      BY <1>5, <2>1 DEF Fits, Stmt, o
    <2>3. Kept(k, n, o)
      BY <1>1 DEF Kept
    <2> QED
      BY <1>3, <1>5, <2>2, <2>3
  <1>6. ASSUME NEW p, NEW j \in DOMAIN Stmt.subs, In(k, k', o, p, Stmt.subs[j], TRUE), o # <<>>,
               p \in Rounds, p = "test" => Stmt.op = "while", p = "until" => Stmt.op = "dowhile",
               p \in {"head", "update"} => Stmt.op = "for", p = "update" => Stmt.update # <<>>
        PROVE  Shape(k') /\ Enters(k, k')
    <2>1. k'[n].stmts = o /\ k'[n].part = p
      BY <1>6 DEF In, n
    <2>2. Fits(k'[n])
      BY <1>6, <2>1 DEF Fits, Stmt, o, Rounds
    <2>3. Shape(k')
      BY <1>6, <2>2, ShapeIn DEF n
    <2>4. Stmt.op \in Loops
      BY <1>6 DEF Rounds, Loops
    <2> QED
      BY <1>1, <1>2, <1>6, <2>3, <2>4 DEF Enters, n
  <1>7. ASSUME Goes(k, k') \/ Enters(k, k') PROVE k' # <<>>
    <2>1. CASE Goes(k, k')
      <3>1. PICK m \in 1..Len(k) : \E b, p : To(k, k', m, b, p)
        BY <2>1, Zenon DEF Goes
      <3>2. Len(k') = m
        BY <3>1 DEF To
      <3> QED
        BY <1>1, <3>2 DEF n
    <2>2. CASE Enters(k, k')
      <3>1. \E b, p, c, lp : In(k, k', b, p, c, lp)
        BY <2>2, EntersAs, Zenon DEF Entered
      <3>2. Len(k') = n + 1
        BY <3>1 DEF In, n
      <3> QED
        BY <1>1, <3>2
    <2> QED
      BY <1>7, <2>1, <2>2
  <1> SUFFICES \/ Ended
               \/ Dropped /\ Len(k) = 1
               \/ Shape(k') /\ (Goes(k, k') \/ Enters(k, k'))
    BY <1>7
  <1>8. CASE Straight
    <2>1. o # <<>> /\ Passes(o)
      BY <1>2, <1>8, PassesIs DEF Straight, AtStmt, o
    <2> QED
      BY <1>4, <1>8, <2>1 DEF Straight, o
  <1>9. CASE Skip
    <2>1. o # <<>> /\ Passes(o)
      BY <1>2, <1>9, PassesIs DEF Skip, AtStmt, o
    <2> QED
      BY <1>4, <1>9, <2>1 DEF Skip, o
  <1>10. CASE Arm
    <2>1. AtStmt({"if", "switch", "block"}) /\ o # <<>>
      BY <1>10 DEF Arm, AtStmt, o
    <2>2. PICK j \in DOMAIN Stmt.subs : In(k, k', Tail(o), "stmt", Stmt.subs[j], FALSE)
      BY <1>10 DEF Arm, o
    <2>3. Fits(k'[n])
      BY <2>2 DEF In, Fits, n
    <2>4. Shape(k')
      BY <2>2, <2>3, ShapeIn DEF n
    <2>5. Stmt.op \in {"if", "switch", "block"} /\ Stmt.op \notin Loops
      BY <2>1 DEF AtStmt, Loops
    <2>6. Enters(k, k')
      BY <1>1, <1>2, <2>1, <2>2, <2>5 DEF Enters, n
    <2> QED
      BY <2>4, <2>6
  <1>11. CASE Opened
    BY <1>5, <1>11 DEF Opened, o
  <1>12. CASE Begun
    <2>1. CASE AtStmt({"while"}) /\ On(o, "test")
      BY <1>5, <2>1 DEF AtStmt, o
    <2>2. CASE AtStmt({"for"}) /\ On(o, IF Stmt.init = <<>> THEN "head" ELSE "init")
      <3> DEFINE p == IF Stmt.init = <<>> THEN "head" ELSE "init"
      <3>1. p \in {"head", "init"} /\ (p = "init" => Stmt.init # <<>>)
        OBVIOUS
      <3>2. On(o, p)
        BY <2>2
      <3>3. o # <<>> /\ Stmt.op = "for"
        BY <2>2 DEF AtStmt, o
      <3> HIDE DEF p
      <3> QED
        BY <1>5, <3>1, <3>2, <3>3
    <2>3. CASE AtStmt({"dowhile"}) /\ In(k, k', o, "until", Stmt.subs[1], TRUE)
      <3>1. o # <<>> /\ Stmt.op = "dowhile"
        BY <2>3 DEF AtStmt, o
      <3>2. 1 \in DOMAIN Stmt.subs
        BY <1>2, <3>1, SubsAre DEF Loops
      <3> QED
        BY <1>6, <2>3, <3>1, <3>2 DEF Rounds
    <2> QED
      BY <1>12, <2>1, <2>2, <2>3 DEF Begun, o
  <1>13. CASE Tested
    <2>1. Top.part \in {"test", "until", "head"} /\ o # <<>>
      BY <1>2, <1>13 DEF Tested, Fits, o
    <2>2. /\ Top.part = "test" => Stmt.op = "while"
          /\ Top.part = "until" => Stmt.op = "dowhile"
          /\ Top.part = "head" => Stmt.op = "for"
      BY <1>2 DEF Fits, Stmt
    <2>3. CASE On(Tail(o), "stmt")
      <3>1. Passes(o)
        BY <1>2, <2>1, <2>2, PassesIs
      <3> QED
        BY <1>4, <2>1, <2>3, <3>1
    <2>4. ASSUME NEW p, Following(p), In(k, k', o, p, Stmt.subs[1], TRUE) PROVE Shape(k') /\ Enters(k, k')
      <3>1. Stmt.op \in Loops
        BY <2>1, <2>2 DEF Loops
      <3>2. 1 \in DOMAIN Stmt.subs
        BY <1>2, <2>1, <3>1, SubsAre
      <3>3. /\ p \in Rounds /\ (p = "test" => Stmt.op = "while") /\ (p = "until" => Stmt.op = "dowhile")
            /\ (p \in {"head", "update"} => Stmt.op = "for") /\ (p = "update" => Stmt.update # <<>>)
        BY <2>1, <2>2, <2>4 DEF Following, Rounds
      <3> QED
        BY <1>6, <2>1, <2>4, <3>2, <3>3
    <2> QED
      BY <1>13, <2>3, <2>4 DEF Tested, o
  <1>14. CASE HeaderDone
    <2>1. On(o, "head") /\ Top.part \in {"init", "update"}
      BY <1>14 DEF HeaderDone, o
    <2>2. o # <<>> /\ Stmt.op = "for"
      BY <1>2, <2>1 DEF Fits, Stmt, o
    <2> QED
      BY <1>5, <2>1, <2>2
  <1>15. CASE Ended
    BY <1>15
  <1>16. CASE Jumped
    <2>1. PICK m \in 1..Len(k) : /\ Around(m)
            /\ \/ AtStmt({"brk"}) /\ To(k, k', m, Tail(k[m].stmts), "stmt")
               \/ AtStmt({"cont"}) /\ To(k, k', m, k[m].stmts, k[m].part)
      BY <1>16 DEF Jumped
    <2>2. /\ k[m].stmts # <<>> /\ k[m].stmts \in Blocks /\ Head(k[m].stmts).op \in Loops /\ Fits(k[m])
      <3>1. k[m].stmts \in Blocks /\ Fits(k[m]) /\ k[m].part \in Rounds
        BY <2>1, FrameIs DEF Around
      <3> QED
        BY <3>1 DEF Fits, Rounds, Loops
    <2>3. Passes(k[m].stmts)
      BY <2>2, PassesIs DEF Loops
    <2>4. \A j \in m + 1..Len(k) : InLoop(k, j)
      <3>1. m + 1 \in 2..Len(k) /\ k[m + 1].loop /\ Len(k) \in Nat
        BY <1>1, <2>1 DEF Around, n
      <3> QED
        BY <3>1 DEF InLoop
    <2>5. PICK b, p : To(k, k', m, b, p) /\ Kept(k, m, b) /\ Fits(k'[m])
      <3>1. CASE To(k, k', m, Tail(k[m].stmts), "stmt")
        <4>1. Fits(k'[m])
          BY <3>1 DEF To, Fits
        <4>2. Kept(k, m, Tail(k[m].stmts))
          BY <2>2, <2>3 DEF Kept
        <4> QED
          BY <3>1, <4>1, <4>2
      <3>2. CASE To(k, k', m, k[m].stmts, k[m].part)
        <4>1. Fits(k'[m])
          BY <2>2, <3>2 DEF To, Fits
        <4>2. Kept(k, m, k[m].stmts)
          BY DEF Kept
        <4> QED
          BY <3>2, <4>1, <4>2
      <3> QED
        BY <2>1, <3>1, <3>2
    <2>6. Shape(k')
      BY <2>5, ShapeTo
    <2> QED
      BY <2>4, <2>5, <2>6 DEF Goes
  <1>17. CASE Dropped
    <2>1. CASE Len(k) = 1
      BY <1>17, <2>1
    <2>2. CASE Len(k) # 1
      <3> DEFINE m == Len(k) - 1
      <3>1. To(k, k', m, k[m].stmts, k[m].part)
        BY <1>17, <2>2 DEF Dropped
      <3>0. \A i \in Nat : i \in 1..i /\ i # 1 => i - 1 \in 1..i /\ \A j \in (i - 1) + 1..i : j = i
        OBVIOUS
      <3>2. m \in 1..Len(k) /\ \A j \in m + 1..Len(k) : j = n
        BY <1>1, <2>2, <3>0, Zenon DEF n
      <3>3. k[n].stmts = <<>>
        BY <1>1, <1>17 DEF Dropped, o
      <3> HIDE DEF m
      <3>4. Fits(k'[m])
        <4>1. Fits(k[m])
          BY <3>2, FrameIs
        <4> QED
          BY <3>1, <4>1 DEF To, Fits
      <3>5. Shape(k')
        BY <3>1, <3>4, ShapeTo
      <3>6. Kept(k, m, k[m].stmts)
        BY DEF Kept
      <3>7. \A j \in m + 1..Len(k) : k[j].stmts = <<>>
        BY <3>2, <3>3
      <3> QED
        BY <3>1, <3>2, <3>5, <3>6, <3>7 DEF Goes
    <2> QED
      BY <2>1, <2>2
  <1> QED
    BY <1>8, <1>9, <1>10, <1>11, <1>12, <1>13, <1>14, <1>15, <1>16, <1>17 DEF Evaluates

(* A step to block m leaves the loops around the blocks down to it.         *)
LEMMA LoopsTo ==
  ASSUME NEW q, NEW r, NEW m, NEW b, NEW p, To(q, r, m, b, p), NEW j \in 1..m
  PROVE  InLoop(r, j) = InLoop(q, j)
  <1>1. \A i \in 1..m : r[i].loop = q[i].loop
    BY DEF To
  <1>2. \A i \in 1..j : i \in 1..m
    BY DEF To
  <1> QED
    BY <1>1, <1>2, Zenon DEF InLoop

(* The loops around the blocks, once a block has been entered.              *)
LEMMA LoopsIn ==
  ASSUME NEW q, Shape(q), NEW r, NEW b, NEW p, NEW c, NEW lp \in BOOLEAN, In(q, r, b, p, c, lp)
  PROVE  /\ \A j \in 1..Len(q) : InLoop(r, j) = InLoop(q, j)
         /\ InLoop(r, Len(q) + 1) = (InLoop(q, Len(q)) \/ lp)
  <1> DEFINE n == Len(q)
  <1>0. n \in Nat /\ n \in 1..n
    BY DEF In, Shape
  <1>1. (\A i \in 1..n : r[i].loop = q[i].loop) /\ r[n + 1].loop = lp
    BY <1>0 DEF In
  <1> HIDE DEF n
  <1>2. ASSUME NEW j \in 1..n PROVE InLoop(r, j) = InLoop(q, j)
    <2>1. \A i \in 1..j : i \in 1..n
      BY <1>0
    <2> QED
      BY <1>1, <2>1, Zenon DEF InLoop
  <1>3. 1..n + 1 = (1..n) \cup {n + 1}
    BY <1>0
  <1>4. InLoop(r, n + 1) <=> (\E i \in 1..n : r[i].loop) \/ lp
    BY <1>1, <1>3, Zenon DEF InLoop
  <1>5. InLoop(r, n + 1) <=> InLoop(q, n) \/ lp
    BY <1>1, <1>4, Zenon DEF InLoop
  <1>6. InLoop(r, n + 1) \in BOOLEAN /\ InLoop(q, n) \in BOOLEAN
    BY Zenon DEF InLoop
  <1> QED
    BY <1>2, <1>5, <1>6, Zenon DEF n

(* A step leaves well formed what is left of the blocks.                    *)
LEMMA KeepsPlaced ==
  ASSUME NEW q, NEW r, Shape(q), Placed(q), Goes(q, r) \/ Enters(q, r)
  PROVE  Placed(r)
  <1>0. \A j : InLoop(q, j) \in BOOLEAN
    BY Zenon DEF InLoop
  <1>1. CASE Goes(q, r)
    <2>1. PICK m \in 1..Len(q) : \E b, p : To(q, r, m, b, p) /\ Kept(q, m, b)
      BY <1>1, Zenon DEF Goes
    <2>a. PICK b, p : To(q, r, m, b, p) /\ Kept(q, m, b)
      BY <2>1
    <2>2. q[m].stmts \in Blocks /\ PlacedAt(q[m].stmts, InLoop(q, m))
      BY FrameIs DEF Placed
    <2>3. PlacedAt(b, InLoop(q, m))
      <3>1. CASE b = q[m].stmts
        BY <2>2, <3>1
      <3>2. CASE q[m].stmts # <<>> /\ b = Tail(q[m].stmts)
        BY <1>0, <2>2, <3>2, BuildTail
      <3> QED
        BY <2>a, <3>1, <3>2 DEF Kept
    <2>4. ASSUME NEW j \in 1..m PROVE PlacedAt(r[j].stmts, InLoop(r, j))
      <3>1. InLoop(r, j) = InLoop(q, j)
        BY <2>a, LoopsTo, Zenon
      <3>2. CASE j = m
        <4>1. r[m].stmts = b
          BY <2>a DEF To
        <4> QED
          BY <2>3, <3>1, <3>2, <4>1, Zenon
      <3>3. CASE j # m
        <4>1. r[j] = q[j] /\ j \in 1..Len(q)
          BY <2>a, <3>3 DEF To
        <4>2. PlacedAt(q[j].stmts, InLoop(q, j))
          BY <4>1, Zenon DEF Placed
        <4> QED
          BY <3>1, <4>1, <4>2, Zenon
      <3> QED
        BY <3>2, <3>3
    <2>5. Len(r) = m
      BY <2>a DEF To
    <2> QED
      BY <2>4, <2>5, Zenon DEF Placed
  <1>2. CASE Enters(q, r)
    <2> DEFINE n == Len(q)
               o == q[n].stmts
               s == Head(o)
    <2>1. PICK j \in DOMAIN s.subs : \E b, p, lp : Entered(q, r, j, b, p, lp)
      BY <1>2, EntersAs, Zenon
    <2>2. o # <<>> /\ s.op \in Loops \cup {"if", "switch", "block"}
      BY <1>2, Zenon DEF Enters
    <2>3. PICK b, p, lp : /\ In(q, r, b, p, s.subs[j], lp) /\ b = IF lp THEN o ELSE Tail(o)
                          /\ lp \in BOOLEAN /\ lp = (s.op \in Loops)
      BY <2>1, Zenon DEF Entered
    <2>4. n \in 1..n /\ n \in Nat
      BY <2>3 DEF In, Shape
    <2>5. o \in Blocks /\ PlacedAt(o, InLoop(q, n))
      BY <2>4, FrameIs DEF Placed
    <2> HIDE DEF o, n
    <2>6. PlacedAt(b, InLoop(q, n))
      BY <1>0, <2>2, <2>3, <2>5, BuildTail
    <2>7. PlacedAt(s.subs[j], InLoop(q, n) \/ lp)
      <3>1. s.op # "call"
        BY <2>2 DEF Loops
      <3>2. PlacedAt(s.subs[j], InLoop(q, n) \/ s.op \in Loops)
        BY <1>0, <2>2, <2>5, <3>1, BuildSub
      <3> QED
        BY <2>3, <3>2, Zenon
    <2>8. /\ \A i \in 1..n : InLoop(r, i) = InLoop(q, i)
          /\ InLoop(r, n + 1) = (InLoop(q, n) \/ lp)
      BY <2>3, LoopsIn, Zenon DEF n
    <2>9. ASSUME NEW i \in 1..n + 1 PROVE PlacedAt(r[i].stmts, InLoop(r, i))
      <3>1. CASE i = n + 1
        <4>1. r[n + 1].stmts = s.subs[j]
          BY <2>3 DEF In, n
        <4> QED
          BY <2>7, <2>8, <3>1, <4>1, Zenon
      <3>2. CASE i = n
        <4>1. r[n].stmts = b
          BY <2>3 DEF In, n
        <4> QED
          BY <2>4, <2>6, <2>8, <3>2, <4>1, Zenon
      <3>3. CASE i # n + 1 /\ i # n
        <4>0. i \in 1..n - 1 /\ i \in 1..n
          BY <2>4, <3>3
        <4>1. r[i] = q[i]
          BY <2>3, <4>0 DEF In, n
        <4>2. PlacedAt(q[i].stmts, InLoop(q, i))
          BY <4>0, Zenon DEF Placed, n
        <4> QED
          BY <2>8, <4>0, <4>1, <4>2, Zenon
      <3> QED
        BY <3>1, <3>2, <3>3
    <2>10. Len(r) = n + 1
      BY <2>3 DEF In, n
    <2> QED
      BY <2>9, <2>10, Zenon DEF Placed
  <1> QED
    BY <1>1, <1>2

(* A step leaves some block outside the loops that is sure to return.       *)
LEMMA KeepsReturning ==
  ASSUME NEW q, NEW r, Shape(q), Returning(q), Goes(q, r) \/ Enters(q, r)
  PROVE  Returning(r)
  <1>0. PICK j \in 1..Len(q) : ~InLoop(q, j) /\ Sure(q[j].stmts)
    BY DEF Returning
  <1>1. q[j].stmts \in Blocks /\ q[j].stmts # <<>>
    <2>1. q[j].stmts \in Blocks
      BY FrameIs
    <2>2. BuildBlock[<<>>][FALSE] = BuildStep(BuildBlock, <<>>, FALSE)
      BY BlockIs, BuildIs
    <2>3. ~Sure(<<>>)
      BY <2>2 DEF Sure, BuildStep
    <2> QED
      BY <1>0, <2>1, <2>3
  <1>2. CASE Goes(q, r)
    <2>0. PICK m \in 1..Len(q) : \E b, p : /\ To(q, r, m, b, p) /\ Kept(q, m, b)
                                           /\ \A i \in m + 1..Len(q) : InLoop(q, i) \/ q[i].stmts = <<>>
      BY <1>2, Zenon DEF Goes
    <2>1. PICK b, p : /\ To(q, r, m, b, p) /\ Kept(q, m, b)
                      /\ \A i \in m + 1..Len(q) : InLoop(q, i) \/ q[i].stmts = <<>>
      BY <2>0
    <2>2. Len(q) \in Nat /\ Len(r) = m
      BY <2>1 DEF Shape, To
    <2>3. j \in 1..m
      <3>1. j \notin m + 1..Len(q)
        BY <1>0, <1>1, <2>1
      <3> QED
        BY <2>2, <3>1
    <2>4. ~InLoop(r, j)
      BY <1>0, <2>1, <2>3, LoopsTo, Zenon
    <2>5. CASE j = m
      <3>1. r[j].stmts = b
        BY <2>1, <2>5 DEF To
      <3>2. Sure(b)
        BY <1>0, <1>1, <2>1, <2>5, BuildTail DEF Kept
      <3> QED
        BY <2>2, <2>3, <2>4, <3>1, <3>2 DEF Returning
    <2>6. CASE j # m
      <3>1. r[j] = q[j]
        BY <2>1, <2>3, <2>6 DEF To
      <3> QED
        BY <1>0, <2>2, <2>3, <2>4, <3>1 DEF Returning
    <2> QED
      BY <2>5, <2>6
  <1>3. CASE Enters(q, r)
    <2> DEFINE n == Len(q)
               o == q[n].stmts
               s == Head(o)
    <2>1. PICK i \in DOMAIN s.subs : \E b, p, lp : Entered(q, r, i, b, p, lp)
      BY <1>3, EntersAs, Zenon
    <2>2. o # <<>> /\ s.op \in Loops \cup {"if", "switch", "block"}
      BY <1>3, Zenon DEF Enters
    <2>3. PICK b, p, lp : /\ In(q, r, b, p, s.subs[i], lp) /\ b = IF lp THEN o ELSE Tail(o)
                          /\ lp \in BOOLEAN /\ lp = (s.op \in Loops)
      BY <2>1, Zenon DEF Entered
    <2>4. n \in 1..n /\ n \in Nat /\ Len(r) = n + 1 /\ r[n].stmts = b /\ r[n + 1].stmts = s.subs[i]
      BY <2>3 DEF In, Shape
    <2>5. o \in Blocks
      BY <2>4, FrameIs
    <2>6. \A l \in 1..n - 1 : r[l] = q[l]
      BY <2>3 DEF In
    <2> HIDE DEF n, o
    <2>8. /\ \A l \in 1..n : InLoop(r, l) = InLoop(q, l)
          /\ InLoop(r, n + 1) = (InLoop(q, n) \/ lp)
      BY <2>3, LoopsIn, Zenon DEF n
    <2>9. j \in 1..n /\ j \in 1..Len(r) /\ ~InLoop(r, j)
      BY <1>0, <2>4, <2>8 DEF n
    <2>10. CASE j # n
      <3>1. r[j] = q[j]
        BY <2>4, <2>6, <2>9, <2>10
      <3> QED
        BY <1>0, <2>9, <3>1 DEF Returning
    <2>11. CASE j = n /\ lp
      <3>1. r[j].stmts = o
        BY <2>3, <2>4, <2>11
      <3>2. Sure(o)
        BY <1>0, <2>11 DEF o
      <3> QED
        BY <2>9, <3>1, <3>2 DEF Returning
    <2>12. CASE j = n /\ ~lp
      <3>1. Sure(o)
        BY <1>0, <2>12 DEF o
      <3>2. s.op \in {"if", "switch", "block"} /\ s.op # "call"
        BY <2>2, <2>3, <2>12 DEF Loops
      <3>3. Sure(s.subs[i]) \/ Sure(Tail(o))
        BY <2>2, <2>5, <3>1, <3>2, BuildSub
      <3>4. CASE Sure(Tail(o))
        <4>1. r[j].stmts = Tail(o)
          BY <2>3, <2>4, <2>12
        <4> QED
          BY <2>9, <3>4, <4>1 DEF Returning
      <3>5. CASE Sure(s.subs[i])
        <4>1. n + 1 \in 1..Len(r)
          BY <2>4
        <4>2. ~InLoop(r, n + 1)
          BY <1>0, <2>8, <2>12
        <4> QED
          BY <2>4, <3>5, <4>1, <4>2 DEF Returning
      <3> QED
        BY <3>3, <3>4, <3>5
    <2> QED
      BY <2>3, <2>10, <2>11, <2>12
  <1> QED
    BY <1>2, <1>3


-----------------------------------------------------------------------------
(* What every step of an evaluation does. *)

(* Every step while the body is evaluated is one of those above.            *)
LEMMA EvaluationSteps ==
  ASSUME phase = "run", k # <<>>, Shape(k), Placed(k), x \in BOOLEAN, uninit \in BOOLEAN, Next
  PROVE  /\ Evaluates /\ fn' = fn /\ body' = body
         /\ \/ /\ phase' = "run" /\ k' # <<>> /\ Shape(k') /\ Placed(k')
               /\ Goes(k, k') \/ Enters(k, k')
            \/ Ended
            \/ Dropped /\ Len(k) = 1 /\ phase' = "fell"
  <1>1. ~Build /\ ~Walk
    BY DEF Build, Walk
  <1>2. /\ fn' = fn /\ body' = body
    BY <1>1, Zenon DEF Next, Use, Set, Def, Call, Panic, Branch, Switch, Block, Open, While, WhileTest, DoWhile,
       DoTest, For, ForInit, ForTest, ForUpdate, Return, Break, Continue, Leave, Exceed, Exec, Pass, Test, Header, Jump
  <1>3. ASSUME Break \/ Continue PROVE \E j \in 1..Len(k) : k[j].loop
    <2>1. PICK op \in {"brk", "cont"} : Exec(op)
      <3>1. "brk" \in {"brk", "cont"} /\ "cont" \in {"brk", "cont"}
        OBVIOUS
      <3> QED
        BY <1>3, <3>1, Zenon DEF Break, Continue, Jump
    <2>2. op \in Ops
      BY DEF Ops, Jumps
    <2>3. AtStmt({op}) /\ Len(k) \in 1..Len(k) /\ Top \in Frame
      BY <2>1, <2>2, AheadIs, Zenon
    <2>4. Top.stmts # <<>> /\ Stmt.op = op /\ Stmt = Head(Top.stmts) /\ Top = k[Len(k)] /\ Top.stmts \in Blocks
      BY <2>3 DEF AtStmt, Stmt, Top, Frame
    <2>5. PlacedAt(Top.stmts, InLoop(k, Len(k)))
      BY <2>3, <2>4, Zenon DEF Placed
    <2>6. ~OnlyCalls(Top.stmts)
      <3>1. Top.stmts \in Seq(Stmts)
        BY <2>4, BlockIs
      <3> HIDE DEF Stmts
      <3>2. 1 \in DOMAIN Top.stmts /\ Head(Top.stmts) = Top.stmts[1]
        BY <2>4, <3>1, HeadTailProperties, EmptySeq
      <3> QED
        BY <2>1, <2>4, <3>2 DEF OnlyCalls
    <2>7. InLoop(k, Len(k)) \in BOOLEAN
      BY Zenon DEF InLoop
    <2>8. BuildBlock[Top.stmts][InLoop(k, Len(k))].ok
      BY <2>5, <2>6, Zenon DEF PlacedAt
    <2>9. Head(Top.stmts).op \in {"brk", "cont"} => InLoop(k, Len(k))
      BY <2>4, <2>7, <2>8, BuildUnfold, Zenon
    <2> QED
      BY <2>1, <2>4, <2>9 DEF InLoop
  <1>a. Leave \/ ~Done
    BY <1>1, Zenon DEF Next, Use, Set, Def, Call, Panic, Branch, Switch, Block, Open, While, WhileTest, DoWhile,
       DoTest, For, ForInit, ForTest, ForUpdate, Return, Break, Continue, Exceed, Exec, Pass, Test, Header, Jump
  <1>4. \/ Evaluates /\ phase' = "run" /\ ~Done
        \/ Ended
        \/ Dropped /\ phase' = IF Len(k) = 1 THEN "fell" ELSE "run"
    <2>1. CASE Leave
      BY <2>1, LeaveStep, Zenon
    <2>2. ASSUME ~Leave PROVE ~Done /\ ((Evaluates /\ phase' = "run") \/ Ended)
      <3>1. CASE Use \/ Set \/ Def \/ Call \/ Branch \/ Switch \/ Block
        BY <1>a, <2>2, <3>1, StmtSteps, Zenon
      <3>2. CASE Open \/ While \/ DoWhile \/ For \/ WhileTest \/ DoTest \/ ForTest \/ ForInit \/ ForUpdate
        BY <1>a, <2>2, <3>2, LoopSteps, Zenon
      <3>3. CASE Panic \/ Return \/ Exceed
        BY <1>a, <2>2, <3>3, EndSteps, Zenon
      <3>4. CASE Break \/ Continue
        BY <1>3, <1>a, <2>2, <3>4, JumpSteps, Zenon DEF Evaluates
      <3> QED
        BY <1>1, <2>2, <3>1, <3>2, <3>3, <3>4, Zenon DEF Next
    <2> QED
      BY <2>1, <2>2, Zenon
  <1>5. Evaluates
    BY <1>4, Zenon DEF Evaluates
  <1>6. \/ Ended
        \/ Dropped /\ Len(k) = 1
        \/ Shape(k') /\ k' # <<>> /\ (Goes(k, k') \/ Enters(k, k'))
    BY <1>5, Coarsely, Zenon
  <1>7. ASSUME Dropped, Len(k) = 1, ~Ended PROVE phase' = "fell"
    <2>1. Done
      BY <1>7 DEF Dropped, Done
    <2> QED
      BY <1>4, <1>7, <2>1
  <1> QED
    BY <1>2, <1>4, <1>5, <1>6, <1>7, KeepsPlaced, Zenon

(* The location is assigned or not, and has been read before that or not.   *)
LEMMA HistoryType ==
  ASSUME x \in BOOLEAN, uninit \in BOOLEAN, Next
  PROVE  x' \in BOOLEAN /\ uninit' \in BOOLEAN
  <1>1. ASSUME NEW s, Reading(s) PROVE uninit' \in BOOLEAN
    BY <1>1 DEF Reading
  <1>2. CASE Build \/ Walk \/ Def \/ Call \/ Panic \/ Block \/ Open \/ While \/ DoWhile \/ For \/ Break \/ Continue \/ Leave \/ Exceed
    BY <1>2, Zenon DEF Build, Walk, Def, Call, Panic, Block, Open, While, DoWhile, For, Break, Continue, Leave, Exceed, Pass, Jump
  <1>3. CASE Use \/ Branch \/ Switch \/ WhileTest \/ DoTest \/ ForTest \/ Return
    BY <1>1, <1>3, Zenon DEF Use, Branch, Switch, WhileTest, DoTest, ForTest, Test, Return
  <1>4. CASE Set
    BY <1>1, <1>4 DEF Set
  <1>5. CASE ForInit \/ ForUpdate
    <2>1. \E op, s : Header(op, s)
      BY <1>5, Zenon DEF ForInit, ForUpdate
    <2>2. PICK op, s : Header(op, s)
      BY <2>1
    <2> QED
      BY <1>1, <2>2 DEF Header
  <1> QED
    BY <1>2, <1>3, <1>4, <1>5, Zenon DEF Next

(* What holds throughout for the return paths.                              *)
ReturnInv ==
  /\ fn \in Functions /\ x \in BOOLEAN /\ uninit \in BOOLEAN
  /\ phase \in {"build", "walk", "run"} \cup Ends
  /\ phase = "build" => body = fn.body
  /\ phase = "walk" => body \in Blocks /\ BuildAccepts(fn, body)
  /\ phase = "run" => k # <<>> /\ Shape(k) /\ Placed(k) /\ (fn.value => Returning(k))
  /\ phase = "fell" => ~fn.value

(* An accepted body is entered as the only block.                           *)
LEMMA Entering ==
  ASSUME body \in Blocks
  PROVE  \E q : /\ q = Enter(body, FALSE, <<>>) /\ Len(q) = 1 /\ q # <<>> /\ Shape(q)
                /\ q[1].stmts = body /\ q[1].part = "open" /\ q[1].loop = FALSE
  <1> DEFINE f == [stmts |-> body, part |-> "open", loop |-> FALSE, reached |-> <<>>]
             q == Append(<<>>, f)
  <1>1. f \in Frame /\ f.stmts = body /\ f.part = "open" /\ f.loop = FALSE
    BY DEF Frame, PartNames
  <1> HIDE DEF f
  <1>2. q \in Seq(Frame) /\ Len(q) = 1 /\ q[1] = f /\ q # <<>>
    BY <1>1
  <1>3. Enter(body, FALSE, <<>>) = q
    BY DEF Enter, f
  <1> HIDE DEF q
  <1>4. Fits(f)
    BY <1>1 DEF Fits
  <1>5. Shape(q)
    BY <1>1, <1>2, <1>4 DEF Shape
  <1> QED
    BY <1>1, <1>2, <1>3, <1>5

(* ReturnInv holds at the start.                                            *)
LEMMA ReturnInvInit == Init => ReturnInv
  BY DEF Init, ReturnInv, Ends

(* Every step keeps ReturnInv.                                              *)
LEMMA ReturnInvNext ==
  ASSUME ReturnInv, [Next]_vars
  PROVE  ReturnInv'
  <1>1. CASE UNCHANGED vars
    BY <1>1 DEF vars, ReturnInv, Ends, Shape, Placed, Returning, PlacedAt, Sure, InLoop, OnlyCalls
  <1>2. CASE Build
    <2>1. fn.body \in Blocks /\ <<>> \in Seq(Nat)
      BY FuncBodyAssumption DEF ReturnInv
    <2>2. body' \in Blocks
      BY <1>2, <2>1, DesugarIs DEF Build, ReturnInv
    <2>3. /\ phase' \in {"walk", "rejected"} /\ (phase' = "walk" => BuildAccepts(fn, body'))
          /\ UNCHANGED <<fn, x, uninit>>
      BY <1>2 DEF Build
    <2> QED
      BY <2>2, <2>3 DEF ReturnInv, BuildAccepts, Ends
  <1>3. CASE Walk
    <2>1. body \in Blocks /\ BuildAccepts(fn, body) /\ UNCHANGED <<fn, x, uninit>>
      BY <1>3 DEF Walk, ReturnInv
    <2>2. \/ phase' = "rejected" /\ k' = <<>>
          \/ phase' = "run" /\ k' = Enter(body, FALSE, <<>>)
      BY <1>3 DEF Walk
    <2>3. CASE phase' = "run" /\ k' = Enter(body, FALSE, <<>>)
      <3>1. /\ Len(k') = 1 /\ k' # <<>> /\ Shape(k')
            /\ k'[1].stmts = body /\ k'[1].loop = FALSE
        BY <2>1, <2>3, Entering
      <3>2. InLoop(k', 1) = FALSE
        BY <3>1 DEF InLoop
      <3>3. BuildBlock[body][FALSE].ok /\ (fn.value => BuildBlock[body][FALSE].rets)
        BY <2>1 DEF BuildAccepts
      <3>4. 1..Len(k') = {1}
        BY <3>1
      <3>5. Placed(k')
        BY <3>1, <3>2, <3>3, <3>4 DEF Placed, PlacedAt
      <3>6. fn.value => Returning(k')
        BY <3>1, <3>2, <3>3, <3>4 DEF Returning, Sure
      <3> QED
        BY <2>1, <2>3, <3>1, <3>5, <3>6 DEF ReturnInv, Ends
    <2> QED
      BY <2>1, <2>2, <2>3 DEF ReturnInv, Ends
  <1>4. CASE Next /\ ~Build /\ ~Walk
    <2>1. phase = "run"
      BY <1>4, Zenon DEF Next, Use, Set, Def, Call, Panic, Branch, Switch, Block, Open, While, WhileTest, DoWhile,
        DoTest, For, ForInit, ForTest, ForUpdate, Return, Break, Continue, Leave, Exceed, Exec, Pass, Test, Header, Jump
    <2>2. k # <<>> /\ Shape(k) /\ Placed(k) /\ (fn.value => Returning(k)) /\ x \in BOOLEAN /\ uninit \in BOOLEAN
      BY <2>1 DEF ReturnInv
    <2>3. /\ Evaluates /\ fn' = fn /\ body' = body
          /\ \/ /\ phase' = "run" /\ k' # <<>> /\ Shape(k') /\ Placed(k')
                /\ Goes(k, k') \/ Enters(k, k')
             \/ Ended
             \/ Dropped /\ Len(k) = 1 /\ phase' = "fell"
      BY <1>4, <2>1, <2>2, EvaluationSteps, Zenon
    <2>4. x' \in BOOLEAN /\ uninit' \in BOOLEAN
      BY <1>4, <2>2, HistoryType, Zenon
    <2>5. CASE phase' = "run" /\ k' # <<>> /\ Shape(k') /\ Placed(k') /\ (Goes(k, k') \/ Enters(k, k'))
      <3>1. fn.value => Returning(k')
        BY <2>2, <2>5, KeepsReturning, Zenon
      <3> QED
        BY <2>3, <2>4, <2>5, <3>1 DEF ReturnInv, Ends
    <2>6. CASE Ended
      BY <2>1, <2>3, <2>4, <2>6 DEF Ended, ReturnInv, Ends
    <2>7. CASE Dropped /\ Len(k) = 1 /\ phase' = "fell"
      <3>1. ~fn.value
        <4> SUFFICES ASSUME Returning(k) PROVE FALSE
          BY <2>2
        <4>1. Sure(k[1].stmts)
          BY <2>7 DEF Returning
        <4>2. k[1].stmts = <<>>
          BY <2>7 DEF Dropped, Top
        <4>3. BuildBlock[<<>>][FALSE] = BuildStep(BuildBlock, <<>>, FALSE)
          BY BlockIs, BuildIs
        <4> QED
          BY <4>1, <4>2, <4>3 DEF Sure, BuildStep
      <3> QED
        BY <2>1, <2>3, <2>4, <2>7, <3>1 DEF ReturnInv, Ends
    <2> QED
      BY <2>3, <2>5, <2>6, <2>7
  <1> QED
    BY <1>1, <1>2, <1>3, <1>4 DEF Next

(* Return-path analysis is sound: build_func_tree rejects a function with a *)
(* result of which some execution runs into the end of the body             *)
(* (stmt_build_block.c), whatever its conditions evaluate to.               *)
THEOREM AlwaysReturnsCorrect == Spec => []AlwaysReturns
  <1>1. ReturnInv /\ [Next]_vars => ReturnInv'
    BY ReturnInvNext
  <1>2. ReturnInv => AlwaysReturns
    BY DEF ReturnInv, AlwaysReturns
  <1> QED
    BY ReturnInvInit, <1>1, <1>2, PTL DEF Spec


-----------------------------------------------------------------------------
(* What the analyses of the location compute. *)

Flows == [init : BOOLEAN, rets : BOOLEAN, ok : BOOLEAN]
WalkStep(g, b, init) ==
  IF b = <<>> THEN Flow(init, FALSE, TRUE)
  ELSE LET r    == WalkStmt(g, Head(b), init)
           rest == g[Tail(b)][r.init]
       IN IF r.rets THEN r ELSE Flow(rest.init, rest.rets, r.ok /\ rest.ok)

(* A judgement of definite assignment is one.                               *)
LEMMA FlowType ==
  ASSUME NEW i \in BOOLEAN, NEW r \in BOOLEAN, NEW o \in BOOLEAN
  PROVE  Flow(i, r, o) \in Flows
  BY DEF Flow, Flows

(* The cases of walk_stmt_impl.                                             *)
WalkCases(g, s, init, W) ==
  /\ s.op = "set" => W = Flow(TRUE, FALSE, Read(s, init))
  /\ s.op \in {"ret", "panic"} => W = Flow(init, TRUE, Read(s, init))
  /\ s.op = "block" => W = Flow(Arms(g, s, init)[1].init, Arms(g, s, init)[1].rets, Read(s, init) /\ AllOk(Arms(g, s, init)))
  /\ s.op = "if" => W = Flow(MeetIf(Arms(g, s, init)[1], Arms(g, s, init)[2]),
                             Arms(g, s, init)[1].rets /\ Arms(g, s, init)[2].rets,
                             Read(s, init) /\ AllOk(Arms(g, s, init)))
  /\ s.op = "switch" => W = Flow(MeetSwitch(s, init, Arms(g, s, init)), s.dflt /\ AllReturn(Arms(g, s, init)),
                                 Read(s, init) /\ AllOk(Arms(g, s, init)))
  /\ s.op \in Loops => W = WalkLoop(g, s, init)
  /\ s.op \notin Loops \cup {"set", "ret", "panic", "block", "if", "switch"} => W = Flow(init, FALSE, Read(s, init))

(* WalkStmt is its cases.                                                   *)
LEMMA WalkStmtIs ==
  ASSUME NEW s, NEW g, NEW init
  PROVE  WalkCases(g, s, init, WalkStmt(g, s, init))
  <1>1. CASE s.op = "set"
    BY <1>1 DEF WalkStmt, Loops, WalkCases
  <1>2. CASE s.op \in {"ret", "panic"}
    BY <1>2 DEF WalkStmt, Loops, WalkCases
  <1>3. CASE s.op = "block"
    BY <1>3 DEF WalkStmt, Loops, WalkCases
  <1>4. CASE s.op = "if"
    BY <1>4 DEF WalkStmt, Loops, WalkCases
  <1>5. CASE s.op = "switch"
    BY <1>5 DEF WalkStmt, Loops, WalkCases
  <1>6. CASE s.op \in Loops
    BY <1>6 DEF WalkStmt, Loops, WalkCases
  <1>7. CASE s.op \notin Loops \cup {"set", "ret", "panic", "block", "if", "switch"}
    BY <1>7 DEF WalkStmt, Loops, WalkCases
  <1> QED
    BY <1>1, <1>2, <1>3, <1>4, <1>5, <1>6, <1>7

(* WalkStmt judges a statement when the analysis judges its blocks.         *)
LEMMA WalkStmtType ==
  ASSUME NEW s \in Stmts, NEW g, \A c \in Inner(s) : g[c] \in [BOOLEAN -> Flows], NEW init \in BOOLEAN
  PROVE  WalkStmt(g, s, init) \in Flows
  <1>0. /\ \A c \in Inner(s) : \A i \in BOOLEAN : /\ g[c][i] \in Flows /\ g[c][i].init \in BOOLEAN
                                                  /\ g[c][i].rets \in BOOLEAN /\ g[c][i].ok \in BOOLEAN
        /\ \A j \in DOMAIN s.subs : s.subs[j] \in Inner(s)
        /\ s.init \in Inner(s) /\ s.update \in Inner(s)
    <2>1. \A c \in Inner(s) : \A i \in BOOLEAN : g[c][i] \in Flows
      OBVIOUS
    <2>2. \A f \in Flows : f.init \in BOOLEAN /\ f.rets \in BOOLEAN /\ f.ok \in BOOLEAN
      BY DEF Flows
    <2> QED
      BY <2>1, <2>2 DEF Inner
  <1>w. PICK W : W = WalkStmt(g, s, init)
    OBVIOUS
  <1>p. PICK arm : arm = Arms(g, s, init)
    OBVIOUS
  <1>1. DOMAIN arm = DOMAIN s.subs /\ \A j \in DOMAIN s.subs : arm[j].init \in BOOLEAN /\ arm[j].rets \in BOOLEAN
    BY <1>0, <1>p DEF Arms
  <1>2. /\ Read(s, init) \in BOOLEAN /\ (Read(s, init) /\ AllOk(arm)) \in BOOLEAN
        /\ (s.dflt /\ AllReturn(arm)) \in BOOLEAN
    <2>1. (Read(s, init) /\ AllOk(arm)) \in BOOLEAN /\ (s.dflt /\ AllReturn(arm)) \in BOOLEAN
      BY Zenon
    <2>2. Read(s, init) \in BOOLEAN
      BY Zenon DEF Read
    <2> QED
      BY <2>1, <2>2
  <1>5. WalkCases(g, s, init, W)
    BY <1>w, WalkStmtIs, Zenon
  <1> SUFFICES W \in Flows
    BY <1>w
  <1>6. CASE s.op \in {"set", "ret", "panic"}
    BY <1>2, <1>5, <1>6, FlowType DEF WalkCases
  <1>7. CASE s.op = "block"
    <2>1. arm[1].init \in BOOLEAN /\ arm[1].rets \in BOOLEAN
      BY <1>1, <1>7, SubsAre
    <2> QED
      BY <1>2, <1>5, <1>7, <1>p, <2>1, FlowType DEF WalkCases
  <1>8. CASE s.op = "if"
    <2>1. /\ arm[1].init \in BOOLEAN /\ arm[1].rets \in BOOLEAN
          /\ arm[2].init \in BOOLEAN /\ arm[2].rets \in BOOLEAN
      BY <1>1, <1>8, SubsAre
    <2>2. MeetIf(arm[1], arm[2]) \in BOOLEAN
      BY <2>1 DEF MeetIf
    <2>3. (arm[1].rets /\ arm[2].rets) \in BOOLEAN
      BY Zenon
    <2> QED
      BY <1>2, <1>5, <1>8, <1>p, <2>2, <2>3, FlowType DEF WalkCases
  <1>9. CASE s.op = "switch"
    <2>1. MeetSwitch(s, init, arm) \in BOOLEAN
      <3>1. CASE arm = <<>>
        BY <3>1 DEF MeetSwitch
      <3>2. CASE arm # <<>>
        <4>1. MeetSwitch(s, init, arm) = ((\A j \in DOMAIN arm : arm[j].init) /\ (s.dflt \/ init))
          BY <3>2, Zenon DEF MeetSwitch
        <4>2. ((\A j \in DOMAIN arm : arm[j].init) /\ (s.dflt \/ init)) \in BOOLEAN
          BY Zenon
        <4> QED
          BY <4>1, <4>2, Zenon
      <3> QED
        BY <3>1, <3>2
    <2> QED
      BY <1>2, <1>5, <1>9, <1>p, <2>1, FlowType DEF WalkCases
  <1>10. CASE s.op \in Loops
    <2> DEFINE pre == g[s.init][init]
               bd == g[s.subs[1]][pre.init]
               upd == g[s.update][bd.init]
               good == /\ pre.ok /\ bd.ok /\ upd.ok
                       /\ Read(s, IF s.op = "dowhile" THEN bd.init ELSE pre.init)
    <2>1. WalkLoop(g, s, init) = Flow(init, FALSE, good)
      BY Zenon DEF WalkLoop
    <2>2. good \in BOOLEAN
      BY Zenon
    <2> HIDE DEF good
    <2> QED
      BY <1>5, <1>10, <2>1, <2>2, FlowType DEF WalkCases
  <1>11. CASE s.op \notin Loops \cup {"set", "ret", "panic", "block", "if", "switch"}
    BY <1>2, <1>5, <1>11, FlowType DEF WalkCases
  <1> QED
    BY <1>6, <1>7, <1>8, <1>9, <1>10, <1>11

(* WalkStmt depends on what the analysis says of the statement's blocks     *)
(* only.                                                                    *)
LEMMA WalkStmtParts ==
  ASSUME NEW s, NEW g, NEW h, \A c \in Inner(s) : g[c] = h[c], 1 \in DOMAIN s.subs \/ s.op \notin Loops, NEW init
  PROVE  WalkStmt(g, s, init) = WalkStmt(h, s, init)
  <1>1. /\ \A j \in DOMAIN s.subs : g[s.subs[j]] = h[s.subs[j]]
        /\ g[s.init] = h[s.init] /\ g[s.update] = h[s.update]
    BY DEF Inner
  <1>2. Arms(g, s, init) = Arms(h, s, init)
    BY <1>1 DEF Arms
  <1>3. s.op \in Loops => WalkLoop(g, s, init) = WalkLoop(h, s, init)
    <2>1. 1 \in DOMAIN s.subs => g[s.subs[1]] = h[s.subs[1]]
      BY <1>1
    <2> QED
      BY <1>1, <2>1, Zenon DEF WalkLoop
  <1>4. /\ WalkCases(g, s, init, WalkStmt(g, s, init))
        /\ WalkCases(h, s, init, WalkStmt(h, s, init))
    BY WalkStmtIs
  <1> QED
    BY <1>2, <1>3, <1>4 DEF WalkCases

(* WalkBlock's recursive definition has a solution, and it judges blocks.   *)
LEMMA WalkIs ==
  /\ WalkBlock \in [Blocks -> [BOOLEAN -> Flows]]
  /\ \A b \in Blocks, init \in BOOLEAN : WalkBlock[b][init] = WalkStep(WalkBlock, b, init)
  <1> DEFINE step(g) == [b \in Blocks |-> [init \in BOOLEAN |-> WalkStep(g, b, init)]]
             F == [g \in [Blocks -> [BOOLEAN -> Flows]] |-> step(g)]
  <1>1. \A g : \A b \in Blocks : (\A c \in Parts(b) : g[c] \in [BOOLEAN -> Flows]) => step(g)[b] \in [BOOLEAN -> Flows]
    <2> SUFFICES ASSUME NEW g, NEW b \in Blocks, \A c \in Parts(b) : g[c] \in [BOOLEAN -> Flows], NEW init \in BOOLEAN
                 PROVE  WalkStep(g, b, init) \in Flows
      OBVIOUS
    <2>1. CASE b = <<>>
      BY <2>1, FlowType DEF WalkStep
    <2>2. CASE b # <<>>
      <3> DEFINE r == WalkStmt(g, Head(b), init)
                 rest == g[Tail(b)][r.init]
      <3>1. r \in Flows
        <4>1. Head(b) \in Stmts /\ \A c \in Inner(Head(b)) : c \in Parts(b)
          BY <2>2, BlockIs, PartsIs DEF Inner
        <4> QED
          BY <4>1, WalkStmtType
      <3>2. g[Tail(b)] \in [BOOLEAN -> Flows]
        BY <2>2, PartsIs
      <3> HIDE DEF r
      <3>3. rest \in Flows
        BY <3>1, <3>2 DEF Flows
      <3>4. WalkStep(g, b, init) = IF r.rets THEN r ELSE Flow(rest.init, rest.rets, r.ok /\ rest.ok)
        BY <2>2, Zenon DEF WalkStep, r
      <3> HIDE DEF rest
      <3>5. rest.init \in BOOLEAN /\ rest.rets \in BOOLEAN /\ (r.ok /\ rest.ok) \in BOOLEAN
        BY <3>3 DEF Flows
      <3> QED
        BY <3>1, <3>4, <3>5, FlowType
    <2> QED
      BY <2>1, <2>2
  <1>2. \A g, h : \A b \in Blocks : (\A c \in Parts(b) : g[c] = h[c]) => step(g)[b] = step(h)[b]
    <2> SUFFICES ASSUME NEW g, NEW h, NEW b \in Blocks, \A c \in Parts(b) : g[c] = h[c], NEW init \in BOOLEAN
                 PROVE  WalkStep(g, b, init) = WalkStep(h, b, init)
      OBVIOUS
    <2>1. CASE b = <<>>
      BY <2>1, Zenon DEF WalkStep
    <2>2. CASE b # <<>>
      <3>1. Head(b) \in Stmts /\ \A c \in Inner(Head(b)) : c \in Parts(b)
        BY <2>2, BlockIs, PartsIs DEF Inner
      <3>2. 1 \in DOMAIN Head(b).subs \/ Head(b).op \notin Loops
        BY <3>1, SubsAre
      <3>3. WalkStmt(g, Head(b), init) = WalkStmt(h, Head(b), init)
        BY <3>1, <3>2, WalkStmtParts
      <3>4. g[Tail(b)] = h[Tail(b)]
        BY <2>2, PartsIs
      <3> QED
        BY <3>3, <3>4, Zenon DEF WalkStep
    <2> QED
      BY <2>1, <2>2
  <1>3. \A g : \A b \in Blocks, init \in BOOLEAN : step(g)[b][init] = WalkStep(g, b, init)
    OBVIOUS
  <1>4. \A g : DOMAIN step(g) = Blocks /\ step(g) = [b \in Blocks |-> step(g)[b]]
    BY Zenon
  <1>p. \A b \in Blocks : Parts(b) \subseteq Blocks
    BY BlockIs, Zenon
  <1>5. \A g \in [Blocks -> [BOOLEAN -> Flows]] : step(g) \in [Blocks -> [BOOLEAN -> Flows]]
    <2> HIDE DEF step
    <2>1. \A g \in [Blocks -> [BOOLEAN -> Flows]] : \A b \in Blocks : step(g)[b] \in [BOOLEAN -> Flows]
      BY <1>1, <1>p
    <2> QED
      BY <1>4, <2>1
  <1> HIDE DEF step
  <1>6. F \in [[Blocks -> [BOOLEAN -> Flows]] -> [Blocks -> [BOOLEAN -> Flows]]] /\ \A g \in [Blocks -> [BOOLEAN -> Flows]] : F[g] = step(g)
    BY <1>5, Zenon
  <1> HIDE DEF F
  <1>7. FromParts(F, [BOOLEAN -> Flows])
    <2>1. ASSUME NEW g \in [Blocks -> [BOOLEAN -> Flows]], NEW h \in [Blocks -> [BOOLEAN -> Flows]], NEW b \in Blocks,
                 \A c \in Parts(b) : g[c] = h[c]
          PROVE  F[g][b] = F[h][b]
      <3>1. F[g] = step(g) /\ F[h] = step(h)
        BY <1>6, Zenon
      <3>2. step(g)[b] = step(h)[b]
        BY <1>2, <2>1, Zenon
      <3> QED
        BY <3>1, <3>2, Zenon
    <2> QED
      BY <1>6, <2>1, Zenon DEF FromParts
  <1>8. [BOOLEAN -> Flows] # {}
    <2>1. [init \in BOOLEAN |-> Flow(FALSE, FALSE, FALSE)] \in [BOOLEAN -> Flows]
      BY FlowType
    <2> QED
      BY <2>1, Zenon
  <1>9. PICK f \in [Blocks -> [BOOLEAN -> Flows]] : \A b \in Blocks : f[b] = F[f][b]
    <2>1. \E f : Solution(f, F, [BOOLEAN -> Flows])
      BY <1>7, <1>8, BlockRecursion, Zenon
    <2> QED
      BY <2>1, Zenon DEF Solution
  <1>10. f = step(f)
    <2>1. step(f) \in [Blocks -> [BOOLEAN -> Flows]] /\ \A b \in Blocks : f[b] = step(f)[b]
      BY <1>5, <1>6, <1>9, Zenon
    <2> QED
      BY <2>1
  <1>11. WalkBlock = step(WalkBlock)
    <2>1. WalkBlock = CHOOSE g : g = step(g)
      BY Zenon DEF WalkBlock, WalkStep, step
    <2> QED
      BY <1>10, <2>1, Zenon
  <1>12. \A b \in Blocks : WalkBlock[b] \in [BOOLEAN -> Flows]
    <2> DEFINE P == {c \in Blocks : WalkBlock[c] \in [BOOLEAN -> Flows]}
    <2>1. \A b \in Blocks : Parts(b) \subseteq P => b \in P
      BY <1>1, <1>11
    <2> HIDE DEF P
    <2>2. \A b \in Blocks : b \in P
      BY <2>1, BlockInduction, Zenon
    <2> QED
      BY <2>2 DEF P
  <1>13. WalkBlock \in [Blocks -> [BOOLEAN -> Flows]]
    <2>1. WalkBlock = [b \in Blocks |-> WalkBlock[b]]
      BY <1>4, <1>11, Zenon
    <2> QED
      BY <1>12, <2>1
  <1> QED
    BY <1>3, <1>11, <1>13, Zenon

Judged == [init : BOOLEAN, ok : BOOLEAN]
TdzStep(g, b, init) ==
  IF b = <<>> THEN Fields(init, TRUE)
  ELSE LET r    == TdzStmt(g, Head(b), init)
           rest == g[Tail(b)][r.init]
       IN Fields(rest.init, r.ok /\ rest.ok)

(* A judgement of the field check is one.                                   *)
LEMMA FieldsType ==
  ASSUME NEW i \in BOOLEAN, NEW o \in BOOLEAN
  PROVE  Fields(i, o) \in Judged
  BY DEF Fields, Judged

(* The cases of check_stmt.                                                 *)
TdzCases(g, s, init, W) ==
  /\ s.op = "use" => W = Fields(init, Read(s, init))
  /\ s.op = "set" => W = Fields(TRUE, Read(s, init))
  /\ s.op = "ret" => W = Fields(init, Read(s, init) /\ init)
  /\ s.op = "block" => W = Arms(g, s, init)[1]
  /\ s.op = "if" => W = Fields(MeetFields(Arms(g, s, init)[1], Arms(g, s, init)[2]),
                               Read(s, init) /\ AllOk(Arms(g, s, init)))
  /\ s.op = "while" => W = Fields(init, Read(s, init) /\ AllOk(Arms(g, s, init)))
  /\ s.op \notin {"use", "set", "ret", "block", "if", "while"} => W = Fields(init, TRUE)

(* TdzStmt is its cases.                                                    *)
LEMMA TdzStmtIs ==
  ASSUME NEW s, NEW g, NEW init
  PROVE  TdzCases(g, s, init, TdzStmt(g, s, init))
  <1>1. CASE s.op = "use"
    BY <1>1 DEF TdzStmt, TdzCases
  <1>2. CASE s.op = "set"
    BY <1>2 DEF TdzStmt, TdzCases
  <1>3. CASE s.op = "ret"
    BY <1>3 DEF TdzStmt, TdzCases
  <1>4. CASE s.op = "block"
    BY <1>4 DEF TdzStmt, TdzCases
  <1>5. CASE s.op = "if"
    BY <1>5 DEF TdzStmt, TdzCases
  <1>6. CASE s.op = "while"
    BY <1>6 DEF TdzStmt, TdzCases
  <1>7. CASE s.op \notin {"use", "set", "ret", "block", "if", "while"}
    BY <1>7 DEF TdzStmt, TdzCases
  <1> QED
    BY <1>1, <1>2, <1>3, <1>4, <1>5, <1>6, <1>7

(* TdzStmt judges a statement when the analysis judges its blocks.          *)
LEMMA TdzStmtType ==
  ASSUME NEW s \in Stmts, NEW g, \A c \in Inner(s) : g[c] \in [BOOLEAN -> Judged], NEW init \in BOOLEAN
  PROVE  TdzStmt(g, s, init) \in Judged
  <1>0. \A j \in DOMAIN s.subs : g[s.subs[j]][init] \in Judged
    BY DEF Inner
  <1>w. PICK W : W = TdzStmt(g, s, init)
    OBVIOUS
  <1>p. PICK arm : arm = Arms(g, s, init)
    OBVIOUS
  <1>1. DOMAIN arm = DOMAIN s.subs /\ \A j \in DOMAIN s.subs : arm[j] \in Judged
    BY <1>0, <1>p DEF Arms
  <1>2. /\ Read(s, init) \in BOOLEAN /\ (Read(s, init) /\ AllOk(arm)) \in BOOLEAN
        /\ (Read(s, init) /\ init) \in BOOLEAN
    <2>1. (Read(s, init) /\ AllOk(arm)) \in BOOLEAN /\ (Read(s, init) /\ init) \in BOOLEAN
      BY Zenon
    <2>2. Read(s, init) \in BOOLEAN
      BY Zenon DEF Read
    <2> QED
      BY <2>1, <2>2
  <1>5. TdzCases(g, s, init, W)
    BY <1>w, TdzStmtIs, Zenon
  <1> SUFFICES W \in Judged
    BY <1>w
  <1>6. CASE s.op \in {"use", "set", "ret"}
    BY <1>2, <1>5, <1>6, FieldsType DEF TdzCases
  <1>7. CASE s.op = "block"
    <2>1. 1 \in DOMAIN s.subs
      BY <1>7, SubsAre
    <2> QED
      BY <1>1, <1>5, <1>7, <1>p, <2>1 DEF TdzCases
  <1>8. CASE s.op = "if"
    <2>1. arm[1] \in Judged /\ arm[2] \in Judged
      BY <1>1, <1>8, SubsAre
    <2>2. MeetFields(arm[1], arm[2]) \in BOOLEAN
      BY Zenon DEF MeetFields
    <2> QED
      BY <1>2, <1>5, <1>8, <1>p, <2>2, FieldsType DEF TdzCases
  <1>9. CASE s.op = "while"
    BY <1>2, <1>5, <1>9, <1>p, FieldsType DEF TdzCases
  <1>10. CASE s.op \notin {"use", "set", "ret", "block", "if", "while"}
    BY <1>5, <1>10, FieldsType DEF TdzCases
  <1> QED
    BY <1>6, <1>7, <1>8, <1>9, <1>10

(* TdzStmt depends on what the analysis says of the statement's blocks      *)
(* only.                                                                    *)
LEMMA TdzStmtParts ==
  ASSUME NEW s, NEW g, NEW h, \A c \in Inner(s) : g[c] = h[c], NEW init
  PROVE  TdzStmt(g, s, init) = TdzStmt(h, s, init)
  <1>1. \A j \in DOMAIN s.subs : g[s.subs[j]] = h[s.subs[j]]
    BY DEF Inner
  <1>2. Arms(g, s, init) = Arms(h, s, init)
    BY <1>1 DEF Arms
  <1>4. /\ TdzCases(g, s, init, TdzStmt(g, s, init))
        /\ TdzCases(h, s, init, TdzStmt(h, s, init))
    BY TdzStmtIs
  <1>5. CASE s.op = "block"
    BY <1>2, <1>4, <1>5 DEF TdzCases
  <1>6. CASE s.op \in {"if", "while"}
    BY <1>2, <1>4, <1>6 DEF TdzCases
  <1>7. CASE s.op \notin {"block", "if", "while"}
    BY <1>4, <1>7 DEF TdzCases
  <1> QED
    BY <1>5, <1>6, <1>7

(* TdzBlock's recursive definition has a solution, and it judges blocks.    *)
LEMMA TdzIs ==
  /\ TdzBlock \in [Blocks -> [BOOLEAN -> Judged]]
  /\ \A b \in Blocks, init \in BOOLEAN : TdzBlock[b][init] = TdzStep(TdzBlock, b, init)
  <1> DEFINE step(g) == [b \in Blocks |-> [init \in BOOLEAN |-> TdzStep(g, b, init)]]
             F == [g \in [Blocks -> [BOOLEAN -> Judged]] |-> step(g)]
  <1>1. \A g : \A b \in Blocks : (\A c \in Parts(b) : g[c] \in [BOOLEAN -> Judged]) => step(g)[b] \in [BOOLEAN -> Judged]
    <2> SUFFICES ASSUME NEW g, NEW b \in Blocks, \A c \in Parts(b) : g[c] \in [BOOLEAN -> Judged], NEW init \in BOOLEAN
                 PROVE  TdzStep(g, b, init) \in Judged
      OBVIOUS
    <2>1. CASE b = <<>>
      BY <2>1, FieldsType DEF TdzStep
    <2>2. CASE b # <<>>
      <3> DEFINE r == TdzStmt(g, Head(b), init)
                 rest == g[Tail(b)][r.init]
      <3>1. r \in Judged
        <4>1. Head(b) \in Stmts /\ \A c \in Inner(Head(b)) : c \in Parts(b)
          BY <2>2, BlockIs, PartsIs DEF Inner
        <4> QED
          BY <4>1, TdzStmtType
      <3>2. g[Tail(b)] \in [BOOLEAN -> Judged]
        BY <2>2, PartsIs
      <3> HIDE DEF r
      <3>3. rest \in Judged
        BY <3>1, <3>2 DEF Judged
      <3>4. TdzStep(g, b, init) = Fields(rest.init, r.ok /\ rest.ok)
        BY <2>2, Zenon DEF TdzStep, r
      <3> HIDE DEF rest
      <3>5. rest.init \in BOOLEAN /\ (r.ok /\ rest.ok) \in BOOLEAN
        BY <3>3 DEF Judged
      <3> QED
        BY <3>4, <3>5, FieldsType
    <2> QED
      BY <2>1, <2>2
  <1>2. \A g, h : \A b \in Blocks : (\A c \in Parts(b) : g[c] = h[c]) => step(g)[b] = step(h)[b]
    <2> SUFFICES ASSUME NEW g, NEW h, NEW b \in Blocks, \A c \in Parts(b) : g[c] = h[c], NEW init \in BOOLEAN
                 PROVE  TdzStep(g, b, init) = TdzStep(h, b, init)
      OBVIOUS
    <2>1. CASE b = <<>>
      BY <2>1, Zenon DEF TdzStep
    <2>2. CASE b # <<>>
      <3>1. \A c \in Inner(Head(b)) : c \in Parts(b)
        BY <2>2, BlockIs, PartsIs DEF Inner
      <3>2. \A c \in Inner(Head(b)) : g[c] = h[c]
        BY <2>2, <3>1
      <3>3. TdzStmt(g, Head(b), init) = TdzStmt(h, Head(b), init)
        BY <3>2, TdzStmtParts
      <3>4. g[Tail(b)] = h[Tail(b)]
        BY <2>2, PartsIs
      <3> QED
        BY <3>3, <3>4, Zenon DEF TdzStep
    <2> QED
      BY <2>1, <2>2
  <1>3. \A g : \A b \in Blocks, init \in BOOLEAN : step(g)[b][init] = TdzStep(g, b, init)
    OBVIOUS
  <1>4. \A g : DOMAIN step(g) = Blocks /\ step(g) = [b \in Blocks |-> step(g)[b]]
    BY Zenon
  <1>p. \A b \in Blocks : Parts(b) \subseteq Blocks
    BY BlockIs, Zenon
  <1>5. \A g \in [Blocks -> [BOOLEAN -> Judged]] : step(g) \in [Blocks -> [BOOLEAN -> Judged]]
    <2> HIDE DEF step
    <2>1. \A g \in [Blocks -> [BOOLEAN -> Judged]] : \A b \in Blocks : step(g)[b] \in [BOOLEAN -> Judged]
      BY <1>1, <1>p
    <2> QED
      BY <1>4, <2>1
  <1> HIDE DEF step
  <1>6. F \in [[Blocks -> [BOOLEAN -> Judged]] -> [Blocks -> [BOOLEAN -> Judged]]] /\ \A g \in [Blocks -> [BOOLEAN -> Judged]] : F[g] = step(g)
    BY <1>5, Zenon
  <1> HIDE DEF F
  <1>7. FromParts(F, [BOOLEAN -> Judged])
    <2>1. ASSUME NEW g \in [Blocks -> [BOOLEAN -> Judged]], NEW h \in [Blocks -> [BOOLEAN -> Judged]], NEW b \in Blocks,
                 \A c \in Parts(b) : g[c] = h[c]
          PROVE  F[g][b] = F[h][b]
      <3>1. F[g] = step(g) /\ F[h] = step(h)
        BY <1>6, Zenon
      <3>2. step(g)[b] = step(h)[b]
        BY <1>2, <2>1, Zenon
      <3> QED
        BY <3>1, <3>2, Zenon
    <2> QED
      BY <1>6, <2>1, Zenon DEF FromParts
  <1>8. [BOOLEAN -> Judged] # {}
    <2>1. [init \in BOOLEAN |-> Fields(FALSE, FALSE)] \in [BOOLEAN -> Judged]
      BY FieldsType
    <2> QED
      BY <2>1, Zenon
  <1>9. PICK f \in [Blocks -> [BOOLEAN -> Judged]] : \A b \in Blocks : f[b] = F[f][b]
    <2>1. \E f : Solution(f, F, [BOOLEAN -> Judged])
      BY <1>7, <1>8, BlockRecursion, Zenon
    <2> QED
      BY <2>1, Zenon DEF Solution
  <1>10. f = step(f)
    <2>1. step(f) \in [Blocks -> [BOOLEAN -> Judged]] /\ \A b \in Blocks : f[b] = step(f)[b]
      BY <1>5, <1>6, <1>9, Zenon
    <2> QED
      BY <2>1
  <1>11. TdzBlock = step(TdzBlock)
    <2>1. TdzBlock = CHOOSE g : g = step(g)
      BY Zenon DEF TdzBlock, TdzStep, step
    <2> QED
      BY <1>10, <2>1, Zenon
  <1>12. \A b \in Blocks : TdzBlock[b] \in [BOOLEAN -> Judged]
    <2> DEFINE P == {c \in Blocks : TdzBlock[c] \in [BOOLEAN -> Judged]}
    <2>1. \A b \in Blocks : Parts(b) \subseteq P => b \in P
      BY <1>1, <1>11
    <2> HIDE DEF P
    <2>2. \A b \in Blocks : b \in P
      BY <2>1, BlockInduction, Zenon
    <2> QED
      BY <2>2 DEF P
  <1>13. TdzBlock \in [Blocks -> [BOOLEAN -> Judged]]
    <2>1. TdzBlock = [b \in Blocks |-> TdzBlock[b]]
      BY <1>4, <1>11, Zenon
    <2> QED
      BY <1>12, <2>1
  <1> QED
    BY <1>3, <1>11, <1>13, Zenon

NoSkipStep(g, b, behind) ==
  b # <<>> => LET s == Head(b)
              IN /\ s.op = "cont" => ~behind
                 /\ \A j \in DOMAIN s.subs :
                      g[s.subs[j]][IF s.op \in Loops THEN ReadsBehind(s) ELSE behind]
                 /\ g[Tail(b)][behind]

ExaminedStep(g, b) ==
  b # <<>> => /\ Head(b).op \notin {"switch", "dowhile", "for"}
              /\ \A j \in DOMAIN Head(b).subs : g[Head(b).subs[j]]
              /\ g[Tail(b)]

(* NoSkip's recursive definition has a solution.                            *)
LEMMA NoSkipIs ==
  /\ NoSkip \in [Blocks -> [BOOLEAN -> BOOLEAN]]
  /\ \A b \in Blocks, behind \in BOOLEAN : NoSkip[b][behind] = NoSkipStep(NoSkip, b, behind)
  <1> DEFINE step(g) == [b \in Blocks |-> [behind \in BOOLEAN |-> NoSkipStep(g, b, behind)]]
             F == [g \in [Blocks -> [BOOLEAN -> BOOLEAN]] |-> step(g)]
  <1>1. \A g : \A b \in Blocks : (\A c \in Parts(b) : g[c] \in [BOOLEAN -> BOOLEAN]) => step(g)[b] \in [BOOLEAN -> BOOLEAN]
    <2> SUFFICES ASSUME NEW g, NEW b \in Blocks, NEW behind \in BOOLEAN
                 PROVE  NoSkipStep(g, b, behind) \in BOOLEAN
      OBVIOUS
    <2> QED
      BY Zenon DEF NoSkipStep
  <1>2. \A g, h : \A b \in Blocks : (\A c \in Parts(b) : g[c] = h[c]) => step(g)[b] = step(h)[b]
    <2> SUFFICES ASSUME NEW g, NEW h, NEW b \in Blocks, \A c \in Parts(b) : g[c] = h[c], NEW behind \in BOOLEAN
                 PROVE  NoSkipStep(g, b, behind) = NoSkipStep(h, b, behind)
      OBVIOUS
    <2>1. CASE b = <<>>
      BY <2>1, Zenon DEF NoSkipStep
    <2>2. CASE b # <<>>
      <3>1. \A j \in DOMAIN Head(b).subs : g[Head(b).subs[j]] = h[Head(b).subs[j]]
        BY <2>2, BlockIs, PartsIs DEF Inner
      <3>2. g[Tail(b)] = h[Tail(b)]
        BY <2>2, PartsIs
      <3> QED
        BY <3>1, <3>2 DEF NoSkipStep
    <2> QED
      BY <2>1, <2>2
  <1>3. \A g : \A b \in Blocks, behind \in BOOLEAN : step(g)[b][behind] = NoSkipStep(g, b, behind)
    OBVIOUS
  <1>4. \A g : DOMAIN step(g) = Blocks /\ step(g) = [b \in Blocks |-> step(g)[b]]
    BY Zenon
  <1>p. \A b \in Blocks : Parts(b) \subseteq Blocks
    BY BlockIs, Zenon
  <1>5. \A g \in [Blocks -> [BOOLEAN -> BOOLEAN]] : step(g) \in [Blocks -> [BOOLEAN -> BOOLEAN]]
    <2> HIDE DEF step
    <2>1. \A g \in [Blocks -> [BOOLEAN -> BOOLEAN]] : \A b \in Blocks : step(g)[b] \in [BOOLEAN -> BOOLEAN]
      BY <1>1, <1>p
    <2> QED
      BY <1>4, <2>1
  <1> HIDE DEF step
  <1>6. F \in [[Blocks -> [BOOLEAN -> BOOLEAN]] -> [Blocks -> [BOOLEAN -> BOOLEAN]]] /\ \A g \in [Blocks -> [BOOLEAN -> BOOLEAN]] : F[g] = step(g)
    BY <1>5, Zenon
  <1> HIDE DEF F
  <1>7. FromParts(F, [BOOLEAN -> BOOLEAN])
    <2>1. ASSUME NEW g \in [Blocks -> [BOOLEAN -> BOOLEAN]], NEW h \in [Blocks -> [BOOLEAN -> BOOLEAN]], NEW b \in Blocks,
                 \A c \in Parts(b) : g[c] = h[c]
          PROVE  F[g][b] = F[h][b]
      <3>1. F[g] = step(g) /\ F[h] = step(h)
        BY <1>6, Zenon
      <3>2. step(g)[b] = step(h)[b]
        BY <1>2, <2>1, Zenon
      <3> QED
        BY <3>1, <3>2, Zenon
    <2> QED
      BY <1>6, <2>1, Zenon DEF FromParts
  <1>8. [BOOLEAN -> BOOLEAN] # {}
    <2>1. [behind \in BOOLEAN |-> TRUE] \in [BOOLEAN -> BOOLEAN]
      OBVIOUS
    <2> QED
      BY <2>1, Zenon
  <1>9. PICK f \in [Blocks -> [BOOLEAN -> BOOLEAN]] : \A b \in Blocks : f[b] = F[f][b]
    <2>1. \E f : Solution(f, F, [BOOLEAN -> BOOLEAN])
      BY <1>7, <1>8, BlockRecursion, Zenon
    <2> QED
      BY <2>1, Zenon DEF Solution
  <1>10. f = step(f)
    <2>1. step(f) \in [Blocks -> [BOOLEAN -> BOOLEAN]] /\ \A b \in Blocks : f[b] = step(f)[b]
      BY <1>5, <1>6, <1>9, Zenon
    <2> QED
      BY <2>1
  <1>11. NoSkip = step(NoSkip)
    <2>1. NoSkip = CHOOSE g : g = step(g)
      BY Zenon DEF NoSkip, NoSkipStep, step
    <2> QED
      BY <1>10, <2>1, Zenon
  <1>12. \A b \in Blocks : NoSkip[b] \in [BOOLEAN -> BOOLEAN]
    <2> DEFINE P == {c \in Blocks : NoSkip[c] \in [BOOLEAN -> BOOLEAN]}
    <2>1. \A b \in Blocks : Parts(b) \subseteq P => b \in P
      BY <1>1, <1>11
    <2> HIDE DEF P
    <2>2. \A b \in Blocks : b \in P
      BY <2>1, BlockInduction, Zenon
    <2> QED
      BY <2>2 DEF P
  <1>13. NoSkip \in [Blocks -> [BOOLEAN -> BOOLEAN]]
    <2>1. NoSkip = [b \in Blocks |-> NoSkip[b]]
      BY <1>4, <1>11, Zenon
    <2> QED
      BY <1>12, <2>1
  <1> QED
    BY <1>3, <1>11, <1>13, Zenon

(* Examined's recursive definition has a solution.                          *)
LEMMA ExaminedIs ==
  /\ Examined \in [Blocks -> BOOLEAN]
  /\ \A b \in Blocks : Examined[b] = ExaminedStep(Examined, b)
  <1> DEFINE step(g) == [b \in Blocks |-> ExaminedStep(g, b)]
             F == [g \in [Blocks -> BOOLEAN] |-> step(g)]
  <1>1. \A g : \A b \in Blocks : (\A c \in Parts(b) : g[c] \in BOOLEAN) => step(g)[b] \in BOOLEAN
    <2> SUFFICES ASSUME NEW g, NEW b \in Blocks
                 PROVE  ExaminedStep(g, b) \in BOOLEAN
      OBVIOUS
    <2> QED
      BY Zenon DEF ExaminedStep
  <1>2. \A g, h : \A b \in Blocks : (\A c \in Parts(b) : g[c] = h[c]) => step(g)[b] = step(h)[b]
    <2> SUFFICES ASSUME NEW g, NEW h, NEW b \in Blocks, \A c \in Parts(b) : g[c] = h[c]
                 PROVE  ExaminedStep(g, b) = ExaminedStep(h, b)
      OBVIOUS
    <2>1. CASE b = <<>>
      BY <2>1, Zenon DEF ExaminedStep
    <2>2. CASE b # <<>>
      <3>1. \A j \in DOMAIN Head(b).subs : g[Head(b).subs[j]] = h[Head(b).subs[j]]
        BY <2>2, BlockIs, PartsIs DEF Inner
      <3>2. g[Tail(b)] = h[Tail(b)]
        BY <2>2, PartsIs
      <3> QED
        BY <3>1, <3>2 DEF ExaminedStep
    <2> QED
      BY <2>1, <2>2
  <1>3. \A g : \A b \in Blocks : step(g)[b] = ExaminedStep(g, b)
    OBVIOUS
  <1>4. \A g : DOMAIN step(g) = Blocks /\ step(g) = [b \in Blocks |-> step(g)[b]]
    BY Zenon
  <1>p. \A b \in Blocks : Parts(b) \subseteq Blocks
    BY BlockIs, Zenon
  <1>5. \A g \in [Blocks -> BOOLEAN] : step(g) \in [Blocks -> BOOLEAN]
    <2> HIDE DEF step
    <2>1. \A g \in [Blocks -> BOOLEAN] : \A b \in Blocks : step(g)[b] \in BOOLEAN
      BY <1>1, <1>p
    <2> QED
      BY <1>4, <2>1
  <1> HIDE DEF step
  <1>6. F \in [[Blocks -> BOOLEAN] -> [Blocks -> BOOLEAN]] /\ \A g \in [Blocks -> BOOLEAN] : F[g] = step(g)
    BY <1>5, Zenon
  <1> HIDE DEF F
  <1>7. FromParts(F, BOOLEAN)
    <2>1. ASSUME NEW g \in [Blocks -> BOOLEAN], NEW h \in [Blocks -> BOOLEAN], NEW b \in Blocks,
                 \A c \in Parts(b) : g[c] = h[c]
          PROVE  F[g][b] = F[h][b]
      <3>1. F[g] = step(g) /\ F[h] = step(h)
        BY <1>6, Zenon
      <3>2. step(g)[b] = step(h)[b]
        BY <1>2, <2>1, Zenon
      <3> QED
        BY <3>1, <3>2, Zenon
    <2> QED
      BY <1>6, <2>1, Zenon DEF FromParts
  <1>8. BOOLEAN # {}
    OBVIOUS
  <1>9. PICK f \in [Blocks -> BOOLEAN] : \A b \in Blocks : f[b] = F[f][b]
    <2>1. \E f : Solution(f, F, BOOLEAN)
      BY <1>7, <1>8, BlockRecursion, Zenon
    <2> QED
      BY <2>1, Zenon DEF Solution
  <1>10. f = step(f)
    <2>1. step(f) \in [Blocks -> BOOLEAN] /\ \A b \in Blocks : f[b] = step(f)[b]
      BY <1>5, <1>6, <1>9, Zenon
    <2> QED
      BY <2>1
  <1>11. Examined = step(Examined)
    <2>1. Examined = CHOOSE g : g = step(g)
      BY Zenon DEF Examined, ExaminedStep, step
    <2> QED
      BY <1>10, <2>1, Zenon
  <1>12. \A b \in Blocks : Examined[b] \in BOOLEAN
    <2> DEFINE P == {c \in Blocks : Examined[c] \in BOOLEAN}
    <2>1. \A b \in Blocks : Parts(b) \subseteq P => b \in P
      BY <1>1, <1>11
    <2> HIDE DEF P
    <2>2. \A b \in Blocks : b \in P
      BY <2>1, BlockInduction, Zenon
    <2> QED
      BY <2>2 DEF P
  <1>13. Examined \in [Blocks -> BOOLEAN]
    <2>1. Examined = [b \in Blocks |-> Examined[b]]
      BY <1>4, <1>11, Zenon
    <2> QED
      BY <1>12, <2>1
  <1> QED
    BY <1>3, <1>11, <1>13, Zenon


-----------------------------------------------------------------------------
(* What an analysis promises of an evaluation in which the location is not  *)
(* yet assigned.  G: the blocks it accepts in that state; F: those whose    *)
(* end it takes to be reached in that state.                                *)

Onward(G, F, b) == Tail(b) \in G /\ (Tail(b) \in F => b \in F)
NoSet(s) == s.init # <<>> => s.init[1].op # "set"

StraightOk(G, F, b) ==
  /\ Head(b).op \in {"use", "set", "if", "switch", "ret"} => ~Head(b).reads
  /\ Head(b).op \in {"use", "def", "call"} => Onward(G, F, b)
BranchOk(G, F, b) ==
  Head(b).op \in {"if", "switch", "block"} =>
    /\ \A j \in DOMAIN Head(b).subs : Head(b).subs[j] \in G /\ (Head(b).subs[j] \in F => Onward(G, F, b))
    /\ Head(b).op = "switch" /\ ~Head(b).dflt => Onward(G, F, b)
LoopOk(G, F, b) ==
  Head(b).op \in Loops =>
    /\ Onward(G, F, b)
    /\ Head(b).init # <<>> => ~Head(b).init[1].reads
    /\ NoSet(Head(b)) => /\ Head(b).subs[1] \in G
                         /\ Head(b).op \in {"while", "for"} => ~Head(b).reads
                         /\ Head(b).subs[1] \in F => ~ReadsBehind(Head(b))
Judges(G, F) ==
  /\ G \subseteq Blocks /\ <<>> \in F
  /\ \A b \in G : b # <<>> => StraightOk(G, F, b) /\ BranchOk(G, F, b) /\ LoopOk(G, F, b)

(* Definite assignment, for a variable.                                     *)
WalkPassed == {b \in Blocks : WalkBlock[b][FALSE].ok}
WalkFalls == {b \in Blocks : ~WalkBlock[b][FALSE].rets /\ ~WalkBlock[b][FALSE].init}

(* What walk_stmt says of a block is yes or no.                             *)
LEMMA WalkOf ==
  ASSUME NEW b \in Blocks, NEW i \in BOOLEAN
  PROVE  /\ WalkBlock[b][i] \in Flows
         /\ WalkBlock[b][i].init \in BOOLEAN /\ WalkBlock[b][i].rets \in BOOLEAN /\ WalkBlock[b][i].ok \in BOOLEAN
  <1>1. WalkBlock[b][i] \in Flows
    BY WalkIs
  <1> QED
    BY <1>1 DEF Flows

(* A block that walk_stmt accepts: its first statement is accepted, and so  *)
(* is the rest unless that assigns or returns.                              *)
LEMMA WalkUnfold ==
  ASSUME NEW b \in Blocks, b # <<>>, WalkBlock[b][FALSE].ok
  PROVE  LET W == WalkStmt(WalkBlock, Head(b), FALSE)
         IN W.ok /\ (~W.rets /\ ~W.init => Onward(WalkPassed, WalkFalls, b))
  <1>w. PICK W : W = WalkStmt(WalkBlock, Head(b), FALSE)
    OBVIOUS
  <1>1. W \in Flows
    <2>1. Head(b) \in Stmts /\ \A c \in Inner(Head(b)) : c \in Parts(b)
      BY BlockIs, PartsIs DEF Inner
    <2>2. \A c \in Inner(Head(b)) : WalkBlock[c] \in [BOOLEAN -> Flows]
      BY <2>1, PartsIs, WalkIs
    <2> QED
      BY <1>w, <2>1, <2>2, WalkStmtType
  <1>2. WalkBlock[b][FALSE] = WalkStep(WalkBlock, b, FALSE)
    BY WalkIs
  <1>3. W.init \in BOOLEAN /\ W.rets \in BOOLEAN /\ W.ok \in BOOLEAN
    BY <1>1 DEF Flows
  <1>4. CASE W.rets
    <2>1. WalkBlock[b][FALSE] = W
      BY <1>2, <1>4, <1>w DEF WalkStep
    <2> QED
      BY <1>4, <1>w, <2>1
  <1>5. CASE ~W.rets
    <2>r. PICK rest : rest = WalkBlock[Tail(b)][W.init]
      OBVIOUS
    <2>o. PICK o : o = (W.ok /\ rest.ok)
      OBVIOUS
    <2>p. PICK i, r : i = rest.init /\ r = rest.rets
      OBVIOUS
    <2>1. WalkBlock[b][FALSE] = Flow(i, r, o)
      BY <1>2, <1>5, <1>w, <2>r, <2>o, <2>p, Zenon DEF WalkStep
    <2>2. Tail(b) \in Blocks
      BY BlockIs
    <2>3. /\ WalkBlock[b][FALSE].init = rest.init /\ WalkBlock[b][FALSE].rets = rest.rets
          /\ WalkBlock[b][FALSE].ok = o
      BY <2>1, <2>p DEF Flow
    <2>4. W.ok /\ rest.ok
      BY <2>3, <2>o
    <2>5. ~W.init => rest = WalkBlock[Tail(b)][FALSE]
      BY <1>3, <2>r
    <2>6. ~W.init => Onward(WalkPassed, WalkFalls, b)
      BY <2>2, <2>3, <2>4, <2>5 DEF Onward, WalkPassed, WalkFalls
    <2> QED
      BY <1>w, <2>4, <2>6
  <1> QED
    BY <1>4, <1>5

(* A part of a `for` that reads is accepted only after an assignment.       *)
LEMMA WalkHeader ==
  ASSUME NEW c \in Blocks, Len(c) = 1, c[1].op \in {"use", "set"}, WalkBlock[c][FALSE].ok
  PROVE  ~c[1].reads /\ (c[1].op = "use" => ~WalkBlock[c][FALSE].init)
  <1>1. c # <<>> /\ Head(c) = c[1] /\ Tail(c) = <<>>
    <2>1. c \in Seq(Stmts)
      BY BlockIs
    <2> HIDE DEF Stmts
    <2>5. Len(<<>>) = 0
      BY EmptySeq
    <2>6. c # <<>>
      BY <2>5
    <2>2. c # <<>> /\ Head(c) = c[1]
      BY <2>1, <2>6
    <2>3. Tail(c) \in Seq(Stmts) /\ Len(Tail(c)) = 0
      BY <2>1, <2>2, HeadTailProperties
    <2>4. Tail(c) = <<>>
      BY <2>3, EmptySeq
    <2> QED
      BY <2>2, <2>4
  <1>w. PICK W : W = WalkStmt(WalkBlock, Head(c), FALSE)
    OBVIOUS
  <1>2. WalkCases(WalkBlock, Head(c), FALSE, W)
    BY <1>w, WalkStmtIs, Zenon
  <1>3. W.ok
    BY <1>1, <1>w, WalkUnfold
  <1>4. W.ok = Read(Head(c), FALSE) /\ W.rets = FALSE /\ (Head(c).op = "use" => W.init = FALSE)
    <2>1. CASE Head(c).op = "set"
      <3>1. W = Flow(TRUE, FALSE, Read(Head(c), FALSE))
        BY <1>2, <2>1, Zenon DEF WalkCases
      <3> QED
        BY <2>1, <3>1 DEF Flow
    <2>2. CASE Head(c).op = "use"
      <3>1. Head(c).op \notin Loops \cup {"set", "ret", "panic", "block", "if", "switch"}
        BY <2>2 DEF Loops
      <3>2. W = Flow(FALSE, FALSE, Read(Head(c), FALSE))
        BY <1>2, <3>1, Zenon DEF WalkCases
      <3> QED
        BY <3>2 DEF Flow
    <2> QED
      BY <1>1, <2>1, <2>2
  <1>5. ~c[1].reads
    BY <1>1, <1>3, <1>4 DEF Read
  <1>6. ASSUME c[1].op = "use" PROVE ~WalkBlock[c][FALSE].init
    <2>1. WalkBlock[c][FALSE] = WalkStep(WalkBlock, c, FALSE)
      BY WalkIs
    <2>r. PICK rest : rest = WalkBlock[Tail(c)][W.init]
      OBVIOUS
    <2>o. PICK o : o = (W.ok /\ rest.ok)
      OBVIOUS
    <2>p. PICK i, r : i = rest.init /\ r = rest.rets
      OBVIOUS
    <2>4. WalkBlock[c][FALSE] = Flow(i, r, o)
      BY <1>1, <1>4, <1>w, <2>1, <2>r, <2>o, <2>p, Zenon DEF WalkStep
    <2>5. WalkBlock[c][FALSE].init = rest.init
      BY <2>4, <2>p DEF Flow
    <2>2. WalkBlock[c][FALSE].init = WalkBlock[<<>>][FALSE].init
      BY <1>1, <1>4, <1>6, <2>r, <2>5
    <2>3. WalkBlock[<<>>][FALSE] = Flow(FALSE, FALSE, TRUE)
      BY BlockIs, WalkIs DEF WalkStep
    <2> QED
      BY <2>2, <2>3 DEF Flow
  <1> QED
    BY <1>5, <1>6

(* walk_stmt judges the simple statements rightly.                          *)
LEMMA WalkStraight ==
  ASSUME NEW b \in WalkPassed, b # <<>>
  PROVE  StraightOk(WalkPassed, WalkFalls, b)
  <1>w. PICK W : W = WalkStmt(WalkBlock, Head(b), FALSE)
    OBVIOUS
  <1>1. W.ok /\ (~W.rets /\ ~W.init => Onward(WalkPassed, WalkFalls, b))
    BY <1>w, WalkUnfold DEF WalkPassed
  <1>2. WalkCases(WalkBlock, Head(b), FALSE, W)
    BY <1>w, WalkStmtIs, Zenon
  <1>3. CASE Head(b).op \in {"use", "def", "call"}
    <2>1. Head(b).op \notin Loops \cup {"set", "ret", "panic", "block", "if", "switch"}
      BY <1>3 DEF Loops
    <2>2. W = Flow(FALSE, FALSE, Read(Head(b), FALSE))
      BY <1>2, <2>1, Zenon DEF WalkCases
    <2>3. Read(Head(b), FALSE) /\ ~W.rets /\ ~W.init
      BY <1>1, <2>2 DEF Flow
    <2> QED
      BY <1>1, <2>3 DEF StraightOk, Read
  <1>4. CASE Head(b).op \in {"set", "if", "switch", "ret"}
    <2>1. CASE Head(b).op = "set"
      <3>1. W = Flow(TRUE, FALSE, Read(Head(b), FALSE))
        BY <1>2, <2>1, Zenon DEF WalkCases
      <3> QED
        BY <1>1, <2>1, <3>1 DEF StraightOk, Read, Flow
    <2>2. CASE Head(b).op = "ret"
      <3>1. W = Flow(FALSE, TRUE, Read(Head(b), FALSE))
        BY <1>2, <2>2 DEF WalkCases
      <3> QED
        BY <1>1, <2>2, <3>1 DEF StraightOk, Read, Flow
    <2>3. CASE Head(b).op \in {"if", "switch"}
      <3> DEFINE good == Read(Head(b), FALSE) /\ AllOk(Arms(WalkBlock, Head(b), FALSE))
      <3>1. \E i, r : W = Flow(i, r, good)
        BY <1>2, <2>3 DEF WalkCases
      <3> HIDE DEF good
      <3>2. good
        BY <1>1, <3>1 DEF Flow
      <3> QED
        BY <2>3, <3>2 DEF StraightOk, Read, good
    <2> QED
      BY <1>4, <2>1, <2>2, <2>3
  <1> QED
    BY <1>3, <1>4 DEF StraightOk

(* walk_stmt judges the statements that enter one of their blocks rightly.  *)
LEMMA WalkBranch ==
  ASSUME NEW b \in WalkPassed, b # <<>>
  PROVE  BranchOk(WalkPassed, WalkFalls, b)
  <1> SUFFICES ASSUME Head(b).op \in {"if", "switch", "block"} PROVE BranchOk(WalkPassed, WalkFalls, b)
    BY DEF BranchOk
  <1>w. PICK W : W = WalkStmt(WalkBlock, Head(b), FALSE)
    OBVIOUS
  <1>s. PICK s : s = Head(b)
    OBVIOUS
  <1>a. PICK arm : arm = Arms(WalkBlock, s, FALSE)
    OBVIOUS
  <1>1. W.ok /\ (~W.rets /\ ~W.init => Onward(WalkPassed, WalkFalls, b))
    BY <1>w, WalkUnfold DEF WalkPassed
  <1>2. WalkCases(WalkBlock, s, FALSE, W)
    BY <1>s, <1>w, WalkStmtIs, Zenon
  <1>3. s \in Stmts /\ s.subs \in Seq(Blocks) /\ \A j \in DOMAIN s.subs : s.subs[j] \in Blocks
    BY <1>s, BlockIs, SubsAre DEF WalkPassed
  <1>4. DOMAIN arm = DOMAIN s.subs /\ \A j \in DOMAIN s.subs : arm[j] = WalkBlock[s.subs[j]][FALSE]
    BY <1>a DEF Arms
  <1>5. \A j \in DOMAIN s.subs : arm[j].init \in BOOLEAN /\ arm[j].rets \in BOOLEAN
    BY <1>3, <1>4, WalkOf
  <1>6. \A j \in DOMAIN s.subs : s.subs[j] \in WalkFalls => ~arm[j].init /\ ~arm[j].rets
    BY <1>4 DEF WalkFalls
  <1>7. AllOk(arm)
    <2> DEFINE good == Read(s, FALSE) /\ AllOk(arm)
    <2>1. \E i, r : W = Flow(i, r, good)
      BY <1>2, <1>a, <1>s DEF WalkCases
    <2> HIDE DEF good
    <2>2. good
      BY <1>1, <2>1 DEF Flow
    <2> QED
      BY <2>2 DEF good
  <1>8. \A j \in DOMAIN s.subs : s.subs[j] \in WalkPassed
    BY <1>3, <1>4, <1>7 DEF AllOk, WalkPassed
  <1>9. CASE s.op = "block"
    <2>1. W.init = arm[1].init /\ W.rets = arm[1].rets
      <3>1. PICK i, r, o : i = arm[1].init /\ r = arm[1].rets /\ o = (Read(s, FALSE) /\ AllOk(arm))
        OBVIOUS
      <3>2. W = Flow(i, r, o)
        BY <1>2, <1>9, <1>a, <3>1, Zenon DEF WalkCases
      <3> QED
        BY <3>1, <3>2 DEF Flow
    <2>2. \A j \in DOMAIN s.subs : j = 1
      BY <1>3, <1>9, SubsAre
    <2> QED
      BY <1>1, <1>6, <1>8, <1>9, <1>s, <2>1, <2>2 DEF BranchOk
  <1>10. CASE s.op = "if"
    <2>1. W.init = MeetIf(arm[1], arm[2]) /\ W.rets = (arm[1].rets /\ arm[2].rets)
      <3>1. PICK i, r, o : /\ i = MeetIf(arm[1], arm[2]) /\ r = (arm[1].rets /\ arm[2].rets)
                           /\ o = (Read(s, FALSE) /\ AllOk(arm))
        OBVIOUS
      <3>2. W = Flow(i, r, o)
        BY <1>2, <1>10, <1>a, <3>1, Zenon DEF WalkCases
      <3>3. W.init = i /\ W.rets = r
        BY <3>2 DEF Flow
      <3> QED
        BY <3>1, <3>3, Zenon
    <2>2. DOMAIN s.subs = {1, 2}
      BY <1>3, <1>10, SubsAre
    <2>3. \A j \in DOMAIN s.subs : s.subs[j] \in WalkFalls => ~MeetIf(arm[1], arm[2]) /\ ~(arm[1].rets /\ arm[2].rets)
      <3>1. arm[1].rets \in BOOLEAN /\ arm[2].rets \in BOOLEAN /\ arm[1].init \in BOOLEAN /\ arm[2].init \in BOOLEAN
        BY <1>5, <2>2
      <3> QED
        BY <1>6, <2>2, <3>1 DEF MeetIf
    <2> QED
      BY <1>1, <1>8, <1>10, <1>s, <2>1, <2>3 DEF BranchOk
  <1>11. CASE s.op = "switch"
    <2>1. W.init = MeetSwitch(s, FALSE, arm) /\ W.rets = (s.dflt /\ AllReturn(arm))
      <3>1. PICK i, r, o : /\ i = MeetSwitch(s, FALSE, arm) /\ r = (s.dflt /\ AllReturn(arm))
                           /\ o = (Read(s, FALSE) /\ AllOk(arm))
        OBVIOUS
      <3>2. W = Flow(i, r, o)
        BY <1>2, <1>11, <1>a, <3>1, Zenon DEF WalkCases
      <3>3. W.init = i /\ W.rets = r
        BY <3>2 DEF Flow
      <3> QED
        BY <3>1, <3>3, Zenon
    <2>2. \A j \in DOMAIN s.subs : s.subs[j] \in WalkFalls => ~W.init /\ ~W.rets
      <3> SUFFICES ASSUME NEW j \in DOMAIN s.subs, s.subs[j] \in WalkFalls PROVE ~W.init /\ ~W.rets
        OBVIOUS
      <3>1. ~arm[j].init /\ ~arm[j].rets /\ j \in DOMAIN arm
        BY <1>4, <1>6
      <3>2. arm # <<>>
        BY <3>1
      <3> QED
        BY <2>1, <3>1, <3>2 DEF MeetSwitch, AllReturn
    <2>3. ~s.dflt => ~W.init /\ ~W.rets
      BY <2>1 DEF MeetSwitch
    <2> QED
      BY <1>1, <1>8, <1>11, <1>s, <2>2, <2>3 DEF BranchOk
  <1> QED
    BY <1>9, <1>10, <1>11, <1>s

(* walk_stmt judges loops rightly.                                          *)
LEMMA WalkLoops ==
  ASSUME NEW b \in WalkPassed, b # <<>>
  PROVE  LoopOk(WalkPassed, WalkFalls, b)
  <1> SUFFICES ASSUME Head(b).op \in Loops PROVE LoopOk(WalkPassed, WalkFalls, b)
    BY DEF LoopOk
  <1>w. PICK W : W = WalkStmt(WalkBlock, Head(b), FALSE)
    OBVIOUS
  <1>s. PICK s : s = Head(b)
    OBVIOUS
  <1>r. PICK pre : pre = WalkBlock[s.init][FALSE]
    OBVIOUS
  <1>d. PICK bd : bd = WalkBlock[s.subs[1]][pre.init]
    OBVIOUS
  <1>u. PICK upd : upd = WalkBlock[s.update][bd.init]
    OBVIOUS
  <1>1. W.ok /\ (~W.rets /\ ~W.init => Onward(WalkPassed, WalkFalls, b))
    BY <1>w, WalkUnfold DEF WalkPassed
  <1>2. W = WalkLoop(WalkBlock, s, FALSE)
    <2>1. WalkCases(WalkBlock, s, FALSE, W)
      BY <1>s, <1>w, WalkStmtIs, Zenon
    <2> QED
      BY <1>s, <2>1, Zenon DEF WalkCases
  <1>3. /\ ~W.rets /\ ~W.init
        /\ pre.ok /\ bd.ok /\ upd.ok /\ Read(s, IF s.op = "dowhile" THEN bd.init ELSE pre.init)
    <2> DEFINE good == pre.ok /\ bd.ok /\ upd.ok /\ Read(s, IF s.op = "dowhile" THEN bd.init ELSE pre.init)
    <2>1. W = Flow(FALSE, FALSE, good)
      BY <1>2, <1>r, <1>d, <1>u, Zenon DEF WalkLoop
    <2> HIDE DEF good
    <2>2. ~W.rets /\ ~W.init /\ good
      BY <1>1, <2>1 DEF Flow
    <2> QED
      BY <2>2 DEF good
  <1>4. Onward(WalkPassed, WalkFalls, b)
    BY <1>1, <1>3
  <1>5. /\ s \in Stmts /\ s.init \in Blocks /\ s.update \in Blocks /\ s.subs[1] \in Blocks
        /\ \A h \in {s.init, s.update} : h # <<>> => Len(h) = 1 /\ s.op = "for" /\ h[1].op \in {"use", "set"}
    <2>1. s \in Stmts
      BY <1>s, BlockIs DEF WalkPassed
    <2> QED
      BY <1>s, <2>1, SubsAre
  <1>6. s.init # <<>> => ~s.init[1].reads /\ (s.init[1].op = "use" => ~pre.init)
    BY <1>3, <1>5, <1>r, WalkHeader
  <1>7. ASSUME NoSet(s)
        PROVE  /\ s.subs[1] \in WalkPassed /\ (s.op \in {"while", "for"} => ~s.reads)
               /\ s.subs[1] \in WalkFalls => ~ReadsBehind(s)
    <2>1. ~pre.init
      <3>1. CASE s.init = <<>>
        <4>1. pre = Flow(FALSE, FALSE, TRUE)
          BY <1>r, <3>1, BlockIs, WalkIs DEF WalkStep
        <4> QED
          BY <4>1 DEF Flow
      <3>2. CASE s.init # <<>>
        BY <1>5, <1>6, <1>7, <3>2 DEF NoSet
      <3> QED
        BY <3>1, <3>2
    <2>2. pre.init = FALSE
      BY <1>5, <1>r, <2>1, WalkOf
    <2>3. s.subs[1] \in WalkPassed
      BY <1>3, <1>5, <1>d, <2>2 DEF WalkPassed
    <2>4. s.op \in {"while", "for"} => ~s.reads
      BY <1>3, <2>2 DEF Read
    <2>5. ASSUME s.subs[1] \in WalkFalls PROVE ~ReadsBehind(s)
      <3>1. bd.init = FALSE
        <4>1. ~bd.init
          BY <1>d, <2>2, <2>5 DEF WalkFalls
        <4> QED
          BY <1>5, <1>d, <2>2, <4>1, WalkOf
      <3>2. s.op = "dowhile" => ~s.reads
        BY <1>3, <3>1 DEF Read
      <3>3. s.update # <<>> => ~s.update[1].reads
        BY <1>3, <1>5, <1>u, <3>1, WalkHeader
      <3> QED
        BY <3>2, <3>3 DEF ReadsBehind
    <2> QED
      BY <2>3, <2>4, <2>5
  <1> QED
    BY <1>4, <1>6, <1>7, <1>s DEF LoopOk

(* What walk_stmt accepts it judges rightly.                                *)
LEMMA WalkJudges == Judges(WalkPassed, WalkFalls)
  <1>1. WalkBlock[<<>>][FALSE] = Flow(FALSE, FALSE, TRUE)
    BY BlockIs, WalkIs DEF WalkStep
  <1>2. <<>> \in WalkFalls
    <2>1. ~WalkBlock[<<>>][FALSE].rets /\ ~WalkBlock[<<>>][FALSE].init
      BY <1>1 DEF Flow
    <2> QED
      BY <2>1, BlockIs, Zenon DEF WalkFalls
  <1>3. WalkPassed \subseteq Blocks
    BY Zenon DEF WalkPassed
  <1> QED
    BY <1>2, <1>3, WalkStraight, WalkBranch, WalkLoops DEF Judges

(* The field check of an `__init__`.                                        *)
TdzPassed == {b \in Blocks : TdzBlock[b][FALSE].ok /\ Examined[b]}
TdzFalls == {b \in Blocks : ~TdzBlock[b][FALSE].init}

(* The first statement, its blocks and the rest of an accepted `__init__`   *)
(* body are looked into.                                                    *)
LEMMA ExaminedParts ==
  ASSUME NEW b \in TdzPassed, b # <<>>
  PROVE  /\ Head(b).op \notin {"switch", "dowhile", "for"}
         /\ \A j \in DOMAIN Head(b).subs : Examined[Head(b).subs[j]]
         /\ Examined[Tail(b)]
  <1>1. Examined[b] = ExaminedStep(Examined, b) /\ Examined[b]
    BY ExaminedIs DEF TdzPassed
  <1> QED
    BY <1>1, Zenon DEF ExaminedStep

(* A block that check_stmt accepts: its first statement is accepted, and so *)
(* is the rest unless that assigns.                                         *)
LEMMA TdzUnfold ==
  ASSUME NEW b \in TdzPassed, b # <<>>
  PROVE  LET W == TdzStmt(TdzBlock, Head(b), FALSE)
         IN W.ok /\ (~W.init => Onward(TdzPassed, TdzFalls, b))
  <1>w. PICK W : W = TdzStmt(TdzBlock, Head(b), FALSE)
    OBVIOUS
  <1>b. b \in Blocks /\ TdzBlock[b][FALSE].ok
    BY DEF TdzPassed
  <1>1. W \in Judged
    <2>1. Head(b) \in Stmts /\ \A c \in Inner(Head(b)) : c \in Parts(b)
      BY <1>b, BlockIs, PartsIs DEF Inner
    <2>2. \A c \in Inner(Head(b)) : TdzBlock[c] \in [BOOLEAN -> Judged]
      BY <1>b, <2>1, PartsIs, TdzIs
    <2> QED
      BY <1>w, <2>1, <2>2, TdzStmtType
  <1>2. TdzBlock[b][FALSE] = TdzStep(TdzBlock, b, FALSE)
    BY <1>b, TdzIs
  <1>3. W.init \in BOOLEAN /\ W.ok \in BOOLEAN
    BY <1>1 DEF Judged
  <1>r. PICK rest : rest = TdzBlock[Tail(b)][W.init]
    OBVIOUS
  <1>o. PICK o : o = (W.ok /\ rest.ok)
    OBVIOUS
  <1>p. PICK i : i = rest.init
    OBVIOUS
  <1>4. TdzBlock[b][FALSE] = Fields(i, o)
    BY <1>2, <1>w, <1>r, <1>o, <1>p, Zenon DEF TdzStep
  <1>5. TdzBlock[b][FALSE].init = rest.init /\ TdzBlock[b][FALSE].ok = o
    BY <1>4, <1>p DEF Fields
  <1>6. W.ok /\ rest.ok
    BY <1>5, <1>o, <1>b
  <1>7. ~W.init => rest = TdzBlock[Tail(b)][FALSE]
    BY <1>3, <1>r
  <1>8. Tail(b) \in Blocks /\ Examined[Tail(b)]
    BY <1>b, BlockIs, ExaminedParts
  <1>9. ~W.init => Onward(TdzPassed, TdzFalls, b)
    BY <1>b, <1>5, <1>6, <1>7, <1>8 DEF Onward, TdzPassed, TdzFalls
  <1> QED
    BY <1>w, <1>6, <1>9

(* An accepted body has no return before the field is assigned, and no loop *)
(* but `while`.                                                             *)
LEMMA TdzHead ==
  ASSUME NEW b \in TdzPassed, b # <<>>
  PROVE  Head(b).op # "ret" /\ ~ReadsBehind(Head(b)) /\ Head(b).init = <<>>
  <1>s. PICK s : s = Head(b)
    OBVIOUS
  <1>0. s \in Stmts /\ s.op \notin {"switch", "dowhile", "for"}
    BY <1>s, BlockIs, ExaminedParts DEF TdzPassed
  <1>1. s.update = <<>> /\ s.init = <<>>
    BY <1>0, SubsAre
  <1>2. ~ReadsBehind(s)
    BY <1>0, <1>1 DEF ReadsBehind
  <1>3. ASSUME s.op = "ret" PROVE FALSE
    <2>w. PICK W : W = TdzStmt(TdzBlock, s, FALSE)
      OBVIOUS
    <2>1. W.ok
      BY <1>s, <2>w, TdzUnfold
    <2>2. TdzCases(TdzBlock, s, FALSE, W)
      BY <2>w, TdzStmtIs, Zenon
    <2>o. PICK o : o = (Read(s, FALSE) /\ FALSE)
      OBVIOUS
    <2>3. W = Fields(FALSE, o)
      BY <1>3, <2>2, <2>o, Zenon DEF TdzCases
    <2>4. W.ok = o
      BY <2>3 DEF Fields
    <2> QED
      BY <2>1, <2>4, <2>o
  <1> QED
    BY <1>s, <1>1, <1>2, <1>3

(* check_stmt judges the simple statements rightly.                         *)
LEMMA TdzStraight ==
  ASSUME NEW b \in TdzPassed, b # <<>>
  PROVE  StraightOk(TdzPassed, TdzFalls, b)
  <1>w. PICK W : W = TdzStmt(TdzBlock, Head(b), FALSE)
    OBVIOUS
  <1>1. W.ok /\ (~W.init => Onward(TdzPassed, TdzFalls, b))
    BY <1>w, TdzUnfold
  <1>2. TdzCases(TdzBlock, Head(b), FALSE, W)
    BY <1>w, TdzStmtIs, Zenon
  <1>3. Head(b).op \notin {"switch", "ret"}
    BY ExaminedParts, TdzHead
  <1>4. CASE Head(b).op \in {"def", "call"}
    <2>1. Head(b).op \notin {"use", "set", "ret", "block", "if", "while"}
      BY <1>4
    <2>2. W = Fields(FALSE, TRUE)
      BY <1>2, <2>1, Zenon DEF TdzCases
    <2>3. ~W.init
      BY <2>2 DEF Fields
    <2> QED
      BY <1>1, <1>4, <2>3 DEF StraightOk
  <1>5. CASE Head(b).op = "use"
    <2>2. W = Fields(FALSE, Read(Head(b), FALSE))
      BY <1>2, <1>5, Zenon DEF TdzCases
    <2>3. Read(Head(b), FALSE) /\ ~W.init
      BY <1>1, <2>2 DEF Fields
    <2> QED
      BY <1>1, <2>3 DEF StraightOk, Read
  <1>6. CASE Head(b).op = "set"
    <2>1. W = Fields(TRUE, Read(Head(b), FALSE))
      BY <1>2, <1>6, Zenon DEF TdzCases
    <2> QED
      BY <1>1, <1>6, <2>1 DEF StraightOk, Read, Fields
  <1>7. CASE Head(b).op = "if"
    <2> DEFINE good == Read(Head(b), FALSE) /\ AllOk(Arms(TdzBlock, Head(b), FALSE))
    <2>1. \E i : W = Fields(i, good)
      BY <1>2, <1>7 DEF TdzCases
    <2> HIDE DEF good
    <2>2. good
      BY <1>1, <2>1 DEF Fields
    <2> QED
      BY <1>7, <2>2 DEF StraightOk, Read, good
  <1> QED
    BY <1>3, <1>4, <1>5, <1>6, <1>7 DEF StraightOk

(* check_stmt judges the statements that enter one of their blocks rightly. *)
LEMMA TdzBranch ==
  ASSUME NEW b \in TdzPassed, b # <<>>
  PROVE  BranchOk(TdzPassed, TdzFalls, b)
  <1> SUFFICES ASSUME Head(b).op \in {"if", "switch", "block"} PROVE BranchOk(TdzPassed, TdzFalls, b)
    BY DEF BranchOk
  <1>w. PICK W : W = TdzStmt(TdzBlock, Head(b), FALSE)
    OBVIOUS
  <1>s. PICK s : s = Head(b)
    OBVIOUS
  <1>a. PICK arm : arm = Arms(TdzBlock, s, FALSE)
    OBVIOUS
  <1>1. W.ok /\ (~W.init => Onward(TdzPassed, TdzFalls, b))
    BY <1>w, TdzUnfold
  <1>2. TdzCases(TdzBlock, s, FALSE, W)
    BY <1>s, <1>w, TdzStmtIs, Zenon
  <1>3. /\ s \in Stmts /\ s.subs \in Seq(Blocks) /\ \A j \in DOMAIN s.subs : s.subs[j] \in Blocks
        /\ s.op # "switch" /\ \A j \in DOMAIN s.subs : Examined[s.subs[j]]
    <2>1. b \in Blocks
      BY DEF TdzPassed
    <2> QED
      BY <1>s, <2>1, BlockIs, SubsAre, ExaminedParts
  <1>4. DOMAIN arm = DOMAIN s.subs /\ \A j \in DOMAIN s.subs : arm[j] = TdzBlock[s.subs[j]][FALSE]
    BY <1>a DEF Arms
  <1>6. \A j \in DOMAIN s.subs : s.subs[j] \in TdzFalls => ~arm[j].init
    BY <1>4 DEF TdzFalls
  <1>9. CASE s.op = "block"
    <2>1. W = arm[1]
      BY <1>2, <1>9, <1>a, Zenon DEF TdzCases
    <2>2. 1 \in DOMAIN s.subs /\ \A j \in DOMAIN s.subs : j = 1
      BY <1>3, <1>9, SubsAre
    <2>3. s.subs[1] \in TdzPassed
      BY <1>1, <1>3, <1>4, <2>1, <2>2 DEF TdzPassed
    <2> QED
      BY <1>1, <1>6, <1>9, <1>s, <2>1, <2>2, <2>3 DEF BranchOk
  <1>10. CASE s.op = "if"
    <2>0. PICK i, o : i = MeetFields(arm[1], arm[2]) /\ o = (Read(s, FALSE) /\ AllOk(arm))
      OBVIOUS
    <2>1. W = Fields(i, o)
      BY <1>2, <1>10, <1>a, <2>0, Zenon DEF TdzCases
    <2>2. W.init = i /\ W.ok = o
      BY <2>1 DEF Fields
    <2>3. AllOk(arm)
      BY <1>1, <2>0, <2>2
    <2>4. \A j \in DOMAIN s.subs : s.subs[j] \in TdzPassed
      BY <1>3, <1>4, <2>3 DEF AllOk, TdzPassed
    <2>5. DOMAIN s.subs = {1, 2}
      BY <1>3, <1>10, SubsAre
    <2>6. \A j \in DOMAIN s.subs : s.subs[j] \in TdzFalls => ~W.init
      BY <1>6, <2>0, <2>2, <2>5 DEF MeetFields
    <2> QED
      BY <1>1, <1>10, <1>s, <2>4, <2>6 DEF BranchOk
  <1> QED
    BY <1>3, <1>9, <1>10, <1>s

(* check_stmt judges loops rightly.                                         *)
LEMMA TdzLoops ==
  ASSUME NEW b \in TdzPassed, b # <<>>
  PROVE  LoopOk(TdzPassed, TdzFalls, b)
  <1> SUFFICES ASSUME Head(b).op \in Loops PROVE LoopOk(TdzPassed, TdzFalls, b)
    BY DEF LoopOk
  <1>w. PICK W : W = TdzStmt(TdzBlock, Head(b), FALSE)
    OBVIOUS
  <1>s. PICK s : s = Head(b)
    OBVIOUS
  <1>a. PICK arm : arm = Arms(TdzBlock, s, FALSE)
    OBVIOUS
  <1>1. W.ok /\ (~W.init => Onward(TdzPassed, TdzFalls, b))
    BY <1>w, TdzUnfold
  <1>2. TdzCases(TdzBlock, s, FALSE, W)
    BY <1>s, <1>w, TdzStmtIs, Zenon
  <1>3. /\ s \in Stmts /\ s.op = "while" /\ 1 \in DOMAIN s.subs
        /\ s.subs[1] \in Blocks /\ Examined[s.subs[1]] /\ ~ReadsBehind(s) /\ s.init = <<>>
    <2>1. s \in Stmts
      BY <1>s, BlockIs DEF TdzPassed
    <2>2. s.op = "while"
      BY <1>s, ExaminedParts DEF Loops
    <2> QED
      BY <1>s, <2>1, <2>2, SubsAre, ExaminedParts, TdzHead
  <1>o. PICK o : o = (Read(s, FALSE) /\ AllOk(arm))
    OBVIOUS
  <1>4. W = Fields(FALSE, o)
    BY <1>2, <1>3, <1>a, <1>o, Zenon DEF TdzCases
  <1>5. ~W.init /\ W.ok = o
    BY <1>4 DEF Fields
  <1>6. Read(s, FALSE) /\ AllOk(arm)
    BY <1>1, <1>5, <1>o
  <1>7. s.subs[1] \in TdzPassed
    <2>1. 1 \in DOMAIN arm /\ arm[1] = TdzBlock[s.subs[1]][FALSE]
      BY <1>3, <1>a DEF Arms
    <2> QED
      BY <1>3, <1>6, <2>1 DEF AllOk, TdzPassed
  <1> QED
    BY <1>1, <1>3, <1>5, <1>6, <1>7, <1>s DEF LoopOk, Read

(* What check_stmt accepts it judges rightly, in a body it looks into.      *)
LEMMA TdzJudges == Judges(TdzPassed, TdzFalls)
  <1>1. TdzBlock[<<>>][FALSE] = Fields(FALSE, TRUE)
    BY BlockIs, TdzIs DEF TdzStep
  <1>2. <<>> \in TdzFalls
    <2>1. ~TdzBlock[<<>>][FALSE].init
      BY <1>1 DEF Fields
    <2> QED
      BY <2>1, BlockIs, Zenon DEF TdzFalls
  <1>3. TdzPassed \subseteq Blocks
    BY Zenon DEF TdzPassed
  <1> QED
    BY <1>2, <1>3, TdzStraight, TdzBranch, TdzLoops DEF Judges


-----------------------------------------------------------------------------
(* What an analysis says of the stack while the location is not assigned. *)

(* the end of block j comes in this state, as far as the analysis goes;     *)
(* so does the end of the block that block j entered, whatever block j does *)
Reach(F, q, j) == \A i \in j + 1..Len(q) : q[i].stmts \in F \/ \E l \in j + 1..i : q[l].loop
Comes(F, q, j) == j < Len(q) => q[j + 1].stmts \in F /\ Reach(F, q, j + 1)

CleanAt(G, F, q, j) ==
  /\ Reach(F, q, j) => q[j].stmts \in G
  /\ q[j].part \in {"until", "update"} /\ Comes(F, q, j) => ~ReadsBehind(Head(q[j].stmts))
  /\ q[j].part \in {"head", "update"} => NoSet(Head(q[j].stmts))
Clean(G, F, q) == \A j \in 1..Len(q) : CleanAt(G, F, q, j)

(* An end that comes after a step that goes on in block m came before it.   *)
LEMMA ReachTo ==
  ASSUME NEW q, NEW r, NEW m, NEW b, NEW p, Len(q) \in Nat, To(q, r, m, b, p),
         NEW F, Reach(F, q, m), b \in F => q[m].stmts \in F,
         NEW j \in 0..m - 1
  PROVE  /\ Reach(F, r, j) => Reach(F, q, j)
         /\ Comes(F, r, j) => Comes(F, q, j)
  <1>1. /\ m \in 1..Len(q) /\ m \in Nat /\ Len(r) = m
        /\ \A i \in 1..m - 1 : r[i] = q[i]
        /\ r[m].stmts = b /\ r[m].loop = q[m].loop
    BY DEF To
  <1>2. \A i \in 1..m : r[i].loop = q[i].loop /\ (r[i].stmts \in F => q[i].stmts \in F)
    BY <1>1
  <1>3. ASSUME NEW h \in 0..m, Reach(F, r, h) PROVE Reach(F, q, h)
    <2> SUFFICES ASSUME NEW i \in h + 1..Len(q) PROVE q[i].stmts \in F \/ \E l \in h + 1..i : q[l].loop
      BY DEF Reach
    <2>1. ASSUME NEW g \in h + 1..m PROVE q[g].stmts \in F \/ \E l \in h + 1..g : q[l].loop
      <3>1. r[g].stmts \in F \/ \E l \in h + 1..g : r[l].loop
        BY <1>1, <1>3 DEF Reach
      <3>2. g \in 1..m /\ \A l \in h + 1..g : l \in 1..m
        BY <1>1
      <3> QED
        BY <1>2, <3>1, <3>2
    <2>2. CASE i <= m
      BY <2>1, <2>2, <1>1
    <2>3. CASE i > m
      <3>1. i \in m + 1..Len(q)
        BY <1>1, <2>3
      <3>2. q[i].stmts \in F \/ \E l \in m + 1..i : q[l].loop
        BY <3>1 DEF Reach
      <3>3. \A l \in m + 1..i : l \in h + 1..i
        BY <1>1
      <3> QED
        BY <3>2, <3>3
    <2> QED
      BY <1>1, <2>2, <2>3
  <1>4. ASSUME Comes(F, r, j) PROVE Comes(F, q, j)
    <2>1. j + 1 \in 1..m /\ j < Len(r) /\ j < Len(q) /\ j + 1 \in 0..m
      BY <1>1
    <2>2. r[j + 1].stmts \in F /\ Reach(F, r, j + 1)
      BY <1>4, <2>1 DEF Comes
    <2> QED
      BY <1>2, <1>3, <2>1, <2>2 DEF Comes
  <1>5. j \in 0..m
    BY <1>1
  <1> QED
    BY <1>3, <1>4, <1>5

(* A step that goes on in block m leaves the analysis right about the       *)
(* stack.                                                                   *)
LEMMA CleanTo ==
  ASSUME NEW G, NEW F, NEW q, NEW r, NEW m, NEW b, NEW p, Len(q) \in Nat, To(q, r, m, b, p),
         Clean(G, F, q), Reach(F, q, m),
         \/ b = q[m].stmts
         \/ b \in G /\ (b \in F => q[m].stmts \in F),
         p \in {"until", "update"} => ~ReadsBehind(Head(b)),
         p \in {"head", "update"} => NoSet(Head(b))
  PROVE  Clean(G, F, r) /\ (Comes(F, r, 0) => Comes(F, q, 0))
  <1>1. /\ m \in 1..Len(q) /\ m \in Nat /\ Len(r) = m
        /\ \A i \in 1..m - 1 : r[i] = q[i]
        /\ r[m].stmts = b /\ r[m].part = p
    BY DEF To
  <1>2. b \in G /\ (b \in F => q[m].stmts \in F)
    <2>1. CleanAt(G, F, q, m)
      BY <1>1, Zenon DEF Clean
    <2> QED
      BY <2>1, Zenon DEF CleanAt
  <1>3. \A j \in 0..m - 1 : (Reach(F, r, j) => Reach(F, q, j)) /\ (Comes(F, r, j) => Comes(F, q, j))
    BY <1>2, ReachTo, Zenon
  <1>4. ASSUME NEW j \in 1..m PROVE CleanAt(G, F, r, j)
    <2>1. CASE j = m
      BY <1>1, <1>2, <2>1, Zenon DEF CleanAt
    <2>2. CASE j # m
      <3>1. j \in 0..m - 1 /\ j \in 1..m - 1 /\ j \in 1..Len(q)
        BY <1>1, <2>2
      <3>2. r[j] = q[j]
        BY <1>1, <3>1
      <3>3. CleanAt(G, F, q, j)
        BY <3>1, Zenon DEF Clean
      <3> QED
        BY <1>3, <3>1, <3>2, <3>3, Zenon DEF CleanAt
    <2> QED
      BY <2>1, <2>2
  <1>5. 0 \in 0..m - 1
    BY <1>1
  <1> QED
    BY <1>1, <1>3, <1>4, <1>5, Zenon DEF Clean

(* An end that comes after a block was entered came before.                 *)
LEMMA ReachIn ==
  ASSUME NEW q, NEW r, NEW b, NEW p, NEW c, NEW lp, Len(q) \in Nat, In(q, r, b, p, c, lp),
         NEW F, b \in F /\ (lp \/ c \in F) => q[Len(q)].stmts \in F,
         NEW j \in 0..Len(q) - 1
  PROVE  /\ Reach(F, r, j) => Reach(F, q, j)
         /\ Comes(F, r, j) => Comes(F, q, j)
  <1>n. PICK n \in Nat : n = Len(q)
    OBVIOUS
  <1>1. /\ n \in 1..n /\ Len(r) = n + 1
        /\ \A i \in 1..n - 1 : r[i] = q[i]
        /\ r[n].stmts = b /\ r[n].loop = q[n].loop /\ r[n + 1].stmts = c /\ r[n + 1].loop = lp
    BY <1>n DEF In
  <1>2. \A i \in 1..n : r[i].loop = q[i].loop /\ (i # n => r[i].stmts = q[i].stmts)
    BY <1>1
  <1>3. ASSUME NEW h \in 0..n, Reach(F, r, h) PROVE Reach(F, q, h)
    <2> SUFFICES ASSUME NEW i \in h + 1..n PROVE q[i].stmts \in F \/ \E l \in h + 1..i : q[l].loop
      BY <1>n DEF Reach
    <2>1. r[i].stmts \in F \/ \E l \in h + 1..i : r[l].loop
      BY <1>1, <1>3 DEF Reach
    <2>2. i \in 1..n /\ \A l \in h + 1..i : l \in 1..n
      BY <1>1
    <2>3. CASE \E l \in h + 1..i : r[l].loop
      BY <1>2, <2>2, <2>3
    <2>4. CASE i # n
      BY <1>2, <2>1, <2>2, <2>4
    <2>5. CASE i = n /\ ~\E l \in h + 1..i : r[l].loop
      <3>1. b \in F
        BY <1>1, <2>1, <2>5
      <3>2. r[n + 1].stmts \in F \/ \E l \in h + 1..n + 1 : r[l].loop
        <4>1. n + 1 \in h + 1..Len(r)
          BY <1>1
        <4> QED
          BY <1>3, <4>1 DEF Reach
      <3>3. \A l \in h + 1..n + 1 : l \in h + 1..n \/ l = n + 1
        BY <1>1
      <3>4. lp \/ c \in F
        BY <1>1, <2>5, <3>2, <3>3
      <3> QED
        BY <1>n, <2>5, <3>1, <3>4
    <2> QED
      BY <2>3, <2>4, <2>5
  <1>4. ASSUME Comes(F, r, j) PROVE Comes(F, q, j)
    <2>1. j + 1 \in 1..n /\ j < Len(r) /\ j < n /\ j + 1 \in 0..n
      BY <1>1, <1>n
    <2>2. r[j + 1].stmts \in F /\ Reach(F, r, j + 1)
      BY <1>4, <2>1 DEF Comes
    <2>3. q[j + 1].stmts \in F
      <3>1. CASE j + 1 # n
        BY <1>2, <2>1, <2>2, <3>1
      <3>2. CASE j + 1 = n
        <4>1. n + 1 \in n + 1..Len(r) /\ \A l \in n + 1..n + 1 : l = n + 1
          BY <1>1
        <4>2. Reach(F, r, n)
          BY <2>2, <3>2
        <4>3. r[n + 1].stmts \in F \/ \E l \in n + 1..n + 1 : r[l].loop
          BY <4>1, <4>2 DEF Reach
        <4>4. b \in F /\ (lp \/ c \in F)
          BY <1>1, <2>2, <3>2, <4>1, <4>3
        <4> QED
          BY <1>n, <3>2, <4>4
      <3> QED
        BY <3>1, <3>2
    <2> QED
      BY <1>3, <1>n, <2>1, <2>2, <2>3 DEF Comes
  <1>5. j \in 0..n
    BY <1>n
  <1> QED
    BY <1>3, <1>4, <1>5

(* A step that enters an accepted block leaves the analysis right about the *)
(* stack.                                                                   *)
LEMMA CleanIn ==
  ASSUME NEW G, NEW F, NEW q, NEW r, NEW b, NEW p, NEW c, NEW lp, Len(q) \in Nat, In(q, r, b, p, c, lp),
         Clean(G, F, q), c \in G, lp \/ c \in F => b \in G,
         b \in F /\ (lp \/ c \in F) => q[Len(q)].stmts \in F,
         p \in {"until", "update"} /\ c \in F => ~ReadsBehind(Head(b)),
         p \in {"head", "update"} => NoSet(Head(b))
  PROVE  Clean(G, F, r) /\ (Comes(F, r, 0) => Comes(F, q, 0))
  <1>n. PICK n \in Nat : n = Len(q)
    OBVIOUS
  <1>1. /\ n \in 1..n /\ Len(r) = n + 1
        /\ \A i \in 1..n - 1 : r[i] = q[i]
        /\ r[n].stmts = b /\ r[n].part = p /\ r[n + 1].stmts = c /\ r[n + 1].loop = lp
        /\ r[n + 1].part = "open"
    BY <1>n DEF In
  <1>3. \A j \in 0..n - 1 : (Reach(F, r, j) => Reach(F, q, j)) /\ (Comes(F, r, j) => Comes(F, q, j))
    BY <1>n, ReachIn, Zenon
  <1>4. CleanAt(G, F, r, n + 1)
    BY <1>1 DEF CleanAt
  <1>5. CleanAt(G, F, r, n)
    <2>1. n + 1 \in n + 1..Len(r) /\ n < Len(r) /\ \A l \in n + 1..n + 1 : l = n + 1
      BY <1>1
    <2>2. Reach(F, r, n) => lp \/ c \in F
      BY <1>1, <2>1 DEF Reach
    <2>3. Comes(F, r, n) => c \in F
      BY <1>1, <2>1 DEF Comes
    <2> QED
      BY <1>1, <2>2, <2>3, Zenon DEF CleanAt
  <1>6. ASSUME NEW j \in 1..n + 1 PROVE CleanAt(G, F, r, j)
    <2>1. CASE j \in 1..n - 1
      <3>1. j \in 0..n - 1 /\ j \in 1..n
        BY <1>1, <2>1
      <3>2. r[j] = q[j]
        BY <1>1, <2>1
      <3>3. CleanAt(G, F, q, j)
        BY <1>n, <3>1, Zenon DEF Clean
      <3> QED
        BY <1>3, <3>1, <3>2, <3>3, Zenon DEF CleanAt
    <2>2. j \in 1..n - 1 \/ j = n \/ j = n + 1
      BY <1>1
    <2> QED
      BY <1>4, <1>5, <2>1, <2>2
  <1>7. 0 \in 0..n - 1
    BY <1>1
  <1> QED
    BY <1>1, <1>3, <1>6, <1>7, Zenon DEF Clean

(* the loop around block j has a part that reads the location behind the    *)
(* body, and no `continue` goes to such a part                              *)
BehindBy(q, j, i) ==
  /\ q[i].loop /\ (\A l \in i + 1..j : ~q[l].loop)
  /\ ReadsBehind(Head(q[i - 1].stmts))
Behind(q, j) == \E i \in 2..j : BehindBy(q, j, i)
Skips(q) == \A j \in 1..Len(q) : NoSkip[q[j].stmts][Behind(q, j)]

(* A block without skipping `continue`: its first statement, the blocks of  *)
(* that, and the rest.                                                      *)
LEMMA NoSkipParts ==
  ASSUME NEW b \in Blocks, b # <<>>, NEW behind \in BOOLEAN, NoSkip[b][behind]
  PROVE  /\ Head(b).op = "cont" => ~behind
         /\ NoSkip[Tail(b)][behind]
         /\ \A j \in DOMAIN Head(b).subs :
              NoSkip[Head(b).subs[j]][IF Head(b).op \in Loops THEN ReadsBehind(Head(b)) ELSE behind]
  <1>1. NoSkip[b][behind] = NoSkipStep(NoSkip, b, behind)
    BY NoSkipIs
  <1>2. NoSkipStep(NoSkip, b, behind)
    BY <1>1
  <1> QED
    BY <1>2, Zenon DEF NoSkipStep

(* What is behind a block depends on the blocks around it.                  *)
LEMMA BehindSame ==
  ASSUME NEW q, NEW r, NEW n \in Nat, \A i \in 1..n : r[i].loop = q[i].loop,
         \A i \in 1..n - 1 : r[i] = q[i], NEW j \in 1..n
  PROVE  Behind(r, j) = Behind(q, j)
  <1>1. ASSUME NEW i \in 2..j PROVE BehindBy(r, j, i) <=> BehindBy(q, j, i)
    <2>1. i \in 1..n /\ i - 1 \in 1..n - 1 /\ \A l \in i + 1..j : l \in 1..n
      OBVIOUS
    <2> QED
      BY <2>1, Zenon DEF BehindBy
  <1>2. Behind(r, j) <=> Behind(q, j)
    BY <1>1, Zenon DEF Behind
  <1>3. Behind(r, j) \in BOOLEAN /\ Behind(q, j) \in BOOLEAN
    BY Zenon DEF Behind
  <1> QED
    BY <1>2, <1>3

(* What is behind a block just entered.                                     *)
LEMMA BehindIn ==
  ASSUME NEW r, NEW n \in Nat, n >= 1, r[n + 1].loop \in BOOLEAN
  PROVE  Behind(r, n + 1) = IF r[n + 1].loop THEN ReadsBehind(Head(r[n].stmts)) ELSE Behind(r, n)
  <1>0. /\ Behind(r, n + 1) \in BOOLEAN /\ Behind(r, n) \in BOOLEAN /\ ReadsBehind(Head(r[n].stmts)) \in BOOLEAN
        /\ n + 1 \in 2..n + 1 /\ n + 1 - 1 = n
    <2>1. Behind(r, n + 1) \in BOOLEAN /\ Behind(r, n) \in BOOLEAN /\ ReadsBehind(Head(r[n].stmts)) \in BOOLEAN
      BY Zenon DEF Behind, ReadsBehind
    <2>2. n + 1 \in 2..n + 1 /\ n + 1 - 1 = n
      OBVIOUS
    <2> QED
      BY <2>1, <2>2
  <1>1. CASE r[n + 1].loop
    <2>1. ASSUME NEW i \in 2..n + 1, BehindBy(r, n + 1, i) PROVE i = n + 1
      <3>1. n + 1 \notin i + 1..n + 1
        BY <1>1, <2>1 DEF BehindBy
      <3> QED
        BY <3>1
    <2>2. Behind(r, n + 1) <=> BehindBy(r, n + 1, n + 1)
      BY <1>0, <2>1 DEF Behind
    <2>3. \A l \in n + 1 + 1..n + 1 : FALSE
      OBVIOUS
    <2>4. BehindBy(r, n + 1, n + 1) <=> ReadsBehind(Head(r[n].stmts))
      BY <1>0, <1>1, <2>3 DEF BehindBy
    <2> QED
      BY <1>0, <1>1, <2>2, <2>4
  <1>2. CASE ~r[n + 1].loop
    <2>1. ASSUME NEW i \in 2..n PROVE BehindBy(r, n + 1, i) <=> BehindBy(r, n, i)
      <3>1. \A l \in i + 1..n + 1 : l \in i + 1..n \/ l = n + 1
        OBVIOUS
      <3>2. \A l \in i + 1..n : l \in i + 1..n + 1
        OBVIOUS
      <3> QED
        BY <1>2, <3>1, <3>2, Zenon DEF BehindBy
    <2>2. ~BehindBy(r, n + 1, n + 1)
      BY <1>2 DEF BehindBy
    <2>3. \A i \in 2..n + 1 : i \in 2..n \/ i = n + 1
      OBVIOUS
    <2>4. \A i \in 2..n : i \in 2..n + 1
      OBVIOUS
    <2>5. Behind(r, n + 1) <=> Behind(r, n)
      BY <2>1, <2>2, <2>3, <2>4, Zenon DEF Behind
    <2> QED
      BY <1>0, <1>2, <2>5
  <1> QED
    BY <1>1, <1>2

(* No step brings a skipping `continue`.                                    *)
LEMMA KeepsSkips ==
  ASSUME NEW q, NEW r, Shape(q), Skips(q), Goes(q, r) \/ Enters(q, r)
  PROVE  Skips(r)
  <1>0. \A j : Behind(q, j) \in BOOLEAN
    BY Zenon DEF Behind
  <1>1. CASE Goes(q, r)
    <2>1. PICK m \in 1..Len(q) : \E b, p : To(q, r, m, b, p) /\ Kept(q, m, b)
      BY <1>1, Zenon DEF Goes
    <2>a. PICK b, p : To(q, r, m, b, p) /\ Kept(q, m, b)
      BY <2>1
    <2>2. q[m].stmts \in Blocks /\ NoSkip[q[m].stmts][Behind(q, m)]
      BY FrameIs DEF Skips
    <2>3. NoSkip[b][Behind(q, m)]
      <3>1. PICK behind \in BOOLEAN : behind = Behind(q, m)
        BY <1>0
      <3>2. q[m].stmts # <<>> => NoSkip[Tail(q[m].stmts)][behind]
        BY <2>2, <3>1, NoSkipParts
      <3> QED
        BY <2>a, <2>2, <3>1, <3>2, Zenon DEF Kept
    <2>4. /\ m \in Nat /\ Len(r) = m /\ r[m].stmts = b
          /\ (\A i \in 1..m : r[i].loop = q[i].loop) /\ \A i \in 1..m - 1 : r[i] = q[i]
      BY <2>a DEF To
    <2>5. ASSUME NEW j \in 1..m PROVE NoSkip[r[j].stmts][Behind(r, j)]
      <3>1. Behind(r, j) = Behind(q, j)
        BY <2>4, BehindSame
      <3>2. CASE j = m
        BY <2>3, <2>4, <3>1, <3>2
      <3>3. CASE j # m
        <4>1. r[j] = q[j] /\ j \in 1..Len(q)
          BY <2>4, <3>3
        <4>2. NoSkip[q[j].stmts][Behind(q, j)]
          BY <4>1, Zenon DEF Skips
        <4> QED
          BY <3>1, <4>1, <4>2
      <3> QED
        BY <3>2, <3>3
    <2> QED
      BY <2>4, <2>5, Zenon DEF Skips
  <1>2. CASE Enters(q, r)
    <2> DEFINE n == Len(q)
               o == q[n].stmts
               s == Head(o)
    <2>1. PICK j \in DOMAIN s.subs : \E b, p, lp : Entered(q, r, j, b, p, lp)
      BY <1>2, EntersAs, Zenon
    <2>2. o # <<>> /\ s.op \in Loops \cup {"if", "switch", "block"}
      BY <1>2, Zenon DEF Enters
    <2>3. PICK b, p, lp : /\ In(q, r, b, p, s.subs[j], lp) /\ b = IF lp THEN o ELSE Tail(o)
                          /\ lp \in BOOLEAN /\ lp = (s.op \in Loops)
      BY <2>1, Zenon DEF Entered
    <2>4. n \in 1..n /\ n \in Nat
      BY <2>3 DEF In, Shape
    <2>5. o \in Blocks /\ NoSkip[o][Behind(q, n)]
      BY <2>4, FrameIs DEF Skips
    <2> HIDE DEF o, n
    <2>6. /\ Len(r) = n + 1 /\ r[n].stmts = b /\ r[n + 1].stmts = s.subs[j] /\ r[n + 1].loop = lp
          /\ (\A i \in 1..n : r[i].loop = q[i].loop) /\ \A i \in 1..n - 1 : r[i] = q[i]
      <3>1. /\ Len(r) = n + 1 /\ r[n].stmts = b /\ r[n + 1].stmts = s.subs[j] /\ r[n + 1].loop = lp
            /\ r[n].loop = q[n].loop /\ \A i \in 1..n - 1 : r[i] = q[i]
        BY <2>3, Zenon DEF In, n
      <3>2. \A i \in 1..n : i = n \/ i \in 1..n - 1
        BY <2>4
      <3>3. \A i \in 1..n : r[i].loop = q[i].loop
        BY <3>1, <3>2, Zenon
      <3> QED
        BY <3>1, <3>3, Zenon
    <2>7. \A i \in 1..n : Behind(r, i) = Behind(q, i)
      BY <2>4, <2>6, BehindSame
    <2>e. PICK behind \in BOOLEAN : behind = Behind(q, n)
      BY <1>0
    <2>p. /\ NoSkip[Tail(o)][behind]
          /\ NoSkip[s.subs[j]][IF s.op \in Loops THEN ReadsBehind(s) ELSE behind]
      BY <2>2, <2>5, <2>e, NoSkipParts
    <2>8. NoSkip[b][Behind(q, n)]
      BY <2>3, <2>5, <2>e, <2>p, Zenon
    <2>9. NoSkip[s.subs[j]][Behind(r, n + 1)]
      <3>1. NoSkip[s.subs[j]][IF s.op \in Loops THEN ReadsBehind(s) ELSE Behind(q, n)]
        BY <2>e, <2>p, Zenon
      <3>2. Behind(r, n + 1) = IF lp THEN ReadsBehind(Head(b)) ELSE Behind(r, n)
        <4>0. n >= 1
          BY <2>4
        <4>1. r[n + 1].loop \in BOOLEAN
          BY <2>3, <2>6, Zenon
        <4>2. Behind(r, n + 1) = IF r[n + 1].loop THEN ReadsBehind(Head(r[n].stmts)) ELSE Behind(r, n)
          BY <2>4, <4>0, <4>1, BehindIn, Zenon
        <4> QED
          BY <2>6, <4>2, Zenon
      <3>3. lp => b = o
        BY <2>3
      <3> QED
        BY <2>3, <2>4, <2>7, <3>1, <3>2, <3>3
    <2>10. ASSUME NEW i \in 1..n + 1 PROVE NoSkip[r[i].stmts][Behind(r, i)]
      <3>1. CASE i = n + 1
        BY <2>6, <2>9, <3>1
      <3>2. CASE i = n
        BY <2>4, <2>6, <2>7, <2>8, <3>2
      <3>3. CASE i # n + 1 /\ i # n
        <4>0. i \in 1..n - 1 /\ i \in 1..n
          BY <2>4, <3>3
        <4>1. r[i] = q[i]
          BY <2>6, <4>0
        <4>2. NoSkip[q[i].stmts][Behind(q, i)]
          BY <4>0, Zenon DEF Skips, n
        <4> QED
          BY <2>7, <4>0, <4>1, <4>2
      <3> QED
        BY <3>1, <3>2, <3>3
    <2> QED
      BY <2>6, <2>10, Zenon DEF Skips
  <1> QED
    BY <1>1, <1>2

(* an evaluation before the assignment, and a step that keeps it right      *)
Fresh(G, F) == Judges(G, F) /\ Shape(k) /\ k # <<>> /\ Clean(G, F, k) /\ ~x /\ ~uninit
Fine(G, F) == Clean(G, F, k') /\ (Comes(F, k', 0) => Comes(F, k, 0))

(* The innermost block is accepted.                                         *)
LEMMA FreshTop ==
  ASSUME NEW G, NEW F, Fresh(G, F)
  PROVE  /\ Len(k) \in Nat /\ Len(k) \in 1..Len(k) /\ Top = k[Len(k)]
         /\ Top.stmts \in G /\ Reach(F, k, Len(k)) /\ Fits(Top)
         /\ Top.part \in {"until", "update"} => ~ReadsBehind(Stmt)
         /\ Top.part \in {"head", "update"} => NoSet(Stmt)
         /\ Top.stmts # <<>> => /\ Stmt \in Stmts
                                /\ StraightOk(G, F, Top.stmts) /\ BranchOk(G, F, Top.stmts) /\ LoopOk(G, F, Top.stmts)
  <1>1. Len(k) \in Nat /\ Len(k) \in 1..Len(k) /\ Top = k[Len(k)]
    <2>1. k \in Seq(Frame) /\ k # <<>>
      BY DEF Fresh, Shape
    <2>2. Len(k) \in Nat /\ Len(k) # 0
      BY <2>1, LenProperties, EmptySeq
    <2> QED
      BY <2>2 DEF Top
  <1>2. CleanAt(G, F, k, Len(k))
    BY <1>1, Zenon DEF Fresh, Clean
  <1>3. Reach(F, k, Len(k)) /\ Comes(F, k, Len(k))
    BY <1>1 DEF Reach, Comes
  <1>4. Top.stmts \in G
    BY <1>1, <1>2, <1>3, Zenon DEF CleanAt
  <1>5. /\ Top.part \in {"until", "update"} => ~ReadsBehind(Stmt)
        /\ Top.part \in {"head", "update"} => NoSet(Stmt)
    BY <1>1, <1>2, <1>3, Zenon DEF CleanAt, Stmt
  <1>6. Fits(Top) /\ (Top.stmts # <<>> => Stmt \in Stmts)
    BY <1>1, FrameIs DEF Fresh, Stmt
  <1>7. Top.stmts # <<>> => StraightOk(G, F, Top.stmts) /\ BranchOk(G, F, Top.stmts) /\ LoopOk(G, F, Top.stmts)
    BY <1>4, Zenon DEF Fresh, Judges
  <1> QED
    BY <1>1, <1>3, <1>4, <1>5, <1>6, <1>7

(* A step within the innermost block is fine.                               *)
LEMMA FineOn ==
  ASSUME NEW G, NEW F, Fresh(G, F), NEW b, NEW p, On(b, p),
         \/ b = Top.stmts
         \/ b = Tail(Top.stmts) /\ Onward(G, F, Top.stmts),
         p \notin {"until", "update"},
         p = "head" => NoSet(Head(b))
  PROVE  Fine(G, F)
  <1>1. /\ Len(k) \in Nat /\ Top = k[Len(k)] /\ Reach(F, k, Len(k)) /\ Clean(G, F, k)
        /\ To(k, k', Len(k), b, p)
    BY FreshTop DEF Fresh, On
  <1>2. \/ b = k[Len(k)].stmts
        \/ b \in G /\ (b \in F => k[Len(k)].stmts \in F)
    BY <1>1, Zenon DEF Onward
  <1>3. /\ p \in {"until", "update"} => ~ReadsBehind(Head(b))
        /\ p \in {"head", "update"} => NoSet(Head(b))
    OBVIOUS
  <1> QED
    BY <1>1, <1>2, <1>3, CleanTo, Zenon DEF Fine

(* So is one behind a statement that the analysis lets go on.               *)
LEMMA FineNext ==
  ASSUME NEW G, NEW F, Fresh(G, F), On(Tail(Top.stmts), "stmt"), Onward(G, F, Top.stmts)
  PROVE  Fine(G, F)
  <1>1. PICK b, p : b = Tail(Top.stmts) /\ p = "stmt" /\ On(b, p)
    OBVIOUS
  <1>2. p \notin {"until", "update"} /\ (p = "head" => NoSet(Head(b)))
    BY <1>1
  <1> QED
    BY <1>1, <1>2, FineOn, Zenon

(* So is one that enters an accepted block.                                 *)
LEMMA FineIn ==
  ASSUME NEW G, NEW F, Fresh(G, F), NEW b, NEW p, NEW c, NEW lp, In(k, k', b, p, c, lp), c \in G,
         \/ lp /\ b = Top.stmts
         \/ ~lp /\ b = Tail(Top.stmts) /\ (c \in F => Onward(G, F, Top.stmts)) /\ p = "stmt",
         p \in {"until", "update"} /\ c \in F => ~ReadsBehind(Head(b)),
         p \in {"head", "update"} => NoSet(Head(b))
  PROVE  Fine(G, F)
  <1>1. Len(k) \in Nat /\ Top = k[Len(k)] /\ Top.stmts \in G /\ Clean(G, F, k)
    BY FreshTop DEF Fresh
  <1>2. /\ lp \/ c \in F => b \in G
        /\ b \in F /\ (lp \/ c \in F) => k[Len(k)].stmts \in F
    BY <1>1, Zenon DEF Onward
  <1> QED
    BY <1>1, <1>2, CleanIn, Zenon DEF Fine

(* The statements other than loops and jumps.                               *)
LEMMA FreshStmt ==
  ASSUME NEW G, NEW F, Fresh(G, F), Straight \/ Skip \/ Arm
  PROVE  ~uninit' /\ (x' \/ Fine(G, F))
  <1>0. /\ Top.part = "stmt" /\ Top.stmts # <<>> /\ Stmt = Head(Top.stmts) /\ Stmt \in Stmts
        /\ StraightOk(G, F, Top.stmts) /\ BranchOk(G, F, Top.stmts)
    <2>1. Top.part = "stmt" /\ Top.stmts # <<>>
      BY DEF Straight, Skip, Arm, AtStmt
    <2> QED
      BY <2>1, FreshTop DEF Stmt
  <1>1. CASE Straight
    <2>1. Stmt.op \in {"use", "set", "def", "call"} /\ On(Tail(Top.stmts), "stmt") /\ x' = (x \/ Stmt.op = "set")
      BY <1>1, Zenon DEF Straight, AtStmt
    <2>2. Stmt.op \in {"use", "set"} => ~Stmt.reads
      BY <1>0 DEF StraightOk
    <2>3. ~uninit'
      BY <1>1, <2>2, Zenon DEF Straight, Fresh
    <2>4. CASE Stmt.op = "set"
      BY <2>1, <2>3, <2>4
    <2>5. CASE Stmt.op \in {"use", "def", "call"}
      <3>1. Onward(G, F, Top.stmts)
        BY <1>0, <2>5 DEF StraightOk
      <3>2. Fine(G, F)
        BY <2>1, <3>1, FineNext
      <3> QED
        BY <2>3, <3>2
    <2> QED
      BY <2>1, <2>4, <2>5
  <1>2. CASE Skip
    <2>1. /\ Stmt.op \in {"if", "switch"} /\ On(Tail(Top.stmts), "stmt") /\ MayRead(Stmt)
          /\ Stmt.op = "if" => Stmt.subs[2] = <<>>
          /\ Stmt.op = "switch" => ~Stmt.dflt
      BY <1>2, Zenon DEF Skip, AtStmt
    <2>2. ~Stmt.reads
      BY <1>0, <2>1 DEF StraightOk
    <2>3. ~uninit'
      BY <2>1, <2>2, Zenon DEF MayRead, Fresh
    <2>4. Onward(G, F, Top.stmts)
      <3>1. CASE Stmt.op = "switch"
        BY <1>0, <2>1, <3>1 DEF BranchOk
      <3>2. CASE Stmt.op = "if"
        <4>1. 2 \in DOMAIN Stmt.subs /\ <<>> \in F
          BY <1>0, <3>2, SubsAre DEF Fresh, Judges
        <4> QED
          BY <1>0, <2>1, <3>2, <4>1 DEF BranchOk
      <3> QED
        BY <2>1, <3>1, <3>2
    <2>5. Fine(G, F)
      BY <2>1, <2>4, FineNext
    <2> QED
      BY <2>3, <2>5
  <1>3. CASE Arm
    <2>1. /\ Stmt.op \in {"if", "switch", "block"}
          /\ uninit' => uninit \/ (Stmt.op # "block" /\ Stmt.reads /\ ~x)
      BY <1>3, Zenon DEF Arm, AtStmt
    <2>2. Stmt.op # "block" => ~Stmt.reads
      BY <1>0, <2>1 DEF StraightOk
    <2>3. ~uninit'
      BY <2>1, <2>2, Zenon DEF Fresh
    <2>4. PICK j \in DOMAIN Stmt.subs : In(k, k', Tail(Top.stmts), "stmt", Stmt.subs[j], FALSE)
      BY <1>3, Zenon DEF Arm
    <2>5. Stmt.subs[j] \in G /\ (Stmt.subs[j] \in F => Onward(G, F, Top.stmts))
      BY <1>0, <2>1 DEF BranchOk
    <2>6. Fine(G, F)
      BY <2>4, <2>5, FineIn
    <2> QED
      BY <2>3, <2>6
  <1> QED
    BY <1>1, <1>2, <1>3

(* The steps of loops, and the opening of a block.                          *)
LEMMA FreshLoop ==
  ASSUME NEW G, NEW F, Fresh(G, F), Opened \/ Begun \/ Tested \/ HeaderDone
  PROVE  ~uninit' /\ (x' \/ Fine(G, F))
  <1>1. CASE Opened
    <2>1. On(Top.stmts, "stmt") /\ uninit' = uninit
      BY <1>1, Zenon DEF Opened, Stays
    <2>2. Fine(G, F)
      BY <2>1, FineOn
    <2> QED
      BY <2>1, <2>2 DEF Fresh
  <1>2. ASSUME Top.stmts # <<>>, Stmt.op \in Loops
        PROVE  /\ Stmt = Head(Top.stmts) /\ Stmt \in Stmts /\ (Stmt.op # "for" => NoSet(Stmt))
               /\ Onward(G, F, Top.stmts) /\ (Stmt.init # <<>> => ~Stmt.init[1].reads)
               /\ NoSet(Stmt) => /\ Stmt.subs[1] \in G /\ (Stmt.op \in {"while", "for"} => ~Stmt.reads)
                                 /\ Stmt.subs[1] \in F => ~ReadsBehind(Stmt)
    <2>1. LoopOk(G, F, Top.stmts) /\ Stmt \in Stmts /\ Stmt = Head(Top.stmts)
      BY <1>2, FreshTop DEF Stmt
    <2>2. Stmt.op # "for" => NoSet(Stmt)
      BY <2>1, SubsAre DEF NoSet
    <2> QED
      BY <1>2, <2>1, <2>2 DEF LoopOk
  <1>3. CASE Begun
    <2>0. ~uninit'
      BY <1>3, Zenon DEF Begun, Stays, Fresh
    <2>1. CASE AtStmt({"while"}) /\ On(Top.stmts, "test")
      <3>1. Fine(G, F)
        BY <2>1, FineOn
      <3> QED
        BY <2>0, <3>1
    <2>2. CASE AtStmt({"for"}) /\ On(Top.stmts, IF Stmt.init = <<>> THEN "head" ELSE "init")
      <3>p. PICK p : p = IF Stmt.init = <<>> THEN "head" ELSE "init"
        OBVIOUS
      <3>1. On(Top.stmts, p)
        BY <2>2, <3>p, Zenon
      <3>2. p \in {"head", "init"} /\ (p = "head" => NoSet(Head(Top.stmts)))
        BY <3>p DEF NoSet, Stmt
      <3>3. p \notin {"until", "update"}
        BY <3>2
      <3>4. Fine(G, F)
        BY <3>1, <3>2, <3>3, FineOn
      <3> QED
        BY <2>0, <3>4
    <2>3. CASE AtStmt({"dowhile"}) /\ In(k, k', Top.stmts, "until", Stmt.subs[1], TRUE)
      <3>1. Top.stmts # <<>> /\ Stmt.op = "dowhile" /\ Stmt.op \in Loops
        BY <2>3 DEF AtStmt, Loops
      <3>2. NoSet(Stmt) /\ Stmt.subs[1] \in G /\ (Stmt.subs[1] \in F => ~ReadsBehind(Stmt)) /\ Stmt = Head(Top.stmts)
        BY <1>2, <3>1
      <3>3. Fine(G, F)
        BY <2>3, <3>2, FineIn
      <3> QED
        BY <2>0, <3>3
    <2> QED
      BY <1>3, <2>1, <2>2, <2>3, Zenon DEF Begun
  <1>4. CASE Tested
    <2>1. /\ Top.part \in {"test", "until", "head"} /\ MayRead(Stmt)
          /\ \/ On(Tail(Top.stmts), "stmt")
             \/ \E p : Following(p) /\ In(k, k', Top.stmts, p, Stmt.subs[1], TRUE)
      BY <1>4, Zenon DEF Tested
    <2>2. /\ Top.stmts # <<>> /\ Stmt.op \in Loops
          /\ Top.part = "head" => Stmt.op = "for"
          /\ Top.part = "until" => Stmt.op = "dowhile"
          /\ Top.part = "test" => Stmt.op = "while"
      <3>1. Fits(Top)
        BY FreshTop
      <3> QED
        BY <2>1, <3>1 DEF Fits, Stmt, Loops
    <2>3. NoSet(Stmt)
      BY <1>2, <2>1, <2>2, FreshTop
    <2>4. ~Stmt.reads
      <3>1. Top.part = "until" => ~ReadsBehind(Stmt)
        BY FreshTop
      <3> QED
        BY <1>2, <2>1, <2>2, <2>3, <3>1 DEF ReadsBehind
    <2>5. ~uninit'
      BY <2>1, <2>4, Zenon DEF MayRead, Fresh
    <2>6. CASE On(Tail(Top.stmts), "stmt")
      <3>1. Fine(G, F)
        BY <1>2, <2>2, <2>6, FineNext
      <3> QED
        BY <2>5, <3>1
    <2>7. CASE \E p : Following(p) /\ In(k, k', Top.stmts, p, Stmt.subs[1], TRUE)
      <3>1. PICK p : Following(p) /\ In(k, k', Top.stmts, p, Stmt.subs[1], TRUE)
        BY <2>7
      <3>2. Stmt.subs[1] \in G /\ (Stmt.subs[1] \in F => ~ReadsBehind(Stmt)) /\ Stmt = Head(Top.stmts)
        BY <1>2, <2>2, <2>3
      <3>3. Fine(G, F)
        BY <2>3, <3>1, <3>2, FineIn, Zenon
      <3> QED
        BY <2>5, <3>3
    <2> QED
      BY <2>1, <2>6, <2>7
  <1>5. CASE HeaderDone
    <2>1. PICK h : /\ \/ Top.part = "init" /\ h = Stmt.init[1]
                      \/ Top.part = "update" /\ h = Stmt.update[1]
                   /\ On(Top.stmts, "head")
                   /\ x' = (x \/ h.op = "set") /\ MayRead(h)
      BY <1>5, Zenon DEF HeaderDone
    <2>2. /\ Top.stmts # <<>> /\ Stmt.op \in Loops
          /\ Top.part = "init" => Stmt.init # <<>>
          /\ Top.part = "update" => Stmt.update # <<>>
      <3>1. Fits(Top)
        BY FreshTop
      <3> QED
        BY <2>1, <3>1 DEF Fits, Stmt, Loops
    <2>3. ~h.reads
      <3>1. Top.part = "update" => ~ReadsBehind(Stmt)
        BY FreshTop
      <3> QED
        BY <1>2, <2>1, <2>2, <3>1 DEF ReadsBehind
    <2>4. ~uninit'
      BY <2>1, <2>3, Zenon DEF MayRead, Fresh
    <2>5. CASE h.op = "set"
      BY <2>1, <2>4, <2>5
    <2>6. CASE h.op # "set"
      <3>1. NoSet(Stmt)
        <4>1. Top.part = "update" => NoSet(Stmt)
          BY FreshTop
        <4> QED
          BY <2>1, <2>6, <4>1 DEF NoSet
      <3>2. NoSet(Head(Top.stmts))
        BY <3>1 DEF Stmt
      <3>3. Fine(G, F)
        BY <2>1, <3>2, FineOn
      <3> QED
        BY <2>4, <3>3
    <2> QED
      BY <2>5, <2>6
  <1> QED
    BY <1>1, <1>3, <1>4, <1>5

(* no `continue` ahead goes to a part that reads the location behind the    *)
(* body                                                                     *)
NoneBehind == \A m \in 1..Len(k) : AtStmt({"cont"}) /\ Around(m) => ~ReadsBehind(Head(k[m].stmts))

(* So is a jump, when no part behind the body reads the location.           *)
LEMMA FreshJump ==
  ASSUME NEW G, NEW F, Fresh(G, F), NoneBehind, Jumped
  PROVE  ~uninit' /\ Fine(G, F)
  <1>0. ~uninit' /\ Clean(G, F, k) /\ Shape(k)
    BY Zenon DEF Jumped, Stays, Fresh
  <1>1. PICK m \in 1..Len(k) : /\ Around(m)
                               /\ \/ AtStmt({"brk"}) /\ To(k, k', m, Tail(k[m].stmts), "stmt")
                                  \/ AtStmt({"cont"}) /\ To(k, k', m, k[m].stmts, k[m].part)
    BY Zenon DEF Jumped
  <1>2. Len(k) \in Nat
    BY FreshTop
  <1>3. Reach(F, k, m)
    <2>1. m + 1 \in 2..Len(k) /\ k[m + 1].loop
      BY <1>1 DEF Around
    <2>2. \A i \in m + 1..Len(k) : m + 1 \in m + 1..i
      BY <1>2
    <2> QED
      BY <2>1, <2>2, Zenon DEF Reach
  <1>4. CleanAt(G, F, k, m) /\ Fits(k[m]) /\ k[m].part \in Rounds
    BY <1>0, <1>1, FrameIs, Zenon DEF Clean, Around
  <1>5. k[m].stmts \in G /\ k[m].stmts # <<>> /\ Head(k[m].stmts).op \in Loops
    <2>1. k[m].stmts \in G
      BY <1>3, <1>4, Zenon DEF CleanAt
    <2>2. k[m].stmts # <<>> /\ Head(k[m].stmts).op \in Loops
      BY <1>4 DEF Fits, Rounds, Loops
    <2> QED
      BY <2>1, <2>2
  <1>6. CASE AtStmt({"brk"}) /\ To(k, k', m, Tail(k[m].stmts), "stmt")
    <2>1. Onward(G, F, k[m].stmts)
      <3>1. LoopOk(G, F, k[m].stmts)
        BY <1>5, Zenon DEF Fresh, Judges
      <3> QED
        BY <1>5, <3>1, Zenon DEF LoopOk
    <2>2. PICK b, p : b = Tail(k[m].stmts) /\ p = "stmt" /\ To(k, k', m, b, p)
      BY <1>6
    <2>3. /\ b \in G /\ (b \in F => k[m].stmts \in F)
          /\ p \in {"until", "update"} => ~ReadsBehind(Head(b))
          /\ p \in {"head", "update"} => NoSet(Head(b))
      BY <2>1, <2>2 DEF Onward
    <2> QED
      BY <1>0, <1>2, <1>3, <2>2, <2>3, CleanTo, Zenon DEF Fine
  <1>7. CASE AtStmt({"cont"}) /\ To(k, k', m, k[m].stmts, k[m].part)
    <2>1. ~ReadsBehind(Head(k[m].stmts))
      BY <1>1, <1>7, Zenon DEF NoneBehind
    <2>2. k[m].part \in {"head", "update"} => NoSet(Head(k[m].stmts))
      BY <1>4, Zenon DEF CleanAt
    <2>3. PICK b, p : b = k[m].stmts /\ p = k[m].part /\ To(k, k', m, b, p)
      BY <1>7, Zenon
    <2>4. /\ p \in {"until", "update"} => ~ReadsBehind(Head(b))
          /\ p \in {"head", "update"} => NoSet(Head(b))
      BY <2>1, <2>2, <2>3
    <2>5. /\ To(k, k', m, b, p)
          /\ \/ b = k[m].stmts
             \/ b \in G /\ (b \in F => k[m].stmts \in F)
      BY <2>3, Zenon
    <2> QED
      BY <1>0, <1>2, <1>3, <2>4, <2>5, CleanTo, Zenon DEF Fine
  <1> QED
    BY <1>1, <1>6, <1>7, Zenon

(* So is the end of a block; the end of the body comes only if the analysis *)
(* has it come.                                                             *)
LEMMA FreshDrop ==
  ASSUME NEW G, NEW F, Fresh(G, F), Dropped
  PROVE  ~uninit' /\ IF Len(k) = 1 THEN Comes(F, k, 0) ELSE Fine(G, F)
  <1>0. ~uninit' /\ Clean(G, F, k) /\ <<>> \in F
    BY Zenon DEF Dropped, Stays, Fresh, Judges
  <1>1. Len(k) \in Nat /\ Len(k) >= 1 /\ k[Len(k)].stmts = <<>> /\ Reach(F, k, Len(k))
    <2>1. Len(k) \in Nat /\ Len(k) \in 1..Len(k) /\ Reach(F, k, Len(k)) /\ Top = k[Len(k)]
      BY FreshTop
    <2> QED
      BY <2>1 DEF Dropped
  <1>2. CASE Len(k) = 1
    <2>1. k[0 + 1].stmts \in F /\ Reach(F, k, 0 + 1)
      BY <1>0, <1>1, <1>2
    <2> QED
      BY <1>0, <1>2, <2>1, Zenon DEF Comes
  <1>3. CASE Len(k) # 1
    <2>m. PICK m \in Nat : m = Len(k) - 1 /\ m + 1 = Len(k) /\ m \in 1..Len(k) /\ m < Len(k)
      <3>1. \A n \in Nat : n >= 1 /\ n # 1 => \E m \in Nat : m = n - 1 /\ m + 1 = n /\ m \in 1..n /\ m < n
        <4> SUFFICES ASSUME NEW n \in Nat, n >= 1, n # 1
                     PROVE  n - 1 \in Nat /\ n - 1 + 1 = n /\ n - 1 \in 1..n /\ n - 1 < n
          OBVIOUS
        <4> QED
          OBVIOUS
      <3> QED
        BY <1>1, <1>3, <3>1, Zenon
    <2>1. To(k, k', m, k[m].stmts, k[m].part)
      BY <1>3, <2>m DEF Dropped
    <2>2. Reach(F, k, m)
      <3>1. \A i \in m + 1..Len(k) : i = Len(k)
        BY <2>m
      <3> QED
        BY <1>0, <1>1, <3>1, Zenon DEF Reach
    <2>3. Comes(F, k, m)
      BY <1>0, <1>1, <2>m DEF Comes
    <2>4. CleanAt(G, F, k, m)
      BY <1>0, <2>m, Zenon DEF Clean
    <2>5. /\ k[m].part \in {"until", "update"} => ~ReadsBehind(Head(k[m].stmts))
          /\ k[m].part \in {"head", "update"} => NoSet(Head(k[m].stmts))
      BY <2>3, <2>4, Zenon DEF CleanAt
    <2>6. Clean(G, F, k') /\ (Comes(F, k', 0) => Comes(F, k, 0))
      BY <1>0, <1>1, <2>1, <2>2, <2>5, CleanTo, Zenon
    <2> QED
      BY <1>0, <1>3, <2>6, Zenon DEF Fine
  <1> QED
    BY <1>2, <1>3

(* No evaluation ends with a read of the location.                          *)
LEMMA FreshEnd ==
  ASSUME NEW G, NEW F, Fresh(G, F), Ended
  PROVE  ~uninit' /\ (phase' = "returned" => Top.stmts # <<>> /\ Stmt.op = "ret")
  <1>1. CASE AtStmt({"ret"}) /\ MayRead(Stmt)
    <2>1. Top.stmts # <<>> /\ Stmt.op = "ret"
      BY <1>1 DEF AtStmt
    <2>2. StraightOk(G, F, Top.stmts) /\ Stmt = Head(Top.stmts)
      BY <2>1, FreshTop DEF Stmt
    <2>3. ~Stmt.reads
      BY <2>1, <2>2 DEF StraightOk
    <2>4. ~uninit'
      BY <1>1, <2>3, Zenon DEF MayRead, Fresh
    <2> QED
      BY <2>1, <2>4
  <1>2. CASE phase' \in {"panicked", "exceeded"} /\ uninit' = uninit
    BY <1>2 DEF Fresh
  <1> QED
    BY <1>1, <1>2, Zenon DEF Ended

(* Once assigned, the location stays assigned, and nothing reads it before. *)
LEMMA SetStays ==
  ASSUME Evaluates, x, x \in BOOLEAN, ~uninit
  PROVE  x' /\ ~uninit'
  <1>1. CASE Straight
    BY <1>1, Zenon DEF Straight
  <1>2. CASE Skip \/ Arm
    BY <1>2, Zenon DEF Skip, Arm, MayRead
  <1>3. CASE Opened \/ Begun \/ Jumped \/ Dropped
    <2>1. x' = x /\ uninit' = uninit
      BY <1>3, Zenon DEF Opened, Begun, Jumped, Dropped, Stays
    <2> QED
      BY <2>1
  <1>4. CASE Tested
    BY <1>4, Zenon DEF Tested, MayRead
  <1>5. CASE HeaderDone
    BY <1>5, Zenon DEF HeaderDone, MayRead
  <1>6. CASE Ended
    <2>1. x' = x /\ (uninit' => uninit \/ ~x)
      <3>1. CASE MayRead(Stmt)
        BY <1>6, <3>1, Zenon DEF Ended, MayRead
      <3>2. CASE uninit' = uninit
        BY <1>6, <3>2 DEF Ended
      <3> QED
        BY <1>6, <3>1, <3>2, Zenon DEF Ended
    <2> QED
      BY <2>1
  <1> QED
    BY <1>1, <1>2, <1>3, <1>4, <1>5, <1>6, Zenon DEF Evaluates

(* A step before the assignment assigns it, ends the evaluation, or leaves  *)
(* a stack that the analysis is right about.                                *)
LEMMA FreshSteps ==
  ASSUME NEW G, NEW F, Fresh(G, F), NoneBehind, Evaluates, k' # <<>>
  PROVE  ~uninit' /\ (x' \/ Fine(G, F))
  <1>1. CASE Straight \/ Skip \/ Arm
    BY <1>1, FreshStmt, Zenon
  <1>2. CASE Opened \/ Begun \/ Tested \/ HeaderDone
    BY <1>2, FreshLoop, Zenon
  <1>3. CASE Jumped
    BY <1>3, FreshJump, Zenon
  <1>4. CASE Dropped
    <2>1. Len(k) # 1
      BY <1>4, Zenon DEF Dropped
    <2> QED
      BY <1>4, <2>1, FreshDrop, Zenon
  <1>5. ~Ended
    BY Zenon DEF Ended
  <1> QED
    BY <1>1, <1>2, <1>3, <1>4, <1>5, Zenon DEF Evaluates

(* A body entered: the analysis says of the stack what it says of the body. *)
LEMMA EnteringClean ==
  ASSUME NEW G, NEW F, NEW q, Len(q) = 1, q[1].stmts \in G, q[1].part = "open", NEW b, q[1].stmts = b
  PROVE  Clean(G, F, q) /\ (Comes(F, q, 0) => b \in F)
  <1>1. \A j \in 1..Len(q) : j = 1
    OBVIOUS
  <1>2. CleanAt(G, F, q, 1)
    BY DEF CleanAt
  <1>3. Comes(F, q, 0) => b \in F
    BY DEF Comes
  <1> QED
    BY <1>1, <1>2, <1>3, Zenon DEF Clean

(* No part of an accepted `__init__` body reads the field behind a loop     *)
(* body.                                                                    *)
LEMMA NoneBehindField ==
  ASSUME Fresh(TdzPassed, TdzFalls)
  PROVE  NoneBehind
  <1> SUFFICES ASSUME NEW m \in 1..Len(k), Around(m) PROVE ~ReadsBehind(Head(k[m].stmts))
    BY DEF NoneBehind
  <1>1. Len(k) \in Nat
    BY FreshTop
  <1>2. Reach(TdzFalls, k, m)
    <2>1. m + 1 \in 2..Len(k) /\ k[m + 1].loop
      BY DEF Around
    <2>2. \A i \in m + 1..Len(k) : m + 1 \in m + 1..i
      BY <1>1
    <2> QED
      BY <2>1, <2>2, Zenon DEF Reach
  <1>3. k[m].stmts \in TdzPassed
    BY <1>2, Zenon DEF Fresh, Clean, CleanAt
  <1>4. k[m].stmts # <<>>
    <2>1. Fits(k[m]) /\ k[m].part \in Rounds
      BY FrameIs, Zenon DEF Fresh, Around
    <2> QED
      BY <2>1 DEF Fits, Rounds
  <1> QED
    BY <1>3, <1>4, TdzHead

(* A body without skipping `continue` has none ahead.                       *)
LEMMA NoneBehindVar ==
  ASSUME Shape(k), k # <<>>, Skips(k)
  PROVE  NoneBehind
  <1> SUFFICES ASSUME NEW m \in 1..Len(k), AtStmt({"cont"}), Around(m), ReadsBehind(Head(k[m].stmts)) PROVE FALSE
    BY DEF NoneBehind
  <1>1. Len(k) \in Nat /\ Len(k) \in 1..Len(k)
    <2>1. Len(k) \in Nat /\ Len(k) # 0
      BY LenProperties, EmptySeq DEF Shape
    <2> QED
      BY <2>1
  <1>2. Behind(k, Len(k))
    <2>1. m + 1 \in 2..Len(k) /\ k[m + 1].loop /\ m + 1 - 1 = m /\ m + 1 + 1 = m + 2
      BY DEF Around
    <2>2. \A l \in m + 1 + 1..Len(k) : ~k[l].loop
      BY <2>1, Zenon DEF Around
    <2>3. BehindBy(k, Len(k), m + 1)
      BY <2>1, <2>2 DEF BehindBy
    <2> QED
      BY <2>1, <2>3, Zenon DEF Behind
  <1>3. NoSkip[k[Len(k)].stmts][Behind(k, Len(k))] /\ k[Len(k)].stmts \in Blocks
    BY <1>1, FrameIs DEF Skips
  <1>4. k[Len(k)].stmts # <<>> /\ Head(k[Len(k)].stmts).op = "cont"
    BY DEF AtStmt, Top, Stmt
  <1>5. PICK behind \in BOOLEAN : behind = Behind(k, Len(k))
    <2>1. Behind(k, Len(k)) \in BOOLEAN
      BY Zenon DEF Behind
    <2> QED
      BY <2>1
  <1>6. ~behind
    BY <1>3, <1>4, <1>5, NoSkipParts
  <1> QED
    BY <1>2, <1>5, <1>6

(* What holds throughout for a variable, and for the field of an            *)
(* `__init__`.                                                              *)
VarInv ==
  fn.kind = "var" =>
    /\ ~uninit
    /\ phase = "walk" => NoSkip[body][FALSE]
    /\ phase = "run" => Skips(k) /\ (x \/ Clean(WalkPassed, WalkFalls, k))
FieldInv ==
  fn.kind = "field" =>
    /\ ~uninit
    /\ phase = "walk" => Examined[body]
    /\ phase = "run" => x \/ (Clean(TdzPassed, TdzFalls, k) /\ ~Comes(TdzFalls, k, 0))
    /\ phase \in {"returned", "fell"} => x

(* VarInv holds at the start.                                               *)
LEMMA VarInvInit == Init => VarInv
  BY DEF Init, VarInv

(* FieldInv holds at the start.                                             *)
LEMMA FieldInvInit == Init => FieldInv
  BY DEF Init, FieldInv

(* The steps before the evaluation.                                         *)
LEMMA PassSteps ==
  ASSUME ReturnInv, Build \/ Walk
  PROVE  /\ fn' = fn /\ uninit' = uninit
         /\ \/ phase' \in {"walk", "rejected"} /\ body' = Desugar[fn.body][<<>>]
            \/ phase' = "rejected"
            \/ /\ phase = "walk" /\ phase' = "run" /\ body \in Blocks /\ WalkAccepts(fn, body)
               /\ Len(k') = 1 /\ k'[1].stmts = body /\ k'[1].part = "open" /\ k'[1].loop = FALSE
  <1>1. CASE Build
    <2>1. body = fn.body
      BY <1>1 DEF Build, ReturnInv
    <2> QED
      BY <1>1, <2>1 DEF Build
  <1>2. CASE Walk
    <2>1. phase = "walk" /\ body \in Blocks /\ fn' = fn /\ uninit' = uninit
      BY <1>2 DEF Walk, ReturnInv
    <2>2. \/ phase' = "rejected"
          \/ phase' = "run" /\ k' = Enter(body, FALSE, <<>>) /\ WalkAccepts(fn, body)
      BY <1>2, Zenon DEF Walk
    <2>3. CASE phase' = "run" /\ k' = Enter(body, FALSE, <<>>) /\ WalkAccepts(fn, body)
      <3>1. Len(k') = 1 /\ k'[1].stmts = body /\ k'[1].part = "open" /\ k'[1].loop = FALSE
        BY <2>1, <2>3, Entering
      <3> QED
        BY <2>1, <2>3, <3>1
    <2> QED
      BY <2>1, <2>2, <2>3
  <1> QED
    BY <1>1, <1>2

(* Only a running body has further steps.                                   *)
LEMMA OnlyRuns ==
  ASSUME Next, ~Build, ~Walk
  PROVE  phase = "run"
  BY Zenon DEF Next, Use, Set, Def, Call, Panic, Branch, Switch, Block, Open, While, WhileTest, DoWhile,
     DoTest, For, ForInit, ForTest, ForUpdate, Return, Break, Continue, Leave, Exceed, Exec, Pass, Test, Header, Jump

(* Every step keeps FieldInv, given that `__init__` bodies are looked into. *)
LEMMA FieldInvNext ==
  ASSUME LooksInside, ReturnInv, FieldInv, [Next]_vars
  PROVE  FieldInv'
  <1>1. CASE UNCHANGED vars
    BY <1>1 DEF vars, FieldInv, Clean, CleanAt, Reach, Comes
  <1>2. CASE Build \/ Walk
    <2>1. /\ fn' = fn /\ uninit' = uninit
          /\ \/ phase' \in {"walk", "rejected"} /\ body' = Desugar[fn.body][<<>>]
             \/ phase' = "rejected"
             \/ /\ phase = "walk" /\ phase' = "run" /\ body \in Blocks /\ WalkAccepts(fn, body)
                /\ Len(k') = 1 /\ k'[1].stmts = body /\ k'[1].part = "open"
      BY <1>2, PassSteps, Zenon
    <2> SUFFICES ASSUME fn.kind = "field" PROVE FieldInv'
      BY <2>1 DEF FieldInv
    <2>2. ~uninit'
      BY <2>1 DEF FieldInv
    <2>3. CASE phase' \in {"walk", "rejected"} /\ body' = Desugar[fn.body][<<>>]
      <3>1. Examined[body']
        BY <2>3 DEF LooksInside, ReturnInv
      <3> QED
        BY <2>2, <2>3, <3>1 DEF FieldInv
    <2>4. CASE phase' = "rejected"
      BY <2>2, <2>4 DEF FieldInv
    <2>5. CASE /\ phase = "walk" /\ phase' = "run" /\ body \in Blocks /\ WalkAccepts(fn, body)
               /\ Len(k') = 1 /\ k'[1].stmts = body /\ k'[1].part = "open"
      <3>1. Examined[body] /\ TdzBlock[body][FALSE].ok /\ TdzBlock[body][FALSE].init
        BY <2>5 DEF FieldInv, WalkAccepts, TdzAccepts
      <3>2. body \in TdzPassed /\ body \notin TdzFalls
        BY <2>5, <3>1, Zenon DEF TdzPassed, TdzFalls
      <3>3. Clean(TdzPassed, TdzFalls, k') /\ (Comes(TdzFalls, k', 0) => body \in TdzFalls)
        BY <2>5, <3>2, EnteringClean
      <3> QED
        BY <2>2, <2>5, <3>2, <3>3 DEF FieldInv
    <2> QED
      BY <2>1, <2>3, <2>4, <2>5
  <1>3. CASE Next /\ ~Build /\ ~Walk
    <2>1. phase = "run" /\ k # <<>> /\ Shape(k) /\ Placed(k) /\ x \in BOOLEAN /\ uninit \in BOOLEAN
      BY <1>3, OnlyRuns DEF ReturnInv
    <2>2. /\ Evaluates /\ fn' = fn
          /\ \/ phase' = "run" /\ k' # <<>>
             \/ Ended
             \/ Dropped /\ Len(k) = 1 /\ phase' = "fell"
      BY <1>3, <2>1, EvaluationSteps, Zenon
    <2> SUFFICES ASSUME fn.kind = "field" PROVE FieldInv'
      BY <2>2 DEF FieldInv
    <2>3. ~uninit /\ (x \/ (Clean(TdzPassed, TdzFalls, k) /\ ~Comes(TdzFalls, k, 0)))
      BY <2>1 DEF FieldInv
    <2>e. Ended => phase' \in {"returned", "panicked", "exceeded"}
      BY DEF Ended
    <2>4. CASE x
      <3>1. x' /\ ~uninit'
        BY <2>1, <2>2, <2>3, <2>4, SetStays
      <3> QED
        BY <2>2, <2>e, <3>1 DEF FieldInv
    <2>5. CASE ~x
      <3>1. Fresh(TdzPassed, TdzFalls) /\ ~Comes(TdzFalls, k, 0)
        BY <2>1, <2>3, <2>5, TdzJudges, Zenon DEF Fresh
      <3>2. CASE phase' = "run" /\ k' # <<>>
        <4>1. ~uninit' /\ (x' \/ Fine(TdzPassed, TdzFalls))
          BY <2>2, <3>1, <3>2, FreshSteps, NoneBehindField, Zenon
        <4> QED
          BY <3>1, <3>2, <4>1 DEF FieldInv, Fine
      <3>3. CASE Ended
        <4>1. ~uninit' /\ (phase' = "returned" => Top.stmts # <<>> /\ Stmt.op = "ret")
          BY <3>1, <3>3, FreshEnd, Zenon
        <4>2. Top.stmts \in TdzPassed
          BY <3>1, FreshTop, Zenon
        <4>3. phase' # "returned"
          BY <4>1, <4>2, TdzHead DEF Stmt
        <4> QED
          BY <2>e, <3>3, <4>1, <4>3 DEF FieldInv
      <3>4. CASE Dropped /\ Len(k) = 1
        BY <3>1, <3>4, FreshDrop, Zenon
      <3> QED
        BY <2>2, <3>2, <3>3, <3>4
    <2> QED
      BY <2>4, <2>5
  <1> QED
    BY <1>1, <1>2, <1>3 DEF Next

(* Every step keeps VarInv, given that no `continue` skips.                 *)
LEMMA VarInvNext ==
  ASSUME LooksBehind, ReturnInv, VarInv, [Next]_vars
  PROVE  VarInv'
  <1>1. CASE UNCHANGED vars
    BY <1>1 DEF vars, VarInv, Clean, CleanAt, Reach, Comes, Skips, Behind, BehindBy
  <1>2. CASE Build \/ Walk
    <2>1. /\ fn' = fn /\ uninit' = uninit
          /\ \/ phase' \in {"walk", "rejected"} /\ body' = Desugar[fn.body][<<>>]
             \/ phase' = "rejected"
             \/ /\ phase = "walk" /\ phase' = "run" /\ body \in Blocks /\ WalkAccepts(fn, body)
                /\ Len(k') = 1 /\ k'[1].stmts = body /\ k'[1].part = "open" /\ k'[1].loop = FALSE
      BY <1>2, PassSteps, Zenon
    <2> SUFFICES ASSUME fn.kind = "var" PROVE VarInv'
      BY <2>1 DEF VarInv
    <2>2. ~uninit'
      BY <2>1 DEF VarInv
    <2>3. CASE phase' \in {"walk", "rejected"} /\ body' = Desugar[fn.body][<<>>]
      <3>1. NoSkip[body'][FALSE]
        BY <2>3 DEF LooksBehind, ReturnInv
      <3> QED
        BY <2>2, <2>3, <3>1 DEF VarInv
    <2>4. CASE phase' = "rejected"
      BY <2>2, <2>4 DEF VarInv
    <2>5. CASE /\ phase = "walk" /\ phase' = "run" /\ body \in Blocks /\ WalkAccepts(fn, body)
               /\ Len(k') = 1 /\ k'[1].stmts = body /\ k'[1].part = "open" /\ k'[1].loop = FALSE
      <3>1. NoSkip[body][FALSE] /\ WalkBlock[body][FALSE].ok
        <4>1. (fn.kind = "field") = FALSE
          BY SMT
        <4> QED
          BY <2>5, <4>1 DEF VarInv, WalkAccepts
      <3>2. body \in WalkPassed
        BY <2>5, <3>1, Zenon DEF WalkPassed
      <3>3. Clean(WalkPassed, WalkFalls, k')
        BY <2>5, <3>2, EnteringClean
      <3>4. Behind(k', 1) = FALSE
        BY DEF Behind
      <3>5. Skips(k')
        <4>1. \A j \in 1..Len(k') : j = 1
          BY <2>5
        <4> QED
          BY <2>5, <3>1, <3>4, <4>1, Zenon DEF Skips
      <3> QED
        BY <2>2, <2>5, <3>3, <3>5 DEF VarInv
    <2> QED
      BY <2>1, <2>3, <2>4, <2>5
  <1>3. CASE Next /\ ~Build /\ ~Walk
    <2>1. phase = "run" /\ k # <<>> /\ Shape(k) /\ Placed(k) /\ x \in BOOLEAN /\ uninit \in BOOLEAN
      BY <1>3, OnlyRuns DEF ReturnInv
    <2>2. /\ Evaluates /\ fn' = fn
          /\ \/ phase' = "run" /\ k' # <<>> /\ (Goes(k, k') \/ Enters(k, k'))
             \/ Ended
             \/ Dropped /\ Len(k) = 1 /\ phase' = "fell"
      BY <1>3, <2>1, EvaluationSteps, Zenon
    <2> SUFFICES ASSUME fn.kind = "var" PROVE VarInv'
      BY <2>2 DEF VarInv
    <2>3. ~uninit /\ Skips(k) /\ (x \/ Clean(WalkPassed, WalkFalls, k))
      BY <2>1 DEF VarInv
    <2>e. Ended => phase' \in {"returned", "panicked", "exceeded"}
      BY DEF Ended
    <2>s. Goes(k, k') \/ Enters(k, k') => Skips(k')
      BY <2>1, <2>3, KeepsSkips, Zenon
    <2>4. CASE x
      <3>1. x' /\ ~uninit'
        BY <2>1, <2>2, <2>3, <2>4, SetStays
      <3> QED
        BY <2>2, <2>e, <2>s, <3>1 DEF VarInv
    <2>5. CASE ~x
      <3>1. Fresh(WalkPassed, WalkFalls)
        BY <2>1, <2>3, <2>5, WalkJudges, Zenon DEF Fresh
      <3>2. CASE phase' = "run" /\ k' # <<>> /\ (Goes(k, k') \/ Enters(k, k'))
        <4>1. ~uninit' /\ (x' \/ Fine(WalkPassed, WalkFalls))
          BY <2>1, <2>2, <2>3, <3>1, <3>2, FreshSteps, NoneBehindVar, Zenon
        <4> QED
          BY <2>s, <3>1, <3>2, <4>1 DEF VarInv, Fine
      <3>3. CASE Ended
        <4>1. ~uninit'
          BY <3>1, <3>3, FreshEnd, Zenon
        <4> QED
          BY <2>e, <3>3, <4>1 DEF VarInv
      <3>4. CASE Dropped /\ Len(k) = 1 /\ phase' = "fell"
        <4>1. ~uninit'
          BY <3>1, <3>4, FreshDrop, Zenon
        <4> QED
          BY <3>4, <4>1 DEF VarInv
      <3> QED
        BY <2>2, <3>2, <3>3, <3>4
    <2> QED
      BY <2>4, <2>5
  <1> QED
    BY <1>1, <1>2, <1>3 DEF Next

(* Definite assignment is sound (stmt_flow.c, init_tdz.c): of a body that   *)
(* the passes accept, no execution reads the variable, or the field of      *)
(* self, before it was assigned.  The premises leave out the bodies whose   *)
(* `continue` skips to a condition, and the `__init__` bodies with          *)
(* statements check_stmt has no case for; both slip through the analyses.   *)
THEOREM NoUninitReadCorrect ==
  ASSUME LooksBehind, LooksInside
  PROVE  Spec => []NoUninitRead
  <1>1. ReturnInv /\ [Next]_vars => ReturnInv'
    BY ReturnInvNext
  <1>2. ReturnInv /\ VarInv /\ [Next]_vars => VarInv'
    BY VarInvNext
  <1>3. ReturnInv /\ FieldInv /\ [Next]_vars => FieldInv'
    BY FieldInvNext
  <1>4. ReturnInv /\ VarInv /\ FieldInv => NoUninitRead
    BY FuncBodyAssumption DEF ReturnInv, VarInv, FieldInv, NoUninitRead
  <1> QED
    BY ReturnInvInit, VarInvInit, FieldInvInit, <1>1, <1>2, <1>3, <1>4, PTL DEF Spec

(* The field check is sound (init_tdz.c): an accepted `__init__` returns,   *)
(* explicitly or at its end, only with the field assigned.                  *)
THEOREM FieldsAssignedCorrect ==
  ASSUME LooksInside
  PROVE  Spec => []FieldsAssigned
  <1>1. ReturnInv /\ [Next]_vars => ReturnInv'
    BY ReturnInvNext
  <1>2. ReturnInv /\ FieldInv /\ [Next]_vars => FieldInv'
    BY FieldInvNext
  <1>3. FieldInv => FieldsAssigned
    BY DEF FieldInv, FieldsAssigned
  <1> QED
    BY ReturnInvInit, FieldInvInit, <1>1, <1>2, <1>3, PTL DEF Spec

=============================================================================
