--------------------------- MODULE RBTreeProofs ---------------------------
(***************************************************************************)
(* For any finite set of keys and any sequence of calls: the pointers and  *)
(* the order of the red-black tree of src/core/rbtree.c hold in every      *)
(* state, in the middle of a fixup too; the tree is the ordered map that   *)
(* rbtree.h promises; and between calls it is balanced.                    *)
(*                                                                         *)
(* Order: every node gets the bounds of the keys that belong below it;     *)
(* inserting, unlinking and rotating move the bounds along (Spans).        *)
(* Balance: every node gets the number of black nodes down from it, with   *)
(* the one that an unlinking took away counted where it is missing         *)
(* (Heights).  A fixup moves upwards the red node with a red parent        *)
(* (Rising) or the missing black node (Falling, Lacking).                  *)
(***************************************************************************)
EXTENDS RBTree, FiniteSetTheorems, WellFoundedInduction, TLAPS

(* a node or NULL *)
Node == Key \cup {Null}

(* s is t after an assignment to one child, to one parent, or to the child  *)
(* or root pointer that holds u                                             *)
SameData(s, t)        == s \in Tree /\ s.color = t.color /\ s.elem = t.elem
KidSet(s, t, n, d, c) == /\ SameData(s, t) /\ s.root = t.root /\ s.parent = t.parent
                         /\ \A k \in Key, e \in Dir :
                              s.kid[k][e] = IF k = n /\ e = d THEN c ELSE t.kid[k][e]
ParentSet(s, t, n, p) == /\ SameData(s, t) /\ s.root = t.root /\ s.kid = t.kid
                         /\ \A k \in Key : s.parent[k] = IF k = n THEN p ELSE t.parent[k]
Replaced(s, t, u, v)  == /\ SameData(s, t) /\ s.parent = t.parent
                         /\ s.root = IF t.parent[u] = Null THEN v ELSE t.root
                         /\ \A k \in Key, e \in Dir :
                              s.kid[k][e] = IF k = t.parent[u] /\ e = Side(t, u) THEN v
                                            ELSE t.kid[k][e]

(* An assignment to a child pointer changes that pointer only. *)
LEMMA KidIs ==
  ASSUME NEW t \in Tree, NEW n \in Key, NEW d \in Dir, NEW c \in Node
  PROVE  KidSet(SetKid(t, n, d, c), t, n, d, c)
  BY DEF Tree, Node, KidSet, SameData, SetKid

(* An assignment to the parent pointer of a node, guarded by a test for     *)
(* NULL as in the code, changes that pointer only.                          *)
LEMMA SetParentIs ==
  ASSUME NEW t \in Tree, NEW n \in Node, NEW p \in Node
  PROVE  ParentSet(SetParent(t, n, p), t, n, p)
  <1>1. Null \notin Key
    BY RBTreeAssumption
  <1> QED
    BY <1>1 DEF Tree, Node, SetParent, ParentSet, SameData

(* The pointer that held u, in the parent of u or in the tree, holds v. *)
LEMMA ReplaceIs ==
  ASSUME NEW t \in Tree, NEW u \in Key, NEW v \in Node
  PROVE  Replaced(Replace(t, u, v), t, u, v)
  <1>1. Null \notin Key /\ Side(t, u) \in Dir /\ t.parent[u] \in Node
    BY RBTreeAssumption DEF Side, Dir, Tree, Node
  <1>2. CASE t.parent[u] = Null
    BY <1>1, <1>2 DEF Tree, Node, Replace, Replaced, SameData
  <1>3. CASE t.parent[u] # Null
    <2>1. t.parent[u] \in Key
      BY <1>1, <1>3 DEF Node
    <2>2. Replace(t, u, v) = SetKid(t, t.parent[u], Side(t, u), v)
      BY <1>3 DEF Replace
    <2>3. KidSet(Replace(t, u, v), t, t.parent[u], Side(t, u), v)
      BY <1>1, <2>1, <2>2, KidIs, Zenon
    <2> QED
      BY <1>3, <2>3 DEF KidSet, Replaced
  <1> QED
    BY <1>2, <1>3

(* What rotate_left and rotate_right make of every pointer, the child y of n *)
(* going up under p, y's child m down under n.                              *)
RotatesTo(s, t, n, d, y, m, p) ==
  /\ SameData(s, t)
  /\ s.root = IF p = Null THEN y ELSE t.root
  /\ \A k \in Key : s.parent[k] = IF k = n THEN y ELSE IF k = y THEN p
                                  ELSE IF k = m THEN n ELSE t.parent[k]
  /\ \A k \in Key, e \in Dir :
       s.kid[k][e] = IF k = n /\ e = Opp(d) THEN m ELSE IF k = y /\ e = d THEN n
                     ELSE IF k = p /\ e = Side(t, n) THEN y ELSE t.kid[k][e]

LEMMA RotateIs ==
  ASSUME NEW t \in Tree, NEW n \in Key, NEW d \in Dir, t.kid[n][Opp(d)] \in Key,
         t.parent[n] # n, t.kid[n][Opp(d)] # n, t.kid[t.kid[n][Opp(d)]][d] # n,
         t.kid[t.kid[n][Opp(d)]][d] # t.kid[n][Opp(d)]
  PROVE  \E s, y, m, p : /\ s = Rotate(t, n, d) /\ y = t.kid[n][Opp(d)] /\ m = t.kid[y][d] /\ p = t.parent[n]
                         /\ RotatesTo(s, t, n, d, y, m, p)
  <1>1. PICK y, m, p : y = t.kid[n][Opp(d)] /\ m = t.kid[y][d] /\ p = t.parent[n]
    OBVIOUS
  <1>2. y \in Key /\ m \in Node /\ p \in Node /\ p # n /\ y # n /\ m # n /\ m # y
    BY <1>1 DEF Tree, Node
  <1>3. /\ Opp(d) \in Dir /\ y \in Node /\ n \in Node /\ Opp(d) # d /\ "left" \in Dir
        /\ "right" \in Dir /\ Null \notin Key
    BY <1>2, RBTreeAssumption DEF Opp, Dir, Node
  <1>a. PICK t0, t1, t2, t3, t4 : /\ t0 = SetKid(t, n, Opp(d), m)
                              /\ t1 = SetParent(t0, m, n)
                              /\ t2 = Replace(t1, n, y)
                              /\ t3 = SetParent(t2, y, p)
                              /\ t4 = SetKid(t3, y, d, n)
    OBVIOUS
  <1>4. KidSet(t0, t, n, Opp(d), m)
    BY <1>2, <1>3, <1>a, KidIs
  <1>5. t0 \in Tree /\ t0.parent[n] = p
    BY <1>1, <1>4 DEF KidSet, SameData
  <1>6. ParentSet(t1, t0, m, n)
    BY <1>2, <1>3, <1>5, <1>a, SetParentIs
  <1>7. t1 \in Tree /\ t1.parent[n] = p
    BY <1>5, <1>6, <1>2 DEF ParentSet, SameData
  <1>8. Replaced(t2, t1, n, y)
    BY <1>2, <1>3, <1>7, <1>a, ReplaceIs
  <1>81. t2 \in Tree
    BY <1>8 DEF Replaced, SameData
  <1>82. ParentSet(t3, t2, y, p)
    BY <1>2, <1>3, <1>81, <1>a, SetParentIs
  <1>83. t3 \in Tree
    BY <1>82 DEF ParentSet, SameData
  <1>84. KidSet(t4, t3, y, d, n)
    BY <1>2, <1>3, <1>83, <1>a, KidIs
  <1>85. t4 \in Tree
    BY <1>84 DEF KidSet, SameData
  <1>86. PICK s : s = SetParent(t4, n, y)
    OBVIOUS
  <1>87. ParentSet(s, t4, n, y)
    BY <1>2, <1>3, <1>85, <1>86, SetParentIs
  <1>9. s = Rotate(t, n, d)
    BY <1>1, <1>a, <1>86, Zenon DEF Rotate
  <1>11. SameData(s, t)
    BY <1>4, <1>6, <1>8, <1>82, <1>84, <1>87 DEF KidSet, ParentSet, Replaced, SameData
  <1>12. s.root = IF p = Null THEN y ELSE t.root
    BY <1>4, <1>6, <1>7, <1>8, <1>82, <1>84, <1>87 DEF KidSet, ParentSet, Replaced
  <1>13. p # Null => Side(t1, n) = Side(t, n)
    <2> SUFFICES ASSUME p # Null PROVE Side(t1, n) = Side(t, n)
      OBVIOUS
    <2>1. p \in Key /\ p # n
      BY <1>2 DEF Node
    <2>2. t1.kid[p]["left"] = t.kid[p]["left"]
      BY <1>3, <1>4, <1>6, <2>1 DEF KidSet, ParentSet
    <2> QED
      BY <1>1, <1>7, <2>2 DEF Side
  <1>14. \A k \in Key : s.parent[k] = IF k = n THEN y ELSE IF k = y THEN p
                                            ELSE IF k = m THEN n ELSE t.parent[k]
    <2> SUFFICES ASSUME NEW k \in Key
                 PROVE  s.parent[k] = IF k = n THEN y ELSE IF k = y THEN p
                                            ELSE IF k = m THEN n ELSE t.parent[k]
      OBVIOUS
    <2>1. t1.parent[k] = IF k = m THEN n ELSE t.parent[k]
      BY <1>4, <1>6 DEF KidSet, ParentSet
    <2>2. t3.parent[k] = IF k = y THEN p ELSE t1.parent[k]
      BY <1>8, <1>82 DEF Replaced, ParentSet
    <2>3. s.parent[k] = IF k = n THEN y ELSE t3.parent[k]
      BY <1>84, <1>87 DEF KidSet, ParentSet
    <2> QED
      BY <2>1, <2>2, <2>3
  <1>15. \A k \in Key, e \in Dir :
                 s.kid[k][e] = IF k = n /\ e = Opp(d) THEN m ELSE IF k = y /\ e = d THEN n
                               ELSE IF k = p /\ e = Side(t, n) THEN y ELSE t.kid[k][e]
    <2> SUFFICES ASSUME NEW k \in Key, NEW e \in Dir
                 PROVE  s.kid[k][e] = IF k = n /\ e = Opp(d) THEN m ELSE IF k = y /\ e = d THEN n
                               ELSE IF k = p /\ e = Side(t, n) THEN y ELSE t.kid[k][e]
      OBVIOUS
    <2>1. t1.kid[k][e] = IF k = n /\ e = Opp(d) THEN m ELSE t.kid[k][e]
      BY <1>4, <1>6 DEF KidSet, ParentSet
    <2>2. t3.kid[k][e] = IF k = p /\ e = Side(t, n) THEN y ELSE t1.kid[k][e]
      BY <1>3, <1>7, <1>8, <1>82, <1>13 DEF Replaced, ParentSet
    <2>3. s.kid[k][e] = IF k = y /\ e = d THEN n ELSE t3.kid[k][e]
      BY <1>84, <1>87 DEF KidSet, ParentSet
    <2> QED
      BY <2>1, <2>2, <2>3, <1>2
  <1>16. RotatesTo(s, t, n, d, y, m, p)
    BY <1>11, <1>12, <1>14, <1>15, Zenon DEF RotatesTo
  <1> QED
    BY <1>1, <1>9, <1>16, Zenon

-----------------------------------------------------------------------------
(* children and parents of the nodes M *)
Linked(t, M) ==
  /\ t \in Tree /\ M \subseteq Key
  /\ t.root = Null <=> M = {}
  /\ t.root # Null => t.root \in M /\ t.parent[t.root] = Null
  /\ \A k \in M : k # t.root => t.parent[k] \in M /\ \E d \in Dir : t.kid[t.parent[k]][d] = k
  /\ \A k \in M : \A d \in Dir : LET c == t.kid[k][d]
                                 IN c # Null => c \in M /\ t.parent[c] = k /\ c # t.root
  /\ \A k \in Key \ M : \A d \in Dir : t.kid[k][d] = Null

(* the place of j in the tree is on one side of k, or the other way round,  *)
(* or the two have no descendants in common                                 *)
Apart(lo, hi, j, k) ==
  \/ hi[j] <= lo[k] \/ hi[k] <= lo[j]
  \/ lo[k] <= lo[j] /\ hi[j] <= k
  \/ k <= lo[j] /\ hi[j] <= hi[k]
  \/ lo[j] <= lo[k] /\ hi[k] <= j
  \/ j <= lo[k] /\ hi[k] <= hi[j]

(* the bounds are nodes, or beyond every key *)
Ended(M, lo, hi, k) == /\ lo[k] \in M \/ \A i \in Key : lo[k] < i
                       /\ hi[k] \in M \/ \A i \in Key : i < hi[k]

(* lo[k] and hi[k] bound the keys that belong below k *)
Spans(t, M, lo, hi) ==
  /\ lo \in [Key -> Nat] /\ hi \in [Key -> Nat]
  /\ \A k \in M : lo[k] < k /\ k < hi[k]
  /\ t.root # Null => \A k \in Key : lo[t.root] < k /\ k < hi[t.root]
  /\ \A k \in M : Ended(M, lo, hi, k)
  /\ \A k \in M : LET c == t.kid[k]["left"]
                  IN IF c = Null THEN \A j \in M : ~ (lo[k] < j /\ j < k)
                     ELSE lo[c] = lo[k] /\ hi[c] = k
  /\ \A k \in M : LET c == t.kid[k]["right"]
                  IN IF c = Null THEN \A j \in M : ~ (k < j /\ j < hi[k])
                     ELSE lo[c] = k /\ hi[c] = hi[k]
  /\ \A j, k \in M : j # k => Apart(lo, hi, j, k)

(* a search tree with the nodes M *)
Search(t, M) == Linked(t, M) /\ \E lo, hi \in [Key -> Nat] : Spans(t, M, lo, hi)

-----------------------------------------------------------------------------
(* A child lies on its side, and its span is that side of its parent's.     *)
LEMMA ChildIs ==
  ASSUME NEW t, NEW M, NEW lo, NEW hi, Linked(t, M), Spans(t, M, lo, hi),
         NEW k \in M, NEW d \in Dir, t.kid[k][d] # Null
  PROVE  LET c == t.kid[k][d]
         IN /\ c \in M /\ c \in Key /\ k \in Key /\ c # k /\ t.parent[c] = k /\ c # t.root
            /\ d = Toward(k, c) /\ t.kid[k][Opp(d)] # c
            /\ lo[k] <= lo[c] /\ hi[c] <= hi[k] /\ (hi[c] <= k \/ k <= lo[c])
            /\ lo[c] = (IF d = "left" THEN lo[k] ELSE k)
            /\ hi[c] = (IF d = "left" THEN k ELSE hi[k])
            /\ \A e \in Dir : t.kid[c][e] # k /\ t.kid[c][e] # c
  <1>0. Key \subseteq Nat \ {Null}
    BY RBTreeAssumption
  <1>1. \A j \in M : \A e \in Dir : t.kid[j][e] # Null =>
          t.kid[j][e] \in M /\ t.parent[t.kid[j][e]] = j /\ t.kid[j][e] # t.root
    BY DEF Linked
  <1>2. \A j \in M : /\ lo[j] \in Nat /\ hi[j] \in Nat /\ j \in Nat /\ j \in Key /\ j # Null
                     /\ lo[j] < j /\ j < hi[j]
    BY <1>0 DEF Spans, Linked
  <1>3. \A j \in M : \A e \in Dir : t.kid[j][e] # Null =>
          /\ lo[t.kid[j][e]] = (IF e = "left" THEN lo[j] ELSE j)
          /\ hi[t.kid[j][e]] = (IF e = "left" THEN j ELSE hi[j])
    BY DEF Spans, Dir
  <1>4. PICK c : c = t.kid[k][d]
    OBVIOUS
  <1>5. c \in M /\ t.parent[c] = k /\ c # t.root
    BY <1>1, <1>4
  <1>6. lo[c] = (IF d = "left" THEN lo[k] ELSE k) /\ hi[c] = (IF d = "left" THEN k ELSE hi[k])
    BY <1>3, <1>4
  <1>7. c # k /\ lo[k] <= lo[c] /\ hi[c] <= hi[k] /\ (hi[c] <= k \/ k <= lo[c])
    BY <1>2, <1>5, <1>6
  <1>8. d = Toward(k, c)
    BY <1>2, <1>5, <1>6 DEF Toward, Dir
  <1>9. t.kid[k][Opp(d)] # c
    <2> SUFFICES ASSUME t.kid[k][Opp(d)] = c PROVE FALSE
      OBVIOUS
    <2>1. Opp(d) \in Dir /\ (Opp(d) = "left" <=> d # "left")
      BY DEF Opp, Dir
    <2>2. lo[c] = (IF Opp(d) = "left" THEN lo[k] ELSE k) /\ hi[c] = (IF Opp(d) = "left" THEN k ELSE hi[k])
      BY <1>2, <1>3, <1>5, <2>1
    <2> QED
      BY <1>2, <1>5, <1>6, <2>1, <2>2
  <1>10. ASSUME NEW e \in Dir PROVE t.kid[c][e] # k /\ t.kid[c][e] # c
    <2>1. k # Null /\ c # Null
      BY <1>2, <1>5
    <2>2. t.kid[c][e] # c
      BY <1>1, <1>5, <1>7, <2>1
    <2>3. SUFFICES ASSUME t.kid[c][e] = k PROVE FALSE
      BY <2>2
    <2>4. lo[k] = (IF e = "left" THEN lo[c] ELSE c) /\ hi[k] = (IF e = "left" THEN c ELSE hi[c])
      BY <1>3, <1>5, <2>1, <2>3
    <2> QED
      BY <1>2, <1>5, <1>7, <2>4
  <1> QED
    BY <1>2, <1>4, <1>5, <1>6, <1>7, <1>8, <1>9, <1>10, Zenon

(* The parent of a node other than the root points to it on its side.       *)
LEMMA ParentIs ==
  ASSUME NEW t, NEW M, NEW lo, NEW hi, Linked(t, M), Spans(t, M, lo, hi), NEW k \in M
  PROVE  LET p == t.parent[k]
         IN /\ p = Null <=> k = t.root
            /\ k # t.root => /\ p \in M /\ p # k
                             /\ t.kid[p][Side(t, k)] = k /\ t.kid[p][Opp(Side(t, k))] # k
                             /\ Side(t, k) = Toward(p, k) /\ Side(t, k) \in Dir
  <1> DEFINE p == t.parent[k]
  <1>1. Null \notin M
    BY RBTreeAssumption DEF Linked
  <1>2. p = Null <=> k = t.root
    BY <1>1 DEF Linked
  <1>3. CASE k # t.root
    <2>1. p \in M /\ \E d \in Dir : t.kid[p][d] = k
      BY <1>3 DEF Linked
    <2>2. PICK d \in Dir : t.kid[p][d] = k
      BY <2>1
    <2>3. d = Toward(p, k) /\ p # k /\ t.kid[p][Opp(d)] # k
      BY <1>1, <2>1, <2>2, ChildIs
    <2>4. Side(t, k) = d
      BY <2>2, <2>3, Zenon DEF Side, Dir, Opp
    <2> QED
      BY <1>2, <2>1, <2>2, <2>3, <2>4
  <1> QED
    BY <1>2, <1>3

(* A rotation exchanges a node and its child; only their spans change.      *)
LEMMA RotateLinked ==
  ASSUME NEW t, NEW M, NEW lo, NEW hi, Linked(t, M), Spans(t, M, lo, hi),
         NEW n \in M, NEW d \in Dir, t.kid[n][Opp(d)] # Null
  PROVE  /\ Linked(Rotate(t, n, d), M)
         /\ LET s == Rotate(t, n, d)
                y == t.kid[n][Opp(d)]
                m == t.kid[y][d]
                p == t.parent[n]
            IN /\ SameData(s, t)
               /\ y \in M /\ y # n /\ m \in M \cup {Null} /\ m # n /\ m # y
               /\ p # n /\ p # y /\ (m # Null => m # p)
               /\ s.root = IF n = t.root THEN y ELSE t.root
               /\ \A k \in Key : s.parent[k] = IF k = n THEN y ELSE IF k = y THEN p
                                               ELSE IF k = m THEN n ELSE t.parent[k]
               /\ \A k \in Key, e \in Dir :
                    s.kid[k][e] = IF k = n /\ e = Opp(d) THEN m ELSE IF k = y /\ e = d THEN n
                                  ELSE IF t.kid[k][e] = n THEN y ELSE t.kid[k][e]
  <1> DEFINE y == t.kid[n][Opp(d)]
             m == t.kid[y][d]
             p == t.parent[n]
             s == Rotate(t, n, d)
  <1>0. /\ Opp(d) \in Dir /\ Opp(d) # d /\ Null \notin M /\ M \subseteq Key /\ n \in Key
        /\ Opp(Opp(d)) = d /\ t \in Tree
    BY RBTreeAssumption DEF Opp, Dir, Linked
  <1>a. p \in Key => \A e \in Dir : e # Side(t, n) => e = Opp(Side(t, n))
    BY DEF Side, Opp, Dir
  <1>1. /\ y \in M /\ y # n /\ t.parent[y] = n /\ t.kid[n][d] # y /\ y # t.root
        /\ \A e \in Dir : t.kid[y][e] # n /\ t.kid[y][e] # y
        /\ \A e \in Dir : t.kid[n][e] = y => e = Opp(d)
    BY <1>0, ChildIs
  <1>2. p # Null <=> n # t.root
    BY ParentIs
  <1>3. /\ p # n
        /\ p # Null => /\ p \in M /\ t.kid[p][Side(t, n)] = n /\ t.kid[p][Opp(Side(t, n))] # n
                       /\ Side(t, n) \in Dir
    BY <1>0, <1>2, ParentIs
  <1>4. m # n /\ m # y /\ m \in M \cup {Null} /\ (m # Null => t.parent[m] = y /\ m # t.root)
    BY <1>1 DEF Linked
  <1>5. p # y
    BY <1>0, <1>1, <1>3, Zenon
  <1>6. m # Null => m # p
    <2> SUFFICES ASSUME m # Null, m = p PROVE FALSE
      OBVIOUS
    <2>1. p # Null /\ p \in M /\ Side(t, n) \in Dir /\ t.kid[p][Side(t, n)] = n /\ n # Null
      BY <1>0, <1>3
    <2>2. lo[p] <= lo[n] /\ hi[n] <= hi[p] /\ (hi[n] <= p \/ p <= lo[n])
      BY <2>1, ChildIs
    <2>3. lo[n] <= lo[y] /\ hi[y] <= hi[n]
      BY <1>0, <1>1, ChildIs, ZenonT(30)
    <2>4. lo[y] <= lo[m] /\ hi[m] <= hi[y]
      <3>1. PICK e \in Dir : y \in M /\ m = t.kid[y][e] /\ m # Null
        BY <1>0, <1>1
      <3> HIDE DEF y, m
      <3>2. t.kid[y][e] # Null
        BY <3>1
      <3> QED
        BY <3>1, <3>2, ChildIs
    <2>5. \A j \in M : lo[j] \in Nat /\ hi[j] \in Nat /\ j \in Nat /\ lo[j] < j /\ j < hi[j]
      BY <1>0, RBTreeAssumption DEF Spans
    <2> QED
      BY <1>1, <2>1, <2>2, <2>3, <2>4, <2>5
  <1>7. \A k \in Key, e \in Dir : t.kid[k][e] = n <=> (k = p /\ e = Side(t, n))
    <2> SUFFICES ASSUME NEW k \in Key, NEW e \in Dir, t.kid[k][e] = n
                 PROVE  k = p /\ e = Side(t, n)
      BY <1>3, RBTreeAssumption
    <2>1. n # Null
      BY <1>0
    <2>2. k \in M
      BY <2>1 DEF Linked
    <2>3. k = p
      BY <2>1, <2>2, Zenon DEF Linked
    <2> QED
      BY <1>0, <1>3, <1>a, <2>2, <2>3
  <1>8. /\ SameData(s, t)
        /\ s.root = IF p = Null THEN y ELSE t.root
        /\ \A k \in Key : s.parent[k] = IF k = n THEN y ELSE IF k = y THEN p
                                        ELSE IF k = m THEN n ELSE t.parent[k]
        /\ \A k \in Key, e \in Dir :
             s.kid[k][e] = IF k = n /\ e = Opp(d) THEN m ELSE IF k = y /\ e = d THEN n
                           ELSE IF k = p /\ e = Side(t, n) THEN y ELSE t.kid[k][e]
    <2>1. /\ t \in Tree /\ n \in Key /\ d \in Dir /\ y \in Key /\ p # n /\ y # n /\ m # n /\ m # y
      BY <1>0, <1>1, <1>3, <1>4
    <2>2. PICK s0, y0, m0, p0 : /\ s0 = Rotate(t, n, d) /\ y0 = t.kid[n][Opp(d)] /\ m0 = t.kid[y0][d]
                                /\ p0 = t.parent[n] /\ RotatesTo(s0, t, n, d, y0, m0, p0)
      BY <2>1, RotateIs, Zenon
    <2>3. s0 = s /\ y0 = y /\ m0 = m /\ p0 = p
      BY <2>2, Zenon
    <2>4. RotatesTo(s, t, n, d, y, m, p)
      BY <2>2, <2>3
    <2> QED
      BY <2>4, Zenon DEF RotatesTo
  <1> HIDE DEF s
  <1>9. s.root = IF n = t.root THEN y ELSE t.root
    BY <1>2, <1>8
  <1>10. \A k \in Key, e \in Dir :
            s.kid[k][e] = IF k = n /\ e = Opp(d) THEN m ELSE IF k = y /\ e = d THEN n
                          ELSE IF t.kid[k][e] = n THEN y ELSE t.kid[k][e]
    BY <1>7, <1>8
  <1>11. Linked(s, M)
    <2>1. s \in Tree
      BY <1>8 DEF SameData
    <2>2. s.root = Null <=> M = {}
      BY <1>0, <1>1, <1>9 DEF Linked
    <2>3. s.root # Null => s.root \in M /\ s.parent[s.root] = Null
      <3>1. t.root \in M /\ t.parent[t.root] = Null
        BY Zenon DEF Linked
      <3>2. CASE n = t.root
        BY <1>0, <1>1, <1>2, <1>8, <1>9, <3>2
      <3>3. CASE n # t.root
        <4>1. s.root = t.root /\ t.root # n /\ t.root # y /\ (m # Null => t.root # m) /\ t.root # Null
          BY <1>0, <1>1, <1>4, <1>9, <3>1, <3>3
        <4>2. t.root # m
          BY <4>1
        <4> QED
          BY <1>0, <1>8, <3>1, <4>1, <4>2, Zenon
      <3> QED
        BY <3>2, <3>3
    <2>4. ASSUME NEW k \in M, k # s.root
          PROVE  s.parent[k] \in M /\ \E e \in Dir : s.kid[s.parent[k]][e] = k
      <3>0. k \in Key
        BY <1>0
      <3>1. CASE k = n
        BY <1>0, <1>1, <1>8, <1>10, <3>1
      <3>2. CASE k = y
        <4>1. n # t.root /\ s.parent[k] = p /\ p \in M /\ t.kid[p][Side(t, n)] = n /\ Side(t, n) \in Dir
          BY <1>1, <1>2, <1>3, <1>8, <1>9, <2>4, <3>0, <3>2
        <4>2. s.kid[p][Side(t, n)] = y
          BY <1>0, <1>3, <1>5, <1>10, <4>1
        <4> QED
          BY <3>2, <4>1, <4>2
      <3>3. CASE k = m
        <4>1. s.parent[k] = n /\ s.kid[n][Opp(d)] = m
          BY <1>0, <1>4, <1>8, <1>10, <3>0, <3>3
        <4> QED
          BY <1>0, <3>3, <4>1, Zenon
      <3>4. CASE k # n /\ k # y /\ k # m
        <4>1. s.parent[k] = t.parent[k] /\ k # t.root
          BY <1>1, <1>8, <1>9, <2>4, <3>0, <3>4
        <4>2. PICK e \in Dir : t.parent[k] \in M /\ t.kid[t.parent[k]][e] = k
          BY <4>1 DEF Linked
        <4>3. t.parent[k] \in Key
          BY <1>0, <4>2
        <4>4. ~ (t.parent[k] = n /\ e = Opp(d)) /\ ~ (t.parent[k] = y /\ e = d)
          BY <3>4, <4>2
        <4>5. s.kid[t.parent[k]][e] = k
          BY <1>10, <3>4, <4>2, <4>3, <4>4
        <4> QED
          BY <4>1, <4>2, <4>5
      <3> QED
        BY <3>1, <3>2, <3>3, <3>4
    <2>5. ASSUME NEW k \in M, NEW e \in Dir, s.kid[k][e] # Null
          PROVE  s.kid[k][e] \in M /\ s.parent[s.kid[k][e]] = k /\ s.kid[k][e] # s.root
      <3>0. k \in Key
        BY <1>0, Zenon
      <3>1. CASE k = n /\ e = Opp(d)
        <4>1. s.kid[k][e] = m /\ m \in M /\ m # Null
          BY <1>4, <1>10, <2>5, <3>0, <3>1
        <4>2. m # s.root
          BY <1>4, <1>9, <4>1
        <4> QED
          BY <1>0, <1>4, <1>8, <3>1, <4>1, <4>2, Zenon
      <3>2. CASE k = y /\ e = d
        <4>1. s.kid[k][e] = n
          BY <1>1, <1>10, <3>0, <3>2
        <4>2. n # s.root
          BY <1>1, <1>9
        <4> QED
          BY <1>0, <1>8, <3>2, <4>1, <4>2
      <3>3. CASE t.kid[k][e] = n
        <4>1. k = p /\ k # n /\ k # y
          BY <1>3, <1>5, <1>7, <3>0, <3>3
        <4>2. s.kid[k][e] = y
          BY <1>10, <3>0, <3>3, <4>1
        <4>3. p # Null /\ s.root = t.root
          BY <1>0, <4>1, <1>2, <1>9
        <4> QED
          BY <1>0, <1>1, <1>8, <4>1, <4>2, <4>3
      <3>4. CASE ~ (k = n /\ e = Opp(d)) /\ ~ (k = y /\ e = d) /\ t.kid[k][e] # n
        <4> DEFINE c == t.kid[k][e]
        <4>1. s.kid[k][e] = c /\ c # Null
          BY <1>10, <2>5, <3>0, <3>4
        <4>2. c \in M /\ t.parent[c] = k /\ c # t.root
          BY <4>1 DEF Linked
        <4>3. c # n /\ c # y /\ c # m
          <5>1. c # n
            BY <3>4
          <5>2. c # y
            BY <1>1, <3>4, <4>2, Zenon
          <5>3. c = m => k = y
            BY <1>4, <4>1, <4>2
          <5>4. c = m => FALSE
            <6>1. SUFFICES ASSUME c = m PROVE FALSE
              OBVIOUS
            <6>2. k = y /\ e # d /\ m # Null
              BY <3>4, <4>1, <5>3, <6>1
            <6>3. e = Opp(d)
              BY <6>2 DEF Opp, Dir
            <6>4. t.kid[y][Opp(d)] # m
              BY <1>1, <6>2, ChildIs
            <6> QED
              BY <6>1, <6>2, <6>3, <6>4
          <5> QED
            BY <5>1, <5>2, <5>4
        <4>4. s.parent[c] = k /\ c # s.root
          BY <1>0, <1>8, <1>9, <4>2, <4>3
        <4> QED
          BY <4>1, <4>2, <4>4
      <3> QED
        BY <3>1, <3>2, <3>3, <3>4
    <2>6. ASSUME NEW k \in Key \ M, NEW e \in Dir PROVE s.kid[k][e] = Null
      <3>1. t.kid[k][e] = Null
        BY DEF Linked
      <3> QED
        BY <1>0, <1>1, <1>10, <3>1
    <2> QED
      BY <1>0, <2>1, <2>2, <2>3, <2>4, <2>5, <2>6 DEF Linked
  <1> QED
    BY <1>0, <1>1, <1>3, <1>4, <1>5, <1>6, <1>8, <1>9, <1>10, <1>11 DEF s

(* After rotate_left the bounds of n and of its child y are exchanged       *)
(* accordingly, and every node still lies within its bounds.                *)
LEMMA RotateLeftSpans ==
  ASSUME NEW t, NEW M, NEW lo, NEW hi, Linked(t, M), Spans(t, M, lo, hi),
         NEW n \in M, t.kid[n]["right"] # Null
  PROVE  \E lo2, hi2 \in [Key -> Nat] : Spans(Rotate(t, n, "left"), M, lo2, hi2)
  <1> DEFINE y == t.kid[n]["right"]
             m == t.kid[y]["left"]
             p == t.parent[n]
             s == Rotate(t, n, "left")
             lo2 == [lo EXCEPT ![y] = lo[n]]
             hi2 == [hi EXCEPT ![n] = y]
  <1>1. /\ y \in M /\ y # n /\ m \in M \cup {Null} /\ m # n /\ m # y
        /\ s.root = IF n = t.root THEN y ELSE t.root
        /\ \A k \in Key, e \in Dir :
             s.kid[k][e] = IF k = n /\ e = "right" THEN m ELSE IF k = y /\ e = "left" THEN n
                           ELSE IF t.kid[k][e] = n THEN y ELSE t.kid[k][e]
    <2>1. "left" \in Dir /\ Opp("left") = "right"
      BY DEF Dir, Opp
    <2> QED
      BY <2>1, RotateLinked
  <1> HIDE DEF s
  <1>2. /\ "left" \in Dir /\ "right" \in Dir /\ Null \notin M /\ Null \notin Key /\ M \subseteq Key
        /\ Key \subseteq Nat /\ lo \in [Key -> Nat] /\ hi \in [Key -> Nat]
    BY RBTreeAssumption DEF Dir, Linked, Spans
  <1>3. \A k \in M : lo[k] < k /\ k < hi[k] /\ k \in Nat /\ lo[k] \in Nat /\ hi[k] \in Nat
    BY <1>2 DEF Spans
  <1>4. \A k \in M, e \in Dir : t.kid[k][e] # Null =>
          /\ t.kid[k][e] \in M /\ t.kid[k][e] # k /\ t.kid[k][e] # t.root /\ t.parent[t.kid[k][e]] = k
          /\ t.kid[k][Opp(e)] # t.kid[k][e]
          /\ lo[t.kid[k][e]] = (IF e = "left" THEN lo[k] ELSE k)
          /\ hi[t.kid[k][e]] = (IF e = "left" THEN k ELSE hi[k])
    BY ChildIs
  <1>41. /\ y # t.root /\ t.parent[y] = n /\ t.kid[n]["left"] # y
         /\ t.kid[n]["left"] # n /\ t.kid[y]["right"] # n /\ t.kid[y]["right"] # y
    <2>1. y # t.root /\ t.parent[y] = n /\ t.kid[n]["left"] # y
      BY <1>2, <1>4 DEF Opp
    <2>2. t.kid[n]["left"] # n
      BY <1>2, <1>4
    <2>3. t.kid[y]["right"] # y
      BY <1>1, <1>2, <1>4
    <2>4. t.kid[y]["right"] # n
      BY <1>1, <1>2, ChildIs DEF Opp
    <2> QED
      BY <2>1, <2>2, <2>3, <2>4
  <1>44. \A k \in M :
            /\ t.kid[k]["left"] # Null => t.kid[k]["left"] \in M /\ lo[t.kid[k]["left"]] = lo[k] /\ hi[t.kid[k]["left"]] = k
            /\ t.kid[k]["right"] # Null => t.kid[k]["right"] \in M /\ lo[t.kid[k]["right"]] = k /\ hi[t.kid[k]["right"]] = hi[k]
    BY <1>2, <1>4, Zenon
  <1>42. lo[y] = n /\ hi[y] = hi[n] /\ (m # Null => lo[m] = n /\ hi[m] = y)
    <2>1. lo[y] = n /\ hi[y] = hi[n]
      BY <1>1, <1>2, <1>4, Zenon
    <2>2. m # Null => lo[m] = n /\ hi[m] = y
      BY <1>1, <1>44, <2>1
    <2> QED
      BY <2>1, <2>2
  <1>43. /\ \A i \in M : IF t.kid[i]["left"] = Null THEN \A j \in M : ~ (lo[i] < j /\ j < i)
                      ELSE lo[t.kid[i]["left"]] = lo[i] /\ hi[t.kid[i]["left"]] = i
         /\ \A i \in M : IF t.kid[i]["right"] = Null THEN \A j \in M : ~ (i < j /\ j < hi[i])
                       ELSE lo[t.kid[i]["right"]] = i /\ hi[t.kid[i]["right"]] = hi[i]
    BY DEF Spans
  <1> HIDE DEF m
  <1> HIDE DEF y
  <1>5. /\ lo2 \in [Key -> Nat] /\ hi2 \in [Key -> Nat]
        /\ \A k \in M : lo2[k] = (IF k = y THEN lo[n] ELSE lo[k])
        /\ \A k \in M : hi2[k] = (IF k = n THEN y ELSE hi[k])
    BY <1>1, <1>2
  <1> HIDE DEF lo2, hi2
  <1>6. \A k \in M : lo2[k] < k /\ k < hi2[k] /\ lo2[k] \in Nat /\ hi2[k] \in Nat
    BY <1>1, <1>3, <1>42, <1>5
  <1>7. s.root # Null => \A k \in Key : lo2[s.root] < k /\ k < hi2[s.root]
    <2>1. t.root # Null => t.root \in M /\ \A k \in Key : lo[t.root] < k /\ k < hi[t.root]
      BY DEF Linked, Spans
    <2> QED
      BY <1>1, <1>2, <1>41, <1>42, <1>5, <2>1
  <1>8. ASSUME NEW k \in M, NEW c, c = s.kid[k]["left"]
        PROVE  IF c = Null THEN \A j \in M : ~ (lo2[k] < j /\ j < k)
               ELSE lo2[c] = lo2[k] /\ hi2[c] = k
    <2>1. CASE k = n
      <3>1. c = (IF "left" = "right" THEN m ELSE t.kid[n]["left"]) /\ (c # Null => c \in M /\ c # n /\ c # y)
        BY <1>1, <1>2, <1>4, <1>41, <1>8, <2>1
      <3>2. t.kid[y]["left"] = m /\ t.kid[n]["right"] = y /\ y # Null
        BY <1>1, <1>2 DEF m, y
      <3> QED
        BY <1>1, <1>3, <1>42, <1>5, <1>43, <2>1, <3>1, <3>2
    <2>2. CASE k = y
      <3>0. t.kid[y]["left"] # Null => t.kid[y]["left"] \in M
        BY <1>1, <1>44
      <3>a. c = (IF "left" = "left" THEN n ELSE t.kid[y]["left"])
        BY <1>1, <1>2, <1>41, <1>8, <2>2
      <3>1. c = (IF "left" = "left" THEN n ELSE t.kid[y]["left"]) /\ (c # Null => c \in M /\ c # y)
        BY <1>1, <1>41, <3>0, <3>a
      <3>2. "left" # "left" => c # n
        BY <1>1, <1>41, <3>1
      <3> QED
        BY <1>1, <1>2, <1>3, <1>42, <1>5, <1>43, <2>2, <3>1, <3>2
    <2>3. CASE k # n /\ k # y /\ t.kid[k]["left"] = n
      BY <1>1, <1>2, <1>3, <1>4, <1>41, <1>42, <1>5, <1>8, <1>43, <2>3
    <2>4. CASE k # n /\ k # y /\ t.kid[k]["left"] # n
      <3>1. c = t.kid[k]["left"] /\ (c # Null => c \in M /\ c # n /\ c # y)
        <4>1. c = t.kid[k]["left"]
          BY <1>1, <1>2, <1>8, <2>4
        <4>2. c # Null => c \in M /\ t.parent[c] = k
          BY <1>2, <1>4, <4>1
        <4>3. c # n
          BY <2>4, <4>1
        <4>4. c # Null => c # y
          BY <1>41, <2>4, <4>2
        <4> QED
          BY <4>1, <4>2, <4>3, <4>4
      <3> QED
        BY <1>2, <1>3, <1>5, <1>43, <2>4, <3>1
    <2> QED
      BY <2>1, <2>2, <2>3, <2>4
  <1>9. ASSUME NEW k \in M, NEW c, c = s.kid[k]["right"]
        PROVE  IF c = Null THEN \A j \in M : ~ (k < j /\ j < hi2[k])
               ELSE lo2[c] = k /\ hi2[c] = hi2[k]
    <2>1. CASE k = n
      <3>1. c = (IF "right" = "right" THEN m ELSE t.kid[n]["right"]) /\ (c # Null => c \in M /\ c # n /\ c # y)
        BY <1>1, <1>2, <1>4, <1>41, <1>9, <2>1
      <3>2. t.kid[y]["left"] = m /\ t.kid[n]["right"] = y /\ y # Null
        BY <1>1, <1>2 DEF m, y
      <3> QED
        BY <1>1, <1>3, <1>42, <1>5, <1>43, <2>1, <3>1, <3>2
    <2>2. CASE k = y
      <3>0. t.kid[y]["right"] # Null => t.kid[y]["right"] \in M
        BY <1>1, <1>44
      <3>a. c = (IF "right" = "left" THEN n ELSE t.kid[y]["right"])
        BY <1>1, <1>2, <1>41, <1>9, <2>2
      <3>1. c = (IF "right" = "left" THEN n ELSE t.kid[y]["right"]) /\ (c # Null => c \in M /\ c # y)
        BY <1>1, <1>41, <3>0, <3>a
      <3>2. "right" # "left" => c # n
        BY <1>1, <1>41, <3>1
      <3> QED
        BY <1>1, <1>2, <1>3, <1>42, <1>5, <1>43, <2>2, <3>1, <3>2
    <2>3. CASE k # n /\ k # y /\ t.kid[k]["right"] = n
      BY <1>1, <1>2, <1>3, <1>4, <1>41, <1>42, <1>5, <1>9, <1>43, <2>3
    <2>4. CASE k # n /\ k # y /\ t.kid[k]["right"] # n
      <3>1. c = t.kid[k]["right"] /\ (c # Null => c \in M /\ c # n /\ c # y)
        <4>1. c = t.kid[k]["right"]
          BY <1>1, <1>2, <1>9, <2>4
        <4>2. c # Null => c \in M /\ t.parent[c] = k
          BY <1>2, <1>4, <4>1
        <4>3. c # n
          BY <2>4, <4>1
        <4>4. c # Null => c # y
          BY <1>41, <2>4, <4>2
        <4> QED
          BY <4>1, <4>2, <4>3, <4>4
      <3> QED
        BY <1>2, <1>3, <1>5, <1>43, <2>4, <3>1
    <2> QED
      BY <2>1, <2>2, <2>3, <2>4
  <1>10. ASSUME NEW j \in M, NEW k \in M, j # k PROVE Apart(lo2, hi2, j, k)
    <2>1. \A i, l \in M : i # l => Apart(lo, hi, i, l)
      BY DEF Spans
    <2>2. Apart(lo, hi, j, k) /\ (j # n => Apart(lo, hi, j, n)) /\ (j # y => Apart(lo, hi, j, y))
          /\ (k # n => Apart(lo, hi, k, n)) /\ (k # y => Apart(lo, hi, k, y))
      BY <1>1, <1>10, <2>1
    <2> QED
      BY <1>1, <1>3, <1>42, <1>5, <1>10, <2>2 DEF Apart
  <1>11. \A k \in M : Ended(M, lo2, hi2, k)
    <2>1. \A k \in M : Ended(M, lo, hi, k)
      BY DEF Spans
    <2> QED
      BY <1>1, <1>5, <2>1 DEF Ended
  <1>12. Spans(s, M, lo2, hi2)
    BY <1>5, <1>6, <1>7, <1>8, <1>9, <1>10, <1>11 DEF Spans
  <1> QED
    BY <1>5, <1>12 DEF s

(* The mirror image, for rotate_right. *)
LEMMA RotateRightSpans ==
  ASSUME NEW t, NEW M, NEW lo, NEW hi, Linked(t, M), Spans(t, M, lo, hi),
         NEW n \in M, t.kid[n]["left"] # Null
  PROVE  \E lo2, hi2 \in [Key -> Nat] : Spans(Rotate(t, n, "right"), M, lo2, hi2)
  <1> DEFINE y == t.kid[n]["left"]
             m == t.kid[y]["right"]
             p == t.parent[n]
             s == Rotate(t, n, "right")
             lo2 == [lo EXCEPT ![n] = y]
             hi2 == [hi EXCEPT ![y] = hi[n]]
  <1>1. /\ y \in M /\ y # n /\ m \in M \cup {Null} /\ m # n /\ m # y
        /\ s.root = IF n = t.root THEN y ELSE t.root
        /\ \A k \in Key, e \in Dir :
             s.kid[k][e] = IF k = n /\ e = "left" THEN m ELSE IF k = y /\ e = "right" THEN n
                           ELSE IF t.kid[k][e] = n THEN y ELSE t.kid[k][e]
    <2>1. "right" \in Dir /\ Opp("right") = "left"
      BY DEF Dir, Opp
    <2> QED
      BY <2>1, RotateLinked
  <1> HIDE DEF s
  <1>2. /\ "left" \in Dir /\ "right" \in Dir /\ Null \notin M /\ Null \notin Key /\ M \subseteq Key
        /\ Key \subseteq Nat /\ lo \in [Key -> Nat] /\ hi \in [Key -> Nat]
    BY RBTreeAssumption DEF Dir, Linked, Spans
  <1>3. \A k \in M : lo[k] < k /\ k < hi[k] /\ k \in Nat /\ lo[k] \in Nat /\ hi[k] \in Nat
    BY <1>2 DEF Spans
  <1>4. \A k \in M, e \in Dir : t.kid[k][e] # Null =>
          /\ t.kid[k][e] \in M /\ t.kid[k][e] # k /\ t.kid[k][e] # t.root /\ t.parent[t.kid[k][e]] = k
          /\ t.kid[k][Opp(e)] # t.kid[k][e]
          /\ lo[t.kid[k][e]] = (IF e = "left" THEN lo[k] ELSE k)
          /\ hi[t.kid[k][e]] = (IF e = "left" THEN k ELSE hi[k])
    BY ChildIs
  <1>41. /\ y # t.root /\ t.parent[y] = n /\ t.kid[n]["right"] # y
         /\ t.kid[n]["right"] # n /\ t.kid[y]["left"] # n /\ t.kid[y]["left"] # y
    <2>1. y # t.root /\ t.parent[y] = n /\ t.kid[n]["right"] # y
      BY <1>2, <1>4 DEF Opp
    <2>2. t.kid[n]["right"] # n
      BY <1>2, <1>4
    <2>3. t.kid[y]["left"] # y
      BY <1>1, <1>2, <1>4
    <2>4. t.kid[y]["left"] # n
      <3> SUFFICES ASSUME t.kid[y]["left"] = n PROVE FALSE
        OBVIOUS
      <3>1. y \in M /\ n \in M /\ t.kid[n]["left"] = y /\ y # Null /\ n # Null
        BY <1>1, <1>2
      <3>2. hi[y] = n /\ hi[n] = y
        BY <1>2, <1>4, <3>1
      <3>3. n < y /\ y < n /\ n \in Nat /\ y \in Nat
        BY <1>3, <3>1, <3>2
      <3> QED
        BY <3>3
    <2> QED
      BY <2>1, <2>2, <2>3, <2>4
  <1>44. \A k \in M :
            /\ t.kid[k]["left"] # Null => t.kid[k]["left"] \in M /\ lo[t.kid[k]["left"]] = lo[k] /\ hi[t.kid[k]["left"]] = k
            /\ t.kid[k]["right"] # Null => t.kid[k]["right"] \in M /\ lo[t.kid[k]["right"]] = k /\ hi[t.kid[k]["right"]] = hi[k]
    BY <1>2, <1>4, Zenon
  <1>42. lo[y] = lo[n] /\ hi[y] = n /\ (m # Null => lo[m] = y /\ hi[m] = n)
    <2>1. lo[y] = lo[n] /\ hi[y] = n
      BY <1>1, <1>2, <1>4, Zenon
    <2>2. m # Null => lo[m] = y /\ hi[m] = n
      BY <1>1, <1>44, <2>1
    <2> QED
      BY <2>1, <2>2, Zenon
  <1>43. /\ \A i \in M : IF t.kid[i]["left"] = Null THEN \A j \in M : ~ (lo[i] < j /\ j < i)
                      ELSE lo[t.kid[i]["left"]] = lo[i] /\ hi[t.kid[i]["left"]] = i
         /\ \A i \in M : IF t.kid[i]["right"] = Null THEN \A j \in M : ~ (i < j /\ j < hi[i])
                       ELSE lo[t.kid[i]["right"]] = i /\ hi[t.kid[i]["right"]] = hi[i]
    BY DEF Spans
  <1> HIDE DEF m
  <1> HIDE DEF y
  <1>5. /\ lo2 \in [Key -> Nat] /\ hi2 \in [Key -> Nat]
        /\ \A k \in M : lo2[k] = (IF k = n THEN y ELSE lo[k])
        /\ \A k \in M : hi2[k] = (IF k = y THEN hi[n] ELSE hi[k])
    BY <1>1, <1>2
  <1> HIDE DEF lo2, hi2
  <1>6. \A k \in M : lo2[k] < k /\ k < hi2[k] /\ lo2[k] \in Nat /\ hi2[k] \in Nat
    BY <1>1, <1>3, <1>42, <1>5
  <1>7. s.root # Null => \A k \in Key : lo2[s.root] < k /\ k < hi2[s.root]
    <2>1. t.root # Null => t.root \in M /\ \A k \in Key : lo[t.root] < k /\ k < hi[t.root]
      BY DEF Linked, Spans
    <2> QED
      BY <1>1, <1>2, <1>41, <1>42, <1>5, <2>1
  <1>8. ASSUME NEW k \in M, NEW c, c = s.kid[k]["left"]
        PROVE  IF c = Null THEN \A j \in M : ~ (lo2[k] < j /\ j < k)
               ELSE lo2[c] = lo2[k] /\ hi2[c] = k
    <2>1. CASE k = n
      <3>1. c = (IF "left" = "left" THEN m ELSE t.kid[n]["left"]) /\ (c # Null => c \in M /\ c # n /\ c # y)
        BY <1>1, <1>2, <1>4, <1>41, <1>8, <2>1
      <3>2. t.kid[y]["right"] = m /\ t.kid[n]["left"] = y /\ y # Null
        BY <1>1, <1>2 DEF m, y
      <3> QED
        BY <1>1, <1>3, <1>42, <1>5, <1>43, <2>1, <3>1, <3>2
    <2>2. CASE k = y
      <3>0. t.kid[y]["left"] # Null => t.kid[y]["left"] \in M
        BY <1>1, <1>44
      <3>a. c = (IF "left" = "right" THEN n ELSE t.kid[y]["left"])
        BY <1>1, <1>2, <1>41, <1>8, <2>2
      <3>1. c = (IF "left" = "right" THEN n ELSE t.kid[y]["left"]) /\ (c # Null => c \in M /\ c # y)
        BY <1>1, <1>41, <3>0, <3>a
      <3>2. "left" # "right" => c # n
        BY <1>1, <1>41, <3>1
      <3> QED
        BY <1>1, <1>2, <1>3, <1>42, <1>5, <1>43, <2>2, <3>1, <3>2
    <2>3. CASE k # n /\ k # y /\ t.kid[k]["left"] = n
      BY <1>1, <1>2, <1>3, <1>4, <1>41, <1>42, <1>5, <1>8, <1>43, <2>3
    <2>4. CASE k # n /\ k # y /\ t.kid[k]["left"] # n
      <3>1. c = t.kid[k]["left"] /\ (c # Null => c \in M /\ c # n /\ c # y)
        <4>1. c = t.kid[k]["left"]
          BY <1>1, <1>2, <1>8, <2>4
        <4>2. c # Null => c \in M /\ t.parent[c] = k
          BY <1>2, <1>4, <4>1
        <4>3. c # n
          BY <2>4, <4>1
        <4>4. c # Null => c # y
          BY <1>41, <2>4, <4>2
        <4> QED
          BY <4>1, <4>2, <4>3, <4>4
      <3> QED
        BY <1>2, <1>3, <1>5, <1>43, <2>4, <3>1
    <2> QED
      BY <2>1, <2>2, <2>3, <2>4
  <1>9. ASSUME NEW k \in M, NEW c, c = s.kid[k]["right"]
        PROVE  IF c = Null THEN \A j \in M : ~ (k < j /\ j < hi2[k])
               ELSE lo2[c] = k /\ hi2[c] = hi2[k]
    <2>1. CASE k = n
      <3>1. c = (IF "right" = "left" THEN m ELSE t.kid[n]["right"]) /\ (c # Null => c \in M /\ c # n /\ c # y)
        BY <1>1, <1>2, <1>4, <1>41, <1>9, <2>1
      <3>2. t.kid[y]["right"] = m /\ t.kid[n]["left"] = y /\ y # Null
        BY <1>1, <1>2 DEF m, y
      <3> QED
        BY <1>1, <1>3, <1>42, <1>5, <1>43, <2>1, <3>1, <3>2
    <2>2. CASE k = y
      <3>0. t.kid[y]["right"] # Null => t.kid[y]["right"] \in M
        BY <1>1, <1>44
      <3>a. c = (IF "right" = "right" THEN n ELSE t.kid[y]["right"])
        BY <1>1, <1>2, <1>41, <1>9, <2>2
      <3>1. c = (IF "right" = "right" THEN n ELSE t.kid[y]["right"]) /\ (c # Null => c \in M /\ c # y)
        BY <1>1, <1>41, <3>0, <3>a
      <3>2. "right" # "right" => c # n
        BY <1>1, <1>41, <3>1
      <3> QED
        BY <1>1, <1>2, <1>3, <1>42, <1>5, <1>43, <2>2, <3>1, <3>2
    <2>3. CASE k # n /\ k # y /\ t.kid[k]["right"] = n
      BY <1>1, <1>2, <1>3, <1>4, <1>41, <1>42, <1>5, <1>9, <1>43, <2>3
    <2>4. CASE k # n /\ k # y /\ t.kid[k]["right"] # n
      <3>1. c = t.kid[k]["right"] /\ (c # Null => c \in M /\ c # n /\ c # y)
        <4>1. c = t.kid[k]["right"]
          BY <1>1, <1>2, <1>9, <2>4
        <4>2. c # Null => c \in M /\ t.parent[c] = k
          BY <1>2, <1>4, <4>1
        <4>3. c # n
          BY <2>4, <4>1
        <4>4. c # Null => c # y
          BY <1>41, <2>4, <4>2
        <4> QED
          BY <4>1, <4>2, <4>3, <4>4
      <3> QED
        BY <1>2, <1>3, <1>5, <1>43, <2>4, <3>1
    <2> QED
      BY <2>1, <2>2, <2>3, <2>4
  <1>10. ASSUME NEW j \in M, NEW k \in M, j # k PROVE Apart(lo2, hi2, j, k)
    <2>1. \A i, l \in M : i # l => Apart(lo, hi, i, l)
      BY DEF Spans
    <2>2. Apart(lo, hi, j, k) /\ (j # n => Apart(lo, hi, j, n)) /\ (j # y => Apart(lo, hi, j, y))
          /\ (k # n => Apart(lo, hi, k, n)) /\ (k # y => Apart(lo, hi, k, y))
      BY <1>1, <1>10, <2>1
    <2> QED
      BY <1>1, <1>3, <1>42, <1>5, <1>10, <2>2 DEF Apart
  <1>11. \A k \in M : Ended(M, lo2, hi2, k)
    <2>1. \A k \in M : Ended(M, lo, hi, k)
      BY DEF Spans
    <2> QED
      BY <1>1, <1>5, <2>1 DEF Ended
  <1>12. Spans(s, M, lo2, hi2)
    BY <1>5, <1>6, <1>7, <1>8, <1>9, <1>10, <1>11 DEF Spans
  <1> QED
    BY <1>5, <1>12 DEF s

(* A rotation at a node with a child on the other side keeps a search tree. *)
LEMMA RotateSearch ==
  ASSUME NEW t, NEW M, Search(t, M), NEW n \in M, NEW d \in Dir, t.kid[n][Opp(d)] # Null
  PROVE  Search(Rotate(t, n, d), M)
  <1>1. PICK lo, hi \in [Key -> Nat] : Spans(t, M, lo, hi)
    BY DEF Search
  <1>2. Linked(t, M)
    BY Zenon DEF Search
  <1>3. Linked(Rotate(t, n, d), M)
    BY <1>1, <1>2, RotateLinked
  <1>4. CASE d = "left"
    <2>1. t.kid[n]["right"] # Null
      BY <1>4 DEF Opp
    <2>2. \E lo2, hi2 \in [Key -> Nat] : Spans(Rotate(t, n, "left"), M, lo2, hi2)
      BY <1>1, <1>2, <2>1, RotateLeftSpans
    <2> QED
      BY <1>3, <1>4, <2>2 DEF Search
  <1>5. CASE d = "right"
    <2>1. t.kid[n]["left"] # Null
      BY <1>5 DEF Opp
    <2>2. \E lo2, hi2 \in [Key -> Nat] : Spans(Rotate(t, n, "right"), M, lo2, hi2)
      BY <1>1, <1>2, <2>1, RotateRightSpans
    <2> QED
      BY <1>3, <1>5, <2>2 DEF Search
  <1> QED
    BY <1>4, <1>5 DEF Dir

(* s is t with the node n painted *)
Painted(s, t, n, c) == /\ s \in Tree /\ s.root = t.root /\ s.kid = t.kid /\ s.parent = t.parent
                       /\ s.elem = t.elem
                       /\ \A k \in Key : s.color[k] = IF k = n THEN c ELSE t.color[k]

(* Painting a node changes nothing but its color. *)
LEMMA PaintIs ==
  ASSUME NEW t \in Tree, NEW n \in Key, NEW c \in {"red", "black"}
  PROVE  Painted(Paint(t, n, c), t, n, c)
  BY DEF Tree, Paint, Painted

(* A recoloring keeps a search tree. *)
LEMMA PaintSearch ==
  ASSUME NEW t, NEW M, Search(t, M), NEW n \in M, NEW c \in {"red", "black"}
  PROVE  Search(Paint(t, n, c), M) /\ Paint(t, n, c).elem = t.elem
  <1> DEFINE s == Paint(t, n, c)
  <1>1. t \in Tree /\ n \in Key
    BY DEF Search, Linked
  <1>2. s \in Tree /\ s.root = t.root /\ s.kid = t.kid /\ s.parent = t.parent /\ s.elem = t.elem
    BY <1>1, PaintIs DEF Painted
  <1> HIDE DEF s
  <1>3. Linked(t, M) => Linked(s, M)
    BY <1>2 DEF Linked
  <1>4. \A lo, hi : Spans(t, M, lo, hi) => Spans(s, M, lo, hi)
    BY <1>2 DEF Spans
  <1> QED
    BY <1>2, <1>3, <1>4 DEF Search, s

-----------------------------------------------------------------------------
(* recursive functions along a path in the tree *)

(* A set of numbers that is not empty has a least one. *)
LEMMA LeastNat ==
  ASSUME NEW T \in SUBSET Nat, T # {}
  PROVE  \E n \in T : \A m \in T : n <= m
  <1> DEFINE R == OpToRel(<, Nat)
  <1>1. \A m, n \in Nat : m < n => <<m, n>> \in R
    BY DEF OpToRel
  <1>2. IsWellFoundedOn(R, Nat)
    BY NatLessThanWellFounded, Zenon
  <1> HIDE DEF R
  <1>3. PICK n \in T : \A m \in T : ~ (<<m, n>> \in R)
    BY <1>2, WFMin
  <1>4. n \in Nat /\ \A m \in T : m \in Nat /\ ~ (m < n)
    BY <1>1, <1>3
  <1> QED  BY <1>4

(* Finitely many numbers have a bound. *)
LEMMA Bounded ==
  ASSUME NEW S, IsFiniteSet(S), NEW W \in [S -> Nat]
  PROVE  \E b \in Nat : \A m \in S : W[m] < b
  <1> DEFINE bounded(R) == \E b \in Nat : \A m \in R : W[m] < b
             T == {n \in Nat : \E R \in SUBSET S : Cardinality(R) = n /\ ~ bounded(R)}
  <1>1. \A R \in SUBSET S : IsFiniteSet(R) /\ Cardinality(R) \in Nat
    BY FS_Subset, FS_CardinalityType
  <1>2. SUFFICES ASSUME T # {} PROVE FALSE
    BY <1>1
  <1>3. PICK n \in T : \A i \in T : n <= i
    BY <1>2, LeastNat
  <1>4. PICK R \in SUBSET S : Cardinality(R) = n /\ ~ bounded(R)
    OBVIOUS
  <1>5. PICK e \in R : TRUE
    BY <1>4
  <1>6. Cardinality(R \ {e}) = n - 1 /\ R \ {e} \in SUBSET S /\ n \in Nat
    BY <1>1, <1>4, <1>5, FS_RemoveElement
  <1>7. Cardinality(R \ {e}) \in Nat /\ ~ (n - 1 \in T)
    BY <1>1, <1>3, <1>6
  <1>8. bounded(R \ {e})
    BY <1>6, <1>7
  <1>9. PICK b \in Nat : \A m \in R \ {e} : W[m] < b
    BY <1>8
  <1>10. W[e] \in Nat /\ \A m \in R : W[m] \in Nat
    OBVIOUS
  <1>11. PICK c \in Nat : b <= c /\ W[e] < c
    <2>1. CASE b <= W[e]
      <3>1. W[e] + 1 \in Nat /\ b <= W[e] + 1 /\ W[e] < W[e] + 1
        BY <1>10, <2>1
      <3> QED
        BY <3>1
    <2>2. CASE W[e] < b
      BY <2>2
    <2> QED
      BY <1>10, <2>1, <2>2
  <1>12. \A m \in R : W[m] < c
    BY <1>9, <1>10, <1>11
  <1> QED
    BY <1>4, <1>12

(* the nodes along next come nearer to an end *)
Ends(next, W) ==
  /\ next \in [Key -> Node] /\ W \in [Key -> Nat]
  /\ \A m \in Key : next[m] # Null => W[next[m]] < W[m]

(* What holds of a node when it holds of the next one holds of every node.  *)
LEMMA Along ==
  ASSUME NEW next, NEW W, Ends(next, W), NEW P,
         \A m \in Key : (next[m] # Null => next[m] \in P) => m \in P
  PROVE  \A m \in Key : m \in P
  <1> SUFFICES ASSUME NEW m0 \in Key, m0 \notin P PROVE FALSE
    OBVIOUS
  <1> DEFINE T == {W[m] : m \in Key \ P}
  <1>1. T \in SUBSET Nat /\ T # {}
    BY DEF Ends
  <1>2. PICK n \in T : \A i \in T : n <= i
    BY <1>1, LeastNat
  <1>3. PICK m \in Key \ P : n = W[m]
    OBVIOUS
  <1>4. next[m] # Null /\ next[m] \in Key \ P
    BY <1>3 DEF Ends, Node
  <1>5. W[next[m]] \in T /\ W[next[m]] \in Nat /\ W[m] \in Nat
    BY <1>3, <1>4 DEF Ends
  <1> QED
    BY <1>2, <1>3, <1>4, <1>5 DEF Ends

(* A function is defined by its values at the ends and by recursion along   *)
(* next.                                                                    *)
LEMMA Recursion ==
  ASSUME NEW next, NEW W, Ends(next, W), NEW base \in [Key -> Nat], NEW add \in [Key -> Nat]
  PROVE  \E f \in [Key -> Nat] :
            \A m \in Key : f[m] = IF next[m] = Null THEN base[m] ELSE f[next[m]] + add[m]
  <1> DEFINE step(f, m) == IF next[m] = Null THEN base[m] ELSE f[next[m]] + add[m]
             good(n) == \E f \in [Key -> Nat] : \A m \in Key : W[m] < n => f[m] = step(f, m)
             T == {n \in Nat : ~ good(n)}
  <1>1. good(0)
    <2>1. [m \in Key |-> 0] \in [Key -> Nat] /\ \A m \in Key : ~ (W[m] < 0)
      BY DEF Ends
    <2> QED
      BY <2>1
  <1>2. ASSUME NEW n \in Nat, good(n) PROVE good(n + 1)
    <2>1. PICK f \in [Key -> Nat] : \A m \in Key : W[m] < n => f[m] = step(f, m)
      BY <1>2
    <2> DEFINE g == [m \in Key |-> step(f, m)]
    <2>2. ASSUME NEW m \in Key PROVE step(f, m) \in Nat
      <3>1. next[m] # Null => next[m] \in Key
        BY DEF Ends, Node
      <3> QED
        BY <3>1
    <2>3. g \in [Key -> Nat] /\ \A m \in Key : g[m] = step(f, m)
      BY <2>2
    <2> HIDE DEF g
    <2>4. ASSUME NEW m \in Key, W[m] < n + 1 PROVE g[m] = step(g, m)
      <3>1. CASE next[m] = Null
        BY <2>3, <3>1
      <3>2. CASE next[m] # Null
        <4>1. next[m] \in Key /\ W[next[m]] < n
          BY <2>4, <3>2 DEF Ends, Node
        <4>2. g[next[m]] = f[next[m]]
          BY <2>1, <2>3, <4>1
        <4> QED
          BY <2>3, <3>2, <4>2
      <3> QED
        BY <3>1, <3>2
    <2> QED
      BY <2>3, <2>4
  <1> HIDE DEF good
  <1>3. ASSUME T # {} PROVE FALSE
    <2>1. PICK n \in T : \A i \in T : n <= i
      BY <1>3, LeastNat
    <2>2. n \in Nat /\ ~ good(n)
      OBVIOUS
    <2>3. n # 0
      BY <1>1, <2>2
    <2>4. n - 1 \in Nat /\ (n - 1) + 1 = n
      BY <2>2, <2>3
    <2>5. n - 1 \notin T
      BY <2>1, <2>4
    <2>6. good(n - 1)
      BY <2>4, <2>5
    <2>7. good((n - 1) + 1)
      BY <1>2, <2>4, <2>6
    <2> QED
      BY <2>2, <2>4, <2>7
  <1>4. PICK b \in Nat : \A m \in Key : W[m] < b
    BY Bounded, RBTreeAssumption DEF Ends
  <1>5. good(b)
    BY <1>3
  <1> QED
    BY <1>4, <1>5 DEF good

-----------------------------------------------------------------------------
(* the search for a key *)

(* the nodes down the tree, for any choice of a child *)
Down(t, next) == /\ next \in [Key -> Node]
                 /\ \A m \in Key : next[m] # Null => \E d \in Dir : next[m] = t.kid[m][d]

(* In a finite tree every path down ends: the span of a child is narrower   *)
(* than that of its parent.                                                 *)
LEMMA DownEnds ==
  ASSUME NEW t, NEW M, NEW lo, NEW hi, Linked(t, M), Spans(t, M, lo, hi),
         NEW next, Down(t, next)
  PROVE  /\ \E W \in [Key -> Nat] : Ends(next, W)
         /\ \A m \in Key : next[m] # Null => m \in M
  <1> DEFINE W == [m \in Key |-> IF m \in M THEN hi[m] - lo[m] ELSE 0]
  <1>1. M \subseteq Key /\ Key \subseteq Nat /\ lo \in [Key -> Nat] /\ hi \in [Key -> Nat]
    BY RBTreeAssumption DEF Linked, Spans
  <1>2. \A m \in M : lo[m] < m /\ m < hi[m] /\ m \in Nat /\ lo[m] \in Nat /\ hi[m] \in Nat
    BY <1>1 DEF Spans
  <1>3. W \in [Key -> Nat]
    BY <1>1, <1>2
  <1>4. ASSUME NEW m \in Key, next[m] # Null PROVE m \in M /\ W[next[m]] < W[m]
    <2>1. PICK d \in Dir : next[m] = t.kid[m][d]
      BY <1>4 DEF Down
    <2>2. m \in M
      BY <1>4, <2>1 DEF Linked
    <2>3. next[m] \in M /\ lo[m] <= lo[next[m]] /\ hi[next[m]] <= hi[m]
          /\ (hi[next[m]] <= m \/ m <= lo[next[m]])
      BY <1>4, <2>1, <2>2, ChildIs
    <2>4. W[m] = hi[m] - lo[m] /\ W[next[m]] = hi[next[m]] - lo[next[m]]
      BY <1>1, <2>2, <2>3
    <2> HIDE DEF W
    <2>5. W[next[m]] < W[m]
      BY <1>2, <2>2, <2>3, <2>4
    <2> QED
      BY <2>2, <2>5
  <1> HIDE DEF W
  <1>5. Ends(next, W)
    BY <1>3, <1>4 DEF Ends, Down
  <1> QED
    BY <1>3, <1>4, <1>5

(* The descent to k ends at the node k if there is one, and otherwise at    *)
(* the node that k belongs below, on a side without a child.                *)
LEMMA DescendIs ==
  ASSUME NEW t, NEW M, NEW lo, NEW hi, Linked(t, M), Spans(t, M, lo, hi), NEW k \in Key
  PROVE  LET p == Descend(t, k)
         IN /\ p \in M \cup {Null} /\ (p = Null <=> M = {}) /\ (p = k <=> k \in M)
            /\ p # Null => lo[p] < k /\ k < hi[p]
            /\ p # Null /\ p # k => t.kid[p][Toward(p, k)] = Null
  <1> DEFINE next == [n \in Key |-> IF n = k THEN Null ELSE t.kid[n][Toward(n, k)]]
             base == [n \in Key |-> n]
             add == [n \in Key |-> 0]
             body(f) == [n \in Key |-> IF n = k \/ t.kid[n][Toward(n, k)] = Null THEN n
                                       ELSE f[t.kid[n][Toward(n, k)]]]
             end == CHOOSE f : f = body(f)
  <1>0. Null \notin Key /\ M \subseteq Key /\ t \in Tree /\ Key \subseteq Nat
    BY RBTreeAssumption DEF Linked
  <1>1. Down(t, next)
    <2>1. \A n \in Key : Toward(n, k) \in Dir
      BY DEF Toward, Dir
    <2>2. \A n \in Key : \A d \in Dir : t.kid[n][d] \in Node
      BY <1>0 DEF Tree, Node
    <2> QED
      BY <2>1, <2>2 DEF Down, Node
  <1>2. PICK W \in [Key -> Nat] : Ends(next, W)
    BY <1>1, DownEnds
  <1>3. base \in [Key -> Nat] /\ add \in [Key -> Nat]
    BY <1>0
  <1>a. PICK b, a : b = base /\ a = add
    OBVIOUS
  <1>b. b \in [Key -> Nat] /\ a \in [Key -> Nat]
    BY <1>3, <1>a
  <1> HIDE DEF base, add
  <1>4. PICK f \in [Key -> Nat] :
          \A n \in Key : f[n] = IF next[n] = Null THEN b[n] ELSE f[next[n]] + a[n]
    BY <1>2, <1>b, Recursion, Zenon
  <1>c. \A n \in Key : b[n] = n /\ a[n] = 0
    BY <1>a DEF base, add
  <1>5. f = body(f)
    <2>1. \A n \in Key : f[n] = IF n = k \/ t.kid[n][Toward(n, k)] = Null THEN n
                                ELSE f[t.kid[n][Toward(n, k)]]
      <3> SUFFICES ASSUME NEW n \in Key
                   PROVE  f[n] = IF n = k \/ t.kid[n][Toward(n, k)] = Null THEN n
                                ELSE f[t.kid[n][Toward(n, k)]]
        OBVIOUS
      <3>1. next[n] # Null => next[n] \in Key
        BY <1>2 DEF Ends, Node
      <3>2. f[n] = IF next[n] = Null THEN n ELSE f[next[n]]
        <4>1. next[n] # Null => f[next[n]] + a[n] = f[next[n]]
          BY <1>c, <3>1
        <4> HIDE DEF next
        <4> QED
          BY <1>4, <1>c, <4>1
      <3>3. next[n] = IF n = k THEN Null ELSE t.kid[n][Toward(n, k)]
        OBVIOUS
      <3> HIDE DEF next
      <3> QED
        BY <3>2, <3>3
    <2> QED
      BY <2>1
  <1>6. end = body(end)
    BY <1>5
  <1>7. Descend(t, k) = IF t.root = Null THEN Null ELSE end[t.root]
    BY DEF Descend
  <1> HIDE DEF end
  <1>8. \A n \in Key : end[n] = IF next[n] = Null THEN n ELSE end[next[n]]
    BY <1>6, Zenon
  <1> DEFINE P == {n \in Key : n \in M /\ lo[n] < k /\ k < hi[n] =>
                      LET p == end[n] IN /\ p \in M /\ lo[p] < k /\ k < hi[p]
                                         /\ p # k => t.kid[p][Toward(p, k)] = Null}
  <1>9. \A n \in Key : (next[n] # Null => next[n] \in P) => n \in P
    <2> SUFFICES ASSUME NEW n \in Key, next[n] # Null => next[n] \in P, n \in M, lo[n] < k, k < hi[n]
                 PROVE  LET p == end[n] IN /\ p \in M /\ lo[p] < k /\ k < hi[p]
                                           /\ p # k => t.kid[p][Toward(p, k)] = Null
      OBVIOUS
    <2>1. CASE next[n] = Null
      <3>1. end[n] = n
        BY <1>8, <2>1
      <3>2. n # k => t.kid[n][Toward(n, k)] = Null
        BY <2>1, Zenon
      <3> QED
        BY <3>1, <3>2
    <2>2. CASE next[n] # Null
      <3>1. n # k /\ next[n] = t.kid[n][Toward(n, k)] /\ Toward(n, k) \in Dir
        BY <2>2, Zenon DEF Toward, Dir
      <3>2. /\ next[n] \in M
            /\ lo[next[n]] = (IF Toward(n, k) = "left" THEN lo[n] ELSE n)
            /\ hi[next[n]] = (IF Toward(n, k) = "left" THEN n ELSE hi[n])
        BY <2>2, <3>1, ChildIs
      <3>3. lo[next[n]] < k /\ k < hi[next[n]]
        BY <1>0, <3>1, <3>2 DEF Toward
      <3>4. end[n] = end[next[n]]
        BY <1>8, <2>2
      <3> QED
        BY <2>2, <3>2, <3>3, <3>4, Zenon
    <2> QED
      BY <2>1, <2>2, Zenon
  <1> HIDE DEF P, next
  <1>10. \A n \in Key : n \in P
    BY <1>2, <1>9, Along
  <1>11. CASE M = {}
    BY <1>0, <1>7, <1>11 DEF Linked
  <1>12. CASE M # {}
    <2> DEFINE p == Descend(t, k)
    <2>1. t.root \in M /\ t.root # Null /\ lo[t.root] < k /\ k < hi[t.root] /\ p = end[t.root]
      BY <1>0, <1>7, <1>12 DEF Linked, Spans
    <2>2. p \in M /\ lo[p] < k /\ k < hi[p] /\ (p # k => t.kid[p][Toward(p, k)] = Null)
      BY <1>0, <1>10, <2>1 DEF P
    <2> HIDE DEF p
    <2>3. ASSUME k \in M, p # k PROVE FALSE
      <3>1. p \in Nat /\ k \in Nat
        BY <1>0, <2>2
      <3>2. CASE k < p
        BY <2>2, <2>3, <3>1, <3>2 DEF Toward, Spans
      <3>3. CASE p < k
        BY <2>2, <2>3, <3>1, <3>3 DEF Toward, Spans
      <3> QED
        BY <2>3, <3>1, <3>2, <3>3
    <2> QED
      BY <1>0, <1>12, <2>2, <2>3 DEF p
  <1> QED
    BY <1>11, <1>12

(* rbtree_find answers the element of the key. *)
LEMMA FindIs ==
  ASSUME NEW t, NEW M, Search(t, M), \A k \in Key : k \in M <=> t.elem[k] # Nil, NEW k \in Key
  PROVE  Find(t, k) = t.elem[k] /\ (Descend(t, k) = k <=> k \in M)
  <1>1. PICK lo, hi \in [Key -> Nat] : Spans(t, M, lo, hi)
    BY DEF Search
  <1>2. Descend(t, k) = k <=> k \in M
    BY <1>1, DescendIs DEF Search
  <1> QED
    BY <1>2 DEF Find

-----------------------------------------------------------------------------
(* inserting *)

(* s is t with the new leaf k below p, where the descent to k ended *)
Leafed(s, t, k, p) ==
  /\ s \in Tree
  /\ s.root = IF p = Null THEN k ELSE t.root
  /\ \A j \in Key : s.parent[j] = IF j = k THEN p ELSE t.parent[j]
  /\ \A j \in Key, e \in Dir :
       s.kid[j][e] = IF j = k THEN Null ELSE IF j = p /\ e = Toward(p, k) THEN k ELSE t.kid[j][e]

(* A leaf linked where the descent of rbtree_insert ended keeps the pointers *)
(* inverse.                                                                 *)
LEMMA LeafedLinked ==
  ASSUME NEW t, NEW M, NEW lo, NEW hi, Linked(t, M), Spans(t, M, lo, hi), NEW k \in Key \ M,
         NEW s, Leafed(s, t, k, Descend(t, k))
  PROVE  Linked(s, M \cup {k})
  <1> DEFINE p == Descend(t, k)
             N == M \cup {k}
  <1>1. /\ p \in M \cup {Null} /\ (p = Null <=> M = {}) /\ p # k
        /\ p # Null => t.kid[p][Toward(p, k)] = Null
    BY DescendIs
  <1>2. Null \notin Key /\ M \subseteq Key /\ N \subseteq Key
    BY RBTreeAssumption DEF Linked
  <1>3. Toward(p, k) \in Dir
    BY DEF Toward, Dir
  <1>4. \A j \in M, e \in Dir : t.kid[j][e] # k
    BY <1>2 DEF Linked
  <1>5. Leafed(s, t, k, p)
    OBVIOUS
  <1> HIDE DEF p
  <1>6. s.root \in N /\ s.parent[s.root] = Null
    BY <1>1, <1>2, <1>5 DEF Leafed, Linked
  <1>7. ASSUME NEW j \in N, j # s.root
        PROVE  s.parent[j] \in N /\ \E e \in Dir : s.kid[s.parent[j]][e] = j
    <2>1. p # Null /\ p \in M /\ s.root = t.root
      BY <1>1, <1>2, <1>5, <1>7 DEF Leafed
    <2>2. CASE j = k
      BY <1>1, <1>2, <1>3, <1>5, <2>1, <2>2 DEF Leafed
    <2>3. CASE j # k
      <3>1. PICK e \in Dir : t.parent[j] \in M /\ t.kid[t.parent[j]][e] = j
        BY <1>7, <2>1, <2>3 DEF Linked
      <3>2. s.parent[j] = t.parent[j] /\ t.parent[j] # k
        BY <1>2, <1>5, <2>3, <3>1 DEF Leafed
      <3>3. ~ (t.parent[j] = p /\ e = Toward(p, k))
        BY <1>1, <1>2, <2>1, <3>1, <1>7
      <3>4. s.kid[t.parent[j]][e] = j
        BY <1>2, <1>5, <3>1, <3>2, <3>3 DEF Leafed
      <3> QED
        BY <3>1, <3>2, <3>4
    <2> QED
      BY <2>2, <2>3
  <1>8. ASSUME NEW j \in N, NEW e \in Dir, NEW c, c = s.kid[j][e], c # Null
        PROVE  c \in N /\ s.parent[c] = j /\ c # s.root
    <2>1. j # k /\ j \in M
      BY <1>2, <1>5, <1>8 DEF Leafed
    <2>2. p # Null /\ s.root = t.root
      BY <1>1, <1>5, <2>1 DEF Leafed
    <2>3. CASE j = p /\ e = Toward(p, k)
      <3>1. c = k
        BY <1>2, <1>5, <1>8, <2>1, <2>3 DEF Leafed
      <3>2. k # t.root
        BY <1>2, <2>1 DEF Linked
      <3> QED
        BY <1>5, <2>2, <2>3, <3>1, <3>2 DEF Leafed
    <2>4. CASE ~ (j = p /\ e = Toward(p, k))
      <3>1. c = t.kid[j][e]
        BY <1>2, <1>5, <1>8, <2>1, <2>4 DEF Leafed
      <3>2. c \in M /\ t.parent[c] = j /\ c # t.root
        BY <1>8, <2>1, <3>1 DEF Linked
      <3> QED
        BY <1>2, <1>5, <2>2, <3>2 DEF Leafed
    <2> QED
      BY <2>3, <2>4
  <1>9. \A j \in Key \ N : \A e \in Dir : s.kid[j][e] = Null
    BY <1>1, <1>2, <1>5 DEF Leafed, Linked
  <1> QED
    BY <1>2, <1>5, <1>6, <1>7, <1>8, <1>9 DEF Linked, Leafed

(* The leaf fits into the span of its parent, on its side. *)
LEMMA LeafedSpans ==
  ASSUME NEW t, NEW M, NEW lo, NEW hi, Linked(t, M), Spans(t, M, lo, hi), NEW k \in Key \ M,
         NEW s, Leafed(s, t, k, Descend(t, k))
  PROVE  \E lo2, hi2 \in [Key -> Nat] : Spans(s, M \cup {k}, lo2, hi2)
  <1> DEFINE p == Descend(t, k)
             d == Toward(p, k)
             N == M \cup {k}
  <1>1. /\ p \in M \cup {Null} /\ (p = Null <=> M = {}) /\ p # k
        /\ p # Null => t.kid[p][d] = Null /\ lo[p] < k /\ k < hi[p]
    BY DescendIs
  <1>2. /\ Null \notin Key /\ M \subseteq Key /\ N \subseteq Key /\ Key \subseteq Nat \ {0}
        /\ lo \in [Key -> Nat] /\ hi \in [Key -> Nat] /\ "left" \in Dir /\ "right" \in Dir
    BY RBTreeAssumption DEF Linked, Null, Spans, Dir
  <1>3. d = IF k < p THEN "left" ELSE "right"
    BY DEF Toward
  <1>4. PICK b \in Nat : \A j \in Key : j < b
    <2>1. [j \in Key |-> j] \in [Key -> Nat]
      BY <1>2
    <2>2. PICK b \in Nat : \A j \in Key : [i \in Key |-> i][j] < b
      BY <2>1, Bounded, RBTreeAssumption
    <2> QED
      BY <2>2
  <1> DEFINE lo2 == [lo EXCEPT ![k] = IF p = Null THEN 0 ELSE IF d = "left" THEN lo[p] ELSE p]
             hi2 == [hi EXCEPT ![k] = IF p = Null THEN b ELSE IF d = "left" THEN p ELSE hi[p]]
  <1>5. Leafed(s, t, k, p)
    OBVIOUS
  <1> HIDE DEF p, d
  <1>6. /\ lo2 \in [Key -> Nat] /\ hi2 \in [Key -> Nat]
        /\ \A j \in M : lo2[j] = lo[j] /\ hi2[j] = hi[j]
        /\ lo2[k] = IF p = Null THEN 0 ELSE IF d = "left" THEN lo[p] ELSE p
        /\ hi2[k] = IF p = Null THEN b ELSE IF d = "left" THEN p ELSE hi[p]
    BY <1>1, <1>2
  <1> HIDE DEF lo2, hi2
  <1>7. \A j \in M : lo[j] < j /\ j < hi[j] /\ j \in Nat /\ lo[j] \in Nat /\ hi[j] \in Nat
    BY <1>2 DEF Spans
  <1>8. /\ \A j \in N : lo2[j] < j /\ j < hi2[j]
        /\ lo2[k] \in Nat /\ hi2[k] \in Nat /\ k \in Nat
    <2>1. lo2[k] < k /\ k < hi2[k] /\ lo2[k] \in Nat /\ hi2[k] \in Nat /\ k \in Nat
      <3>1. CASE p = Null
        BY <1>1, <1>2, <1>4, <1>6, <3>1
      <3>2. CASE p # Null
        BY <1>1, <1>2, <1>3, <1>6, <1>7, <3>2
      <3> QED
        BY <3>1, <3>2
    <2>2. \A j \in M : lo2[j] < j /\ j < hi2[j]
      BY <1>6, <1>7
    <2> QED
      BY <2>1, <2>2
  <1>9. s.root # Null => \A j \in Key : lo2[s.root] < j /\ j < hi2[s.root]
    <2>1. CASE p = Null
      BY <1>2, <1>4, <1>5, <1>6, <2>1 DEF Leafed
    <2>2. CASE p # Null
      BY <1>1, <1>5, <1>6, <2>2 DEF Leafed, Linked, Spans
    <2> QED
      BY <2>1, <2>2
  <1>10. /\ \A j \in M : t.kid[j]["left"] = Null => \A i \in M : ~ (lo[j] < i /\ i < j)
         /\ \A j \in M : t.kid[j]["right"] = Null => \A i \in M : ~ (j < i /\ i < hi[j])
         /\ \A i, j \in M : i # j => Apart(lo, hi, i, j)
    BY DEF Spans
  <1>11. p # Null => \A i \in M : ~ (lo2[k] < i /\ i < hi2[k])
    BY <1>1, <1>3, <1>6, <1>7, <1>10
  <1>12. ASSUME NEW j \in M, j # p PROVE Apart(lo2, hi2, j, k)
    <2>1. p # Null /\ p \in M
      BY <1>1
    <2>2. Apart(lo, hi, j, p) /\ ~ (lo2[k] < j /\ j < hi2[k])
      BY <1>10, <1>11, <1>12, <2>1
    <2> QED
      BY <1>1, <1>3, <1>6, <1>7, <1>8, <2>1, <2>2 DEF Apart
  <1>13. ASSUME NEW j \in M, j = p PROVE Apart(lo2, hi2, j, k)
    BY <1>1, <1>2, <1>3, <1>6, <1>7, <1>8, <1>13 DEF Apart
  <1>14. \A i, j \in N : i # j => Apart(lo2, hi2, i, j)
    <2>1. \A i, j \in M : i # j => Apart(lo2, hi2, i, j)
      BY <1>6, <1>10 DEF Apart
    <2>2. \A j \in M : Apart(lo2, hi2, j, k) /\ Apart(lo2, hi2, k, j)
      BY <1>12, <1>13 DEF Apart
    <2> QED
      BY <2>1, <2>2
  <1>15. ASSUME NEW j \in N, NEW c, c = s.kid[j]["left"]
         PROVE  IF c = Null THEN \A i \in N : ~ (lo2[j] < i /\ i < j) ELSE lo2[c] = lo2[j] /\ hi2[c] = j
    <2>1. CASE j = k
      <3>1. c = Null
        BY <1>2, <1>5, <1>15, <2>1 DEF Leafed
      <3>2. p = Null => M = {}
        BY <1>1
      <3> QED
        BY <1>7, <1>8, <1>11, <2>1, <3>1, <3>2
    <2>2. CASE j = p /\ d = "left" /\ j # k
      <3>1. c = k
        BY <1>2, <1>5, <1>15, <2>2 DEF Leafed, d
      <3> QED
        BY <1>2, <1>6, <2>2, <3>1
    <2>3. CASE ~ (j = p /\ d = "left") /\ j # k
      <3>1. c = t.kid[j]["left"] /\ j \in M
        BY <1>2, <1>5, <1>15, <2>3 DEF Leafed, d
      <3>2. c # Null => c \in M /\ lo[c] = lo[j] /\ hi[c] = j
        BY <1>2, <3>1 DEF Linked, Spans
      <3>3. ASSUME c = Null, lo[j] < k, k < j PROVE FALSE
        <4>1. j # p
          BY <1>2, <1>3, <1>7, <2>3, <3>3
        <4>2. p # Null /\ p \in M /\ Apart(lo, hi, j, p)
          BY <1>1, <1>10, <3>1, <4>1
        <4>3. ~ (lo[j] < p /\ p < j) /\ ~ (lo2[k] < j /\ j < hi2[k])
          BY <1>10, <1>11, <3>1, <3>3, <4>2
        <4> QED
          BY <1>1, <1>3, <1>6, <1>7, <1>8, <3>1, <3>3, <4>2, <4>3 DEF Apart
      <3> QED
        BY <1>6, <1>10, <3>1, <3>2, <3>3
    <2> QED
      BY <2>1, <2>2, <2>3
  <1>16. ASSUME NEW j \in N, NEW c, c = s.kid[j]["right"]
         PROVE  IF c = Null THEN \A i \in N : ~ (j < i /\ i < hi2[j]) ELSE lo2[c] = j /\ hi2[c] = hi2[j]
    <2>1. CASE j = k
      <3>1. c = Null
        BY <1>2, <1>5, <1>16, <2>1 DEF Leafed
      <3>2. p = Null => M = {}
        BY <1>1
      <3> QED
        BY <1>7, <1>8, <1>11, <2>1, <3>1, <3>2
    <2>2. CASE j = p /\ d = "right" /\ j # k
      <3>1. c = k
        BY <1>2, <1>5, <1>16, <2>2 DEF Leafed, d
      <3> QED
        BY <1>2, <1>6, <2>2, <3>1
    <2>3. CASE ~ (j = p /\ d = "right") /\ j # k
      <3>1. c = t.kid[j]["right"] /\ j \in M
        BY <1>2, <1>5, <1>16, <2>3 DEF Leafed, d
      <3>2. c # Null => c \in M /\ lo[c] = j /\ hi[c] = hi[j]
        BY <1>2, <3>1 DEF Linked, Spans
      <3>3. ASSUME c = Null, j < k, k < hi[j] PROVE FALSE
        <4>1. j # p
          BY <1>2, <1>3, <1>7, <2>3, <3>3
        <4>2. p # Null /\ p \in M /\ Apart(lo, hi, j, p)
          BY <1>1, <1>10, <3>1, <4>1
        <4>3. ~ (j < p /\ p < hi[j]) /\ ~ (lo2[k] < j /\ j < hi2[k])
          BY <1>10, <1>11, <3>1, <3>3, <4>2
        <4> QED
          BY <1>1, <1>3, <1>6, <1>7, <1>8, <3>1, <3>3, <4>2, <4>3 DEF Apart
      <3> QED
        BY <1>6, <1>10, <3>1, <3>2, <3>3
    <2> QED
      BY <2>1, <2>2, <2>3
  <1>17. \A j \in N : Ended(N, lo2, hi2, j)
    <2>1. \A j \in M : Ended(M, lo, hi, j)
      BY DEF Spans
    <2>2. CASE p = Null
      <3>1. \A i \in Key : 0 < i
        BY <1>2
      <3> QED
        BY <1>1, <1>4, <1>6, <2>2, <3>1 DEF Ended
    <2>3. CASE p # Null
      BY <1>1, <1>6, <2>1, <2>3 DEF Ended
    <2> QED
      BY <2>2, <2>3
  <1> HIDE DEF N
  <1>18. Spans(s, N, lo2, hi2)
    BY <1>6, <1>8, <1>9, <1>14, <1>15, <1>16, <1>17 DEF Spans
  <1> QED
    BY <1>6, <1>18 DEF N

-----------------------------------------------------------------------------
(* removing *)

(* s is t without z, whose only child c, or none, moves up *)
Dropped(s, t, z, c) ==
  /\ s \in Tree
  /\ s.root = IF z = t.root THEN c ELSE t.root
  /\ \A j \in Key : j # z => s.parent[j] = IF j = c THEN t.parent[z] ELSE t.parent[j]
  /\ \A j \in Key, e \in Dir :
       s.kid[j][e] = IF j = z THEN Null ELSE IF t.kid[j][e] = z THEN c ELSE t.kid[j][e]

(* A node with one child or none that is replaced by it leaves the pointers *)
(* inverse.                                                                 *)
LEMMA DroppedLinked ==
  ASSUME NEW t, NEW M, NEW lo, NEW hi, Linked(t, M), Spans(t, M, lo, hi), NEW z \in M,
         NEW d \in Dir, t.kid[z][Opp(d)] = Null, NEW s, Dropped(s, t, z, t.kid[z][d])
  PROVE  Linked(s, M \ {z})
  <1> DEFINE N == M \ {z}
  <1>1. PICK c, q : c = t.kid[z][d] /\ q = t.parent[z]
    OBVIOUS
  <1>2. Null \notin Key /\ M \subseteq Key /\ N \subseteq Key /\ z \in Key
    BY RBTreeAssumption DEF Linked
  <1>3. \A e \in Dir : e = d \/ e = Opp(d)
    BY DEF Dir, Opp
  <1>4. /\ c \in M \cup {Null} /\ c # z /\ (c # Null => t.parent[c] = z /\ c # t.root)
        /\ \A e \in Dir : c # Null => t.kid[c][e] # z
    BY <1>1, <1>2, ChildIs DEF Linked
  <1>5. /\ q = Null <=> z = t.root
        /\ z # t.root => q \in M /\ q # z /\ \E e \in Dir : t.kid[q][e] = z
    BY <1>1, <1>2, ParentIs
  <1>6. /\ s \in Tree /\ s.root = IF z = t.root THEN c ELSE t.root
        /\ \A j \in N : s.parent[j] = IF j = c THEN q ELSE t.parent[j]
        /\ \A j \in N, e \in Dir : s.kid[j][e] = IF t.kid[j][e] = z THEN c ELSE t.kid[j][e]
        /\ \A e \in Dir : s.kid[z][e] = Null
    BY <1>1, <1>2 DEF Dropped
  <1>7. t.root \in M /\ t.parent[t.root] = Null
    BY <1>2 DEF Linked
  <1>8. \A j \in N : t.parent[j] = z => j = c
    <2> SUFFICES ASSUME NEW j \in N, t.parent[j] = z PROVE j = c
      OBVIOUS
    <2>1. j # t.root
      BY <1>2, <1>7
    <2>2. PICK e \in Dir : t.kid[z][e] = j
      BY <2>1 DEF Linked
    <2> QED
      BY <1>1, <1>2, <1>3, <2>2
  <1>9. s.root = Null => N = {}
    <2> SUFFICES ASSUME s.root = Null, NEW j \in N PROVE FALSE
      OBVIOUS
    <2>1. z = t.root /\ c = Null
      BY <1>2, <1>6, <1>7
    <2>2. lo[z] < j /\ j < hi[z] /\ lo \in [Key -> Nat] /\ hi \in [Key -> Nat] /\ Key \subseteq Nat
      BY <1>2, <2>1, RBTreeAssumption DEF Spans
    <2>3. t.kid[z]["left"] = Null /\ t.kid[z]["right"] = Null
      BY <1>1, <1>3, <2>1 DEF Dir
    <2>4. ~ (lo[z] < j /\ j < z) /\ ~ (z < j /\ j < hi[z])
      BY <2>3 DEF Spans
    <2> QED
      BY <1>2, <2>2, <2>4
  <1>10. s.root # Null => s.root \in N /\ s.parent[s.root] = Null
    <2>1. CASE z = t.root
      BY <1>4, <1>5, <1>6, <2>1
    <2>2. CASE z # t.root
      BY <1>2, <1>4, <1>6, <1>7, <2>2
    <2> QED
      BY <2>1, <2>2
  <1>11. ASSUME NEW j \in N, j # s.root
         PROVE  s.parent[j] \in N /\ \E e \in Dir : s.kid[s.parent[j]][e] = j
    <2>1. CASE j = c
      <3>1. z # t.root
        BY <1>6, <1>11, <2>1
      <3>2. PICK e \in Dir : q \in N /\ t.kid[q][e] = z
        BY <1>5, <3>1
      <3>3. s.parent[j] = q /\ s.kid[q][e] = c
        BY <1>6, <1>11, <2>1, <3>2
      <3> QED
        BY <2>1, <3>2, <3>3
    <2>2. CASE j # c
      <3>1. j # t.root
        BY <1>6, <1>11
      <3>2. PICK e \in Dir : t.parent[j] \in M /\ t.kid[t.parent[j]][e] = j
        BY <1>11, <3>1 DEF Linked
      <3>3. t.parent[j] \in N
        BY <1>8, <1>11, <2>2, <3>2
      <3>4. s.parent[j] = t.parent[j] /\ s.kid[t.parent[j]][e] = j
        BY <1>6, <1>11, <2>2, <3>2, <3>3
      <3> QED
        BY <3>3, <3>4
    <2> QED
      BY <2>1, <2>2
  <1>12. ASSUME NEW j \in N, NEW e \in Dir, NEW i, i = s.kid[j][e], i # Null
         PROVE  i \in N /\ s.parent[i] = j /\ i # s.root
    <2>1. CASE t.kid[j][e] = z
      <3>1. i = c /\ c \in N
        BY <1>4, <1>6, <1>12, <2>1
      <3>2. j = q /\ z # t.root
        BY <1>1, <1>2, <2>1 DEF Linked
      <3>3. s.parent[c] = q /\ s.root = t.root
        BY <1>6, <3>1, <3>2
      <3> QED
        BY <1>4, <1>12, <3>1, <3>2, <3>3
    <2>2. CASE t.kid[j][e] # z
      <3>1. i = t.kid[j][e]
        BY <1>6, <1>12, <2>2
      <3>2. i \in N /\ t.parent[i] = j /\ i # t.root
        BY <1>12, <2>2, <3>1 DEF Linked
      <3>3. i # c
        BY <1>4, <1>12, <3>2
      <3> QED
        BY <1>6, <3>2, <3>3
    <2> QED
      BY <2>1, <2>2
  <1>13. ASSUME NEW j \in Key \ N, NEW e \in Dir PROVE s.kid[j][e] = Null
    <2>1. CASE j = z
      BY <1>6, <2>1
    <2>2. CASE j # z
      <3>1. t.kid[j][e] = Null
        BY <2>2 DEF Linked
      <3> QED
        BY <1>2, <2>2, <3>1 DEF Dropped
    <2> QED
      BY <2>1, <2>2
  <1>14. s.root = Null <=> N = {}
    BY <1>9, <1>10
  <1> HIDE DEF N
  <1>15. Linked(s, N)
    BY <1>2, <1>6, <1>10, <1>11, <1>12, <1>13, <1>14 DEF Linked
  <1> QED
    BY <1>15 DEF N

(* The child that moves up inherits the span, and the other nodes that were *)
(* bounded by the one unlinked are bounded by its own bound.                *)
LEMMA DroppedSpans ==
  ASSUME NEW t, NEW M, NEW lo, NEW hi, Linked(t, M), Spans(t, M, lo, hi), NEW z \in M,
         NEW d \in Dir, t.kid[z][Opp(d)] = Null, NEW s, Dropped(s, t, z, t.kid[z][d])
  PROVE  \E lo2, hi2 \in [Key -> Nat] : Spans(s, M \ {z}, lo2, hi2)
  <1> DEFINE N == M \ {z}
             lo2 == [j \in Key |-> IF lo[j] = z THEN lo[z] ELSE lo[j]]
             hi2 == [j \in Key |-> IF hi[j] = z THEN hi[z] ELSE hi[j]]
  <1>1. PICK c : c = t.kid[z][d]
    OBVIOUS
  <1>2. /\ Null \notin Key /\ M \subseteq Key /\ N \subseteq Key /\ z \in Key /\ Key \subseteq Nat
        /\ lo \in [Key -> Nat] /\ hi \in [Key -> Nat] /\ "left" \in Dir /\ "right" \in Dir
    BY RBTreeAssumption DEF Linked, Spans, Dir
  <1>3. /\ lo2 \in [Key -> Nat] /\ hi2 \in [Key -> Nat]
        /\ \A j \in M : lo2[j] = IF lo[j] = z THEN lo[z] ELSE lo[j]
        /\ \A j \in M : hi2[j] = IF hi[j] = z THEN hi[z] ELSE hi[j]
    BY <1>2
  <1> HIDE DEF lo2, hi2
  <1>4. \A j \in M : lo[j] < j /\ j < hi[j] /\ j \in Nat /\ lo[j] \in Nat /\ hi[j] \in Nat /\ j # Null
    BY <1>2 DEF Spans
  <1>5. /\ \A j \in M : t.kid[j]["left"] = Null => \A i \in M : ~ (lo[j] < i /\ i < j)
        /\ \A j \in M : t.kid[j]["right"] = Null => \A i \in M : ~ (j < i /\ i < hi[j])
        /\ \A i, j \in M : i # j => Apart(lo, hi, i, j)
        /\ \A j \in M : t.kid[j]["left"] # Null =>
             lo[t.kid[j]["left"]] = lo[j] /\ hi[t.kid[j]["left"]] = j
        /\ \A j \in M : t.kid[j]["right"] # Null =>
             lo[t.kid[j]["right"]] = j /\ hi[t.kid[j]["right"]] = hi[j]
    BY DEF Spans
  <1>6. \A j \in M, e \in Dir : t.kid[j][e] # Null => t.kid[j][e] \in M /\ t.parent[t.kid[j][e]] = j
    BY DEF Linked
  <1>7. c = Null \/ c \in N
    BY <1>1, <1>2, <1>6, ChildIs
  <1>8. /\ s.root = IF z = t.root THEN c ELSE t.root
        /\ \A j \in N, e \in Dir : s.kid[j][e] = IF t.kid[j][e] = z THEN c ELSE t.kid[j][e]
    BY <1>1, <1>2 DEF Dropped
  (* z has no left child, or no right one *)
  <1>9. \/ d = "right" /\ t.kid[z]["left"] = Null /\ (c # Null => lo[c] = z /\ hi[c] = hi[z])
           /\ t.kid[z]["right"] = c
        \/ d = "left" /\ t.kid[z]["right"] = Null /\ (c # Null => lo[c] = lo[z] /\ hi[c] = z)
           /\ t.kid[z]["left"] = c
    BY <1>1, <1>4, <1>5 DEF Dir, Opp
  <1>10. /\ d = "right" => \A j \in N : hi[j] # z
         /\ d = "left" => \A j \in N : lo[j] # z
    <2>1. \A j \in N : Apart(lo, hi, j, z)
      BY <1>5
    <2> QED
      BY <1>4, <1>5, <1>9, <2>1 DEF Apart
  <1>11. c # Null => lo2[c] = lo[z] /\ hi2[c] = hi[z]
    BY <1>3, <1>4, <1>7, <1>9, <1>10
  <1>12. c = Null => \A i \in N : ~ (lo[z] < i /\ i < hi[z])
    BY <1>4, <1>5, <1>9
  <1>13. \A j \in N : lo2[j] < j /\ j < hi2[j] /\ lo2[j] \in Nat /\ hi2[j] \in Nat
                    /\ lo2[j] # z /\ hi2[j] # z
    <2>1. \A j \in N : Apart(lo, hi, j, z)
      BY <1>5
    <2> QED
      BY <1>3, <1>4, <2>1 DEF Apart
  <1>14. s.root # Null => \A j \in Key : lo2[s.root] < j /\ j < hi2[s.root]
    <2>1. t.root \in M /\ \A j \in Key : lo[t.root] < j /\ j < hi[t.root]
      BY <1>2 DEF Linked, Spans
    <2>2. CASE z = t.root
      BY <1>8, <1>11, <2>1, <2>2
    <2>3. CASE z # t.root
      <3>1. lo[t.root] # z /\ hi[t.root] # z
        BY <1>2, <1>4, <2>1
      <3> QED
        BY <1>3, <1>8, <2>1, <2>3, <3>1
    <2> QED
      BY <2>2, <2>3
  <1>15. \A j \in N : Ended(N, lo2, hi2, j)
    <2>1. \A j \in M : Ended(M, lo, hi, j)
      BY DEF Spans
    <2> QED
      BY <1>3, <1>4, <1>13, <2>1 DEF Ended
  <1>16. \A i, j \in N : i # j => Apart(lo2, hi2, i, j)
    <2> SUFFICES ASSUME NEW i \in N, NEW j \in N, i # j PROVE Apart(lo2, hi2, i, j)
      OBVIOUS
    <2>1. Apart(lo, hi, i, j) /\ Apart(lo, hi, i, z) /\ Apart(lo, hi, j, z)
      BY <1>5
    <2>2. /\ d = "right" => ~ (lo[z] < i /\ i < z) /\ ~ (lo[z] < j /\ j < z) /\ hi[i] # z /\ hi[j] # z
          /\ d = "left" => ~ (z < i /\ i < hi[z]) /\ ~ (z < j /\ j < hi[z]) /\ lo[i] # z /\ lo[j] # z
      BY <1>5, <1>9, <1>10
    <2>3. /\ lo2[i] = (IF lo[i] = z THEN lo[z] ELSE lo[i]) /\ hi2[i] = (IF hi[i] = z THEN hi[z] ELSE hi[i])
          /\ lo2[j] = (IF lo[j] = z THEN lo[z] ELSE lo[j]) /\ hi2[j] = (IF hi[j] = z THEN hi[z] ELSE hi[j])
      BY <1>3
    <2>4. \A k \in {i, j, z} : lo[k] < k /\ k < hi[k] /\ k \in Nat /\ lo[k] \in Nat /\ hi[k] \in Nat
      BY <1>4
    <2>5. CASE d = "right"
      BY <2>1, <2>2, <2>3, <2>4, <2>5 DEF Apart
    <2>6. CASE d = "left"
      BY <2>1, <2>2, <2>3, <2>4, <2>6 DEF Apart
    <2> QED
      BY <2>5, <2>6 DEF Dir
  <1>17. ASSUME NEW j \in N, NEW b, b = s.kid[j]["left"]
         PROVE  IF b = Null THEN \A i \in N : ~ (lo2[j] < i /\ i < j) ELSE lo2[b] = lo2[j] /\ hi2[b] = j
    <2>1. CASE t.kid[j]["left"] = z
      <3>1. b = c /\ lo[z] = lo[j] /\ hi[z] = j
        BY <1>2, <1>4, <1>5, <1>8, <1>17, <2>1
      <3>2. lo2[j] = lo[j]
        BY <1>3, <1>4, <3>1
      <3> QED
        BY <1>11, <1>12, <3>1, <3>2
    <2>2. CASE t.kid[j]["left"] # z
      <3>1. b = t.kid[j]["left"]
        BY <1>2, <1>8, <1>17, <2>2
      <3>2. CASE b = Null
        <4>1. \A i \in N : ~ (lo[j] < i /\ i < j)
          BY <1>5, <3>1, <3>2
        <4>2. lo[j] = z => d = "right" /\ \A i \in N : ~ (lo[z] < i /\ i < z)
          BY <1>5, <1>9, <1>10
        <4> QED
          BY <1>3, <1>4, <3>2, <4>1, <4>2
      <3>3. CASE b # Null
        <4>1. b \in N
          BY <1>2, <1>6, <2>2, <3>1, <3>3
        <4>2. lo[b] = lo[j] /\ hi[b] = j
          BY <1>5, <3>1, <3>3
        <4> QED
          BY <1>3, <3>3, <4>1, <4>2
      <3> QED
        BY <3>2, <3>3
    <2> QED
      BY <2>1, <2>2
  <1>18. ASSUME NEW j \in N, NEW b, b = s.kid[j]["right"]
         PROVE  IF b = Null THEN \A i \in N : ~ (j < i /\ i < hi2[j]) ELSE lo2[b] = j /\ hi2[b] = hi2[j]
    <2>1. CASE t.kid[j]["right"] = z
      <3>1. b = c /\ lo[z] = j /\ hi[z] = hi[j]
        BY <1>2, <1>4, <1>5, <1>8, <1>18, <2>1
      <3>2. hi2[j] = hi[j]
        BY <1>3, <1>4, <3>1
      <3> QED
        BY <1>11, <1>12, <3>1, <3>2
    <2>2. CASE t.kid[j]["right"] # z
      <3>1. b = t.kid[j]["right"]
        BY <1>2, <1>8, <1>18, <2>2
      <3>2. CASE b = Null
        <4>1. \A i \in N : ~ (j < i /\ i < hi[j])
          BY <1>5, <3>1, <3>2
        <4>2. hi[j] = z => d = "left" /\ \A i \in N : ~ (z < i /\ i < hi[z])
          BY <1>5, <1>9, <1>10
        <4> QED
          BY <1>3, <1>4, <3>2, <4>1, <4>2
      <3>3. CASE b # Null
        <4>1. b \in N
          BY <1>2, <1>6, <2>2, <3>1, <3>3
        <4>2. lo[b] = j /\ hi[b] = hi[j]
          BY <1>5, <3>1, <3>3
        <4> QED
          BY <1>3, <3>3, <4>1, <4>2
      <3> QED
        BY <3>2, <3>3
    <2> QED
      BY <2>1, <2>2
  <1> HIDE DEF N
  <1>19. Spans(s, N, lo2, hi2)
    BY <1>3, <1>13, <1>14, <1>15, <1>16, <1>17, <1>18 DEF Spans
  <1> QED
    BY <1>3, <1>19 DEF N

(* s is t with the node y in the place of z *)
Old(z, y, j) == IF j = y THEN z ELSE j
New(z, y, i) == IF i = z THEN y ELSE i
Renamed(s, t, N, z, y) ==
  /\ s \in Tree
  /\ s.root = New(z, y, t.root)
  /\ \A j \in N : s.parent[j] = New(z, y, t.parent[Old(z, y, j)])
  /\ \A j \in Key, e \in Dir :
       s.kid[j][e] = IF j = z THEN Null ELSE New(z, y, t.kid[Old(z, y, j)][e])

(* A node y in the place of z leaves the pointers inverse. *)
LEMMA RenamedLinked ==
  ASSUME NEW t, NEW M, NEW lo, NEW hi, Linked(t, M), Spans(t, M, lo, hi), NEW z \in M,
         NEW y \in Key \ M, NEW s, Renamed(s, t, (M \ {z}) \cup {y}, z, y)
  PROVE  Linked(s, (M \ {z}) \cup {y})
  <1> DEFINE N == (M \ {z}) \cup {y}
             old(j) == Old(z, y, j)
             new(i) == New(z, y, i)
  <1>1. Null \notin Key /\ M \subseteq Key /\ N \subseteq Key /\ z \in Key /\ z # y
    BY RBTreeAssumption DEF Linked
  <1>2. /\ \A j \in N : old(j) \in M /\ new(old(j)) = j
        /\ \A i \in M : new(i) \in N /\ old(new(i)) = i
        /\ new(Null) = Null
        /\ \A i \in M \cup {Null} : new(i) = Null => i = Null
    BY <1>1 DEF Old, New
  <1>3. /\ s \in Tree /\ s.root = new(t.root)
        /\ \A j \in N : s.parent[j] = new(t.parent[old(j)])
        /\ \A j \in N, e \in Dir : s.kid[j][e] = new(t.kid[old(j)][e])
    BY <1>1 DEF Renamed
  <1>4. /\ t.root \in M /\ t.parent[t.root] = Null
        /\ \A i \in M : i # t.root => t.parent[i] \in M /\ \E e \in Dir : t.kid[t.parent[i]][e] = i
        /\ \A i \in M, e \in Dir : t.kid[i][e] # Null =>
              t.kid[i][e] \in M /\ t.parent[t.kid[i][e]] = i /\ t.kid[i][e] # t.root
    <2>1. t.root # Null
      BY DEF Linked
    <2> QED
      BY <2>1 DEF Linked
  <1>5. \A j \in Key \ N : \A e \in Dir : s.kid[j][e] = Null
    <2> SUFFICES ASSUME NEW j \in Key \ N, NEW e \in Dir, j # z PROVE s.kid[j][e] = Null
      BY DEF Renamed
    <2>1. j \notin M /\ Old(z, y, j) = j
      BY DEF Old
    <2>2. t.kid[j][e] = Null
      BY <2>1 DEF Linked
    <2> QED
      BY <1>1, <2>1, <2>2 DEF Renamed, New
  <1> HIDE DEF N, old, new
  <1>6. s.root \in N /\ s.root # Null /\ s.parent[s.root] = Null
    BY <1>1, <1>2, <1>3, <1>4
  <1>7. ASSUME NEW j \in N, j # s.root
        PROVE  s.parent[j] \in N /\ \E e \in Dir : s.kid[s.parent[j]][e] = j
    <2>1. old(j) \in M /\ old(j) # t.root /\ new(old(j)) = j
      BY <1>2, <1>3, <1>7
    <2>a. PICK i : i = t.parent[old(j)]
      OBVIOUS
    <2>2. PICK e \in Dir : i = t.parent[old(j)] /\ i \in M /\ t.kid[i][e] = old(j)
      BY <1>4, <2>1, <2>a
    <2>3. s.parent[j] = new(i) /\ new(i) \in N /\ old(new(i)) = i
      BY <1>2, <1>3, <2>2
    <2>4. s.kid[new(i)][e] = new(t.kid[i][e])
      BY <1>3, <2>3
    <2> QED
      BY <2>1, <2>2, <2>3, <2>4
  <1>8. ASSUME NEW j \in N, NEW e \in Dir, s.kid[j][e] # Null
        PROVE  s.kid[j][e] \in N /\ s.parent[s.kid[j][e]] = j /\ s.kid[j][e] # s.root
    <2>1. PICK i, c : i = old(j) /\ c = t.kid[i][e]
      OBVIOUS
    <2>2. i \in M /\ new(i) = j /\ s.kid[j][e] = new(c)
      BY <1>2, <1>3, <2>1
    <2>3. c # Null
      BY <1>2, <1>8, <2>2
    <2>4. c \in M /\ t.parent[c] = i /\ c # t.root
      BY <1>4, <2>1, <2>2, <2>3
    <2>5. new(c) \in N /\ old(new(c)) = c /\ s.parent[new(c)] = new(i)
      BY <1>2, <1>3, <2>4
    <2>6. new(c) # s.root
      BY <1>2, <1>3, <1>4, <2>4
    <2> QED
      BY <2>2, <2>5, <2>6
  <1>9. Linked(s, N)
    BY <1>1, <1>3, <1>5, <1>6, <1>7, <1>8 DEF Linked
  <1> QED
    BY <1>9 DEF N

(* A key y that is on the same side of every other key as z fits into the   *)
(* span of z.                                                               *)
LEMMA RenamedSpans ==
  ASSUME NEW t, NEW M, NEW lo, NEW hi, Linked(t, M), Spans(t, M, lo, hi), NEW z \in M,
         NEW y \in Key \ M, \A j \in M \ {z} : j < z <=> j < y, NEW s, Renamed(s, t, (M \ {z}) \cup {y}, z, y)
  PROVE  \E lo2, hi2 \in [Key -> Nat] : Spans(s, (M \ {z}) \cup {y}, lo2, hi2)
  <1> DEFINE N == (M \ {z}) \cup {y}
             old(j) == Old(z, y, j)
             new(i) == New(z, y, i)
             lo2 == [j \in Key |-> new(lo[old(j)])]
             hi2 == [j \in Key |-> new(hi[old(j)])]
             A == M \cup {lo[i] : i \in M} \cup {hi[i] : i \in M}
  <1>1. /\ Null \notin Key /\ M \subseteq Key /\ N \subseteq Key /\ z \in Key /\ z # y /\ Key \subseteq Nat
        /\ lo \in [Key -> Nat] /\ hi \in [Key -> Nat] /\ "left" \in Dir /\ "right" \in Dir
    BY RBTreeAssumption DEF Linked, Spans, Dir
  <1>2. /\ \A j \in N : old(j) \in M /\ new(old(j)) = j
        /\ \A i \in M : new(i) \in N /\ old(new(i)) = i
        /\ new(Null) = Null
        /\ \A i \in M \cup {Null} : new(i) = Null => i = Null
    BY <1>1 DEF Old, New
  <1>3. /\ s.root = new(t.root)
        /\ \A j \in N, e \in Dir : s.kid[j][e] = new(t.kid[old(j)][e])
    BY <1>1 DEF Renamed
  <1>4. /\ lo2 \in [Key -> Nat] /\ hi2 \in [Key -> Nat]
        /\ \A j \in N : lo2[j] = new(lo[old(j)]) /\ hi2[j] = new(hi[old(j)])
    <2>1. \A j \in Key : old(j) \in Key
      BY <1>1 DEF Old
    <2>2. \A i \in Nat : new(i) \in Nat
      BY <1>1 DEF New
    <2> HIDE DEF old, new
    <2> QED
      BY <1>1, <2>1, <2>2
  <1> HIDE DEF lo2, hi2
  <1>5. \A a \in A : a \in Nat /\ a # y /\ (a # z => (a < z <=> a < y))
    <2>1. \A i \in M : i \in Nat /\ i # y /\ (i # z => (i < z <=> i < y))
      BY <1>1
    <2>2. \A i \in M : Ended(M, lo, hi, i) /\ lo[i] \in Nat /\ hi[i] \in Nat
      BY <1>1 DEF Spans
    <2>3. \A i \in M : LET a == lo[i] IN a \in Nat /\ a # y /\ (a # z => (a < z <=> a < y))
      <3> SUFFICES ASSUME NEW i \in M PROVE LET a == lo[i] IN a \in Nat /\ a # y /\ (a # z => (a < z <=> a < y))
        OBVIOUS
      <3>1. lo[i] \in M \/ (lo[i] < z /\ lo[i] < y)
        BY <1>1, <2>2 DEF Ended
      <3> QED
        BY <1>1, <2>1, <2>2, <3>1
    <2>4. \A i \in M : LET a == hi[i] IN a \in Nat /\ a # y /\ (a # z => (a < z <=> a < y))
      <3> SUFFICES ASSUME NEW i \in M PROVE LET a == hi[i] IN a \in Nat /\ a # y /\ (a # z => (a < z <=> a < y))
        OBVIOUS
      <3>1. hi[i] \in M \/ (z < hi[i] /\ y < hi[i])
        BY <1>1, <2>2 DEF Ended
      <3> QED
        BY <1>1, <2>1, <2>2, <3>1
    <2> QED
      BY <2>1, <2>3, <2>4
  <1>6. \A a, b \in A : (a < b <=> new(a) < new(b)) /\ (a <= b <=> new(a) <= new(b)) /\ new(a) \in Nat
    BY <1>1, <1>5 DEF New
  <1>7. \A i \in M : i \in A /\ lo[i] \in A /\ hi[i] \in A
    OBVIOUS
  <1>8. \A i \in M : lo[i] < i /\ i < hi[i]
    BY DEF Spans
  <1>9. t.root \in M /\ \A k \in Key : lo[t.root] < k /\ k < hi[t.root]
    <2>1. t.root # Null
      BY DEF Linked
    <2> QED
      BY <2>1 DEF Linked, Spans
  <1>10. \A i \in M, e \in Dir : t.kid[i][e] \in M \cup {Null}
    BY DEF Linked
  <1>11. /\ \A j \in M : t.kid[j]["left"] = Null => \A i \in M : ~ (lo[j] < i /\ i < j)
         /\ \A j \in M : t.kid[j]["right"] = Null => \A i \in M : ~ (j < i /\ i < hi[j])
         /\ \A i, j \in M : i # j => Apart(lo, hi, i, j)
         /\ \A j \in M : t.kid[j]["left"] # Null =>
              lo[t.kid[j]["left"]] = lo[j] /\ hi[t.kid[j]["left"]] = j
         /\ \A j \in M : t.kid[j]["right"] # Null =>
              lo[t.kid[j]["right"]] = j /\ hi[t.kid[j]["right"]] = hi[j]
    BY DEF Spans
  <1>12. \A k \in Key : lo2[s.root] < k /\ k < hi2[s.root]
    <2>1. lo2[s.root] = new(lo[t.root]) /\ hi2[s.root] = new(hi[t.root])
      BY <1>2, <1>3, <1>4, <1>9
    <2>2. new(lo[t.root]) = lo[t.root] /\ new(hi[t.root]) = hi[t.root]
      BY <1>1, <1>9 DEF New
    <2> QED
      BY <1>9, <2>1, <2>2
  <1>13. \A j \in N : Ended(N, lo2, hi2, j)
    <2> SUFFICES ASSUME NEW j \in N PROVE Ended(N, lo2, hi2, j)
      OBVIOUS
    <2>1. Ended(M, lo, hi, old(j))
      BY <1>2 DEF Spans
    <2>2. \A a \in A : a \in M => new(a) \in N
      BY <1>2
    <2>3. \A a \in A : a \notin M => new(a) = a
      BY DEF New
    <2>4. lo[old(j)] \in A /\ hi[old(j)] \in A /\ lo2[j] = new(lo[old(j)]) /\ hi2[j] = new(hi[old(j)])
      BY <1>2, <1>4, <1>7
    <2> HIDE DEF A, old, new, N
    <2> QED
      BY <2>1, <2>2, <2>3, <2>4 DEF Ended
  <1> HIDE DEF N, old, new, A
  <1>14. \A j \in N : lo2[j] < j /\ j < hi2[j]
    BY <1>2, <1>4, <1>6, <1>7, <1>8
  <1>15. \A i, j \in N : i # j => Apart(lo2, hi2, i, j)
    <2> SUFFICES ASSUME NEW i \in N, NEW j \in N, i # j PROVE Apart(lo2, hi2, i, j)
      OBVIOUS
    <2>1. PICK a, b : a = old(i) /\ b = old(j)
      OBVIOUS
    <2>2. a \in M /\ b \in M /\ new(a) = i /\ new(b) = j /\ a # b
      BY <1>2, <2>1
    <2>3. Apart(lo, hi, a, b)
      BY <1>11, <2>2
    <2>4. /\ lo2[i] = new(lo[a]) /\ hi2[i] = new(hi[a]) /\ lo2[j] = new(lo[b]) /\ hi2[j] = new(hi[b])
          /\ a \in A /\ b \in A /\ lo[a] \in A /\ lo[b] \in A /\ hi[a] \in A /\ hi[b] \in A
      BY <1>4, <1>7, <2>1, <2>2
    <2>5. /\ hi[a] <= lo[b] <=> hi2[i] <= lo2[j]
          /\ hi[b] <= lo[a] <=> hi2[j] <= lo2[i]
          /\ lo[b] <= lo[a] <=> lo2[j] <= lo2[i]
          /\ lo[a] <= lo[b] <=> lo2[i] <= lo2[j]
          /\ hi[a] <= hi[b] <=> hi2[i] <= hi2[j]
          /\ hi[b] <= hi[a] <=> hi2[j] <= hi2[i]
          /\ hi[a] <= b <=> hi2[i] <= j
          /\ hi[b] <= a <=> hi2[j] <= i
          /\ b <= lo[a] <=> j <= lo2[i]
          /\ a <= lo[b] <=> i <= lo2[j]
      BY <1>6, <2>2, <2>4
    <2> QED
      BY <2>3, <2>5 DEF Apart
  <1>16. ASSUME NEW j \in N, NEW c, c = s.kid[j]["left"]
         PROVE  IF c = Null THEN \A i \in N : ~ (lo2[j] < i /\ i < j) ELSE lo2[c] = lo2[j] /\ hi2[c] = j
    <2>1. PICK a, b : a = old(j) /\ b = t.kid[a]["left"]
      OBVIOUS
    <2>2. a \in M /\ new(a) = j /\ c = new(b) /\ lo2[j] = new(lo[a])
      BY <1>1, <1>2, <1>3, <1>4, <1>16, <2>1
    <2>3. b \in M \cup {Null}
      BY <1>1, <1>10, <2>1, <2>2
    <2>4. CASE b = Null
      <3>1. c = Null
        BY <1>2, <2>2, <2>4
      <3>2. ASSUME NEW i \in N PROVE ~ (lo2[j] < i /\ i < j)
        <4>1. old(i) \in M /\ new(old(i)) = i
          BY <1>2
        <4>2. ~ (lo[a] < old(i) /\ old(i) < a)
          BY <1>11, <2>1, <2>2, <2>4, <4>1
        <4> QED
          BY <1>6, <1>7, <2>2, <4>1, <4>2
      <3> QED
        BY <3>1, <3>2
    <2>5. CASE b # Null
      <3>1. b \in M /\ lo[b] = lo[a] /\ hi[b] = a
        BY <1>11, <2>1, <2>2, <2>3, <2>5
      <3>2. c \in N /\ old(c) = b /\ c # Null
        BY <1>1, <1>2, <2>2, <3>1
      <3> QED
        BY <1>4, <2>2, <3>1, <3>2
    <2> QED
      BY <2>4, <2>5
  <1>17. ASSUME NEW j \in N, NEW c, c = s.kid[j]["right"]
         PROVE  IF c = Null THEN \A i \in N : ~ (j < i /\ i < hi2[j]) ELSE lo2[c] = j /\ hi2[c] = hi2[j]
    <2>1. PICK a, b : a = old(j) /\ b = t.kid[a]["right"]
      OBVIOUS
    <2>2. a \in M /\ new(a) = j /\ c = new(b) /\ hi2[j] = new(hi[a])
      BY <1>1, <1>2, <1>3, <1>4, <1>17, <2>1
    <2>3. b \in M \cup {Null}
      BY <1>1, <1>10, <2>1, <2>2
    <2>4. CASE b = Null
      <3>1. c = Null
        BY <1>2, <2>2, <2>4
      <3>2. ASSUME NEW i \in N PROVE ~ (j < i /\ i < hi2[j])
        <4>1. old(i) \in M /\ new(old(i)) = i
          BY <1>2
        <4>2. ~ (a < old(i) /\ old(i) < hi[a])
          BY <1>11, <2>1, <2>2, <2>4, <4>1
        <4> QED
          BY <1>6, <1>7, <2>2, <4>1, <4>2
      <3> QED
        BY <3>1, <3>2
    <2>5. CASE b # Null
      <3>1. b \in M /\ lo[b] = a /\ hi[b] = hi[a]
        BY <1>11, <2>1, <2>2, <2>3, <2>5
      <3>2. c \in N /\ old(c) = b /\ c # Null
        BY <1>1, <1>2, <2>2, <3>1
      <3> QED
        BY <1>4, <2>2, <3>1, <3>2
    <2> QED
      BY <2>4, <2>5
  <1>18. Spans(s, N, lo2, hi2)
    BY <1>4, <1>12, <1>13, <1>14, <1>15, <1>16, <1>17 DEF Spans
  <1> QED
    BY <1>4, <1>18 DEF N

-----------------------------------------------------------------------------
(* A node is pointed to by its parent, on its side, and by no other node.   *)
LEMMA PointsTo ==
  ASSUME NEW t, NEW M, NEW lo, NEW hi, Linked(t, M), Spans(t, M, lo, hi), NEW n \in M
  PROVE  \A k \in Key, e \in Dir : t.kid[k][e] = n <=> (k = t.parent[n] /\ e = Side(t, n))
  <1>0. Null \notin Key /\ M \subseteq Key /\ n # Null
    BY RBTreeAssumption DEF Linked
  <1>1. t.parent[n] \in Key => t.kid[t.parent[n]][Side(t, n)] = n /\ t.kid[t.parent[n]][Opp(Side(t, n))] # n
    BY <1>0, ParentIs
  <1>2. \A e \in Dir : e # Side(t, n) => e = Opp(Side(t, n))
    BY DEF Side, Opp, Dir
  <1> SUFFICES ASSUME NEW k \in Key, NEW e \in Dir, t.kid[k][e] = n
               PROVE  k = t.parent[n] /\ e = Side(t, n)
    BY <1>1
  <1>3. k \in M
    BY <1>0 DEF Linked
  <1>4. k = t.parent[n]
    BY <1>0, <1>3 DEF Linked
  <1> QED
    BY <1>1, <1>2, <1>4

(* subtree_min finds the node below n without a left child and with the     *)
(* lower bound of n.                                                        *)
LEMMA MinIs ==
  ASSUME NEW t, NEW M, NEW lo, NEW hi, Linked(t, M), Spans(t, M, lo, hi), NEW n \in M
  PROVE  LET y == SubtreeMin(t, n)
         IN y \in M /\ t.kid[y]["left"] = Null /\ lo[y] = lo[n] /\ y < hi[n]
  <1> DEFINE next == [m \in Key |-> t.kid[m]["left"]]
             base == [m \in Key |-> m]
             add == [m \in Key |-> 0]
             body(f) == [m \in Key |-> IF t.kid[m]["left"] = Null THEN m ELSE f[t.kid[m]["left"]]]
             min == CHOOSE f : f = body(f)
  <1>0. /\ Null \notin Key /\ M \subseteq Key /\ t \in Tree /\ Key \subseteq Nat /\ "left" \in Dir
        /\ \A m \in M : m < hi[m] /\ hi[m] \in Nat
    BY RBTreeAssumption DEF Linked, Dir, Spans
  <1>1. Down(t, next)
    <2>1. \A m \in Key : t.kid[m]["left"] \in Node
      BY <1>0 DEF Tree, Node
    <2> QED
      BY <1>0, <2>1 DEF Down
  <1>2. PICK W \in [Key -> Nat] : Ends(next, W)
    BY <1>1, DownEnds
  <1>3. PICK b, a : b = base /\ a = add
    OBVIOUS
  <1>4. b \in [Key -> Nat] /\ a \in [Key -> Nat]
    <2>1. base \in [Key -> Nat]
      BY <1>0
    <2>2. add \in [Key -> Nat]
      OBVIOUS
    <2> HIDE DEF base, add
    <2> QED
      BY <1>3, <2>1, <2>2
  <1> HIDE DEF base, add
  <1>c. \A m \in Key : b[m] = m /\ a[m] = 0
    BY <1>3 DEF base, add
  <1>5. b \in [Key -> Nat] /\ a \in [Key -> Nat] /\ \A m \in Key : b[m] = m /\ a[m] = 0
    BY <1>4, <1>c
  <1>6. PICK f \in [Key -> Nat] :
          \A m \in Key : f[m] = IF next[m] = Null THEN b[m] ELSE f[next[m]] + a[m]
    BY <1>2, <1>4, Recursion, Zenon
  <1>7. \A m \in Key : f[m] = IF t.kid[m]["left"] = Null THEN m ELSE f[t.kid[m]["left"]]
    <2> SUFFICES ASSUME NEW m \in Key
                 PROVE  f[m] = IF t.kid[m]["left"] = Null THEN m ELSE f[t.kid[m]["left"]]
      OBVIOUS
    <2>1. next[m] = t.kid[m]["left"]
      OBVIOUS
    <2>2. next[m] # Null => next[m] \in Key
      BY <1>2 DEF Ends, Node
    <2> HIDE DEF next
    <2>3. next[m] # Null => f[next[m]] + a[m] = f[next[m]]
      BY <1>5, <2>2
    <2> QED
      BY <1>5, <1>6, <2>1, <2>3
  <1>8. f = body(f)
    BY <1>7
  <1>9. min = body(min)
    BY <1>8
  <1>10. SubtreeMin(t, n) = min[n]
    BY DEF SubtreeMin
  <1> HIDE DEF min
  <1>11. \A m \in Key : min[m] = IF next[m] = Null THEN m ELSE min[next[m]]
    BY <1>9
  <1> DEFINE P == {m \in Key : m \in M => LET y == min[m] IN y \in M /\ t.kid[y]["left"] = Null
                                            /\ lo[y] = lo[m] /\ y < hi[m]}
  <1>12. ASSUME NEW m \in Key, next[m] # Null => next[m] \in P PROVE m \in P
    <2> SUFFICES ASSUME m \in M PROVE LET y == min[m] IN y \in M /\ t.kid[y]["left"] = Null
                                            /\ lo[y] = lo[m] /\ y < hi[m]
      OBVIOUS
    <2>1. next[m] = t.kid[m]["left"]
      OBVIOUS
    <2>2. CASE next[m] = Null
      BY <1>0, <1>11, <2>1, <2>2
    <2>3. CASE next[m] # Null
      <3>1. next[m] \in M /\ lo[next[m]] = lo[m] /\ hi[next[m]] = m /\ m < hi[m]
        BY <1>0, <2>1, <2>3, ChildIs
      <3>2. min[next[m]] \in M /\ min[next[m]] < hi[m]
        BY <1>0, <1>12, <2>3, <3>1
      <3> HIDE DEF next
      <3> QED
        BY <1>11, <1>12, <2>3, <3>1, <3>2
    <2> QED
      BY <2>2, <2>3
  <1> HIDE DEF P, next
  <1>13. n \in P
    BY <1>0, <1>2, <1>12, Along
  <1> QED
    BY <1>10, <1>13 DEF P

-----------------------------------------------------------------------------
(* what the unlinking of a node leaves *)
LEMMA TransplantIs ==
  ASSUME NEW t, NEW M, NEW lo, NEW hi, Linked(t, M), Spans(t, M, lo, hi), NEW u \in M, NEW v \in Node
  PROVE  LET s == Transplant(t, u, v)
         IN /\ s \in Tree /\ s.color = t.color /\ s.elem = t.elem
            /\ s.root = IF u = t.root THEN v ELSE t.root
            /\ \A j \in Key : s.parent[j] = IF j = v THEN t.parent[u] ELSE t.parent[j]
            /\ \A j \in Key, e \in Dir : s.kid[j][e] = IF t.kid[j][e] = u THEN v ELSE t.kid[j][e]
  <1>1. PICK r, s : r = Replace(t, u, v) /\ s = SetParent(r, v, t.parent[u])
    OBVIOUS
  <1>2. t \in Tree /\ u \in Key /\ t.parent[u] \in Node
    BY DEF Linked, Tree, Node
  <1>3. Replaced(r, t, u, v)
    BY <1>1, <1>2, ReplaceIs
  <1>4. ParentSet(s, r, v, t.parent[u])
    BY <1>1, <1>2, <1>3, SetParentIs DEF Replaced, SameData
  <1>5. s = Transplant(t, u, v)
    BY <1>1 DEF Transplant
  <1>6. t.parent[u] = Null <=> u = t.root
    BY ParentIs
  <1>7. \A j \in Key, e \in Dir : t.kid[j][e] = u <=> (j = t.parent[u] /\ e = Side(t, u))
    BY PointsTo
  <1>8. /\ s \in Tree /\ s.color = t.color /\ s.elem = t.elem
        /\ s.root = IF u = t.root THEN v ELSE t.root
    BY <1>3, <1>4, <1>6 DEF Replaced, ParentSet, SameData
  <1>9. \A j \in Key : s.parent[j] = IF j = v THEN t.parent[u] ELSE t.parent[j]
    BY <1>3, <1>4 DEF Replaced, ParentSet
  <1>10. \A j \in Key, e \in Dir : s.kid[j][e] = IF t.kid[j][e] = u THEN v ELSE t.kid[j][e]
    BY <1>3, <1>4, <1>7 DEF Replaced, ParentSet
  <1> QED
    BY <1>5, <1>8, <1>9, <1>10

(* What the freed node leaves behind. *)
LEMMA ForgetIs ==
  ASSUME NEW t \in Tree, NEW z \in Key
  PROVE  LET s == Forget(t, z)
         IN /\ s \in Tree /\ s.root = t.root
            /\ \A j \in Key : /\ s.elem[j] = IF j = z THEN Nil ELSE t.elem[j]
                              /\ s.color[j] = IF j = z THEN "red" ELSE t.color[j]
                              /\ s.parent[j] = IF j = z THEN Null ELSE t.parent[j]
                              /\ \A e \in Dir : s.kid[j][e] = IF j = z THEN Null ELSE t.kid[j][e]
  <1> QED
    BY DEF Forget, Tree

(* unlinking a node with one child or none *)
LEMMA DropIs ==
  ASSUME NEW t, NEW M, NEW lo, NEW hi, Linked(t, M), Spans(t, M, lo, hi), NEW z \in M, NEW d \in Dir
  PROVE  LET s == Forget(Transplant(t, z, t.kid[z][d]), z)
         IN /\ Dropped(s, t, z, t.kid[z][d])
            /\ \A j \in Key : /\ s.elem[j] = IF j = z THEN Nil ELSE t.elem[j]
                              /\ j # z => s.color[j] = t.color[j]
  <1>1. PICK a, s, c : c = t.kid[z][d] /\ a = Transplant(t, z, c) /\ s = Forget(a, z)
    OBVIOUS
  <1>2. c \in Node /\ z \in Key /\ c # z
    <2>1. c \in Node /\ z \in Key /\ Null \notin Key
      BY <1>1, RBTreeAssumption DEF Linked, Tree, Node
    <2>2. t.kid[z][d] # Null => t.kid[z][d] # z
      BY ChildIs
    <2> QED
      BY <1>1, <2>1, <2>2
  <1>3. /\ a \in Tree /\ a.color = t.color /\ a.elem = t.elem
        /\ a.root = IF z = t.root THEN c ELSE t.root
        /\ \A j \in Key : a.parent[j] = IF j = c THEN t.parent[z] ELSE t.parent[j]
        /\ \A j \in Key, e \in Dir : a.kid[j][e] = IF t.kid[j][e] = z THEN c ELSE t.kid[j][e]
    BY <1>1, <1>2, TransplantIs
  <1>4. /\ s \in Tree /\ s.root = a.root
        /\ \A j \in Key : /\ s.elem[j] = IF j = z THEN Nil ELSE a.elem[j]
                          /\ s.color[j] = IF j = z THEN "red" ELSE a.color[j]
                          /\ s.parent[j] = IF j = z THEN Null ELSE a.parent[j]
                          /\ \A e \in Dir : s.kid[j][e] = IF j = z THEN Null ELSE a.kid[j][e]
    <2>1. a \in Tree /\ z \in Key /\ s = Forget(a, z)
      BY <1>1, <1>2, <1>3, Zenon
    <2> QED
      BY <2>1, ForgetIs
  <1>5. Dropped(s, t, z, c)
    BY <1>3, <1>4 DEF Dropped
  <1>6. \A j \in Key : /\ s.elem[j] = IF j = z THEN Nil ELSE t.elem[j]
                       /\ j # z => s.color[j] = t.color[j]
    BY <1>3, <1>4
  <1> QED
    BY <1>1, <1>5, <1>6

(* the successor y of z, below z's right child, has no left child           *)
SuccessorOf(t, M, z, y) ==
  LET r == t.kid[y]["right"]
      p == t.parent[y]
      q == t.parent[z]
  IN /\ y \in M /\ y # z /\ t.kid[y]["left"] = Null /\ y # t.root
     /\ p \in M /\ p # y /\ (p = z <=> t.kid[z]["right"] = y) /\ t.kid[z]["left"] # y
     /\ r \in M \cup {Null} /\ r # z /\ r # y /\ (r # Null => t.parent[r] = y)
     /\ q \in M \cup {Null} /\ q # y /\ q # z
     /\ \A j \in M \ {y, z} : j < z <=> j < y

(* the least node below the right child of z is it                         *)
LEMMA SuccessorIs ==
  ASSUME NEW t, NEW M, NEW lo, NEW hi, Linked(t, M), Spans(t, M, lo, hi), NEW z \in M,
         t.kid[z]["left"] # Null, t.kid[z]["right"] # Null
  PROVE  SuccessorOf(t, M, z, SubtreeMin(t, t.kid[z]["right"]))
  <1> DEFINE n == t.kid[z]["right"]
  <1>1. PICK y, r, p, q : y = SubtreeMin(t, n) /\ r = t.kid[y]["right"] /\ p = t.parent[y] /\ q = t.parent[z]
    OBVIOUS
  <1>0. /\ Null \notin Key /\ M \subseteq Key /\ Key \subseteq Nat /\ "left" \in Dir /\ "right" \in Dir
        /\ z \in Nat /\ z # Null /\ \A j \in M : j \in Nat /\ lo[j] \in Nat /\ hi[j] \in Nat /\ lo[j] < j /\ j < hi[j]
    BY RBTreeAssumption DEF Linked, Dir, Spans
  <1>2. n \in M /\ lo[n] = z /\ t.parent[n] = z
    BY <1>0, ChildIs
  <1>3. y \in M /\ t.kid[y]["left"] = Null /\ lo[y] = z
    BY <1>1, <1>2, MinIs
  <1>4. z < y
    BY <1>0, <1>3
  <1>5. y # t.root
    <2> SUFFICES ASSUME y = t.root PROVE FALSE
      OBVIOUS
    <2>1. y # Null
      BY <1>0, <1>3
    <2>2. lo[y] < z
      BY <1>0, <2>1 DEF Spans
    <2> QED
      BY <1>0, <1>3, <2>2
  <1>6. p \in M /\ p # y /\ t.kid[p][Side(t, y)] = y /\ Side(t, y) \in Dir
    BY <1>1, <1>3, <1>5, ParentIs
  <1>7. t.kid[z]["left"] # y
    <2> SUFFICES ASSUME t.kid[z]["left"] = y PROVE FALSE
      OBVIOUS
    <2>1. hi[y] = z
      BY <1>0, <1>3, ChildIs
    <2>2. y \in Nat /\ z \in Nat /\ y < hi[y]
      BY <1>0, <1>3
    <2> QED
      BY <1>4, <2>1, <2>2
  <1>8. p = z <=> n = y
    BY <1>1, <1>2, <1>6, <1>7 DEF Dir
  <1>9. r \in M \cup {Null} /\ r # z /\ r # y /\ (r # Null => t.parent[r] = y)
    <2>1. CASE r = Null
      BY <1>0, <1>3, <2>1
    <2>2. CASE r # Null
      <3>1. r \in M /\ t.parent[r] = y /\ r # y /\ lo[r] = y
        BY <1>0, <1>1, <1>3, <2>2, ChildIs
      <3> QED
        BY <1>0, <1>3, <1>4, <3>1
    <2> QED
      BY <2>1, <2>2
  <1>10. q \in M \cup {Null} /\ q # y /\ q # z
    <2>1. CASE z = t.root
      BY <1>0, <1>1, <1>3, <2>1, ParentIs
    <2>2. CASE z # t.root
      <3>1. q \in M /\ q # z /\ t.kid[q][Side(t, z)] = z /\ Side(t, z) \in Dir
        BY <1>1, <2>2, ParentIs
      <3>2. q = y => lo[y] <= lo[z]
        BY <1>0, <3>1, ChildIs
      <3> QED
        BY <1>0, <1>3, <3>1, <3>2
    <2> QED
      BY <2>1, <2>2
  <1>11. \A j \in M \ {y, z} : j < z <=> j < y
    <2>1. \A j \in M : ~ (lo[y] < j /\ j < y)
      BY <1>3, Zenon DEF Spans
    <2> QED
      BY <1>0, <1>3, <1>4, <2>1
  <1> QED
    BY <1>1, <1>3, <1>4, <1>0, <1>5, <1>6, <1>7, <1>8, <1>9, <1>10, <1>11
      DEF SuccessorOf

(* the tree that is left when z is unlinked, field by field *)
InnerCut(s, t, z, y, n, l, r, p, q) ==
  /\ s \in Tree
  /\ s.root = IF z = t.root THEN y ELSE t.root
  /\ \A j \in Key \ {z} :
       s.parent[j] = IF j = l THEN y ELSE IF j = y THEN q ELSE IF p = z THEN t.parent[j]
                     ELSE IF j = n THEN y ELSE IF j = r THEN p ELSE t.parent[j]
  /\ \A j \in Key, h \in Dir :
       s.kid[j][h] = IF j = z THEN Null ELSE IF j = y /\ h = "left" THEN l
                     ELSE IF t.kid[j][h] = z THEN y ELSE IF p = z THEN t.kid[j][h]
                     ELSE IF j = y /\ h = "right" THEN n
                     ELSE IF t.kid[j][h] = y THEN r ELSE t.kid[j][h]
  /\ \A j \in Key : /\ s.elem[j] = IF j = z THEN Nil ELSE t.elem[j]
                    /\ j # z => s.color[j] = IF j = y THEN t.color[z] ELSE t.color[j]

LEMMA InnerFields ==
  ASSUME NEW t, NEW M, NEW lo, NEW hi, Linked(t, M), Spans(t, M, lo, hi), NEW z \in M,
         t.kid[z]["left"] # Null, t.kid[z]["right"] # Null
  PROVE  \E s, y, n, l, r, p, q :
           /\ s = Forget(UnlinkInner(t, z).tree, z)
           /\ y = SubtreeMin(t, t.kid[z]["right"]) /\ r = t.kid[y]["right"]
           /\ p = t.parent[y] /\ q = t.parent[z] /\ n = t.kid[z]["right"] /\ l = t.kid[z]["left"]
           /\ InnerCut(s, t, z, y, n, l, r, p, q)
  <1>1. PICK y, n, l, r, p, q : /\ y = SubtreeMin(t, t.kid[z]["right"]) /\ r = t.kid[y]["right"]
                                /\ p = t.parent[y] /\ q = t.parent[z]
                                /\ n = t.kid[z]["right"] /\ l = t.kid[z]["left"]
    OBVIOUS
  <1>0. /\ Null \notin Key /\ M \subseteq Key /\ "left" \in Dir /\ "right" \in Dir /\ z \in Key /\ t \in Tree
    BY RBTreeAssumption DEF Linked, Dir
  <1>2. /\ y \in M /\ y # z /\ t.kid[y]["left"] = Null /\ y # t.root
        /\ p \in M /\ p # y /\ (p = z <=> n = y) /\ l # y
        /\ r \in M \cup {Null} /\ r # z /\ r # y /\ (r # Null => t.parent[r] = y)
        /\ q \in M \cup {Null} /\ q # y /\ q # z
    <2>1. SuccessorOf(t, M, z, y)
      BY <1>1, SuccessorIs
    <2> QED
      BY <1>1, <2>1 DEF SuccessorOf
  <1>3. n \in M /\ t.parent[n] = z /\ l \in M /\ t.parent[l] = z /\ n # z /\ l # z
    BY <1>0, <1>1, ChildIs
  <1>4. /\ y \in Key /\ y \in Node /\ r \in Node /\ n \in Node /\ l \in Node /\ n \in Key /\ l \in Key
        /\ q = Null <=> z = t.root
    BY <1>0, <1>1, <1>2, <1>3, ParentIs, ZenonT(30) DEF Node
  <1>5. PICK a, b, t1 : /\ a = Transplant(t, y, r) /\ b = SetKid(a, y, "right", n)
                        /\ t1 = IF p = z THEN t ELSE SetParent(b, n, y)
    OBVIOUS
  <1>6. PICK c, d, e, f, g : /\ c = Replace(t1, z, y) /\ d = SetParent(c, y, t1.parent[z])
                             /\ e = SetKid(d, y, "left", l) /\ f = SetParent(e, l, y)
                             /\ g = Paint(f, y, t.color[z])
    OBVIOUS
  <1>7. UnlinkInner(t, z).tree = g
    BY <1>1, <1>5, <1>6, Zenon DEF UnlinkInner, Transplant
  <1>8. /\ t1 \in Tree /\ t1.color = t.color /\ t1.elem = t.elem /\ t1.root = t.root
        /\ \A j \in Key : t1.parent[j] = IF p = z THEN t.parent[j]
                                          ELSE IF j = n THEN y ELSE IF j = r THEN p ELSE t.parent[j]
        /\ \A j \in Key, h \in Dir :
             t1.kid[j][h] = IF p = z THEN t.kid[j][h] ELSE IF j = y /\ h = "right" THEN n
                            ELSE IF t.kid[j][h] = y THEN r ELSE t.kid[j][h]
    <2>1. CASE p = z
      BY <1>0, <1>5, <2>1
    <2>2. CASE p # z
      <3>a. /\ a \in Tree /\ a.color = t.color /\ a.elem = t.elem
            /\ a.root = IF y = t.root THEN r ELSE t.root
            /\ \A j \in Key : a.parent[j] = IF j = r THEN t.parent[y] ELSE t.parent[j]
            /\ \A j \in Key, h \in Dir : a.kid[j][h] = IF t.kid[j][h] = y THEN r ELSE t.kid[j][h]
        <4>1. y \in M /\ r \in Node
          BY <1>2, <1>4
        <4>2. a = Transplant(t, y, r)
          BY <1>5, Zenon
        <4> QED
          BY <4>1, <4>2, TransplantIs
      <3>1. /\ a \in Tree /\ a.color = t.color /\ a.elem = t.elem /\ a.root = t.root
            /\ \A j \in Key : a.parent[j] = IF j = r THEN p ELSE t.parent[j]
            /\ \A j \in Key, h \in Dir : a.kid[j][h] = IF t.kid[j][h] = y THEN r ELSE t.kid[j][h]
        BY <1>1, <1>2, <3>a
      <3>2. KidSet(b, a, y, "right", n)
        BY <1>0, <1>4, <1>5, <3>1, KidIs
      <3>3. b \in Tree
        BY <3>2 DEF KidSet, SameData
      <3>4. ParentSet(t1, b, n, y)
        BY <1>4, <1>5, <2>2, <3>3, SetParentIs
      <3>5. t1 \in Tree /\ t1.color = t.color /\ t1.elem = t.elem /\ t1.root = t.root
        BY <3>1, <3>2, <3>4 DEF KidSet, ParentSet, SameData
      <3>6. \A j \in Key : t1.parent[j] = IF j = n THEN y ELSE IF j = r THEN p ELSE t.parent[j]
        BY <3>1, <3>2, <3>4 DEF KidSet, ParentSet
      <3>7. \A j \in Key, h \in Dir : t1.kid[j][h] = IF j = y /\ h = "right" THEN n
                            ELSE IF t.kid[j][h] = y THEN r ELSE t.kid[j][h]
        BY <3>1, <3>2, <3>4 DEF KidSet, ParentSet
      <3> QED
        BY <2>2, <3>5, <3>6, <3>7
    <2> QED
      BY <2>1, <2>2
  <1>9. t1.parent[z] = q /\ (q # Null => Side(t1, z) = Side(t, z))
    <2>1. t1.parent[z] = q
      BY <1>0, <1>1, <1>2, <1>3, <1>8
    <2>2. SUFFICES ASSUME q # Null PROVE Side(t1, z) = Side(t, z)
      BY <2>1
    <2>3. q \in Key /\ q # y
      BY <1>0, <1>2, <2>2
    <2>4. t1.kid[q]["left"] = z <=> t.kid[q]["left"] = z
      BY <1>0, <1>2, <1>8, <2>3
    <2> QED
      BY <1>1, <2>1, <2>4, Zenon DEF Side
  <1>10. Replaced(c, t1, z, y)
    BY <1>0, <1>4, <1>6, <1>8, ReplaceIs
  <1>11. c \in Tree
    BY <1>10 DEF Replaced, SameData
  <1>12. q \in Node
    BY <1>0, <1>2 DEF Node
  <1>13. ParentSet(d, c, y, q)
    BY <1>4, <1>6, <1>9, <1>11, <1>12, SetParentIs
  <1>14. d \in Tree
    BY <1>13 DEF ParentSet, SameData
  <1>15. KidSet(e, d, y, "left", l)
    BY <1>0, <1>4, <1>6, <1>14, KidIs
  <1>16. e \in Tree
    BY <1>15 DEF KidSet, SameData
  <1>17. ParentSet(f, e, l, y)
    BY <1>4, <1>6, <1>16, SetParentIs
  <1>18. f \in Tree
    BY <1>17 DEF ParentSet, SameData
  <1>19. t.color[z] \in {"red", "black"}
    BY <1>0 DEF Tree
  <1>20. /\ g \in Tree /\ g.root = f.root /\ g.kid = f.kid /\ g.parent = f.parent /\ g.elem = f.elem
         /\ \A k \in Key : g.color[k] = IF k = y THEN t.color[z] ELSE f.color[k]
    <2>1. PICK v : v = t.color[z]
      OBVIOUS
    <2>2. v \in {"red", "black"} /\ g = Paint(f, y, v) /\ y \in Key
      BY <1>4, <1>6, <1>19, <2>1
    <2>3. /\ g \in Tree /\ g.root = f.root /\ g.kid = f.kid /\ g.parent = f.parent /\ g.elem = f.elem
          /\ \A k \in Key : g.color[k] = IF k = y THEN v ELSE f.color[k]
      <3>1. Painted(Paint(f, y, v), f, y, v)
        BY <1>18, <2>2, PaintIs, Zenon
      <3>2. Painted(g, f, y, v)
        BY <2>2, <3>1
      <3> QED
        BY <3>2 DEF Painted
    <2> QED
      BY <2>1, <2>3
  <1>21. f.root = (IF z = t.root THEN y ELSE t.root) /\ f.color = t.color /\ f.elem = t.elem
    BY <1>4, <1>8, <1>9, <1>10, <1>13, <1>15, <1>17 DEF Replaced, ParentSet, KidSet, SameData
  <1>22. \A j \in Key : f.parent[j] = IF j = l THEN y ELSE IF j = y THEN q ELSE t1.parent[j]
    BY <1>10, <1>13, <1>15, <1>17 DEF Replaced, ParentSet, KidSet
  <1>23. \A j \in Key, h \in Dir : f.kid[j][h] = IF j = y /\ h = "left" THEN l
                                   ELSE IF j = q /\ h = Side(t, z) THEN y ELSE t1.kid[j][h]
    BY <1>0, <1>9, <1>10, <1>13, <1>15, <1>17 DEF Replaced, ParentSet, KidSet
  <1>24. \A j \in Key, h \in Dir : t.kid[j][h] = z <=> (j = q /\ h = Side(t, z))
    BY <1>1, PointsTo
  <1>25. PICK s : s = Forget(g, z)
    OBVIOUS
  <1>26. /\ s \in Tree /\ s.root = g.root
         /\ \A j \in Key : /\ s.elem[j] = IF j = z THEN Nil ELSE g.elem[j]
                           /\ s.color[j] = IF j = z THEN "red" ELSE g.color[j]
                           /\ s.parent[j] = IF j = z THEN Null ELSE g.parent[j]
                           /\ \A h \in Dir : s.kid[j][h] = IF j = z THEN Null ELSE g.kid[j][h]
    BY <1>0, <1>20, <1>25, ForgetIs
  <1>27. s.root = IF z = t.root THEN y ELSE t.root
    BY <1>20, <1>21, <1>26
  <1>28. \A j \in Key \ {z} : s.parent[j] = IF j = l THEN y ELSE IF j = y THEN q ELSE t1.parent[j]
    BY <1>20, <1>22, <1>26
  <1>29. \A j \in Key, h \in Dir : s.kid[j][h] = IF j = z THEN Null ELSE IF j = y /\ h = "left" THEN l
                                   ELSE IF t.kid[j][h] = z THEN y ELSE t1.kid[j][h]
    BY <1>20, <1>23, <1>24, <1>26
  <1>30. \A j \in Key : /\ s.elem[j] = IF j = z THEN Nil ELSE t.elem[j]
                        /\ j # z => s.color[j] = IF j = y THEN t.color[z] ELSE t.color[j]
    BY <1>20, <1>21, <1>26
  <1>31. \A j \in Key \ {z} : s.parent[j] = IF j = l THEN y ELSE IF j = y THEN q
                               ELSE IF p = z THEN t.parent[j]
                               ELSE IF j = n THEN y ELSE IF j = r THEN p ELSE t.parent[j]
    BY <1>8, <1>28
  <1>32. \A j \in Key, h \in Dir :
                 s.kid[j][h] = IF j = z THEN Null ELSE IF j = y /\ h = "left" THEN l
                               ELSE IF t.kid[j][h] = z THEN y
                               ELSE IF p = z THEN t.kid[j][h]
                               ELSE IF j = y /\ h = "right" THEN n
                               ELSE IF t.kid[j][h] = y THEN r ELSE t.kid[j][h]
    BY <1>8, <1>29
  <1>33. InnerCut(s, t, z, y, n, l, r, p, q)
    BY <1>26, <1>27, <1>30, <1>31, <1>32, Zenon DEF InnerCut
  <1>34. s = Forget(UnlinkInner(t, z).tree, z)
    BY <1>7, <1>25, Zenon
  <1> QED
    BY <1>1, <1>33, <1>34, Zenon

(* Unlinking a node with two children unlinks its successor y, which has no *)
(* left child, and puts y in the place of z.                                *)
LEMMA InnerIs ==
  ASSUME NEW t, NEW M, NEW lo, NEW hi, Linked(t, M), Spans(t, M, lo, hi), NEW z \in M,
         t.kid[z]["left"] # Null, t.kid[z]["right"] # Null
  PROVE  LET y == SubtreeMin(t, t.kid[z]["right"])
             r == t.kid[y]["right"]
             s == Forget(UnlinkInner(t, z).tree, z)
         IN \E u : Dropped(u, t, y, r) /\ Renamed(s, u, ((M \ {y}) \ {z}) \cup {y}, z, y)
  <1>b. PICK s, y, n, l, r, p, q :
          /\ s = Forget(UnlinkInner(t, z).tree, z)
          /\ y = SubtreeMin(t, t.kid[z]["right"]) /\ r = t.kid[y]["right"]
          /\ p = t.parent[y] /\ q = t.parent[z] /\ n = t.kid[z]["right"] /\ l = t.kid[z]["left"]
          /\ InnerCut(s, t, z, y, n, l, r, p, q)
    BY InnerFields, Zenon
  <1>1. /\ y = SubtreeMin(t, t.kid[z]["right"]) /\ r = t.kid[y]["right"]
        /\ p = t.parent[y] /\ q = t.parent[z] /\ n = t.kid[z]["right"] /\ l = t.kid[z]["left"]
    BY <1>b, Zenon
  <1>0. /\ Null \notin Key /\ M \subseteq Key /\ "left" \in Dir /\ "right" \in Dir /\ z \in Key /\ t \in Tree
        /\ \A e \in Dir : e # "left" => e = "right"
    BY RBTreeAssumption DEF Linked, Dir
  <1>2. /\ y \in M /\ y # z /\ t.kid[y]["left"] = Null /\ y # t.root
        /\ p \in M /\ p # y /\ (p = z <=> n = y) /\ l # y
        /\ r \in M \cup {Null} /\ r # z /\ r # y /\ (r # Null => t.parent[r] = y)
        /\ q \in M \cup {Null} /\ q # y /\ q # z
    <2>1. SuccessorOf(t, M, z, y)
      BY <1>1, SuccessorIs
    <2> QED
      BY <1>1, <2>1 DEF SuccessorOf
  <1>3. n \in M /\ t.parent[n] = z /\ l \in M /\ t.parent[l] = z /\ n # z /\ l # z
    BY <1>0, <1>1, ChildIs
  <1>a. PICK u : u = Forget(Transplant(t, y, r), y)
    OBVIOUS
  <1>4. /\ s \in Tree
        /\ s.root = IF z = t.root THEN y ELSE t.root
        /\ \A j \in Key \ {z} :
             s.parent[j] = IF j = l THEN y ELSE IF j = y THEN q ELSE IF p = z THEN t.parent[j]
                           ELSE IF j = n THEN y ELSE IF j = r THEN p ELSE t.parent[j]
        /\ \A j \in Key, e \in Dir :
             s.kid[j][e] = IF j = z THEN Null ELSE IF j = y /\ e = "left" THEN l
                           ELSE IF t.kid[j][e] = z THEN y ELSE IF p = z THEN t.kid[j][e]
                           ELSE IF j = y /\ e = "right" THEN n
                           ELSE IF t.kid[j][e] = y THEN r ELSE t.kid[j][e]
    BY <1>b, Zenon DEF InnerCut
  <1>5. Dropped(u, t, y, r)
    BY <1>0, <1>1, <1>a, <1>2, DropIs
  <1>6. /\ u.root = t.root
        /\ \A j \in Key : j # y => u.parent[j] = IF j = r THEN p ELSE t.parent[j]
        /\ \A j \in Key, e \in Dir :
             u.kid[j][e] = IF j = y THEN Null ELSE IF t.kid[j][e] = y THEN r ELSE t.kid[j][e]
    BY <1>1, <1>2, <1>5, Zenon DEF Dropped
  <1>7. \A j \in M : t.parent[j] = z <=> j = l \/ j = n
    BY <1>0, <1>1, <1>3 DEF Linked, Dir
  <1>8. \A j \in M, e \in Dir : t.kid[j][e] # Null => t.kid[j][e] \in M /\ t.parent[t.kid[j][e]] = j
    BY DEF Linked
  <1>9. \A j \in Key \ M : \A e \in Dir : t.kid[j][e] = Null
    BY DEF Linked
  <1>10. s.root = New(z, y, u.root)
    BY <1>4, <1>6 DEF New
  <1>11. ASSUME NEW j \in ((M \ {y}) \ {z}) \cup {y}
         PROVE  s.parent[j] = New(z, y, u.parent[Old(z, y, j)])
    <2>1. CASE j = y
      <3>1. s.parent[j] = q
        BY <1>0, <1>2, <1>4, <2>1
      <3>2. u.parent[Old(z, y, j)] = q
        BY <1>0, <1>1, <1>2, <1>6, <2>1, Zenon DEF Old
      <3> QED
        BY <1>2, <3>1, <3>2 DEF New
    <2>2. CASE j # y
      <3>1. j \in M /\ j \in Key /\ j # z /\ Old(z, y, j) = j
        BY <1>0, <2>2 DEF Old
      <3>2. u.parent[Old(z, y, j)] = IF j = r THEN p ELSE t.parent[j]
        BY <1>6, <2>2, <3>1
      <3>3. s.parent[j] = IF j = l THEN y ELSE IF p = z THEN t.parent[j]
                          ELSE IF j = n THEN y ELSE IF j = r THEN p ELSE t.parent[j]
        BY <1>4, <2>2, <3>1
      <3>4. j = r => t.parent[j] = y
        BY <1>0, <1>2, <3>1
      <3>5. t.parent[j] = z <=> j = l \/ j = n
        BY <1>7, <3>1
      <3> QED
        BY <1>2, <2>2, <3>2, <3>3, <3>4, <3>5 DEF New
    <2> QED
      BY <2>1, <2>2
  <1>12. ASSUME NEW j \in Key, NEW e \in Dir
         PROVE  s.kid[j][e] = IF j = z THEN Null ELSE New(z, y, u.kid[Old(z, y, j)][e])
    <2>1. CASE j = z
      BY <1>4, <2>1
    <2>2. CASE j = y
      <3>1. u.kid[Old(z, y, j)][e] = IF t.kid[z][e] = y THEN r ELSE t.kid[z][e]
        BY <1>0, <1>2, <1>6, <2>2, Zenon DEF Old
      <3>2. t.kid[y]["right"] # z /\ t.kid[y]["left"] # z /\ t.kid[y]["right"] = r /\ r # y
        BY <1>0, <1>1, <1>2, Zenon
      <3>3. CASE e = "left"
        <4>1. s.kid[j][e] = l
          BY <1>0, <1>2, <1>4, <2>2, <3>3, Zenon
        <4> QED
          BY <1>1, <1>2, <1>3, <2>2, <3>1, <3>3, <4>1 DEF New
      <3>4. CASE e = "right"
        <4>1. s.kid[j][e] = IF p = z THEN r ELSE n
          BY <1>0, <1>2, <1>4, <2>2, <3>2, <3>4
        <4> QED
          BY <1>1, <1>2, <1>3, <2>2, <3>1, <3>4, <4>1 DEF New
      <3> QED
        BY <1>0, <3>3, <3>4
    <2>3. CASE j # y /\ j # z
      <3>1. u.kid[Old(z, y, j)][e] = IF t.kid[j][e] = y THEN r ELSE t.kid[j][e]
        BY <1>6, <2>3 DEF Old
      <3>2. s.kid[j][e] = IF t.kid[j][e] = z THEN y ELSE IF p = z THEN t.kid[j][e]
                          ELSE IF t.kid[j][e] = y THEN r ELSE t.kid[j][e]
        BY <1>4, <2>3, Zenon
      <3>3. t.kid[j][e] = y => p = j
        BY <1>0, <1>1, <1>2, <1>8, <1>9
      <3> QED
        BY <1>2, <2>3, <3>1, <3>2, <3>3 DEF New
    <2> QED
      BY <2>1, <2>2, <2>3
  <1>13. Renamed(s, u, ((M \ {y}) \ {z}) \cup {y}, z, y)
    BY <1>4, <1>10, <1>11, <1>12 DEF Renamed
  <1> QED
    BY <1>b, <1>5, <1>13, Zenon

-----------------------------------------------------------------------------
(* the operations keep a search tree *)

(* rbtree_new makes a search tree without nodes. *)
LEMMA EmptySearch == Search(Empty, {})
  <1>1. Empty \in Tree /\ Empty.root = Null /\ \A k \in Key, d \in Dir : Empty.kid[k][d] = Null
    BY DEF Empty, Tree
  <1>2. Linked(Empty, {})
    BY <1>1 DEF Linked
  <1>3. PICK lo : lo = [k \in Key |-> 0]
    OBVIOUS
  <1>4. lo \in [Key -> Nat]
    BY <1>3
  <1>5. Spans(Empty, {}, lo, lo)
    BY <1>1, <1>4 DEF Spans
  <1> QED
    BY <1>2, <1>4, <1>5 DEF Search

(* An element that is replaced by rbtree_insert leaves the search tree as   *)
(* it is.                                                                   *)
LEMMA StoreSearch ==
  ASSUME NEW t, NEW M, Search(t, M), NEW k \in M, NEW e \in Elems
  PROVE  LET s == [t EXCEPT !.elem[k] = e]
         IN Search(s, M) /\ \A j \in Key : s.elem[j] = IF j = k THEN e ELSE t.elem[j]
  <1>1. PICK s : s = [t EXCEPT !.elem[k] = e]
    OBVIOUS
  <1>2. t \in Tree /\ k \in Key
    BY DEF Search, Linked
  <1>3. /\ s \in Tree /\ s.root = t.root /\ s.kid = t.kid /\ s.parent = t.parent
        /\ \A j \in Key : s.elem[j] = IF j = k THEN e ELSE t.elem[j]
    BY <1>1, <1>2 DEF Tree
  <1>4. Linked(t, M) => Linked(s, M)
    BY <1>3 DEF Linked
  <1>5. \A lo, hi : Spans(t, M, lo, hi) => Spans(s, M, lo, hi)
    BY <1>3 DEF Spans
  <1> QED
    BY <1>1, <1>3, <1>4, <1>5 DEF Search

(* what insert_links makes of t *)
WithLeaf(t, k, e) ==
  LET p == Descend(t, k)
      a == [t EXCEPT !.elem[k] = e, !.color[k] = "red", !.parent[k] = p,
                     !.kid[k] = [d \in Dir |-> Null]]
  IN IF p = Null THEN [a EXCEPT !.root = k] ELSE SetKid(a, p, Toward(p, k), k)

(* s is a search tree of the nodes N with the elements of t, but for k's *)
Altered(s, t, N, k, e) == /\ Search(s, N)
                          /\ \A j \in Key : s.elem[j] = IF j = k THEN e ELSE t.elem[j]

(* The fields of the tree with a new leaf. *)
LEMMA LeafIs ==
  ASSUME NEW t, NEW M, Search(t, M), NEW k \in Key \ M, NEW e \in Elems
  PROVE  LET s == WithLeaf(t, k, e)
             p == Descend(t, k)
         IN /\ Leafed(s, t, k, p)
            /\ \A j \in Key : s.color[j] = IF j = k THEN "red" ELSE t.color[j]
            /\ \A j \in Key : s.elem[j] = IF j = k THEN e ELSE t.elem[j]
            /\ p \in M \cup {Null} /\ (p = Null <=> M = {})
            /\ p # Null => t.kid[p][Toward(p, k)] = Null
  <1> DEFINE p == Descend(t, k)
             a == [t EXCEPT !.elem[k] = e, !.color[k] = "red", !.parent[k] = p,
                            !.kid[k] = [d \in Dir |-> Null]]
             s == IF p = Null THEN [a EXCEPT !.root = k] ELSE SetKid(a, p, Toward(p, k), k)
  <1>b. s = WithLeaf(t, k, e)
    BY DEF WithLeaf
  <1>a. p = Descend(t, k)
    OBVIOUS
  <1> HIDE DEF p
  <1>1. PICK lo, hi \in [Key -> Nat] : Spans(t, M, lo, hi)
    BY DEF Search
  <1>2. Linked(t, M)
    BY DEF Search
  <1>3. t \in Tree /\ M \subseteq Key /\ Null \notin Key /\ k \in Node
    BY <1>2, RBTreeAssumption DEF Linked, Node
  <1>4. p \in M \cup {Null} /\ p # k /\ (p = Null <=> M = {}) /\ (p # Null => t.kid[p][Toward(p, k)] = Null)
    BY <1>1, <1>2, <1>3, DescendIs DEF p
  <1>5. /\ a \in Tree /\ a.root = t.root
        /\ \A j \in Key : a.parent[j] = IF j = k THEN p ELSE t.parent[j]
        /\ \A j \in Key, d \in Dir : a.kid[j][d] = IF j = k THEN Null ELSE t.kid[j][d]
        /\ \A j \in Key : a.color[j] = IF j = k THEN "red" ELSE t.color[j]
        /\ \A j \in Key : a.elem[j] = IF j = k THEN e ELSE t.elem[j]
    BY <1>3, <1>4 DEF Tree
  <1> HIDE DEF a
  <1>6. Leafed(s, t, k, p) /\ s.color = a.color /\ s.elem = a.elem
    <2>1. CASE p = Null
      <3>1. s \in Tree /\ s.root = k /\ s.parent = a.parent /\ s.kid = a.kid
            /\ s.color = a.color /\ s.elem = a.elem
        BY <1>3, <1>5, <2>1 DEF Tree, Node
      <3> QED
        BY <1>3, <1>5, <2>1, <3>1 DEF Leafed
    <2>2. CASE p # Null
      <3>1. p \in Key /\ Toward(p, k) \in Dir
        BY <1>3, <1>4, <2>2 DEF Toward, Dir
      <3>2. s = SetKid(a, p, Toward(p, k), k)
        BY <2>2
      <3>3. KidSet(s, a, p, Toward(p, k), k)
        BY <1>3, <1>5, <3>1, <3>2, KidIs
      <3>4. s \in Tree /\ s.root = t.root /\ s.parent = a.parent /\ s.color = a.color
            /\ s.elem = a.elem
        BY <1>5, <3>3 DEF KidSet, SameData
      <3>5. \A j \in Key, d \in Dir : s.kid[j][d] = IF j = k THEN Null
                                ELSE IF j = p /\ d = Toward(p, k) THEN k ELSE t.kid[j][d]
        BY <1>4, <1>5, <3>3 DEF KidSet
      <3> QED
        BY <1>5, <2>2, <3>4, <3>5 DEF Leafed
    <2> QED
      BY <2>1, <2>2
  <1> HIDE DEF s
  <1> QED
    BY <1>4, <1>5, <1>6, <1>a, <1>b

(* rbtree_insert of a new key, up to insert_fixup, makes a search tree with *)
(* one more node.                                                           *)
LEMMA InsertSearch ==
  ASSUME NEW t, NEW M, Search(t, M), NEW k \in Key \ M, NEW e \in Elems
  PROVE  Altered(WithLeaf(t, k, e), t, M \cup {k}, k, e)
  <1>1. PICK lo, hi \in [Key -> Nat] : Spans(t, M, lo, hi)
    BY DEF Search
  <1>2. Linked(t, M)
    BY DEF Search
  <1>3. PICK s, p : s = WithLeaf(t, k, e) /\ p = Descend(t, k)
    OBVIOUS
  <1>4. Leafed(s, t, k, p) /\ \A j \in Key : s.elem[j] = IF j = k THEN e ELSE t.elem[j]
    BY <1>3, LeafIs
  <1>5. Linked(s, M \cup {k})
    BY <1>1, <1>2, <1>3, <1>4, LeafedLinked
  <1>6. \E lo2, hi2 \in [Key -> Nat] : Spans(s, M \cup {k}, lo2, hi2)
    BY <1>1, <1>2, <1>3, <1>4, LeafedSpans
  <1> QED
    BY <1>3, <1>4, <1>5, <1>6 DEF Search, Altered

(* what the unlinking u of z leaves in s, and where delete_fixup starts *)
Unlinked(s, t, M, z, u) ==
  /\ Altered(s, t, M \ {z}, z, Nil)
  /\ u.x \in (M \ {z}) \cup {Null} /\ u.xp \in (M \ {z}) \cup {Null}
  /\ u.x = s.root \/ u.xp \in M \ {z}

(* rbtree_remove, up to delete_fixup, makes a search tree with one node less, *)
(* and delete_fixup starts at a node of it or at the root.                  *)
LEMMA RemoveSearch ==
  ASSUME NEW t, NEW M, Search(t, M), NEW z \in M
  PROVE  Unlinked(Forget(Unlink(t, z).tree, z), t, M, z, Unlink(t, z))
  <1>1. PICK lo, hi \in [Key -> Nat] : Spans(t, M, lo, hi)
    BY DEF Search
  <1>2. Linked(t, M)
    BY DEF Search
  <1>0. t \in Tree /\ M \subseteq Key /\ Null \notin Key /\ z \in Key /\ "left" \in Dir /\ "right" \in Dir
    BY <1>2, RBTreeAssumption DEF Linked, Dir
  <1>3. ASSUME NEW d \in Dir, t.kid[z][Opp(d)] = Null, NEW u, u = UnlinkLeaf(t, z, d)
        PROVE  Unlinked(Forget(u.tree, z), t, M, z, u)
    <2>1. PICK c, q, s : c = t.kid[z][d] /\ q = t.parent[z] /\ s = Forget(u.tree, z)
      OBVIOUS
    <2>2. u.tree = Transplant(t, z, c) /\ u.x = c /\ u.xp = q
      BY <1>3, <2>1 DEF UnlinkLeaf
    <2>a. Dropped(s, t, z, c) /\ \A j \in Key : s.elem[j] = IF j = z THEN Nil ELSE t.elem[j]
      BY <1>1, <1>2, <2>1, <2>2, DropIs
    <2>3. Linked(s, M \ {z})
      BY <1>1, <1>2, <1>3, <2>1, <2>a, DroppedLinked
    <2>4. \E lo2, hi2 \in [Key -> Nat] : Spans(s, M \ {z}, lo2, hi2)
      BY <1>1, <1>2, <1>3, <2>1, <2>a, DroppedSpans
    <2>5. c \in (M \ {z}) \cup {Null}
      <3>1. c # Null => c \in M /\ c # z
        BY <1>1, <1>2, <2>1, ChildIs
      <3> QED
        BY <3>1
    <2>6. q \in (M \ {z}) \cup {Null} /\ (q = Null <=> z = t.root)
      <3>1. q = Null <=> z = t.root
        BY <1>1, <1>2, <2>1, ParentIs
      <3>2. z # t.root => q \in M /\ q # z
        BY <1>1, <1>2, <2>1, ParentIs
      <3> QED
        BY <3>1, <3>2
    <2>7. z = t.root => c = s.root
      BY <2>a DEF Dropped
    <2>8. c = s.root \/ q \in M \ {z}
      BY <2>6, <2>7
    <2>9. Search(s, M \ {z})
      BY <2>3, <2>4 DEF Search
    <2> QED
      BY <2>1, <2>2, <2>a, <2>5, <2>6, <2>8, <2>9 DEF Unlinked, Altered
  <1>4. PICK u : u = Unlink(t, z)
    OBVIOUS
  <1>5. CASE t.kid[z]["left"] = Null
    <2>1. u = UnlinkLeaf(t, z, "right") /\ t.kid[z][Opp("right")] = Null
      BY <1>4, <1>5 DEF Unlink, Opp
    <2> QED
      BY <1>0, <1>3, <1>4, <2>1
  <1>6. CASE t.kid[z]["left"] # Null /\ t.kid[z]["right"] = Null
    <2>1. u = UnlinkLeaf(t, z, "left") /\ t.kid[z][Opp("left")] = Null
      BY <1>4, <1>6 DEF Unlink, Opp
    <2> QED
      BY <1>0, <1>3, <1>4, <2>1
  <1>7. CASE t.kid[z]["left"] # Null /\ t.kid[z]["right"] # Null
    <2>0. PICK s, y, n, l, r, p, q :
            /\ s = Forget(UnlinkInner(t, z).tree, z)
            /\ y = SubtreeMin(t, t.kid[z]["right"]) /\ r = t.kid[y]["right"]
            /\ p = t.parent[y] /\ q = t.parent[z] /\ n = t.kid[z]["right"] /\ l = t.kid[z]["left"]
            /\ InnerCut(s, t, z, y, n, l, r, p, q)
      BY <1>1, <1>2, <1>7, InnerFields, Zenon
    <2>1. /\ y = SubtreeMin(t, t.kid[z]["right"]) /\ r = t.kid[y]["right"]
          /\ p = t.parent[y] /\ s = Forget(UnlinkInner(t, z).tree, z)
      BY <2>0, Zenon
    <2>2. u = UnlinkInner(t, z)
      BY <1>4, <1>7, Zenon DEF Unlink
    <2>3. u.x = r /\ u.xp = IF p = z THEN y ELSE p
      BY <2>1, <2>2, Zenon DEF UnlinkInner
    <2>4. /\ y \in M /\ y # z /\ t.kid[y]["left"] = Null /\ p \in M /\ p # y /\ r \in M \cup {Null} /\ r # z
          /\ r # y /\ \A j \in M \ {y, z} : j < z <=> j < y
      BY <1>1, <1>2, <1>7, <2>1, SuccessorIs DEF SuccessorOf
    <2>5. \A j \in Key : s.elem[j] = IF j = z THEN Nil ELSE t.elem[j]
      BY <2>0, Zenon DEF InnerCut
    <2>6. PICK v : Dropped(v, t, y, r) /\ Renamed(s, v, ((M \ {y}) \ {z}) \cup {y}, z, y)
      BY <1>1, <1>2, <1>7, <2>1, InnerIs
    <2>7. t.kid[y][Opp("right")] = Null /\ t.kid[y]["right"] = r
      BY <2>1, <2>4 DEF Opp
    <2>8. Linked(v, M \ {y})
      BY <1>0, <1>1, <1>2, <2>4, <2>6, <2>7, DroppedLinked
    <2>9. PICK lo2, hi2 \in [Key -> Nat] : Spans(v, M \ {y}, lo2, hi2)
      BY <1>0, <1>1, <1>2, <2>4, <2>6, <2>7, DroppedSpans
    <2>10. PICK N, R : N = M \ {y} /\ R = (N \ {z}) \cup {y}
      OBVIOUS
    <2>11. /\ Linked(v, N) /\ Spans(v, N, lo2, hi2) /\ z \in N /\ y \in Key \ N
           /\ \A j \in N \ {z} : j < z <=> j < y
           /\ Renamed(s, v, (N \ {z}) \cup {y}, z, y)
      BY <1>0, <2>4, <2>6, <2>8, <2>9, <2>10
    <2>12. Linked(s, (N \ {z}) \cup {y})
      BY <2>11, RenamedLinked
    <2>13. \E lo3, hi3 \in [Key -> Nat] : Spans(s, (N \ {z}) \cup {y}, lo3, hi3)
      BY <2>11, RenamedSpans
    <2>14. (N \ {z}) \cup {y} = M \ {z}
      BY <2>4, <2>10
    <2>15. Search(s, M \ {z})
      BY <2>12, <2>13, <2>14 DEF Search
    <2>16. u.x \in (M \ {z}) \cup {Null} /\ u.xp \in M \ {z}
      BY <2>3, <2>4
    <2>17. s = Forget(u.tree, z)
      BY <2>1, <2>2
    <2> QED
      BY <1>4, <2>5, <2>15, <2>16, <2>17 DEF Unlinked, Altered
  <1> QED
    BY <1>5, <1>6, <1>7

(* what is used of a search tree in the loops *)
LEMMA SearchIs ==
  ASSUME NEW t, NEW M, Search(t, M)
  PROVE  /\ t \in Tree /\ M \subseteq Key /\ Null \notin M /\ Null \notin Key
         /\ t.root \in M \cup {Null} /\ (t.root = Null <=> M = {})
         /\ \A k \in M : /\ t.parent[k] \in M \cup {Null} /\ (t.parent[k] = Null <=> k = t.root)
                         /\ Side(t, k) \in Dir
                         /\ k # t.root => t.kid[t.parent[k]][Side(t, k)] = k
                         /\ \A d \in Dir : t.kid[k][d] \in M \cup {Null}
                         /\ \A d \in Dir : t.kid[k][d] # Null =>
                              t.parent[t.kid[k][d]] = k /\ d = Toward(k, t.kid[k][d])
  <1>1. PICK lo, hi \in [Key -> Nat] : Spans(t, M, lo, hi)
    BY DEF Search
  <1>2. Linked(t, M)
    BY DEF Search
  <1>3. t \in Tree /\ M \subseteq Key /\ Null \notin M /\ Null \notin Key
    BY <1>2, RBTreeAssumption DEF Linked
  <1>4. t.root \in M \cup {Null} /\ (t.root = Null <=> M = {})
    BY <1>2 DEF Linked
  <1>5. ASSUME NEW k \in M
        PROVE  /\ t.parent[k] \in M \cup {Null} /\ (t.parent[k] = Null <=> k = t.root)
               /\ Side(t, k) \in Dir
               /\ k # t.root => t.kid[t.parent[k]][Side(t, k)] = k
    <2>1. Side(t, k) \in Dir
      BY DEF Side, Dir
    <2> QED
      BY <1>1, <1>2, <2>1, ParentIs
  <1>6. ASSUME NEW k \in M, NEW d \in Dir, t.kid[k][d] # Null
        PROVE  t.kid[k][d] \in M /\ t.parent[t.kid[k][d]] = k /\ d = Toward(k, t.kid[k][d])
    BY <1>1, <1>2, <1>6, ChildIs
  <1> QED
    BY <1>3, <1>4, <1>5, <1>6

(* s is t with y, a child of n, rotated to the place of n *)
Rotated(s, t, M, n, y) ==
  /\ Search(s, M) /\ s.elem = t.elem /\ s.parent[y] = t.parent[n]
  /\ \A k \in M, e \in Dir : t.kid[k][e] = n => s.kid[k][e] = y

(* A rotation keeps the search tree and its elements. *)
LEMMA RotateKeeps ==
  ASSUME NEW t, NEW M, Search(t, M), NEW n \in M, NEW d \in Dir, t.kid[n][Opp(d)] # Null
  PROVE  Rotated(Rotate(t, n, d), t, M, n, t.kid[n][Opp(d)])
  <1>a. PICK s, y : s = Rotate(t, n, d) /\ y = t.kid[n][Opp(d)]
    OBVIOUS
  <1>1. PICK lo, hi \in [Key -> Nat] : Spans(t, M, lo, hi)
    BY DEF Search
  <1>2. Linked(t, M) /\ M \subseteq Key /\ Opp(d) \in Dir /\ n # Null
    BY RBTreeAssumption DEF Search, Linked, Opp, Dir
  <1>3. Search(s, M)
    BY <1>a, RotateSearch
  <1>4. PICK m, p : m = t.kid[y][d] /\ p = t.parent[n]
    BY Zenon
  <1>5. /\ SameData(s, t)
        /\ y \in M /\ y # n /\ m \in M \cup {Null} /\ m # n /\ m # y
        /\ p # n /\ p # y /\ (m # Null => m # p)
        /\ s.root = IF n = t.root THEN y ELSE t.root
        /\ \A k \in Key : s.parent[k] = IF k = n THEN y ELSE IF k = y THEN p
                                        ELSE IF k = m THEN n ELSE t.parent[k]
        /\ \A k \in Key, e \in Dir :
             s.kid[k][e] = IF k = n /\ e = Opp(d) THEN m ELSE IF k = y /\ e = d THEN n
                           ELSE IF t.kid[k][e] = n THEN y ELSE t.kid[k][e]
    BY <1>1, <1>2, <1>4, <1>a, RotateLinked
  <1>6. s.parent[y] = p
    BY <1>2, <1>5
  <1>7. ASSUME NEW k \in M, NEW e \in Dir, t.kid[k][e] = n PROVE s.kid[k][e] = y
    <2>1. k # n /\ k # y
      <3>1. t.kid[k][e] # k
        BY <1>1, <1>2, <1>7, ChildIs
      <3>2. t.kid[y][e] # n
        BY <1>1, <1>2, <1>a, ChildIs
      <3> QED
        BY <1>7, <3>1, <3>2
    <2> QED
      BY <1>2, <1>5, <1>7, <2>1
  <1> QED
    BY <1>3, <1>4, <1>5, <1>6, <1>7, <1>a DEF SameData, Rotated

Kept(s, t, M) == Search(s, M) /\ s.elem = t.elem /\ s.kid = t.kid

(* A recoloring keeps the search tree and its elements. *)
LEMMA PaintKeeps ==
  ASSUME NEW t, NEW M, Search(t, M), NEW n \in M
  PROVE  Kept(Paint(t, n, "red"), t, M) /\ Kept(Paint(t, n, "black"), t, M)
  <1>1. t \in Tree /\ n \in Key
    BY SearchIs
  <1>2. Painted(Paint(t, n, "red"), t, n, "red") /\ Painted(Paint(t, n, "black"), t, n, "black")
    BY <1>1, PaintIs
  <1>3. Search(Paint(t, n, "red"), M) /\ Search(Paint(t, n, "black"), M)
    BY PaintSearch
  <1> QED
    BY <1>2, <1>3 DEF Painted, Kept

(* the rotations of insert_fixup *)
LEMMA InsertRotateSearch ==
  ASSUME NEW t, NEW M, Search(t, M), NEW z \in M, t.parent[z] # Null, t.parent[t.parent[z]] # Null,
         NEW s, s = InsertRotate(t, z, Side(t, t.parent[z]))
  PROVE  Search(s, M) /\ s.elem = t.elem
  <1>1. PICK p, g, d : p = t.parent[z] /\ g = t.parent[p] /\ d = Side(t, p)
    OBVIOUS
  <1>2. /\ p \in M /\ g \in M /\ d \in Dir /\ t.kid[g][d] = p /\ p # t.root /\ p # Null /\ z # Null /\ z \in Node
        /\ Opp(d) \in Dir /\ Opp(Opp(d)) = d
    BY <1>1, SearchIs DEF Opp, Dir, Node
  <1>3. PICK inner, t1, b, h : /\ inner = (z = t.kid[p][Opp(d)])
                               /\ t1 = IF inner THEN Rotate(t, p, d) ELSE t
                               /\ b = IF inner THEN z ELSE p
                               /\ h = t1.parent[b]
    OBVIOUS
  <1>4. PICK t2, t3 : t2 = Paint(t1, b, "black") /\ t3 = Paint(t2, h, "red")
    OBVIOUS
  <1>5. s = Rotate(t3, h, Opp(d))
    BY <1>1, <1>3, <1>4, Zenon DEF InsertRotate
  <1>6. Search(t1, M) /\ t1.elem = t.elem /\ h = g /\ b \in M /\ t1.kid[g][d] = b
    <2>1. CASE inner
      <3>1. z = t.kid[p][Opp(d)] /\ t1 = Rotate(t, p, d) /\ b = z
        BY <1>3, <2>1
      <3>2. Rotated(t1, t, M, p, z)
        BY <1>2, <3>1, RotateKeeps
      <3> QED
        BY <1>1, <1>2, <1>3, <3>1, <3>2, Zenon DEF Rotated
    <2>2. CASE ~inner
      BY <1>1, <1>2, <1>3, <2>2, Zenon
    <2> QED
      BY <2>1, <2>2
  <1>7. Search(t2, M) /\ t2.elem = t.elem /\ t2.kid = t1.kid
    BY <1>4, <1>6, PaintKeeps DEF Kept
  <1>8. Search(t3, M) /\ t3.elem = t.elem /\ t3.kid = t1.kid
    <2>1. Kept(t3, t2, M)
      BY <1>2, <1>4, <1>6, <1>7, PaintKeeps
    <2> QED
      BY <1>7, <2>1 DEF Kept
  <1>9. t3.kid[h][Opp(Opp(d))] = b /\ b # Null /\ h \in M
    BY <1>2, <1>3, <1>6, <1>8
  <1>10. Rotated(s, t3, M, h, t3.kid[h][Opp(Opp(d))])
    BY <1>2, <1>5, <1>8, <1>9, RotateKeeps
  <1> QED
    BY <1>8, <1>10 DEF Rotated

(* a red sibling is rotated away *)
LEMMA DeleteRedSiblingSearch ==
  ASSUME NEW t, NEW M, Search(t, M), NEW p \in M, NEW d \in Dir, NEW s, s = DeleteRedSibling(t, p, d)
  PROVE  Search(s, M) /\ s.elem = t.elem
  <1>1. PICK w : w = t.kid[p][Opp(d)]
    OBVIOUS
  <1>2. CASE IsRed(t, w)
    <2>1. w # Null /\ w \in M /\ Opp(d) \in Dir
      BY <1>1, <1>2, SearchIs DEF IsRed, Opp, Dir
    <2>2. PICK t1, t2 : t1 = Paint(t, w, "black") /\ t2 = Paint(t1, p, "red")
      OBVIOUS
    <2>3. Search(t1, M) /\ t1.elem = t.elem /\ t1.kid = t.kid
      BY <2>1, <2>2, PaintKeeps DEF Kept
    <2>4. Search(t2, M) /\ t2.elem = t.elem /\ t2.kid = t.kid
      <3>1. Kept(t2, t1, M)
        BY <2>2, <2>3, PaintKeeps
      <3> QED
        BY <2>3, <3>1 DEF Kept
    <2>5. s = Rotate(t2, p, d) /\ t2.kid[p][Opp(d)] = w
      BY <1>1, <1>2, <2>2, <2>4 DEF DeleteRedSibling
    <2>6. Rotated(s, t2, M, p, t2.kid[p][Opp(d)])
      BY <2>1, <2>4, <2>5, RotateKeeps
    <2> QED
      BY <2>4, <2>6 DEF Rotated
  <1>3. CASE ~ IsRed(t, w)
    BY <1>1, <1>3 DEF DeleteRedSibling
  <1> QED
    BY <1>2, <1>3

(* the last rotations of delete_fixup *)
LEMMA DeleteRotateSearch ==
  ASSUME NEW t, NEW M, Search(t, M), NEW p \in M, NEW d \in Dir, NEW w, w = t.kid[p][Opp(d)], w # Null,
         \E e \in Dir : IsRed(t, t.kid[w][e]), NEW s, s = DeleteRotate(t, p, d)
  PROVE  Search(s, M) /\ s.elem = t.elem
  <1>1. /\ w \in M /\ Opp(d) \in Dir /\ Opp(Opp(d)) = d /\ \A e \in Dir : e = d \/ e = Opp(d)
        /\ \A e \in Dir : t.kid[w][e] \in M \cup {Null}
    BY SearchIs DEF Opp, Dir
  <1>2. PICK n, far : n = t.kid[w][d] /\ far = IsRed(t, t.kid[w][Opp(d)])
    OBVIOUS
  <1>3. PICK a, b, t1 : /\ a = (IF n = Null THEN t ELSE Paint(t, n, "black")) /\ b = Paint(a, w, "red")
                        /\ t1 = IF far THEN t ELSE Rotate(b, w, Opp(d))
    OBVIOUS
  <1>4. PICK v, c, t2, f, t3 : /\ v = t1.kid[p][Opp(d)] /\ c = Paint(t1, v, t1.color[p])
                               /\ t2 = Paint(c, p, "black") /\ f = t2.kid[v][Opp(d)]
                               /\ t3 = IF f = Null THEN t2 ELSE Paint(t2, f, "black")
    OBVIOUS
  <1>5. s = Rotate(t3, p, d)
    BY <1>2, <1>3, <1>4, ZenonT(30) DEF DeleteRotate
  <1>6. Search(t1, M) /\ t1.elem = t.elem /\ v \in M
    <2>1. CASE far
      BY <1>1, <1>3, <1>4, <2>1, Zenon
    <2>2. CASE ~far
      <3>1. n # Null /\ n \in M
        BY <1>1, <1>2, <2>2, Zenon DEF IsRed
      <3>2. Search(a, M) /\ a.elem = t.elem /\ a.kid = t.kid
        BY <1>3, <3>1, PaintKeeps DEF Kept
      <3>3. Search(b, M) /\ b.elem = t.elem /\ b.kid = t.kid
        <4>1. Kept(b, a, M)
          BY <1>1, <1>3, <3>2, PaintKeeps
        <4> QED
          BY <3>2, <4>1 DEF Kept
      <3>4. t1 = Rotate(b, w, Opp(d)) /\ n = b.kid[w][Opp(Opp(d))]
        BY <1>1, <1>2, <1>3, <2>2, <3>3, Zenon
      <3>5. Rotated(t1, b, M, w, b.kid[w][Opp(Opp(d))])
        BY <1>1, <3>1, <3>3, <3>4, RotateKeeps
      <3>6. /\ Search(t1, M) /\ t1.elem = b.elem
            /\ \A k \in M, e \in Dir : b.kid[k][e] = w => t1.kid[k][e] = n
        BY <3>4, <3>5, Zenon DEF Rotated
      <3> QED
        BY <1>1, <1>4, <3>1, <3>3, <3>6
    <2> QED
      BY <2>1, <2>2
  <1>7. t1.color[p] \in {"red", "black"}
    BY <1>6, SearchIs DEF Tree
  <1>8. Search(c, M) /\ c.elem = t.elem /\ c.kid = t1.kid
    <2>1. PICK x1 : x1 = t1.color[p]
      BY Zenon
    <2>2. x1 \in {"red", "black"} /\ c = Paint(t1, v, x1)
      BY <1>4, <1>7, <2>1
    <2>3. x1 = "red" \/ x1 = "black"
      BY <2>2
    <2>4. Kept(c, t1, M)
      BY <1>6, <2>2, <2>3, PaintKeeps, Zenon
    <2> QED
      BY <1>6, <2>4 DEF Kept
  <1>9. Search(t2, M) /\ t2.elem = t.elem /\ t2.kid = t1.kid
    BY <1>4, <1>8, PaintKeeps, ZenonT(30) DEF Kept
  <1>10. Search(t3, M) /\ t3.elem = t.elem /\ t3.kid = t1.kid
    <2>1. CASE f = Null
      BY <1>4, <1>9, <2>1, Zenon
    <2>2. CASE f # Null
      <3>1. \A k \in M, e \in Dir : t2.kid[k][e] \in M \cup {Null}
        BY <1>9, SearchIs
      <3>2. f \in M
        BY <1>1, <1>4, <1>6, <2>2, <3>1, Zenon
      <3>3. Kept(t3, t2, M)
        BY <1>4, <1>9, <2>2, <3>2, PaintKeeps, Zenon
      <3> QED
        BY <1>9, <3>3 DEF Kept
    <2> QED
      BY <2>1, <2>2
  <1>11. t3.kid[p][Opp(d)] = v /\ v # Null
    <2>1. Null \notin M
      BY SearchIs
    <2> QED
      BY <1>4, <1>6, <1>10, <2>1, Zenon
  <1>12. Rotated(s, t3, M, p, t3.kid[p][Opp(d)])
    BY <1>5, <1>10, <1>11, RotateKeeps
  <1> QED
    BY <1>10, <1>12, Zenon DEF Rotated

-----------------------------------------------------------------------------
(* the inductive invariant *)

(* the loop variables are nodes *)
Loop ==
  /\ pc = "insert_fixup" => x \in Members
  /\ pc = "delete_fixup" => /\ x \in Members \cup {Null}
                            /\ x = tree.root \/ x_parent \in Members

(* size counts the nodes; a call adjusts it as it returns *)
Count ==
  /\ pc = "idle" => size = Cardinality(Members)
  /\ pc = "insert_fixup" => size + 1 = Cardinality(Members)
  /\ pc = "delete_fixup" => size = Cardinality(Members) + 1

Inv == TypeOK /\ Search(tree, Members) /\ Loop /\ Count

(* Finitely many keys are in use. *)
LEMMA KeysFinite ==
  ASSUME NEW S \in SUBSET Key
  PROVE  IsFiniteSet(S) /\ Cardinality(S) \in Nat
  BY RBTreeAssumption, FS_Subset, FS_CardinalityType

(* A step that keeps every element keeps the nodes and their number. *)
LEMMA StepKeeps ==
  ASSUME Inv, tree'.elem = tree.elem, Search(tree', Members), pc' = pc, size' = size, ret' = ret,
         x' \in Members \cup {Null}, x_parent' \in Node,
         pc = "insert_fixup" => x' \in Members,
         pc = "delete_fixup" => x' = tree'.root \/ x_parent' \in Members
  PROVE  Inv'
  <1>1. Members' = Members
    BY DEF Members
  <1>2. tree' \in Tree /\ Members \subseteq Key
    BY SearchIs
  <1>3. TypeOK'
    BY <1>2 DEF Inv, TypeOK, Node
  <1>4. Loop'
    BY <1>1 DEF Loop
  <1>5. Count'
    BY <1>1 DEF Inv, Count
  <1> QED
    BY <1>1, <1>3, <1>4, <1>5 DEF Inv

(* The invariant holds of the tree of rbtree_new. *)
LEMMA InitInv == Init => Inv
  <1> SUFFICES ASSUME Init PROVE Inv
    OBVIOUS
  <1>1. Members = {}
    BY DEF Init, Members, Empty
  <1>2. Search(tree, Members)
    BY <1>1, EmptySearch DEF Init
  <1>3. TypeOK
    BY <1>2, SearchIs DEF Init, TypeOK
  <1>4. Cardinality(Members) = 0
    BY <1>1, FS_EmptySet
  <1> QED
    BY <1>2, <1>3, <1>4 DEF Init, Inv, Loop, Count

(* rbtree_insert of a present key stores the element at that key only. *)
LEMMA InsertReplacesInv ==
  ASSUME Inv, NEW k \in Key, NEW e \in Elem[k], InsertReplaces(k, e)
  PROVE  Inv' /\ k \in Members /\ e # Nil
         /\ \A j \in Key : tree'.elem[j] = IF j = k THEN e ELSE tree.elem[j]
  <1>1. e \in Elems /\ e # Nil
    BY RBTreeAssumption DEF Elems
  <1>2. Descend(tree, k) = k <=> k \in Members
    BY FindIs DEF Inv, Members
  <1>3. k \in Members
    BY <1>2 DEF InsertReplaces
  <1>4. tree' = [tree EXCEPT !.elem[k] = e]
    BY DEF InsertReplaces
  <1>5. Search(tree', Members) /\ \A j \in Key : tree'.elem[j] = IF j = k THEN e ELSE tree.elem[j]
    BY <1>1, <1>3, <1>4, StoreSearch DEF Inv
  <1>6. Members' = Members
    BY <1>1, <1>3, <1>5 DEF Members
  <1>7. tree' \in Tree
    BY <1>5, SearchIs
  <1>8. ret' \in Elems \cup {Nil}
    BY DEF InsertReplaces, Inv, TypeOK, Tree
  <1>9. TypeOK' /\ Loop' /\ Count'
    BY <1>6, <1>7, <1>8 DEF InsertReplaces, Inv, TypeOK, Loop, Count
  <1> QED
    BY <1>1, <1>3, <1>5, <1>6, <1>9 DEF Inv

(* rbtree_insert of an absent key stores the element at that key only. *)
LEMMA InsertLinksInv ==
  ASSUME Inv, NEW k \in Key, NEW e \in Elem[k], InsertLinks(k, e)
  PROVE  Inv' /\ k \notin Members /\ e # Nil
         /\ \A j \in Key : tree'.elem[j] = IF j = k THEN e ELSE tree.elem[j]
  <1>1. e \in Elems /\ e # Nil
    BY RBTreeAssumption DEF Elems
  <1>2. Descend(tree, k) = k <=> k \in Members
    BY FindIs DEF Inv, Members
  <1>3. k \in Key \ Members
    BY <1>2 DEF InsertLinks
  <1>4. tree' = WithLeaf(tree, k, e)
    BY Zenon DEF InsertLinks, WithLeaf
  <1>6. /\ Search(tree', Members \cup {k})
        /\ \A j \in Key : tree'.elem[j] = IF j = k THEN e ELSE tree.elem[j]
    <2>1. Altered(tree', tree, Members \cup {k}, k, e)
      BY <1>1, <1>3, <1>4, InsertSearch DEF Inv
    <2> QED
      BY <2>1 DEF Altered
  <1>7. Members' = Members \cup {k}
    BY <1>1, <1>3, <1>6 DEF Members
  <1>8. tree' \in Tree
    BY <1>6, SearchIs
  <1>9. TypeOK' /\ Loop'
    BY <1>7, <1>8 DEF InsertLinks, Inv, TypeOK, Loop
  <1>10. Members \in SUBSET Key
    BY DEF Members
  <1>11. Cardinality(Members') = Cardinality(Members) + 1
    BY <1>3, <1>7, <1>10, KeysFinite, FS_AddElement
  <1>12. Count'
    BY <1>10, <1>11, KeysFinite DEF InsertLinks, Inv, TypeOK, Count
  <1> QED
    BY <1>1, <1>3, <1>6, <1>7, <1>9, <1>12 DEF Inv

(* An iteration of insert_fixup moves no element. *)
LEMMA InsertFixupInv ==
  ASSUME Inv, InsertFixup
  PROVE  Inv' /\ tree'.elem = tree.elem
  <1>1. PICK p, g, d, y : p = tree.parent[x] /\ g = tree.parent[p] /\ d = Side(tree, p) /\ y = tree.kid[g][Opp(d)]
    OBVIOUS
  <1>2. pc = "insert_fixup" /\ x \in Members /\ Search(tree, Members)
    BY Zenon DEF InsertFixup, Inv, Loop
  <1>3. p # Null /\ g # Null
    BY <1>1 DEF InsertFixup, IsRed
  <1>4. p \in Members /\ g \in Members /\ Opp(d) \in Dir
    BY <1>1, <1>2, <1>3, SearchIs DEF Opp, Dir
  <1>5. Search(tree', Members) /\ tree'.elem = tree.elem /\ x' \in Members
    <2>1. CASE IsRed(tree, y)
      <3>1. PICK t1, t2 : t1 = Paint(tree, p, "black") /\ t2 = Paint(t1, y, "black")
        OBVIOUS
      <3>2. tree' = Paint(t2, g, "red") /\ x' = g
        BY <1>1, <2>1, <3>1, Zenon DEF InsertFixup
      <3>3. y \in Members
        BY <1>1, <1>2, <1>4, <2>1, SearchIs DEF IsRed
      <3>4. Kept(t1, tree, Members)
        BY <1>2, <1>4, <3>1, PaintKeeps
      <3>5. Kept(t2, t1, Members)
        BY <3>1, <3>3, <3>4, PaintKeeps DEF Kept
      <3>6. Kept(tree', t2, Members)
        BY <1>4, <3>2, <3>5, PaintKeeps DEF Kept
      <3> QED
        BY <1>4, <3>2, <3>4, <3>5, <3>6 DEF Kept
    <2>2. CASE ~ IsRed(tree, y)
      <3>1. tree' = InsertRotate(tree, x, Side(tree, tree.parent[x]))
        BY <1>1, <2>2 DEF InsertFixup
      <3>2. x' \in {p, x}
        BY <1>1, <2>2, Zenon DEF InsertFixup
      <3>3. Search(tree', Members) /\ tree'.elem = tree.elem
        BY <1>1, <1>2, <1>3, <3>1, InsertRotateSearch
      <3> QED
        BY <1>2, <1>4, <3>2, <3>3
    <2> QED
      BY <2>1, <2>2
  <1>6. pc' = pc /\ size' = size /\ ret' = ret /\ x_parent' \in Node
    BY DEF InsertFixup, Inv, TypeOK, Node
  <1> QED
    BY <1>2, <1>5, <1>6, StepKeeps

(* The end of insert_fixup moves no element. *)
LEMMA InsertDoneInv ==
  ASSUME Inv, InsertDone
  PROVE  Inv' /\ tree'.elem = tree.elem
  <1>1. pc = "insert_fixup" /\ x \in Members /\ Search(tree, Members)
    BY DEF InsertDone, Inv, Loop
  <1>2. tree.root \in Members
    BY <1>1, SearchIs
  <1>3. Kept(tree', tree, Members)
    BY <1>1, <1>2, PaintKeeps DEF InsertDone
  <1>4. Members' = Members /\ tree' \in Tree
    BY <1>3, SearchIs DEF Kept, Members
  <1>5. TypeOK' /\ Loop' /\ Count'
    BY <1>1, <1>4 DEF InsertDone, Inv, TypeOK, Loop, Count
  <1> QED
    BY <1>3, <1>4, <1>5 DEF Inv, Kept

(* rbtree_remove of a present key forgets that key only. *)
LEMMA RemoveInv ==
  ASSUME Inv, NEW k \in Key, Remove(k)
  PROVE  Inv' /\ k \in Members
         /\ \A j \in Key : tree'.elem[j] = IF j = k THEN Nil ELSE tree.elem[j]
  <1>1. Descend(tree, k) = k <=> k \in Members
    BY FindIs DEF Inv, Members
  <1>2. k \in Members /\ pc = "idle"
    BY <1>1 DEF Remove
  <1>3. PICK u : u = Unlink(tree, k)
    OBVIOUS
  <1>4. tree' = Forget(u.tree, k)
    BY <1>3 DEF Remove
  <1>5. /\ Search(tree', Members \ {k})
        /\ \A j \in Key : tree'.elem[j] = IF j = k THEN Nil ELSE tree.elem[j]
        /\ u.x \in (Members \ {k}) \cup {Null} /\ u.xp \in (Members \ {k}) \cup {Null}
        /\ u.x = tree'.root \/ u.xp \in Members \ {k}
    <2>1. Unlinked(tree', tree, Members, k, u)
      BY <1>2, <1>3, <1>4, RemoveSearch DEF Inv
    <2> QED
      BY <2>1 DEF Unlinked, Altered
  <1>6. Members' = Members \ {k}
    BY <1>5 DEF Members
  <1>7. tree' \in Tree /\ Members \in SUBSET Key
    BY <1>5, SearchIs DEF Members
  <1>8. Cardinality(Members') = Cardinality(Members) - 1
    BY <1>2, <1>6, <1>7, KeysFinite, FS_RemoveElement
  <1>9. Cardinality(Members) \in Nat /\ Cardinality(Members') \in Nat /\ size = Cardinality(Members)
    BY <1>2, <1>6, <1>7, KeysFinite DEF Inv, Count
  <1>10. CASE u.color = "black"
    <2>1. pc' = "delete_fixup" /\ x' = u.x /\ x_parent' = u.xp /\ size' = size /\ ret' = tree.elem[k]
      BY <1>3, <1>10 DEF Remove
    <2>2. TypeOK'
      BY <1>5, <1>7, <2>1 DEF Inv, TypeOK, Tree
    <2>3. Loop' /\ Count'
      BY <1>5, <1>6, <1>8, <1>9, <2>1 DEF Loop, Count
    <2> QED
      BY <1>2, <1>5, <1>6, <2>2, <2>3 DEF Inv
  <1>11. CASE u.color # "black"
    <2>1. pc' = pc /\ x' = x /\ x_parent' = x_parent /\ size' = size - 1 /\ ret' = tree.elem[k]
      BY <1>3, <1>11 DEF Remove
    <2>2. size' = Cardinality(Members')
      BY <1>8, <1>9, <2>1
    <2>3. TypeOK'
      BY <1>7, <1>9, <2>1, <2>2 DEF Inv, TypeOK, Tree
    <2>4. Loop' /\ Count'
      BY <1>2, <2>1, <2>2 DEF Loop, Count
    <2> QED
      BY <1>2, <1>5, <1>6, <2>3, <2>4 DEF Inv
  <1> QED
    BY <1>10, <1>11

(* rbtree_remove of an absent key changes nothing. *)
LEMMA RemoveAbsentInv ==
  ASSUME Inv, NEW k \in Key, RemoveAbsent(k)
  PROVE  Inv' /\ k \notin Members /\ tree' = tree
  <1>1. Descend(tree, k) = k <=> k \in Members
    BY FindIs DEF Inv, Members
  <1>2. k \notin Members /\ tree' = tree
    BY <1>1 DEF RemoveAbsent
  <1>3. Members' = Members
    BY <1>2 DEF Members
  <1> QED
    BY <1>2, <1>3 DEF RemoveAbsent, Inv, TypeOK, Loop, Count

(* An iteration of delete_fixup moves no element. *)
LEMMA DeleteFixupInv ==
  ASSUME Inv, DeleteFixup
  PROVE  Inv' /\ tree'.elem = tree.elem
  <1>1. PICK d, t, w : /\ d = (IF x = tree.kid[x_parent]["left"] THEN "left" ELSE "right")
                       /\ t = DeleteRedSibling(tree, x_parent, d) /\ w = t.kid[x_parent][Opp(d)]
    OBVIOUS
  <1>2. pc = "delete_fixup" /\ x_parent \in Members /\ Search(tree, Members) /\ w # Null
    BY <1>1, Zenon DEF DeleteFixup, Inv, Loop
  <1>3. d \in Dir /\ Opp(d) \in Dir
    BY <1>1 DEF Opp, Dir
  <1>4. Search(t, Members) /\ t.elem = tree.elem
    BY <1>1, <1>2, <1>3, DeleteRedSiblingSearch
  <1>5. /\ Search(tree', Members) /\ tree'.elem = tree.elem /\ x' \in Members \cup {Null}
        /\ x_parent' \in Node
        /\ x' = tree'.root \/ x_parent' \in Members
    <2>1. CASE \A s \in Dir : ~ IsRed(t, t.kid[w][s])
      <3>1. tree' = Paint(t, w, "red") /\ x' = x_parent /\ x_parent' = t.parent[x_parent]
        BY <1>1, <2>1, Zenon DEF DeleteFixup
      <3>2. w \in Members
        <4>1. t.kid[x_parent][Opp(d)] \in Members \cup {Null}
          BY <1>2, <1>3, <1>4, SearchIs
        <4> QED
          BY <1>1, <1>2, <4>1
      <3>3. Kept(tree', t, Members) /\ tree'.root = t.root
        <4>1. Kept(tree', t, Members)
          BY <1>4, <3>1, <3>2, PaintKeeps
        <4>2. t \in Tree
          BY <1>4, SearchIs
        <4>3. tree'.root = t.root
          BY <3>1, <4>2 DEF Paint, Tree
        <4> QED
          BY <4>1, <4>3
      <3>4. /\ t.parent[x_parent] \in Members \cup {Null} /\ Members \subseteq Key
            /\ t.parent[x_parent] = Null <=> x_parent = t.root
        BY <1>2, <1>4, SearchIs
      <3> QED
        BY <1>2, <1>4, <3>1, <3>3, <3>4 DEF Kept, Node
    <2>2. CASE \E s \in Dir : IsRed(t, t.kid[w][s])
      <3>1. tree' = DeleteRotate(t, x_parent, d) /\ x' = tree'.root /\ x_parent' = Null
        BY <1>1, <2>2, Zenon DEF DeleteFixup
      <3>2. Search(tree', Members) /\ tree'.elem = t.elem
        <4>1. PICK s, M, p : s = tree' /\ M = Members /\ p = x_parent
          BY Zenon
        <4>2. /\ Search(t, M) /\ p \in M /\ d \in Dir /\ w = t.kid[p][Opp(d)] /\ w # Null
              /\ s = DeleteRotate(t, p, d)
          BY <1>1, <1>2, <1>3, <1>4, <3>1, <4>1
        <4>3. Search(s, M) /\ s.elem = t.elem
          BY <2>2, <4>2, DeleteRotateSearch
        <4> QED
          BY <4>1, <4>3
      <3>3. x' \in Members \cup {Null}
        BY <3>1, <3>2, SearchIs
      <3> QED
        BY <1>4, <3>1, <3>2, <3>3 DEF Node
    <2> QED
      BY <2>1, <2>2
  <1>6. pc' = pc /\ size' = size /\ ret' = ret
    BY Zenon DEF DeleteFixup
  <1> QED
    BY <1>2, <1>5, <1>6, StepKeeps

(* The end of delete_fixup moves no element. *)
LEMMA DeleteDoneInv ==
  ASSUME Inv, DeleteDone
  PROVE  Inv' /\ tree'.elem = tree.elem
  <1>1. pc = "delete_fixup" /\ x \in Members \cup {Null} /\ Search(tree, Members)
    BY DEF DeleteDone, Inv, Loop
  <1>2. Search(tree', Members) /\ tree'.elem = tree.elem
    <2>1. CASE x = Null
      BY <1>1, <2>1 DEF DeleteDone
    <2>2. CASE x # Null
      <3>1. Kept(tree', tree, Members)
        BY <1>1, <2>2, PaintKeeps DEF DeleteDone
      <3> QED
        BY <3>1 DEF Kept
    <2> QED
      BY <2>1, <2>2
  <1>3. Members' = Members /\ tree' \in Tree
    BY <1>2, SearchIs DEF Members
  <1>4. Cardinality(Members) \in Nat
    BY KeysFinite DEF Members
  <1>5. TypeOK' /\ Loop' /\ Count'
    BY <1>1, <1>3, <1>4 DEF DeleteDone, Inv, TypeOK, Loop, Count
  <1> QED
    BY <1>2, <1>3, <1>5 DEF Inv

(* rbtree_dispose forgets every key. *)
LEMMA DisposeInv ==
  ASSUME Inv, Dispose
  PROVE  Inv' /\ \A j \in Key : tree'.elem[j] = Nil
  <1>1. tree' = Empty /\ \A j \in Key : tree'.elem[j] = Nil
    BY DEF Dispose, Empty
  <1>2. Members' = {}
    BY <1>1 DEF Members
  <1>3. Search(tree', Members')
    BY <1>1, <1>2, EmptySearch
  <1>4. tree' \in Tree
    BY <1>3, SearchIs
  <1>5. Cardinality(Members') = 0
    BY <1>2, FS_EmptySet
  <1>6. TypeOK' /\ Loop' /\ Count'
    BY <1>4, <1>5 DEF Dispose, Inv, TypeOK, Loop, Count
  <1> QED
    BY <1>1, <1>3, <1>6 DEF Inv

(* A step outside of the tree keeps the invariant. *)
LEMMA StutterInv == ASSUME Inv, UNCHANGED vars PROVE Inv'
  BY DEF vars, Inv, TypeOK, Members, Loop, Count

(* Every step keeps the invariant. *)
LEMMA NextInv == Inv /\ [Next]_vars => Inv'
  <1> SUFFICES ASSUME Inv, [Next]_vars PROVE Inv'
    OBVIOUS
  <1>1. ASSUME NEW k \in Key, NEW e \in Elem[k], InsertReplaces(k, e) \/ InsertLinks(k, e) PROVE Inv'
    BY <1>1, InsertReplacesInv, InsertLinksInv
  <1>2. ASSUME NEW k \in Key, Remove(k) \/ RemoveAbsent(k) PROVE Inv'
    BY <1>2, RemoveInv, RemoveAbsentInv
  <1>3. CASE InsertFixup \/ InsertDone
    BY <1>3, InsertFixupInv, InsertDoneInv
  <1>4. CASE DeleteFixup \/ DeleteDone
    BY <1>4, DeleteFixupInv, DeleteDoneInv
  <1>5. CASE Dispose
    BY <1>5, DisposeInv
  <1>6. CASE UNCHANGED vars
    BY <1>6, StutterInv
  <1> QED
    BY <1>1, <1>2, <1>3, <1>4, <1>5, <1>6 DEF Next

(* The invariant implies the shape of the tree. *)
LEMMA InvShape == Inv => Shape
  <1> SUFFICES ASSUME Inv PROVE Shape
    OBVIOUS
  <1>1. Search(tree, Members)
    BY DEF Inv
  <1>2. tree.root = Null <=> Members = {}
    BY <1>1, SearchIs
  <1>3. ASSUME NEW k \in Members
        PROVE  /\ tree.parent[k] = Null <=> k = tree.root
               /\ k # tree.root => tree.kid[tree.parent[k]][Side(tree, k)] = k
    BY <1>1, SearchIs
  <1>4. ASSUME NEW k \in Members, NEW d \in Dir, tree.kid[k][d] # Null
        PROVE  /\ tree.kid[k][d] \in Members /\ tree.parent[tree.kid[k][d]] = k
               /\ d = Toward(k, tree.kid[k][d])
    BY <1>1, <1>4, SearchIs
  <1> QED
    BY <1>2, <1>3, <1>4 DEF Inv, Shape

(* In every state, in the middle of a fixup too, children and parent        *)
(* pointers of core/rbtree.c are inverse, children lie on their side, and   *)
(* exactly one node has no parent.                                          *)
THEOREM ShapeCorrect == Spec => []Shape
  BY InitInv, NextInv, InvShape, PTL DEF Spec

-----------------------------------------------------------------------------
(* the ordered map *)

(* what rbtree_find answers *)
Answers == [k \in Key |-> Find(tree, k)]

(* rbtree_find answers with the element stored at the key. *)
LEMMA AnswersIs == Inv => \A k \in Key : Answers[k] = tree.elem[k]
  <1> SUFFICES ASSUME Inv PROVE \A k \in Key : Answers[k] = tree.elem[k]
    OBVIOUS
  <1>1. \A k \in Key : Find(tree, k) = tree.elem[k]
    BY FindIs DEF Inv, Members
  <1> QED
    BY <1>1 DEF Answers

(* Every step is one of the map, or leaves the answers and the last result. *)
LEMMA NextAnswers ==
  ASSUME Inv, [Next]_vars
  PROVE  [Promise!Next]_<<Answers, ret>>
  <1>1. Inv'
    BY NextInv
  <1>2. \A k \in Key : Answers[k] = tree.elem[k]
    BY AnswersIs
  <1>3. (\A k \in Key : Answers[k] = tree.elem[k])'
    BY <1>1, AnswersIs, PTL
  <1>4. DOMAIN Answers' = Key
    BY DEF Answers
  <1>5. tree'.elem = tree.elem => Answers' = Answers
    BY <1>2, <1>3 DEF Answers
  <1>6. ASSUME NEW k \in Key, NEW e \in Elem[k], InsertReplaces(k, e) \/ InsertLinks(k, e)
        PROVE  Promise!Insert(k, e)
    <2>1. \A j \in Key : tree'.elem[j] = IF j = k THEN e ELSE tree.elem[j]
      BY <1>6, InsertReplacesInv, InsertLinksInv
    <2>2. InsertLinks(k, e) => tree.elem[k] = Nil
      BY InsertLinksInv DEF Members
    <2>3. ret' = Answers[k]
      BY <1>2, <1>6, <2>2 DEF InsertReplaces, InsertLinks
    <2> QED
      BY <1>2, <1>3, <1>4, <2>1, <2>3 DEF Promise!Insert, Promise!Put, Answers
  <1>7. ASSUME NEW k \in Key, Remove(k) \/ RemoveAbsent(k)
        PROVE  Promise!Remove(k)
    <2>1. \A j \in Key : tree'.elem[j] = IF j = k THEN Nil ELSE tree.elem[j]
      BY <1>7, RemoveInv, RemoveAbsentInv DEF Members
    <2>2. RemoveAbsent(k) => tree.elem[k] = Nil
      BY RemoveAbsentInv DEF Members
    <2>3. ret' = Answers[k]
      BY <1>2, <1>7, <2>2 DEF Remove, RemoveAbsent
    <2> QED
      BY <1>2, <1>3, <1>4, <2>1, <2>3 DEF Promise!Remove, Promise!Put, Answers
  <1>8. CASE InsertFixup \/ InsertDone \/ DeleteFixup \/ DeleteDone
    <2>1. tree'.elem = tree.elem
      BY <1>8, InsertFixupInv, InsertDoneInv, DeleteFixupInv, DeleteDoneInv
    <2>2. ret' = ret
      BY <1>8, Zenon DEF InsertFixup, InsertDone, DeleteFixup, DeleteDone
    <2> QED
      BY <1>5, <2>1, <2>2
  <1>9. CASE Dispose
    <2>1. \A j \in Key : tree'.elem[j] = Nil
      BY <1>9, DisposeInv
    <2>2. ret' = Nil
      BY <1>9 DEF Dispose
    <2> QED
      BY <1>3, <1>4, <2>1, <2>2 DEF Promise!Next, Promise!Dispose, Answers
  <1>10. CASE UNCHANGED vars
    BY <1>5, <1>10 DEF vars
  <1>11. \A k \in Key : Promise!Remove(k) => Promise!Next
    BY DEF Promise!Next
  <1>12. \A k \in Key : \A e \in Elem[k] : Promise!Insert(k, e) => Promise!Next
    BY DEF Promise!Next
  <1> QED
    BY <1>6, <1>7, <1>8, <1>9, <1>10, <1>11, <1>12 DEF Next

(* A new tree answers like the empty map. *)
LEMMA InitAnswers == Init => Promise!Init
  <1> SUFFICES ASSUME Init PROVE Promise!Init
    OBVIOUS
  <1>1. \A k \in Key : tree.elem[k] = Nil
    BY DEF Init, Empty
  <1>2. \A k \in Key : Answers[k] = Nil
    BY <1>1, InitInv, AnswersIs
  <1> QED
    BY <1>2 DEF Promise!Init, Answers, Init

(* The tree is the map of rbtree.h: rbtree_find answers what was inserted   *)
(* last, insert and remove return what was found before and change the      *)
(* answer for their key only, and no step of a fixup changes any answer.    *)
THEOREM MapCorrect == Spec => ImplementsMap
  <1>1. Inv /\ [Next]_vars => [Promise!Next]_<<Answers, ret>>
    BY NextAnswers
  <1>2. Spec => []Inv
    BY InitInv, NextInv, PTL DEF Spec
  <1>3. Spec => Promise!Init /\ [][Promise!Next]_<<Answers, ret>>
    BY <1>1, <1>2, InitAnswers, PTL DEF Spec
  <1> QED
    BY <1>3, PTL DEF ImplementsMap, Promise!Spec, Answers

-----------------------------------------------------------------------------
(* colors *)

Black(t, k) == IF t.color[k] = "black" THEN 1 ELSE 0

(* d is the side of p where a black node is missing *)
Short(p, d, k, e) == IF k = p /\ e = d THEN 1 ELSE 0

(* H[k] is the number of black nodes on every path down from k, with the    *)
(* missing one counted                                                      *)
Heights(t, M, H, p, d) ==
  /\ H \in [Node -> Nat] /\ H[Null] = 0
  /\ \A k \in M, e \in Dir : H[k] = H[t.kid[k][e]] + Short(p, d, k, e) + Black(t, k)

(* no red node has a red child, but for the child n or below the node m *)
Calm(t, M, n, m) ==
  \A k \in M, e \in Dir : IsRed(t, k) /\ IsRed(t, t.kid[k][e]) => t.kid[k][e] = n \/ k = m

(* s is t with y rotated to the place of its parent n, to side d *)
Turned(s, t, M, n, y, d) ==
  /\ Search(s, M) /\ s.color = t.color /\ y \in M /\ y # n /\ y = t.kid[n][Opp(d)]
  /\ s.root = IF n = t.root THEN y ELSE t.root
  /\ s.parent[n] = y /\ s.parent[y] = t.parent[n]
  /\ s.kid[n][d] = t.kid[n][d] /\ s.kid[n][Opp(d)] = t.kid[y][d]
  /\ s.kid[y][d] = n /\ s.kid[y][Opp(d)] = t.kid[y][Opp(d)]
  /\ \A k \in M \ {n, y}, e \in Dir :
       t.kid[k][e] # y /\ s.kid[k][e] = IF t.kid[k][e] = n THEN y ELSE t.kid[k][e]
  /\ \A e \in Dir : t.kid[y][e] \notin {n, y} /\ t.kid[n][d] \notin {n, y}

(* The sums with at most two black nodes that the cases of the fixups need. *)
LEMMA NoneMore == \A i \in Nat : i + 0 = i /\ i + 0 + 0 = i
  OBVIOUS

LEMMA OneMore == \A i \in Nat : i + 1 \in Nat /\ i + 1 + 0 = i + 1 /\ i + 1 + 1 = i + 2
  OBVIOUS

LEMMA OneLess == \A i \in Nat : \A j : j = i + 1 => j - 1 = i
  OBVIOUS

(* What a rotation does to the pointers. *)
LEMMA RotateTurns ==
  ASSUME NEW t, NEW M, Search(t, M), NEW n \in M, NEW d \in Dir, t.kid[n][Opp(d)] # Null
  PROVE  Turned(Rotate(t, n, d), t, M, n, t.kid[n][Opp(d)], d)
  <1>a. PICK s, y : s = Rotate(t, n, d) /\ y = t.kid[n][Opp(d)]
    OBVIOUS
  <1>1. PICK lo, hi \in [Key -> Nat] : Spans(t, M, lo, hi)
    BY DEF Search
  <1>2. /\ Linked(t, M) /\ M \subseteq Key /\ Opp(d) \in Dir /\ Opp(d) # d /\ n # Null /\ Null \notin M
        /\ Opp(Opp(d)) = d
    BY RBTreeAssumption, Zenon DEF Search, Linked, Opp, Dir
  <1>3. Search(s, M)
    BY <1>a, RotateSearch
  <1>4. PICK m, p : m = t.kid[y][d] /\ p = t.parent[n]
    OBVIOUS
  <1>5. /\ SameData(s, t)
        /\ y \in M /\ y # n /\ m \in M \cup {Null} /\ m # n /\ m # y
        /\ p # n /\ p # y /\ (m # Null => m # p)
        /\ s.root = IF n = t.root THEN y ELSE t.root
        /\ \A k \in Key : s.parent[k] = IF k = n THEN y ELSE IF k = y THEN p
                                        ELSE IF k = m THEN n ELSE t.parent[k]
        /\ \A k \in Key, e \in Dir :
             s.kid[k][e] = IF k = n /\ e = Opp(d) THEN m ELSE IF k = y /\ e = d THEN n
                           ELSE IF t.kid[k][e] = n THEN y ELSE t.kid[k][e]
    BY <1>1, <1>2, <1>4, <1>a, RotateLinked
  <1>6. s.parent[n] = y /\ s.parent[y] = p
    BY <1>2, <1>5
  <1>7. \A e \in Dir : t.kid[y][e] # n /\ t.kid[y][e] # y
    BY <1>1, <1>2, <1>a, ChildIs
  <1>8. t.kid[n][d] # n /\ t.kid[n][d] # y
    <2>1. CASE t.kid[n][d] = Null
      BY <1>2, <1>a, <2>1
    <2>2. CASE t.kid[n][d] # Null
      BY <1>1, <1>2, <1>a, <2>2, ChildIs
    <2> QED
      BY <2>1, <2>2
  <1>9. ASSUME NEW k \in M \ {n, y}, NEW e \in Dir PROVE t.kid[k][e] # y
    <2>1. y # Null /\ t.parent[y] = n
      BY <1>2, <1>a DEF Linked
    <2> QED
      BY <1>2, <2>1 DEF Linked
  <1>10. /\ s.kid[n][d] = t.kid[n][d] /\ s.kid[n][Opp(d)] = m /\ s.kid[y][d] = n
         /\ s.kid[y][Opp(d)] = t.kid[y][Opp(d)]
    BY <1>2, <1>5, <1>7, <1>8
  <1>11. \A k \in M \ {n, y}, e \in Dir :
           s.kid[k][e] = IF t.kid[k][e] = n THEN y ELSE t.kid[k][e]
    BY <1>2, <1>5
  <1>12. Turned(s, t, M, n, y, d)
    BY <1>3, <1>4, <1>5, <1>6, <1>7, <1>8, <1>9, <1>10, <1>11, <1>a, Zenon DEF SameData, Turned
  <1> QED
    BY <1>12, <1>a

(* H with new heights for two nodes *)
Two(H, n, a, y, b) == [k \in Node |-> IF k = n THEN a ELSE IF k = y THEN b ELSE H[k]]

(* hn, and the height of n for y, fit a rotation *)
Fits(t, H, p, e, n, y, d, hn) ==
  /\ hn \in Nat /\ hn = H[t.kid[n][d]] + Short(p, e, n, d) + Black(t, n)
  /\ hn = H[t.kid[y][d]] + Black(t, n)
  /\ H[n] = hn + Black(t, y) /\ H[n] = H[t.kid[y][Opp(d)]] + Black(t, y)
  /\ p # y /\ (p = n => e = d)

(* A rotation keeps the heights, if the two nodes get heights that fit.     *)
LEMMA TurnHeights ==
  ASSUME NEW t, NEW M, Search(t, M), NEW s, NEW n \in M, NEW y, NEW d \in Dir, Turned(s, t, M, n, y, d),
         NEW H, NEW p, NEW e, NEW hn, Heights(t, M \ {n, y}, H, p, e), Fits(t, H, p, e, n, y, d, hn)
  PROVE  Heights(s, M, Two(H, n, hn, y, H[n]), p, e)
  <1> DEFINE G == Two(H, n, hn, y, H[n])
  <1>0. /\ M \subseteq Key /\ Null \notin M /\ Opp(d) \in Dir /\ Opp(d) # d /\ y \in M /\ y # n
        /\ n \in Node /\ y \in Node /\ \A f \in Dir : f = d \/ f = Opp(d)
    BY SearchIs, Zenon DEF Turned, Opp, Dir, Node
  <1>f. /\ hn \in Nat /\ hn = H[t.kid[n][d]] + Short(p, e, n, d) + Black(t, n)
        /\ hn = H[t.kid[y][d]] + Black(t, n)
        /\ H[n] = hn + Black(t, y) /\ H[n] = H[t.kid[y][Opp(d)]] + Black(t, y)
        /\ p # y /\ (p = n => e = d)
    BY DEF Fits
  <1>1. G \in [Node -> Nat] /\ G[Null] = 0
    BY <1>0, <1>f, Zenon DEF Heights, Two, Node
  <1>2. G[n] = hn /\ G[y] = H[n] /\ \A k : k \in Node \ {n, y} => G[k] = H[k]
    BY <1>0, <1>f DEF Heights, Two
  <1> HIDE DEF G
  <1>3. \A k \in M, f \in Dir : Black(s, k) = Black(t, k) /\ t.kid[k][f] \in Node
    <2>1. \A k \in M, f \in Dir : t.kid[k][f] \in Node
      BY SearchIs DEF Node, Tree
    <2> QED
      BY <1>0, <1>f, <2>1, Zenon DEF Turned, Black
  <1>4. ASSUME NEW f \in Dir
        PROVE  G[n] = G[s.kid[n][f]] + Short(p, e, n, f) + Black(s, n)
    <2>1. CASE f = d
      <3>1. s.kid[n][f] = t.kid[n][d] /\ t.kid[n][d] \in Node \ {n, y}
        BY <1>0, <1>3, <2>1 DEF Turned
      <3>2. G[t.kid[n][d]] = H[t.kid[n][d]] /\ Black(s, n) = Black(t, n)
        BY <1>2, <1>3, <3>1
      <3> QED
        BY <1>f, <1>2, <2>1, <3>1, <3>2
    <2>2. CASE f = Opp(d)
      <3>1. Short(p, e, n, f) = 0
        BY <1>0, <1>f, <2>2 DEF Short
      <3>2. s.kid[n][f] = t.kid[y][d] /\ G[t.kid[y][d]] = H[t.kid[y][d]]
        BY <1>0, <1>f, <1>2, <1>3, <2>2, Zenon DEF Turned
      <3>3. H[t.kid[y][d]] \in Nat /\ Black(t, n) \in Nat
        BY <1>0, <1>f, <1>3, Zenon DEF Heights, Black
      <3> QED
        BY <1>f, <1>2, <1>3, <3>1, <3>2, <3>3
    <2> QED
      BY <1>0, <1>f, <2>1, <2>2
  <1>5. ASSUME NEW f \in Dir
        PROVE  G[y] = G[s.kid[y][f]] + Short(p, e, y, f) + Black(s, y)
    <2>1. Short(p, e, y, f) = 0 /\ Black(t, y) \in Nat /\ Black(s, y) = Black(t, y)
      BY <1>0, <1>f, <1>3 DEF Short, Black
    <2>2. CASE f = d
      <3>1. s.kid[y][f] = n
        BY <2>2 DEF Turned
      <3> QED
        BY <1>f, <1>2, <2>1, <3>1
    <2>3. CASE f = Opp(d)
      <3>1. s.kid[y][f] = t.kid[y][f] /\ t.kid[y][f] \in Node \ {n, y}
        BY <1>0, <1>f, <1>3, <2>3 DEF Turned
      <3>2. H[t.kid[y][f]] \in Nat
        BY <3>1 DEF Heights
      <3> QED
        BY <1>f, <1>2, <2>1, <2>3, <3>1, <3>2
    <2> QED
      BY <1>0, <1>f, <2>2, <2>3
  <1>6. ASSUME NEW k \in M \ {n, y}, NEW f \in Dir
        PROVE  G[k] = G[s.kid[k][f]] + Short(p, e, k, f) + Black(s, k)
    <2>1. H[k] = H[t.kid[k][f]] + Short(p, e, k, f) + Black(t, k)
      BY DEF Heights
    <2>2. G[k] = H[k]
      BY <1>0, <1>f, <1>2, Zenon DEF Node
    <2>3. t.kid[k][f] # y /\ s.kid[k][f] = IF t.kid[k][f] = n THEN y ELSE t.kid[k][f]
      BY DEF Turned
    <2>4. G[s.kid[k][f]] = H[t.kid[k][f]]
      BY <1>f, <1>2, <1>3, <2>3
    <2> QED
      BY <1>3, <2>1, <2>2, <2>4
  <1>7. \A k \in M, f \in Dir : G[k] = G[s.kid[k][f]] + Short(p, e, k, f) + Black(s, k)
    BY <1>4, <1>5, <1>6
  <1>8. Heights(s, M, G, p, e)
    BY <1>1, <1>7 DEF Heights
  <1> QED
    BY <1>8 DEF G

(* what a recoloring does to a search tree *)
Colored(s, t, M, n, c) ==
  /\ Search(s, M) /\ s.elem = t.elem /\ s.kid = t.kid /\ s.root = t.root /\ s.parent = t.parent
  /\ \A k \in M : s.color[k] = IF k = n THEN c ELSE t.color[k]

(* Every node has one of the two colors. *)
LEMMA TreeColors == \A t \in Tree, k \in Key : t.color[k] \in {"red", "black"}
  BY DEF Tree

(* A recoloring changes one color. *)
LEMMA PaintColors ==
  ASSUME NEW t, NEW M, Search(t, M), NEW n \in M
  PROVE  /\ Colored(Paint(t, n, "red"), t, M, n, "red")
         /\ Colored(Paint(t, n, "black"), t, M, n, "black")
  <1>1. t \in Tree /\ n \in Key /\ M \subseteq Key
    BY SearchIs
  <1>2. Painted(Paint(t, n, "red"), t, n, "red") /\ Painted(Paint(t, n, "black"), t, n, "black")
    BY <1>1, PaintIs
  <1>3. Search(Paint(t, n, "red"), M) /\ Search(Paint(t, n, "black"), M)
    BY PaintSearch
  <1> QED
    BY <1>1, <1>2, <1>3 DEF Painted, Colored

(* Heights without a missing node. *)
LEMMA EvenHeights ==
  ASSUME NEW t, NEW M, Search(t, M), NEW H, NEW d
  PROVE  Heights(t, M, H, Null, d) <=>
           /\ H \in [Node -> Nat] /\ H[Null] = 0
           /\ \A k \in M, e \in Dir : H[k] = H[t.kid[k][e]] + Black(t, k)
  <1>1. \A k \in M, e \in Dir : t.kid[k][e] \in Node /\ k # Null
    BY SearchIs DEF Node
  <1>2. \A k \in M, e \in Dir : Short(Null, d, k, e) = 0
    BY <1>1 DEF Short
  <1>3. ASSUME H \in [Node -> Nat], NEW k \in M, NEW e \in Dir
        PROVE  H[t.kid[k][e]] + Short(Null, d, k, e) + Black(t, k) = H[t.kid[k][e]] + Black(t, k)
    <2>1. H[t.kid[k][e]] \in Nat /\ Black(t, k) \in Nat
      BY <1>1, <1>3 DEF Black
    <2> QED
      BY <1>2, <2>1
  <1> QED
    BY <1>3 DEF Heights

-----------------------------------------------------------------------------
(* insert_fixup *)

(* as many black nodes on every path down *)
Even(t, M) == \E H : Heights(t, M, H, Null, "left")

(* between the iterations of insert_fixup: z is red, and nothing else is    *)
(* wrong than that its parent may be                                        *)
Rising(t, M, z) ==
  /\ Search(t, M) /\ Even(t, M) /\ Calm(t, M, z, Null) /\ z \in M /\ IsRed(t, z)
  /\ IsRed(t, t.root) => z = t.root

(* the parent p of a red node z is red, on side d of g *)
Above(t, M, z, p, g, d) ==
  /\ p \in M /\ g \in M /\ d \in Dir /\ p = t.parent[z] /\ g = t.parent[p]
  /\ IsRed(t, p) /\ ~ IsRed(t, g) /\ t.kid[g][d] = p /\ t.kid[g][Opp(d)] # p
  /\ z # p /\ g # p /\ g # z
  /\ \E e \in Dir : t.kid[p][e] = z /\ t.kid[p][Opp(e)] # z

(* A red node with a red parent has a black grandparent. *)
LEMMA RisingAbove ==
  ASSUME NEW t, NEW M, NEW z, Rising(t, M, z), IsRed(t, t.parent[z])
  PROVE  Above(t, M, z, t.parent[z], t.parent[t.parent[z]], Side(t, t.parent[z]))
  <1>1. PICK p, g, d : p = t.parent[z] /\ g = t.parent[p] /\ d = Side(t, p)
    OBVIOUS
  <1>2. PICK lo, hi \in [Key -> Nat] : Spans(t, M, lo, hi)
    BY DEF Rising, Search
  <1>3. Linked(t, M) /\ z \in M /\ Null \notin M
    BY SearchIs DEF Rising, Search
  <1>4. p # Null /\ z # t.root
    BY <1>1, <1>2, <1>3, ParentIs DEF IsRed
  <1>5. /\ p \in M /\ p # z /\ t.kid[p][Side(t, z)] = z /\ t.kid[p][Opp(Side(t, z))] # z
        /\ Side(t, z) \in Dir
    BY <1>1, <1>2, <1>3, <1>4, ParentIs
  <1>6. p # t.root
    BY <1>1, <1>3, <1>4 DEF Rising
  <1>7. /\ g \in M /\ g # p /\ t.kid[g][d] = p /\ t.kid[g][Opp(d)] # p /\ d \in Dir
    BY <1>1, <1>2, <1>3, <1>5, <1>6, ParentIs
  <1>8. g # z
    <2>1. t.kid[p][Side(t, z)] # Null
      BY <1>3, <1>5
    <2>2. \A e \in Dir : t.kid[z][e] # p
      BY <1>2, <1>3, <1>5, <2>1, ChildIs
    <2> QED
      BY <1>7, <2>2
  <1>9. ~ IsRed(t, g)
    BY <1>1, <1>3, <1>5, <1>7, Zenon DEF Rising, Calm
  <1>10. Above(t, M, z, p, g, d)
    BY <1>1, <1>5, <1>7, <1>8, <1>9 DEF Above
  <1> QED
    BY <1>1, <1>10

(* The case of a red uncle: the grandparent becomes red, and black nodes    *)
(* are as many as before.                                                   *)
LEMMA RiseRecolor ==
  ASSUME NEW t, NEW M, NEW z, Rising(t, M, z), NEW p, NEW g, NEW d, Above(t, M, z, p, g, d),
         NEW y, y = t.kid[g][Opp(d)], IsRed(t, y), NEW s,
         s = Paint(Paint(Paint(t, p, "black"), y, "black"), g, "red")
  PROVE  Rising(s, M, g)
  <1>1. PICK t1, t2 : t1 = Paint(t, p, "black") /\ t2 = Paint(t1, y, "black")
    OBVIOUS
  <1>0. /\ Search(t, M) /\ p \in M /\ g \in M /\ d \in Dir /\ Opp(d) \in Dir /\ M \subseteq Key
        /\ Null \notin M /\ t \in Tree /\ \A k \in M, e \in Dir : t.kid[k][e] \in M \cup {Null}
        /\ \A e \in Dir : e = d \/ e = Opp(d)
    BY SearchIs, Zenon DEF Rising, Above, Opp, Dir
  <1>2. y \in M /\ y # p /\ y # Null
    BY <1>0, Zenon DEF IsRed, Above
  <1>3. t.parent[y] = g /\ t.parent[p] = g /\ g # y
    <2>1. t.parent[y] = g
      BY <1>0, <1>2, SearchIs
    <2>2. \A k \in M : t.parent[k] # k
      <3>1. PICK lo, hi \in [Key -> Nat] : Spans(t, M, lo, hi)
        BY <1>0 DEF Search
      <3>2. Linked(t, M)
        BY <1>0 DEF Search
      <3> QED
        BY <1>0, <3>1, <3>2, ParentIs
    <2> QED
      BY <1>2, <2>1, <2>2, Zenon DEF Above
  <1>4. Colored(t1, t, M, p, "black")
    BY <1>0, <1>1, PaintColors
  <1>41. Search(t1, M)
    BY <1>4 DEF Colored
  <1>5. Colored(t2, t1, M, y, "black")
    BY <1>1, <1>2, <1>41, PaintColors
  <1>51. Search(t2, M) /\ s = Paint(t2, g, "red")
    BY <1>1, <1>5 DEF Colored
  <1>6. Colored(s, t2, M, g, "red")
    BY <1>0, <1>51, PaintColors
  <1>7. /\ Search(s, M) /\ s.kid = t.kid /\ s.root = t.root
        /\ \A k \in M : s.color[k] = IF k = g THEN "red" ELSE IF k = p \/ k = y THEN "black" ELSE t.color[k]
    BY <1>4, <1>5, <1>6 DEF Colored
  <1>8. PICK H : Heights(t, M, H, Null, "left")
    BY DEF Rising, Even
  <1>9. /\ \A k \in M : t.color[k] \in {"red", "black"} /\ H[k] \in Nat /\ k \in Node
        /\ t.color[p] = "red" /\ t.color[y] = "red" /\ t.color[g] = "black"
    <2>1. \A k \in M : t.color[k] \in {"red", "black"} /\ k \in Node
      BY <1>0 DEF Tree, Node
    <2> QED
      BY <1>0, <1>2, <1>8, <2>1, Zenon DEF Heights, Above, IsRed
  <1>10. \A k \in M, e \in Dir : H[k] = H[t.kid[k][e]] + Black(t, k)
    BY <1>0, <1>8, EvenHeights
  <1> DEFINE G == Two(H, p, H[p] + 1, y, H[y] + 1)
  <1>11. G \in [Node -> Nat] /\ G[Null] = 0
    BY <1>0, <1>2, <1>8, <1>9 DEF Two, Node, Heights
  <1>12. G[p] = H[p] + 1 /\ G[y] = H[y] + 1 /\ \A k \in Node \ {p, y} : G[k] = H[k]
    BY <1>0, <1>2, <1>9 DEF Two
  <1> HIDE DEF G
  <1>13. \A k \in M : Black(s, k) = IF k = g THEN 0 ELSE IF k = p \/ k = y THEN 1 ELSE Black(t, k)
    BY <1>0, <1>2, <1>3, <1>7, Zenon DEF Black
  <1>14. ASSUME NEW k \in M, NEW e \in Dir PROVE G[k] = G[s.kid[k][e]] + Black(s, k)
    <2> DEFINE c == t.kid[k][e]
    <2>0. c \in M \cup {Null} /\ c \in Node /\ s.kid[k][e] = c /\ (c # Null => t.parent[c] = k)
      BY <1>0, <1>7, <1>9, SearchIs DEF Node
    <2>1. H[k] = H[c] + Black(t, k) /\ H[k] \in Nat /\ H[c] \in Nat
      BY <1>8, <1>9, <1>10, <2>0 DEF Heights
    <2> HIDE DEF c
    <2>2. CASE k = g
      <3>1. c \in {p, y}
        BY <1>0, <2>2, Zenon DEF c, Above
      <3>2. G[c] = H[c] + 1 /\ G[k] = H[k] /\ Black(t, k) = 1 /\ Black(s, k) = 0
        BY <1>0, <1>3, <1>9, <1>12, <1>13, <2>2, <3>1, Zenon DEF Black, Above
      <3> QED
        BY <2>0, <2>1, <3>2
    <2>3. CASE k # g
      <3>1. c \notin {p, y}
        BY <1>0, <1>2, <1>3, <2>0, <2>3
      <3>2. G[c] = H[c]
        BY <1>12, <2>0, <3>1
      <3>3. CASE k = p \/ k = y
        <4>1. G[k] = H[k] + 1 /\ Black(t, k) = 0 /\ Black(s, k) = 1
          BY <1>9, <1>12, <1>13, <2>3, <3>3 DEF Black
        <4> QED
          BY <2>0, <2>1, <3>2, <4>1
      <3>4. CASE k # p /\ k # y
        <4>1. G[k] = H[k] /\ Black(s, k) = Black(t, k)
          BY <1>9, <1>12, <1>13, <2>3, <3>4, Zenon
        <4> QED
          BY <2>0, <2>1, <3>2, <4>1
      <3> QED
        BY <3>3, <3>4
    <2> QED
      BY <2>2, <2>3, Zenon
  <1>15. Heights(s, M, G, Null, "left")
    BY <1>7, <1>11, <1>14, EvenHeights, Zenon
  <1>16. Calm(s, M, g, Null)
    <2> SUFFICES ASSUME NEW k \in M, NEW e \in Dir, IsRed(s, k), IsRed(s, s.kid[k][e]), s.kid[k][e] # g
                 PROVE  FALSE
      BY Zenon DEF Calm
    <2> DEFINE c == t.kid[k][e]
    <2>1. c \in M /\ s.kid[k][e] = c /\ c # g
      BY <1>0, <1>7 DEF IsRed
    <2>2. c # p /\ c # y /\ k # p /\ k # y /\ t.color[c] = "red"
      BY <1>7, <2>1, <1>3, <1>2, ZenonT(30) DEF IsRed, Above
    <2>3. k # g
      BY <1>0, <2>2, Zenon DEF Above
    <2>4. t.color[k] = "red"
      BY <1>7, <2>2, <2>3, Zenon DEF IsRed
    <2>5. IsRed(t, k) /\ IsRed(t, t.kid[k][e])
      BY <1>0, <2>1, <2>2, <2>4, Zenon DEF IsRed
    <2>6. t.kid[k][e] = z /\ z # Null
      BY <1>0, <2>5 DEF Rising, Calm, IsRed
    <2>7. k = p
      <3>1. t.kid[k][e] # Null => t.parent[t.kid[k][e]] = k
        BY <1>0, SearchIs
      <3> QED
        BY <2>6, <3>1, Zenon DEF Above
    <2> QED
      BY <2>2, <2>7, Zenon
  <1>17. IsRed(s, g) /\ (IsRed(s, s.root) => g = s.root)
    <2>1. IsRed(s, g)
      BY <1>0, <1>7 DEF IsRed
    <2>2. ASSUME IsRed(s, s.root), g # s.root PROVE FALSE
      <3>1. t.root \in M /\ IsRed(t, t.root)
        BY <1>0, <1>7, <2>2, SearchIs DEF IsRed
      <3>2. z = t.root
        BY <3>1 DEF Rising
      <3>3. t.parent[z] = Null
        BY <1>0, <3>1, <3>2, SearchIs
      <3> QED
        BY <1>0, <3>3, Zenon DEF Above
    <2> QED
      BY <2>1, <2>2
  <1> QED
    BY <1>0, <1>7, <1>15, <1>16, <1>17 DEF Rising, Even

(* The case of a black uncle, z being an outer grandchild: z's parent takes *)
(* the place of the grandparent.                                            *)
LEMMA RiseOuter ==
  ASSUME NEW t, NEW M, NEW z, Rising(t, M, z), NEW p, NEW g, NEW d, Above(t, M, z, p, g, d),
         t.kid[p][d] = z, ~ IsRed(t, t.kid[g][Opp(d)]), NEW s,
         s = Rotate(Paint(Paint(t, p, "black"), g, "red"), g, Opp(d))
  PROVE  Rising(s, M, z)
  <1> DEFINE D == Opp(d)
  <1>0. /\ Search(t, M) /\ p \in M /\ g \in M /\ d \in Dir /\ D \in Dir /\ M \subseteq Key /\ Opp(D) = d /\ D # d
        /\ Null \notin M /\ t \in Tree /\ \A k \in M, e \in Dir : t.kid[k][e] \in M \cup {Null}
        /\ \A e \in Dir : e = d \/ e = D
        /\ t.kid[g][d] = p /\ g # p /\ z \in M /\ z # p /\ z # g /\ t.kid[g][D] # p /\ t.kid[p][D] # z
    <2>1. /\ d \in Dir /\ D \in Dir /\ Opp(D) = d /\ D # d /\ \A e \in Dir : e = d \/ e = D
      BY DEF Above, Opp, Dir
    <2>2. t.kid[p][D] # z
      BY <2>1 DEF Above
    <2> QED
      BY <2>1, <2>2, SearchIs DEF Rising, Above
  <1>1. PICK t2, t3 : t2 = Paint(t, p, "black") /\ t3 = Paint(t2, g, "red")
    OBVIOUS
  <1>2. Colored(t2, t, M, p, "black")
    BY <1>0, <1>1, PaintColors
  <1>3. Search(t2, M)
    BY <1>2 DEF Colored
  <1>4. Colored(t3, t2, M, g, "red")
    BY <1>0, <1>1, <1>3, PaintColors
  <1>5. /\ Search(t3, M) /\ t3.kid = t.kid /\ t3.root = t.root
        /\ \A k \in M : t3.color[k] = IF k = g THEN "red" ELSE IF k = p THEN "black" ELSE t.color[k]
    BY <1>2, <1>4 DEF Colored
  <1>6. Turned(s, t3, M, g, p, D)
    <2>1. t3.kid[g][Opp(D)] = p /\ t3.kid[g][Opp(D)] # Null /\ s = Rotate(t3, g, D)
      BY <1>0, <1>1, <1>5
    <2> QED
      BY <1>0, <1>5, <2>1, RotateTurns
  <1> HIDE DEF D
  <1>7. PICK H : Heights(t, M, H, Null, "left")
    BY DEF Rising, Even
  <1>8. /\ H \in [Node -> Nat] /\ H[Null] = 0 /\ \A k \in M \cup {Null} : H[k] \in Nat
        /\ \A k \in M, e \in Dir : H[k] = H[t.kid[k][e]] + Black(t, k)
    <2>1. \A k \in M \cup {Null} : k \in Node
      BY <1>0 DEF Node
    <2> QED
      BY <1>0, <1>7, <2>1, EvenHeights
  <1>9. /\ Black(t, g) = 1 /\ Black(t, p) = 0 /\ Black(t3, g) = 0 /\ Black(t3, p) = 1
        /\ \A k \in M \ {g, p} : Black(t3, k) = Black(t, k)
    <2>1. t.color[g] = "black" /\ t.color[p] = "red"
      BY <1>0 DEF Above, IsRed, Tree
    <2> QED
      BY <1>0, <1>5, <2>1, Zenon DEF Black
  <1>10. /\ H[g] = H[p] + 1 /\ H[p] = H[t.kid[g][D]] /\ H[p] = H[t.kid[p][D]] /\ H[p] = H[z]
    <2>1. /\ H[g] = H[t.kid[g][d]] + Black(t, g) /\ H[g] = H[t.kid[g][D]] + Black(t, g)
          /\ H[p] = H[t.kid[p][d]] + Black(t, p) /\ H[p] = H[t.kid[p][D]] + Black(t, p)
          /\ H[t.kid[g][D]] \in Nat /\ H[t.kid[p][D]] \in Nat /\ H[z] \in Nat /\ H[p] \in Nat
      BY <1>0, <1>8
    <2> QED
      BY <1>0, <1>9, <2>1
  <1>11. Even(s, M)
    <2>1. Heights(t3, M \ {g, p}, H, Null, "left")
      <3>1. \A k \in M \ {g, p}, e \in Dir : Short(Null, "left", k, e) = 0
        BY <1>0 DEF Short
      <3>2. \A k \in M \ {g, p}, e \in Dir :
              H[k] = H[t3.kid[k][e]] + Short(Null, "left", k, e) + Black(t3, k)
        BY <1>0, <1>5, <1>8, <1>9, <3>1
      <3> QED
        BY <1>8, <3>2 DEF Heights
    <2>2. Short(Null, "left", g, D) = 0 /\ Null # p /\ Null # g
      BY <1>0 DEF Short
    <2>3. /\ H[p] = H[t3.kid[g][D]] + Short(Null, "left", g, D) + Black(t3, g)
          /\ H[p] = H[t3.kid[p][D]] + Black(t3, g) /\ H[g] = H[p] + Black(t3, p)
          /\ H[g] = H[t3.kid[p][Opp(D)]] + Black(t3, p) /\ H[p] \in Nat
      BY <1>0, <1>5, <1>8, <1>9, <1>10, <2>2
    <2>4. Fits(t3, H, Null, "left", g, p, D, H[p])
      BY <2>2, <2>3 DEF Fits
    <2>5. Heights(s, M, Two(H, g, H[p], p, H[g]), Null, "left")
      BY <1>0, <1>5, <1>6, <2>1, <2>4, TurnHeights
    <2> QED
      BY <2>5 DEF Even
  <1>12. \A k \in M : IsRed(s, k) <=> k = g \/ (k # p /\ IsRed(t, k))
    <2>1. s.color = t3.color
      BY <1>6, Zenon DEF Turned
    <2>2. \A k \in M : k # Null
      BY <1>0
    <2> QED
      BY <1>0, <1>5, <2>1, <2>2 DEF IsRed
  <1>13. Calm(s, M, z, Null)
    <2> SUFFICES ASSUME NEW k \in M, NEW e \in Dir, IsRed(s, k), IsRed(s, s.kid[k][e]), s.kid[k][e] # z
                 PROVE  FALSE
      BY DEF Calm
    <2>0. \A c : IsRed(s, c) /\ c \in M \cup {Null} => c \in M
      BY DEF IsRed
    <2>1. CASE k = g
      <3>1. CASE e = D
        <4>1. s.kid[k][e] = t.kid[g][D] /\ t.kid[g][D] \notin {g, p}
          BY <1>0, <1>5, <1>6, <2>1, <3>1, Zenon DEF Turned
        <4> QED
          BY <1>0, <1>12, <2>0, <4>1 DEF D
      <3>2. CASE e = d
        <4>1. s.kid[k][e] = t.kid[p][D] /\ t.kid[p][D] \notin {g, p}
          BY <1>0, <1>5, <1>6, <2>1, <3>2, Zenon DEF Turned
        <4>2. IsRed(t, t.kid[p][D])
          BY <1>0, <1>12, <2>0, <4>1
        <4>3. IsRed(t, p)
          BY Zenon DEF Above
        <4> QED
          BY <1>0, <4>2, <4>3 DEF Rising, Calm
      <3> QED
        BY <1>0, <3>1, <3>2
    <2>2. CASE k = p
      BY <1>0, <1>12, <2>2
    <2>3. CASE k \notin {g, p}
      <3>1. t.kid[k][e] # p /\ s.kid[k][e] = IF t.kid[k][e] = g THEN p ELSE t.kid[k][e]
        <4>1. k \in M \ {g, p}
          BY <2>3
        <4>2. t3.kid[k][e] # p /\ s.kid[k][e] = IF t3.kid[k][e] = g THEN p ELSE t3.kid[k][e]
          BY <1>6, <4>1, Zenon DEF Turned
        <4> QED
          BY <1>5, <4>2
      <3>2. s.kid[k][e] # p
        BY <1>0, <1>12
      <3>3. s.kid[k][e] = t.kid[k][e] /\ t.kid[k][e] \in M /\ t.kid[k][e] # g
        BY <1>0, <2>0, <3>1, <3>2
      <3>4. IsRed(t, k) /\ IsRed(t, t.kid[k][e])
        BY <1>12, <2>3, <3>2, <3>3
      <3> QED
        BY <1>0, <3>3, <3>4 DEF Rising, Calm
    <2> QED
      BY <2>1, <2>2, <2>3
  <1>14. IsRed(s, z)
    BY <1>0, <1>12 DEF Rising
  <1>15. IsRed(s, s.root) => z = s.root
    <2> SUFFICES ASSUME IsRed(s, s.root) PROVE z = s.root
      OBVIOUS
    <2>1. s.root = IF g = t.root THEN p ELSE t.root
      BY <1>5, <1>6, Zenon DEF Turned
    <2>2. t.root \in M
      BY <1>0, SearchIs
    <2>3. s.root \in M /\ s.root # p
      BY <1>0, <1>12, <2>1, <2>2
    <2>4. s.root = t.root /\ t.root # g
      BY <2>1, <2>3
    <2>5. IsRed(t, t.root)
      BY <1>12, <2>3, <2>4
    <2> QED
      BY <2>4, <2>5 DEF Rising
  <1>16. Search(s, M)
    BY <1>6, Zenon DEF Turned
  <1> QED
    BY <1>0, <1>11, <1>13, <1>14, <1>15, <1>16, Zenon DEF Rising

(* An inner grandchild is rotated out first; both nodes are red.            *)
LEMMA RiseInner ==
  ASSUME NEW t, NEW M, NEW z, Rising(t, M, z), NEW p, NEW g, NEW d, Above(t, M, z, p, g, d),
         t.kid[p][Opp(d)] = z, NEW s, s = Rotate(t, p, d)
  PROVE  /\ Rising(s, M, p) /\ Above(s, M, p, z, g, d) /\ s.kid[z][d] = p
         /\ s.kid[g][Opp(d)] = t.kid[g][Opp(d)] /\ s.color = t.color
  <1> DEFINE D == Opp(d)
  <1>0. /\ Search(t, M) /\ p \in M /\ g \in M /\ d \in Dir /\ D \in Dir /\ D # d /\ Opp(D) = d
        /\ Null \notin M /\ t \in Tree /\ \A k \in M, e \in Dir : t.kid[k][e] \in M \cup {Null}
        /\ \A e \in Dir : e = d \/ e = D
        /\ t.kid[g][d] = p /\ g # p /\ z \in M /\ z # p /\ z # g /\ t.kid[g][D] # p
        /\ t.kid[p][D] = z /\ z # Null /\ p = t.parent[z] /\ g = t.parent[p]
        /\ IsRed(t, z) /\ IsRed(t, p) /\ ~ IsRed(t, g)
    <2>1. /\ d \in Dir /\ D \in Dir /\ D # d /\ Opp(D) = d /\ \A e \in Dir : e = d \/ e = D
      BY DEF Above, Opp, Dir
    <2> QED
      BY <2>1, SearchIs DEF Rising, Above
  <1>1. Turned(s, t, M, p, z, d)
    BY <1>0, RotateTurns
  <1>2. /\ Search(s, M) /\ s.color = t.color /\ s.root = IF p = t.root THEN z ELSE t.root
        /\ s.parent[p] = z /\ s.parent[z] = g
        /\ s.kid[p][d] = t.kid[p][d] /\ s.kid[p][D] = t.kid[z][d]
        /\ s.kid[z][d] = p /\ s.kid[z][D] = t.kid[z][D]
        /\ \A e \in Dir : t.kid[z][e] \notin {p, z} /\ t.kid[p][d] \notin {p, z}
    BY <1>0, <1>1, Zenon DEF Turned
  <1>3. ASSUME NEW k \in M \ {p, z}, NEW e \in Dir
        PROVE  t.kid[k][e] # z /\ s.kid[k][e] = IF t.kid[k][e] = p THEN z ELSE t.kid[k][e]
    BY <1>1 DEF Turned
  <1> HIDE DEF D
  <1>4. \A k : IsRed(s, k) <=> IsRed(t, k)
    BY <1>2, Zenon DEF IsRed
  <1>5. t.root # p /\ s.root = t.root /\ ~ IsRed(s, s.root)
    <2>1. z # t.root
      <3>1. t.parent[z] # Null
        BY <1>0
      <3> QED
        BY <1>0, <3>1, SearchIs
    <2>2. ~ IsRed(t, t.root)
      BY <2>1 DEF Rising
    <2> QED
      BY <1>0, <1>2, <1>4, <2>2, Zenon
  <1>6. PICK H : Heights(t, M, H, Null, "left")
    BY DEF Rising, Even
  <1>7. /\ H \in [Node -> Nat] /\ H[Null] = 0 /\ \A k \in M \cup {Null} : H[k] \in Nat
        /\ \A k \in M, e \in Dir : H[k] = H[t.kid[k][e]] + Black(t, k)
    <2>1. \A k \in M \cup {Null} : k \in Node
      BY <1>0, SearchIs DEF Node
    <2> QED
      BY <1>0, <1>6, <2>1, EvenHeights
  <1>8. Even(s, M)
    <2>1. Heights(t, M \ {p, z}, H, Null, "left")
      BY <1>6 DEF Heights
    <2>2. Black(t, p) = 0 /\ Black(t, z) = 0 /\ Null # p /\ Null # z /\ Short(Null, "left", p, d) = 0
      BY <1>0, Zenon DEF Black, IsRed, Short
    <2>3. /\ H[p] = H[t.kid[p][d]] + Black(t, p) /\ H[p] = H[t.kid[p][D]] + Black(t, p)
          /\ H[z] = H[t.kid[z][d]] + Black(t, z) /\ H[z] = H[t.kid[z][D]] + Black(t, z)
          /\ H[t.kid[p][d]] \in Nat /\ H[t.kid[z][d]] \in Nat /\ H[t.kid[z][D]] \in Nat
          /\ H[p] \in Nat /\ H[z] \in Nat
      BY <1>0, <1>7, Zenon
    <2>4. Fits(t, H, Null, "left", p, z, d, H[p])
      <3>1. t.kid[p][D] = z /\ D = Opp(d)
        BY <1>0 DEF D
      <3>2. H[p] = H[t.kid[p][d]] + 0 /\ H[p] = H[z] + 0 /\ H[z] = H[t.kid[z][d]] + 0 /\ H[z] = H[t.kid[z][D]] + 0
        BY <2>2, <2>3, <3>1, Zenon
      <3>3. H[p] = H[t.kid[p][d]] + 0 + 0 /\ H[p] = H[t.kid[z][d]] + 0 /\ H[z] = H[p] + 0
        BY <2>3, <3>2, NoneMore, Zenon
      <3> QED
        BY <2>2, <2>3, <3>1, <3>2, <3>3, Zenon DEF Fits
    <2>5. Heights(s, M, Two(H, p, H[p], z, H[p]), Null, "left")
      BY <1>0, <1>1, <2>1, <2>4, TurnHeights
    <2> QED
      BY <2>5 DEF Even
  <1>9. Calm(s, M, p, Null)
    <2>0. \A k \in M, e \in Dir : IsRed(t, k) /\ IsRed(t, t.kid[k][e]) => t.kid[k][e] = z
      BY <1>0 DEF Rising, Calm
    <2> SUFFICES ASSUME NEW k \in M, NEW e \in Dir, IsRed(t, k), IsRed(t, s.kid[k][e]), s.kid[k][e] # p
                 PROVE  FALSE
      BY <1>4, Zenon DEF Calm
    <2>1. CASE k = p
      <3>1. t.kid[p][d] # z /\ t.kid[z][d] # z
        BY <1>0, <1>2
      <3>2. ~ IsRed(t, t.kid[p][d]) /\ ~ IsRed(t, t.kid[z][d])
        BY <1>0, <2>0, <3>1
      <3>3. s.kid[p][e] = t.kid[p][d] \/ s.kid[p][e] = t.kid[z][d]
        BY <1>0, <1>2
      <3> QED
        BY <2>1, <3>2, <3>3
    <2>2. CASE k = z
      <3>1. t.kid[z][D] # z
        BY <1>0, <1>2
      <3>2. ~ IsRed(t, t.kid[z][D])
        BY <1>0, <2>0, <3>1
      <3>3. s.kid[z][e] = p \/ s.kid[z][e] = t.kid[z][D]
        BY <1>0, <1>2
      <3> QED
        BY <2>2, <3>2, <3>3
    <2>3. CASE k \notin {p, z}
      <3>1. t.kid[k][e] # z /\ s.kid[k][e] = IF t.kid[k][e] = p THEN z ELSE t.kid[k][e]
        BY <1>3, <2>3, Zenon
      <3>2. t.kid[k][e] # p
        BY <1>0, <2>0, <3>1, Zenon
      <3> QED
        BY <2>0, <3>1, <3>2
    <2> QED
      BY <2>1, <2>2, <2>3
  <1>10. Rising(s, M, p)
    BY <1>0, <1>2, <1>4, <1>5, <1>8, <1>9, Zenon DEF Rising
  <1>11. s.kid[g][d] = z /\ s.kid[g][D] = t.kid[g][D] /\ s.kid[g][D] # z
    <2>1. g \in M \ {p, z} /\ d \in Dir /\ D \in Dir /\ t.kid[g][d] = p /\ t.kid[g][D] # p
      BY <1>0, Zenon
    <2>2. s.kid[g][d] = IF t.kid[g][d] = p THEN z ELSE t.kid[g][d]
      BY <1>3, <2>1, Zenon
    <2>3. t.kid[g][D] # z /\ s.kid[g][D] = IF t.kid[g][D] = p THEN z ELSE t.kid[g][D]
      BY <1>3, <2>1, Zenon
    <2> QED
      BY <2>1, <2>2, <2>3, Zenon
  <1>12. Above(s, M, p, z, g, d)
    BY <1>0, <1>2, <1>4, <1>11, Zenon DEF Above, D
  <1> QED
    BY <1>2, <1>10, <1>11, <1>12, Zenon DEF D

(* The case of a black uncle. *)
LEMMA RiseRotate ==
  ASSUME NEW t, NEW M, NEW z, Rising(t, M, z), NEW p, NEW g, NEW d, Above(t, M, z, p, g, d),
         ~ IsRed(t, t.kid[g][Opp(d)]), NEW s, s = InsertRotate(t, z, d)
  PROVE  Rising(s, M, IF z = t.kid[p][Opp(d)] THEN p ELSE z)
  <1>1. p = t.parent[z] /\ g = t.parent[p] /\ d \in Dir /\ \A e \in Dir : e = d \/ e = Opp(d)
    BY DEF Above, Opp, Dir
  <1>2. CASE z = t.kid[p][Opp(d)]
    <2>1. PICK t1 : t1 = Rotate(t, p, d)
      OBVIOUS
    <2>2. /\ Rising(t1, M, p) /\ Above(t1, M, p, z, g, d) /\ t1.kid[z][d] = p
          /\ t1.kid[g][Opp(d)] = t.kid[g][Opp(d)] /\ t1.color = t.color
      BY <1>2, <2>1, RiseInner
    <2>3. ~ IsRed(t1, t1.kid[g][Opp(d)])
      BY <2>2 DEF IsRed
    <2>4. g = t1.parent[z]
      BY <2>2, Zenon DEF Above
    <2>5. s = Rotate(Paint(Paint(t1, z, "black"), g, "red"), g, Opp(d))
      BY <1>1, <1>2, <2>1, <2>4, Zenon DEF InsertRotate
    <2>6. Rising(s, M, p)
      BY <2>2, <2>3, <2>5, RiseOuter
    <2> QED
      BY <1>2, <2>6
  <1>3. CASE z # t.kid[p][Opp(d)]
    <2>1. t.kid[p][d] = z
      BY <1>1, <1>3 DEF Above
    <2>2. s = Rotate(Paint(Paint(t, p, "black"), g, "red"), g, Opp(d))
      BY <1>1, <1>3 DEF InsertRotate
    <2>3. Rising(s, M, z)
      BY <2>1, <2>2, RiseOuter
    <2> QED
      BY <1>3, <2>3
  <1> QED
    BY <1>2, <1>3

(* between calls *)
Level(t, M) == Search(t, M) /\ Even(t, M) /\ Calm(t, M, Null, Null) /\ ~ IsRed(t, t.root)

(* A new leaf is red, and adds no black node. *)
LEMMA LeafRises ==
  ASSUME NEW t, NEW M, Level(t, M), NEW k \in Key \ M, NEW e \in Elems
  PROVE  Rising(WithLeaf(t, k, e), M \cup {k}, k)
  <1> DEFINE N == M \cup {k}
  <1>1. PICK s, p : s = WithLeaf(t, k, e) /\ p = Descend(t, k)
    OBVIOUS
  <1>2. Search(t, M)
    BY DEF Level
  <1>3. /\ Leafed(s, t, k, p)
        /\ \A j \in Key : s.color[j] = IF j = k THEN "red" ELSE t.color[j]
        /\ p \in M \cup {Null} /\ (p = Null <=> M = {})
        /\ p # Null => t.kid[p][Toward(p, k)] = Null
    BY <1>1, <1>2, LeafIs
  <1>4. Search(s, N)
    BY <1>1, <1>2, InsertSearch DEF Altered
  <1>5. /\ M \subseteq Key /\ Null \notin Key /\ k # Null /\ k \notin M
        /\ \A j \in M, d \in Dir : t.kid[j][d] \in M \cup {Null}
        /\ t.root \in M \cup {Null} /\ (t.root = Null <=> M = {})
    BY <1>2, SearchIs
  <1>6. /\ s.root = IF p = Null THEN k ELSE t.root
        /\ \A j \in Key, d \in Dir :
             s.kid[j][d] = IF j = k THEN Null ELSE IF j = p /\ d = Toward(p, k) THEN k ELSE t.kid[j][d]
    BY <1>3 DEF Leafed
  <1>7. PICK H : Heights(t, M, H, Null, "left")
    BY DEF Level, Even
  <1>8. H \in [Node -> Nat] /\ H[Null] = 0 /\ \A j \in M, d \in Dir : H[j] = H[t.kid[j][d]] + Black(t, j)
    BY <1>2, <1>7, EvenHeights
  <1> DEFINE G == [j \in Node |-> IF j = k THEN 0 ELSE H[j]]
  <1>9. G \in [Node -> Nat] /\ G[Null] = 0 /\ G[k] = 0 /\ \A j \in M \cup {Null} : G[j] = H[j]
    BY <1>5, <1>8 DEF Node
  <1> HIDE DEF G
  <1>10. Black(s, k) = 0 /\ \A j \in M : Black(s, j) = Black(t, j)
    BY <1>3, <1>5 DEF Black
  <1>11. ASSUME NEW j \in N, NEW d \in Dir PROVE G[j] = G[s.kid[j][d]] + Black(s, j)
    <2>1. CASE j = k
      <3>1. s.kid[j][d] = Null
        BY <1>6, <2>1
      <3> QED
        BY <1>9, <1>10, <2>1, <3>1
    <2>2. CASE j # k
      <3>1. j \in M /\ j \in Key /\ H[j] = H[t.kid[j][d]] + Black(t, j)
        BY <1>5, <1>8, <2>2
      <3>2. G[s.kid[j][d]] = H[t.kid[j][d]]
        BY <1>3, <1>5, <1>6, <1>8, <1>9, <2>2, <3>1
      <3> QED
        BY <1>9, <1>10, <3>1, <3>2
    <2> QED
      BY <2>1, <2>2
  <1>12. Even(s, N)
    <2>1. Heights(s, N, G, Null, "left")
      BY <1>4, <1>9, <1>11, EvenHeights
    <2> QED
      BY <2>1 DEF Even
  <1>13. \A j \in M : IsRed(s, j) <=> IsRed(t, j)
    BY <1>3, <1>5 DEF IsRed
  <1>14. Calm(s, N, k, Null)
    <2> SUFFICES ASSUME NEW j \in N, NEW d \in Dir, IsRed(s, j), IsRed(s, s.kid[j][d]), s.kid[j][d] # k
                 PROVE  FALSE
      BY DEF Calm
    <2>1. s.kid[j][d] # Null
      BY DEF IsRed
    <2>2. j # k /\ j \in M /\ j \in Key
      BY <1>5, <1>6, <2>1
    <2>3. s.kid[j][d] = t.kid[j][d] /\ t.kid[j][d] \in M
      BY <1>5, <1>6, <2>1, <2>2
    <2>4. IsRed(t, j) /\ IsRed(t, t.kid[j][d])
      BY <1>13, <2>2, <2>3
    <2> QED
      BY <1>5, <2>2, <2>3, <2>4 DEF Level, Calm
  <1>15. IsRed(s, k)
    BY <1>3, <1>5 DEF IsRed
  <1>16. IsRed(s, s.root) => k = s.root
    <2>1. CASE p = Null
      BY <1>6, <2>1
    <2>2. CASE p # Null
      BY <1>3, <1>5, <1>6, <1>13, <2>2 DEF Level
    <2> QED
      BY <2>1, <2>2
  <1> QED
    BY <1>1, <1>4, <1>12, <1>14, <1>15, <1>16 DEF Rising

(* A black root adds as many black nodes to every path. *)
LEMMA RootEven ==
  ASSUME NEW t, NEW M, Search(t, M), Even(t, M), t.root # Null, NEW s,
         s = Paint(t, t.root, "black")
  PROVE  Even(s, M)
  <1>0. /\ t.root \in M /\ Null \notin M /\ M \subseteq Key
        /\ \A k \in M, e \in Dir : t.kid[k][e] \in M \cup {Null}
        /\ \A k \in M, e \in Dir : t.kid[k][e] # Null => t.parent[t.kid[k][e]] = k
        /\ t.parent[t.root] = Null /\ \A k \in M : k \in Node
    BY SearchIs DEF Node
  <1>1. PICK r : r = t.root
    OBVIOUS
  <1>2. Colored(s, t, M, r, "black")
    BY <1>0, <1>1, PaintColors
  <1>3. /\ Search(s, M) /\ s.kid = t.kid /\ s.root = r
        /\ \A k \in M : s.color[k] = IF k = r THEN "black" ELSE t.color[k]
    BY <1>1, <1>2 DEF Colored
  <1>6. PICK H : Heights(t, M, H, Null, "left")
    BY DEF Even
  <1>7. H \in [Node -> Nat] /\ H[Null] = 0 /\ \A j \in M, d \in Dir : H[j] = H[t.kid[j][d]] + Black(t, j)
    BY <1>0, <1>6, EvenHeights
  <1> DEFINE G == [j \in Node |-> IF j = r THEN H[j] - Black(t, r) + 1 ELSE H[j]]
  <1>8. Black(t, r) \in {0, 1} /\ H[r] - Black(t, r) + 1 \in Nat
    <2>1. Black(t, r) \in {0, 1} /\ H[r] \in Nat /\ Black(t, r) <= H[r]
      <3>1. "left" \in Dir /\ t.kid[r]["left"] \in Node /\ r \in Node
        BY <1>0, <1>1 DEF Dir, Node
      <3>2. H[r] = H[t.kid[r]["left"]] + Black(t, r) /\ H[t.kid[r]["left"]] \in Nat
        BY <1>0, <1>1, <1>7, <3>1
      <3> QED
        BY <1>7, <3>1, <3>2 DEF Black
    <2> QED
      BY <2>1
  <1>9. /\ G \in [Node -> Nat] /\ G[Null] = 0 /\ G[r] = H[r] - Black(t, r) + 1
        /\ \A j \in Node \ {r} : G[j] = H[j]
    BY <1>0, <1>1, <1>7, <1>8 DEF Node
  <1> HIDE DEF G
  <1>10. ASSUME NEW j \in M, NEW d \in Dir PROVE G[j] = G[s.kid[j][d]] + Black(s, j)
    <2>1. s.kid[j][d] = t.kid[j][d] /\ t.kid[j][d] # r /\ t.kid[j][d] \in Node
      BY <1>0, <1>1, <1>3 DEF Node
    <2>2. G[s.kid[j][d]] = H[t.kid[j][d]] /\ H[t.kid[j][d]] \in Nat
      BY <1>7, <1>9, <2>1
    <2>3. H[j] = H[t.kid[j][d]] + Black(t, j)
      BY <1>7
    <2>4. CASE j = r
      <3>1. Black(s, j) = 1
        BY <1>3, <2>4 DEF Black
      <3> QED
        BY <1>8, <1>9, <2>2, <2>3, <2>4, <3>1
    <2>5. CASE j # r
      <3>1. Black(s, j) = Black(t, j) /\ G[j] = H[j]
        BY <1>0, <1>3, <1>9, <2>5 DEF Black
      <3> QED
        BY <2>2, <2>3, <3>1
    <2> QED
      BY <2>4, <2>5
  <1>11. Heights(s, M, G, Null, "left")
    BY <1>3, <1>9, <1>10, EvenHeights
  <1> QED
    BY <1>11 DEF Even

(* At the end of insert_fixup the root becomes black. *)
LEMMA RiseEnds ==
  ASSUME NEW t, NEW M, NEW z, Rising(t, M, z), ~ IsRed(t, t.parent[z]), NEW s,
         s = Paint(t, t.root, "black")
  PROVE  Level(s, M)
  <1>0. /\ Search(t, M) /\ t.root \in M /\ Null \notin M /\ z \in M /\ M \subseteq Key
        /\ \A k \in M, e \in Dir : t.kid[k][e] \in M \cup {Null}
        /\ \A k \in M, e \in Dir : t.kid[k][e] # Null => t.parent[t.kid[k][e]] = k
        /\ t.parent[t.root] = Null /\ \A k \in M : k \in Node
    BY SearchIs DEF Rising, Node
  <1>1. PICK r : r = t.root
    OBVIOUS
  <1>2. Colored(s, t, M, r, "black")
    BY <1>0, <1>1, PaintColors
  <1>3. /\ Search(s, M) /\ s.kid = t.kid /\ s.root = r
        /\ \A k \in M : s.color[k] = IF k = r THEN "black" ELSE t.color[k]
    BY <1>1, <1>2 DEF Colored
  <1>4. \A k : IsRed(s, k) /\ k \in M \cup {Null} => IsRed(t, k) /\ k # r /\ k \in M
    BY <1>0, <1>3 DEF IsRed
  <1>5. Calm(s, M, Null, Null) /\ ~ IsRed(s, s.root)
    <2>1. ASSUME NEW k \in M, NEW e \in Dir, IsRed(s, k), IsRed(s, s.kid[k][e]) PROVE FALSE
      <3>1. IsRed(t, k) /\ IsRed(t, t.kid[k][e]) /\ t.kid[k][e] # Null
        BY <1>0, <1>3, <1>4, <2>1 DEF IsRed
      <3>2. t.kid[k][e] = z
        BY <1>0, <3>1 DEF Rising, Calm
      <3> QED
        BY <1>0, <3>1, <3>2
    <2> QED
      BY <1>0, <1>1, <1>3, <1>4, <2>1 DEF Calm
  <1>6. Even(s, M)
    BY <1>0, RootEven DEF Rising
  <1> QED
    BY <1>3, <1>5, <1>6 DEF Level

-----------------------------------------------------------------------------
(* delete_fixup *)

(* between the iterations of delete_fixup: a black node is missing on the   *)
(* paths through c, unless c is the root; c may be red itself               *)
Falling(t, M, c, p) ==
  /\ Search(t, M) /\ Calm(t, M, c, c) /\ c \in M \cup {Null}
  /\ IsRed(t, t.root) => c = t.root
  /\ \/ c = t.root /\ Even(t, M)
     \/ c # t.root /\ p \in M /\ \E d \in Dir : t.kid[p][d] = c /\ \E H : Heights(t, M, H, p, d)

(* in an iteration: a black node is missing on side d of p, where c is      *)
Lacking(t, M, c, p, d) ==
  /\ Search(t, M) /\ Calm(t, M, Null, Null) /\ ~ IsRed(t, t.root)
  /\ p \in M /\ d \in Dir /\ t.kid[p][d] = c /\ ~ IsRed(t, c)
  /\ \E H : Heights(t, M, H, p, d)

(* what is used of the nodes around the missing one *)
Around(t, M, H, c, p, d, w) ==
  /\ p \in M /\ d \in Dir /\ Opp(d) \in Dir /\ Opp(d) # d /\ Opp(Opp(d)) = d
  /\ \A e \in Dir : e = d \/ e = Opp(d)
  /\ M \subseteq Key /\ Null \notin M /\ t \in Tree /\ \A k \in M : k \in Node
  /\ \A k \in M, e \in Dir : t.kid[k][e] \in M \cup {Null} /\ t.kid[k][e] \in Node
  /\ t.root \in M /\ ~ IsRed(t, t.root)
  /\ \A k \in M, e \in Dir : t.kid[k][e] # Null => t.parent[t.kid[k][e]] = k
  /\ c = t.kid[p][d] /\ w = t.kid[p][Opp(d)] /\ ~ IsRed(t, c)
  /\ w \in M /\ w # p /\ w # c /\ c # p /\ \A e \in Dir : t.kid[w][e] \notin {w, p, c} \/ t.kid[w][e] = Null
  /\ H \in [Node -> Nat] /\ H[Null] = 0 /\ \A k \in M \cup {Null} : H[k] \in Nat
  /\ H[p] = H[c] + 1 + Black(t, p) /\ H[p] = H[w] + Black(t, p) /\ H[w] = H[c] + 1
  /\ \A k \in M \ {p}, e \in Dir : H[k] = H[t.kid[k][e]] + Black(t, k)
  /\ \A k \in M, e \in Dir : ~ (IsRed(t, k) /\ IsRed(t, t.kid[k][e]))

(* The sibling exists, since the paths through it have one more black node. *)
LEMMA LackAround ==
  ASSUME NEW t, NEW M, NEW c, NEW p, NEW d, Lacking(t, M, c, p, d), NEW H, Heights(t, M, H, p, d)
  PROVE  Around(t, M, H, c, p, d, t.kid[p][Opp(d)])
  <1>1. PICK w : w = t.kid[p][Opp(d)]
    OBVIOUS
  <1>2. /\ d \in Dir /\ Opp(d) \in Dir /\ Opp(d) # d /\ Opp(Opp(d)) = d
        /\ \A e \in Dir : e = d \/ e = Opp(d)
    BY DEF Lacking, Opp, Dir
  <1>3. /\ Search(t, M) /\ p \in M /\ c = t.kid[p][d] /\ ~ IsRed(t, c) /\ ~ IsRed(t, t.root)
    BY DEF Lacking
  <1>4. /\ M \subseteq Key /\ Null \notin M /\ t \in Tree /\ (\A k \in M : k \in Node)
        /\ \A k \in M, e \in Dir : t.kid[k][e] \in M \cup {Null} /\ t.kid[k][e] \in Node
        /\ \A k \in M, e \in Dir : t.kid[k][e] # Null => t.parent[t.kid[k][e]] = k
        /\ t.root \in M
    BY <1>3, SearchIs DEF Node
  <1>5. H \in [Node -> Nat] /\ H[Null] = 0 /\ \A k \in M \cup {Null} : H[k] \in Nat
    <2>1. \A k \in M \cup {Null} : k \in Node
      BY <1>4 DEF Node
    <2> QED
      BY <2>1 DEF Heights
  <1>6. \A k \in M, e \in Dir : H[k] = H[t.kid[k][e]] + Short(p, d, k, e) + Black(t, k)
    BY DEF Heights
  <1>7. \A k \in M \ {p}, e \in Dir : H[k] = H[t.kid[k][e]] + Black(t, k)
    <2> SUFFICES ASSUME NEW k \in M \ {p}, NEW e \in Dir PROVE H[k] = H[t.kid[k][e]] + Black(t, k)
      OBVIOUS
    <2>1. Short(p, d, k, e) = 0 /\ Black(t, k) \in Nat /\ H[t.kid[k][e]] \in Nat
      BY <1>4, <1>5 DEF Short, Black
    <2> QED
      BY <1>6, <2>1
  <1>8. H[p] = H[c] + 1 + Black(t, p) /\ H[p] = H[w] + Black(t, p) /\ H[w] = H[c] + 1
    <2>1. Short(p, d, p, d) = 1 /\ Short(p, d, p, Opp(d)) = 0
      BY <1>2 DEF Short
    <2>2. H[p] = H[c] + Short(p, d, p, d) + Black(t, p)
      BY <1>2, <1>3, <1>6
    <2>3. H[p] = H[w] + Short(p, d, p, Opp(d)) + Black(t, p)
      BY <1>1, <1>2, <1>3, <1>6
    <2>4. H[c] \in Nat /\ H[w] \in Nat /\ H[p] \in Nat /\ Black(t, p) \in Nat
      BY <1>1, <1>2, <1>3, <1>4, <1>5 DEF Black
    <2> QED
      BY <2>1, <2>2, <2>3, <2>4
  <1>9. w \in M
    <2>1. w # Null
      <3>1. H[c] \in Nat
        BY <1>2, <1>3, <1>4, <1>5
      <3> QED
        BY <1>5, <1>8, <3>1
    <2> QED
      BY <1>1, <1>2, <1>3, <1>4, <2>1
  <1>10. /\ w # p /\ c # p /\ w # c
    <2>1. PICK lo, hi \in [Key -> Nat] : Spans(t, M, lo, hi)
      BY <1>3 DEF Search
    <2>2. Linked(t, M)
      BY <1>3 DEF Search
    <2>3. c # Null => c # p
      BY <1>2, <1>3, <2>1, <2>2, ChildIs
    <2>4. w # p /\ t.kid[p][Opp(Opp(d))] # w
      BY <1>1, <1>2, <1>3, <1>4, <1>9, <2>1, <2>2, ChildIs
    <2> QED
      BY <1>2, <1>3, <1>4, <2>3, <2>4
  <1>11. \A e \in Dir : t.kid[w][e] \notin {w, p, c} \/ t.kid[w][e] = Null
    <2> SUFFICES ASSUME NEW e \in Dir, t.kid[w][e] # Null, t.kid[w][e] \in {w, p, c} PROVE FALSE
      OBVIOUS
    <2>1. t.parent[t.kid[w][e]] = w /\ t.parent[w] = p
      BY <1>1, <1>2, <1>3, <1>4, <1>9
    <2>2. t.kid[w][e] # w
      BY <1>10, <2>1
    <2>3. t.kid[w][e] = c => t.parent[c] = p
      BY <1>2, <1>3, <1>4
    <2>4. t.kid[w][e] # c
      BY <1>10, <2>1, <2>3
    <2>5. PICK lo, hi \in [Key -> Nat] : Spans(t, M, lo, hi)
      BY <1>3 DEF Search
    <2>6. Linked(t, M)
      BY <1>3 DEF Search
    <2>7. t.kid[p][Opp(d)] # Null
      BY <1>1, <1>4, <1>9, Zenon
    <2>8. t.kid[w][e] # p
      BY <1>1, <1>2, <1>3, <2>5, <2>6, <2>7, ChildIs
    <2> QED
      BY <2>2, <2>4, <2>8
  <1>12. \A k \in M, e \in Dir : ~ (IsRed(t, k) /\ IsRed(t, t.kid[k][e]))
    BY <1>4, Zenon DEF Lacking, Calm, IsRed
  <1>13. Around(t, M, H, c, p, d, w)
    BY <1>1, <1>2, <1>3, <1>4, <1>5, <1>7, <1>8, <1>9, <1>10, <1>11, <1>12 DEF Around
  <1> QED
    BY <1>1, <1>13

(* The sibling is not the root.                                             *)
LEMMA SiblingBelow ==
  ASSUME NEW t, NEW M, NEW H, NEW c, NEW p, NEW d, NEW w, Search(t, M), Around(t, M, H, c, p, d, w)
  PROVE  w # t.root
  <1>1. /\ p \in M /\ Null \notin M /\ w \in M /\ Opp(d) \in Dir /\ w = t.kid[p][Opp(d)]
        /\ \A k \in M, e \in Dir : t.kid[k][e] # Null => t.parent[t.kid[k][e]] = k
    BY Zenon DEF Around
  <1>2. t.parent[w] = p
    BY <1>1, Zenon
  <1>a. \A k \in M : t.parent[k] = Null <=> k = t.root
    BY SearchIs, Zenon
  <1>3. t.parent[w] = Null <=> w = t.root
    BY <1>1, <1>a, Zenon
  <1> QED
    BY <1>1, <1>2, <1>3, Zenon

(* The side that delete_fixup looks at is the one with the missing node.    *)
LEMMA FallSide ==
  ASSUME NEW t, NEW M, NEW c, NEW p, Falling(t, M, c, p), c # t.root, ~ IsRed(t, c),
         NEW d, d = IF c = t.kid[p]["left"] THEN "left" ELSE "right"
  PROVE  Lacking(t, M, c, p, d)
  <1>0. PICK f \in Dir : p \in M /\ t.kid[p][f] = c /\ \E H : Heights(t, M, H, p, f)
    BY DEF Falling
  <1>1. PICK H : p \in M /\ t.kid[p][f] = c /\ Heights(t, M, H, p, f)
    BY <1>0
  <1>2. Calm(t, M, Null, Null) /\ ~ IsRed(t, t.root) /\ Search(t, M)
    BY DEF Falling, Calm
  <1>3. Lacking(t, M, c, p, f)
    BY <1>1, <1>2 DEF Lacking
  <1>4. t.kid[p][Opp(f)] # c
    BY <1>1, <1>3, LackAround DEF Around
  <1>5. d = f
    BY <1>1, <1>4 DEF Dir, Opp
  <1> QED
    BY <1>3, <1>5

(* The case of a black sibling without a red child: a black node is missing *)
(* above the parent.                                                        *)
LEMMA LackClimb ==
  ASSUME NEW t, NEW M, NEW c, NEW p, NEW d, Lacking(t, M, c, p, d),
         NEW w, w = t.kid[p][Opp(d)], ~ IsRed(t, w), \A e \in Dir : ~ IsRed(t, t.kid[w][e]),
         NEW s, s = Paint(t, w, "red")
  PROVE  Falling(s, M, p, t.parent[p])
  <1>1. PICK H : Heights(t, M, H, p, d)
    BY DEF Lacking
  <1>2. Around(t, M, H, c, p, d, w)
    BY <1>1, LackAround, Zenon
  <1>3. Search(t, M) /\ w \in M
    BY <1>2 DEF Lacking, Around
  <1>4. Colored(s, t, M, w, "red")
    BY <1>3, PaintColors
  <1>5. /\ Search(s, M) /\ s.kid = t.kid /\ s.root = t.root /\ s.parent = t.parent
        /\ \A k \in M : s.color[k] = IF k = w THEN "red" ELSE t.color[k]
    BY <1>4, Zenon DEF Colored
  <1>6. t.color[w] = "black" /\ w # Null
    BY <1>2, <1>3 DEF Around, IsRed, Tree
  <1>7. w # t.root
    <2>1. t.parent[w] = p /\ p # Null
      BY <1>2, <1>6, Zenon DEF Around
    <2> QED
      BY <1>3, <2>1, SearchIs, Zenon
  <1>8. \A k \in M \cup {Null} : IsRed(s, k) <=> k = w \/ IsRed(t, k)
    BY <1>3, <1>5, <1>6 DEF IsRed
  <1>9. Calm(s, M, p, p)
    <2> SUFFICES ASSUME NEW k \in M, NEW e \in Dir, IsRed(s, k), IsRed(s, s.kid[k][e]), k # p
                 PROVE  FALSE
      BY DEF Calm
    <2>1. s.kid[k][e] = t.kid[k][e] /\ t.kid[k][e] \in M \cup {Null}
      BY <1>2, <1>5, Zenon DEF Around
    <2>2. t.kid[k][e] # w
      <3>1. t.parent[w] = p /\ (t.kid[k][e] # Null => t.parent[t.kid[k][e]] = k)
        BY <1>2, <1>6, ZenonT(30) DEF Around
      <3> QED
        BY <1>6, <3>1
    <2>3. IsRed(t, t.kid[k][e])
      BY <1>8, <2>1, <2>2, Zenon
    <2>4. k # w
      BY <2>3
    <2>5. IsRed(t, k)
      BY <1>8, <2>4
    <2> QED
      BY <1>2, <2>3, <2>5, Zenon DEF Around
  <1>10. ~ IsRed(s, s.root)
    BY <1>2, <1>5, <1>7, <1>8, Zenon DEF Around
  <1> DEFINE G == Two(H, w, H[w] - 1, p, H[p] - 1)
  <1>11. /\ H[c] \in Nat /\ H[w] = H[c] + 1 /\ H[p] = H[c] + 1 + Black(t, p) /\ Black(t, p) \in Nat
         /\ H[w] \in Nat /\ H[p] \in Nat /\ w # p /\ Black(s, p) = Black(t, p) /\ Black(t, w) = 1
         /\ Black(s, w) = 0
    <2>1. H[c] \in Nat
      BY <1>2, Zenon DEF Around
    <2>2. /\ H[w] = H[c] + 1 /\ H[p] = H[c] + 1 + Black(t, p) /\ Black(t, p) \in Nat
          /\ w # p /\ Black(s, p) = Black(t, p)
      BY <1>2, <1>5 DEF Around, Black
    <2> QED
      BY <1>3, <1>5, <1>6, <2>1, <2>2 DEF Black
  <1>12. H[w] - 1 \in Nat /\ H[p] - 1 \in Nat
    BY <1>11
  <1>13. G \in [Node -> Nat] /\ G[Null] = 0
    BY <1>2, <1>6, <1>12, Zenon DEF Around, Two, Node
  <1>14. G[p] = H[p] - 1 /\ G[w] = H[w] - 1 /\ \A k \in Node \ {p, w} : G[k] = H[k]
    BY <1>2, <1>11 DEF Around, Two
  <1> HIDE DEF G
  <1>15. ASSUME NEW k \in M, NEW e \in Dir
         PROVE  G[k] = G[t.kid[k][e]] + (IF t.kid[k][e] = p THEN 1 ELSE 0) + Black(s, k)
    <2>0. PICK b : b = t.kid[k][e]
      BY Zenon
    <2>1. b \in Node /\ (b # Null => t.parent[b] = k) /\ H[b] \in Nat /\ Black(t, k) \in Nat /\ k \in Node
      BY <1>2, <2>0 DEF Around, Black
    <2>2. CASE k = p
      <3>1. b = c \/ b = w
        BY <1>2, <2>0, <2>2, Zenon DEF Around
      <3>2. b # p
        BY <1>2, <3>1, Zenon DEF Around
      <3>3. G[b] = H[c]
        <4>1. CASE b = c
          <5>1. c # w
            BY <1>2, Zenon DEF Around
          <5> QED
            BY <1>14, <2>1, <3>2, <4>1, <5>1, Zenon
        <4>2. CASE b = w
          <5>1. H[w] - 1 = H[c]
            BY <1>11, OneLess, Zenon
          <5> QED
            BY <1>14, <4>2, <5>1, Zenon
        <4> QED
          BY <3>1, <4>1, <4>2, Zenon
      <3> QED
        BY <1>11, <1>14, <2>0, <2>2, <3>2, <3>3
    <2>3. CASE k # p
      <3>1. H[k] = H[b] + Black(t, k)
        BY <1>2, <2>0, <2>3, Zenon DEF Around
      <3>2. b # w
        BY <1>2, <1>6, <2>1, <2>3 DEF Around
      <3>3. CASE k = w
        <4>1. b # p
          BY <1>2, <2>0, <3>3 DEF Around
        <4>2. G[b] = H[b]
          BY <1>14, <2>1, <3>2, <4>1
        <4>3. (IF t.kid[k][e] = p THEN 1 ELSE 0) = 0 /\ Black(s, k) = 0
          BY <1>11, <2>0, <3>3, <4>1, Zenon
        <4>4. G[k] = H[b]
          <5>1. H[w] = H[b] + 1
            BY <1>11, <3>1, <3>3, Zenon
          <5> QED
            BY <1>14, <2>1, <3>3, <5>1, OneLess, Zenon
        <4> QED
          BY <2>0, <2>1, <4>2, <4>3, <4>4, NoneMore, Zenon
      <3>4. CASE k # w
        <4>1. G[k] = H[k] /\ Black(s, k) = Black(t, k)
          BY <1>5, <1>14, <2>1, <2>3, <3>4 DEF Black
        <4>2. G[b] + (IF b = p THEN 1 ELSE 0) = H[b]
          BY <1>11, <1>14, <2>1, <3>2
        <4>3. G[b] \in Nat
          BY <1>13, <2>1
        <4> QED
          BY <2>0, <2>1, <3>1, <4>1, <4>2, <4>3
      <3> QED
        BY <3>3, <3>4, Zenon
    <2> QED
      BY <2>2, <2>3
  <1>16. CASE p = t.root
    <2>1. \A k \in M, e \in Dir : t.kid[k][e] # p
      <3>1. t.parent[p] = Null /\ p # Null
        BY <1>2, <1>3, <1>16, SearchIs, ZenonT(30) DEF Around
      <3> QED
        BY <1>2, <3>1 DEF Around
    <2>2. \A k \in M, e \in Dir : G[k] = G[s.kid[k][e]] + Black(s, k)
      <3> SUFFICES ASSUME NEW k \in M, NEW e \in Dir PROVE G[k] = G[s.kid[k][e]] + Black(s, k)
        BY Zenon
      <3>1. G[t.kid[k][e]] \in Nat /\ Black(s, k) \in Nat
        BY <1>2, <1>13, Zenon DEF Around, Black
      <3> QED
        BY <1>5, <1>15, <2>1, <3>1
    <2>3. Heights(s, M, G, Null, "left")
      BY <1>5, <1>13, <2>2, EvenHeights
    <2> QED
      BY <1>2, <1>5, <1>9, <1>10, <1>16, <2>3, Zenon DEF Falling, Even, Around
  <1>17. CASE p # t.root
    <2>1. PICK q, f : q = t.parent[p] /\ f = Side(t, p)
      BY Zenon
    <2>2. q \in M /\ f \in Dir /\ t.kid[q][f] = p
      <3>1. p \in M
        BY <1>2, Zenon DEF Around
      <3>2. /\ t.parent[p] \in M \cup {Null} /\ (t.parent[p] = Null <=> p = t.root)
            /\ Side(t, p) \in Dir /\ (p # t.root => t.kid[t.parent[p]][Side(t, p)] = p)
        BY <1>3, <3>1, SearchIs, ZenonT(30)
      <3> QED
        BY <1>17, <2>1, <3>2, Zenon
    <2>3. \A k \in M, e \in Dir : t.kid[k][e] = p <=> k = q /\ e = f
      <3>1. PICK lo, hi \in [Key -> Nat] : Spans(t, M, lo, hi)
        BY <1>3, Zenon DEF Search
      <3>2. Linked(t, M) /\ p \in M /\ M \subseteq Key
        BY <1>2, <1>3 DEF Search, Around
      <3>3. \A k \in Key, e \in Dir : t.kid[k][e] = p <=> (k = t.parent[p] /\ e = Side(t, p))
        BY <3>1, <3>2, PointsTo, Zenon
      <3> QED
        BY <2>1, <3>2, <3>3
    <2>4. Heights(s, M, G, q, f)
      <3>1. ASSUME NEW k \in M, NEW e \in Dir
            PROVE  G[k] = G[s.kid[k][e]] + Short(q, f, k, e) + Black(s, k)
        BY <1>5, <1>15, <2>3 DEF Short
      <3> QED
        BY <1>13, <3>1 DEF Heights
    <2>5. s.kid[q][f] = p
      BY <1>5, <2>2, Zenon
    <2> QED
      BY <1>2, <1>5, <1>9, <1>10, <1>17, <2>1, <2>2, <2>4, <2>5, Zenon DEF Falling, Around
  <1> QED
    BY <1>16, <1>17

(* The case of a red sibling: it is rotated away, and the new sibling, one  *)
(* of its children, is black.                                               *)
LEMMA LackRed ==
  ASSUME NEW t, NEW M, NEW c, NEW p, NEW d, Lacking(t, M, c, p, d),
         NEW w, w = t.kid[p][Opp(d)], IsRed(t, w), NEW s,
         s = Rotate(Paint(Paint(t, w, "black"), p, "red"), p, d)
  PROVE  /\ Lacking(s, M, c, p, d) /\ ~ IsRed(s, s.kid[p][Opp(d)]) /\ t.kid[w][d] # Null
  <1>1. PICK H : Heights(t, M, H, p, d)
    BY DEF Lacking
  <1>a. Around(t, M, H, c, p, d, w)
    BY <1>1, LackAround, Zenon
  <1> DEFINE D == Opp(d)
  <1>2. /\ p \in M /\ d \in Dir /\ D \in Dir /\ D # d /\ Opp(D) = d
        /\ \A e \in Dir : e = d \/ e = D
        /\ M \subseteq Key /\ Null \notin M /\ t \in Tree /\ \A k \in M : k \in Node
        /\ \A k \in M, e \in Dir : t.kid[k][e] \in M \cup {Null} /\ t.kid[k][e] \in Node
        /\ t.root \in M /\ ~ IsRed(t, t.root)
        /\ c = t.kid[p][d] /\ w = t.kid[p][D] /\ ~ IsRed(t, c)
        /\ w \in M /\ w # p /\ w # c /\ c # p
        /\ H \in [Node -> Nat] /\ H[Null] = 0 /\ \A k \in M \cup {Null} : H[k] \in Nat
        /\ H[p] = H[c] + 1 + Black(t, p) /\ H[p] = H[w] + Black(t, p) /\ H[w] = H[c] + 1
        /\ \A k \in M \ {p}, e \in Dir : H[k] = H[t.kid[k][e]] + Black(t, k)
        /\ \A k \in M, e \in Dir : ~ (IsRed(t, k) /\ IsRed(t, t.kid[k][e]))
    BY <1>a DEF Around
  <1> HIDE DEF D
  <1>3. PICK t1, t2 : t1 = Paint(t, w, "black") /\ t2 = Paint(t1, p, "red")
    OBVIOUS
  <1>4. Search(t, M)
    BY DEF Lacking
  <1>5. Colored(t1, t, M, w, "black")
    BY <1>2, <1>3, <1>4, PaintColors
  <1>6. Search(t1, M)
    BY <1>5 DEF Colored
  <1>7. Colored(t2, t1, M, p, "red")
    BY <1>2, <1>3, <1>6, PaintColors
  <1>8. /\ Search(t2, M) /\ t2.kid = t.kid /\ t2.root = t.root
        /\ \A k \in M : t2.color[k] = IF k = p THEN "red" ELSE IF k = w THEN "black" ELSE t.color[k]
    BY <1>5, <1>7 DEF Colored
  <1>9. Turned(s, t2, M, p, w, d)
    <2>1. t2.kid[p][Opp(d)] = w /\ t2.kid[p][Opp(d)] # Null /\ s = Rotate(t2, p, d)
      BY <1>2, <1>3, <1>8, Zenon DEF D
    <2> QED
      BY <1>2, <1>8, <2>1, RotateTurns
  <1>10. /\ Search(s, M) /\ s.color = t2.color /\ s.root = IF p = t.root THEN w ELSE t.root
         /\ s.kid[p][d] = c /\ s.kid[p][D] = t.kid[w][d]
         /\ s.kid[w][d] = p /\ s.kid[w][D] = t.kid[w][D]
         /\ \A e \in Dir : t.kid[w][e] \notin {p, w} /\ c \notin {p, w}
    BY <1>2, <1>8, <1>9, Zenon DEF Turned, D
  <1>11. ASSUME NEW k \in M \ {p, w}, NEW e \in Dir
         PROVE  t.kid[k][e] # w /\ s.kid[k][e] = IF t.kid[k][e] = p THEN w ELSE t.kid[k][e]
    <2>1. t2.kid[k][e] # w /\ s.kid[k][e] = IF t2.kid[k][e] = p THEN w ELSE t2.kid[k][e]
      BY <1>9, Zenon DEF Turned
    <2> QED
      BY <1>8, <2>1
  <1>12. \A k \in M \cup {Null} : IsRed(s, k) <=> k = p \/ (k # w /\ IsRed(t, k))
    BY <1>2, <1>8, <1>10, ZenonT(30) DEF IsRed
  <1>13. ~ IsRed(t, p)
    BY <1>2
  <1>14. Black(t, p) = 1 /\ Black(t, w) = 0 /\ Black(t2, p) = 0 /\ Black(t2, w) = 1
         /\ \A k \in M \ {p, w} : Black(t2, k) = Black(t, k)
    <2>1. t.color[p] = "black" /\ t.color[w] = "red"
      BY <1>2, <1>13, Zenon DEF IsRed, Tree
    <2> QED
      BY <1>2, <1>8, <2>1 DEF Black
  <1>15. /\ H[c] \in Nat /\ H[w] = H[c] + 1 /\ H[p] = H[c] + 2 /\ H[t.kid[w][d]] = H[c] + 1
         /\ H[t.kid[w][D]] = H[c] + 1
    <2>1. H[c] \in Nat /\ H[t.kid[w][d]] \in Nat /\ H[t.kid[w][D]] \in Nat
      BY <1>2
    <2>2. H[w] = H[t.kid[w][d]] + Black(t, w) /\ H[w] = H[t.kid[w][D]] + Black(t, w)
      BY <1>2
    <2>3. H[w] = H[c] + 1 /\ H[p] = H[c] + 1 + 1 /\ H[w] = H[t.kid[w][d]] + 0 /\ H[w] = H[t.kid[w][D]] + 0
      BY <1>2, <1>14, <2>2, Zenon
    <2> QED
      BY <2>1, <2>3, NoneMore, OneMore, Zenon
  <1>16. Heights(t2, M \ {p, w}, H, p, d)
    <2>1. ASSUME NEW k \in M \ {p, w}, NEW e \in Dir
          PROVE  H[k] = H[t2.kid[k][e]] + Short(p, d, k, e) + Black(t2, k)
      <3>1. Short(p, d, k, e) = 0 /\ Black(t, k) \in Nat /\ H[t.kid[k][e]] \in Nat
        BY <1>2 DEF Short, Black
      <3>2. H[k] = H[t.kid[k][e]] + Black(t, k)
        BY <1>2, Zenon
      <3> QED
        BY <1>8, <1>14, <3>1, <3>2
    <2> QED
      BY <1>2, <2>1 DEF Heights
  <1>17. Fits(t2, H, p, d, p, w, d, H[c] + 1)
    <2>1. Short(p, d, p, d) = 1
      BY Zenon DEF Short
    <2>2. /\ H[t2.kid[p][d]] = H[c] /\ H[t2.kid[w][d]] = H[c] + 1 /\ H[t2.kid[w][D]] = H[c] + 1
      BY <1>2, <1>8, <1>15
    <2>3. /\ H[c] + 1 \in Nat /\ H[c] + 1 = H[c] + 1 + 0 /\ H[c] + 2 = H[c] + 1 + 1
      BY <1>15, OneMore, Zenon
    <2>4. p # w /\ D = Opp(d)
      BY <1>2 DEF D
    <2> QED
      BY <1>14, <1>15, <2>1, <2>2, <2>3, <2>4, Zenon DEF Fits
  <1>18. \E G : Heights(s, M, G, p, d)
    <2>1. Heights(s, M, Two(H, p, H[c] + 1, w, H[p]), p, d)
      BY <1>2, <1>8, <1>9, <1>16, <1>17, TurnHeights
    <2> QED
      BY <2>1, Zenon
  <1>19. Calm(s, M, Null, Null)
    <2> SUFFICES ASSUME NEW k \in M, NEW e \in Dir, IsRed(s, k), IsRed(s, s.kid[k][e]) PROVE FALSE
      BY Zenon DEF Calm
    <2>1. CASE k = p
      <3>1. s.kid[k][e] = c \/ s.kid[k][e] = t.kid[w][d]
        BY <1>2, <1>10, <2>1, Zenon
      <3>2. /\ ~ IsRed(t, c) /\ c \in M \cup {Null} /\ c # p
            /\ ~ IsRed(t, t.kid[w][d]) /\ t.kid[w][d] \in M \cup {Null} /\ t.kid[w][d] # p
        BY <1>2, <1>10, Zenon
      <3> QED
        BY <1>12, <3>1, <3>2
    <2>2. CASE k = w
      BY <1>2, <1>12, <2>2, Zenon
    <2>3. CASE k \notin {p, w}
      <3>1. t.kid[k][e] # w /\ s.kid[k][e] = IF t.kid[k][e] = p THEN w ELSE t.kid[k][e]
        BY <1>11, <2>3, Zenon
      <3>2. s.kid[k][e] # w
        BY <1>2, <1>12, Zenon
      <3>3. s.kid[k][e] = t.kid[k][e] /\ t.kid[k][e] # p /\ t.kid[k][e] \in M \cup {Null}
        BY <1>2, <3>1, <3>2, Zenon
      <3>4. IsRed(t, k) /\ IsRed(t, t.kid[k][e])
        BY <1>12, <2>3, <3>2, <3>3
      <3> QED
        BY <1>2, <3>4, Zenon
    <2> QED
      BY <2>1, <2>2, <2>3, Zenon
  <1>20. ~ IsRed(s, s.root) /\ ~ IsRed(s, c) /\ ~ IsRed(s, t.kid[w][d])
    <2>1. ~ IsRed(s, s.root)
      <3>1. CASE p = t.root
        BY <1>2, <1>10, <1>12, <3>1, Zenon
      <3>2. CASE p # t.root
        BY <1>2, <1>10, <1>12, <3>2
      <3> QED
        BY <3>1, <3>2
    <2>2. ~ IsRed(s, c)
      BY <1>2, <1>12
    <2>3. ~ IsRed(s, t.kid[w][d])
      <3>1. t.kid[w][d] \in M \cup {Null} /\ ~ IsRed(t, t.kid[w][d]) /\ t.kid[w][d] # p
        BY <1>2, <1>10, Zenon
      <3> QED
        BY <1>12, <3>1, Zenon
    <2> QED
      BY <2>1, <2>2, <2>3
  <1>21. t.kid[w][d] # Null
    BY <1>2, <1>15
  <1> QED
    BY <1>2, <1>10, <1>18, <1>19, <1>20, <1>21 DEF Lacking, D

(* n, a black node with a red far child, is the sibling *)
Beside(t, M, c, p, d, n) ==
  /\ Lacking(t, M, c, p, d) /\ t.kid[p][Opp(d)] = n /\ ~ IsRed(t, n) /\ IsRed(t, t.kid[n][Opp(d)])

(* A sibling whose near child alone is red: that child is rotated to its    *)
(* place, and then the far child is red.                                    *)
LEMMA LackNear ==
  ASSUME NEW t, NEW M, NEW c, NEW p, NEW d, Lacking(t, M, c, p, d),
         NEW w, w = t.kid[p][Opp(d)], ~ IsRed(t, w), ~ IsRed(t, t.kid[w][Opp(d)]),
         NEW n, n = t.kid[w][d], IsRed(t, n), NEW t1, NEW t2, NEW s,
         Colored(t1, t, M, n, "black"), Colored(t2, t1, M, w, "red"), Turned(s, t2, M, w, n, Opp(d))
  PROVE  Beside(s, M, c, p, d, n)
  <1>1. PICK H : Heights(t, M, H, p, d)
    BY Zenon DEF Lacking
  <1>a. Around(t, M, H, c, p, d, w)
    BY <1>1, LackAround
  <1> DEFINE D == Opp(d)
  <1>2. /\ p \in M /\ d \in Dir /\ D \in Dir /\ D # d /\ Opp(D) = d
        /\ \A e \in Dir : e = d \/ e = D
        /\ M \subseteq Key /\ Null \notin M /\ t \in Tree /\ \A k \in M : k \in Node
        /\ \A k \in M, e \in Dir : t.kid[k][e] \in M \cup {Null} /\ t.kid[k][e] \in Node
        /\ t.root \in M /\ ~ IsRed(t, t.root)
        /\ \A k \in M, e \in Dir : t.kid[k][e] # Null => t.parent[t.kid[k][e]] = k
        /\ c = t.kid[p][d] /\ w = t.kid[p][D] /\ ~ IsRed(t, c)
        /\ w \in M /\ w # p /\ w # c /\ c # p
        /\ H \in [Node -> Nat] /\ H[Null] = 0 /\ \A k \in M \cup {Null} : H[k] \in Nat
        /\ \A k \in M \ {p}, e \in Dir : H[k] = H[t.kid[k][e]] + Black(t, k)
        /\ \A k \in M, e \in Dir : ~ (IsRed(t, k) /\ IsRed(t, t.kid[k][e]))
    BY <1>a, Zenon DEF Around
  <1>b. n \in M /\ n # Null /\ n # w /\ n # p /\ n # c
    <2>1. n # Null
      BY Zenon DEF IsRed
    <2> QED
      BY <1>2, <1>a, <2>1, Zenon DEF Around
  <1> HIDE DEF D
  <1>4. Search(t, M)
    BY Zenon DEF Lacking
  <1>8. /\ Search(t2, M) /\ t2.kid = t.kid /\ t2.root = t.root
        /\ \A k \in M : t2.color[k] = IF k = w THEN "red" ELSE IF k = n THEN "black" ELSE t.color[k]
    BY Zenon DEF Colored
  <1>9. Turned(s, t2, M, w, n, D)
    BY DEF D
  <1>10. /\ Search(s, M) /\ s.color = t2.color /\ s.root = IF w = t.root THEN n ELSE t.root
         /\ s.kid[w][D] = t.kid[w][D] /\ s.kid[w][d] = t.kid[n][D]
         /\ s.kid[n][D] = w /\ s.kid[n][d] = t.kid[n][d]
         /\ t.kid[n][D] \notin {n, w} /\ t.kid[n][d] \notin {n, w} /\ t.kid[w][D] \notin {n, w}
    BY <1>2, <1>8, <1>9, Zenon DEF Turned
  <1>11. ASSUME NEW k \in M \ {w, n}, NEW e \in Dir
         PROVE  t.kid[k][e] # n /\ s.kid[k][e] = IF t.kid[k][e] = w THEN n ELSE t.kid[k][e]
    <2>1. t2.kid[k][e] # n /\ s.kid[k][e] = IF t2.kid[k][e] = w THEN n ELSE t2.kid[k][e]
      BY <1>9, Zenon DEF Turned
    <2> QED
      BY <1>8, <2>1, Zenon
  <1>12. \A k \in M \cup {Null} : IsRed(s, k) <=> k = w \/ (k # n /\ IsRed(t, k))
    <2>1. w \in M /\ w # Null /\ n # Null /\ n # w /\ s.color = t2.color
      BY <1>2, <1>b, <1>10, Zenon
    <2>2. \A k \in M : s.color[k] = IF k = w THEN "red" ELSE IF k = n THEN "black" ELSE t.color[k]
      BY <1>8, <2>1
    <2> QED
      BY <2>1, <2>2 DEF IsRed
  <1>13. /\ Black(t, w) = 1 /\ Black(t, n) = 0 /\ Black(t2, w) = 0 /\ Black(t2, n) = 1
         /\ \A k \in M \ {w, n} : Black(t2, k) = Black(t, k)
    <2>1. t.color[w] = "black" /\ t.color[n] = "red"
      BY <1>2, <1>b, Zenon DEF IsRed, Tree
    <2> QED
      BY <1>2, <1>b, <1>8, <2>1, Zenon DEF Black
  <1>14. /\ H[w] = H[n] + 1 /\ H[n] = H[t.kid[w][D]] /\ H[n] = H[t.kid[n][D]]
         /\ H[n] = H[t.kid[n][d]] /\ H[n] \in Nat
    <2>1. H[n] \in Nat /\ H[t.kid[w][D]] \in Nat /\ H[t.kid[n][D]] \in Nat /\ H[t.kid[n][d]] \in Nat
      BY <1>2, <1>b, Zenon
    <2>2. /\ H[w] = H[n] + Black(t, w) /\ H[w] = H[t.kid[w][D]] + Black(t, w)
          /\ H[n] = H[t.kid[n][d]] + Black(t, n) /\ H[n] = H[t.kid[n][D]] + Black(t, n)
      BY <1>2, <1>b, Zenon
    <2>3. Black(t, w) = 1 /\ Black(t, n) = 0
      BY <1>13
    <2>4. H[w] = H[n] + 1 /\ H[w] = H[t.kid[w][D]] + 1
      BY <2>2, <2>3, Zenon
    <2>5. \A i, j : i \in Nat /\ j \in Nat /\ i = j + Black(t, n) => i = j
      BY <2>3
    <2>6. \A i, j : i \in Nat /\ j \in Nat /\ i + 1 = j + 1 => i = j
      OBVIOUS
    <2>7. H[n] = H[t.kid[n][d]]
      BY <2>1, <2>2, <2>5, Zenon
    <2>8. H[n] = H[t.kid[n][D]]
      BY <2>1, <2>2, <2>5, Zenon
    <2>9. H[n] = H[t.kid[w][D]]
      BY <2>1, <2>4, <2>6, Zenon
    <2> QED
      BY <2>1, <2>4, <2>7, <2>8, <2>9, Zenon
  <1>15. Heights(t2, M \ {w, n}, H, p, d)
    BY <1>1, <1>8, <1>13, ZenonT(30) DEF Heights
  <1>16. Fits(t2, H, p, d, w, n, D, H[n])
    <2>1. Short(p, d, w, D) = 0
      BY <1>2, Zenon DEF Short
    <2>2. /\ H[t2.kid[w][D]] = H[n] /\ H[t2.kid[n][D]] = H[n] /\ H[t2.kid[n][d]] = H[n]
      BY <1>8, <1>14, Zenon
    <2>3. p # n /\ p # w /\ Opp(D) = d
      BY <1>2, <1>b, Zenon
    <2>4. Black(t2, w) = 0 /\ Black(t2, n) = 1
      BY <1>13
    <2>5. H[n] \in Nat /\ H[w] = H[n] + 1
      BY <1>14, Zenon
    <2>6. H[n] = H[t2.kid[w][D]] + Short(p, d, w, D) + Black(t2, w) /\ H[n] = H[t2.kid[n][D]] + Black(t2, w)
      <3>1. \A i \in Nat : i = i + Short(p, d, w, D) + Black(t2, w) /\ i = i + Black(t2, w)
        BY <2>1, <2>4
      <3> QED
        BY <2>2, <2>5, <3>1, Zenon
    <2>7. H[w] = H[n] + Black(t2, n) /\ H[w] = H[t2.kid[n][Opp(D)]] + Black(t2, n)
      BY <2>2, <2>3, <2>4, <2>5, Zenon
    <2> QED
      BY <2>3, <2>5, <2>6, <2>7, Zenon DEF Fits
  <1>17. \E G : Heights(s, M, G, p, d)
    <2>1. Heights(s, M, Two(H, w, H[n], n, H[w]), p, d)
      BY <1>2, <1>8, <1>9, <1>15, <1>16, TurnHeights, Zenon
    <2> QED
      BY <2>1
  <1>18. Calm(s, M, Null, Null)
    <2> SUFFICES ASSUME NEW k \in M, NEW e \in Dir, IsRed(s, k), IsRed(s, s.kid[k][e]) PROVE FALSE
      BY DEF Calm
    <2>1. CASE k = w
      <3>1. s.kid[k][e] = t.kid[w][D] \/ s.kid[k][e] = t.kid[n][D]
        BY <1>2, <1>10, <2>1, Zenon
      <3>2. /\ ~ IsRed(t, t.kid[w][D]) /\ t.kid[w][D] \in M \cup {Null} /\ t.kid[w][D] # w
            /\ ~ IsRed(t, t.kid[n][D]) /\ t.kid[n][D] \in M \cup {Null} /\ t.kid[n][D] # w
        BY <1>2, <1>b, <1>10, Zenon DEF D
      <3> QED
        BY <1>12, <3>1, <3>2, Zenon
    <2>2. CASE k = n
      BY <1>b, <1>12, <2>2, Zenon
    <2>3. CASE k \notin {w, n}
      <3>1. t.kid[k][e] # n /\ s.kid[k][e] = IF t.kid[k][e] = w THEN n ELSE t.kid[k][e]
        BY <1>11, <2>3, ZenonT(30)
      <3>2. s.kid[k][e] # n
        BY <1>b, <1>12
      <3>3. s.kid[k][e] = t.kid[k][e] /\ t.kid[k][e] # w /\ t.kid[k][e] \in M \cup {Null}
        BY <1>2, <3>1, <3>2, Zenon
      <3>4. IsRed(t, k) /\ IsRed(t, t.kid[k][e])
        BY <1>12, <2>3, <3>2, <3>3
      <3> QED
        BY <1>2, <3>4, Zenon
    <2> QED
      BY <2>1, <2>2, <2>3, Zenon
  <1>19. ~ IsRed(s, s.root)
    <2>1. w # t.root
      BY <1>4, <1>a, SiblingBelow
    <2> QED
      BY <1>2, <1>10, <1>12, <2>1, Zenon
  <1>20. s.kid[p][d] = c /\ s.kid[p][D] = n /\ ~ IsRed(s, c) /\ ~ IsRed(s, n) /\ IsRed(s, w)
    <2>0. p \in M \ {w, n} /\ d \in Dir /\ D \in Dir /\ t.kid[p][d] = c /\ t.kid[p][D] = w /\ c # w
      BY <1>2, <1>b, Zenon
    <2>1. s.kid[p][d] = c /\ s.kid[p][D] = n
      BY <1>11, <2>0, Zenon
    <2>2. c \in M \cup {Null} /\ ~ IsRed(t, c) /\ w \in M /\ n \in M /\ n # w
      BY <1>2, <1>b, Zenon
    <2> QED
      BY <1>12, <2>0, <2>1, <2>2, Zenon
  <1> QED
    BY <1>2, <1>10, <1>17, <1>18, <1>19, <1>20, Zenon DEF Beside, Lacking, D

(* A sibling whose far child is red takes the place of the parent, and the  *)
(* missing black node is there.                                             *)
LEMMA LackFar ==
  ASSUME NEW t, NEW M, NEW c, NEW p, NEW d, Lacking(t, M, c, p, d),
         NEW w, w = t.kid[p][Opp(d)], ~ IsRed(t, w),
         NEW f, f = t.kid[w][Opp(d)], IsRed(t, f), NEW t1, NEW t2, NEW t3, NEW s,
         Colored(t1, t, M, w, t.color[p]), Colored(t2, t1, M, p, "black"),
         Colored(t3, t2, M, f, "black"), Turned(s, t3, M, p, w, d)
  PROVE  Level(s, M)
  <1>1. PICK H : Heights(t, M, H, p, d)
    BY DEF Lacking
  <1>a. Around(t, M, H, c, p, d, w)
    BY <1>1, LackAround
  <1> DEFINE D == Opp(d)
  <1>2. /\ p \in M /\ d \in Dir /\ D \in Dir /\ D # d /\ Opp(D) = d
        /\ \A e \in Dir : e = d \/ e = D
        /\ M \subseteq Key /\ Null \notin M /\ t \in Tree /\ \A k \in M : k \in Node
        /\ \A k \in M, e \in Dir : t.kid[k][e] \in M \cup {Null} /\ t.kid[k][e] \in Node
        /\ t.root \in M /\ ~ IsRed(t, t.root)
        /\ \A k \in M, e \in Dir : t.kid[k][e] # Null => t.parent[t.kid[k][e]] = k
        /\ c = t.kid[p][d] /\ w = t.kid[p][D] /\ ~ IsRed(t, c)
        /\ w \in M /\ w # p /\ w # c /\ c # p
        /\ H \in [Node -> Nat] /\ H[Null] = 0 /\ \A k \in M \cup {Null} : H[k] \in Nat
        /\ H[p] = H[c] + 1 + Black(t, p) /\ H[w] = H[c] + 1
        /\ \A k \in M \ {p}, e \in Dir : H[k] = H[t.kid[k][e]] + Black(t, k)
        /\ \A k \in M, e \in Dir : ~ (IsRed(t, k) /\ IsRed(t, t.kid[k][e]))
    BY <1>a, Zenon DEF Around
  <1>b. f \in M /\ f # Null /\ f # w /\ f # p /\ f # c
    <2>1. f # Null
      BY DEF IsRed
    <2> QED
      BY <1>2, <1>a, <2>1, Zenon DEF Around
  <1> HIDE DEF D
  <1>4. Search(t, M)
    BY Zenon DEF Lacking
  <1>c. t.kid[w][d] # f
    <2>1. t.kid[w][D] = f
      BY Zenon DEF D
    <2>2. \A e \in Dir : t.kid[w][e] # Null => e = Toward(w, t.kid[w][e])
      <3>1. w \in M
        BY <1>2, Zenon
      <3> QED
        BY <1>4, <3>1, SearchIs
    <2>3. d \in Dir /\ D \in Dir /\ D # d /\ f # Null
      BY <1>2, <1>b
    <2> QED
      BY <2>1, <2>2, <2>3, ZenonT(30)
  <1>8. /\ Search(t3, M) /\ t3.kid = t.kid /\ t3.root = t.root
        /\ \A k \in M : t3.color[k] = IF k = p \/ k = f THEN "black" ELSE IF k = w THEN t.color[p] ELSE t.color[k]
    BY DEF Colored
  <1>10. /\ Search(s, M) /\ s.color = t3.color /\ s.root = IF p = t.root THEN w ELSE t.root
         /\ s.kid[w][d] = p /\ s.kid[w][D] = f
    BY <1>2, <1>8, ZenonT(30) DEF Turned, D
  <1>11. ASSUME NEW k \in M \ {p, w}, NEW e \in Dir
         PROVE  t.kid[k][e] # w /\ s.kid[k][e] = IF t.kid[k][e] = p THEN w ELSE t.kid[k][e]
    <2>1. t3.kid[k][e] # w /\ s.kid[k][e] = IF t3.kid[k][e] = p THEN w ELSE t3.kid[k][e]
      BY Zenon DEF Turned
    <2> QED
      BY <1>8, <2>1, Zenon
  <1>12. \A k \in M \cup {Null} : IsRed(s, k) <=> k # p /\ k # f /\ (IF k = w THEN IsRed(t, p) ELSE IsRed(t, k))
    <2>1. w \in M /\ p \in M /\ p # Null /\ f # Null /\ w # Null /\ f # w /\ w # p /\ s.color = t3.color
      BY <1>2, <1>b, <1>10, Zenon
    <2>2. \A k \in M : s.color[k] = IF k = p \/ k = f THEN "black" ELSE IF k = w THEN t.color[p] ELSE t.color[k]
      BY <1>8, <2>1
    <2> QED
      BY <2>1, <2>2, Zenon DEF IsRed
  <1>13. /\ Black(t, w) = 1 /\ Black(t, f) = 0 /\ Black(t3, w) = Black(t, p) /\ Black(t3, p) = 1
         /\ Black(t3, f) = 1 /\ Black(t, p) \in Nat
         /\ \A k \in M \ {p, w, f} : Black(t3, k) = Black(t, k)
    <2>1. t.color[w] = "black" /\ t.color[f] = "red"
      BY <1>2, <1>b, Zenon DEF IsRed, Tree
    <2> QED
      BY <1>2, <1>b, <1>8, <2>1, ZenonT(30) DEF Black
  <1>14. /\ H[f] = H[c] /\ H[t.kid[w][d]] = H[c] /\ H[c] \in Nat
    <2>1. H[f] \in Nat /\ H[t.kid[w][d]] \in Nat /\ H[c] \in Nat
      BY <1>2, <1>b, Zenon
    <2>2. H[w] = H[t.kid[w][d]] + Black(t, w) /\ H[w] = H[t.kid[w][D]] + Black(t, w)
      BY <1>2, Zenon
    <2>3. t.kid[w][D] = f
      BY DEF D
    <2>4. H[w] = H[c] + 1 /\ Black(t, w) = 1
      BY <1>2, <1>13, Zenon
    <2>5. H[w] = H[f] + 1 /\ H[w] = H[t.kid[w][d]] + 1
      BY <2>2, <2>3, <2>4, Zenon
    <2>6. H[f] = H[w] - 1 /\ H[t.kid[w][d]] = H[w] - 1 /\ H[c] = H[w] - 1
      BY <2>1, <2>4, <2>5, OneLess, Zenon
    <2> QED
      BY <2>1, <2>6, Zenon
  <1> DEFINE G == [k \in Node |-> IF k = f THEN H[f] + 1 ELSE H[k]]
  <1>15. /\ G \in [Node -> Nat] /\ G[Null] = 0 /\ G[f] = H[c] + 1 /\ \A k \in Node \ {f} : G[k] = H[k]
    BY <1>2, <1>b, <1>14, ZenonT(30) DEF Node
  <1> HIDE DEF G
  <1>16. Heights(t3, M \ {p, w}, G, Null, "left")
    <2>1. ASSUME NEW k \in M \ {p, w}, NEW e \in Dir
          PROVE  G[k] = G[t3.kid[k][e]] + Short(Null, "left", k, e) + Black(t3, k)
      <3>1. Short(Null, "left", k, e) = 0 /\ Black(t3, k) \in Nat /\ H[t.kid[k][e]] \in Nat
        BY <1>2, Zenon DEF Short, Black
      <3>2. H[k] = H[t.kid[k][e]] + Black(t, k)
        BY <1>2, Zenon
      <3>3. t.kid[k][e] # f
        <4>1. t.parent[f] = w /\ f # Null
          BY <1>2, <1>b, Zenon DEF D
        <4>2. t.kid[k][e] # Null => t.parent[t.kid[k][e]] = k
          BY <1>2
        <4>3. k # w
          OBVIOUS
        <4> QED
          BY <4>1, <4>2, <4>3
      <3>4. G[t3.kid[k][e]] = H[t.kid[k][e]]
        BY <1>2, <1>8, <1>15, <3>3, Zenon
      <3>5. CASE k = f
        <4>1. Black(t, k) = 0 /\ Black(t3, k) = 1 /\ H[k] = H[c] /\ G[k] = H[c] + 1
          BY <1>13, <1>14, <1>15, <3>5
        <4>2. G[k] = H[t.kid[k][e]] + 1
          BY <3>1, <3>2, <4>1
        <4> QED
          BY <3>1, <3>4, <4>1, <4>2
      <3>6. CASE k # f
        <4>1. G[k] = H[k] /\ Black(t3, k) = Black(t, k)
          BY <1>2, <1>13, <1>15, <3>6, Zenon
        <4> QED
          BY <3>1, <3>2, <3>4, <4>1
      <3> QED
        BY <3>5, <3>6, Zenon
    <2> QED
      BY <1>15, <2>1, Zenon DEF Heights
  <1>17. Fits(t3, G, Null, "left", p, w, d, H[c] + 1)
    <2>1. Short(Null, "left", p, d) = 0 /\ Null # w /\ Null # p
      BY <1>2 DEF Short
    <2>2. G[t3.kid[p][d]] = H[c] /\ G[t3.kid[w][d]] = H[c] /\ G[t3.kid[w][D]] = H[c] + 1
      <3>1. t.kid[p][d] = c /\ c \in Node \ {f} /\ t.kid[w][d] \in Node \ {f} /\ t.kid[w][D] = f
        BY <1>2, <1>b, <1>c, Zenon DEF D
      <3>2. G[c] = H[c] /\ G[t.kid[w][d]] = H[t.kid[w][d]]
        BY <1>15, <3>1
      <3> QED
        BY <1>8, <1>14, <1>15, <3>1, <3>2, Zenon
    <2>3. G[p] = H[c] + 1 + Black(t, p)
      BY <1>2, <1>b, <1>15, Zenon
    <2>4. Black(t3, p) = 1 /\ Black(t3, w) = Black(t, p) /\ Black(t, p) \in Nat /\ H[c] \in Nat
      BY <1>13, <1>14, Zenon
    <2>5. H[c] + 1 = G[t3.kid[p][d]] + Short(Null, "left", p, d) + Black(t3, p) /\ H[c] + 1 = G[t3.kid[w][d]] + Black(t3, p)
      <3>1. H[c] + 1 = G[t3.kid[p][d]] + 0 + Black(t3, p)
        <4>1. H[c] + 1 = H[c] + 0 + 1
          BY <2>4
        <4> QED
          BY <2>2, <2>4, <4>1, Zenon
      <3> QED
        BY <2>1, <2>2, <2>4, <3>1, Zenon
    <2>6. G[p] = H[c] + 1 + Black(t3, w) /\ G[p] = G[t3.kid[w][D]] + Black(t3, w) /\ H[c] + 1 \in Nat
      <3>1. G[p] = H[c] + 1 + Black(t3, w)
        BY <2>3, <2>4, Zenon
      <3>2. H[c] + 1 \in Nat
        BY <2>4
      <3> QED
        BY <2>2, <3>1, <3>2, Zenon
    <2> QED
      BY <2>1, <2>5, <2>6, Zenon DEF Fits, D
  <1>18. Even(s, M)
    <2>1. Heights(s, M, Two(G, p, H[c] + 1, w, G[p]), Null, "left")
      BY <1>2, <1>8, <1>16, <1>17, TurnHeights
    <2> QED
      BY <2>1, Zenon DEF Even
  <1>19. Calm(s, M, Null, Null)
    <2> SUFFICES ASSUME NEW k \in M, NEW e \in Dir, IsRed(s, k), IsRed(s, s.kid[k][e]) PROVE FALSE
      BY Zenon DEF Calm
    <2>1. CASE k = p
      BY <1>2, <1>12, <2>1, Zenon
    <2>2. CASE k = w
      <3>1. s.kid[k][e] = p \/ s.kid[k][e] = f
        BY <1>2, <1>10, <2>2, Zenon
      <3> QED
        BY <1>2, <1>b, <1>12, <3>1
    <2>3. CASE k \notin {p, w}
      <3>1. t.kid[k][e] # w /\ s.kid[k][e] = IF t.kid[k][e] = p THEN w ELSE t.kid[k][e]
        BY <1>11, <2>3, Zenon
      <3>2. IsRed(t, k)
        BY <1>12, <2>3, Zenon
      <3>3. CASE t.kid[k][e] = p
        BY <1>2, <1>12, <3>1, <3>2, <3>3, Zenon
      <3>4. CASE t.kid[k][e] # p
        BY <1>2, <1>12, <3>1, <3>2, <3>4
      <3> QED
        BY <3>3, <3>4, Zenon
    <2> QED
      BY <2>1, <2>2, <2>3, Zenon
  <1>20. ~ IsRed(s, s.root)
    <2>1. CASE p = t.root
      BY <1>2, <1>b, <1>10, <1>12, <2>1, Zenon
    <2>2. CASE p # t.root
      <3>1. w # t.root
        BY <1>4, <1>a, SiblingBelow
      <3> QED
        BY <1>2, <1>10, <1>12, <2>2, <3>1, Zenon
    <2> QED
      BY <2>1, <2>2
  <1> QED
    BY <1>10, <1>18, <1>19, <1>20 DEF Level

(* The code of the case of a red far child. *)
LEMMA LackFarTurns ==
  ASSUME NEW t, NEW M, NEW c, NEW p, NEW d, Lacking(t, M, c, p, d),
         NEW w, w = t.kid[p][Opp(d)], ~ IsRed(t, w),
         NEW f, f = t.kid[w][Opp(d)], IsRed(t, f), NEW t1, t1 = Paint(t, w, t.color[p]),
         NEW t2, t2 = Paint(t1, p, "black"), NEW t3, t3 = Paint(t2, f, "black"),
         NEW s, s = Rotate(t3, p, d)
  PROVE  Level(s, M)
  <1>1. PICK H : Heights(t, M, H, p, d)
    BY Zenon DEF Lacking
  <1>2. Around(t, M, H, c, p, d, w)
    BY <1>1, LackAround
  <1>3. Search(t, M) /\ p \in M /\ w \in M /\ d \in Dir /\ Opp(d) \in Dir
    BY <1>2, Zenon DEF Lacking, Around
  <1>4. f \in M /\ f # Null /\ w # Null /\ t.color[p] \in {"red", "black"}
    <2>1. t.kid[w][Opp(d)] \in M \cup {Null} /\ Null \notin M /\ t \in Tree /\ M \subseteq Key
      BY <1>3, SearchIs, ZenonT(30)
    <2>2. t.color[p] \in {"red", "black"}
      BY <1>3, <2>1, TreeColors
    <2> QED
      BY <1>3, <2>1, <2>2, Zenon DEF IsRed
  <1>5. Colored(t1, t, M, w, t.color[p])
    <2>1. t.color[p] = "red" \/ t.color[p] = "black"
      BY <1>4, Zenon
    <2>2. CASE t.color[p] = "red"
      BY <1>3, <2>2, PaintColors, Zenon
    <2>3. CASE t.color[p] = "black"
      BY <1>3, <2>3, PaintColors, Zenon
    <2> QED
      BY <2>1, <2>2, <2>3, Zenon
  <1>6. Search(t1, M) /\ t1.kid = t.kid
    BY <1>5, Zenon DEF Colored
  <1>7. Colored(t2, t1, M, p, "black")
    BY <1>3, <1>6, PaintColors, Zenon
  <1>8. Search(t2, M) /\ t2.kid = t.kid
    BY <1>6, <1>7, Zenon DEF Colored
  <1>9. Colored(t3, t2, M, f, "black")
    BY <1>4, <1>8, PaintColors
  <1>10. Search(t3, M) /\ t3.kid[p][Opp(d)] = w
    BY <1>8, <1>9, Zenon DEF Colored
  <1>11. Turned(s, t3, M, p, w, d)
    <2>1. Turned(Rotate(t3, p, d), t3, M, p, t3.kid[p][Opp(d)], d)
      BY <1>3, <1>4, <1>10, RotateTurns, Zenon
    <2> QED
      BY <1>10, <2>1, Zenon
  <1> QED
    BY <1>5, <1>7, <1>9, <1>11, LackFar, Zenon

(* The code of the case of a red near child alone. *)
LEMMA LackNearTurns ==
  ASSUME NEW t, NEW M, NEW c, NEW p, NEW d, Lacking(t, M, c, p, d),
         NEW w, w = t.kid[p][Opp(d)], ~ IsRed(t, w), ~ IsRed(t, t.kid[w][Opp(d)]),
         NEW n, n = t.kid[w][d], IsRed(t, n), NEW t1, t1 = Paint(t, n, "black"),
         NEW t2, t2 = Paint(t1, w, "red"), NEW s, s = Rotate(t2, w, Opp(d))
  PROVE  Beside(s, M, c, p, d, n)
  <1>1. PICK H : Heights(t, M, H, p, d)
    BY Zenon DEF Lacking
  <1>2. Around(t, M, H, c, p, d, w)
    BY <1>1, LackAround
  <1>3. Search(t, M) /\ w \in M /\ Opp(d) \in Dir /\ Opp(Opp(d)) = d /\ d \in Dir
    BY <1>2, Zenon DEF Lacking, Around
  <1>4. n \in M /\ n # Null
    <2>1. t.kid[w][d] \in M \cup {Null} /\ Null \notin M
      BY <1>3, SearchIs, Zenon
    <2> QED
      BY <2>1, Zenon DEF IsRed
  <1>5. Colored(t1, t, M, n, "black")
    BY <1>3, <1>4, PaintColors
  <1>6. Search(t1, M) /\ t1.kid = t.kid
    BY <1>5, Zenon DEF Colored
  <1>7. Colored(t2, t1, M, w, "red")
    BY <1>3, <1>6, PaintColors
  <1>8. Search(t2, M) /\ t2.kid[w][d] = n
    BY <1>6, <1>7, Zenon DEF Colored
  <1>9. Turned(s, t2, M, w, n, Opp(d))
    <2>1. t2.kid[w][Opp(Opp(d))] = n
      BY <1>3, <1>8, Zenon
    <2>2. Turned(Rotate(t2, w, Opp(d)), t2, M, w, t2.kid[w][Opp(Opp(d))], Opp(d))
      BY <1>3, <1>4, <1>8, <2>1, RotateTurns, Zenon
    <2> QED
      BY <2>1, <2>2, Zenon
  <1> QED
    BY <1>5, <1>7, <1>9, LackNear, Zenon

(* The case of a black sibling with a red child. *)
LEMMA LackRotate ==
  ASSUME NEW t, NEW M, NEW c, NEW p, NEW d, Lacking(t, M, c, p, d),
         ~ IsRed(t, t.kid[p][Opp(d)]), \E e \in Dir : IsRed(t, t.kid[t.kid[p][Opp(d)]][e]),
         NEW s, s = DeleteRotate(t, p, d)
  PROVE  Level(s, M)
  <1>1. PICK w, n, far : w = t.kid[p][Opp(d)] /\ n = t.kid[w][d] /\ far = IsRed(t, t.kid[w][Opp(d)])
    OBVIOUS
  <1>2. PICK a, b, t1 : /\ a = (IF n = Null THEN t ELSE Paint(t, n, "black")) /\ b = Paint(a, w, "red")
                        /\ t1 = IF far THEN t ELSE Rotate(b, w, Opp(d))
    OBVIOUS
  <1>3. PICK v, u1, u2, f, u3 : /\ v = t1.kid[p][Opp(d)] /\ u1 = Paint(t1, v, t1.color[p])
                                /\ u2 = Paint(u1, p, "black") /\ f = u2.kid[v][Opp(d)]
                                /\ u3 = IF f = Null THEN u2 ELSE Paint(u2, f, "black")
    OBVIOUS
  <1>4. s = Rotate(u3, p, d)
    BY <1>1, <1>2, <1>3, ZenonT(30) DEF DeleteRotate
  <1>5. Lacking(t1, M, c, p, d) /\ ~ IsRed(t1, v) /\ IsRed(t1, t1.kid[v][Opp(d)])
    <2>1. CASE far
      BY <1>1, <1>2, <1>3, <2>1, Zenon
    <2>2. CASE ~far
      <3>1. IsRed(t, n) /\ ~ IsRed(t, t.kid[w][Opp(d)]) /\ ~ IsRed(t, w)
        <4>1. \A e \in Dir : e = d \/ e = Opp(d)
          BY DEF Lacking, Opp, Dir
        <4> QED
          BY <1>1, <2>2, <4>1
      <3>2. a = Paint(t, n, "black") /\ t1 = Rotate(b, w, Opp(d))
        BY <1>2, <2>2, <3>1 DEF IsRed
      <3>3. Beside(t1, M, c, p, d, n)
        BY <1>1, <1>2, <3>1, <3>2, LackNearTurns, Zenon
      <3> QED
        BY <1>3, <3>3, Zenon DEF Beside
    <2> QED
      BY <2>1, <2>2
  <1>6. f = t1.kid[v][Opp(d)]
    <2>1. PICK H : Heights(t1, M, H, p, d)
      BY <1>5, Zenon DEF Lacking
    <2>2. Around(t1, M, H, c, p, d, v)
      BY <1>3, <1>5, <2>1, LackAround, Zenon
    <2>3. Search(t1, M) /\ p \in M /\ v \in M /\ t1.color[p] \in {"red", "black"} /\ M \subseteq Key
      <3>1. Search(t1, M) /\ p \in M /\ v \in M /\ t1 \in Tree /\ M \subseteq Key
        BY <1>5, <2>2, Zenon DEF Lacking, Around
      <3> QED
        BY <3>1, TreeColors
    <2>4. u1.kid = t1.kid /\ u1 \in Tree
      <3>1. t1 \in Tree /\ v \in Key
        BY <2>3, SearchIs
      <3> QED
        BY <1>3, <2>3, <3>1 DEF Paint, Tree
    <2>5. u2.kid = u1.kid
      BY <1>3, <2>4 DEF Paint, Tree
    <2> QED
      BY <1>3, <2>4, <2>5
  <1>7. u3 = Paint(u2, f, "black") /\ IsRed(t1, f)
    <2>1. IsRed(t1, f)
      BY <1>5, <1>6
    <2> QED
      BY <1>3, <2>1, Zenon DEF IsRed
  <1> QED
    BY <1>3, <1>4, <1>5, <1>6, <1>7, LackFarTurns, Zenon

(* The start of an iteration of delete_fixup: afterwards the sibling is     *)
(* black.                                                                   *)
LEMMA LackSibling ==
  ASSUME NEW t, NEW M, NEW c, NEW p, NEW d, Lacking(t, M, c, p, d),
         NEW s, s = DeleteRedSibling(t, p, d)
  PROVE  Lacking(s, M, c, p, d) /\ ~ IsRed(s, s.kid[p][Opp(d)])
  <1>1. PICK w : w = t.kid[p][Opp(d)]
    OBVIOUS
  <1>2. CASE IsRed(t, w)
    <2>1. s = Rotate(Paint(Paint(t, w, "black"), p, "red"), p, d)
      BY <1>1, <1>2, Zenon DEF DeleteRedSibling
    <2> QED
      BY <1>1, <1>2, <2>1, LackRed
  <1>3. CASE ~ IsRed(t, w)
    <2>1. s = t
      BY <1>1, <1>3, Zenon DEF DeleteRedSibling
    <2> QED
      BY <1>1, <1>3, <2>1
  <1> QED
    BY <1>2, <1>3

(* A balanced tree is one where nothing is missing. *)
LEMMA LevelFalls ==
  ASSUME NEW t, NEW M, Level(t, M)
  PROVE  Falling(t, M, t.root, Null)
  <1>1. t.root \in M \cup {Null}
    BY SearchIs DEF Level
  <1> QED
    BY <1>1 DEF Level, Falling, Calm, IsRed

(* At the end of delete_fixup x becomes black. *)
LEMMA FallEnds ==
  ASSUME NEW t, NEW M, NEW c, NEW p, Falling(t, M, c, p), c = t.root \/ IsRed(t, c),
         NEW s, s = IF c = Null THEN t ELSE Paint(t, c, "black")
  PROVE  Level(s, M)
  <1>0. /\ Search(t, M) /\ Null \notin M /\ c \in M \cup {Null}
        /\ \A k \in M, e \in Dir : t.kid[k][e] \in M \cup {Null}
        /\ \A k \in M, e \in Dir : t.kid[k][e] # Null => t.parent[t.kid[k][e]] = k
        /\ \A k \in M : k \in Node /\ t.parent[k] # k
    <2>1. PICK lo, hi \in [Key -> Nat] : Spans(t, M, lo, hi)
      BY DEF Falling, Search
    <2>2. Search(t, M) /\ Linked(t, M) /\ Null \notin M
      BY SearchIs DEF Falling, Search
    <2>3. \A k \in M : t.parent[k] # k
      BY <2>1, <2>2, ParentIs
    <2> QED
      BY <2>2, <2>3, SearchIs DEF Falling, Node
  <1>1. CASE c = Null
    <2>1. s = t /\ t.root = Null /\ Even(t, M)
      BY <1>1 DEF Falling, IsRed
    <2> QED
      BY <1>1, <2>1 DEF Falling, Level, IsRed
  <1>2. CASE c # Null
    <2>1. c \in M /\ s = Paint(t, c, "black")
      BY <1>0, <1>2
    <2>2. Colored(s, t, M, c, "black")
      BY <1>0, <2>1, PaintColors
    <2>3. /\ Search(s, M) /\ s.kid = t.kid /\ s.root = t.root /\ t.root \in M \cup {Null}
          /\ \A k \in M : s.color[k] = IF k = c THEN "black" ELSE t.color[k]
      BY <1>0, <2>2, SearchIs DEF Colored
    <2>4. \A k \in M \cup {Null} : IsRed(s, k) => IsRed(t, k) /\ k # c
      BY <2>1, <2>3 DEF IsRed
    <2>5. Calm(s, M, Null, Null)
      BY <1>0, <2>3, <2>4 DEF Falling, Calm
    <2>6. ~ IsRed(s, s.root)
      BY <2>3, <2>4 DEF Falling
    <2>7. CASE c = t.root
      <3>1. Even(s, M)
        BY <1>0, <1>2, <2>1, <2>7, RootEven DEF Falling
      <3> QED
        BY <2>3, <2>5, <2>6, <3>1 DEF Level
    <2>8. CASE c # t.root
      <3>0. PICK f \in Dir : p \in M /\ t.kid[p][f] = c /\ \E H : Heights(t, M, H, p, f)
        BY <2>8 DEF Falling
      <3>1. PICK H : p \in M /\ t.kid[p][f] = c /\ Heights(t, M, H, p, f)
        BY <3>0
      <3>2. \A k \in M, e \in Dir : t.kid[k][e] = c <=> k = p /\ e = f
        <4>1. PICK lo, hi \in [Key -> Nat] : Spans(t, M, lo, hi)
          BY <1>0 DEF Search
        <4>2. Linked(t, M) /\ M \subseteq Key
          BY <1>0, SearchIs DEF Search
        <4> QED
          BY <2>1, <3>1, <4>1, <4>2, PointsTo
      <3>3. /\ H \in [Node -> Nat] /\ H[Null] = 0
            /\ \A k \in M, e \in Dir : H[k] = H[t.kid[k][e]] + Short(p, f, k, e) + Black(t, k)
        BY <3>1 DEF Heights
      <3> DEFINE G == [k \in Node |-> IF k = c THEN H[k] + 1 ELSE H[k]]
      <3>4. /\ G \in [Node -> Nat] /\ G[Null] = 0 /\ G[c] = H[c] + 1
            /\ \A k \in Node : k # c => G[k] = H[k]
        BY <1>0, <1>2, <2>1, <3>3 DEF Node
      <3> HIDE DEF G
      <3>5. Black(t, c) = 0 /\ Black(s, c) = 1 /\ \A k \in M : k # c => Black(s, k) = Black(t, k)
        BY <1>2, <2>1, <2>3, <2>8 DEF Black, IsRed
      <3>6. ASSUME NEW k \in M, NEW e \in Dir PROVE G[k] = G[s.kid[k][e]] + Black(s, k)
        <4>1. PICK b : b = t.kid[k][e]
          OBVIOUS
        <4>2. s.kid[k][e] = b /\ b \in Node /\ k \in Node /\ (b # Null => t.parent[b] = k)
          BY <1>0, <2>3, <4>1 DEF Node
        <4>3. H[k] = H[b] + Short(p, f, k, e) + Black(t, k) /\ H[b] \in Nat /\ Black(t, k) \in Nat
          BY <3>3, <4>1, <4>2 DEF Black
        <4>4. Short(p, f, k, e) = IF b = c THEN 1 ELSE 0
          BY <3>2, <4>1 DEF Short
        <4>5. CASE b = c
          <5>1. k # c
            BY <1>0, <1>2, <2>1, <4>2, <4>5
          <5>2. G[b] = H[b] + 1 /\ G[k] = H[k] /\ Black(s, k) = Black(t, k)
            BY <3>4, <3>5, <4>2, <4>5, <5>1
          <5> QED
            BY <4>2, <4>3, <4>4, <4>5, <5>2
        <4>6. CASE b # c
          <5>1. G[b] = H[b]
            BY <3>4, <4>2, <4>6
          <5>2. CASE k = c
            <6>1. G[k] = H[k] + 1 /\ Black(s, k) = 1 /\ Black(t, k) = 0
              BY <3>4, <3>5, <5>2
            <6> QED
              BY <4>2, <4>3, <4>4, <4>6, <5>1, <6>1
          <5>3. CASE k # c
            <6>1. G[k] = H[k] /\ Black(s, k) = Black(t, k)
              BY <3>4, <3>5, <4>2, <5>3
            <6> QED
              BY <4>2, <4>3, <4>4, <4>6, <5>1, <6>1
          <5> QED
            BY <5>2, <5>3
        <4> QED
          BY <4>5, <4>6
      <3>7. Heights(s, M, G, Null, "left")
        BY <2>3, <3>4, <3>6, EvenHeights
      <3> QED
        BY <2>3, <2>5, <2>6, <3>7 DEF Level, Even
    <2> QED
      BY <2>7, <2>8
  <1> QED
    BY <1>1, <1>2

(* s is t without z: the node y, whose only child c, or none, moves up,     *)
(* takes the place and the color of z, unless it is z                       *)
Cut(s, t, M, z, y, c, d) ==
  /\ Search(s, M \ {z}) /\ z \in M /\ y \in M /\ d \in Dir
  /\ t.kid[y][d] = c /\ t.kid[y][Opp(d)] = Null /\ c # z
  /\ s.root = New(z, y, IF y = t.root THEN c ELSE t.root)
  /\ \A j \in M \ {z}, e \in Dir :
       s.kid[j][e] = New(z, y, IF t.kid[Old(z, y, j)][e] = y THEN c ELSE t.kid[Old(z, y, j)][e])
  /\ \A j \in M \ {z} : s.color[j] = t.color[Old(z, y, j)]

(* If y was black, its black node is missing on the paths through c.        *)
LEMMA CutFalls ==
  ASSUME NEW t, NEW M, Level(t, M), NEW s, NEW z, NEW y, NEW c, NEW d, Cut(s, t, M, z, y, c, d)
  PROVE  /\ t.color[y] = "black" => Falling(s, M \ {z}, c, New(z, y, t.parent[y]))
         /\ t.color[y] # "black" => Level(s, M \ {z})
  <1> DEFINE R == M \ {z}
             old(j) == Old(z, y, j)
             new(i) == New(z, y, i)
  <1>1. PICK q, f : q = t.parent[y] /\ f = Side(t, y)
    OBVIOUS
  <1>2. PICK lo, hi \in [Key -> Nat] : Spans(t, M, lo, hi)
    BY DEF Level, Search
  <1>3. Search(t, M) /\ Linked(t, M) /\ Search(s, R)
    BY DEF Level, Search, Cut
  <1>4. /\ M \subseteq Key /\ Null \notin M /\ z \in M /\ y \in M /\ c \in M \cup {Null} /\ c # z /\ c # y
        /\ q \in M \cup {Null} /\ q # y /\ (q = Null <=> y = t.root) /\ f \in Dir /\ t \in Tree
        /\ \A j \in M \cup {Null} : j \in Node
    <2>1. /\ M \subseteq Key /\ Null \notin M /\ z \in M /\ y \in M /\ c \in M \cup {Null} /\ c # z /\ t \in Tree
          /\ q \in M \cup {Null} /\ (q = Null <=> y = t.root) /\ f \in Dir
      BY <1>1, <1>3, SearchIs DEF Cut
    <2>2. q # y
      BY <1>1, <1>2, <1>3, <2>1, ParentIs
    <2>3. c # y
      <3>1. c # Null => t.parent[c] = y
        BY <1>3, <2>1, SearchIs DEF Cut
      <3> QED
        BY <1>1, <2>1, <2>2, <3>1
    <2> QED
      BY <2>1, <2>2, <2>3 DEF Node
  <1>5. \A j \in M, e \in Dir : t.kid[j][e] \in M \cup {Null} /\ (t.kid[j][e] = y <=> j = q /\ e = f)
    <2>1. \A j \in M, e \in Dir : t.kid[j][e] \in M \cup {Null}
      BY <1>3, SearchIs
    <2>2. \A k \in Key, e \in Dir : t.kid[k][e] = y <=> (k = t.parent[y] /\ e = Side(t, y))
      BY <1>2, <1>3, <1>4, PointsTo
    <2> QED
      BY <1>1, <1>4, <2>1, <2>2
  <1>6. \A j \in R : old(j) \in M /\ old(j) # y /\ (old(j) = q <=> j = new(q))
    BY <1>4 DEF Old, New
  <1>7. \A i \in M \cup {Null} : i # y => new(i) \in R \cup {Null} /\ (new(i) = Null <=> i = Null) /\ old(new(i)) = i
    BY <1>4 DEF Old, New
  <1>8. new(c) = c /\ c \in R \cup {Null}
    BY <1>4 DEF New
  <1> DEFINE up(j, e) == IF t.kid[old(j)][e] = y THEN c ELSE t.kid[old(j)][e]
  <1>9. \A j \in R, e \in Dir : s.kid[j][e] = new(up(j, e)) /\ up(j, e) \in M \cup {Null} /\ up(j, e) # y
    <2>1. \A j \in R, e \in Dir : s.kid[j][e] = new(up(j, e))
      BY DEF Cut
    <2> QED
      BY <1>4, <1>5, <1>6, <2>1
  <1>10. \A j \in R : s.color[j] = t.color[old(j)]
    BY DEF Cut
  <1>11. s.root = new(IF y = t.root THEN c ELSE t.root)
    BY DEF Cut
  <1>12. PICK H : Heights(t, M, H, Null, "left")
    BY DEF Level, Even
  <1>13. H \in [Node -> Nat] /\ H[Null] = 0 /\ \A j \in M, e \in Dir : H[j] = H[t.kid[j][e]] + Black(t, j)
    BY <1>3, <1>12, EvenHeights
  <1>14. H[y] = H[c] + Black(t, y)
    BY <1>4, <1>13 DEF Cut
  <1> DEFINE G == [i \in Node |-> H[old(i)]]
  <1>15. G \in [Node -> Nat] /\ G[Null] = 0 /\ \A j \in R : G[j] = H[old(j)]
    <2>1. \A i \in Node : old(i) \in Node
      BY <1>4 DEF Old
    <2>2. old(Null) = Null
      BY <1>4 DEF Old
    <2> QED
      BY <1>4, <1>13, <2>1, <2>2
  <1>16. \A i \in M \cup {Null} : i # y => G[new(i)] = H[i]
    <2>1. \A i \in R \cup {Null} : i \in Node
      BY <1>4
    <2> QED
      BY <1>7, <2>1
  <1> HIDE DEF G
  <1>17. \A i \in M \cup {Null} : i # y => (IsRed(s, new(i)) <=> IsRed(t, i))
    BY <1>7, <1>10 DEF IsRed
  <1>18. \A j \in R : Black(s, j) = Black(t, old(j)) /\ (IsRed(s, j) <=> IsRed(t, old(j)))
    <2>1. \A j \in R : j # Null /\ old(j) # Null
      BY <1>4, <1>6
    <2> QED
      BY <1>10, <2>1 DEF IsRed, Black
  <1> HIDE DEF old, new, R
  <1>19. ASSUME NEW j \in R, NEW e \in Dir
         PROVE  G[j] = G[s.kid[j][e]] + (IF t.kid[old(j)][e] = y THEN Black(t, y) ELSE 0) + Black(s, j)
    <2>1. PICK o, b, i : o = old(j) /\ b = t.kid[o][e] /\ i = up(j, e)
      OBVIOUS
    <2>2. o \in M /\ b \in M \cup {Null} /\ i = IF b = y THEN c ELSE b
      BY <1>5, <1>6, <2>1
    <2>3. G[j] = H[o] /\ H[o] = H[b] + Black(t, o) /\ Black(s, j) = Black(t, o)
      BY <1>13, <1>15, <1>18, <2>1, <2>2
    <2>4. G[s.kid[j][e]] = H[i]
      BY <1>9, <1>16, <2>1
    <2>5. H[i] \in Nat /\ H[b] \in Nat /\ Black(t, o) \in Nat /\ Black(t, y) \in Nat
      <3>1. b \in Node /\ i \in Node
        BY <1>4, <2>2
      <3> QED
        BY <1>13, <3>1 DEF Black
    <2>6. b = y => H[b] = H[i] + Black(t, y)
      BY <1>14, <2>2
    <2>7. b # y => H[b] = H[i]
      BY <2>2
    <2> QED
      BY <2>1, <2>3, <2>4, <2>5, <2>6, <2>7
  <1>20. \A j \in R, e \in Dir : IsRed(s, j) /\ IsRed(s, s.kid[j][e]) =>
           t.kid[old(j)][e] = y /\ s.kid[j][e] = c /\ IsRed(t, c)
    <2> SUFFICES ASSUME NEW j \in R, NEW e \in Dir, IsRed(s, j), IsRed(s, s.kid[j][e])
                 PROVE  t.kid[old(j)][e] = y /\ s.kid[j][e] = c /\ IsRed(t, c)
      OBVIOUS
    <2>1. IsRed(t, old(j)) /\ IsRed(t, up(j, e))
      BY <1>9, <1>17, <1>18
    <2>2. CASE t.kid[old(j)][e] = y
      BY <1>8, <1>9, <2>1, <2>2
    <2>3. CASE t.kid[old(j)][e] # y
      <3>1. IsRed(t, t.kid[old(j)][e]) /\ old(j) \in M /\ t.kid[old(j)][e] # Null /\ old(j) # Null
        BY <1>4, <1>6, <2>1, <2>3 DEF IsRed
      <3> QED
        BY <2>1, <3>1 DEF Level, Calm
    <2> QED
      BY <2>2, <2>3
  <1>21. ASSUME IsRed(s, s.root) PROVE y = t.root /\ c = s.root /\ IsRed(t, c)
    <2>1. t.root \in M \cup {Null}
      BY <1>3, SearchIs
    <2>2. y # t.root => ~ IsRed(s, new(t.root))
      BY <1>17, <2>1 DEF Level
    <2>3. y = t.root
      BY <1>11, <1>21, <2>2
    <2> QED
      BY <1>4, <1>8, <1>11, <1>17, <1>21, <2>3
  <1>22. CASE t.color[y] = "black"
    <2>1. Calm(s, R, c, c)
      BY <1>20 DEF Calm
    <2>2. Black(t, y) = 1
      BY <1>22 DEF Black
    <2>3. CASE y = t.root
      <3>1. c = s.root
        BY <1>8, <1>11, <2>3
      <3>2. \A j \in R, e \in Dir : t.kid[old(j)][e] # y
        BY <1>4, <1>5, <1>6, <2>3
      <3>3. \A j \in R, e \in Dir : G[j] = G[s.kid[j][e]] + Black(s, j)
        <4> SUFFICES ASSUME NEW j \in R, NEW e \in Dir PROVE G[j] = G[s.kid[j][e]] + Black(s, j)
          OBVIOUS
        <4>1. s.kid[j][e] \in Node
          BY <1>4, <1>7, <1>9 DEF R
        <4>2. G[s.kid[j][e]] \in Nat /\ Black(s, j) \in Nat
          BY <1>15, <4>1 DEF Black
        <4> QED
          BY <1>19, <3>2, <4>2
      <3>4. Heights(s, R, G, Null, "left")
        BY <1>3, <1>15, <3>3, EvenHeights
      <3> QED
        BY <1>3, <1>8, <1>22, <2>1, <3>1, <3>4 DEF Falling, Even, R
    <2>4. CASE y # t.root
      <3>1. PICK p : p = new(q)
        OBVIOUS
      <3>2. p \in R /\ old(p) = q /\ q \in M
        BY <1>4, <1>7, <2>4, <3>1
      <3>3. s.kid[p][f] = c
        BY <1>4, <1>5, <1>8, <1>9, <3>2
      <3>4. \A j \in R, e \in Dir : t.kid[old(j)][e] = y <=> j = p /\ e = f
        BY <1>5, <1>6, <3>1
      <3>5. \A j \in R, e \in Dir : G[j] = G[s.kid[j][e]] + Short(p, f, j, e) + Black(s, j)
        BY <1>19, <2>2, <3>4 DEF Short
      <3>6. Heights(s, R, G, p, f)
        BY <1>15, <3>5 DEF Heights
      <3>7. c # s.root
        <4>1. \A k \in R : s.parent[k] = Null <=> k = s.root
          BY <1>3, SearchIs
        <4>2. c # Null => s.parent[c] = p
          BY <1>3, <1>4, <3>2, <3>3, SearchIs
        <4>3. s.root # Null /\ p # Null
          BY <1>3, <3>2, SearchIs
        <4> QED
          BY <1>8, <4>1, <4>2, <4>3
      <3>8. ~ IsRed(s, s.root)
        BY <1>21, <3>7
      <3>9. Falling(s, R, c, p)
        BY <1>3, <1>4, <1>8, <2>1, <3>2, <3>3, <3>6, <3>7, <3>8 DEF Falling
      <3> QED
        BY <1>1, <1>22, <3>1, <3>9 DEF R, new
    <2> QED
      BY <2>3, <2>4
  <1>23. CASE t.color[y] # "black"
    <2>1. Black(t, y) = 0 /\ IsRed(t, y)
      <3>1. t.color[y] = "red"
        BY <1>4, <1>23 DEF Tree
      <3> QED
        BY <1>4, <3>1 DEF IsRed, Black
    <2>2. ~ IsRed(t, c) /\ y # t.root
      <3>1. IsRed(t, t.kid[y][d]) => t.kid[y][d] = Null \/ y = Null
        BY <1>4, <2>1 DEF Level, Calm, Cut
      <3>2. t.kid[y][d] = c
        BY DEF Cut
      <3> QED
        BY <1>4, <2>1, <3>1, <3>2 DEF Level, IsRed
    <2>3. Calm(s, R, Null, Null)
      BY <1>20, <2>2 DEF Calm
    <2>4. \A j \in R, e \in Dir : G[j] = G[s.kid[j][e]] + Black(s, j)
      <3> SUFFICES ASSUME NEW j \in R, NEW e \in Dir PROVE G[j] = G[s.kid[j][e]] + Black(s, j)
        OBVIOUS
      <3>1. s.kid[j][e] \in Node
        BY <1>4, <1>7, <1>9 DEF R
      <3>2. G[s.kid[j][e]] \in Nat /\ Black(s, j) \in Nat
        BY <1>15, <3>1 DEF Black
      <3> QED
        BY <1>19, <2>1, <3>2
    <2>5. Heights(s, R, G, Null, "left")
      BY <1>3, <1>15, <2>4, EvenHeights
    <2>6. ~ IsRed(s, s.root)
      BY <1>21, <2>2
    <2> QED
      BY <1>3, <1>23, <2>3, <2>5, <2>6 DEF Level, Even, R
  <1> QED
    BY <1>22, <1>23

(* Where delete_fixup starts when the successor y of z was unlinked.        *)
LEMMA InnerStarts ==
  ASSUME NEW t, NEW z, NEW y, y = SubtreeMin(t, t.kid[z]["right"]), NEW u, u = UnlinkInner(t, z)
  PROVE  /\ u.x = t.kid[y]["right"] /\ u.color = t.color[y]
         /\ u.xp = IF t.parent[y] = z THEN y ELSE t.parent[y]
  BY DEF UnlinkInner

(* The unlinking of z cuts out a node, z or its successor.                  *)
LEMMA RemoveCuts ==
  ASSUME NEW t, NEW M, Search(t, M), NEW z \in M, NEW u, u = Unlink(t, z), NEW s, s = Forget(u.tree, z)
  PROVE  \E y, d : Cut(s, t, M, z, y, u.x, d) /\ u.color = t.color[y] /\ u.xp = New(z, y, t.parent[y])
  <1>1. PICK lo, hi \in [Key -> Nat] : Spans(t, M, lo, hi)
    BY DEF Search
  <1>2. Linked(t, M)
    BY DEF Search
  <1>3. t \in Tree /\ M \subseteq Key /\ Null \notin M /\ Null \notin Key /\ z \in Key /\ "left" \in Dir /\ "right" \in Dir
    BY SearchIs DEF Dir
  <1>4. Search(s, M \ {z})
    BY RemoveSearch DEF Unlinked, Altered
  <1>5. ASSUME NEW d \in Dir, t.kid[z][Opp(d)] = Null, u = UnlinkLeaf(t, z, d)
        PROVE  Cut(s, t, M, z, z, u.x, d) /\ u.color = t.color[z] /\ u.xp = New(z, z, t.parent[z])
    <2>1. PICK c : c = t.kid[z][d]
      OBVIOUS
    <2>2. u.tree = Transplant(t, z, c) /\ u.x = c /\ u.xp = t.parent[z] /\ u.color = t.color[z]
      BY <1>5, <2>1 DEF UnlinkLeaf
    <2>3. Dropped(s, t, z, c) /\ \A j \in Key : j # z => s.color[j] = t.color[j]
      BY <1>1, <1>2, <2>1, <2>2, DropIs
    <2>4. c # z
      <3>1. c # Null => c # z
        BY <1>1, <1>2, <2>1, ChildIs
      <3> QED
        BY <1>3, <3>1
    <2>5. \A i : New(z, z, i) = i /\ Old(z, z, i) = i
      BY DEF New, Old
    <2>6. /\ s.root = IF z = t.root THEN c ELSE t.root
          /\ \A j \in M \ {z}, e \in Dir : s.kid[j][e] = IF t.kid[j][e] = z THEN c ELSE t.kid[j][e]
          /\ \A j \in M \ {z} : s.color[j] = t.color[j]
      BY <1>3, <2>3 DEF Dropped
    <2>7. Cut(s, t, M, z, z, c, d)
      BY <1>4, <1>5, <2>1, <2>4, <2>5, <2>6 DEF Cut
    <2> QED
      BY <2>2, <2>5, <2>7
  <1>6. CASE t.kid[z]["left"] = Null
    <2>1. u = UnlinkLeaf(t, z, "right") /\ t.kid[z][Opp("right")] = Null
      BY <1>6 DEF Unlink, Opp
    <2> QED
      BY <1>3, <1>5, <2>1
  <1>7. CASE t.kid[z]["left"] # Null /\ t.kid[z]["right"] = Null
    <2>1. u = UnlinkLeaf(t, z, "left") /\ t.kid[z][Opp("left")] = Null
      BY <1>7 DEF Unlink, Opp
    <2> QED
      BY <1>3, <1>5, <2>1
  <1>8. CASE t.kid[z]["left"] # Null /\ t.kid[z]["right"] # Null
    <2>0. PICK s0, y, n, l, r, p, q :
            /\ s0 = Forget(UnlinkInner(t, z).tree, z)
            /\ y = SubtreeMin(t, t.kid[z]["right"]) /\ r = t.kid[y]["right"]
            /\ p = t.parent[y] /\ q = t.parent[z] /\ n = t.kid[z]["right"] /\ l = t.kid[z]["left"]
            /\ InnerCut(s0, t, z, y, n, l, r, p, q)
      BY <1>1, <1>2, <1>8, InnerFields, Zenon
    <2>1. y = SubtreeMin(t, t.kid[z]["right"]) /\ r = t.kid[y]["right"] /\ p = t.parent[y]
      BY <2>0, Zenon
    <2>2. u = UnlinkInner(t, z)
      BY <1>8, Zenon DEF Unlink
    <2>3. u.x = r /\ u.xp = (IF p = z THEN y ELSE p) /\ u.color = t.color[y]
      BY <2>1, <2>2, InnerStarts
    <2>4. y \in M /\ y # z /\ t.kid[y]["left"] = Null /\ r # z
      BY <1>1, <1>2, <1>8, <2>1, SuccessorIs DEF SuccessorOf
    <2>5. s = Forget(UnlinkInner(t, z).tree, z)
      BY <2>2, Zenon
    <2>51. s0 = s
      BY <2>0, <2>5, Zenon
    <2>6. \A j \in Key : j # z => s.color[j] = IF j = y THEN t.color[z] ELSE t.color[j]
      BY <2>0, <2>51, Zenon DEF InnerCut
    <2>7. PICK v : Dropped(v, t, y, r) /\ Renamed(s, v, ((M \ {y}) \ {z}) \cup {y}, z, y)
      BY <1>1, <1>2, <1>8, <2>1, <2>5, InnerIs
    <2>8. s.root = New(z, y, IF y = t.root THEN r ELSE t.root)
      BY <2>7 DEF Dropped, Renamed
    <2>9. ASSUME NEW j \in M \ {z}, NEW e \in Dir
          PROVE  s.kid[j][e] = New(z, y, IF t.kid[Old(z, y, j)][e] = y THEN r ELSE t.kid[Old(z, y, j)][e])
      <3>1. PICK o : o = Old(z, y, j)
        OBVIOUS
      <3>2. o \in Key /\ o # y /\ j \in Key
        BY <1>3, <2>4, <3>1 DEF Old
      <3>3. s.kid[j][e] = New(z, y, v.kid[o][e])
        BY <2>7, <3>1, <3>2 DEF Renamed
      <3>4. v.kid[o][e] = IF t.kid[o][e] = y THEN r ELSE t.kid[o][e]
        BY <2>7, <3>2 DEF Dropped
      <3> QED
        BY <3>1, <3>3, <3>4
    <2>10. \A j \in M \ {z} : s.color[j] = t.color[Old(z, y, j)]
      BY <1>3, <2>6 DEF Old
    <2>11. Cut(s, t, M, z, y, r, "right")
      <3>1. t.kid[y]["right"] = r /\ t.kid[y][Opp("right")] = Null
        BY <2>1, <2>4 DEF Opp
      <3> QED
        BY <1>3, <1>4, <2>4, <2>8, <2>9, <2>10, <3>1 DEF Cut
    <2>12. u.xp = New(z, y, t.parent[y])
      BY <2>1, <2>3 DEF New
    <2> QED
      BY <2>3, <2>11, <2>12
  <1> QED
    BY <1>6, <1>7, <1>8

(* A removal leaves a tree for delete_fixup, or a balanced one.             *)
LEMMA RemoveFalls ==
  ASSUME NEW t, NEW M, Level(t, M), NEW z \in M, NEW u, u = Unlink(t, z), NEW s, s = Forget(u.tree, z)
  PROVE  /\ u.color = "black" => Falling(s, M \ {z}, u.x, u.xp)
         /\ u.color # "black" => Level(s, M \ {z})
  <1>1. Search(t, M)
    BY DEF Level
  <1>2. PICK y, d : Cut(s, t, M, z, y, u.x, d) /\ u.color = t.color[y] /\ u.xp = New(z, y, t.parent[y])
    BY <1>1, RemoveCuts
  <1> QED
    BY <1>2, CutFalls

-----------------------------------------------------------------------------
(* the colors in every state *)

Colors ==
  /\ pc = "idle" => Level(tree, Members)
  /\ pc = "insert_fixup" => Rising(tree, Members, x)
  /\ pc = "delete_fixup" => Falling(tree, Members, x, x_parent)

(* A tree with the children, the colors and the root of a balanced one is   *)
(* balanced.                                                                *)
LEMMA SameLevel ==
  ASSUME NEW t, NEW M, Level(t, M), NEW s, Search(s, M), s.kid = t.kid, s.color = t.color, s.root = t.root
  PROVE  Level(s, M)
  <1>1. PICK H : Heights(t, M, H, Null, "left")
    BY DEF Level, Even
  <1>2. Heights(s, M, H, Null, "left")
    BY <1>1 DEF Heights, Black
  <1> QED
    BY <1>2 DEF Level, Even, Calm, IsRed

(* The tree without nodes is balanced.                                      *)
LEMMA EmptyLevel == Level(Empty, {})
  <1>1. Search(Empty, {}) /\ Empty.root = Null
    BY EmptySearch DEF Empty
  <1>2. [n \in Node |-> 0] \in [Node -> Nat] /\ Null \in Node
    BY DEF Node
  <1>3. Heights(Empty, {}, [n \in Node |-> 0], Null, "left")
    BY <1>2 DEF Heights
  <1> QED
    BY <1>1, <1>3 DEF Level, Even, Calm, IsRed

(* A new tree is balanced.                                                  *)
LEMMA InitColors == Init => Colors
  <1> SUFFICES ASSUME Init PROVE Colors
    OBVIOUS
  <1>1. Members = {} /\ tree = Empty /\ pc = "idle"
    BY DEF Init, Members, Empty
  <1> QED
    BY <1>1, EmptyLevel DEF Colors

(* Replacing an element leaves the tree balanced.                           *)
LEMMA InsertReplacesColors ==
  ASSUME Inv, Colors, NEW k \in Key, NEW e \in Elem[k], InsertReplaces(k, e)
  PROVE  Colors'
  <1>1. Inv' /\ k \in Members /\ e # Nil /\ \A j \in Key : tree'.elem[j] = IF j = k THEN e ELSE tree.elem[j]
    BY InsertReplacesInv
  <1>2. Members' = Members
    BY <1>1 DEF Members
  <1>3. Search(tree', Members) /\ Level(tree, Members) /\ tree \in Tree /\ pc' = "idle"
    BY <1>1, <1>2 DEF Inv, Colors, InsertReplaces, TypeOK
  <1>4. tree'.kid = tree.kid /\ tree'.color = tree.color /\ tree'.root = tree.root
    BY <1>3 DEF InsertReplaces, Tree
  <1>5. Level(tree', Members)
    BY <1>3, <1>4, SameLevel
  <1> QED
    BY <1>2, <1>3, <1>5 DEF Colors

(* A new leaf leaves the tree to insert_fixup.                              *)
LEMMA InsertLinksColors ==
  ASSUME Inv, Colors, NEW k \in Key, NEW e \in Elem[k], InsertLinks(k, e)
  PROVE  Colors'
  <1>1. k \notin Members /\ e # Nil /\ \A j \in Key : tree'.elem[j] = IF j = k THEN e ELSE tree.elem[j]
    BY InsertLinksInv
  <1>2. Members' = Members \cup {k}
    BY <1>1 DEF Members
  <1>3. tree' = WithLeaf(tree, k, e)
    BY Zenon DEF InsertLinks, WithLeaf
  <1>4. pc' = "insert_fixup" /\ x' = k /\ Level(tree, Members) /\ e \in Elems
    BY DEF InsertLinks, Colors, Elems
  <1>5. Rising(tree', Members \cup {k}, k)
    BY <1>1, <1>3, <1>4, LeafRises
  <1> QED
    BY <1>2, <1>4, <1>5 DEF Colors

(* An iteration of insert_fixup leaves at most one red node below a red     *)
(* one.                                                                     *)
LEMMA InsertFixupColors ==
  ASSUME Inv, Colors, InsertFixup
  PROVE  Colors'
  <1>1. Members' = Members
    BY InsertFixupInv DEF Members
  <1>2. PICK p, g, d, y : p = tree.parent[x] /\ g = tree.parent[p] /\ d = Side(tree, p) /\ y = tree.kid[g][Opp(d)]
    OBVIOUS
  <1>3. pc' = "insert_fixup" /\ Rising(tree, Members, x) /\ IsRed(tree, tree.parent[x])
    BY DEF InsertFixup, Colors
  <1>4. Above(tree, Members, x, p, g, d)
    BY <1>2, <1>3, RisingAbove
  <1>5. Rising(tree', Members, x')
    <2>1. CASE IsRed(tree, y)
      <3>1. tree' = Paint(Paint(Paint(tree, p, "black"), y, "black"), g, "red") /\ x' = g
        BY <1>2, <2>1, Zenon DEF InsertFixup
      <3>2. PICK s : s = tree'
        OBVIOUS
      <3>3. Rising(s, Members, g)
        BY <1>2, <1>3, <1>4, <2>1, <3>1, <3>2, RiseRecolor, Zenon
      <3> QED
        BY <3>1, <3>2, <3>3
    <2>2. CASE ~ IsRed(tree, y)
      <3>1. tree' = InsertRotate(tree, x, d) /\ x' = IF x = tree.kid[p][Opp(d)] THEN p ELSE x
        BY <1>2, <2>2 DEF InsertFixup
      <3>2. PICK s : s = tree'
        OBVIOUS
      <3>3. Rising(s, Members, IF x = tree.kid[p][Opp(d)] THEN p ELSE x)
        BY <1>2, <1>3, <1>4, <2>2, <3>1, <3>2, RiseRotate
      <3> QED
        BY <3>1, <3>2, <3>3, Zenon
    <2> QED
      BY <2>1, <2>2
  <1> QED
    BY <1>1, <1>3, <1>5 DEF Colors

(* insert_fixup leaves a balanced tree.                                     *)
LEMMA InsertDoneColors ==
  ASSUME Inv, Colors, InsertDone
  PROVE  Colors'
  <1>1. Members' = Members
    BY InsertDoneInv DEF Members
  <1>2. Rising(tree, Members, x) /\ ~ IsRed(tree, tree.parent[x]) /\ tree' = Paint(tree, tree.root, "black")
        /\ pc' = "idle"
    BY DEF InsertDone, Colors
  <1>3. PICK s : s = tree'
    OBVIOUS
  <1>4. Level(s, Members)
    BY <1>2, <1>3, RiseEnds
  <1> QED
    BY <1>1, <1>2, <1>3, <1>4 DEF Colors

(* rbtree_remove leaves a tree to delete_fixup, or a balanced one.          *)
LEMMA RemoveColors ==
  ASSUME Inv, Colors, NEW k \in Key, Remove(k)
  PROVE  Colors'
  <1>1. k \in Members /\ \A j \in Key : tree'.elem[j] = IF j = k THEN Nil ELSE tree.elem[j]
    BY RemoveInv
  <1>2. Members' = Members \ {k}
    BY <1>1 DEF Members
  <1>3. PICK u, s : u = Unlink(tree, k) /\ s = tree'
    OBVIOUS
  <1>4. s = Forget(u.tree, k) /\ Level(tree, Members)
    BY <1>3 DEF Remove, Colors
  <1>5. /\ u.color = "black" => Falling(s, Members \ {k}, u.x, u.xp)
        /\ u.color # "black" => Level(s, Members \ {k})
    BY <1>1, <1>3, <1>4, RemoveFalls
  <1>6. CASE u.color = "black"
    <2>1. pc' = "delete_fixup" /\ x' = u.x /\ x_parent' = u.xp
      BY <1>3, <1>6 DEF Remove
    <2> QED
      BY <1>2, <1>3, <1>5, <1>6, <2>1 DEF Colors
  <1>7. CASE u.color # "black"
    <2>1. pc' = "idle"
      BY <1>3, <1>7 DEF Remove
    <2> QED
      BY <1>2, <1>3, <1>5, <1>7, <2>1 DEF Colors
  <1> QED
    BY <1>6, <1>7

(* An iteration of delete_fixup leaves at most one black node missing.      *)
LEMMA DeleteFixupColors ==
  ASSUME Inv, Colors, DeleteFixup
  PROVE  Colors'
  <1>1. Members' = Members
    BY DeleteFixupInv DEF Members
  <1>2. PICK d, t, w : /\ d = (IF x = tree.kid[x_parent]["left"] THEN "left" ELSE "right")
                       /\ t = DeleteRedSibling(tree, x_parent, d) /\ w = t.kid[x_parent][Opp(d)]
    OBVIOUS
  <1>3. Falling(tree, Members, x, x_parent) /\ x # tree.root /\ ~ IsRed(tree, x) /\ pc' = "delete_fixup"
    BY Zenon DEF DeleteFixup, Colors
  <1>4. Lacking(tree, Members, x, x_parent, d)
    BY <1>2, <1>3, FallSide
  <1>5. Lacking(t, Members, x, x_parent, d) /\ ~ IsRed(t, w)
    BY <1>2, <1>4, LackSibling
  <1>6. PICK s : s = tree'
    OBVIOUS
  <1>7. Falling(s, Members, x', x_parent')
    <2>1. CASE \A e \in Dir : ~ IsRed(t, t.kid[w][e])
      <3>1. s = Paint(t, w, "red") /\ x' = x_parent /\ x_parent' = t.parent[x_parent]
        BY <1>2, <1>6, <2>1, Zenon DEF DeleteFixup
      <3>2. Falling(s, Members, x_parent, t.parent[x_parent])
        BY <1>2, <1>5, <2>1, <3>1, LackClimb, Zenon
      <3> QED
        BY <3>1, <3>2
    <2>2. CASE \E e \in Dir : IsRed(t, t.kid[w][e])
      <3>1. s = DeleteRotate(t, x_parent, d) /\ x' = s.root /\ x_parent' = Null
        BY <1>2, <1>6, <2>2, Zenon DEF DeleteFixup
      <3>2. Level(s, Members)
        BY <1>2, <1>5, <2>2, <3>1, LackRotate, Zenon
      <3>3. Falling(s, Members, s.root, Null)
        BY <3>2, LevelFalls
      <3> QED
        BY <3>1, <3>3
    <2> QED
      BY <2>1, <2>2
  <1> QED
    BY <1>1, <1>3, <1>6, <1>7 DEF Colors

(* delete_fixup leaves a balanced tree.                                     *)
LEMMA DeleteDoneColors ==
  ASSUME Inv, Colors, DeleteDone
  PROVE  Colors'
  <1>1. Members' = Members
    BY DeleteDoneInv DEF Members
  <1>2. /\ Falling(tree, Members, x, x_parent) /\ (x = tree.root \/ IsRed(tree, x)) /\ pc' = "idle"
        /\ tree' = IF x = Null THEN tree ELSE Paint(tree, x, "black")
    BY DEF DeleteDone, Colors
  <1>3. PICK s : s = tree'
    OBVIOUS
  <1>4. Level(s, Members)
    BY <1>2, <1>3, FallEnds
  <1> QED
    BY <1>1, <1>2, <1>3, <1>4 DEF Colors

(* rbtree_dispose leaves the balanced tree without nodes.                   *)
LEMMA DisposeColors ==
  ASSUME Inv, Colors, Dispose
  PROVE  Colors'
  <1>1. tree' = Empty /\ pc' = "idle" /\ \A j \in Key : tree'.elem[j] = Nil
    BY DisposeInv DEF Dispose
  <1>2. Members' = {}
    BY <1>1 DEF Members
  <1> QED
    BY <1>1, <1>2, EmptyLevel DEF Colors

(* Every step keeps the state of the colors that the next one relies on.    *)
LEMMA NextColors == Inv /\ Colors /\ [Next]_vars => Colors'
  <1> SUFFICES ASSUME Inv, Colors, [Next]_vars PROVE Colors'
    OBVIOUS
  <1>1. ASSUME NEW k \in Key, NEW e \in Elem[k], InsertReplaces(k, e) \/ InsertLinks(k, e) PROVE Colors'
    BY <1>1, InsertReplacesColors, InsertLinksColors
  <1>2. ASSUME UNCHANGED <<tree, pc, x, x_parent>> PROVE Colors'
    BY <1>2 DEF Colors, Members
  <1>3. ASSUME NEW k \in Key, Remove(k) \/ RemoveAbsent(k) PROVE Colors'
    <2>1. RemoveAbsent(k) => UNCHANGED <<tree, pc, x, x_parent>>
      BY DEF RemoveAbsent
    <2> QED
      BY <1>2, <1>3, <2>1, RemoveColors
  <1>4. CASE InsertFixup \/ InsertDone
    BY <1>4, InsertFixupColors, InsertDoneColors
  <1>5. CASE DeleteFixup \/ DeleteDone
    BY <1>5, DeleteFixupColors, DeleteDoneColors
  <1>6. CASE Dispose
    BY <1>6, DisposeColors
  <1>7. CASE UNCHANGED vars
    BY <1>2, <1>7 DEF vars
  <1> QED
    BY <1>1, <1>3, <1>4, <1>5, <1>6, <1>7 DEF Next

(* The black nodes down the leftmost path are as many as down any other.    *)
LEMMA BlackHeightIs ==
  ASSUME NEW t, NEW M, Search(t, M), NEW H, Heights(t, M, H, Null, "left")
  PROVE  \A n \in M \cup {Null} : BlackHeight(t, n) = H[n]
  <1> DEFINE next == [m \in Key |-> t.kid[m]["left"]]
             base == [m \in Key |-> Black(t, m)]
             body(f) == [m \in Key |-> (IF t.kid[m]["left"] = Null THEN 0 ELSE f[t.kid[m]["left"]])
                                       + (IF t.color[m] = "black" THEN 1 ELSE 0)]
             height == CHOOSE f : f = body(f)
  <1>0. /\ Null \notin Key /\ M \subseteq Key /\ t \in Tree /\ "left" \in Dir /\ Null \notin M
        /\ \A m \in Key : Black(t, m) \in Nat
    BY SearchIs DEF Dir, Black
  <1>1. H \in [Node -> Nat] /\ H[Null] = 0 /\ \A m \in M : H[m] = H[t.kid[m]["left"]] + Black(t, m)
    BY <1>0, EvenHeights
  <1>2. PICK lo, hi \in [Key -> Nat] : Spans(t, M, lo, hi)
    BY DEF Search
  <1>3. Linked(t, M)
    BY DEF Search
  <1>4. Down(t, next)
    <2>1. \A m \in Key : t.kid[m]["left"] \in Node
      BY <1>0 DEF Tree, Node
    <2> QED
      BY <1>0, <2>1 DEF Down
  <1>5. PICK W \in [Key -> Nat] : Ends(next, W)
    BY <1>2, <1>3, <1>4, DownEnds
  <1>6. PICK b : b \in [Key -> Nat] /\ \A m \in Key : b[m] = Black(t, m)
    <2>1. base \in [Key -> Nat] /\ \A m \in Key : base[m] = Black(t, m)
      BY <1>0
    <2> HIDE DEF base
    <2> QED
      BY <2>1
  <1>7. PICK f \in [Key -> Nat] :
          \A m \in Key : f[m] = IF next[m] = Null THEN b[m] ELSE f[next[m]] + b[m]
    BY <1>5, <1>6, Recursion, ZenonT(30)
  <1>8. \A m \in Key : f[m] = (IF t.kid[m]["left"] = Null THEN 0 ELSE f[t.kid[m]["left"]])
                              + (IF t.color[m] = "black" THEN 1 ELSE 0)
    <2> SUFFICES ASSUME NEW m \in Key
                 PROVE  f[m] = (IF t.kid[m]["left"] = Null THEN 0 ELSE f[t.kid[m]["left"]])
                               + (IF t.color[m] = "black" THEN 1 ELSE 0)
      OBVIOUS
    <2>1. next[m] = t.kid[m]["left"] /\ b[m] \in Nat /\ b[m] = (IF t.color[m] = "black" THEN 1 ELSE 0)
      BY <1>6 DEF Black
    <2> HIDE DEF next
    <2>2. f[m] = IF next[m] = Null THEN b[m] ELSE f[next[m]] + b[m]
      BY <1>7
    <2>3. b[m] = 0 + b[m]
      BY <2>1
    <2> QED
      BY <2>1, <2>2, <2>3, Zenon
  <1>9. f = body(f)
    BY <1>8
  <1>10. height = body(height)
    BY <1>9
  <1>11. \A n \in Key : BlackHeight(t, n) = height[n]
    BY <1>0 DEF BlackHeight
  <1> HIDE DEF height
  <1>12. \A m \in Key : height[m] = (IF next[m] = Null THEN 0 ELSE height[next[m]]) + Black(t, m)
    BY <1>10 DEF Black
  <1> DEFINE P == {m \in Key : m \in M => height[m] = H[m]}
  <1>13. ASSUME NEW m \in Key, next[m] # Null => next[m] \in P PROVE m \in P
    <2> SUFFICES ASSUME m \in M PROVE height[m] = H[m]
      OBVIOUS
    <2>1. next[m] = t.kid[m]["left"]
      OBVIOUS
    <2>2. next[m] # Null => next[m] \in M
      BY <1>0, <2>1, SearchIs
    <2>3. next[m] # Null => height[next[m]] = H[next[m]]
      BY <1>13, <2>2
    <2> HIDE DEF next, P
    <2> QED
      BY <1>1, <1>12, <2>1, <2>3
  <1> HIDE DEF P, next
  <1>14. \A m \in Key : m \in P
    BY <1>5, <1>13, Along
  <1>15. \A m \in M : height[m] = H[m]
    BY <1>0, <1>14 DEF P
  <1>16. BlackHeight(t, Null) = 0
    BY DEF BlackHeight
  <1> QED
    BY <1>0, <1>1, <1>11, <1>15, <1>16

(* A balanced tree has as many black nodes down the leftmost path from      *)
(* either child of a node.                                                  *)
LEMMA ColorsBalanced == Inv /\ Colors => Balanced
  <1> SUFFICES ASSUME Inv, Colors, pc = "idle"
               PROVE  /\ size = Cardinality(Members)
                      /\ ~IsRed(tree, tree.root)
                      /\ \A k \in Members :
                           /\ IsRed(tree, k) => \A d \in Dir : ~IsRed(tree, tree.kid[k][d])
                           /\ BlackHeight(tree, tree.kid[k]["left"]) = BlackHeight(tree, tree.kid[k]["right"])
    BY DEF Balanced
  <1>1. Level(tree, Members) /\ Search(tree, Members) /\ size = Cardinality(Members)
    BY DEF Colors, Inv, Count
  <1>2. ~ IsRed(tree, tree.root)
    BY <1>1 DEF Level
  <1>3. ASSUME NEW k \in Members, IsRed(tree, k), NEW d \in Dir PROVE ~ IsRed(tree, tree.kid[k][d])
    <2>1. k # Null /\ (tree.kid[k][d] = Null => ~ IsRed(tree, tree.kid[k][d]))
      BY <1>1, SearchIs DEF IsRed
    <2> QED
      BY <1>1, <1>3, <2>1 DEF Level, Calm
  <1>4. ASSUME NEW k \in Members
        PROVE  BlackHeight(tree, tree.kid[k]["left"]) = BlackHeight(tree, tree.kid[k]["right"])
    <2>1. PICK H : Heights(tree, Members, H, Null, "left")
      BY <1>1 DEF Level, Even
    <2>2. PICK l, r : l = tree.kid[k]["left"] /\ r = tree.kid[k]["right"]
      OBVIOUS
    <2>3. l \in Members \cup {Null} /\ r \in Members \cup {Null}
      BY <1>1, <2>2, SearchIs DEF Dir
    <2>4. BlackHeight(tree, l) = H[l] /\ BlackHeight(tree, r) = H[r]
      BY <1>1, <2>1, <2>3, BlackHeightIs
    <2>5. H[k] = H[l] + Black(tree, k) /\ H[k] = H[r] + Black(tree, k)
      BY <1>1, <2>1, <2>2, EvenHeights DEF Dir
    <2>6. H[l] \in Nat /\ H[r] \in Nat /\ Black(tree, k) \in Nat
      <3>1. Members \subseteq Key
        BY DEF Members
      <3> QED
        BY <2>1, <2>3, <3>1 DEF Heights, Black, Node
    <2>7. H[l] = H[r]
      BY <2>5, <2>6
    <2> QED
      BY <2>2, <2>4, <2>7
  <1> QED
    BY <1>1, <1>2, <1>3, <1>4

(* What a fixup dereferences is there: a red node has a parent, and the     *)
(* sibling of a missing black node has black nodes below it.                *)
LEMMA ColorsNeverNull == Inv /\ Colors => NeverNull
  <1> SUFFICES ASSUME Inv, Colors PROVE NeverNull
    OBVIOUS
  <1>1. Null \notin Members
    BY SearchIs DEF Inv
  <1>2. ASSUME pc = "insert_fixup", IsRed(tree, tree.parent[x])
        PROVE  tree.parent[tree.parent[x]] # Null
    <2>1. Rising(tree, Members, x)
      BY <1>2 DEF Colors
    <2>2. tree.parent[tree.parent[x]] \in Members
      BY <1>2, <2>1, RisingAbove DEF Above
    <2> QED
      BY <1>1, <2>2
  <1>3. ASSUME pc = "delete_fixup", x # tree.root, ~ IsRed(tree, x),
               NEW d, d = (IF x = tree.kid[x_parent]["left"] THEN "left" ELSE "right"),
               NEW w, w = tree.kid[x_parent][Opp(d)]
        PROVE  x_parent # Null /\ w # Null /\ (IsRed(tree, w) => tree.kid[w][d] # Null)
    <2>1. Falling(tree, Members, x, x_parent)
      BY <1>3 DEF Colors
    <2>2. Lacking(tree, Members, x, x_parent, d)
      BY <1>3, <2>1, FallSide
    <2>3. PICK H : Heights(tree, Members, H, x_parent, d)
      BY <2>2, Zenon DEF Lacking
    <2>4. x_parent \in Members /\ w \in Members
      BY <1>3, <2>2, <2>3, LackAround DEF Around
    <2>5. IsRed(tree, w) => tree.kid[w][d] # Null
      BY <1>3, <2>2, LackRed
    <2> QED
      BY <1>1, <2>4, <2>5
  <1> QED
    BY <1>2, <1>3 DEF NeverNull

(* Between calls the tree of core/rbtree.c is red-black: its root is black, *)
(* no red node has a red child, every path down from a node has as many     *)
(* black nodes, and size is the number of nodes.  In every iteration of a   *)
(* fixup the grandparent of insert_fixup and the sibling of delete_fixup,   *)
(* which the code dereferences without a test, are not NULL, and in every   *)
(* state the pointers have the shape of a search tree.                      *)
THEOREM RedBlackTreeCorrect == Spec => []RedBlackTree
  <1>1. Init => Inv /\ Colors
    BY InitInv, InitColors
  <1>2. Inv /\ Colors /\ [Next]_vars => (Inv /\ Colors)'
    BY NextInv, NextColors
  <1>3. Inv /\ Colors => RedBlackTree
    BY InvShape, ColorsBalanced, ColorsNeverNull DEF RedBlackTree, RedBlack
  <1> QED
    BY <1>1, <1>2, <1>3, PTL DEF Spec
=============================================================================
