------------------------------- MODULE RBTree -------------------------------
(***************************************************************************)
(* The red-black tree of src/core/rbtree.c, with parent pointers and no    *)
(* sentinel.  An insert or a remove is a descent and a relinking, followed *)
(* by the loop of insert_fixup or delete_fixup, one action per iteration.  *)
(* A key has at most one node, so nodes are named by their keys; mirror    *)
(* images in the code are one definition with a direction d.               *)
(***************************************************************************)
EXTENDS Integers, FiniteSets

CONSTANTS
  Key,         \* keys, a finite set of positive integers
  Elem,        \* Elem[k]: the elements that compare equal to k
  Nil          \* NULL, not an element

Null == 0
Elems == UNION {Elem[k] : k \in Key}

ASSUME RBTreeAssumption ==
  Key \subseteq Nat \ {Null} /\ IsFiniteSet(Key) /\ DOMAIN Elem = Key /\ Nil \notin Elems

Dir    == {"left", "right"}
Opp(d) == IF d = "left" THEN "right" ELSE "left"

VARIABLES
  tree,        \* root, and for every key: color, children, parent, element
  size,
  pc,          \* "idle", "insert_fixup" or "delete_fixup"
  x, x_parent, \* the loop variables (z of insert_fixup is x)
  ret          \* what the last call returned, or will return

vars == <<tree, size, pc, x, x_parent, ret>>

Tree == [root : Key \cup {Null}, color : [Key -> {"red", "black"}],
         kid : [Key -> [Dir -> Key \cup {Null}]], parent : [Key -> Key \cup {Null}],
         elem : [Key -> Elems \cup {Nil}]]

Empty == [root |-> Null, color |-> [k \in Key |-> "red"],
          kid |-> [k \in Key |-> [d \in Dir |-> Null]], parent |-> [k \in Key |-> Null],
          elem |-> [k \in Key |-> Nil]]

-----------------------------------------------------------------------------
IsRed(t, n) == n # Null /\ t.color[n] = "red"
Side(t, n)  == IF n = t.kid[t.parent[n]]["left"] THEN "left" ELSE "right"
Paint(t, n, c)     == [t EXCEPT !.color[n] = c]
SetKid(t, n, d, c) == [t EXCEPT !.kid[n][d] = c]
SetParent(t, n, p) == IF n = Null THEN t ELSE [t EXCEPT !.parent[n] = p]

(* v takes u's place below u's parent *)
Replace(t, u, v) ==
  IF t.parent[u] = Null THEN [t EXCEPT !.root = v]
  ELSE SetKid(t, t.parent[u], Side(t, u), v)

(* mutant: the middle subtree keeps its old parent pointer *)
RotateLosesParent(t, n, d) ==
  LET y  == t.kid[n][Opp(d)]
      t1 == SetKid(t, n, Opp(d), t.kid[y][d])
      t2 == SetParent(Replace(t1, n, y), y, t.parent[n])
  IN SetParent(SetKid(t2, y, d, n), n, y)

(* rotate_left and rotate_right *)
Rotate(t, n, d) ==
  LET y  == t.kid[n][Opp(d)]
      t1 == SetParent(SetKid(t, n, Opp(d), t.kid[y][d]), t.kid[y][d], n)
      t2 == SetParent(Replace(t1, n, y), y, t.parent[n])
  IN SetParent(SetKid(t2, y, d, n), n, y)

(* transplant *)
Transplant(t, u, v) == SetParent(Replace(t, u, v), v, t.parent[u])

(* subtree_min: the leftmost node below n *)
SubtreeMin(t, n) ==
  LET min[m \in Key] == IF t.kid[m]["left"] = Null THEN m ELSE min[t.kid[m]["left"]]
  IN min[n]

(* the descent of rbtree_find, insert and remove from the root to key k:    *)
(* the node with the key, or the last node met                              *)
Toward(n, k) == IF k < n THEN "left" ELSE "right"
Descend(t, k) ==
  LET end[n \in Key] == IF n = k \/ t.kid[n][Toward(n, k)] = Null THEN n
                        ELSE end[t.kid[n][Toward(n, k)]]
  IN IF t.root = Null THEN Null ELSE end[t.root]

Find(t, k) == IF Descend(t, k) = k THEN t.elem[k] ELSE Nil

-----------------------------------------------------------------------------
(* mutant: the new element is returned *)
InsertReplacesReturnsNew(k, e) ==
  /\ pc = "idle"
  /\ Descend(tree, k) = k
  /\ tree' = [tree EXCEPT !.elem[k] = e]
  /\ ret' = e
  /\ UNCHANGED <<size, pc, x, x_parent>>

(* rbtree_insert of an element whose key is present *)
InsertReplaces(k, e) ==
  /\ pc = "idle"
  /\ Descend(tree, k) = k
  /\ tree' = [tree EXCEPT !.elem[k] = e]
  /\ ret' = tree.elem[k]
  /\ UNCHANGED <<size, pc, x, x_parent>>

(* rbtree_insert up to insert_fixup *)
InsertLinks(k, e) ==
  LET p == Descend(tree, k)
      t == [tree EXCEPT !.elem[k] = e, !.color[k] = "red", !.parent[k] = p,
                        !.kid[k] = [d \in Dir |-> Null]]
  IN /\ pc = "idle"
     /\ p # k
     /\ tree' = IF p = Null THEN [t EXCEPT !.root = k] ELSE SetKid(t, p, Toward(p, k), k)
     /\ pc' = "insert_fixup" /\ x' = k
     /\ ret' = Nil
     /\ UNCHANGED <<size, x_parent>>

(* mutant: an inner grandchild is not rotated out first *)
InsertRotateOnce(t, z, d) ==
  LET p == t.parent[z]
      g == t.parent[p]
  IN Rotate(Paint(Paint(t, p, "black"), g, "red"), g, Opp(d))

(* the rotations of insert_fixup, for a parent on side d with a black uncle *)
InsertRotate(t, z, d) ==
  LET inner == z = t.kid[t.parent[z]][Opp(d)]
      t1 == IF inner THEN Rotate(t, t.parent[z], d) ELSE t
      p  == IF inner THEN z ELSE t.parent[z]
      g  == t1.parent[p]
  IN Rotate(Paint(Paint(t1, p, "black"), g, "red"), g, Opp(d))

(* one iteration of the loop of insert_fixup *)
InsertFixup ==
  LET p == tree.parent[x]
      g == tree.parent[p]
      d == Side(tree, p)
      y == tree.kid[g][Opp(d)]
  IN /\ pc = "insert_fixup"
     /\ IsRed(tree, tree.parent[x])
     /\ \/ /\ g # Null /\ IsRed(tree, y)
           /\ tree' = Paint(Paint(Paint(tree, p, "black"), y, "black"), g, "red")
           /\ x' = g
        \/ /\ g # Null /\ ~IsRed(tree, y)
           /\ tree' = InsertRotate(tree, x, d)
           /\ x' = IF x = tree.kid[p][Opp(d)] THEN p ELSE x
     /\ UNCHANGED <<size, pc, x_parent, ret>>

(* insert_fixup leaves its loop and rbtree_insert returns *)
InsertDone ==
  /\ pc = "insert_fixup"
  /\ ~IsRed(tree, tree.parent[x])
  /\ tree' = Paint(tree, tree.root, "black")
  /\ size' = size + 1
  /\ pc' = "idle" /\ x' = Null
  /\ UNCHANGED <<x_parent, ret>>

-----------------------------------------------------------------------------
(* rbtree_remove: unlinking z leaves a tree, the node x that moved up, its  *)
(* parent, and the color that went missing                                  *)
UnlinkLeaf(t, z, d) ==
  [tree |-> Transplant(t, z, t.kid[z][d]), x |-> t.kid[z][d], xp |-> t.parent[z],
   color |-> t.color[z]]

UnlinkInner(t, z) ==
  LET y  == SubtreeMin(t, t.kid[z]["right"])
      r  == t.kid[y]["right"]
      t1 == IF t.parent[y] = z THEN t
            ELSE SetParent(SetKid(Transplant(t, y, r), y, "right", t.kid[z]["right"]),
                           t.kid[z]["right"], y)
      t2 == SetParent(SetKid(Transplant(t1, z, y), y, "left", t.kid[z]["left"]),
                      t.kid[z]["left"], y)
  IN [tree |-> Paint(t2, y, t.color[z]), x |-> r,
      xp |-> IF t.parent[y] = z THEN y ELSE t.parent[y], color |-> t.color[y]]

Unlink(t, z) ==
  IF t.kid[z]["left"] = Null THEN UnlinkLeaf(t, z, "right")
  ELSE IF t.kid[z]["right"] = Null THEN UnlinkLeaf(t, z, "left") ELSE UnlinkInner(t, z)

(* the freed node *)
Forget(t, z) ==
  [t EXCEPT !.elem[z] = Nil, !.kid[z] = [d \in Dir |-> Null], !.parent[z] = Null,
            !.color[z] = "red"]

(* rbtree_remove up to delete_fixup *)
Remove(k) ==
  LET u == Unlink(tree, k)
  IN /\ pc = "idle"
     /\ Descend(tree, k) = k
     /\ tree' = Forget(u.tree, k)
     /\ ret' = tree.elem[k]
     /\ IF u.color = "black"
        THEN pc' = "delete_fixup" /\ x' = u.x /\ x_parent' = u.xp /\ UNCHANGED size
        ELSE size' = size - 1 /\ UNCHANGED <<pc, x, x_parent>>

(* rbtree_remove of an absent key *)
RemoveAbsent(k) ==
  /\ pc = "idle"
  /\ Descend(tree, k) # k
  /\ ret' = Nil
  /\ UNCHANGED <<tree, size, pc, x, x_parent>>

(* mutant: a near red nephew is handled like a far one *)
DeleteRotateOnce(t, p, d) ==
  LET w  == t.kid[p][Opp(d)]
      t1 == Paint(Paint(t, w, t.color[p]), p, "black")
      f  == t1.kid[w][Opp(d)]
  IN Rotate(IF f = Null THEN t1 ELSE Paint(t1, f, "black"), p, d)

(* the last rotations of delete_fixup, for x on side d of p and a black     *)
(* sibling with a red child                                                 *)
DeleteRotate(t, p, d) ==
  LET w  == t.kid[p][Opp(d)]
      n  == t.kid[w][d]
      t1 == IF IsRed(t, t.kid[w][Opp(d)]) THEN t
            ELSE Rotate(Paint(IF n = Null THEN t ELSE Paint(t, n, "black"), w, "red"), w, Opp(d))
      v  == t1.kid[p][Opp(d)]
      t2 == Paint(Paint(t1, v, t1.color[p]), p, "black")
      f  == t2.kid[v][Opp(d)]
  IN Rotate(IF f = Null THEN t2 ELSE Paint(t2, f, "black"), p, d)

(* a red sibling is rotated away first *)
DeleteRedSibling(t, p, d) ==
  LET w == t.kid[p][Opp(d)]
  IN IF IsRed(t, w) THEN Rotate(Paint(Paint(t, w, "black"), p, "red"), p, d) ELSE t

(* mutant: the last case climbs, as the other one does, and goes on *)
DeleteFixupGoesOn ==
  LET d == IF x = tree.kid[x_parent]["left"] THEN "left" ELSE "right"
      t == DeleteRedSibling(tree, x_parent, d)
      w == t.kid[x_parent][Opp(d)]
  IN /\ pc = "delete_fixup"
     /\ x # tree.root /\ ~IsRed(tree, x)
     /\ \/ /\ w # Null /\ \A s \in Dir : ~IsRed(t, t.kid[w][s])
           /\ tree' = Paint(t, w, "red")
           /\ x' = x_parent /\ x_parent' = t.parent[x_parent]
        \/ /\ w # Null /\ \E s \in Dir : IsRed(t, t.kid[w][s])
           /\ tree' = DeleteRotate(t, x_parent, d)
           /\ x' = x_parent /\ x_parent' = tree'.parent[x_parent]
     /\ UNCHANGED <<size, pc, ret>>

(* one iteration of the loop of delete_fixup *)
DeleteFixup ==
  LET d == IF x = tree.kid[x_parent]["left"] THEN "left" ELSE "right"
      t == DeleteRedSibling(tree, x_parent, d)
      w == t.kid[x_parent][Opp(d)]
  IN /\ pc = "delete_fixup"
     /\ x # tree.root /\ ~IsRed(tree, x)
     /\ \/ /\ w # Null /\ \A s \in Dir : ~IsRed(t, t.kid[w][s])
           /\ tree' = Paint(t, w, "red")
           /\ x' = x_parent /\ x_parent' = t.parent[x_parent]
        \/ /\ w # Null /\ \E s \in Dir : IsRed(t, t.kid[w][s])
           /\ tree' = DeleteRotate(t, x_parent, d)
           /\ x' = tree'.root /\ x_parent' = Null
     /\ UNCHANGED <<size, pc, ret>>

(* delete_fixup leaves its loop and rbtree_remove returns *)
DeleteDone ==
  /\ pc = "delete_fixup"
  /\ x = tree.root \/ IsRed(tree, x)
  /\ tree' = IF x = Null THEN tree ELSE Paint(tree, x, "black")
  /\ size' = size - 1
  /\ pc' = "idle" /\ x' = Null /\ x_parent' = Null
  /\ UNCHANGED ret

(* rbtree_dispose, and rbtree_move_cb for the source *)
Dispose ==
  /\ pc = "idle"
  /\ tree' = Empty /\ size' = 0 /\ ret' = Nil
  /\ UNCHANGED <<pc, x, x_parent>>

-----------------------------------------------------------------------------
(* rbtree_new *)
Init == tree = Empty /\ size = 0 /\ pc = "idle" /\ x = Null /\ x_parent = Null /\ ret = Nil

Next ==
  \/ \E k \in Key : \E e \in Elem[k] : InsertReplaces(k, e) \/ InsertLinks(k, e)
  \/ \E k \in Key : Remove(k) \/ RemoveAbsent(k)
  \/ InsertFixup \/ InsertDone
  \/ DeleteFixup \/ DeleteDone
  \/ Dispose

Spec == Init /\ [][Next]_vars

-----------------------------------------------------------------------------
(* Properties *)

(* the number of black nodes on the leftmost path below n *)
BlackHeight(t, n) ==
  LET height[m \in Key] ==
        (IF t.kid[m]["left"] = Null THEN 0 ELSE height[t.kid[m]["left"]])
        + (IF t.color[m] = "black" THEN 1 ELSE 0)
  IN IF n = Null THEN 0 ELSE height[n]

Members == {k \in Key : tree.elem[k] # Nil}

(* The tree, its size and the loop variables have the types of rbtree.c *)
TypeOK ==
  /\ tree \in Tree /\ size \in Nat /\ ret \in Elems \cup {Nil}
  /\ pc \in {"idle", "insert_fixup", "delete_fixup"}
  /\ x \in Key \cup {Null} /\ x_parent \in Key \cup {Null}

(* In every state, in the middle of a fixup too: the state has its type,    *)
(* children and parent pointers are inverse, children lie on their side,    *)
(* and exactly one node has no parent, the root.                            *)
Shape ==
  /\ TypeOK
  /\ tree.root = Null <=> Members = {}
  /\ \A k \in Members :
       /\ tree.parent[k] = Null <=> k = tree.root
       /\ k # tree.root => tree.kid[tree.parent[k]][Side(tree, k)] = k
       /\ \A d \in Dir : LET c == tree.kid[k][d]
                         IN c # Null => /\ c \in Members /\ tree.parent[c] = k
                                        /\ d = Toward(k, c)

(* Between calls the tree is red-black: a black root, no red node with a    *)
(* red child, and as many black nodes on every path down; and size is the   *)
(* number of its nodes.                                                     *)
Balanced ==
  pc = "idle" =>
    /\ size = Cardinality(Members)
    /\ ~IsRed(tree, tree.root)
    /\ \A k \in Members :
         /\ IsRed(tree, k) => \A d \in Dir : ~IsRed(tree, tree.kid[k][d])
         /\ BlackHeight(tree, tree.kid[k]["left"]) = BlackHeight(tree, tree.kid[k]["right"])

(* The grandparent in insert_fixup and the sibling in delete_fixup, also    *)
(* after a red sibling has been rotated away, are never NULL: the code      *)
(* dereferences them without a test.                                        *)
NeverNull ==
  /\ pc = "insert_fixup" /\ IsRed(tree, tree.parent[x]) => tree.parent[tree.parent[x]] # Null
  /\ pc = "delete_fixup" /\ x # tree.root /\ ~IsRed(tree, x) =>
       /\ x_parent # Null
       /\ LET d == IF x = tree.kid[x_parent]["left"] THEN "left" ELSE "right"
              w == tree.kid[x_parent][Opp(d)]
          IN w # Null /\ (IsRed(tree, w) => tree.kid[w][d] # Null)

(* Both of the above: a call relies on the balance that every earlier call  *)
(* left, and dereferences only what the balance guarantees.                 *)
RedBlack == Balanced /\ NeverNull

(* What the code relies on in every state: pointers and balance together.   *)
RedBlackTree == Shape /\ RedBlack

(* the number of nodes above n *)
Depth(t, n) ==
  LET depth[m \in Key] == IF t.parent[m] = Null THEN 0 ELSE 1 + depth[t.parent[m]]
  IN depth[n]
LoopDepth == IF x # Null THEN Depth(tree, x)
             ELSE IF x_parent # Null THEN 1 + Depth(tree, x_parent) ELSE 0
LoopEnds  == \/ pc = "insert_fixup" /\ ~IsRed(tree, tree.parent[x])
             \/ pc = "delete_fixup" /\ (x = tree.root \/ IsRed(tree, x))

(* Both fixup loops end, after at most as many iterations as the tree is    *)
(* deep: an iteration leaves the loop variable nearer to the root, or its   *)
(* loop at the exit, although the rotations in between push nodes down.     *)
FixupClimbs == [][pc # "idle" /\ pc' = pc => LoopDepth' < LoopDepth \/ LoopEnds']_vars

(* What rbtree_find answers is a map that changes only as rbtree.h          *)
(* promises, and insert and remove return the element that was found        *)
(* before: no rotation or relinking loses, doubles or misplaces a key.      *)
Promise == INSTANCE OrderedMap WITH None <- Nil, map <- [k \in Key |-> Find(tree, k)]
ImplementsMap == Promise!Spec
=============================================================================
