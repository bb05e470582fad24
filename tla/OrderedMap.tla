----------------------------- MODULE OrderedMap -----------------------------
(***************************************************************************)
(* What rbtree.h promises of a tree: a map from keys to elements.  An      *)
(* insert of a key that is present replaces its element and returns the    *)
(* old one, a remove returns the element it takes out.                     *)
(***************************************************************************)
CONSTANTS
  Key,
  Elem,   \* Elem[k]: the elements that compare equal to k
  None    \* the answer for a key that is absent

VARIABLES map, ret

Init == DOMAIN map = Key /\ (\A k \in Key : map[k] = None) /\ ret = None

(* the element of k becomes e, and that of no other key changes *)
Put(k, e) == /\ map'[k] = e
             /\ \A j \in Key \ {k} : map'[j] = map[j]
             /\ DOMAIN map' = Key

Insert(k, e) == ret' = map[k] /\ Put(k, e)
Remove(k)    == ret' = map[k] /\ Put(k, None)
Dispose      == ret' = None /\ (\A k \in Key : map'[k] = None) /\ DOMAIN map' = Key

Next == \/ \E k \in Key : Remove(k) \/ \E e \in Elem[k] : Insert(k, e)
        \/ Dispose

Spec == Init /\ [][Next]_<<map, ret>>
=============================================================================
