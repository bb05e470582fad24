---------------------------- MODULE MCAllocator ----------------------------
(* Instances of Allocator for TLC: a 4-bit size_t, a class of nodes that    *)
(* hold other objects and can be moved, and a class of plain blobs.          *)
EXTENDS Allocator, TLC

CONSTANTS node, blob

Statics  == {node, blob}
Infos    == [c \in Statics |->
               IF c = node THEN [size |-> 1, movable |-> TRUE, disposes |-> TRUE]
               ELSE [size |-> 3, movable |-> FALSE, disposes |-> FALSE]]

(* the classes made for allocator_new_ex that are moved or cloned: none is  *)
(* under src/, although symbol.c passes default_move and default_clone       *)
ExFixed   == {[size |-> 2, movable |-> FALSE, disposes |-> FALSE]}

Blocks == Permutations(Addr)
=============================================================================
