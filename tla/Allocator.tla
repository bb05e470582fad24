----------------------------- MODULE Allocator -----------------------------
(***************************************************************************)
(* The tracking allocator of src/core/allocator.c: every object carries a  *)
(* header that links it into a list of live allocations; the allocator     *)
(* counts live objects and bytes, enforces a memory budget, and frees the  *)
(* class that an object made by allocator_new_ex owns.                     *)
(*                                                                         *)
(* allocator_free calls the class's dispose_fn, which frees the objects    *)
(* the disposed one holds, so frees nest: `freeing` is the stack of calls  *)
(* of allocator_free under way, and a step of the model enters or finishes *)
(* one.  Blocks of the underlying heap are reused.  size_t is 0..SizeMax   *)
(* and its arithmetic wraps.                                               *)
(***************************************************************************)
EXTENDS Naturals, Sequences, FiniteSets, FiniteSetsExt

CONSTANTS
  Addr,        \* blocks the underlying malloc can return
  Nil,         \* NULL
  SizeMax,     \* SIZE_MAX
  HeaderSize,  \* sizeof(alloc_header_t)
  StaticClass, \* class_t objects with static storage
  HeapClass,   \* class_t objects that allocator_new_ex mallocs
  ClassInfo,   \* the fields of the static classes
  ExInfo,      \* the fields callers pass to allocator_new_ex
  Counts,      \* object counts callers ask for
  Limits,      \* budgets given to create_allocator and allocator_set_max_bytes
  MaxNews      \* bound on the number of allocations

Class == StaticClass \cup HeapClass
(* class_t: movable stands for both move_fn and clone_fn, disposes for dispose_fn *)
Info  == [size : 0..SizeMax, movable : BOOLEAN, disposes : BOOLEAN]

ASSUME AllocatorAssumption ==
  /\ Nil \notin Addr
  /\ StaticClass \cap HeapClass = {} /\ StaticClass # {}
  /\ SizeMax \in Nat /\ HeaderSize \in 1..SizeMax /\ MaxNews \in Nat
  /\ Limits \subseteq 0..SizeMax /\ Counts \subseteq 0..SizeMax
  /\ ExInfo \subseteq Info /\ ClassInfo \in [StaticClass -> Info]

VARIABLES
  heap,        \* blocks handed out and not yet released
  obj,         \* obj[a]: class, count and owns_clazz of the header at a
  prev, next,  \* the links of the header at a (stale once a is released)
  head,        \* allocator->head
  live_count, total_bytes, max_bytes,
  class,       \* class[c]: the fields of class c (stale once c is released)
  classes,     \* heap classes that are allocated
  holds,       \* holds[a]: objects that the payload of a points to and owns
  freeing,     \* calls of allocator_free under way, innermost last
  moved,       \* the source allocator_move has yet to free, or Nil
  status,      \* "running", "deleted", "panic" or "fault" (a write through a bad pointer)
  born, news   \* history: the number of the allocation that made a; their count

list   == <<prev, next, head>>
counts == <<live_count, total_bytes>>
vars   == <<heap, obj, list, counts, max_bytes, class, classes, holds, freeing, moved,
            status, born, news>>

Last(s) == s[Len(s)]
Front(s) == [k \in 1..(Len(s) - 1) |-> s[k]]

(* the objects in the list: handed out and not yet entered by allocator_free *)
Freeing == {freeing[k] : k \in 1..Len(freeing)}
Listed  == heap \ Freeing

-----------------------------------------------------------------------------
(* list_insert *)

(* mutant: the old head keeps its prev pointer *)
InsertNoBackLink(a) ==
  /\ prev' = [prev EXCEPT ![a] = Nil]
  /\ next' = [next EXCEPT ![a] = head]
  /\ head' = a

Insert(a) ==
  /\ prev' = [b \in Addr |-> IF b = a THEN Nil ELSE IF b = head THEN a ELSE prev[b]]
  /\ next' = [next EXCEPT ![a] = head]
  /\ head' = a

(* list_remove *)
Remove(a) ==
  /\ next' = [b \in Addr |-> IF b = a THEN Nil
                             ELSE IF b = prev[a] THEN next[a] ELSE next[b]]
  /\ head' = IF prev[a] = Nil THEN next[a] ELSE head
  /\ prev' = [b \in Addr |-> IF b = a THEN Nil
                             ELSE IF b = next[a] THEN prev[a] ELSE prev[b]]

-----------------------------------------------------------------------------
(* allocator_new *)

(* the early returns of NULL: an empty request or one whose size overflows  *)
Refused(size, n) ==
  \/ size = 0 \/ n = 0
  \/ n > SizeMax \div size
  \/ n * size > SizeMax - HeaderSize

(* the budget guard: max_bytes - total_bytes is a size_t *)
OverBudget(total) ==
  max_bytes > 0 /\ total > (max_bytes + SizeMax + 1 - total_bytes) % (SizeMax + 1)

Panic == /\ status' = "panic"
         /\ UNCHANGED <<heap, obj, list, counts, max_bytes, class, classes, holds, freeing,
                        moved, born, news>>

(* mutant: live_count is not incremented *)
AllocUncounted(a, c, n, size, owns) ==
  /\ a \in Addr \ heap /\ news < MaxNews
  /\ heap' = heap \cup {a}
  /\ obj' = [obj EXCEPT ![a] = [class |-> c, count |-> n, owns |-> owns]]
  /\ Insert(a)
  /\ live_count' = live_count
  /\ total_bytes' = (total_bytes + HeaderSize + n * size) % (SizeMax + 1)
  /\ born' = [born EXCEPT ![a] = news] /\ news' = news + 1

(* allocator_new after its guards, at block a *)
Alloc(a, c, n, size, owns) ==
  /\ a \in Addr \ heap /\ news < MaxNews
  /\ heap' = heap \cup {a}
  /\ obj' = [obj EXCEPT ![a] = [class |-> c, count |-> n, owns |-> owns]]
  /\ Insert(a)
  /\ live_count' = live_count + 1
  /\ total_bytes' = (total_bytes + HeaderSize + n * size) % (SizeMax + 1)
  /\ born' = [born EXCEPT ![a] = news] /\ news' = news + 1

(* the program is in none of the allocator's calls *)
Calling == status = "running" /\ freeing = <<>> /\ moved = Nil

(* allocator_new; the caller stores the object in o, or keeps it *)
New(a, c, n, o) ==
  /\ Calling
  /\ o = Nil \/ (o \in heap /\ class[obj[o].class].disposes)
  /\ ~Refused(class[c].size, n)
  /\ IF OverBudget(HeaderSize + n * class[c].size) THEN Panic
     ELSE /\ Alloc(a, c, n, class[c].size, FALSE)
          /\ holds' = [b \in Addr |-> IF b = a THEN {}
                                      ELSE IF b = o THEN holds[b] \cup {a} ELSE holds[b]]
          /\ UNCHANGED <<max_bytes, class, classes, freeing, moved, status>>

(* allocator_new_ex: the class is malloc'ed first and owned by the object.  *)
(* A size that overflows makes allocator_new return NULL, and owns_clazz is *)
(* then written in front of address 0.                                      *)
NewEx(a, c, i, n) ==
  /\ Calling
  /\ c \in HeapClass \ classes
  /\ i.size # 0 /\ n # 0
  /\ IF Refused(i.size, n)
     THEN /\ status' = "fault"
          /\ UNCHANGED <<heap, obj, list, counts, max_bytes, class, classes, holds, freeing,
                         moved, born, news>>
     ELSE IF OverBudget(HeaderSize + n * i.size) THEN Panic
     ELSE /\ Alloc(a, c, n, i.size, TRUE)
          /\ class' = [class EXCEPT ![c] = i]
          /\ classes' = classes \cup {c}
          /\ holds' = [holds EXCEPT ![a] = {}]
          /\ UNCHANGED <<max_bytes, freeing, moved, status>>

-----------------------------------------------------------------------------
(* allocator_free *)

(* sizeof(alloc_header_t) + count * clazz->size, read again from the header *)
Bytes(a) == HeaderSize + obj[a].count * class[obj[a].class].size

(* up to the call of dispose_fn: out of the list and of the counters *)
FreeEnter(a) ==
  /\ Remove(a)
  /\ live_count' = live_count - 1
  /\ total_bytes' = (total_bytes + SizeMax + 1 - Bytes(a)) % (SizeMax + 1)
  /\ freeing' = Append(freeing, a)

(* a caller frees an object it keeps itself; allocator_move frees its source *)
Free(a) ==
  /\ \/ Calling /\ a \in heap /\ \A b \in heap : a \notin holds[b]
     \/ status = "running" /\ freeing = <<>> /\ a = moved
  /\ FreeEnter(a)
  /\ moved' = Nil
  /\ UNCHANGED <<heap, obj, max_bytes, class, classes, holds, status, born, news>>

(* dispose_fn of the innermost object frees one of the objects it holds *)
Dispose(a) ==
  /\ status = "running" /\ freeing # <<>>
  /\ class[obj[Last(freeing)].class].disposes
  /\ a \in holds[Last(freeing)]
  /\ FreeEnter(a)
  /\ holds' = [holds EXCEPT ![Last(freeing)] = @ \ {a}]
  /\ UNCHANGED <<heap, obj, max_bytes, class, classes, moved, status, born, news>>

(* dispose_fn has returned: release the block, and the class if it is owned *)
FinishFree ==
  LET a == Last(freeing)
  IN /\ status = "running" /\ freeing # <<>>
     /\ class[obj[a].class].disposes => holds[a] = {}
     /\ heap' = heap \ {a}
     /\ classes' = IF obj[a].owns THEN classes \ {obj[a].class} ELSE classes
     /\ freeing' = Front(freeing)
     /\ UNCHANGED <<obj, list, counts, max_bytes, class, holds, moved, status, born, news>>

-----------------------------------------------------------------------------
(* allocator_move and allocator_clone *)

(* mutant: the source is copied and not zeroed *)
MoveHoldsCopied(a, b) ==
  [x \in Addr |-> IF x = b THEN holds[a]
                  ELSE IF a \in holds[x] THEN (holds[x] \ {a}) \cup {b} ELSE holds[x]]

(* the class is shared with the source, whose header keeps owns_clazz; the  *)
(* move_fn hands over what the source holds (default_move zeroes it) and    *)
(* the caller replaces its pointer by the new one                           *)
MoveHolds(a, b) ==
  [x \in Addr |-> IF x = b THEN holds[a] ELSE IF x = a THEN {}
                  ELSE IF a \in holds[x] THEN (holds[x] \ {a}) \cup {b} ELSE holds[x]]

Move(a, b) ==
  /\ Calling /\ a \in heap
  /\ IF ~class[obj[a].class].movable \/ OverBudget(Bytes(a)) THEN Panic
     ELSE /\ Alloc(b, obj[a].class, obj[a].count, class[obj[a].class].size, FALSE)
          /\ holds' = MoveHolds(a, b)
          /\ moved' = a
          /\ UNCHANGED <<max_bytes, class, classes, freeing, status>>

(* default_clone is for payloads that own nothing; what a deep clone_fn     *)
(* allocates for the copy are further calls of allocator_new                *)
Clone(a, b) ==
  /\ Calling /\ a \in heap /\ holds[a] = {}
  /\ IF ~class[obj[a].class].movable \/ OverBudget(Bytes(a)) THEN Panic
     ELSE /\ Alloc(b, obj[a].class, obj[a].count, class[obj[a].class].size, FALSE)
          /\ holds' = [holds EXCEPT ![b] = {}]
          /\ UNCHANGED <<max_bytes, class, classes, freeing, moved, status>>

(* allocator_set_max_bytes *)
SetMaxBytes(m) ==
  /\ Calling
  /\ max_bytes' = m
  /\ UNCHANGED <<heap, obj, list, counts, class, classes, holds, freeing, moved, status,
                 born, news>>

(* delete_allocator reports what is still in the list and frees none of it  *)
Delete ==
  /\ Calling
  /\ status' = "deleted"
  /\ UNCHANGED <<heap, obj, list, counts, max_bytes, class, classes, holds, freeing, moved,
                 born, news>>

-----------------------------------------------------------------------------
(* create_allocator *)
Init ==
  /\ heap = {}
  /\ obj = [a \in Addr |-> [class |-> CHOOSE c \in StaticClass : TRUE, count |-> 0, owns |-> FALSE]]
  /\ prev = [a \in Addr |-> Nil] /\ next = [a \in Addr |-> Nil] /\ head = Nil
  /\ live_count = 0 /\ total_bytes = 0 /\ max_bytes \in Limits
  /\ class = [c \in Class |-> IF c \in StaticClass THEN ClassInfo[c]
                              ELSE [size |-> 0, movable |-> FALSE, disposes |-> FALSE]]
  /\ classes = {}
  /\ holds = [a \in Addr |-> {}]
  /\ freeing = <<>> /\ moved = Nil /\ status = "running"
  /\ born = [a \in Addr |-> 0] /\ news = 0

Next ==
  \/ \E a \in Addr, c \in StaticClass, n \in Counts, o \in Addr \cup {Nil} : New(a, c, n, o)
  \/ \E a \in Addr, c \in HeapClass, i \in ExInfo, n \in Counts : NewEx(a, c, i, n)
  \/ \E a \in Addr : Free(a) \/ Dispose(a)
  \/ FinishFree
  \/ \E a, b \in Addr : Move(a, b) \/ Clone(a, b)
  \/ \E m \in Limits : SetMaxBytes(m)
  \/ Delete

Spec == Init /\ [][Next]_vars

-----------------------------------------------------------------------------
(* Properties *)

(* Headers, links, counters and budget hold values of their C types; in     *)
(* particular live_count never wraps below zero.                            *)
TypeOK ==
  /\ heap \subseteq Addr
  /\ obj \in [Addr -> [class : Class, count : 0..SizeMax, owns : BOOLEAN]]
  /\ prev \in [Addr -> Addr \cup {Nil}] /\ next \in [Addr -> Addr \cup {Nil}]
  /\ head \in Addr \cup {Nil}
  /\ live_count \in Nat /\ total_bytes \in 0..SizeMax /\ max_bytes \in 0..SizeMax
  /\ class \in [Class -> Info] /\ classes \subseteq HeapClass
  /\ holds \in [Addr -> SUBSET Addr]
  /\ freeing \in Seq(Addr) /\ moved \in Addr \cup {Nil}
  /\ status \in {"running", "panic", "fault", "deleted"}
  /\ born \in [Addr -> Nat] /\ news \in Nat

(* Walking allocator->head along next, as delete_allocator does to report   *)
(* leaks, meets every live object exactly once, newest first, and prev      *)
(* leads back: each link stays inside the list, is the inverse of the other *)
(* and goes to an older object, and only the head has no predecessor.       *)
ListIntact ==
  /\ head \in Listed \cup {Nil}
  /\ head # Nil => prev[head] = Nil
  /\ \A a \in Listed :
       /\ next[a] # Nil => next[a] \in Listed /\ prev[next[a]] = a /\ born[next[a]] < born[a]
       /\ prev[a] # Nil => prev[a] \in Listed /\ next[prev[a]] = a
       /\ prev[a] = Nil => head = a

(* live_count and total_bytes are what a walk of the list would add up to,  *)
(* also in the middle of a nested free and after moves.                     *)
CountExact == live_count = Cardinality(Listed)
BytesExact == total_bytes = MapThenSumSet(Bytes, Listed)
(* and never exceed the ceiling that create_allocator set *)
BudgetHeld == max_bytes > 0 => total_bytes <= max_bytes
CountersExact == CountExact /\ BytesExact /\ BudgetHeld

(* What an object holds is allocated, not itself and not yet being freed,   *)
(* no two objects hold the same, and the frees under way are of distinct    *)
(* live blocks: dispose_fn never frees a block twice, however frees nest    *)
(* and objects move.                                                        *)
HoldsLive ==
  /\ \A a \in heap : /\ holds[a] \subseteq Listed \ {a}
                     /\ \A b \in heap : b # a => holds[a] \cap holds[b] = {}
  /\ Freeing \subseteq heap
  /\ \A j, k \in 1..Len(freeing) : freeing[j] = freeing[k] => j = k
=============================================================================
