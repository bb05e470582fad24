-------------------------- MODULE AllocatorProofs --------------------------
(***************************************************************************)
(* The live list of the tracking allocator stays a doubly linked list of   *)
(* exactly the live objects, live_count is its length, total_bytes is the  *)
(* sum of their sizes and stays within the ceiling, and no block is freed  *)
(* twice: for any heap, any classes and sizes, and frees nested to any     *)
(* depth.                                                                  *)
(***************************************************************************)
EXTENDS Allocator, FiniteSetTheorems, SequenceTheorems, WellFoundedInduction, TLAPS

(* The allocation that made a live object has happened; the source of a     *)
(* move under way is live and no object points to it any more.              *)
BornBefore == \A a \in heap : born[a] < news
MovedOK ==
  moved # Nil => moved \in heap /\ freeing = <<>> /\ \A b \in heap : moved \notin holds[b]

(* The inductive invariant: the list alone is not inductive, since that     *)
(* list_remove is only called for a listed object follows from HoldsLive.   *)
Inv == /\ TypeOK /\ ListIntact /\ HoldsLive /\ BornBefore /\ MovedOK
       /\ IsFiniteSet(heap) /\ CountExact

-----------------------------------------------------------------------------
(* list_insert puts a new, youngest object in front of the list *)
LEMMA InsertList ==
  ASSUME TypeOK, ListIntact, BornBefore, NEW a \in Addr \ heap, Insert(a),
         freeing = <<>>, freeing' = <<>>, heap' = heap \cup {a},
         born' = [born EXCEPT ![a] = news]
  PROVE  ListIntact'
  <1>1. Listed = heap /\ Listed' = heap \cup {a}
    BY DEF Listed, Freeing
  <1>2. /\ \A b \in heap : born'[b] = born[b] /\ born[b] < news
        /\ born'[a] = news
    BY DEF TypeOK, BornBefore
  <1>3. /\ head' = a /\ prev'[a] = Nil /\ next'[a] = head
        /\ \A b \in heap : next'[b] = next[b] /\ prev'[b] = IF b = head THEN a ELSE prev[b]
    BY DEF Insert, TypeOK
  <1>4. ASSUME NEW b \in heap
        PROVE  /\ next'[b] # Nil => next'[b] \in heap /\ prev'[next'[b]] = b
                                    /\ born'[next'[b]] < born'[b]
               /\ prev'[b] # Nil => prev'[b] \in heap \cup {a} /\ next'[prev'[b]] = b
               /\ prev'[b] = Nil => head' = b
    <2>1. next[b] # Nil => next[b] \in heap /\ prev[next[b]] = b /\ born[next[b]] < born[b]
      BY <1>1, <1>4 DEF ListIntact
    <2>2. next[b] # Nil => next[b] # head
      BY <1>1, <1>4, <2>1, AllocatorAssumption DEF ListIntact, TypeOK
    <2>3. /\ prev[b] # Nil => prev[b] \in heap /\ next[prev[b]] = b
          /\ prev[b] = Nil => head = b
          /\ head = b => prev[b] = Nil
      BY <1>1, <1>4, AllocatorAssumption DEF ListIntact, TypeOK
    <2>4. next'[b] # Nil => next'[b] \in heap /\ prev'[next'[b]] = b
                            /\ born'[next'[b]] < born'[b]
      BY <1>2, <1>3, <1>4, <2>1, <2>2
    <2>5. a # Nil
      BY AllocatorAssumption
    <2>6. prev'[b] # Nil => prev'[b] \in heap \cup {a} /\ next'[prev'[b]] = b
      BY <1>3, <1>4, <2>3
    <2>7. prev'[b] # Nil
      BY <1>3, <1>4, <2>3, <2>5
    <2> QED
      BY <2>4, <2>6, <2>7
  <1>5. /\ next'[a] # Nil => next'[a] \in heap /\ prev'[next'[a]] = a /\ born'[next'[a]] < born'[a]
    BY <1>1, <1>2, <1>3 DEF ListIntact
  <1> QED
    BY <1>1, <1>3, <1>4, <1>5, AllocatorAssumption DEF ListIntact

(* list_remove takes out one listed object and joins its neighbours *)
LEMMA RemoveList ==
  ASSUME TypeOK, ListIntact, NEW a \in Listed, Remove(a),
         Listed' = Listed \ {a}, born' = born
  PROVE  ListIntact'
  <1>0. a \in Addr /\ Nil \notin Addr /\ Listed \subseteq Addr
    BY AllocatorAssumption DEF TypeOK, Listed
  <1>1. /\ \A b \in Addr : next'[b] = IF b = a THEN Nil
                                     ELSE IF b = prev[a] THEN next[a] ELSE next[b]
        /\ \A b \in Addr : prev'[b] = IF b = a THEN Nil
                                     ELSE IF b = next[a] THEN prev[a] ELSE prev[b]
        /\ head' = IF prev[a] = Nil THEN next[a] ELSE head
    BY DEF Remove
  <1>2. /\ \A x \in Listed : next[x] # Nil => next[x] \in Listed /\ prev[next[x]] = x
                                              /\ born[next[x]] < born[x]
        /\ \A x \in Listed : prev[x] # Nil => prev[x] \in Listed /\ next[prev[x]] = x
        /\ \A x \in Listed : prev[x] = Nil => head = x
        /\ head \in Listed \cup {Nil} /\ (head # Nil => prev[head] = Nil)
    BY DEF ListIntact
  <1>3. \A x \in Addr : born[x] \in Nat
    BY DEF TypeOK
  <1>4. head' \in Listed' \cup {Nil} /\ (head' # Nil => prev'[head'] = Nil)
    BY <1>0, <1>1, <1>2, <1>3
  <1>5. ASSUME NEW b \in Listed'
        PROVE  next'[b] # Nil => next'[b] \in Listed' /\ prev'[next'[b]] = b
                                  /\ born[next'[b]] < born[b]
    <2>1. b \in Listed /\ b # a /\ b \in Addr
      BY <1>0, <1>5
    <2>2. CASE b = prev[a]
      <3>1. next'[b] = next[a] /\ next[b] = a /\ b # Nil
        BY <1>0, <1>1, <1>2, <2>1, <2>2
      <3>2. CASE next[a] # Nil
        <4>1. next[a] \in Listed /\ next[a] # a /\ born[next[a]] < born[a] /\ born[a] < born[b]
          BY <1>0, <1>2, <1>3, <2>1, <2>2, <3>1, <3>2
        <4>2. prev'[next[a]] = prev[a]
          BY <1>0, <1>1, <4>1
        <4>3. born[next[a]] < born[b]
          BY <1>0, <1>3, <2>1, <4>1
        <4> QED
          BY <2>2, <3>1, <4>1, <4>2, <4>3
      <3> QED
        BY <3>1, <3>2
    <2>3. CASE b # prev[a]
      <3>1. next'[b] = next[b]
        BY <1>1, <2>1, <2>3
      <3>2. CASE next[b] # Nil
        <4>1. next[b] \in Listed /\ prev[next[b]] = b /\ next[b] # a /\ born[next[b]] < born[b]
          BY <1>2, <2>1, <2>3, <3>2
        <4>2. next[b] # next[a]
          BY <1>2, <2>1, <3>2
        <4>3. prev'[next[b]] = b
          BY <1>0, <1>1, <4>1, <4>2
        <4> QED
          BY <3>1, <4>1, <4>3
      <3> QED
        BY <3>1, <3>2
    <2> QED
      BY <2>2, <2>3
  <1>6. ASSUME NEW b \in Listed'
        PROVE  /\ prev'[b] # Nil => prev'[b] \in Listed' /\ next'[prev'[b]] = b
               /\ prev'[b] = Nil => head' = b
    <2>1. b \in Listed /\ b # a /\ b \in Addr
      BY <1>0, <1>6
    <2>2. CASE b = next[a]
      <3>1. prev'[b] = prev[a] /\ prev[b] = a
        BY <1>0, <1>1, <1>2, <2>1, <2>2
      <3>2. prev[a] # Nil => prev[a] \in Listed /\ prev[a] # a /\ next'[prev[a]] = next[a]
        BY <1>0, <1>1, <1>2, <1>3, <2>1
      <3>3. prev[a] = Nil => head' = b
        BY <1>1, <2>2
      <3> QED
        BY <2>2, <3>1, <3>2, <3>3
    <2>3. CASE b # next[a]
      <3>1. prev'[b] = prev[b]
        BY <1>1, <2>1, <2>3
      <3>2. prev[b] # Nil => prev[b] \in Listed /\ prev[b] # a /\ prev[b] # prev[a]
                             /\ next[prev[b]] = b
        BY <1>2, <2>1, <2>3
      <3>3. prev[b] # Nil => next'[prev[b]] = b
        BY <1>0, <1>1, <3>2
      <3>4. prev[b] = Nil => head = b /\ prev[a] # Nil
        BY <1>2, <2>1
      <3> QED
        BY <1>1, <3>1, <3>2, <3>3, <3>4
    <2> QED
      BY <2>2, <2>3
  <1> QED
    BY <1>4, <1>5, <1>6 DEF ListIntact

-----------------------------------------------------------------------------
(* size_t arithmetic stays in range *)
LEMMA SizeWraps ==
  ASSUME NEW x \in Nat
  PROVE  x % (SizeMax + 1) \in 0..SizeMax
  <1>1. SizeMax + 1 \in Nat /\ SizeMax + 1 > 0
    BY AllocatorAssumption
  <1>2. x % (SizeMax + 1) \in 0..((SizeMax + 1) - 1)
    BY <1>1
  <1> QED
    BY <1>2, AllocatorAssumption

(* the size of an object is a positive number *)
LEMMA BytesNat ==
  ASSUME TypeOK, NEW a \in Addr
  PROVE  Bytes(a) \in Nat
  <1>1. obj[a].class \in Class /\ obj[a].count \in Nat
    BY DEF TypeOK
  <1>2. class[obj[a].class].size \in Nat
    BY <1>1 DEF TypeOK, Info
  <1>3. obj[a].count * class[obj[a].class].size \in Nat
    BY <1>1, <1>2
  <1> QED
    BY <1>3, AllocatorAssumption DEF Bytes

(* allocator_new after its guards: what holds is the caller's choice, as    *)
(* long as it is consistent                                                 *)
LEMMA AllocStep ==
  ASSUME Inv, NEW a \in Addr, NEW c \in Class, NEW n \in 0..SizeMax, NEW size \in Nat,
         NEW owns \in BOOLEAN, Alloc(a, c, n, size, owns),
         freeing = <<>>, freeing' = freeing
  PROVE  /\ ListIntact' /\ BornBefore' /\ CountExact' /\ IsFiniteSet(heap)'
         /\ heap' \subseteq Addr
         /\ obj' \in [Addr -> [class : Class, count : 0..SizeMax, owns : BOOLEAN]]
         /\ prev' \in [Addr -> Addr \cup {Nil}] /\ next' \in [Addr -> Addr \cup {Nil}]
         /\ head' \in Addr
         /\ live_count' \in Nat /\ total_bytes' \in 0..SizeMax
         /\ born' \in [Addr -> Nat] /\ news' \in Nat
         /\ Listed = heap /\ Listed' = heap \cup {a} /\ a \notin heap
         /\ Freeing' = {}
  <1>1. a \in Addr \ heap /\ heap' = heap \cup {a} /\ Insert(a) /\ born' = [born EXCEPT ![a] = news]
        /\ news' = news + 1 /\ live_count' = live_count + 1
    BY DEF Alloc
  <1>2. ListIntact'
    BY <1>1, InsertList DEF Inv
  <1>3. Listed = heap /\ Listed' = heap \cup {a} /\ Freeing' = {}
    BY <1>1 DEF Listed, Freeing
  <1>4. IsFiniteSet(heap') /\ Cardinality(heap') = Cardinality(heap) + 1
    BY <1>1, FS_AddElement DEF Inv
  <1>5. CountExact'
    BY <1>1, <1>3, <1>4 DEF Inv, CountExact
  <1>6. BornBefore'
    <2> SUFFICES ASSUME NEW b \in heap' PROVE born'[b] < news'
      BY DEF BornBefore
    <2>1. CASE b = a
      BY <1>1, <2>1 DEF Inv, TypeOK
    <2>2. CASE b # a
      BY <1>1, <2>2 DEF Inv, TypeOK, BornBefore
    <2> QED
      BY <2>1, <2>2
  <1>7. total_bytes' \in 0..SizeMax
    <2>1. n * size \in Nat
      OBVIOUS
    <2>3. total_bytes \in Nat /\ HeaderSize \in Nat
      BY AllocatorAssumption DEF Inv, TypeOK
    <2> DEFINE m == n * size
    <2>4. m \in Nat
      BY <2>1
    <2> HIDE DEF m
    <2>5. total_bytes + HeaderSize + m \in Nat
      BY <2>3, <2>4
    <2>2. total_bytes + HeaderSize + n * size \in Nat
      BY <2>5 DEF m
    <2> QED
      BY <2>2, SizeWraps DEF Alloc
  <1>8. obj' \in [Addr -> [class : Class, count : 0..SizeMax, owns : BOOLEAN]]
    BY DEF Alloc, Inv, TypeOK
  <1>9. prev' \in [Addr -> Addr \cup {Nil}] /\ next' \in [Addr -> Addr \cup {Nil}] /\ head' \in Addr
    BY <1>1 DEF Insert, Inv, TypeOK
  <1>10. live_count' \in Nat /\ born' \in [Addr -> Nat] /\ news' \in Nat
    BY <1>1 DEF Inv, TypeOK
  <1> QED
    BY <1>1, <1>2, <1>3, <1>4, <1>5, <1>6, <1>7, <1>8, <1>9, <1>10 DEF Inv, TypeOK

(* allocator_free up to dispose_fn, for a listed object *)
LEMMA FreeEnterStep ==
  ASSUME Inv, NEW a \in Listed, FreeEnter(a), heap' = heap, born' = born, news' = news
  PROVE  /\ ListIntact' /\ BornBefore' /\ CountExact' /\ IsFiniteSet(heap)'
         /\ prev' \in [Addr -> Addr \cup {Nil}] /\ next' \in [Addr -> Addr \cup {Nil}]
         /\ head' \in Addr \cup {Nil}
         /\ live_count' \in Nat /\ total_bytes' \in 0..SizeMax
         /\ freeing' \in Seq(Addr)
         /\ Listed' = Listed \ {a}
         /\ Freeing' \subseteq heap'
         /\ \A j, k \in 1..Len(freeing') : freeing'[j] = freeing'[k] => j = k
  <1>0. a \in Addr /\ a \in heap /\ a \notin Freeing /\ freeing \in Seq(Addr)
    BY DEF Inv, TypeOK, Listed
  <1>1. freeing' = Append(freeing, a) /\ Remove(a) /\ live_count' = live_count - 1
    BY DEF FreeEnter
  <1>2. freeing' \in Seq(Addr) /\ Len(freeing') = Len(freeing) + 1
        /\ \A k \in 1..Len(freeing') : freeing'[k] = IF k = Len(freeing) + 1 THEN a ELSE freeing[k]
    BY <1>0, <1>1
  <1>3. Freeing' = Freeing \cup {a}
    <2>1. Freeing' \subseteq Freeing \cup {a}
      BY <1>0, <1>2 DEF Freeing
    <2>2. a \in Freeing'
      BY <1>0, <1>2 DEF Freeing
    <2>3. ASSUME NEW b \in Freeing PROVE b \in Freeing'
      <3>1. PICK k \in 1..Len(freeing) : b = freeing[k]
        BY <2>3 DEF Freeing
      <3>2. k \in 1..Len(freeing') /\ freeing'[k] = b
        BY <1>0, <1>2, <3>1
      <3> QED
        BY <3>2 DEF Freeing
    <2> QED
      BY <2>1, <2>2, <2>3
  <1>4. Listed' = Listed \ {a}
    BY <1>3 DEF Listed
  <1>5. ListIntact'
    BY <1>1, <1>4, RemoveList DEF Inv
  <1>6. Freeing' \subseteq heap' /\ \A j, k \in 1..Len(freeing') : freeing'[j] = freeing'[k] => j = k
    <2>1. Freeing' \subseteq heap'
      BY <1>0, <1>3 DEF Inv, HoldsLive
    <2>2. ASSUME NEW j \in 1..Len(freeing'), NEW k \in 1..Len(freeing'), freeing'[j] = freeing'[k]
          PROVE  j = k
      <3>1. \A i \in 1..Len(freeing) : freeing[i] # a
        BY <1>0 DEF Freeing
      <3>2. \A i, l \in 1..Len(freeing) : freeing[i] = freeing[l] => i = l
        BY DEF Inv, HoldsLive
      <3> QED
        BY <1>0, <1>2, <2>2, <3>1, <3>2
    <2> QED
      BY <2>1, <2>2
  <1>7. IsFiniteSet(Listed)
    BY FS_Subset DEF Inv, Listed
  <1>8. Cardinality(Listed \ {a}) = Cardinality(Listed) - 1 /\ Cardinality(Listed \ {a}) \in Nat
    BY <1>7, FS_RemoveElement, FS_CardinalityType
  <1>9. live_count' = Cardinality(Listed') /\ live_count' \in Nat
    BY <1>1, <1>4, <1>8 DEF Inv, CountExact
  <1>10. total_bytes' \in 0..SizeMax
    <2>1. total_bytes' = (total_bytes + SizeMax + 1 - Bytes(a)) % (SizeMax + 1)
      BY DEF FreeEnter
    <2>2. Bytes(a) \in Nat /\ total_bytes \in Nat /\ SizeMax \in Nat
      BY <1>0, BytesNat, AllocatorAssumption DEF Inv, TypeOK
    <2>3. total_bytes + SizeMax + 1 - Bytes(a) \in Int
      BY <2>2
    <2> QED
      BY <2>1, <2>2, <2>3
  <1>11. prev' \in [Addr -> Addr \cup {Nil}] /\ next' \in [Addr -> Addr \cup {Nil}]
         /\ head' \in Addr \cup {Nil}
    BY <1>0, <1>1 DEF Remove, Inv, TypeOK
  <1> QED
    BY <1>2, <1>4, <1>5, <1>6, <1>9, <1>10, <1>11 DEF Inv, CountExact, BornBefore

(* the frees under way after one of them has finished *)
LEMMA FrontFreeing ==
  ASSUME Inv, freeing # <<>>, freeing' = Front(freeing), heap' = heap \ {Last(freeing)}
  PROVE  /\ freeing' \in Seq(Addr) /\ Last(freeing) \in Freeing
         /\ Freeing' = Freeing \ {Last(freeing)}
         /\ \A j, k \in 1..Len(freeing') : freeing'[j] = freeing'[k] => j = k
         /\ Listed' = Listed
  <1>0. /\ freeing \in Seq(Addr) /\ Len(freeing) \in Nat \ {0}
        /\ \A j, k \in 1..Len(freeing) : freeing[j] = freeing[k] => j = k
        /\ Freeing \subseteq heap
    BY EmptySeq DEF Inv, TypeOK, HoldsLive
  <1> DEFINE n == Len(freeing) - 1
             f == [k \in 1..n |-> freeing[k]]
  <1>1. n \in Nat /\ freeing' = f
    BY <1>0 DEF Front
  <1>2. \A k \in 1..n : freeing[k] \in Addr
    BY <1>0
  <1>3. f \in Seq(Addr)
    BY <1>1, <1>2, IsASeq
  <1>4. f \in Seq(Addr) /\ Len(f) = n
    BY <1>1, <1>3
  <1>5. Last(freeing) \in Freeing
    BY <1>0 DEF Last, Freeing
  <1>6. \A k \in 1..n : freeing[k] # Last(freeing)
    BY <1>0 DEF Last
  <1>7. Freeing' = Freeing \ {Last(freeing)}
    <2>1. Freeing' = {freeing[k] : k \in 1..n}
      BY <1>1, <1>4 DEF Freeing
    <2>2. Freeing = {freeing[k] : k \in 1..n} \cup {Last(freeing)}
      BY <1>0 DEF Freeing, Last
    <2> QED
      BY <1>6, <2>1, <2>2
  <1>8. Listed' = Listed
    BY <1>5, <1>7 DEF Listed
  <1>9. \A j, k \in 1..Len(freeing') : freeing'[j] = freeing'[k] => j = k
    BY <1>0, <1>1, <1>4
  <1> QED
    BY <1>1, <1>4, <1>5, <1>7, <1>8, <1>9

-----------------------------------------------------------------------------
(* panic(), allocator_set_max_bytes and delete_allocator touch no object *)
LEMMA QuietStep ==
  ASSUME Inv, UNCHANGED <<heap, obj, list, counts, class, classes, holds, freeing, moved,
                          born, news>>,
         status' \in {"running", "panic", "fault", "deleted"}, max_bytes' \in 0..SizeMax
  PROVE  Inv'
  <1>1. TypeOK'
    BY DEF Inv, TypeOK, list, counts
  <1>2. Listed' = Listed /\ Freeing' = Freeing
    BY DEF Listed, Freeing
  <1> QED
    BY <1>1, <1>2 DEF Inv, ListIntact, HoldsLive, BornBefore, MovedOK, CountExact, list, counts

(* what allocator_new, allocator_new_ex and allocator_clone share: the new  *)
(* object holds nothing and is stored in at most one object                 *)
LEMMA HoldNew ==
  ASSUME Inv, NEW a \in Addr, a \notin heap, NEW o, heap' = heap \cup {a}, Listed = heap,
         Listed' = heap \cup {a}, Freeing' = {}, freeing' = <<>>,
         holds' = [b \in Addr |-> IF b = a THEN {}
                                  ELSE IF b = o THEN holds[b] \cup {a} ELSE holds[b]]
  PROVE  HoldsLive' /\ holds' \in [Addr -> SUBSET Addr]
  <1>1. \A b \in heap : b \in Addr /\ holds[b] \subseteq heap /\ a \notin holds[b]
    BY DEF Inv, HoldsLive, TypeOK
  <1>2. holds' \in [Addr -> SUBSET Addr]
    BY DEF Inv, TypeOK
  <1>3. \A b \in heap' : holds'[b] \subseteq Listed' \ {b}
    <2>1. \A b \in heap : b \notin holds[b]
      BY DEF Inv, HoldsLive
    <2> QED
      BY <1>1, <2>1
  <1>4. ASSUME NEW b \in heap', NEW d \in heap', d # b PROVE holds'[b] \cap holds'[d] = {}
    <2>1. \A x, y \in heap : x # y => holds[x] \cap holds[y] = {}
      BY DEF Inv, HoldsLive
    <2>2. /\ b # a => holds'[b] \subseteq holds[b] \cup {a} /\ (a \in holds'[b] => b = o)
          /\ d # a => holds'[d] \subseteq holds[d] \cup {a} /\ (a \in holds'[d] => d = o)
          /\ b = a => holds'[b] = {}
          /\ d = a => holds'[d] = {}
      BY <1>1, <1>4
    <2> QED
      BY <1>1, <1>4, <2>1, <2>2
  <1> QED
    BY <1>2, <1>3, <1>4 DEF HoldsLive

(* every call of the allocator, and every step of a nested free, keeps Inv  *)
LEMMA NextInv == Inv /\ [Next]_vars => Inv'
  <1> SUFFICES ASSUME Inv, [Next]_vars PROVE Inv'
    OBVIOUS
  <1>0. /\ TypeOK /\ max_bytes \in 0..SizeMax
        /\ StaticClass \subseteq Class /\ HeapClass \subseteq Class /\ Counts \subseteq 0..SizeMax
    BY AllocatorAssumption DEF Inv, TypeOK, Class
  <1>1. ASSUME Panic PROVE Inv'
    BY <1>0, <1>1, QuietStep DEF Panic
  <1>2. ASSUME NEW a \in Addr, NEW c \in StaticClass, NEW n \in Counts, NEW o \in Addr \cup {Nil},
               New(a, c, n, o)
        PROVE  Inv'
    <2>1. CASE Panic
      BY <1>1, <2>1
    <2>2. CASE ~Panic
      <3>1. /\ Alloc(a, c, n, class[c].size, FALSE)
            /\ holds' = [b \in Addr |-> IF b = a THEN {}
                                        ELSE IF b = o THEN holds[b] \cup {a} ELSE holds[b]]
            /\ UNCHANGED <<max_bytes, class, classes, freeing, moved, status>>
            /\ freeing = <<>> /\ moved = Nil
        BY <1>2, <2>2 DEF New, Calling
      <3>2. class[c].size \in Nat
        BY <1>0 DEF TypeOK, Info
      <3>3. heap' = heap \cup {a}
        BY <3>1 DEF Alloc
      <3> DEFINE size == class[c].size
      <3>4. size \in Nat /\ Alloc(a, c, n, size, FALSE)
        BY <3>1, <3>2
      <3> HIDE DEF size
      <3>5. /\ ListIntact' /\ BornBefore' /\ CountExact' /\ IsFiniteSet(heap)'
            /\ heap' \subseteq Addr
            /\ obj' \in [Addr -> [class : Class, count : 0..SizeMax, owns : BOOLEAN]]
            /\ prev' \in [Addr -> Addr \cup {Nil}] /\ next' \in [Addr -> Addr \cup {Nil}]
            /\ head' \in Addr
            /\ live_count' \in Nat /\ total_bytes' \in 0..SizeMax
            /\ born' \in [Addr -> Nat] /\ news' \in Nat
            /\ Listed = heap /\ Listed' = heap \cup {a} /\ a \notin heap
            /\ Freeing' = {}
        BY <1>0, <3>1, <3>4, AllocStep
      <3>6. HoldsLive' /\ holds' \in [Addr -> SUBSET Addr]
        BY <3>1, <3>3, <3>5, HoldNew
      <3>7. TypeOK'
        BY <1>0, <3>1, <3>5, <3>6 DEF TypeOK
      <3> QED
        BY <3>1, <3>5, <3>6, <3>7 DEF Inv, MovedOK
    <2> QED
      BY <2>1, <2>2
  <1>3. ASSUME NEW a \in Addr, NEW c \in HeapClass, NEW i \in ExInfo, NEW n \in Counts,
               NewEx(a, c, i, n)
        PROVE  Inv'
    <2>1. CASE Panic
      BY <1>1, <2>1
    <2>2. CASE status' = "fault" /\ UNCHANGED <<heap, obj, list, counts, max_bytes, class, classes,
                                                holds, freeing, moved, born, news>>
      BY <1>0, <2>2, QuietStep
    <2>3. CASE /\ Alloc(a, c, n, i.size, TRUE)
               /\ class' = [class EXCEPT ![c] = i]
               /\ classes' = classes \cup {c}
               /\ holds' = [holds EXCEPT ![a] = {}]
               /\ UNCHANGED <<max_bytes, freeing, moved, status>>
      <3>1. freeing = <<>> /\ moved = Nil
        BY <1>3 DEF NewEx, Calling
      <3> DEFINE size == i.size
      <3>0. i \in Info
        BY AllocatorAssumption
      <3>10. i.size \in 0..SizeMax /\ SizeMax \in Nat
        BY <3>0, AllocatorAssumption DEF Info
      <3>11. size \in Nat
        BY <3>10
      <3>12. Alloc(a, c, n, size, TRUE)
        BY <2>3
      <3>2. size \in Nat /\ Alloc(a, c, n, size, TRUE) /\ i \in Info
        BY <3>0, <3>11, <3>12
      <3>3. heap' = heap \cup {a}
        BY <2>3 DEF Alloc
      <3> HIDE DEF size
      <3>5. /\ ListIntact' /\ BornBefore' /\ CountExact' /\ IsFiniteSet(heap)'
            /\ heap' \subseteq Addr
            /\ obj' \in [Addr -> [class : Class, count : 0..SizeMax, owns : BOOLEAN]]
            /\ prev' \in [Addr -> Addr \cup {Nil}] /\ next' \in [Addr -> Addr \cup {Nil}]
            /\ head' \in Addr
            /\ live_count' \in Nat /\ total_bytes' \in 0..SizeMax
            /\ born' \in [Addr -> Nat] /\ news' \in Nat
            /\ Listed = heap /\ Listed' = heap \cup {a} /\ a \notin heap
            /\ Freeing' = {}
        BY <1>0, <2>3, <3>1, <3>2, AllocStep
      <3>6. PICK o : holds' = [b \in Addr |-> IF b = a THEN {}
                                     ELSE IF b = o THEN holds[b] \cup {a} ELSE holds[b]]
        <4>1. holds' = [b \in Addr |-> IF b = a THEN {}
                                       ELSE IF b = Nil THEN holds[b] \cup {a} ELSE holds[b]]
          BY <2>3, AllocatorAssumption DEF Inv, TypeOK
        <4> QED
          BY <4>1
      <3>9. freeing' = <<>>
        BY <2>3, <3>1
      <3>7. HoldsLive' /\ holds' \in [Addr -> SUBSET Addr]
        BY <3>3, <3>5, <3>6, <3>9, HoldNew
      <3>8. TypeOK'
        BY <1>0, <2>3, <3>2, <3>5, <3>7 DEF TypeOK
      <3> QED
        BY <2>3, <3>1, <3>5, <3>7, <3>8 DEF Inv, MovedOK
    <2> QED
      BY <1>3, <2>1, <2>2, <2>3 DEF NewEx
  <1>4. ASSUME NEW a \in Addr, Free(a)
        PROVE  Inv'
    <2>1. /\ FreeEnter(a) /\ moved' = Nil
          /\ UNCHANGED <<heap, obj, max_bytes, class, classes, holds, status, born, news>>
          /\ freeing = <<>> /\ a \in heap /\ \A b \in heap : a \notin holds[b]
      BY <1>4, AllocatorAssumption DEF Free, Calling, Inv, MovedOK
    <2>2. a \in Listed
      BY <2>1 DEF Listed, Freeing
    <2>3. /\ ListIntact' /\ BornBefore' /\ CountExact' /\ IsFiniteSet(heap)'
          /\ prev' \in [Addr -> Addr \cup {Nil}] /\ next' \in [Addr -> Addr \cup {Nil}]
          /\ head' \in Addr \cup {Nil}
          /\ live_count' \in Nat /\ total_bytes' \in 0..SizeMax
          /\ freeing' \in Seq(Addr)
          /\ Listed' = Listed \ {a}
          /\ Freeing' \subseteq heap'
          /\ \A j, k \in 1..Len(freeing') : freeing'[j] = freeing'[k] => j = k
      BY <2>1, <2>2, FreeEnterStep
    <2>4. TypeOK'
      BY <1>0, <2>1, <2>3 DEF TypeOK
    <2>5. HoldsLive'
      BY <2>1, <2>3 DEF Inv, HoldsLive
    <2> QED
      BY <2>1, <2>3, <2>4, <2>5 DEF Inv, MovedOK
  <1>5. ASSUME NEW a \in Addr, Dispose(a)
        PROVE  Inv'
    <2> DEFINE l == Last(freeing)
    <2>1. /\ FreeEnter(a) /\ holds' = [holds EXCEPT ![l] = @ \ {a}]
          /\ UNCHANGED <<heap, obj, max_bytes, class, classes, moved, status, born, news>>
          /\ freeing # <<>> /\ a \in holds[l]
      BY <1>5 DEF Dispose
    <2>2. l \in heap /\ l \in Addr
      <3>1. freeing \in Seq(Addr) /\ Len(freeing) \in Nat \ {0}
        BY <1>0, <2>1, EmptySeq DEF TypeOK
      <3>2. l \in Freeing
        BY <3>1 DEF Last, Freeing
      <3> QED
        BY <1>0, <3>2 DEF Inv, HoldsLive, TypeOK
    <2>3. a \in Listed /\ moved = Nil
      BY <2>1, <2>2 DEF Inv, HoldsLive, MovedOK
    <2>4. /\ ListIntact' /\ BornBefore' /\ CountExact' /\ IsFiniteSet(heap)'
          /\ prev' \in [Addr -> Addr \cup {Nil}] /\ next' \in [Addr -> Addr \cup {Nil}]
          /\ head' \in Addr \cup {Nil}
          /\ live_count' \in Nat /\ total_bytes' \in 0..SizeMax
          /\ freeing' \in Seq(Addr)
          /\ Listed' = Listed \ {a}
          /\ Freeing' \subseteq heap'
          /\ \A j, k \in 1..Len(freeing') : freeing'[j] = freeing'[k] => j = k
      BY <2>1, <2>3, FreeEnterStep
    <2>5. /\ \A b \in heap : holds'[b] \subseteq holds[b] /\ a \notin holds'[b]
      <3> SUFFICES ASSUME NEW b \in heap PROVE holds'[b] \subseteq holds[b] /\ a \notin holds'[b]
        OBVIOUS
      <3>1. b # l => holds[b] \cap holds[l] = {}
        BY <2>2 DEF Inv, HoldsLive
      <3> QED
        BY <1>0, <2>1, <2>2, <3>1 DEF TypeOK
    <2>6. TypeOK'
      <3>1. holds' \in [Addr -> SUBSET Addr]
        BY <1>0, <2>1, <2>2 DEF TypeOK
      <3> QED
        BY <1>0, <2>1, <2>4, <3>1 DEF TypeOK
    <2>7. HoldsLive'
      BY <2>1, <2>4, <2>5 DEF Inv, HoldsLive
    <2> QED
      BY <2>1, <2>3, <2>4, <2>6, <2>7 DEF Inv, MovedOK
  <1>6. ASSUME FinishFree PROVE Inv'
    <2> DEFINE a == Last(freeing)
    <2>1. /\ freeing # <<>> /\ heap' = heap \ {a} /\ freeing' = Front(freeing)
          /\ classes' \subseteq classes
          /\ UNCHANGED <<obj, list, counts, max_bytes, class, holds, moved, status, born, news>>
      BY <1>6 DEF FinishFree
    <2>2. /\ freeing' \in Seq(Addr) /\ a \in Freeing /\ Freeing' = Freeing \ {a}
          /\ \A j, k \in 1..Len(freeing') : freeing'[j] = freeing'[k] => j = k
          /\ Listed' = Listed
      BY <2>1, FrontFreeing
    <2>3. moved = Nil
      BY <2>1 DEF Inv, MovedOK
    <2>4. TypeOK'
      BY <1>0, <2>1, <2>2 DEF TypeOK, list, counts
    <2>5. ListIntact' /\ CountExact' /\ BornBefore'
      BY <2>1, <2>2 DEF Inv, ListIntact, CountExact, BornBefore, list, counts
    <2>6. IsFiniteSet(heap')
      BY <2>1, FS_RemoveElement DEF Inv
    <2>7. HoldsLive'
      BY <2>1, <2>2 DEF Inv, HoldsLive
    <2> QED
      BY <2>1, <2>3, <2>4, <2>5, <2>6, <2>7 DEF Inv, MovedOK
  <1>7. ASSUME NEW a \in Addr, NEW b \in Addr, Move(a, b)
        PROVE  Inv'
    <2>1. CASE Panic
      BY <1>1, <2>1
    <2>2. CASE ~Panic
      <3> DEFINE size == class[obj[a].class].size
                 c == obj[a].class
                 n == obj[a].count
      <3>1. /\ Alloc(b, c, n, size, FALSE)
            /\ holds' = MoveHolds(a, b)
            /\ moved' = a
            /\ UNCHANGED <<max_bytes, class, classes, freeing, status>>
            /\ freeing = <<>> /\ a \in heap
        BY <1>7, <2>2 DEF Move, Calling
      <3>2. c \in Class /\ n \in 0..SizeMax
        BY <1>0 DEF TypeOK
      <3>3. size \in Nat /\ heap' = heap \cup {b}
        BY <1>0, <3>1, <3>2 DEF TypeOK, Info, Alloc
      <3> HIDE DEF size, c, n
      <3>4. /\ ListIntact' /\ BornBefore' /\ CountExact' /\ IsFiniteSet(heap)'
            /\ heap' \subseteq Addr
            /\ obj' \in [Addr -> [class : Class, count : 0..SizeMax, owns : BOOLEAN]]
            /\ prev' \in [Addr -> Addr \cup {Nil}] /\ next' \in [Addr -> Addr \cup {Nil}]
            /\ head' \in Addr
            /\ live_count' \in Nat /\ total_bytes' \in 0..SizeMax
            /\ born' \in [Addr -> Nat] /\ news' \in Nat
            /\ Listed = heap /\ Listed' = heap \cup {b} /\ b \notin heap
            /\ Freeing' = {}
        BY <3>1, <3>2, <3>3, AllocStep
      <3>5. \A x \in heap : x \in Addr /\ holds[x] \subseteq heap
        BY <1>0, <3>4 DEF Inv, HoldsLive, TypeOK
      <3>6. /\ holds'[b] = holds[a] /\ holds'[a] = {}
            /\ \A x \in heap : x # a => holds'[x] = IF a \in holds[x] THEN (holds[x] \ {a}) \cup {b}
                                                   ELSE holds[x]
            /\ holds' \in [Addr -> SUBSET Addr]
        BY <1>0, <3>1, <3>4, <3>5 DEF MoveHolds, TypeOK
      <3>7. \A x, y \in heap : x # y => holds[x] \cap holds[y] = {}
        BY DEF Inv, HoldsLive
      <3>8. \A x \in heap' : holds'[x] \subseteq Listed' \ {x}
        <4>1. \A x \in heap : x \notin holds[x]
          BY DEF Inv, HoldsLive
        <4>2. holds'[b] \subseteq Listed' \ {b}
          BY <3>1, <3>4, <3>5, <3>6
        <4>3. ASSUME NEW x \in heap PROVE holds'[x] \subseteq Listed' \ {x}
          <5>1. CASE x = a
            BY <3>6, <5>1
          <5>2. CASE x # a
            BY <3>4, <3>5, <3>6, <4>1, <5>2
          <5> QED
            BY <5>1, <5>2
        <4> QED
          BY <3>3, <4>2, <4>3
      <3>9. ASSUME NEW x \in heap', NEW y \in heap', y # x PROVE holds'[x] \cap holds'[y] = {}
        <4>1. ASSUME NEW u \in heap, NEW v, v \in holds'[u]
              PROVE  u # a /\ (v \in holds[u] \/ (v = b /\ a \in holds[u]))
          BY <3>1, <3>6, <4>1
        <4>2. ASSUME NEW u \in heap, NEW v, v \in holds'[u], v \in holds'[b] PROVE FALSE
          <5>1. v \in holds[a] /\ v # b /\ u # a /\ v \in holds[u]
            <6>1. v \in holds[a] /\ b \notin heap /\ holds[a] \subseteq heap
              BY <3>1, <3>4, <3>5, <3>6, <4>2, Zenon
            <6>2. u # a /\ (v \in holds[u] \/ (v = b /\ a \in holds[u]))
              BY <4>1, <4>2, Zenon
            <6> QED
              BY <6>1, <6>2, Zenon
          <5> QED
            BY <3>1, <3>7, <5>1
        <4>3. ASSUME NEW u \in heap, NEW w \in heap, u # w, NEW v, v \in holds'[u], v \in holds'[w]
              PROVE  FALSE
          <5>1. v \in holds[u] \/ (v = b /\ a \in holds[u])
            BY <4>1, <4>3
          <5>2. v \in holds[w] \/ (v = b /\ a \in holds[w])
            BY <4>1, <4>3
          <5>3. b \notin holds[u] /\ b \notin holds[w]
            BY <3>4, <3>5
          <5>4. holds[u] \cap holds[w] = {}
            BY <3>7, <4>3
          <5> QED
            BY <5>1, <5>2, <5>3, <5>4
        <4> QED
          BY <3>3, <3>9, <4>2, <4>3
      <3>10. HoldsLive'
        BY <3>1, <3>4, <3>8, <3>9 DEF HoldsLive
      <3>11. \A x \in heap' : a \notin holds'[x]
        <4>1. a \notin holds[a]
          BY <3>1 DEF Inv, HoldsLive
        <4> QED
          BY <3>1, <3>3, <3>4, <3>5, <3>6, <4>1
      <3>12. TypeOK'
        BY <1>0, <3>1, <3>4, <3>6 DEF TypeOK
      <3> QED
        BY <3>1, <3>3, <3>4, <3>10, <3>11, <3>12 DEF Inv, MovedOK
    <2> QED
      BY <2>1, <2>2
  <1>8. ASSUME NEW a \in Addr, NEW b \in Addr, Clone(a, b)
        PROVE  Inv'
    <2>1. CASE Panic
      BY <1>1, <2>1
    <2>2. CASE ~Panic
      <3> DEFINE size == class[obj[a].class].size
                 c == obj[a].class
                 n == obj[a].count
      <3>1. /\ Alloc(b, c, n, size, FALSE)
            /\ holds' = [holds EXCEPT ![b] = {}]
            /\ UNCHANGED <<max_bytes, class, classes, freeing, moved, status>>
            /\ freeing = <<>> /\ moved = Nil
        BY <1>8, <2>2 DEF Clone, Calling
      <3>2. c \in Class /\ n \in 0..SizeMax
        BY <1>0 DEF TypeOK
      <3>3. size \in Nat /\ heap' = heap \cup {b}
        BY <1>0, <3>1, <3>2 DEF TypeOK, Info, Alloc
      <3> HIDE DEF size, c, n
      <3>4. /\ ListIntact' /\ BornBefore' /\ CountExact' /\ IsFiniteSet(heap)'
            /\ heap' \subseteq Addr
            /\ obj' \in [Addr -> [class : Class, count : 0..SizeMax, owns : BOOLEAN]]
            /\ prev' \in [Addr -> Addr \cup {Nil}] /\ next' \in [Addr -> Addr \cup {Nil}]
            /\ head' \in Addr
            /\ live_count' \in Nat /\ total_bytes' \in 0..SizeMax
            /\ born' \in [Addr -> Nat] /\ news' \in Nat
            /\ Listed = heap /\ Listed' = heap \cup {b} /\ b \notin heap
            /\ Freeing' = {}
        BY <3>1, <3>2, <3>3, AllocStep
      <3>5. PICK o : holds' = [x \in Addr |-> IF x = b THEN {}
                                     ELSE IF x = o THEN holds[x] \cup {b} ELSE holds[x]]
        <4>1. holds' = [x \in Addr |-> IF x = b THEN {}
                                       ELSE IF x = Nil THEN holds[x] \cup {b} ELSE holds[x]]
          BY <3>1, AllocatorAssumption DEF Inv, TypeOK
        <4> QED
          BY <4>1
      <3>8. freeing' = <<>>
        BY <3>1
      <3>6. HoldsLive' /\ holds' \in [Addr -> SUBSET Addr]
        BY <3>3, <3>4, <3>5, <3>8, HoldNew
      <3>7. TypeOK'
        BY <1>0, <3>1, <3>4, <3>6 DEF TypeOK
      <3> QED
        BY <3>1, <3>4, <3>6, <3>7 DEF Inv, MovedOK
    <2> QED
      BY <2>1, <2>2
  <1>9. ASSUME NEW m \in Limits, SetMaxBytes(m) PROVE Inv'
    BY <1>0, <1>9, QuietStep, AllocatorAssumption DEF SetMaxBytes, Calling
  <1>10. CASE UNCHANGED vars
    BY <1>0, <1>10, QuietStep DEF vars, TypeOK
  <1>11. CASE Delete
    BY <1>0, <1>11, QuietStep DEF Delete
  <1> QED
    BY <1>2, <1>3, <1>4, <1>5, <1>6, <1>7, <1>8, <1>9, <1>10, <1>11 DEF Next

-----------------------------------------------------------------------------
(* create_allocator establishes Inv *)
LEMMA InitInv == Init => Inv
  <1> SUFFICES ASSUME Init PROVE Inv
    OBVIOUS
  <1>1. (CHOOSE c \in StaticClass : TRUE) \in StaticClass
    BY AllocatorAssumption
  <1>2. class \in [Class -> Info]
    BY AllocatorAssumption DEF Init, Class, Info
  <1>3. obj \in [Addr -> [class : Class, count : 0..SizeMax, owns : BOOLEAN]]
    BY <1>1, AllocatorAssumption DEF Init, Class
  <1>4. TypeOK
    BY <1>2, <1>3, AllocatorAssumption DEF Init, TypeOK
  <1>5. heap = {} /\ Listed = {} /\ Freeing = {} /\ freeing = <<>> /\ head = Nil /\ moved = Nil
    BY DEF Init, Listed, Freeing
  <1>6. IsFiniteSet({}) /\ Cardinality({}) = 0
    BY FS_EmptySet
  <1> QED
    BY <1>4, <1>5, <1>6 DEF Init, Inv, ListIntact, HoldsLive, BornBefore, MovedOK, CountExact

(* Everything the invariant says holds in every reachable state. *)
THEOREM InvCorrect == Spec => []Inv
  BY InitInv, NextInv, PTL DEF Spec

(* The live list is a doubly linked list of exactly the live objects.       *)
THEOREM ListCorrect == Spec => []ListIntact
  <1>1. Inv => ListIntact
    BY DEF Inv
  <1> QED
    BY <1>1, InvCorrect, PTL

(* live_count is the number of live objects. *)
THEOREM CountCorrect == Spec => []CountExact
  <1>1. Inv => CountExact
    BY DEF Inv
  <1> QED
    BY <1>1, InvCorrect, PTL

(* No nesting of dispose_fn calls and no sequence of moves frees a block    *)
(* twice or leaves an object holding a freed one.                           *)
THEOREM HoldsCorrect == Spec => []HoldsLive
  <1>1. Inv => HoldsLive
    BY DEF Inv
  <1> QED
    BY <1>1, InvCorrect, PTL

-----------------------------------------------------------------------------
(* induction over the natural numbers *)

(* A set of numbers that is not empty has a least one. *)
LEMMA LeastNat ==
  ASSUME NEW T \in SUBSET Nat, T # {}
  PROVE  \E n \in T : \A m \in T : n <= m
  <1>. DEFINE R == OpToRel(<, Nat)
  <1>1. \A m, n \in Nat : m < n => <<m, n>> \in R
    BY DEF OpToRel
  <1>2. IsWellFoundedOn(R, Nat)
    BY NatLessThanWellFounded, Zenon
  <1>. HIDE DEF R
  <1>3. PICK n \in T : \A m \in T : ~ (<<m, n>> \in R)
    BY <1>2, WFMin
  <1>4. n \in Nat /\ \A m \in T : m \in Nat /\ ~ (m < n)
    BY <1>1, <1>3
  <1>. QED  BY <1>4

(* A set of numbers that has 0 and every successor has every number. *)
LEMMA Successors ==
  ASSUME NEW T, 0 \in T, \A n \in Nat : n \in T => n + 1 \in T
  PROVE  \A n \in Nat : n \in T
  <1> SUFFICES ASSUME Nat \ T # {} PROVE FALSE
    OBVIOUS
  <1>1. PICK n \in Nat \ T : \A m \in Nat \ T : n <= m
    BY LeastNat
  <1>2. n # 0 /\ n - 1 \in Nat
    BY <1>1
  <1>3. n - 1 \in T
    BY <1>1, <1>2
  <1>4. (n - 1) + 1 = n
    BY <1>1
  <1> QED
    BY <1>1, <1>2, <1>3, <1>4

-----------------------------------------------------------------------------
(* A fold over a set, as the recursive function it is; the weights of the   *)
(* elements are a function B of finite domain.                              *)
Pick(s) == CHOOSE x \in s : TRUE
Weights(B) == IsFiniteSet(DOMAIN B) /\ B \in [DOMAIN B -> Nat]
IsTotal(f, B) ==
  f = [s \in SUBSET DOMAIN B |-> IF s = {} THEN 0 ELSE B[Pick(s)] + f[s \ {Pick(s)}]]
Total(B) == (CHOOSE f : IsTotal(f, B))[DOMAIN B]

(* removing the picked element of a finite set makes it smaller *)
LEMMA PickSmaller ==
  ASSUME NEW s, s # {}
  PROVE  /\ Pick(s) \in s
         /\ IsFiniteSet(s) => /\ IsFiniteSet(s \ {Pick(s)}) /\ Cardinality(s) \in Nat
                              /\ Cardinality(s \ {Pick(s)}) = Cardinality(s) - 1
  <1>1. Pick(s) \in s
    BY DEF Pick
  <1> QED
    BY <1>1, FS_RemoveElement, FS_CardinalityType

(* Finitely many weights have a total. *)
LEMMA TotalExists ==
  ASSUME NEW B, Weights(B)
  PROVE  \E f \in [SUBSET DOMAIN B -> Nat] : IsTotal(f, B)
  <1> DEFINE D == DOMAIN B
             small(n) == {s \in SUBSET D : Cardinality(s) <= n}
             step(f, s) == IF s = {} THEN 0 ELSE B[Pick(s)] + f[s \ {Pick(s)}]
             good(n) == \E f \in [small(n) -> Nat] : \A s \in small(n) : f[s] = step(f, s)
             T == {n \in Nat : good(n)}
  <1>0. IsFiniteSet(D) /\ B \in [D -> Nat]
    BY DEF Weights
  <1>1. \A s \in SUBSET D : IsFiniteSet(s) /\ Cardinality(s) \in Nat /\ Cardinality(s) <= Cardinality(D)
    BY <1>0, FS_Subset, FS_CardinalityType
  <1>2. 0 \in T
    <2>1. \A s \in small(0) : s = {}
      BY <1>1, FS_EmptySet
    <2>2. [s \in small(0) |-> 0] \in [small(0) -> Nat]
      OBVIOUS
    <2>3. \A s \in small(0) : [x \in small(0) |-> 0][s] = step([x \in small(0) |-> 0], s)
      BY <2>1
    <2>4. good(0)
      BY <2>2, <2>3
    <2> QED
      BY <2>4
  <1>3. ASSUME NEW n \in Nat, n \in T PROVE n + 1 \in T
    <2>1. PICK f \in [small(n) -> Nat] : \A s \in small(n) : f[s] = step(f, s)
      BY <1>3
    <2> DEFINE g == [s \in small(n + 1) |-> step(f, s)]
    <2>2. ASSUME NEW s \in small(n + 1), s # {}
          PROVE  s \ {Pick(s)} \in small(n) /\ Pick(s) \in D
      BY <1>1, <2>2, PickSmaller
    <2>3. small(n) \subseteq small(n + 1)
      BY <1>1
    <2>4. \A s \in small(n) : g[s] = f[s]
      BY <2>1, <2>3
    <2>5. ASSUME NEW s \in small(n + 1) PROVE step(f, s) \in Nat
      <3>1. CASE s = {}
        BY <3>1
      <3>2. CASE s # {}
        <4>1. f[s \ {Pick(s)}] \in Nat /\ B[Pick(s)] \in Nat
          BY <1>0, <2>1, <2>2, <3>2
        <4> QED
          BY <3>2, <4>1
      <3> QED
        BY <3>1, <3>2
    <2>6. g \in [small(n + 1) -> Nat]
      BY <2>5
    <2>7. ASSUME NEW s \in small(n + 1) PROVE g[s] = step(g, s)
      <3>1. s # {} => g[s \ {Pick(s)}] = f[s \ {Pick(s)}]
        BY <2>2, <2>4
      <3>2. g[s] = step(f, s)
        OBVIOUS
      <3> HIDE DEF g, small
      <3> QED
        BY <3>1, <3>2
    <2> HIDE DEF g, step, small
    <2>8. good(n + 1)
      BY <2>6, <2>7
    <2> QED
      BY <2>8
  <1> HIDE DEF T
  <1>4. Cardinality(D) \in T
    BY <1>0, <1>2, <1>3, Successors, FS_CardinalityType
  <1>5. PICK f \in [small(Cardinality(D)) -> Nat] : \A s \in small(Cardinality(D)) : f[s] = step(f, s)
    BY <1>4 DEF T
  <1>6. small(Cardinality(D)) = SUBSET D
    BY <1>1
  <1>7. f \in [SUBSET D -> Nat] /\ \A s \in SUBSET D : f[s] = step(f, s)
    BY <1>5, <1>6
  <1>8. f = [s \in SUBSET D |-> step(f, s)]
    BY <1>7
  <1> QED
    BY <1>7, <1>8 DEF IsTotal

(* Totals of weights that agree on a set agree on it. *)
LEMMA TotalAgree ==
  ASSUME NEW B, NEW C, NEW f, NEW g, Weights(B), Weights(C), IsTotal(f, B), IsTotal(g, C),
         NEW S \in SUBSET (DOMAIN B \cap DOMAIN C), \A x \in S : B[x] = C[x]
  PROVE  f[S] = g[S]
  <1> DEFINE T == {n \in Nat : \A s \in SUBSET S : Cardinality(s) = n => f[s] = g[s]}
  <1>1. \A s \in SUBSET S : IsFiniteSet(s) /\ Cardinality(s) \in Nat
    BY FS_Subset, FS_CardinalityType DEF Weights
  <1>2. \A s \in SUBSET S : /\ f[s] = IF s = {} THEN 0 ELSE B[Pick(s)] + f[s \ {Pick(s)}]
                            /\ g[s] = IF s = {} THEN 0 ELSE C[Pick(s)] + g[s \ {Pick(s)}]
    <2> SUFFICES ASSUME NEW s \in SUBSET S
                 PROVE  /\ f[s] = IF s = {} THEN 0 ELSE B[Pick(s)] + f[s \ {Pick(s)}]
                        /\ g[s] = IF s = {} THEN 0 ELSE C[Pick(s)] + g[s \ {Pick(s)}]
      OBVIOUS
    <2>1. s \in SUBSET DOMAIN B /\ s \in SUBSET DOMAIN C
      OBVIOUS
    <2>2. f[s] = IF s = {} THEN 0 ELSE B[Pick(s)] + f[s \ {Pick(s)}]
      BY <2>1, Zenon DEF IsTotal
    <2>3. g[s] = IF s = {} THEN 0 ELSE C[Pick(s)] + g[s \ {Pick(s)}]
      BY <2>1, Zenon DEF IsTotal
    <2> QED
      BY <2>2, <2>3
  <1>3. 0 \in T
    <2>1. \A s \in SUBSET S : Cardinality(s) = 0 => s = {}
      BY <1>1, FS_EmptySet
    <2> QED
      BY <1>2, <2>1
  <1>4. ASSUME NEW n \in Nat, n \in T PROVE n + 1 \in T
    <2> SUFFICES ASSUME NEW s \in SUBSET S, Cardinality(s) = n + 1 PROVE f[s] = g[s]
      OBVIOUS
    <2>1. s # {}
      BY FS_EmptySet
    <2>2. Pick(s) \in S /\ Cardinality(s \ {Pick(s)}) = n /\ s \ {Pick(s)} \in SUBSET S
      <3>1. IsFiniteSet(s) /\ s # {}
        BY <1>1, <2>1
      <3>2. Pick(s) \in s /\ Cardinality(s \ {Pick(s)}) = Cardinality(s) - 1
        BY <3>1, PickSmaller
      <3> QED
        BY <3>2
    <2>3. f[s \ {Pick(s)}] = g[s \ {Pick(s)}]
      BY <1>4, <2>2
    <2> QED
      BY <1>2, <2>1, <2>2, <2>3
  <1> HIDE DEF T
  <1>5. Cardinality(S) \in T
    BY <1>1, <1>3, <1>4, Successors
  <1> QED
    BY <1>5 DEF T

(* The order of the summands does not matter: any element can go first.     *)
LEMMA TotalAny ==
  ASSUME NEW B, Weights(B), NEW f \in [SUBSET DOMAIN B -> Nat], IsTotal(f, B),
         NEW S \in SUBSET DOMAIN B, NEW e \in S
  PROVE  f[S] = B[e] + f[S \ {e}]
  <1> DEFINE D == DOMAIN B
             any(s) == \A a \in s : f[s] = B[a] + f[s \ {a}]
             T == {n \in Nat : \A s \in SUBSET D : Cardinality(s) = n => any(s)}
  <1>1. \A s \in SUBSET D : IsFiniteSet(s) /\ Cardinality(s) \in Nat
    BY FS_Subset, FS_CardinalityType DEF Weights
  <1>2. \A s \in SUBSET D : s # {} => f[s] = B[Pick(s)] + f[s \ {Pick(s)}]
    <2> SUFFICES ASSUME NEW s \in SUBSET D, s # {} PROVE f[s] = B[Pick(s)] + f[s \ {Pick(s)}]
      OBVIOUS
    <2>1. f[s] = IF s = {} THEN 0 ELSE B[Pick(s)] + f[s \ {Pick(s)}]
      BY Zenon DEF IsTotal
    <2> QED
      BY <2>1
  <1>3. \A a \in D : B[a] \in Nat
    BY DEF Weights
  <1>4. 0 \in T
    <2>1. \A s \in SUBSET D : Cardinality(s) = 0 => s = {}
      BY <1>1, FS_EmptySet
    <2> QED
      BY <2>1
  <1>5. ASSUME NEW n \in Nat, n \in T PROVE n + 1 \in T
    <2>1. ASSUME NEW s \in SUBSET D, Cardinality(s) = n + 1, NEW a \in s
          PROVE  f[s] = B[a] + f[s \ {a}]
      <3> DEFINE p == Pick(s)
                 r == (s \ {a}) \ {p}
      <3>1. p \in s /\ Cardinality(s \ {p}) = n /\ Cardinality(s \ {a}) = n
        BY <1>1, <2>1, PickSmaller, FS_RemoveElement
      <3>2. CASE a = p
        BY <1>2, <2>1, <3>2
      <3>3. CASE a # p
        <4> HIDE DEF p
        <4>1. any(s \ {p}) /\ any(s \ {a})
          BY <1>5, <3>1
        <4>2. f[s \ {p}] = B[a] + f[(s \ {p}) \ {a}]
          BY <3>3, <4>1
        <4>3. f[s \ {a}] = B[p] + f[r]
          BY <3>1, <3>3, <4>1
        <4>4. (s \ {p}) \ {a} = r
          OBVIOUS
        <4>5. f[s] = B[p] + f[s \ {p}]
          BY <1>2, <2>1 DEF p
        <4>6. B[a] \in Nat /\ B[p] \in Nat /\ f[r] \in Nat
          BY <1>3, <3>1
        <4>7. f[s] = B[p] + (B[a] + f[r])
          BY <4>2, <4>4, <4>5
        <4> QED
          BY <4>3, <4>6, <4>7
      <3> QED
        BY <3>2, <3>3
    <2> QED
      BY <2>1
  <1> HIDE DEF T
  <1>6. Cardinality(S) \in T
    BY <1>1, <1>4, <1>5, Successors
  <1> QED
    BY <1>6 DEF T

(* the chosen fold is one, and a total is a number *)
LEMMA TotalNat ==
  ASSUME NEW B, Weights(B)
  PROVE  /\ IsTotal(CHOOSE f : IsTotal(f, B), B)
         /\ (CHOOSE f : IsTotal(f, B)) \in [SUBSET DOMAIN B -> Nat]
         /\ Total(B) \in Nat
  <1> DEFINE h == CHOOSE f : IsTotal(f, B)
  <1>1. PICK f \in [SUBSET DOMAIN B -> Nat] : IsTotal(f, B)
    BY TotalExists
  <1>2. IsTotal(h, B)
    BY <1>1, Zenon
  <1> HIDE DEF h
  <1>3. \A s \in SUBSET DOMAIN B : h[s] = f[s]
    BY <1>1, <1>2, TotalAgree
  <1>4. h = [s \in SUBSET DOMAIN B |-> h[s]]
    BY <1>2, Zenon DEF IsTotal
  <1>5. h \in [SUBSET DOMAIN B -> Nat]
    BY <1>1, <1>3, <1>4
  <1> QED
    BY <1>2, <1>5 DEF h, Total

(* nothing weighs nothing *)
LEMMA TotalEmpty ==
  ASSUME NEW B, Weights(B), DOMAIN B = {}
  PROVE  Total(B) = 0
  <1> DEFINE h == CHOOSE f : IsTotal(f, B)
  <1>1. IsTotal(h, B)
    BY TotalNat
  <1> HIDE DEF h
  <1>2. h[DOMAIN B] = 0
    BY <1>1 DEF IsTotal
  <1> QED
    BY <1>2 DEF Total, h

(* any one weight can be taken first *)
LEMMA TotalFirst ==
  ASSUME NEW B, Weights(B), NEW a \in DOMAIN B
  PROVE  \E f \in [SUBSET DOMAIN B -> Nat] :
            IsTotal(f, B) /\ Total(B) = B[a] + f[DOMAIN B \ {a}]
  <1> DEFINE h == CHOOSE f : IsTotal(f, B)
  <1>1. IsTotal(h, B) /\ h \in [SUBSET DOMAIN B -> Nat]
    BY TotalNat
  <1>2. Total(B) = h[DOMAIN B]
    BY DEF Total
  <1> HIDE DEF h
  <1> DEFINE D == DOMAIN B
  <1>3. D \in SUBSET DOMAIN B /\ a \in D
    OBVIOUS
  <1> HIDE DEF D
  <1>4. h[D] = B[a] + h[D \ {a}]
    BY <1>1, <1>3, TotalAny
  <1> QED
    BY <1>1, <1>2, <1>4 DEF D

(* one more element adds its weight *)
LEMMA TotalAdd ==
  ASSUME NEW B, NEW C, NEW a, Weights(B), Weights(C), a \notin DOMAIN C,
         DOMAIN B = DOMAIN C \cup {a}, \A x \in DOMAIN C : B[x] = C[x]
  PROVE  Total(B) = Total(C) + B[a]
  <1> DEFINE g == CHOOSE f : IsTotal(f, C)
  <1>1. IsTotal(g, C) /\ g \in [SUBSET DOMAIN C -> Nat] /\ Total(C) = g[DOMAIN C]
    BY TotalNat DEF Total
  <1> HIDE DEF g
  <1>2. a \in DOMAIN B
    OBVIOUS
  <1>3. PICK h \in [SUBSET DOMAIN B -> Nat] :
          IsTotal(h, B) /\ Total(B) = B[a] + h[DOMAIN B \ {a}]
    BY <1>2, TotalFirst
  <1>4. DOMAIN B \ {a} = DOMAIN C /\ DOMAIN C \in SUBSET (DOMAIN B \cap DOMAIN C)
    OBVIOUS
  <1>5. h[DOMAIN C] = g[DOMAIN C]
    BY <1>1, <1>3, <1>4, TotalAgree
  <1>6. B[a] \in Nat /\ g[DOMAIN C] \in Nat
    BY <1>1, <1>2 DEF Weights
  <1> QED
    BY <1>1, <1>3, <1>4, <1>5, <1>6

-----------------------------------------------------------------------------
(* a multiple of m that is smaller than m *)
LEMMA SmallMultiple ==
  ASSUME NEW m \in Nat \ {0}, NEW d \in Int, - m < m * d, m * d < m
  PROVE  d = 0
  <1>1. CASE d >= 1
    <2>1. m * d = m + m * (d - 1) /\ m * (d - 1) >= 0
      BY <1>1
    <2> QED
      BY <2>1
  <1>2. CASE d <= - 1
    <2>1. m * d = m * (d + 1) - m /\ m * (d + 1) <= 0
      BY <1>2
    <2> QED
      BY <2>1
  <1> QED
    BY <1>1, <1>2

(* a multiple of m changes no residue *)
LEMMA AddMultiple ==
  ASSUME NEW m \in Nat \ {0}, NEW i \in Int, NEW y \in Int
  PROVE  (m * i + y) % m = y % m
  <1> DEFINE z == m * i + y
             d == y \div m
             e == z \div m
             r == y % m
             t == z % m
  <1>1. d \in Int /\ r \in 0..(m - 1) /\ y = m * d + r
    OBVIOUS
  <1>2. z \in Int
    OBVIOUS
  <1> HIDE DEF z
  <1>3. e \in Int /\ t \in 0..(m - 1) /\ z = m * e + t
    BY <1>2
  <1> HIDE DEF d, e, r, t
  <1>4. m * ((i + d) - e) = (m * i + m * d) - m * e
    BY <1>1, <1>3
  <1>5. m * i \in Int /\ m * d \in Int /\ m * e \in Int
    BY <1>1, <1>3
  <1>6. m * ((i + d) - e) = t - r
    BY <1>1, <1>3, <1>4, <1>5 DEF z
  <1>7. (i + d) - e \in Int /\ - m < t - r /\ t - r < m
    BY <1>1, <1>3
  <1>8. (i + d) - e = 0
    BY <1>6, <1>7, SmallMultiple
  <1>9. t - r = 0
    BY <1>6, <1>8
  <1>10. t = r
    BY <1>1, <1>3, <1>9
  <1> QED
    BY <1>10 DEF t, r, z

(* what the additions and subtractions of a size_t compute *)
LEMMA Residue ==
  ASSUME NEW m \in Nat \ {0}, NEW x \in Nat, NEW k \in Nat
  PROVE  /\ x % m \in 0..(m - 1)
         /\ ((x % m) + k) % m = (x + k) % m
         /\ k <= x => ((x % m) + m - k) % m = (x - k) % m
         /\ x < m => x % m = x
  <1> DEFINE q == x \div m
             r == x % m
  <1>1. q \in Nat /\ r \in 0..(m - 1) /\ x = m * q + r
    OBVIOUS
  <1> HIDE DEF q, r
  <1>2. m * q \in Nat /\ q - 1 \in Int /\ q \in Int /\ m * (q - 1) = m * q - m
    BY <1>1
  <1>3. x + k = m * q + (r + k) /\ r + k \in Int
    BY <1>1, <1>2
  <1>4. (x + k) % m = (r + k) % m
    BY <1>2, <1>3, AddMultiple
  <1>6. x - k = m * (q - 1) + (r + m - k) /\ r + m - k \in Int
    BY <1>1, <1>2
  <1>7. (x - k) % m = (r + m - k) % m
    BY <1>2, <1>6, AddMultiple
  <1>8. x < m => x % m = x
    OBVIOUS
  <1> QED
    BY <1>1, <1>4, <1>7, <1>8 DEF r

-----------------------------------------------------------------------------
(* The sizes that allocator_free would read from the headers in the list,   *)
(* and the sum of BytesExact as their total.                                *)
Sizes == [a \in Listed |-> Bytes(a)]

(* the fold of BytesExact, unfolded *)
Running(f, S) ==
  f = [s \in SUBSET S |-> IF s = {} THEN 0 ELSE Bytes(Pick(s)) + f[s \ {Pick(s)}]]

(* MapThenSumSet is such a fold, once one exists *)
LEMMA SumIsRunning ==
  ASSUME NEW S, NEW f, Running(f, S)
  PROVE  \E g : Running(g, S) /\ MapThenSumSet(Bytes, S) = g[S]
  <1> DEFINE g == CHOOSE h : Running(h, S)
  <1>1. Running(g, S)
    BY Zenon
  <1>2. MapThenSumSet(Bytes, S) = g[S]
    BY DEF MapThenSumSet, MapThenFoldSet, Running, Pick
  <1> QED
    BY <1>1, <1>2

(* the sizes in the headers are finitely many numbers *)
LEMMA SizesWeigh ==
  ASSUME TypeOK, IsFiniteSet(heap)
  PROVE  Weights(Sizes) /\ DOMAIN Sizes = Listed
  <1>1. Listed \subseteq heap /\ Listed \subseteq Addr
    BY DEF Listed, TypeOK
  <1>2. \A a \in Listed : Bytes(a) \in Nat
    BY <1>1, BytesNat
  <1>3. IsFiniteSet(Listed)
    BY <1>1, FS_Subset
  <1> QED
    BY <1>2, <1>3 DEF Weights, Sizes

(* the two folds are the same *)
LEMMA RunningTotal ==
  ASSUME NEW f
  PROVE  Running(f, Listed) <=> IsTotal(f, Sizes)
  <1> DEFINE R == [s \in SUBSET Listed |-> IF s = {} THEN 0 ELSE Bytes(Pick(s)) + f[s \ {Pick(s)}]]
             I == [s \in SUBSET Listed |-> IF s = {} THEN 0 ELSE Sizes[Pick(s)] + f[s \ {Pick(s)}]]
  <1>1. \A s \in SUBSET Listed : s # {} => Pick(s) \in Listed
    BY DEF Pick
  <1>2. \A s \in SUBSET Listed : s # {} => Sizes[Pick(s)] = Bytes(Pick(s))
    BY <1>1 DEF Sizes
  <1>3. \A s \in SUBSET Listed : R[s] = I[s]
    BY <1>2
  <1>4. R = I
    BY <1>3
  <1>5. DOMAIN Sizes = Listed
    BY DEF Sizes
  <1> HIDE DEF R, I
  <1>6. Running(f, Listed) <=> f = R
    BY DEF Running, R
  <1>7. IsTotal(f, Sizes) <=> f = I
    BY <1>5 DEF IsTotal, I
  <1> QED
    BY <1>4, <1>6, <1>7

(* the sum of BytesExact is the total of the sizes *)
LEMMA SumIsTotal ==
  ASSUME TypeOK, IsFiniteSet(heap)
  PROVE  MapThenSumSet(Bytes, Listed) = Total(Sizes)
  <1> DEFINE B == Sizes
             h == CHOOSE f : IsTotal(f, B)
  <1>1. Weights(B) /\ DOMAIN B = Listed
    BY SizesWeigh
  <1>2. IsTotal(h, B)
    BY <1>1, TotalNat
  <1>3. Total(B) = h[Listed]
    BY <1>1 DEF Total
  <1> HIDE DEF h
  <1>4. Running(h, Listed)
    BY <1>2, RunningTotal
  <1>5. PICK g : Running(g, Listed) /\ MapThenSumSet(Bytes, Listed) = g[Listed]
    BY <1>4, SumIsRunning
  <1>6. IsTotal(g, B)
    BY <1>5, RunningTotal
  <1> HIDE DEF B
  <1>7. g[Listed] = h[Listed]
    BY <1>1, <1>2, <1>6, TotalAgree
  <1> QED
    BY <1>3, <1>5, <1>7 DEF B

-----------------------------------------------------------------------------
(* No caller moves or clones an object of allocator_new_ex: none under src/ *)
(* does, though sema/symbol.c passes default_move and default_clone.        *)
OwnedStay == \A i \in ExInfo : ~i.movable

(* The class of a block that is handed out is there, so that its size is    *)
(* what it was: only the object that owns a heap class has it.              *)
ClassesHeld ==
  /\ \A a \in heap :
       /\ obj[a].class \in StaticClass \cup classes
       /\ obj[a].owns => obj[a].class \in HeapClass
       /\ obj[a].class \in HeapClass => ~class[obj[a].class].movable
  /\ \A a, b \in heap : a # b /\ obj[a].class = obj[b].class => obj[a].class \in StaticClass

(* What a call does to the books: it enters a new object, strikes out a     *)
(* listed one, or leaves them as they are.                                  *)
Entered(a, k) ==
  /\ Listed' = Listed \cup {a} /\ (Sizes)'[a] = k
  /\ \A x \in Listed : (Sizes)'[x] = Sizes[x]
  /\ ~OverBudget(k)
  /\ total_bytes' = (total_bytes + k) % (SizeMax + 1) /\ max_bytes' = max_bytes

Struck(a) ==
  /\ Listed' = Listed \ {a} /\ \A x \in Listed' : (Sizes)'[x] = Sizes[x]
  /\ total_bytes' = (total_bytes + SizeMax + 1 - Sizes[a]) % (SizeMax + 1)
  /\ max_bytes' = max_bytes

Kept == /\ Sizes' = Sizes /\ total_bytes' = total_bytes
        /\ max_bytes' = max_bytes \/ max_bytes' \in Limits

Ledger == \/ \E a \in Addr \ Listed, k \in Nat : Entered(a, k)
          \/ \E a \in Listed : Struck(a)
          \/ Kept

(* allocator_new after its guards enters one object *)
LEMMA AllocLedger ==
  ASSUME Inv, NEW a \in Addr, NEW c \in Class, NEW n \in Nat, NEW size \in Nat,
         NEW owns \in BOOLEAN, Alloc(a, c, n, size, owns), freeing = <<>>, freeing' = freeing,
         class'[c].size = size, \A x \in heap : class'[obj[x].class] = class[obj[x].class],
         ~OverBudget(HeaderSize + n * size), max_bytes' = max_bytes
  PROVE  Ledger
  <1> DEFINE k == n * size
  <1>0. k \in Nat /\ HeaderSize \in Nat /\ total_bytes \in Nat
    BY AllocatorAssumption DEF Inv, TypeOK
  <1>1. Listed = heap /\ Listed' = heap \cup {a} /\ a \notin heap
    BY DEF Listed, Freeing, Alloc
  <1>2. obj'[a] = [class |-> c, count |-> n, owns |-> owns] /\ \A x \in heap : obj'[x] = obj[x]
    BY DEF Alloc, Inv, TypeOK
  <1>3. (Sizes)' = [x \in Listed' |-> HeaderSize + obj'[x].count * class'[obj'[x].class].size]
    BY DEF Sizes, Bytes
  <1>4. (Sizes)'[a] = HeaderSize + k
    BY <1>1, <1>2, <1>3
  <1>5. \A x \in Listed : (Sizes)'[x] = Sizes[x]
    BY <1>1, <1>2, <1>3 DEF Sizes, Bytes
  <1>6. total_bytes' = (total_bytes + HeaderSize + k) % (SizeMax + 1) /\ ~OverBudget(HeaderSize + k)
    BY DEF Alloc
  <1> HIDE DEF k
  <1>7. total_bytes + HeaderSize + k = total_bytes + (HeaderSize + k) /\ HeaderSize + k \in Nat
    BY <1>0
  <1>8. Entered(a, HeaderSize + k)
    BY <1>1, <1>4, <1>5, <1>6, <1>7 DEF Entered
  <1> QED
    BY <1>1, <1>7, <1>8 DEF Ledger

(* allocator_free strikes out one object *)
LEMMA FreeLedger ==
  ASSUME Inv, NEW a \in Listed, FreeEnter(a), UNCHANGED <<heap, obj, class, max_bytes>>
  PROVE  Ledger
  <1>1. Listed' = Listed \ {a}
    <2>1. freeing \in Seq(Addr) /\ a \in Addr /\ freeing' = Append(freeing, a)
      BY DEF Inv, TypeOK, Listed, FreeEnter
    <2>2. Len(freeing') = Len(freeing) + 1
          /\ \A k \in 1..Len(freeing') : freeing'[k] = IF k = Len(freeing) + 1 THEN a ELSE freeing[k]
      BY <2>1
    <2>3. Len(freeing) \in Nat
      BY <2>1
    <2>4. Freeing' = Freeing \cup {a}
      <3>1. Freeing' \subseteq Freeing \cup {a}
        BY <2>2, <2>3 DEF Freeing
      <3>2. a \in Freeing'
        BY <2>2, <2>3 DEF Freeing
      <3>3. ASSUME NEW k \in 1..Len(freeing) PROVE freeing[k] \in Freeing'
        <4>1. k \in 1..Len(freeing') /\ freeing'[k] = freeing[k]
          BY <2>2, <2>3
        <4> QED
          BY <4>1 DEF Freeing
      <3>4. Freeing \subseteq Freeing'
        BY <3>3 DEF Freeing
      <3> QED
        BY <3>1, <3>2, <3>4
    <2> QED
      BY <2>4 DEF Listed
  <1>2. \A x \in Listed' : (Sizes)'[x] = Sizes[x]
    BY <1>1 DEF Sizes, Bytes
  <1>3. Sizes[a] = Bytes(a)
    BY DEF Sizes
  <1>4. total_bytes' = (total_bytes + SizeMax + 1 - Sizes[a]) % (SizeMax + 1)
    BY <1>3 DEF FreeEnter
  <1> QED
    BY <1>1, <1>2, <1>4 DEF Ledger, Struck

(* a step that touches no header and no class leaves the books as they are *)
LEMMA KeptLedger ==
  ASSUME UNCHANGED <<obj, class, total_bytes>>, Listed' = Listed,
         max_bytes' = max_bytes \/ max_bytes' \in Limits
  PROVE  Ledger
  <1>1. (Sizes)' = Sizes
    BY DEF Sizes, Bytes
  <1> QED
    BY <1>1 DEF Ledger, Kept

(* Every call keeps the classes of the objects handed out and the books.    *)
LEMMA NextLedger == OwnedStay /\ Inv /\ ClassesHeld /\ [Next]_vars => Ledger /\ ClassesHeld'
  <1> SUFFICES ASSUME OwnedStay, Inv, ClassesHeld, [Next]_vars PROVE Ledger /\ ClassesHeld'
    OBVIOUS
  <1>0. /\ TypeOK /\ class \in [Class -> Info] /\ classes \subseteq HeapClass
        /\ StaticClass \subseteq Class /\ HeapClass \subseteq Class
        /\ StaticClass \cap HeapClass = {}
        /\ Counts \subseteq Nat /\ HeaderSize \in Nat
        /\ obj \in [Addr -> [class : Class, count : 0..SizeMax, owns : BOOLEAN]]
        /\ heap \subseteq Addr
    BY AllocatorAssumption DEF Inv, TypeOK, Class
  <1>00. \A d \in Class : class[d].size \in Nat
    BY <1>0, AllocatorAssumption DEF Info
  <1>1. ASSUME UNCHANGED <<heap, obj, total_bytes, class, classes, freeing>>,
               max_bytes' = max_bytes \/ max_bytes' \in Limits
        PROVE  Ledger /\ ClassesHeld'
    <2>1. Listed' = Listed
      BY <1>1 DEF Listed, Freeing
    <2> QED
      BY <1>1, <2>1, KeptLedger DEF ClassesHeld
  <1>2. ASSUME NEW a \in Addr, NEW c \in Class, NEW n \in Nat, NEW owns,
               Alloc(a, c, n, class[c].size, owns), c \in StaticClass, owns = FALSE,
               ~OverBudget(HeaderSize + n * class[c].size),
               UNCHANGED <<max_bytes, class, classes, freeing>>, freeing = <<>>
        PROVE  Ledger /\ ClassesHeld'
    <2>1. obj'[a] = [class |-> c, count |-> n, owns |-> FALSE] /\ \A x \in heap : obj'[x] = obj[x]
      BY <1>0, <1>2 DEF Alloc
    <2>2. heap' = heap \cup {a} /\ a \notin heap
      BY <1>2 DEF Alloc
    <2>3. ClassesHeld'
      BY <1>0, <1>2, <2>1, <2>2 DEF ClassesHeld
    <2>4. Ledger
      <3> DEFINE size == class[c].size
      <3>1. size \in Nat /\ Alloc(a, c, n, size, FALSE) /\ class'[c].size = size
            /\ ~OverBudget(HeaderSize + n * size)
        BY <1>00, <1>2
      <3>2. \A x \in heap : class'[obj[x].class] = class[obj[x].class]
        BY <1>2
      <3> HIDE DEF size
      <3> QED
        BY <1>2, <3>1, <3>2, AllocLedger
    <2> QED
      BY <2>3, <2>4
  <1>3. ASSUME NEW a \in Addr, NEW c \in StaticClass, NEW n \in Counts, NEW o \in Addr \cup {Nil},
               New(a, c, n, o)
        PROVE  Ledger /\ ClassesHeld'
    <2>1. CASE Panic
      BY <1>1, <2>1 DEF Panic, counts
    <2>2. CASE ~Panic
      <3>1. /\ Alloc(a, c, n, class[c].size, FALSE) /\ ~OverBudget(HeaderSize + n * class[c].size)
            /\ UNCHANGED <<max_bytes, class, classes, freeing>> /\ freeing = <<>>
        BY <1>3, <2>2 DEF New, Calling
      <3>2. c \in Class /\ n \in Nat
        BY <1>0
      <3> QED
        BY <1>2, <3>1, <3>2
    <2> QED
      BY <2>1, <2>2
  <1>4. ASSUME NEW a \in Addr, NEW c \in HeapClass, NEW i \in ExInfo, NEW n \in Counts,
               NewEx(a, c, i, n)
        PROVE  Ledger /\ ClassesHeld'
    <2>1. CASE Panic
      BY <1>1, <2>1 DEF Panic, counts
    <2>2. CASE status' = "fault" /\ UNCHANGED <<heap, obj, list, counts, max_bytes, class, classes,
                                                holds, freeing, moved, born, news>>
      BY <1>1, <2>2 DEF counts
    <2>3. CASE ~Panic /\ ~Refused(i.size, n)
      <3>1. /\ Alloc(a, c, n, i.size, TRUE) /\ ~OverBudget(HeaderSize + n * i.size)
            /\ class' = [class EXCEPT ![c] = i] /\ classes' = classes \cup {c}
            /\ UNCHANGED <<max_bytes, freeing>> /\ freeing = <<>> /\ c \notin classes
        BY <1>4, <2>3 DEF NewEx, Calling
      <3>2. i \in Info /\ i.size \in Nat /\ ~i.movable
        <4>1. i \in Info /\ ~i.movable
          BY AllocatorAssumption DEF OwnedStay
        <4>2. i.size \in 0..SizeMax /\ SizeMax \in Nat
          BY <4>1, AllocatorAssumption DEF Info
        <4> QED
          BY <4>1, <4>2
      <3>3. class'[c] = i /\ \A d \in Class : d # c => class'[d] = class[d]
        BY <1>0, <3>1
      <3>4. obj'[a] = [class |-> c, count |-> n, owns |-> TRUE] /\ \A x \in heap : obj'[x] = obj[x]
        BY <1>0, <3>1 DEF Alloc
      <3>5. heap' = heap \cup {a} /\ a \notin heap
        BY <3>1 DEF Alloc
      <3>6. \A x \in heap : obj[x].class # c /\ obj[x].class \in Class
        BY <1>0, <3>1 DEF ClassesHeld
      <3>7. ClassesHeld'
        BY <1>0, <3>1, <3>2, <3>3, <3>4, <3>5, <3>6 DEF ClassesHeld
      <3>8. Ledger
        <4> DEFINE size == i.size
        <4>1. size \in Nat /\ Alloc(a, c, n, size, TRUE) /\ class'[c].size = size
              /\ ~OverBudget(HeaderSize + n * size)
          BY <3>1, <3>2, <3>3
        <4>2. \A x \in heap : class'[obj[x].class] = class[obj[x].class]
          BY <3>3, <3>6
        <4>3. c \in Class /\ n \in Nat
          BY <1>0
        <4> HIDE DEF size
        <4> QED
          BY <3>1, <4>1, <4>2, <4>3, AllocLedger
      <3> QED
        BY <3>7, <3>8
    <2> QED
      BY <1>4, <2>1, <2>2, <2>3 DEF NewEx
  <1>5. ASSUME NEW a \in Listed, FreeEnter(a), UNCHANGED <<heap, obj, max_bytes, class, classes>>
        PROVE  Ledger /\ ClassesHeld'
    BY <1>5, FreeLedger DEF ClassesHeld
  <1>6. ASSUME NEW a \in Addr, Free(a) PROVE Ledger /\ ClassesHeld'
    <2>1. /\ FreeEnter(a) /\ UNCHANGED <<heap, obj, max_bytes, class, classes>>
          /\ freeing = <<>> /\ a \in heap
      BY <1>6, AllocatorAssumption DEF Free, Calling, Inv, MovedOK
    <2>2. a \in Listed
      BY <2>1 DEF Listed, Freeing
    <2> QED
      BY <1>5, <2>1, <2>2
  <1>7. ASSUME NEW a \in Addr, Dispose(a) PROVE Ledger /\ ClassesHeld'
    <2> DEFINE l == Last(freeing)
    <2>1. /\ FreeEnter(a) /\ UNCHANGED <<heap, obj, max_bytes, class, classes>>
          /\ freeing # <<>> /\ a \in holds[l]
      BY <1>7 DEF Dispose
    <2>2. l \in heap
      <3>1. freeing \in Seq(Addr) /\ Len(freeing) \in Nat \ {0}
        BY <1>0, <2>1, EmptySeq DEF TypeOK
      <3>2. l \in Freeing
        BY <3>1 DEF Last, Freeing
      <3> QED
        BY <3>2 DEF Inv, HoldsLive
    <2>3. a \in Listed
      BY <2>1, <2>2 DEF Inv, HoldsLive
    <2> QED
      BY <1>5, <2>1, <2>3
  <1>8. ASSUME FinishFree PROVE Ledger /\ ClassesHeld'
    <2> DEFINE a == Last(freeing)
    <2>1. /\ freeing # <<>> /\ heap' = heap \ {a} /\ freeing' = Front(freeing)
          /\ classes' = IF obj[a].owns THEN classes \ {obj[a].class} ELSE classes
          /\ UNCHANGED <<obj, total_bytes, max_bytes, class>>
      BY <1>8 DEF FinishFree, counts
    <2>2. Listed' = Listed /\ a \in heap
      <3>1. a \in Freeing /\ Listed' = Listed
        BY <2>1, FrontFreeing
      <3> QED
        BY <3>1 DEF Inv, HoldsLive
    <2> HIDE DEF a
    <2>3. \A x \in heap' : obj[x].class \in StaticClass \cup classes'
      <3>1. \A x \in heap' : x \in heap /\ x # a
        BY <2>1
      <3> QED
        BY <1>0, <2>1, <2>2, <3>1 DEF ClassesHeld
    <2>4. ClassesHeld'
      BY <2>1, <2>3 DEF ClassesHeld
    <2> QED
      BY <2>1, <2>2, <2>4, KeptLedger
  <1>9. ASSUME NEW a \in heap, NEW b \in Addr, class[obj[a].class].movable,
               ~OverBudget(Bytes(a)),
               Alloc(b, obj[a].class, obj[a].count, class[obj[a].class].size, FALSE),
               UNCHANGED <<max_bytes, class, classes, freeing>>, freeing = <<>>
        PROVE  Ledger /\ ClassesHeld'
    <2> DEFINE c == obj[a].class
               n == obj[a].count
    <2>1. c \in StaticClass
      BY <1>0, <1>9 DEF ClassesHeld
    <2>2. c \in Class /\ n \in Nat
      BY <1>0
    <2>3. ~OverBudget(HeaderSize + n * class[c].size)
      BY <1>9 DEF Bytes
    <2>4. Alloc(b, c, n, class[c].size, FALSE)
      BY <1>9
    <2> HIDE DEF c, n
    <2> QED
      BY <1>2, <1>9, <2>1, <2>2, <2>3, <2>4
  <1>10. ASSUME NEW a \in Addr, NEW b \in Addr, Move(a, b) \/ Clone(a, b)
         PROVE  Ledger /\ ClassesHeld'
    <2>1. CASE Panic
      BY <1>1, <2>1 DEF Panic, counts
    <2>2. CASE ~Panic
      <3>1. /\ a \in heap /\ class[obj[a].class].movable /\ ~OverBudget(Bytes(a))
            /\ Alloc(b, obj[a].class, obj[a].count, class[obj[a].class].size, FALSE)
            /\ UNCHANGED <<max_bytes, class, classes, freeing>> /\ freeing = <<>>
        BY <1>10, <2>2 DEF Move, Clone, Calling
      <3> QED
        BY <1>9, <3>1
    <2> QED
      BY <2>1, <2>2
  <1>11. ASSUME NEW m \in Limits, SetMaxBytes(m) PROVE Ledger /\ ClassesHeld'
    BY <1>1, <1>11 DEF SetMaxBytes, counts
  <1>12. CASE Delete
    BY <1>1, <1>12 DEF Delete, counts
  <1>13. CASE UNCHANGED vars
    BY <1>1, <1>13 DEF vars, counts
  <1> QED
    BY <1>3, <1>4, <1>6, <1>7, <1>8, <1>10, <1>11, <1>12, <1>13 DEF Next

(* The total of the sizes follows the books. *)
LEMMA TotalStep ==
  ASSUME Inv, Inv', Ledger
  PROVE  \/ \E k \in Nat : /\ Total(Sizes)' = Total(Sizes) + k /\ ~OverBudget(k)
                           /\ total_bytes' = (total_bytes + k) % (SizeMax + 1)
                           /\ max_bytes' = max_bytes
         \/ \E k \in Nat : /\ k <= Total(Sizes) /\ Total(Sizes)' = Total(Sizes) - k
                           /\ total_bytes' = (total_bytes + SizeMax + 1 - k) % (SizeMax + 1)
                           /\ max_bytes' = max_bytes
         \/ /\ Total(Sizes)' = Total(Sizes) /\ total_bytes' = total_bytes
            /\ max_bytes' = max_bytes \/ max_bytes' \in Limits
  <1> DEFINE C == Sizes
  <1>1. Weights(C) /\ DOMAIN C = Listed /\ Total(C) \in Nat
    BY SizesWeigh, TotalNat DEF Inv
  <1>2. (TypeOK /\ IsFiniteSet(heap) => Weights(Sizes) /\ DOMAIN Sizes = Listed)'
    BY SizesWeigh, PTL
  <1>3. PICK B : B = (Sizes)'
    OBVIOUS
  <1>4. Weights(B) /\ DOMAIN B = Listed'
    BY <1>2, <1>3 DEF Inv
  <1>5. Total(B) \in Nat
    BY <1>4, TotalNat
  <1>6. Total(Sizes)' = Total(B)
    BY <1>3
  <1>7. CASE \E a \in Addr \ Listed, k \in Nat : Entered(a, k)
    <2>1. PICK a \in Addr \ Listed, k \in Nat : Entered(a, k)
      BY <1>7
    <2>2. DOMAIN B = DOMAIN C \cup {a} /\ B[a] = k /\ \A x \in DOMAIN C : B[x] = C[x]
      BY <1>1, <1>3, <1>4, <2>1 DEF Entered
    <2>3. a \notin DOMAIN C
      BY <1>1
    <2> HIDE DEF C
    <2>4. Total(B) = Total(C) + k
      BY <1>1, <1>4, <2>2, <2>3, TotalAdd
    <2> QED
      BY <1>6, <2>1, <2>4 DEF Entered, C
  <1>8. CASE \E a \in Listed : Struck(a)
    <2>1. PICK a \in Listed : Struck(a)
      BY <1>8
    <2>2. /\ DOMAIN C = DOMAIN B \cup {a} /\ a \notin DOMAIN B
          /\ \A x \in DOMAIN B : C[x] = B[x]
      BY <1>1, <1>3, <1>4, <2>1 DEF Struck
    <2>3. C[a] \in Nat
      BY <1>1, <2>2 DEF Weights
    <2>4. total_bytes' = (total_bytes + SizeMax + 1 - C[a]) % (SizeMax + 1) /\ max_bytes' = max_bytes
      BY <2>1 DEF Struck
    <2> HIDE DEF C
    <2>5. Total(C) = Total(B) + C[a]
      BY <1>1, <1>4, <2>2, TotalAdd
    <2>6. C[a] <= Total(C) /\ Total(B) = Total(C) - C[a]
      BY <1>1, <1>5, <2>3, <2>5
    <2> QED
      BY <1>6, <2>3, <2>4, <2>6 DEF C
  <1>9. CASE Kept
    BY <1>9 DEF Kept
  <1> QED
    BY <1>7, <1>8, <1>9 DEF Ledger

(* total_bytes is the sum of the sizes as a size_t can hold it. *)
BytesWrapped == total_bytes = MapThenSumSet(Bytes, Listed) % (SizeMax + 1)

Books == OwnedStay /\ ClassesHeld /\ total_bytes = Total(Sizes) % (SizeMax + 1)

(* create_allocator opens the books at 0 *)
LEMMA BooksInit == OwnedStay /\ Init => Books
  <1> SUFFICES ASSUME OwnedStay, Init PROVE Books
    OBVIOUS
  <1>1. Listed = {} /\ heap = {} /\ total_bytes = 0
    BY DEF Init, Listed
  <1>2. Weights(Sizes) /\ DOMAIN Sizes = {}
    BY <1>1, InitInv, SizesWeigh DEF Inv
  <1>3. Total(Sizes) = 0
    BY <1>2, TotalEmpty
  <1>4. 0 % (SizeMax + 1) = 0
    BY AllocatorAssumption
  <1> QED
    BY <1>1, <1>3, <1>4 DEF Books, ClassesHeld

(* every call keeps the books *)
LEMMA BooksNext == Inv /\ Books /\ [Next]_vars => Books'
  <1> SUFFICES ASSUME Inv, Books, [Next]_vars PROVE Books'
    OBVIOUS
  <1>1. Inv' /\ Ledger /\ ClassesHeld' /\ OwnedStay
    BY NextInv, NextLedger DEF Books
  <1>2. OwnedStay'
    BY <1>1 DEF OwnedStay
  <1>3. SizeMax + 1 \in Nat \ {0}
    BY AllocatorAssumption
  <1> DEFINE T == Total(Sizes)
             U == Total(Sizes)'
             m == SizeMax + 1
  <1>4. T \in Nat /\ total_bytes = T % m
    BY SizesWeigh, TotalNat DEF Inv, Books
  <1>5. \/ \E k \in Nat : U = T + k /\ total_bytes' = (total_bytes + k) % m
        \/ \E k \in Nat : k <= T /\ U = T - k /\ total_bytes' = (total_bytes + m - k) % m
        \/ U = T /\ total_bytes' = total_bytes
    <2>1. \A k \in Nat : total_bytes + SizeMax + 1 - k = total_bytes + m - k
      BY AllocatorAssumption DEF Inv, TypeOK
    <2> QED
      BY <1>1, <2>1, TotalStep
  <1>6. m \in Nat \ {0}
    BY <1>3
  <1> HIDE DEF T, U, m
  <1>7. total_bytes' = U % m
    <2>0. \A k \in Nat : /\ ((T % m) + k) % m = (T + k) % m
                         /\ k <= T => ((T % m) + m - k) % m = (T - k) % m
      BY <1>4, <1>6, Residue
    <2>1. CASE \E k \in Nat : U = T + k /\ total_bytes' = (total_bytes + k) % m
      <3>1. PICK k \in Nat : U = T + k /\ total_bytes' = (total_bytes + k) % m
        BY <2>1
      <3> QED
        BY <1>4, <2>0, <3>1
    <2>2. CASE \E k \in Nat : k <= T /\ U = T - k /\ total_bytes' = (total_bytes + m - k) % m
      <3>1. PICK k \in Nat : k <= T /\ U = T - k /\ total_bytes' = (total_bytes + m - k) % m
        BY <2>2
      <3> QED
        BY <1>4, <2>0, <3>1
    <2>3. CASE U = T /\ total_bytes' = total_bytes
      BY <1>4, <2>3
    <2> QED
      BY <1>5, <2>1, <2>2, <2>3
  <1> QED
    BY <1>1, <1>2, <1>7 DEF Books, U, m

(* Under any ceilings, set as often as one likes, total_bytes is the sum of *)
(* what the live objects take, modulo the width of size_t.                  *)
THEOREM BytesWrappedCorrect == OwnedStay /\ Spec => []BytesWrapped
  <1>1. Inv /\ Books => BytesWrapped
    BY SumIsTotal DEF Inv, Books, BytesWrapped
  <1> QED
    BY <1>1, InitInv, NextInv, BooksInit, BooksNext, PTL DEF Spec

-----------------------------------------------------------------------------
(* One ceiling for the life of the process, and not 0, which turns the      *)
(* guard off: nothing under src/ calls allocator_set_max_bytes.             *)
OneCeiling == \E l \in 1..SizeMax : Limits = {l}

Within == OneCeiling /\ max_bytes \in Limits /\ Total(Sizes) <= max_bytes

(* create_allocator starts below the ceiling *)
LEMMA WithinInit == OneCeiling /\ Init => Within
  <1> SUFFICES ASSUME OneCeiling, Init PROVE Within
    OBVIOUS
  <1>1. Listed = {} /\ max_bytes \in Limits
    BY DEF Init, Listed
  <1>2. Weights(Sizes) /\ DOMAIN Sizes = {}
    BY <1>1, InitInv, SizesWeigh DEF Inv
  <1>3. Total(Sizes) = 0
    BY <1>2, TotalEmpty
  <1>4. max_bytes \in Nat
    BY InitInv DEF Inv, TypeOK
  <1> QED
    BY <1>1, <1>3, <1>4 DEF Within

(* what max_bytes - total_bytes is as a size_t *)
LEMMA Room ==
  ASSUME NEW s \in Nat, NEW l \in 0..s, NEW t \in 0..l
  PROVE  (l + s + 1 - t) % (s + 1) = l - t
  <1> DEFINE m == s + 1
             d == l - t
  <1>1. m \in Nat \ {0} /\ d \in Nat /\ d < m /\ l + s + 1 - t = m * 1 + d
    OBVIOUS
  <1> HIDE DEF m, d
  <1>2. d % m = d
    BY <1>1, Residue
  <1>3. (m * 1 + d) % m = d % m
    <2>1. \A i \in Int, y \in Int : (m * i + y) % m = y % m
      BY <1>1, AddMultiple
    <2>2. d \in Int /\ 1 \in Int
      BY <1>1
    <2> QED
      BY <2>1, <2>2
  <1>4. (l + s + 1 - t) % m = d
    BY <1>1, <1>2, <1>3
  <1> QED
    BY <1>4 DEF m, d

(* While the total is within the ceiling, max_bytes - total_bytes does not  *)
(* wrap and the guard is right.                                             *)
LEMMA WithinNext == Inv /\ Books /\ Within /\ [Next]_vars => Within'
  <1> SUFFICES ASSUME Inv, Books, Within, [Next]_vars PROVE Within'
    OBVIOUS
  <1>1. Inv' /\ Ledger
    BY NextInv, NextLedger DEF Books
  <1>2. PICK l \in 1..SizeMax : Limits = {l} /\ max_bytes = l
    BY DEF Within, OneCeiling
  <1>3. OneCeiling'
    BY DEF Within, OneCeiling
  <1>4. SizeMax + 1 \in Nat \ {0} /\ l \in Nat /\ 0 < l /\ l < SizeMax + 1
    BY <1>2, AllocatorAssumption
  <1> DEFINE T == Total(Sizes)
             U == Total(Sizes)'
             m == SizeMax + 1
  <1>5. T \in Nat /\ T <= l /\ total_bytes = T % m
    BY <1>2, SizesWeigh, TotalNat DEF Inv, Books, Within
  <1>6. T < m
    BY <1>4, <1>5
  <1>7. total_bytes = T
    BY <1>4, <1>5, <1>6, Residue
  <1>8. \/ \E k \in Nat : U = T + k /\ ~OverBudget(k) /\ max_bytes' = max_bytes
        \/ \E k \in Nat : k <= T /\ U = T - k /\ max_bytes' = max_bytes
        \/ U = T /\ (max_bytes' = max_bytes \/ max_bytes' \in Limits)
    BY <1>1, TotalStep
  <1> HIDE DEF T, U
  <1>9. max_bytes' = l
    BY <1>2, <1>8
  <1>10. ASSUME NEW k \in Nat, U = T + k, ~OverBudget(k) PROVE U <= l
    <2>1. k <= (l + SizeMax + 1 - T) % (SizeMax + 1)
      <3>1. l > 0 /\ max_bytes = l /\ total_bytes = T
        BY <1>2, <1>4, <1>7
      <3>2. ~(k > (l + SizeMax + 1 - T) % (SizeMax + 1))
        BY <1>10, <3>1 DEF OverBudget
      <3>3. l + SizeMax + 1 - T \in Int
        BY <1>4, <1>5, AllocatorAssumption
      <3>4. (l + SizeMax + 1 - T) % (SizeMax + 1) \in Int
        BY <1>4, <3>3
      <3> QED
        BY <3>2, <3>4
    <2>2. (l + SizeMax + 1 - T) % (SizeMax + 1) = l - T
      BY <1>4, <1>5, AllocatorAssumption, Room
    <2> QED
      BY <1>4, <1>5, <1>10, <2>1, <2>2
  <1>11. U <= l
    BY <1>4, <1>5, <1>8, <1>10
  <1> QED
    BY <1>2, <1>3, <1>9, <1>11 DEF Within, U

(* The counters are what a walk of the list adds up to, and the total never *)
(* exceeds the ceiling.                                                     *)
THEOREM CountersCorrect == OwnedStay /\ OneCeiling /\ Spec => []CountersExact
  <1>1. Inv /\ Books /\ Within => CountersExact
    <2> SUFFICES ASSUME Inv, Books, Within PROVE CountersExact
      OBVIOUS
    <2> DEFINE T == Total(Sizes)
    <2>1. T \in Nat /\ MapThenSumSet(Bytes, Listed) = T
      BY SizesWeigh, TotalNat, SumIsTotal DEF Inv
    <2>2. T <= max_bytes /\ max_bytes \in 0..SizeMax /\ total_bytes = T % (SizeMax + 1)
      BY DEF Within, Books, Inv, TypeOK
    <2>3. SizeMax + 1 \in Nat \ {0} /\ SizeMax \in Nat
      BY AllocatorAssumption
    <2> HIDE DEF T
    <2>4. T < SizeMax + 1
      BY <2>1, <2>2, <2>3
    <2>5. total_bytes = T
      BY <2>1, <2>2, <2>3, <2>4, Residue
    <2> QED
      BY <2>1, <2>2, <2>5 DEF CountersExact, CountExact, BytesExact, BudgetHeld, Inv
  <1> QED
    BY <1>1, InitInv, NextInv, BooksInit, BooksNext, WithinInit, WithinNext, PTL DEF Spec
=============================================================================
