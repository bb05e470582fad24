---------------------------- MODULE ArenaProofs ----------------------------
(***************************************************************************)
(* What the arena hands out lies inside its blocks and never overlaps, for *)
(* all block sizes, requests and alignments whose sizes do not wrap and    *)
(* for any number of resets; and it is aligned, whether sizes wrap or not. *)
(***************************************************************************)
EXTENDS Arena, SequenceTheorems, TLAPS

(* The requests that reach arena_alloc, directly or through arena_calloc    *)
Requests == Sizes \cup {Wrap(count * elem) : count \in Counts, elem \in Sizes}

(* No size computed by the arena wraps: the budget is at most half of the   *)
(* range of size_t, and no request comes close to its end.                  *)
NoWrap ==
  /\ 2 * Budget + BlockHeader <= SizeMax /\ 2 * BlockHeader <= SizeMax
  /\ \A size \in Requests, align \in Aligns : size + align + BlockHeader <= SizeMax

(* The inductive invariant.  Disjointness is not inductive by itself: that  *)
(* the next allocation starts behind the earlier ones needs every earlier   *)
(* one to end inside the used part of its block.                            *)
BlocksOK ==
  \A k \in 1..Len(blocks) : blocks[k].used <= blocks[k].cap /\ blocks[k].room = blocks[k].cap
InUsed ==
  \A i \in 1..Len(allocs) :
    /\ allocs[i].block \in 1..Len(blocks)
    /\ allocs[i].off + allocs[i].size <= blocks[allocs[i].block].used
Inv == /\ TypeOK /\ BlocksOK /\ InUsed /\ Disjoint
       /\ next_size <= 2 * Budget

-----------------------------------------------------------------------------
(* size_t arithmetic *)
LEMMA WrapSmall ==
  ASSUME NEW x \in Nat
  PROVE  Wrap(x) \in 0..SizeMax /\ (x <= SizeMax => Wrap(x) = x)
  <1>1. SizeMax \in Nat
    BY ArenaAssumption
  <1>2. x % (SizeMax + 1) \in 0..((SizeMax + 1) - 1)
    BY <1>1
  <1>3. x <= SizeMax => x % (SizeMax + 1) = x
    BY <1>1
  <1> QED
    BY <1>1, <1>2, <1>3 DEF Wrap

(* the padding is less than the alignment *)
LEMMA PadRange ==
  ASSUME NEW addr \in Nat, NEW align \in Nat \ {0}
  PROVE  Pad(addr, align) \in Nat /\ Pad(addr, align) < align
  <1>1. addr % align \in 0..(align - 1)
    OBVIOUS
  <1>2. align - (addr % align) \in Nat
    BY <1>1
  <1> DEFINE d == align - (addr % align)
  <1> HIDE DEF d
  <1>3. d \in Nat
    BY <1>2 DEF d
  <1>4. d % align \in 0..(align - 1)
    BY <1>3
  <1> QED
    BY <1>4 DEF Pad, d

(* aligned_offset lies at or behind the used part, by less than align *)
LEMMA OffsetRange ==
  ASSUME NEW b \in Block, NEW align \in Aligns
  PROVE  /\ AlignedOffset(b, align) \in Nat
         /\ AlignedOffset(b, align) >= b.used
         /\ AlignedOffset(b, align) < b.used + align
  <1>1. b.used \in Nat /\ b.base \in Nat /\ b.base + b.used \in Nat
    BY DEF Block
  <1>2. align \in Nat \ {0}
    BY ArenaAssumption
  <1>3. Pad(b.base + b.used, align) \in Nat /\ Pad(b.base + b.used, align) < align
    BY <1>1, <1>2, PadRange
  <1> QED
    BY <1>1, <1>2, <1>3 DEF AlignedOffset

(* A new block is as large as it claims and has room for the request        *)
LEMMA NewBlock ==
  ASSUME NoWrap, next_size \in Nat, next_size <= 2 * Budget,
         NEW size \in Requests, size \in Nat, NEW align \in Aligns, NEW base \in Bases,
         BlockBytes(Needed(size, align)) \in 1..Budget
  PROVE  /\ BlockNew(Needed(size, align), base) \in Block
         /\ BlockNew(Needed(size, align), base).used = 0
         /\ BlockNew(Needed(size, align), base).room = BlockNew(Needed(size, align), base).cap
         /\ BlockNew(Needed(size, align), base).cap >= size + align
         /\ Needed(size, align) \in Nat /\ Needed(size, align) <= Budget
  <1> DEFINE n == Needed(size, align)
  <1>0. /\ SizeMax \in Nat /\ BlockHeader \in Nat \ {0} /\ Budget \in Nat /\ align \in Nat \ {0}
        /\ base \in Nat /\ BlockHeader <= SizeMax
    BY ArenaAssumption
  <1>1. size + align + BlockHeader <= SizeMax /\ 2 * Budget + BlockHeader <= SizeMax
    BY DEF NoWrap
  <1>2. Wrap(size + align) = size + align
    BY <1>0, <1>1, WrapSmall
  <1>3. n \in Nat /\ n >= size + align /\ n + BlockHeader <= SizeMax
    BY <1>0, <1>1, <1>2 DEF Needed
  <1> HIDE DEF n
  <1>4. BlockCap(n) \in Nat /\ BlockCap(n) >= n /\ (BlockCap(n) = n \/ BlockCap(n) = BlockHeader)
    BY <1>0, <1>3 DEF BlockCap
  <1>5. BlockHeader + BlockCap(n) \in Nat /\ BlockHeader + BlockCap(n) <= SizeMax
    BY <1>0, <1>3, <1>4 DEF NoWrap
  <1>6. BlockBytes(n) = BlockHeader + BlockCap(n)
    BY <1>5, WrapSmall DEF BlockBytes
  <1>7. BlockHeader + BlockCap(n) <= Budget
    <2>1. BlockBytes(n) \in 1..Budget
      BY DEF n
    <2> QED
      BY <1>0, <1>6, <2>1
  <1> DEFINE c == BlockCap(n)
             r == IF BlockBytes(n) < BlockHeader THEN 0 ELSE BlockBytes(n) - BlockHeader
  <1>8. c \in 0..SizeMax /\ r = c /\ c >= size + align
    BY <1>0, <1>3, <1>4, <1>5, <1>6
  <1>9. BlockNew(n, base) = [base |-> base, cap |-> c, used |-> 0, room |-> r]
    BY DEF BlockNew
  <1> HIDE DEF c, r
  <1>10. /\ BlockNew(n, base) \in Block
         /\ BlockNew(n, base).used = 0
         /\ BlockNew(n, base).room = BlockNew(n, base).cap
         /\ BlockNew(n, base).cap >= size + align
    BY <1>0, <1>8, <1>9 DEF Block
  <1>11. n \in Nat /\ n <= Budget
    BY <1>0, <1>3, <1>4, <1>7
  <1> QED
    BY <1>10, <1>11 DEF n

-----------------------------------------------------------------------------
(* what Append does to the history *)
LEMMA HistoryGrows ==
  ASSUME allocs \in Seq([block : Nat, off : Nat, size : Nat, align : Aligns]),
         NEW k \in Nat, NEW o \in Nat, NEW size \in Nat, NEW align \in Aligns,
         allocs' = Append(allocs, [block |-> k, off |-> o, size |-> size, align |-> align])
  PROVE  /\ allocs' \in Seq([block : Nat, off : Nat, size : Nat, align : Aligns])
         /\ Len(allocs') = Len(allocs) + 1
         /\ \A i \in 1..Len(allocs) : allocs'[i] = allocs[i]
         /\ allocs'[Len(allocs) + 1].block = k
         /\ allocs'[Len(allocs) + 1].off = o
         /\ allocs'[Len(allocs) + 1].size = size
  <1> DEFINE a == [block |-> k, off |-> o, size |-> size, align |-> align]
             A == [block : Nat, off : Nat, size : Nat, align : Aligns]
  <1>1. a \in A /\ a.block = k /\ a.off = o /\ a.size = size
    OBVIOUS
  <1> HIDE DEF a, A
  <1>2. allocs \in Seq(A) /\ allocs' = Append(allocs, a)
    BY DEF a, A
  <1>3. /\ allocs' \in Seq(A) /\ Len(allocs') = Len(allocs) + 1
        /\ \A i \in 1..Len(allocs) : allocs'[i] = allocs[i]
        /\ allocs'[Len(allocs) + 1] = a
    BY <1>1, <1>2
  <1> QED
    BY <1>1, <1>3 DEF A

(* the fields of the history *)
LEMMA HistoryTypes ==
  ASSUME TypeOK
  PROVE  /\ Len(allocs) \in Nat /\ Len(blocks) \in Nat
         /\ \A i \in 1..Len(allocs) : allocs[i].off \in Nat /\ allocs[i].size \in Nat
         /\ \A k \in 1..Len(blocks) : blocks[k] \in Block
         /\ \A k \in 1..Len(blocks) : blocks[k].used \in Nat
  <1> DEFINE A == [block : Nat, off : Nat, size : Nat, align : Aligns]
  <1>1. allocs \in Seq(A) /\ blocks \in Seq(Block)
    BY DEF TypeOK
  <1> HIDE DEF A
  <1>2. Len(allocs) \in Nat /\ Len(blocks) \in Nat
    BY <1>1
  <1>3. \A i \in 1..Len(allocs) : allocs[i] \in A
    BY <1>1
  <1>4. \A k \in 1..Len(blocks) : blocks[k] \in Block
    BY <1>1
  <1>5. \A k \in 1..Len(blocks) : blocks[k].used \in Nat
    BY <1>4 DEF Block
  <1>6. \A x \in A : x.off \in Nat /\ x.size \in Nat
    BY DEF A
  <1> QED
    BY <1>2, <1>3, <1>4, <1>5, <1>6

(* the last of the allocations, a, lies behind the used part of its block,  *)
(* which then ends with it                                                  *)
HandsOut(a) ==
  /\ a = allocs'[Len(allocs) + 1] /\ Len(allocs) \in Nat /\ Len(blocks) \in Nat
  /\ a.block \in 1..(Len(blocks) + 1) /\ a.off \in Nat /\ a.size \in Nat
  /\ Len(allocs') = Len(allocs) + 1
  /\ Len(blocks') \in Nat /\ Len(blocks') >= Len(blocks) /\ Len(blocks') >= a.block
  /\ InUsed /\ Disjoint
  /\ \A i \in 1..Len(allocs) : allocs[i].off \in Nat /\ allocs[i].size \in Nat
  /\ \A j \in 1..Len(blocks) : blocks[j].used \in Nat
  /\ \A j \in 1..Len(blocks) : j # a.block => blocks'[j].used = blocks[j].used
  /\ a.block <= Len(blocks) => a.off >= blocks[a.block].used
  /\ blocks'[a.block].used = a.off + a.size
  /\ \A i \in 1..Len(allocs) : allocs'[i] = allocs[i]

(* that keeps allocations disjoint and inside the used parts                *)
LEMMA HandOut ==
  ASSUME NEW a, HandsOut(a)
  PROVE  InUsed' /\ Disjoint'
  <1> DEFINE n == Len(allocs)
             m == Len(blocks)
             k == a.block
             o == a.off
             size == a.size
  <1>0. /\ n \in Nat /\ m \in Nat /\ k \in 1..(m + 1) /\ o \in Nat /\ size \in Nat
        /\ n = Len(allocs) /\ m = Len(blocks) /\ Len(allocs') = n + 1
        /\ Len(blocks') >= m /\ Len(blocks') >= k
        /\ \A i \in 1..n : allocs[i].off \in Nat /\ allocs[i].size \in Nat
        /\ \A j \in 1..m : blocks[j].used \in Nat
        /\ \A j \in 1..m : j # k => blocks'[j].used = blocks[j].used
        /\ k <= m => o >= blocks[k].used
        /\ blocks'[k].used = o + size
        /\ \A i \in 1..n : allocs'[i] = allocs[i]
        /\ allocs'[n + 1].block = k /\ allocs'[n + 1].off = o /\ allocs'[n + 1].size = size
        /\ InUsed /\ Disjoint
    BY DEF HandsOut
  <1> HIDE DEF n, m, k, o, size
  <1> USE <1>0
  <1>1. \A i \in 1..n : /\ allocs[i].block \in 1..m
                        /\ allocs[i].off + allocs[i].size <= blocks[allocs[i].block].used
    BY DEF InUsed
  <1>2. ASSUME NEW i \in 1..n
        PROVE  /\ allocs'[i].block \in 1..Len(blocks')
               /\ allocs'[i].off + allocs'[i].size <= blocks'[allocs'[i].block].used
    <2> DEFINE b == allocs[i].block
               e == allocs[i].off + allocs[i].size
    <2>3. b \in 1..m /\ e <= blocks[b].used
      BY <1>1, <1>2
    <2>4. blocks[b].used \in Nat
      BY <2>3
    <2>5. e \in Nat
      <3>1. allocs[i].off \in Nat /\ allocs[i].size \in Nat
        BY <1>0, <1>2, Zenon
      <3> HIDE <1>0
      <3> QED
        BY <3>1
    <2>6. allocs'[i] = allocs[i]
      BY <1>2
    <2>1. /\ b \in 1..m /\ e <= blocks[b].used /\ e \in Nat /\ blocks[b].used \in Nat
          /\ allocs'[i].block = b /\ allocs'[i].off + allocs'[i].size = e
      BY <2>3, <2>4, <2>5, <2>6
    <2> HIDE DEF b, e
    <2>7. /\ b # k => blocks'[b].used = blocks[b].used
          /\ b = k => blocks[b].used <= o /\ blocks'[b].used = o + size
      <3>1. CASE b = k
        <4>1. o >= blocks[k].used /\ blocks'[k].used = o + size
          BY <2>1, <3>1
        <4> QED
          BY <2>1, <3>1, <4>1
      <3>2. CASE b # k
        BY <2>1, <3>2, Zenon
      <3> QED
        BY <3>1, <3>2, Zenon
    <2>8. o \in Nat /\ size \in Nat
      OBVIOUS
    <2>9. b \in 1..Len(blocks')
      BY <2>1
    <2> HIDE <1>0
    <2>2. e <= blocks'[b].used
      BY <2>1, <2>7, <2>8
    <2> QED
      BY <2>1, <2>2, <2>9, Zenon
  <1>3. InUsed'
    <2> SUFFICES ASSUME NEW i \in 1..(n + 1)
                 PROVE  /\ allocs'[i].block \in 1..Len(blocks')
                        /\ allocs'[i].off + allocs'[i].size <= blocks'[allocs'[i].block].used
      BY DEF InUsed
    <2>1. CASE i = n + 1
      BY <2>1
    <2>2. CASE i \in 1..n
      BY <1>2, <2>2
    <2> QED
      BY <2>1, <2>2
  <1>4. ASSUME NEW i \in 1..n, allocs[i].block = k
        PROVE  allocs'[i].off + allocs'[i].size <= o
    <2> DEFINE e == allocs[i].off + allocs[i].size
    <2>1. k \in 1..m /\ e <= blocks[k].used /\ allocs'[i].off + allocs'[i].size = e
      BY <1>0, <1>1, <1>4, Zenon
    <2>2. /\ allocs[i].off \in Nat /\ allocs[i].size \in Nat /\ o \in Nat
          /\ blocks[k].used \in Nat /\ o >= blocks[k].used
      BY <1>0, <1>4, <2>1
    <2> HIDE <1>0
    <2>3. e \in Nat
      BY <2>2
    <2> HIDE DEF e
    <2> QED
      BY <2>1, <2>2, <2>3
  <1>5. Disjoint'
    <2> SUFFICES ASSUME NEW i \in 1..(n + 1), NEW j \in 1..(n + 1), i < j,
                        allocs'[i].block = allocs'[j].block
                 PROVE  allocs'[i].off + allocs'[i].size <= allocs'[j].off
      BY DEF Disjoint
    <2>1. i \in 1..n
      OBVIOUS
    <2>2. CASE j = n + 1
      BY <1>4, <2>1, <2>2
    <2>3. CASE j \in 1..n
      <3>1. allocs[i].off + allocs[i].size <= allocs[j].off
        BY <2>1, <2>3 DEF Disjoint
      <3> QED
        BY <2>1, <2>3, <3>1
    <2> QED
      BY <2>2, <2>3
  <1> QED
    BY <1>3, <1>5

-----------------------------------------------------------------------------
(* what the requests that reach arena_alloc have in common *)
LEMMA RequestNat == \A size \in Requests : size \in Nat
  <1>1. \A count \in Counts, elem \in Sizes : count * elem \in Nat
    BY ArenaAssumption
  <1>2. \A count \in Counts, elem \in Sizes : Wrap(count * elem) \in Nat
    <2> SUFFICES ASSUME NEW count \in Counts, NEW elem \in Sizes
                 PROVE  Wrap(count * elem) \in Nat
      OBVIOUS
    <2> DEFINE p == count * elem
    <2>1. p \in Nat
      BY <1>1
    <2> HIDE DEF p
    <2>2. Wrap(p) \in 0..SizeMax /\ SizeMax \in Nat
      BY <2>1, WrapSmall, ArenaAssumption
    <2>3. Wrap(p) \in Nat
      BY <2>2
    <2> QED
      BY <2>3 DEF p
  <1> QED
    BY <1>2, ArenaAssumption DEF Requests

(* arena_alloc in an existing block *)
LEMMA AllocInStep ==
  ASSUME Inv, NEW k \in 1..Len(blocks), NEW size \in Nat, NEW align \in Aligns,
         AllocIn(k, size, align)
  PROVE  Inv'
  <1> DEFINE o == AlignedOffset(blocks[k], align)
             b == Bump(blocks[k], size, align)
  <1>1. /\ Len(allocs) \in Nat /\ Len(blocks) \in Nat /\ k \in Nat
        /\ \A i \in 1..Len(allocs) : allocs[i].off \in Nat /\ allocs[i].size \in Nat
        /\ \A j \in 1..Len(blocks) : blocks[j] \in Block
        /\ \A j \in 1..Len(blocks) : blocks[j].used \in Nat
    BY HistoryTypes DEF Inv
  <1>2. blocks[k] \in Block /\ blocks[k].cap \in Nat
    BY <1>1, ArenaAssumption DEF Block
  <1>3. o \in Nat /\ o >= blocks[k].used
    BY <1>2, OffsetRange
  <1>4. o < blocks[k].cap /\ blocks[k].cap - o >= size
    BY DEF AllocIn, Fits
  <1>5. b = [blocks[k] EXCEPT !.used = o + size]
    BY DEF Bump
  <1> HIDE DEF o
  <1>6. /\ b \in Block /\ b.used = o + size /\ b.used <= b.cap
        /\ b.cap = blocks[k].cap /\ b.room = blocks[k].room
    <2>1. PICK c \in Block : c = blocks[k]
      BY <1>2
    <2>2. /\ c.base \in Nat /\ c.cap \in 0..SizeMax /\ c.room \in Nat
          /\ c = [base |-> c.base, cap |-> c.cap, room |-> c.room, used |-> c.used]
      BY DEF Block
    <2>3. o + size \in Nat /\ o + size <= c.cap
      BY <1>2, <1>3, <1>4, <2>1
    <2>4. b = [base |-> c.base, cap |-> c.cap, room |-> c.room, used |-> o + size]
      <3> HIDE DEF b
      <3> QED
        BY <1>5, <2>1, <2>2
    <2> HIDE DEF b
    <2> QED
      BY <2>1, <2>2, <2>3, <2>4 DEF Block
  <1> HIDE DEF b
  <1>7. blocks' = [blocks EXCEPT ![k] = b] /\ UNCHANGED <<next_size, status>>
        /\ total_used' = Wrap(total_used + size)
        /\ allocs' = Append(allocs, [block |-> k, off |-> o, size |-> size, align |-> align])
    BY DEF AllocIn, Returned, b, o
  <1>8. /\ blocks' \in Seq(Block) /\ Len(blocks') = Len(blocks)
        /\ blocks'[k] = b
        /\ \A j \in 1..Len(blocks) : j # k => blocks'[j] = blocks[j]
    BY <1>6, <1>7 DEF Inv, TypeOK
  <1>9. /\ allocs' \in Seq([block : Nat, off : Nat, size : Nat, align : Aligns])
        /\ Len(allocs') = Len(allocs) + 1
        /\ \A i \in 1..Len(allocs) : allocs'[i] = allocs[i]
        /\ allocs'[Len(allocs) + 1].block = k
        /\ allocs'[Len(allocs) + 1].off = o
        /\ allocs'[Len(allocs) + 1].size = size
    <2>1. allocs \in Seq([block : Nat, off : Nat, size : Nat, align : Aligns])
      BY DEF Inv, TypeOK
    <2> QED
      BY <1>1, <1>3, <1>7, <2>1, HistoryGrows
  <1>10. InUsed' /\ Disjoint'
    <2> DEFINE a == allocs'[Len(allocs) + 1]
    <2>1. InUsed /\ Disjoint
      BY DEF Inv
    <2>2. a.block = k /\ a.off = o /\ a.size = size /\ k <= Len(blocks)
      BY <1>1, <1>9
    <2> HIDE DEF a
    <2>3. /\ \A j \in 1..Len(blocks) : j # a.block => blocks'[j].used = blocks[j].used
          /\ a.block <= Len(blocks) => a.off >= blocks[a.block].used
          /\ blocks'[a.block].used = a.off + a.size
      BY <1>3, <1>6, <1>8, <2>2
    <2>4. /\ a.block \in 1..(Len(blocks) + 1) /\ a.off \in Nat /\ a.size \in Nat
          /\ Len(blocks') \in Nat /\ Len(blocks') >= Len(blocks) /\ Len(blocks') >= a.block
      BY <1>1, <1>3, <1>8, <2>2
    <2>5. a = allocs'[Len(allocs) + 1]
      BY DEF a
    <2> QED
      BY <1>1, <1>9, <2>1, <2>3, <2>4, <2>5, HandOut DEF HandsOut
  <1>11. BlocksOK'
    BY <1>6, <1>8 DEF Inv, BlocksOK
  <1>12. total_used' \in 0..SizeMax
    <2>1. total_used \in 0..SizeMax /\ SizeMax \in Nat
      BY ArenaAssumption DEF Inv, TypeOK
    <2>2. total_used + size \in Nat
      BY <2>1
    <2>3. Wrap(total_used + size) \in 0..SizeMax
      BY <2>2, WrapSmall, Zenon
    <2> QED
      BY <1>7, <2>3, Zenon
  <1>13. TypeOK'
    <2>1. \A j \in 1..Len(blocks') : blocks'[j].used <= blocks'[j].cap
      BY <1>11 DEF BlocksOK
    <2> QED
      BY <1>7, <1>8, <1>9, <1>12, <2>1 DEF Inv, TypeOK
  <1> QED
    BY <1>7, <1>10, <1>11, <1>13 DEF Inv

(* panic touches nothing else *)
LEMMA PanicStep ==
  ASSUME Inv, Panic
  PROVE  Inv'
  <1>1. blocks' = blocks /\ allocs' = allocs /\ next_size' = next_size /\ total_used' = total_used
        /\ status' = "panic"
    BY DEF Panic
  <1>2. TypeOK'
    BY <1>1 DEF Inv, TypeOK
  <1> QED
    BY <1>1, <1>2 DEF Inv, BlocksOK, InUsed, Disjoint

(* arena_alloc in a new block *)
LEMMA AllocNewStep ==
  ASSUME NoWrap, Inv, NEW size \in Requests, NEW align \in Aligns, NEW base \in Bases,
         AllocNew(size, align, base)
  PROVE  Inv'
  <1> DEFINE need == Needed(size, align)
             f == BlockNew(need, base)
             o == AlignedOffset(f, align)
             b == Bump(f, size, align)
             k == Len(blocks) + 1
  <1>1. CASE BlockBytes(need) \notin 1..Budget
    BY <1>1, PanicStep DEF AllocNew
  <1>2. CASE BlockBytes(need) \in 1..Budget
    <2>1. /\ Len(allocs) \in Nat /\ Len(blocks) \in Nat
          /\ \A i \in 1..Len(allocs) : allocs[i].off \in Nat /\ allocs[i].size \in Nat
          /\ \A j \in 1..Len(blocks) : blocks[j] \in Block
          /\ \A j \in 1..Len(blocks) : blocks[j].used \in Nat
      BY HistoryTypes DEF Inv
    <2>2. size \in Nat /\ align \in Nat /\ Budget \in Nat /\ next_size \in Nat
      BY RequestNat, ArenaAssumption DEF Inv, TypeOK
    <2>3. /\ f \in Block /\ f.used = 0 /\ f.room = f.cap /\ f.cap >= size + align
          /\ need \in Nat /\ need <= Budget
      BY <1>2, <2>2, NewBlock DEF Inv
    <2>4. /\ blocks' = Append(blocks, b)
          /\ next_size' = Wrap(need * 2)
          /\ total_used' = Wrap(total_used + size)
          /\ allocs' = Append(allocs, [block |-> k, off |-> o, size |-> size, align |-> align])
          /\ UNCHANGED status
      BY <1>2 DEF AllocNew, Returned
    <2>5. b = [f EXCEPT !.used = o + size]
      BY DEF Bump
    <2> HIDE DEF need, f
    <2>6. o \in Nat /\ o < align
      BY <2>2, <2>3, OffsetRange
    <2> HIDE DEF o
    <2>7. f.cap \in 0..SizeMax /\ SizeMax \in Nat
      BY <2>3, ArenaAssumption DEF Block
    <2>8. /\ b \in Block /\ b.used = o + size /\ b.used <= b.cap /\ b.room = b.cap
      BY <2>2, <2>3, <2>5, <2>6, <2>7 DEF Block
    <2> HIDE DEF b
    <2>9. /\ blocks' \in Seq(Block) /\ Len(blocks') = k
          /\ blocks'[k] = b
          /\ \A j \in 1..Len(blocks) : blocks'[j] = blocks[j]
      BY <2>4, <2>8 DEF Inv, TypeOK
    <2>10. k \in Nat
      BY <2>1
    <2> HIDE DEF k
    <2>11. /\ allocs' \in Seq([block : Nat, off : Nat, size : Nat, align : Aligns])
           /\ Len(allocs') = Len(allocs) + 1
           /\ \A i \in 1..Len(allocs) : allocs'[i] = allocs[i]
           /\ allocs'[Len(allocs) + 1].block = k
           /\ allocs'[Len(allocs) + 1].off = o
           /\ allocs'[Len(allocs) + 1].size = size
      <3>1. allocs \in Seq([block : Nat, off : Nat, size : Nat, align : Aligns])
        BY DEF Inv, TypeOK
      <3> QED
        BY <2>2, <2>4, <2>6, <2>10, <3>1, HistoryGrows
    <2>12. InUsed' /\ Disjoint'
      <3> DEFINE a == allocs'[Len(allocs) + 1]
      <3>1. InUsed /\ Disjoint
        BY DEF Inv
      <3>2. a.block = k /\ a.off = o /\ a.size = size /\ k = Len(blocks) + 1
        BY <2>11 DEF k
      <3> HIDE DEF a
      <3>3. /\ \A j \in 1..Len(blocks) : j # a.block => blocks'[j].used = blocks[j].used
            /\ a.block <= Len(blocks) => a.off >= blocks[a.block].used
            /\ blocks'[a.block].used = a.off + a.size
        BY <2>1, <2>8, <2>9, <3>2
      <3>4. /\ a.block \in 1..(Len(blocks) + 1) /\ a.off \in Nat /\ a.size \in Nat
            /\ Len(blocks') \in Nat /\ Len(blocks') >= Len(blocks) /\ Len(blocks') >= a.block
        BY <2>1, <2>2, <2>6, <2>9, <3>2
      <3>5. a = allocs'[Len(allocs) + 1]
        BY DEF a
      <3> QED
        BY <2>1, <2>11, <3>1, <3>3, <3>4, <3>5, HandOut DEF HandsOut
    <2>13. BlocksOK'
      <3> SUFFICES ASSUME NEW j \in 1..k
                   PROVE  blocks'[j].used <= blocks'[j].cap /\ blocks'[j].room = blocks'[j].cap
        BY <2>9 DEF BlocksOK
      <3>1. CASE j = k
        BY <2>8, <2>9, <3>1
      <3>2. CASE j \in 1..Len(blocks)
        BY <2>9, <3>2 DEF Inv, BlocksOK
      <3> QED
        BY <2>1, <3>1, <3>2 DEF k
    <2>14. total_used' \in 0..SizeMax
      <3>1. total_used + size \in Nat
        BY <2>2, ArenaAssumption DEF Inv, TypeOK
      <3> QED
        BY <2>4, <3>1, WrapSmall
    <2>15. next_size' \in 0..SizeMax /\ next_size' <= 2 * Budget
      <3>1. need * 2 \in Nat /\ need * 2 <= 2 * Budget
        BY <2>2, <2>3
      <3>2. 2 * Budget + BlockHeader <= SizeMax /\ BlockHeader \in Nat /\ SizeMax \in Nat
        BY ArenaAssumption DEF NoWrap
      <3>3. need * 2 <= SizeMax
        BY <2>2, <3>1, <3>2
      <3>4. Wrap(need * 2) = need * 2
        BY <3>1, <3>3, WrapSmall
      <3>5. next_size' = need * 2
        BY <2>4, <3>4
      <3> QED
        BY <3>1, <3>2, <3>3, <3>5
    <2>16. TypeOK'
      <3>1. \A j \in 1..Len(blocks') : blocks'[j].used <= blocks'[j].cap
        BY <2>13 DEF BlocksOK
      <3> QED
        BY <2>4, <2>9, <2>11, <2>14, <2>15, <3>1 DEF Inv, TypeOK
    <2> QED
      BY <2>12, <2>13, <2>15, <2>16 DEF Inv
  <1> QED
    BY <1>1, <1>2

(* arena_alloc *)
LEMMA AllocStep ==
  ASSUME NoWrap, Inv, NEW size \in Requests, NEW align \in Aligns, NEW base \in Bases,
         Alloc(size, align, base)
  PROVE  Inv'
  <1>1. size \in Nat
    BY RequestNat
  <1>2. CASE Panic
    BY <1>2, PanicStep
  <1>3. CASE \E k \in 1..Len(blocks) : AllocIn(k, size, align)
    BY <1>1, <1>3, AllocInStep
  <1>4. CASE AllocNew(size, align, base)
    BY <1>4, AllocNewStep
  <1> QED
    BY <1>2, <1>3, <1>4 DEF Alloc

(* arena_reset and arena_destroy *)
LEMMA ResetStep ==
  ASSUME Inv, Reset
  PROVE  Inv'
  <1> DEFINE m == Len(blocks)
             g == [k \in 1..m |-> [blocks[k] EXCEPT !.used = 0]]
  <1>1. m \in Nat /\ \A k \in 1..m : blocks[k] \in Block
    BY HistoryTypes DEF Inv
  <1>2. \A b \in Block : /\ [b EXCEPT !.used = 0] \in Block
                         /\ [b EXCEPT !.used = 0].used = 0
                         /\ [b EXCEPT !.used = 0].cap = b.cap
                         /\ [b EXCEPT !.used = 0].room = b.room
    BY DEF Block
  <1>3. blocks' = g /\ allocs' = <<>> /\ total_used' = 0 /\ UNCHANGED <<next_size, status>>
    BY DEF Reset
  <1>4. \A k \in 1..m : [blocks[k] EXCEPT !.used = 0] \in Block
    BY <1>1, <1>2
  <1>5. g \in Seq(Block)
    BY <1>1, <1>4, IsASeq
  <1>6. Len(g) = m
    BY <1>1, <1>5
  <1>7. \A k \in 1..m : /\ blocks'[k].used = 0 /\ blocks'[k].cap \in Nat
                        /\ blocks'[k].room = blocks'[k].cap
    <2> SUFFICES ASSUME NEW k \in 1..m
                 PROVE  /\ blocks'[k].used = 0 /\ blocks'[k].cap \in Nat
                        /\ blocks'[k].room = blocks'[k].cap
      OBVIOUS
    <2>1. blocks'[k] = [blocks[k] EXCEPT !.used = 0] /\ blocks[k] \in Block
      BY <1>1, <1>3
    <2>2. blocks[k].room = blocks[k].cap
      BY DEF Inv, BlocksOK
    <2>3. blocks[k].cap \in Nat
      BY <2>1, ArenaAssumption DEF Block
    <2> QED
      BY <1>2, <2>1, <2>2, <2>3
  <1>8. Len(blocks') = m /\ blocks' \in Seq(Block)
    BY <1>3, <1>5, <1>6
  <1> HIDE DEF m, g
  <1>9. BlocksOK'
    BY <1>7, <1>8 DEF BlocksOK
  <1>10. Len(allocs') = 0 /\ allocs' \in Seq([block : Nat, off : Nat, size : Nat, align : Aligns])
    BY <1>3
  <1>11. InUsed' /\ Disjoint'
    BY <1>10 DEF InUsed, Disjoint
  <1>12. TypeOK'
    <2>1. 0 \in 0..SizeMax
      BY ArenaAssumption
    <2> QED
      BY <1>3, <1>8, <1>9, <1>10, <2>1 DEF TypeOK, BlocksOK, Inv
  <1> QED
    BY <1>3, <1>9, <1>11, <1>12 DEF Inv

LEMMA NextInv == NoWrap /\ Inv /\ [Next]_vars => Inv'
  <1> SUFFICES ASSUME NoWrap, Inv, [Next]_vars PROVE Inv'
    OBVIOUS
  <1>1. ASSUME NEW size \in Sizes, NEW align \in Aligns, NEW base \in Bases,
               Alloc(size, align, base)
        PROVE  Inv'
    <2>1. size \in Requests
      BY DEF Requests
    <2> QED
      BY <1>1, <2>1, AllocStep
  <1>2. ASSUME NEW size \in Sizes, NEW align \in Aligns, NEW base \in Bases, NEW count \in Counts,
               Calloc(count, size, align, base)
        PROVE  Inv'
    <2>1. Wrap(count * size) \in Requests
      BY DEF Requests
    <2>2. CASE Panic
      BY <2>2, PanicStep
    <2>3. CASE Alloc(Wrap(count * size), align, base)
      BY <2>1, <2>3, AllocStep
    <2> QED
      BY <1>2, <2>2, <2>3 DEF Calloc
  <1>3. CASE Reset
    BY <1>3, ResetStep
  <1>4. CASE Destroy
    <2>1. blocks' = <<>> /\ allocs' = <<>> /\ UNCHANGED <<next_size, total_used>>
          /\ status' = "destroyed"
      BY <1>4 DEF Destroy
    <2>2. Len(blocks') = 0 /\ Len(allocs') = 0 /\ blocks' \in Seq(Block)
          /\ allocs' \in Seq([block : Nat, off : Nat, size : Nat, align : Aligns])
      BY <2>1
    <2> QED
      BY <2>1, <2>2 DEF Inv, TypeOK, BlocksOK, InUsed, Disjoint
  <1>5. CASE UNCHANGED vars
    BY <1>5 DEF vars, Inv, TypeOK, BlocksOK, InUsed, Disjoint
  <1> QED
    BY <1>1, <1>2, <1>3, <1>4, <1>5 DEF Next

(* arena_new *)
LEMMA InitInv == NoWrap /\ Init => Inv
  <1> SUFFICES ASSUME NoWrap, Init PROVE Inv
    OBVIOUS
  <1>1. PICK size \in BlockSizes, base \in Bases :
          /\ BlockBytes(size) \in 1..Budget
          /\ blocks = <<BlockNew(size, base)>> /\ next_size = Wrap(size * 2)
    BY DEF Init
  <1>2. total_used = 0 /\ allocs = <<>> /\ status = "running"
    BY DEF Init
  <1>3. /\ SizeMax \in Nat /\ BlockHeader \in Nat \ {0} /\ Budget \in Nat /\ base \in Nat
        /\ size \in Nat /\ size <= Budget
        /\ 2 * Budget + BlockHeader <= SizeMax /\ 2 * BlockHeader <= SizeMax
    BY ArenaAssumption DEF NoWrap
  <1> DEFINE c == BlockCap(size)
             r == IF BlockBytes(size) < BlockHeader THEN 0 ELSE BlockBytes(size) - BlockHeader
  <1>4. c \in Nat /\ BlockHeader + c \in Nat /\ BlockHeader + c <= SizeMax
    BY <1>3 DEF BlockCap
  <1>5. BlockBytes(size) = BlockHeader + c
    BY <1>4, WrapSmall DEF BlockBytes
  <1>6. r = c /\ c \in 0..SizeMax
    BY <1>3, <1>4, <1>5
  <1>7. BlockNew(size, base) = [base |-> base, cap |-> c, used |-> 0, room |-> r]
    BY DEF BlockNew
  <1> HIDE DEF c, r
  <1> DEFINE b == BlockNew(size, base)
  <1>8. b \in Block /\ b.used = 0 /\ b.room = b.cap /\ b.cap \in Nat
    BY <1>3, <1>4, <1>6, <1>7 DEF Block
  <1>9. blocks = <<b>>
    BY <1>1
  <1> HIDE DEF b
  <1>10. blocks \in Seq(Block) /\ Len(blocks) = 1 /\ blocks[1] = b
    BY <1>8, <1>9
  <1>11. next_size \in 0..SizeMax /\ next_size <= 2 * Budget
    <2>1. size * 2 \in Nat /\ size * 2 <= SizeMax /\ size * 2 <= 2 * Budget
      BY <1>3
    <2>2. Wrap(size * 2) = size * 2
      BY <2>1, WrapSmall
    <2> QED
      BY <1>1, <1>3, <2>1, <2>2
  <1>12. BlocksOK
    BY <1>8, <1>10 DEF BlocksOK
  <1>13. TypeOK
    BY <1>2, <1>3, <1>10, <1>11, <1>12 DEF TypeOK, BlocksOK
  <1>14. InUsed /\ Disjoint
    BY <1>2 DEF InUsed, Disjoint
  <1> QED
    BY <1>11, <1>12, <1>13, <1>14 DEF Inv

(* With sizes that do not wrap, everything arena_alloc and arena_calloc     *)
(* return lies inside the memory of its block.                              *)
THEOREM BoundsCorrect == NoWrap => (Spec => []InBounds)
  <1>1. Inv => InBounds
    <2> SUFFICES ASSUME Inv PROVE InBounds
      OBVIOUS
    <2>1. \A i \in 1..Len(allocs) : allocs[i].off \in Nat /\ allocs[i].size \in Nat
      BY HistoryTypes DEF Inv
    <2>2. \A k \in 1..Len(blocks) : /\ blocks[k].used \in Nat /\ blocks[k].room \in Nat
                                    /\ blocks[k].used <= blocks[k].room
      <3>1. \A k \in 1..Len(blocks) : blocks[k] \in Block
        BY HistoryTypes DEF Inv
      <3> QED
        BY <3>1 DEF Inv, BlocksOK, Block
    <2> SUFFICES ASSUME NEW i \in 1..Len(allocs)
                 PROVE  /\ allocs[i].block \in 1..Len(blocks)
                        /\ allocs[i].off + allocs[i].size <= blocks[allocs[i].block].room
      BY DEF InBounds
    <2> DEFINE k == allocs[i].block
               e == allocs[i].off + allocs[i].size
    <2>3. k \in 1..Len(blocks) /\ e <= blocks[k].used
      BY DEF Inv, InUsed
    <2>4. e \in Nat
      BY <2>1
    <2> HIDE DEF k, e
    <2>5. e <= blocks[k].room
      BY <2>2, <2>3, <2>4
    <2> QED
      BY <2>3, <2>5 DEF k, e
  <1>2. NoWrap /\ Spec => []Inv
    <2>1. ASSUME NoWrap PROVE Spec => []Inv
      BY <2>1, InitInv, NextInv, PTL DEF Spec
    <2> QED
      BY <2>1
  <1> QED
    BY <1>1, <1>2, PTL

(* With sizes that do not wrap, no two allocations since the last reset     *)
(* share a byte.                                                            *)
THEOREM DisjointCorrect == NoWrap => (Spec => []Disjoint)
  <1>1. Inv => Disjoint
    BY DEF Inv
  <1>2. NoWrap /\ Spec => []Inv
    <2>1. ASSUME NoWrap PROVE Spec => []Inv
      BY <2>1, InitInv, NextInv, PTL DEF Spec
    <2> QED
      BY <2>1
  <1> QED
    BY <1>1, <1>2, PTL

-----------------------------------------------------------------------------
(* Alignment needs no bound on the sizes: it holds even where they wrap.    *)
(* What makes it inductive is only that every allocation knows its block.   *)
AlignInv ==
  /\ blocks \in Seq(Block) /\ next_size \in 0..SizeMax
  /\ allocs \in Seq([block : Nat, off : Nat, size : Nat, align : Aligns])
  /\ \A i \in 1..Len(allocs) : allocs[i].block \in 1..Len(blocks)
  /\ Aligned

LEMMA DivMod ==
  ASSUME NEW m \in Nat \ {0}, NEW a \in Nat
  PROVE  /\ a \div m \in Nat /\ a % m \in 0..(m - 1) /\ a = m * (a \div m) + (a % m)
         /\ (m * a) % m = 0 /\ m % m = 0 /\ (a < m => a % m = a)
  <1>1. a \div m \in Nat /\ a = m * (a \div m) + (a % m)
    OBVIOUS
  <1>2. a % m \in 0..(m - 1) /\ (a < m => a % m = a)
    OBVIOUS
  <1>3. (m * a) % m = 0
    OBVIOUS
  <1>4. m % m = 0
    OBVIOUS
  <1> QED
    BY <1>1, <1>2, <1>3, <1>4

(* an address with its padding is a multiple of the alignment               *)
LEMMA Padded ==
  ASSUME NEW addr \in Nat, NEW align \in Nat \ {0}
  PROVE  (addr + Pad(addr, align)) % align = 0
  <1> DEFINE q == addr \div align
             r == addr % align
             d == align - r
  <1>1. q \in Nat /\ r \in 0..(align - 1) /\ addr = align * q + r
    BY DivMod
  <1>2. align * q \in Nat /\ align * (q + 1) = align * q + align /\ q + 1 \in Nat
    BY <1>1
  <1>3. (align * q) % align = 0 /\ (align * (q + 1)) % align = 0
    BY <1>1, <1>2, DivMod
  <1>4. Pad(addr, align) = d % align
    BY DEF Pad
  <1> HIDE DEF q, r
  <1>5. CASE r = 0
    <2>1. Pad(addr, align) = 0
      BY <1>4, <1>5, DivMod
    <2>2. addr + Pad(addr, align) = align * q
      BY <1>1, <1>2, <1>5, <2>1
    <2> QED
      BY <1>3, <2>2
  <1>6. CASE r # 0
    <2>1. d \in Nat /\ d < align /\ d + r = align
      BY <1>1, <1>6
    <2>2. Pad(addr, align) = d
      BY <1>4, <2>1, DivMod
    <2>3. addr + Pad(addr, align) = align * (q + 1)
      <3> HIDE DEF d
      <3> QED
        BY <1>1, <1>2, <2>1, <2>2
    <2> QED
      BY <1>3, <2>3
  <1> QED
    BY <1>5, <1>6

(* One more allocation, in a block that is there or in a new one.           *)
LEMMA HandOutAligned ==
  ASSUME AlignInv, NEW k \in Nat, NEW b \in Block, NEW size \in Nat, NEW align \in Aligns,
         blocks' \in Seq(Block), Len(blocks') >= Len(blocks), k \in 1..Len(blocks'),
         blocks'[k].base = b.base,
         \A j \in 1..Len(blocks) : blocks'[j].base = blocks[j].base,
         allocs' = Returned(k, b, size, align), next_size' \in 0..SizeMax
  PROVE  AlignInv'
  <1> DEFINE o == AlignedOffset(b, align)
             A == [block : Nat, off : Nat, size : Nat, align : Aligns]
             a == [block |-> k, off |-> o, size |-> size, align |-> align]
  <1>1. align \in Nat \ {0} /\ b.base \in Nat /\ b.used \in Nat /\ b.base + b.used \in Nat
    <2>1. b.base \in Nat /\ b.used \in Nat
      BY DEF Block
    <2>2. align \in Nat \ {0}
      BY ArenaAssumption
    <2> QED
      BY <2>1, <2>2
  <1>2. o \in Nat
    BY OffsetRange
  <1>3. (b.base + o) % align = 0
    <2> DEFINE p == Pad(b.base + b.used, align)
    <2>1. p \in Nat /\ (b.base + b.used + p) % align = 0
      BY <1>1, PadRange, Padded
    <2>2. o = b.used + p
      BY DEF AlignedOffset
    <2> HIDE DEF p
    <2>3. b.base + o = b.base + b.used + p
      BY <1>1, <2>1, <2>2
    <2> QED
      BY <2>1, <2>3
  <1> HIDE DEF o
  <1>4. a \in A /\ a.block = k /\ a.off = o /\ a.align = align
    BY <1>2
  <1>5. allocs \in Seq(A) /\ allocs' = Append(allocs, a)
    BY DEF AlignInv, Returned, o
  <1> HIDE DEF A, a
  <1>6. /\ allocs' \in Seq(A) /\ Len(allocs') = Len(allocs) + 1 /\ Len(allocs) \in Nat
        /\ \A i \in 1..Len(allocs) : allocs'[i] = allocs[i]
        /\ allocs'[Len(allocs) + 1] = a
    BY <1>4, <1>5
  <1>7. Len(blocks) \in Nat /\ Len(blocks') \in Nat
    BY DEF AlignInv
  <1>8. ASSUME NEW i \in 1..Len(allocs')
        PROVE  /\ allocs'[i].block \in 1..Len(blocks')
               /\ (blocks'[allocs'[i].block].base + allocs'[i].off) % allocs'[i].align = 0
    <2>1. CASE i = Len(allocs) + 1
      BY <1>3, <1>4, <1>6, <2>1
    <2>2. CASE i \in 1..Len(allocs)
      <3>1. allocs'[i] = allocs[i] /\ allocs[i].block \in 1..Len(blocks)
        BY <1>6, <2>2 DEF AlignInv
      <3>2. (blocks[allocs[i].block].base + allocs[i].off) % allocs[i].align = 0
        BY <2>2 DEF AlignInv, Aligned
      <3>3. blocks'[allocs[i].block].base = blocks[allocs[i].block].base
        BY <3>1
      <3>4. allocs[i].block \in 1..Len(blocks')
        BY <1>7, <3>1
      <3> QED
        BY <3>1, <3>2, <3>3, <3>4
    <2> QED
      BY <1>6, <2>1, <2>2
  <1> QED
    BY <1>6, <1>8 DEF AlignInv, Aligned, A

LEMMA AllocInAligned ==
  ASSUME AlignInv, NEW k \in 1..Len(blocks), NEW size \in Nat, NEW align \in Aligns,
         AllocIn(k, size, align)
  PROVE  AlignInv'
  <1> DEFINE b == blocks[k]
             c == Bump(b, size, align)
  <1>1. b \in Block /\ k \in Nat /\ Len(blocks) \in Nat
    BY DEF AlignInv
  <1>2. AlignedOffset(b, align) \in Nat
    BY <1>1, OffsetRange
  <1>3. c \in Block /\ c.base = b.base
    <2>1. PICK e \in Block : e = b
      BY <1>1
    <2>2. /\ e.base \in Nat /\ e.cap \in 0..SizeMax /\ e.room \in Nat
          /\ e = [base |-> e.base, cap |-> e.cap, room |-> e.room, used |-> e.used]
      BY DEF Block
    <2>3. AlignedOffset(b, align) + size \in Nat
      BY <1>2
    <2>4. c = [e EXCEPT !.used = AlignedOffset(b, align) + size]
      BY <2>1 DEF Bump
    <2> HIDE DEF b, c
    <2> QED
      BY <2>1, <2>2, <2>3, <2>4 DEF Block
  <1>4. /\ blocks' = [blocks EXCEPT ![k] = c] /\ next_size' = next_size
        /\ allocs' = Returned(k, b, size, align)
    BY DEF AllocIn
  <1> HIDE DEF c
  <1>5. /\ blocks' \in Seq(Block) /\ Len(blocks') = Len(blocks)
        /\ blocks'[k] = c /\ \A j \in 1..Len(blocks) : j # k => blocks'[j] = blocks[j]
    BY <1>3, <1>4 DEF AlignInv
  <1>6. /\ \A j \in 1..Len(blocks) : blocks'[j].base = blocks[j].base
        /\ Len(blocks') >= Len(blocks) /\ k \in 1..Len(blocks') /\ blocks'[k].base = b.base
    BY <1>1, <1>3, <1>5
  <1>7. next_size' \in 0..SizeMax
    BY <1>4 DEF AlignInv
  <1> HIDE DEF b
  <1> QED
    BY <1>1, <1>4, <1>5, <1>6, <1>7, HandOutAligned

LEMMA PanicAligned ==
  ASSUME AlignInv, Panic
  PROVE  AlignInv'
  BY DEF Panic, AlignInv, Aligned

(* a block of any size, whether its sizes wrapped or not                    *)
LEMMA AnyBlock ==
  ASSUME NEW n \in 0..SizeMax, NEW base \in Bases
  PROVE  BlockNew(n, base) \in Block /\ BlockNew(n, base).base = base
  <1>1. SizeMax \in Nat /\ BlockHeader \in 1..SizeMax /\ base \in Nat
    BY ArenaAssumption
  <1>2. BlockCap(n) \in 0..SizeMax
    BY <1>1 DEF BlockCap
  <1>3. BlockBytes(n) \in 0..SizeMax
    <2>1. BlockHeader + BlockCap(n) \in Nat
      BY <1>1, <1>2
    <2> QED
      BY <2>1, WrapSmall DEF BlockBytes
  <1> DEFINE r == IF BlockBytes(n) < BlockHeader THEN 0 ELSE BlockBytes(n) - BlockHeader
  <1>4. r \in Nat
    BY <1>1, <1>3
  <1> HIDE DEF r
  <1>5. BlockNew(n, base) = [base |-> base, cap |-> BlockCap(n), used |-> 0, room |-> r]
    BY DEF BlockNew, r
  <1> QED
    BY <1>1, <1>2, <1>4, <1>5 DEF Block

LEMMA AllocNewAligned ==
  ASSUME AlignInv, NEW size \in Nat, NEW align \in Aligns, NEW base \in Bases,
         AllocNew(size, align, base)
  PROVE  AlignInv'
  <1> DEFINE n == Needed(size, align)
             b == BlockNew(n, base)
             c == Bump(b, size, align)
  <1>1. CASE BlockBytes(n) \notin 1..Budget
    BY <1>1, PanicAligned DEF AllocNew
  <1>2. CASE BlockBytes(n) \in 1..Budget
    <2>1. size + align \in Nat /\ SizeMax \in Nat
      BY ArenaAssumption
    <2>2. n \in 0..SizeMax
      BY <2>1, WrapSmall DEF Needed, AlignInv
    <2>3. /\ blocks' = Append(blocks, c) /\ next_size' = Wrap(n * 2)
          /\ allocs' = Returned(Len(blocks) + 1, b, size, align)
      BY <1>2 DEF AllocNew
    <2> HIDE DEF n
    <2>4. b \in Block
      BY <2>2, AnyBlock
    <2>5. next_size' \in 0..SizeMax
      <3>1. n * 2 \in Nat
        BY <2>1, <2>2
      <3> QED
        BY <2>3, <3>1, WrapSmall
    <2> HIDE DEF b
    <2>6. AlignedOffset(b, align) \in Nat
      BY <2>4, OffsetRange
    <2>7. c \in Block /\ c.base = b.base
      BY <2>4, <2>6 DEF Bump, Block
    <2> HIDE DEF c
    <2>8. /\ blocks' \in Seq(Block) /\ Len(blocks') = Len(blocks) + 1 /\ Len(blocks) \in Nat
          /\ blocks'[Len(blocks) + 1] = c
          /\ \A j \in 1..Len(blocks) : blocks'[j] = blocks[j]
      BY <2>3, <2>7 DEF AlignInv
    <2> DEFINE k == Len(blocks) + 1
    <2>9. /\ k \in Nat /\ k \in 1..Len(blocks') /\ Len(blocks') >= Len(blocks)
          /\ blocks'[k].base = b.base
          /\ \A j \in 1..Len(blocks) : blocks'[j].base = blocks[j].base
          /\ allocs' = Returned(k, b, size, align)
      BY <2>3, <2>7, <2>8
    <2> HIDE DEF k
    <2> QED
      BY <2>4, <2>5, <2>8, <2>9, HandOutAligned
  <1> QED
    BY <1>1, <1>2

LEMMA AllocAligned ==
  ASSUME AlignInv, NEW size \in Requests, NEW align \in Aligns, NEW base \in Bases,
         Alloc(size, align, base)
  PROVE  AlignInv'
  <1>1. size \in Nat
    BY RequestNat
  <1>2. CASE Panic
    BY <1>2, PanicAligned
  <1>3. CASE \E k \in 1..Len(blocks) : AllocIn(k, size, align)
    BY <1>1, <1>3, AllocInAligned
  <1>4. CASE AllocNew(size, align, base)
    BY <1>1, <1>4, AllocNewAligned
  <1> QED
    BY <1>2, <1>3, <1>4 DEF Alloc

LEMMA NextAligned ==
  ASSUME AlignInv, [Next]_vars
  PROVE  AlignInv'
  <1>1. ASSUME NEW size \in Sizes, NEW align \in Aligns, NEW base \in Bases,
               Alloc(size, align, base)
        PROVE  AlignInv'
    <2>1. size \in Requests
      BY DEF Requests
    <2> QED
      BY <1>1, <2>1, AllocAligned
  <1>2. ASSUME NEW size \in Sizes, NEW align \in Aligns, NEW base \in Bases, NEW count \in Counts,
               Calloc(count, size, align, base)
        PROVE  AlignInv'
    <2>1. Wrap(count * size) \in Requests
      BY DEF Requests
    <2>2. CASE Panic
      BY <2>2, PanicAligned
    <2>3. CASE Alloc(Wrap(count * size), align, base)
      BY <2>1, <2>3, AllocAligned
    <2> QED
      BY <1>2, <2>2, <2>3 DEF Calloc
  <1>3. CASE Reset
    <2>1. /\ \A k \in 1..Len(blocks) : [blocks[k] EXCEPT !.used = 0] \in Block
          /\ Len(blocks) \in Nat
      <3>1. \A b \in Block : [b EXCEPT !.used = 0] \in Block
        BY DEF Block
      <3> QED
        BY <3>1 DEF AlignInv
    <2>2. blocks' \in Seq(Block)
      BY <1>3, <2>1, IsASeq DEF Reset
    <2>3. Len(allocs') = 0 /\ next_size' = next_size
          /\ allocs' \in Seq([block : Nat, off : Nat, size : Nat, align : Aligns])
      BY <1>3 DEF Reset
    <2> QED
      BY <2>2, <2>3 DEF AlignInv, Aligned
  <1>4. CASE Destroy
    <2>1. /\ blocks' \in Seq(Block) /\ Len(allocs') = 0 /\ next_size' = next_size
          /\ allocs' \in Seq([block : Nat, off : Nat, size : Nat, align : Aligns])
      BY <1>4 DEF Destroy
    <2> QED
      BY <2>1 DEF AlignInv, Aligned
  <1>5. CASE UNCHANGED vars
    BY <1>5 DEF vars, AlignInv, Aligned
  <1> QED
    BY <1>1, <1>2, <1>3, <1>4, <1>5 DEF Next

LEMMA InitAligned == ASSUME Init PROVE AlignInv
  <1>1. PICK size \in BlockSizes, base \in Bases :
          /\ blocks = <<BlockNew(size, base)>> /\ next_size = Wrap(size * 2)
    BY DEF Init
  <1>2. size \in 0..SizeMax /\ size * 2 \in Nat
    BY ArenaAssumption
  <1>3. BlockNew(size, base) \in Block /\ next_size \in 0..SizeMax
    BY <1>1, <1>2, AnyBlock, WrapSmall
  <1> DEFINE b == BlockNew(size, base)
  <1>4. b \in Block /\ blocks = <<b>>
    BY <1>1, <1>3
  <1> HIDE DEF b
  <1>5. blocks \in Seq(Block)
    BY <1>4
  <1>6. Len(allocs) = 0 /\ allocs \in Seq([block : Nat, off : Nat, size : Nat, align : Aligns])
    BY DEF Init
  <1> QED
    BY <1>3, <1>5, <1>6 DEF AlignInv, Aligned

(* Every address arena_alloc and arena_calloc return is a multiple of the   *)
(* alignment asked for, whatever the address of the block, even in calls    *)
(* whose sizes wrap.                                                        *)
THEOREM AlignedCorrect == Spec => []Aligned
  <1>1. AlignInv => Aligned
    BY DEF AlignInv
  <1> QED
    BY <1>1, InitAligned, NextAligned, PTL DEF Spec
=============================================================================
