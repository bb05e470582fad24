------------------------------- MODULE Arena -------------------------------
(***************************************************************************)
(* The bump-pointer arena of src/core/arena.c, from which AST nodes and    *)
(* types are allocated.  The arena keeps a list of blocks; a request takes *)
(* the first block, newest first, with room behind its used part, or a new *)
(* block at least twice as large as the last one.  Nothing is freed before *)
(* arena_reset or arena_destroy.                                           *)
(*                                                                         *)
(* Sizes are size_t values whose arithmetic wraps; addresses are plain     *)
(* numbers, since no block of memory ends near the top of the address      *)
(* space.                                                                  *)
(***************************************************************************)
EXTENDS Naturals, Sequences

CONSTANTS
  SizeMax,     \* SIZE_MAX
  BlockHeader, \* sizeof(arena_block_t)
  Budget,      \* largest request the backing allocator grants (it panics above)
  Bases,       \* addresses of block_data that the backing allocator can produce
  BlockSizes,  \* block_size arguments of arena_new
  Sizes,       \* sizes callers ask arena_alloc for
  Aligns,      \* alignments, powers of two
  Counts,      \* counts given to arena_calloc
  MaxAllocs    \* bound on the allocations between two resets

ASSUME ArenaAssumption ==
  /\ SizeMax \in Nat /\ BlockHeader \in 1..SizeMax /\ Budget \in 1..SizeMax
  /\ Bases \subseteq Nat
  /\ BlockSizes \subseteq 1..Budget
  /\ Sizes \subseteq 0..SizeMax /\ Counts \subseteq 0..SizeMax
  /\ Aligns \subseteq 1..SizeMax
  /\ MaxAllocs \in Nat

VARIABLES
  blocks,      \* blocks in order of creation: the list of the code, reversed
  next_size, total_used,
  allocs,      \* history: what arena_alloc returned since the last reset
  status       \* "running", "panic" (the process has ended) or "destroyed"

vars == <<blocks, next_size, total_used, allocs, status>>

Wrap(x) == x % (SizeMax + 1)

(* base: address of block_data; room: bytes really behind it *)
Block == [base : Nat, cap : 0..SizeMax, room : Nat, used : Nat]

-----------------------------------------------------------------------------
(* align_up(addr) - addr, for an alignment that is a power of two *)
Pad(addr, align) == (align - (addr % align)) % align

(* mutant: the offset is aligned and not the address *)
AlignedOffsetRelative(b, align) == b.used + Pad(b.used, align)

(* aligned_offset: align_up(base + used) - base *)
AlignedOffset(b, align) == b.used + Pad(b.base + b.used, align)

(* the two tests of the search loop *)
Fits(b, size, align) ==
  /\ AlignedOffset(b, align) < b.cap
  /\ b.cap - AlignedOffset(b, align) >= size

(* mutant: the header is taken out of the capacity *)
BlockBytesNoHeader(min) == IF min < BlockHeader THEN BlockHeader ELSE min

(* block_new: the header is added to the capacity in size_t, and what the   *)
(* allocator hands out may be less than cap once that wraps                 *)
BlockCap(min)   == IF min < BlockHeader THEN BlockHeader ELSE min
BlockBytes(min) == Wrap(BlockHeader + BlockCap(min))
BlockNew(min, base) ==
  [base |-> base, cap |-> BlockCap(min), used |-> 0,
   room |-> IF BlockBytes(min) < BlockHeader THEN 0 ELSE BlockBytes(min) - BlockHeader]

Panic == status' = "panic" /\ UNCHANGED <<blocks, next_size, total_used, allocs>>

(* mutant: the bump forgets the padding in front of the allocation *)
BumpUnpadded(b, size, align) == [b EXCEPT !.used = b.used + size]

Bump(b, size, align) == [b EXCEPT !.used = AlignedOffset(b, align) + size]

Returned(k, b, size, align) ==
  Append(allocs, [block |-> k, off |-> AlignedOffset(b, align), size |-> size, align |-> align])

Needed(size, align) ==
  IF Wrap(size + align) < next_size THEN next_size ELSE Wrap(size + align)

(* arena_alloc finds room in block k *)
AllocIn(k, size, align) ==
  /\ Fits(blocks[k], size, align)
  /\ \A j \in 1..Len(blocks) : j > k => ~Fits(blocks[j], size, align)
  /\ blocks' = [blocks EXCEPT ![k] = Bump(blocks[k], size, align)]
  /\ total_used' = Wrap(total_used + size)
  /\ allocs' = Returned(k, blocks[k], size, align)
  /\ UNCHANGED <<next_size, status>>

(* arena_alloc needs a new block *)
AllocNew(size, align, base) ==
  /\ \A j \in 1..Len(blocks) : ~Fits(blocks[j], size, align)
  /\ IF BlockBytes(Needed(size, align)) \notin 1..Budget THEN Panic
     ELSE LET b == BlockNew(Needed(size, align), base)
          IN /\ blocks' = Append(blocks, Bump(b, size, align))
             /\ next_size' = Wrap(Needed(size, align) * 2)
             /\ total_used' = Wrap(total_used + size)
             /\ allocs' = Returned(Len(blocks) + 1, b, size, align)
             /\ UNCHANGED status

Alloc(size, align, base) ==
  /\ status = "running" /\ Len(allocs) < MaxAllocs
  /\ IF size = 0 THEN Panic
     ELSE \/ \E k \in 1..Len(blocks) : AllocIn(k, size, align)
          \/ AllocNew(size, align, base)

(* arena_calloc; the memset after it stays inside what arena_alloc returned *)
Calloc(count, elem, align, base) ==
  /\ status = "running"
  /\ IF count = 0 \/ elem = 0 \/ Wrap(count * elem) \div elem # count THEN Panic
     ELSE Alloc(Wrap(count * elem), align, base)

(* arena_reset *)
Reset ==
  /\ status = "running"
  /\ blocks' = [k \in 1..Len(blocks) |-> [blocks[k] EXCEPT !.used = 0]]
  /\ total_used' = 0
  /\ allocs' = <<>>
  /\ UNCHANGED <<next_size, status>>

(* arena_destroy *)
Destroy ==
  /\ status = "running"
  /\ blocks' = <<>> /\ allocs' = <<>>
  /\ status' = "destroyed"
  /\ UNCHANGED <<next_size, total_used>>

(* arena_new *)
Init ==
  /\ \E size \in BlockSizes, base \in Bases :
       /\ BlockBytes(size) \in 1..Budget
       /\ blocks = <<BlockNew(size, base)>>
       /\ next_size = Wrap(size * 2)
  /\ total_used = 0 /\ allocs = <<>> /\ status = "running"

Next ==
  \/ \E size \in Sizes, align \in Aligns, base \in Bases :
       \/ Alloc(size, align, base)
       \/ \E count \in Counts : Calloc(count, size, align, base)
  \/ Reset
  \/ Destroy

Spec == Init /\ [][Next]_vars

-----------------------------------------------------------------------------
(* Properties *)

(* Blocks, sizes and history have their types; no block is filled above the *)
(* capacity it was given, so cap - aligned_offset never wraps.              *)
TypeOK ==
  /\ blocks \in Seq(Block)
  /\ \A k \in 1..Len(blocks) : blocks[k].used <= blocks[k].cap
  /\ next_size \in 0..SizeMax /\ total_used \in 0..SizeMax
  /\ allocs \in Seq([block : Nat, off : Nat, size : Nat, align : Aligns])
  /\ status \in {"running", "panic", "destroyed"}

(* Everything arena_alloc returned since the last reset lies inside the     *)
(* memory that its block really has.                                        *)
InBounds ==
  \A i \in 1..Len(allocs) :
    /\ allocs[i].block \in 1..Len(blocks)
    /\ allocs[i].off + allocs[i].size <= blocks[allocs[i].block].room

(* No two live allocations share a byte, whichever blocks the search and    *)
(* the alignment padding led them to and however often the arena was reset. *)
Disjoint ==
  \A i, j \in 1..Len(allocs) :
    i < j /\ allocs[i].block = allocs[j].block
      => allocs[i].off + allocs[i].size <= allocs[j].off

(* The address returned is a multiple of the alignment, whatever the base   *)
(* of the block.                                                            *)
Aligned ==
  \A i \in 1..Len(allocs) :
    (blocks[allocs[i].block].base + allocs[i].off) % allocs[i].align = 0
=============================================================================
