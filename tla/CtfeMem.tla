------------------------------- MODULE CtfeMem -------------------------------
(***************************************************************************)
(* Escaped pointers in constant evaluation (src/vm/ctfe_mem.c).  A pointer *)
(* of a program that runs at compile time is an address in the compiler's  *)
(* own memory.  When a scope ends its values are disposed of; a pointer    *)
(* that outlived them has to be reported before it is followed, and no     *)
(* other may be.  The code keeps two tables: the blocks values lie in, and *)
(* for each address a program took, the block it was taken in.  Blocks     *)
(* that die are put in quarantine instead of being freed, so that their    *)
(* addresses come up no second time.                                       *)
(*                                                                         *)
(* `objs` and `ptrs` are what is really there: the values with a block,    *)
(* and the pointers the program has made.  The code knows neither.         *)
(***************************************************************************)
EXTENDS Naturals, Sequences, FiniteSets

CONSTANTS
  Cells,          \* the addresses the allocator can give out; NULL is 0
  Sizes,          \* the sizes of values
  MaxEntries,     \* CTFE_MEM_MAX_ENTRIES: 2,000,000
  MaxQuarantine,  \* CTFE_QUARANTINE_MAX: 4,000,000
  MaxObjs,        \* bound: values made in one compilation
  MaxPtrs         \* bound: different pointers made in one compilation

ASSUME CtfeMemAssumption ==
  /\ Cells \subseteq Nat \ {0} /\ Sizes \subseteq Nat \ {0}
  /\ MaxEntries \in Nat /\ MaxQuarantine \in Nat
  /\ MaxObjs \in Nat /\ MaxPtrs \in Nat
  /\ MaxEntries <= MaxQuarantine

VARIABLES
  objs,        \* the values: where they lie, and whether they are still there
  ptrs,        \* the pointers: the value they point into, and how far
  quarantine,  \* the values whose blocks are kept back (g_q)
  blk,         \* the block table, by base address
  prov,        \* the provenance table, by address
  nextId,      \* g_next_id
  disabled     \* g_disabled: a table is full

vars == <<objs, ptrs, quarantine, blk, prov, nextId, disabled>>

Null == 0
Unknown == [owner |-> Null, id |-> 0]

Bytes(base, size) == base..(base + size - 1)
Space(o) == Bytes(objs[o].at, objs[o].size)
Taken == UNION {Space(o) : o \in {x \in DOMAIN objs : objs[x].live} \cup quarantine}
With(f, x, y) == [z \in DOMAIN f \cup {x} |-> IF z = x THEN y ELSE f[z]]

Init ==
  /\ objs = <<>> /\ ptrs = {} /\ quarantine = {}
  /\ blk = <<>> /\ prov = <<>> /\ nextId = 1 /\ disabled = FALSE

-----------------------------------------------------------------------------
(* The tables.                                                             *)

(* blk_alloc: a block that is dead, or was never seen, is a new one *)
Full(table) == Cardinality(DOMAIN table) >= MaxEntries
Registered(base, size) ==
  [size |-> size, alive |-> TRUE,
   id |-> IF base \in DOMAIN blk /\ blk[base].alive THEN blk[base].id ELSE nextId]
OnAlloc(base, size) ==
  IF disabled \/ (base \notin DOMAIN blk /\ Full(blk))
  THEN disabled' = TRUE /\ UNCHANGED <<blk, nextId>>
  ELSE /\ blk' = With(blk, base, Registered(base, size))
       /\ nextId' = IF base \in DOMAIN blk /\ blk[base].alive THEN nextId ELSE nextId + 1
       /\ UNCHANGED disabled

(* mutant: an owner that is no block becomes one, and lives for ever *)
OriginInvented(owner) ==
  IF owner \in DOMAIN blk THEN [owner |-> owner, id |-> blk[owner].id]
  ELSE [owner |-> owner, id |-> 0]

(* what is recorded for an address taken in the block at `owner` *)
Origin(owner) ==
  IF owner \in DOMAIN blk THEN [owner |-> owner, id |-> blk[owner].id] ELSE Unknown

NoteAddr(addr, owner) ==
  IF disabled \/ (addr \notin DOMAIN prov /\ Full(prov))
  THEN disabled' = TRUE /\ UNCHANGED prov
  ELSE prov' = With(prov, addr, Origin(owner)) /\ UNCHANGED disabled

OwnerOf(addr) == IF addr \in DOMAIN prov THEN prov[addr].owner ELSE Null

Within(addr, alive) ==
  \E base \in DOMAIN blk : blk[base].alive = alive /\ addr \in Bytes(base, blk[base].size)

(* ctfe_mem_check: whether following the address is reported *)
Gone(origin) ==
  ~ (origin.owner \in DOMAIN blk /\ blk[origin.owner].alive /\ blk[origin.owner].id = origin.id)
Reported(addr) ==
  /\ ~ disabled
  /\ IF OwnerOf(addr) # Null THEN Gone(prov[addr]) ELSE ~ Within(addr, TRUE) /\ Within(addr, FALSE)

-----------------------------------------------------------------------------
(* Values come and go.                                                     *)

(* value_alloc_data *)
Make(base, size) ==
  /\ Len(objs) < MaxObjs
  /\ Bytes(base, size) \subseteq Cells \ Taken
  /\ objs' = Append(objs, [at |-> base, size |-> size, live |-> TRUE])
  /\ OnAlloc(base, size)
  /\ UNCHANGED <<ptrs, quarantine, prov>>

(* mutant: the block is given back to the allocator *)
KeptBackNever(o) == quarantine

(* ctfe_mem_quarantine *)
KeptBack(o) ==
  IF disabled \/ Cardinality(quarantine) >= MaxQuarantine THEN quarantine ELSE quarantine \cup {o}

(* value_dispose, when a scope ends or a variable gets another value *)
Dispose(o) ==
  /\ objs[o].live
  /\ objs' = [objs EXCEPT ![o].live = FALSE]
  /\ LET base == objs[o].at IN
     blk' = IF base \in DOMAIN blk THEN [blk EXCEPT ![base].alive = FALSE] ELSE blk
  /\ quarantine' = KeptBack(o)
  /\ UNCHANGED <<ptrs, prov, nextId, disabled>>

(* ptr_clone_block copies the parts of a value with closures through blocks *)
(* of their own, which it frees without telling the tables.                 *)
Scratch(base, size) ==
  /\ Bytes(base, size) \subseteq Cells \ Taken
  /\ OnAlloc(base, size)
  /\ UNCHANGED <<objs, ptrs, quarantine, prov>>

(* vm_destroy: the scopes are gone, and all that was kept back is freed *)
Reset ==
  /\ \A o \in DOMAIN objs : ~ objs[o].live
  /\ objs' = <<>> /\ ptrs' = {} /\ quarantine' = {}
  /\ blk' = <<>> /\ prov' = <<>> /\ nextId' = 1 /\ disabled' = FALSE

-----------------------------------------------------------------------------
(* Pointers.  One into a part of a value is a pointer to the value, `off`   *)
(* behind its start; types keep it inside.                                  *)

At(p) == objs[p.obj].at + p.off
Inside(o, off) == off < objs[o].size
Gets(o, off) ==
  /\ ptrs' = ptrs \cup {[obj |-> o, off |-> off]}
  /\ Cardinality(ptrs') <= MaxPtrs
Kept == UNCHANGED <<objs, quarantine, blk, nextId>>

(* ctfe_addr_of: `x.&` and `x.a[i].&` *)
AddrOf(o, off) ==
  /\ objs[o].live /\ Inside(o, off)
  /\ NoteAddr(objs[o].at + off, objs[o].at)
  /\ Gets(o, off) /\ Kept

(* ctfe_slice_expr of an array that is a value of its own or lies `part`   *)
(* behind the start of one: the address is tested before it is recorded    *)
SliceArray(o, part, off) ==
  /\ objs[o].live /\ part <= off /\ Inside(o, off)
  /\ ~ Reported(objs[o].at + off)
  /\ NoteAddr(objs[o].at + off, objs[o].at + part)
  /\ Gets(o, off) /\ Kept

(* data() of an array: what is known of the address is recorded again *)
DataArray(o, part) ==
  /\ objs[o].live /\ Inside(o, part)
  /\ NoteAddr(objs[o].at + part, OwnerOf(objs[o].at + part))
  /\ Gets(o, part) /\ Kept

(* lv_owner: the block an address was taken in, or the address *)
Base(addr) == IF OwnerOf(addr) # Null THEN OwnerOf(addr) ELSE addr

(* `p.*.a.&`, `p.a.&` and `s[i].&`: through a pointer or a slice that passes *)
AddrThrough(p, off) ==
  /\ p.off <= off /\ Inside(p.obj, off)
  /\ ~ Reported(At(p))
  /\ NoteAddr(objs[p.obj].at + off, Base(At(p)))
  /\ Gets(p.obj, off) /\ Kept

(* ctfe_slice_expr of a slice *)
SliceSlice(p, off) ==
  /\ ~ Reported(objs[p.obj].at + off)
  /\ AddrThrough(p, off)

(* ctfe_make_slice, and data() of a slice, which tests nothing *)
MakeSlice(p) ==
  /\ ~ Reported(At(p))
  /\ NoteAddr(At(p), OwnerOf(At(p)))
  /\ UNCHANGED ptrs /\ Kept
DataSlice(p) ==
  /\ NoteAddr(At(p), OwnerOf(At(p)))
  /\ UNCHANGED ptrs /\ Kept

Offsets == UNION {0..(size - 1) : size \in Sizes}

Lives == \E base \in Cells, size \in Sizes : Make(base, size) \/ Scratch(base, size)
Dies  == \E o \in DOMAIN objs : Dispose(o)
Points ==
  \E o \in DOMAIN objs, off \in Offsets :
    \/ AddrOf(o, off)
    \/ DataArray(o, off)
    \/ \E part \in Offsets : SliceArray(o, part, off)
Follows ==
  \E p \in ptrs :
    \/ MakeSlice(p)
    \/ DataSlice(p)
    \/ \E off \in Offsets : AddrThrough(p, off) \/ SliceSlice(p, off)

Next == Lives \/ Dies \/ Points \/ Follows \/ Reset

Spec == Init /\ [][Next]_vars

-----------------------------------------------------------------------------
TypeOK ==
  /\ objs \in Seq([at : Cells, size : Sizes, live : BOOLEAN])
  /\ \A p \in ptrs : p.obj \in DOMAIN objs /\ p.off \in Nat /\ Inside(p.obj, p.off)
  /\ quarantine \subseteq DOMAIN objs
  /\ blk \in [DOMAIN blk -> [size : Sizes, alive : BOOLEAN, id : Nat]]
  /\ prov \in [DOMAIN prov -> [owner : Nat, id : Nat]]
  /\ nextId \in Nat /\ disabled \in BOOLEAN

(* A pointer to a value that is still there is never reported, whatever was *)
(* made, copied and disposed of before it: "no false alarm" (ctfe_mem.h).   *)
LiveAccepted ==
  \A p \in ptrs : objs[p.obj].live => ~ Reported(At(p))

(* A pointer whose value is gone is reported when it is followed, as long   *)
(* as no table was full.  The exceptions come from the scratch blocks of    *)
(* clones, which the block table goes on to call alive: an address recorded *)
(* as taken in one, and one of which nothing is recorded but that lies in   *)
(* one.                                                                     *)
Ghost(base) ==
  /\ base \in DOMAIN blk /\ blk[base].alive
  /\ \A o \in DOMAIN objs : objs[o].at # base \/ ~ objs[o].live
GhostAt(addr) == \E base \in DOMAIN blk : Ghost(base) /\ addr \in Bytes(base, blk[base].size)
StaleReported ==
  \A p \in ptrs :
    \/ objs[p.obj].live \/ disabled
    \/ Reported(At(p))
    \/ Ghost(OwnerOf(At(p)))
    \/ OwnerOf(At(p)) = Null /\ GhostAt(At(p))
=============================================================================
