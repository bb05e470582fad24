---------------------------- MODULE CtfeMemProofs ----------------------------
(***************************************************************************)
(* Constant evaluation reports the pointers that are stale and no others,  *)
(* for any memory, sizes and limits with CTFE_MEM_MAX_ENTRIES not above    *)
(* CTFE_QUARANTINE_MAX.                                                    *)
(***************************************************************************)
EXTENDS CtfeMem, FiniteSetTheorems, SequenceTheorems, TLAPS

(* The inductive invariant.  The verdict depends on the tables alone, so    *)
(* they have to be right about what is there: every value has its entry     *)
(* (Tracked), a dead entry is that of a value (Fresh), and an address and   *)
(* the block it was taken in lie in one value (Origins).  This is kept up   *)
(* only because no address comes up twice: all that died is in quarantine   *)
(* (KeptDead), so that no two values ever overlap (Apart).  The quarantine  *)
(* has room because each block in it has an entry of its own.               *)
Tracked ==
  \A o \in DOMAIN objs :
    /\ objs[o].at \in DOMAIN blk
    /\ blk[objs[o].at].size = objs[o].size /\ blk[objs[o].at].alive = objs[o].live
KeptDead == \A o \in DOMAIN objs : ~ objs[o].live => o \in quarantine
Apart ==
  \A o1 \in DOMAIN objs, o2 \in DOMAIN objs :
    \A a \in Space(o1) : a \in Space(o2) => o1 = o2
Fresh ==
  \A b \in DOMAIN blk : blk[b].alive \/ \E o \in DOMAIN objs : objs[o].at = b
Origins ==
  \A a \in DOMAIN prov :
    prov[a].owner # Null =>
      /\ prov[a].owner \in DOMAIN blk /\ prov[a].id = blk[prov[a].owner].id
      /\ \E o \in DOMAIN objs : a \in Space(o) /\ prov[a].owner \in Space(o)
Exact == Tracked /\ KeptDead /\ Apart /\ Fresh /\ Origins
Bounded ==
  /\ DOMAIN blk \subseteq Cells /\ IsFiniteSet(DOMAIN blk) /\ Cardinality(DOMAIN blk) <= MaxEntries
QuarantineDead == \A o \in quarantine : ~ objs[o].live
Inv == TypeOK /\ Bounded /\ QuarantineDead /\ (~ disabled => Exact)

-----------------------------------------------------------------------------
(* Where values lie. *)
LEMMA InBytes ==
  ASSUME NEW b \in Nat, NEW n \in Nat, NEW a
  PROVE  a \in Bytes(b, n) <=> a \in Nat /\ b <= a /\ a < b + n
  BY DEF Bytes

LEMMA SpaceOf ==
  ASSUME TypeOK, NEW o \in DOMAIN objs
  PROVE  /\ objs[o] \in [at : Cells, size : Sizes, live : BOOLEAN]
         /\ objs[o].at \in Cells /\ objs[o].at \in Nat \ {0} /\ objs[o].size \in Nat \ {0}
         /\ objs[o].size \in Sizes /\ objs[o].live \in BOOLEAN
         /\ \A a : a \in Space(o) <=> a \in Nat /\ objs[o].at <= a /\ a < objs[o].at + objs[o].size
         /\ \A k \in Nat : k < objs[o].size => objs[o].at + k \in Space(o)
         /\ objs[o].at \in Space(o)
  <1>1. objs[o] \in [at : Cells, size : Sizes, live : BOOLEAN]
    <2> DEFINE Obj == [at : Cells, size : Sizes, live : BOOLEAN]
    <2>1. objs \in Seq(Obj)
      BY DEF TypeOK
    <2> HIDE DEF Obj
    <2>2. DOMAIN objs = 1..Len(objs) /\ o \in 1..Len(objs)
      BY <2>1
    <2>3. objs[o] \in Obj
      BY <2>1, <2>2, ElementOfSeq
    <2> QED
      BY <2>3 DEF Obj
  <1>2. objs[o].at \in Nat \ {0} /\ objs[o].size \in Nat \ {0}
    BY <1>1, CtfeMemAssumption
  <1>3. \A a : a \in Space(o) <=> a \in Nat /\ objs[o].at <= a /\ a < objs[o].at + objs[o].size
    BY <1>2, InBytes DEF Space
  <1> QED
    BY <1>1, <1>2, <1>3

(* While no table was full, every value keeps its cells. *)
LEMMA AllTaken ==
  ASSUME Inv, ~ disabled, NEW o \in DOMAIN objs, NEW a \in Space(o)
  PROVE  a \in Taken
  BY DEF Taken, Inv, Exact, KeptDead

(* The quarantine has room for one more. *)
LEMMA RoomLeft ==
  ASSUME Inv, ~ disabled, NEW o \in DOMAIN objs, objs[o].live
  PROVE  ~ Cardinality(quarantine) >= MaxQuarantine
  <1> DEFINE S == quarantine \cup {o}
             f == [x \in S |-> objs[x].at]
  <1>1. S \subseteq DOMAIN objs /\ o \notin quarantine
    BY DEF Inv, TypeOK, QuarantineDead
  <1>2. f \in [S -> DOMAIN blk]
    BY <1>1 DEF Inv, Exact, Tracked
  <1>3. ASSUME NEW x \in S, NEW y \in S, f[x] = f[y]
        PROVE  x = y
    <2>1. objs[x].at \in Space(x) /\ objs[y].at \in Space(y)
      BY <1>1, SpaceOf DEF Inv
    <2> QED
      BY <1>1, <1>3, <2>1 DEF Inv, Exact, Apart
  <1>4. f \in Injection(S, DOMAIN blk)
    BY <1>2, <1>3 DEF Injection, IsInjective
  <1>5. IsFiniteSet(S) /\ Cardinality(S) <= Cardinality(DOMAIN blk)
    <2> HIDE DEF S, f
    <2> QED
      BY <1>4, FS_Injection DEF Inv, Bounded
  <1>6. IsFiniteSet(quarantine)
    BY <1>5, FS_Subset
  <1>7. Cardinality(S) = Cardinality(quarantine) + 1
    BY <1>1, <1>6, FS_AddElement
  <1>8. Cardinality(quarantine) \in Nat /\ Cardinality(DOMAIN blk) \in Nat
    BY <1>6, FS_CardinalityType DEF Inv, Bounded
  <1> QED
    BY <1>5, <1>7, <1>8, CtfeMemAssumption DEF Inv, Bounded

(* What With adds to a table. *)
LEMMA WithAt ==
  ASSUME NEW f, NEW x, NEW y
  PROVE  /\ DOMAIN With(f, x, y) = DOMAIN f \cup {x} /\ With(f, x, y)[x] = y
         /\ \A z \in DOMAIN f : z # x => With(f, x, y)[z] = f[z]
  BY DEF With

(* A pointer lies in its value. *)
LEMMA PtrInside ==
  ASSUME TypeOK, NEW p \in ptrs
  PROVE  p.obj \in DOMAIN objs /\ p.off \in Nat /\ At(p) \in Space(p.obj)
  <1>1. p.obj \in DOMAIN objs /\ p.off \in Nat /\ p.off < objs[p.obj].size
    BY DEF TypeOK, Inside
  <1> QED
    BY <1>1, SpaceOf DEF At

(* No address is NULL, and NULL is the base of no block. *)
LEMMA NullApart ==
  ASSUME Inv
  PROVE  Null \notin DOMAIN blk
  BY CtfeMemAssumption DEF Inv, Bounded, Null

-----------------------------------------------------------------------------
(* What is recorded for an address keeps it in the value it lies in.        *)
LEMMA NoteKeeps ==
  ASSUME Inv, NEW o \in DOMAIN objs, NEW addr \in Space(o), NEW owner \in Nat,
         ~ disabled => (owner \in DOMAIN blk => owner \in Space(o)),
         NoteAddr(addr, owner), UNCHANGED <<objs, quarantine, blk, nextId>>,
         \A p \in ptrs' : p.obj \in DOMAIN objs /\ p.off \in Nat /\ Inside(p.obj, p.off)
  PROVE  Inv'
  <1>1. disabled' \in BOOLEAN /\ (~ disabled' => ~ disabled)
    BY DEF NoteAddr, Inv, TypeOK
  <1>2. Origin(owner) \in [owner : Nat, id : Nat]
    BY DEF Origin, Unknown, Null, Inv, TypeOK
  <1>3. prov' \in [DOMAIN prov' -> [owner : Nat, id : Nat]]
    <2>1. prov \in [DOMAIN prov -> [owner : Nat, id : Nat]]
      BY DEF Inv, TypeOK
    <2>2. With(prov, addr, Origin(owner)) \in
            [DOMAIN prov \cup {addr} -> [owner : Nat, id : Nat]]
      BY <1>2, <2>1 DEF With
    <2> QED
      BY <2>1, <2>2 DEF NoteAddr
  <1>4. TypeOK'
    <2>1. objs \in Seq([at : Cells, size : Sizes, live : BOOLEAN]) /\ quarantine \subseteq DOMAIN objs
          /\ blk \in [DOMAIN blk -> [size : Sizes, alive : BOOLEAN, id : Nat]] /\ nextId \in Nat
      BY DEF Inv, TypeOK
    <2> QED
      BY <1>1, <1>3, <2>1 DEF TypeOK, Inside
  <1>5. ASSUME ~ disabled'
        PROVE  Exact'
    <2>1. prov' = With(prov, addr, Origin(owner)) /\ ~ disabled /\ Exact
      BY <1>1, <1>5 DEF NoteAddr, Inv
    <2>2. Tracked' /\ KeptDead' /\ Apart' /\ Fresh'
      BY <2>1 DEF Exact, Tracked, KeptDead, Apart, Fresh, Space
    <2>3. Origins'
      <3>1. \A a \in DOMAIN prov' : a # addr => a \in DOMAIN prov /\ prov'[a] = prov[a]
        BY <2>1 DEF With
      <3>2. prov'[addr] = Origin(owner)
        BY <2>1 DEF With
      <3>3. prov'[addr].owner # Null =>
              /\ owner \in DOMAIN blk /\ prov'[addr].owner = owner /\ prov'[addr].id = blk[owner].id
        BY <3>2 DEF Origin, Unknown
      <3>4. Origins
        BY <2>1 DEF Exact
      <3> QED
        BY <1>1, <1>5, <3>1, <3>3, <3>4 DEF Origins, Space
    <2> QED
      BY <2>2, <2>3 DEF Exact
  <1>6. Bounded' /\ QuarantineDead'
    BY DEF Inv, Bounded, QuarantineDead
  <1> QED
    BY <1>4, <1>5, <1>6 DEF Inv

-----------------------------------------------------------------------------
(* A block that is registered overlaps no value, so that its entry is new   *)
(* or that of a scratch block.                                              *)
LEMMA Registers ==
  ASSUME Inv, NEW base \in Cells, NEW size \in Sizes,
         Bytes(base, size) \subseteq Cells \ Taken, OnAlloc(base, size)
  PROVE  /\ Bounded' /\ disabled' \in BOOLEAN /\ nextId' \in Nat
         /\ blk' \in [DOMAIN blk' -> [size : Sizes, alive : BOOLEAN, id : Nat]]
         /\ ~ disabled' =>
              /\ ~ disabled
              /\ DOMAIN blk' = DOMAIN blk \cup {base}
              /\ blk'[base].size = size /\ blk'[base].alive = TRUE
              /\ \A b \in DOMAIN blk : b # base => blk'[b] = blk[b]
              /\ base \in DOMAIN blk => blk'[base].id = blk[base].id
              /\ base \in Bytes(base, size)
              /\ \A o \in DOMAIN objs : \A a \in Space(o) : a \notin Bytes(base, size)
  <1> DEFINE Entry == [size : Sizes, alive : BOOLEAN, id : Nat]
  <1>1. /\ blk \in [DOMAIN blk -> Entry] /\ nextId \in Nat /\ disabled \in BOOLEAN
    BY DEF Inv, TypeOK
  <1>2. Registered(base, size) \in Entry
    <2>1. base \in DOMAIN blk => blk[base].id \in Nat
      BY <1>1
    <2> QED
      BY <1>1, <2>1 DEF Registered
  <1>3. With(blk, base, Registered(base, size)) \in [DOMAIN blk \cup {base} -> Entry]
    BY <1>1, <1>2 DEF With
  <1>4. CASE disabled \/ (base \notin DOMAIN blk /\ Full(blk))
    <2>1. disabled' = TRUE /\ blk' = blk /\ nextId' = nextId
      BY <1>4 DEF OnAlloc
    <2> QED
      BY <1>1, <2>1 DEF Bounded, Inv
  <1>5. CASE ~ (disabled \/ (base \notin DOMAIN blk /\ Full(blk)))
    <2>1. /\ blk' = With(blk, base, Registered(base, size)) /\ disabled' = disabled
          /\ nextId' \in {nextId, nextId + 1} /\ ~ disabled
      BY <1>5 DEF OnAlloc
    <2>2. DOMAIN blk' = DOMAIN blk \cup {base}
      BY <1>3, <2>1
    <2>3. blk'[base] = Registered(base, size) /\ \A b \in DOMAIN blk : b # base => blk'[b] = blk[b]
      BY <2>1 DEF With
    <2>4. Bounded'
      <3>1. IsFiniteSet(DOMAIN blk) /\ Cardinality(DOMAIN blk) <= MaxEntries
        BY DEF Inv, Bounded
      <3>2. IsFiniteSet(DOMAIN blk \cup {base})
            /\ Cardinality(DOMAIN blk \cup {base}) =
                 IF base \in DOMAIN blk THEN Cardinality(DOMAIN blk) ELSE Cardinality(DOMAIN blk) + 1
        BY <3>1, FS_AddElement
      <3>3. Cardinality(DOMAIN blk) \in Nat
        BY <3>1, FS_CardinalityType
      <3>4. base \notin DOMAIN blk => Cardinality(DOMAIN blk) < MaxEntries
        BY <1>5, <3>3, CtfeMemAssumption DEF Full
      <3>5. Cardinality(DOMAIN blk \cup {base}) <= MaxEntries
        BY <3>1, <3>2, <3>3, <3>4, CtfeMemAssumption
      <3> QED
        BY <2>2, <3>2, <3>5 DEF Bounded, Inv
    <2>5. base \in Bytes(base, size)
      <3>1. base \in Nat /\ size \in Nat \ {0}
        BY CtfeMemAssumption
      <3> QED
        BY <3>1, InBytes
    <2>6. \A o \in DOMAIN objs : \A a \in Space(o) : a \notin Bytes(base, size)
      BY <2>1, AllTaken
    <2>7. base \in DOMAIN blk => blk[base].alive
      <3> SUFFICES ASSUME base \in DOMAIN blk, ~ blk[base].alive
                   PROVE  FALSE
        OBVIOUS
      <3>1. PICK o \in DOMAIN objs : objs[o].at = base
        BY <2>1 DEF Inv, Exact, Fresh
      <3> QED
        BY <2>5, <2>6, <3>1, SpaceOf DEF Inv
    <2>8. /\ blk'[base].size = size /\ blk'[base].alive = TRUE
          /\ base \in DOMAIN blk => blk'[base].id = blk[base].id
      BY <2>3, <2>7 DEF Registered
    <2>9. blk' \in [DOMAIN blk' -> Entry]
      BY <1>3, <2>1, <2>2
    <2> QED
      BY <1>1, <2>1, <2>2, <2>3, <2>4, <2>5, <2>6, <2>8, <2>9
  <1> QED
    BY <1>4, <1>5

LEMMA ScratchKeeps ==
  ASSUME Inv, NEW base \in Cells, NEW size \in Sizes, Scratch(base, size)
  PROVE  Inv'
  <1>1. /\ Bytes(base, size) \subseteq Cells \ Taken /\ OnAlloc(base, size)
        /\ objs' = objs /\ ptrs' = ptrs /\ quarantine' = quarantine /\ prov' = prov
    BY DEF Scratch
  <1>2. TypeOK'
    BY <1>1, Registers DEF Inv, TypeOK, Inside
  <1>3. Bounded' /\ QuarantineDead'
    BY <1>1, Registers DEF Inv, QuarantineDead
  <1>4. ASSUME ~ disabled'
        PROVE  Exact'
    <2>1. /\ ~ disabled /\ DOMAIN blk' = DOMAIN blk \cup {base} /\ blk'[base].alive
          /\ \A b \in DOMAIN blk : b # base => blk'[b] = blk[b]
          /\ \A o \in DOMAIN objs : base \notin Space(o)
      BY <1>1, <1>4, Registers
    <2>2. Exact /\ \A o \in DOMAIN objs : objs[o].at \in Space(o)
      BY <2>1, SpaceOf DEF Inv
    <2>3. Tracked' /\ KeptDead' /\ Apart' /\ Fresh'
      BY <1>1, <2>1, <2>2 DEF Exact, Tracked, KeptDead, Apart, Fresh, Space
    <2>4. Origins'
      BY <1>1, <2>1, <2>2 DEF Exact, Origins, Space
    <2> QED
      BY <2>3, <2>4 DEF Exact
  <1> QED
    BY <1>2, <1>3, <1>4 DEF Inv

LEMMA MakeKeeps ==
  ASSUME Inv, NEW base \in Cells, NEW size \in Sizes, Make(base, size)
  PROVE  Inv'
  <1> DEFINE Obj == [at : Cells, size : Sizes, live : BOOLEAN]
             new == [at |-> base, size |-> size, live |-> TRUE]
  <1> PICK n : n = Len(objs) + 1
    OBVIOUS
  <1>1. /\ Bytes(base, size) \subseteq Cells \ Taken /\ OnAlloc(base, size)
        /\ objs' = Append(objs, new) /\ ptrs' = ptrs /\ quarantine' = quarantine /\ prov' = prov
    BY DEF Make
  <1>2. objs \in Seq(Obj) /\ new \in Obj
    BY DEF Inv, TypeOK
  <1>3. new.at = base /\ new.size = size /\ new.live = TRUE
    OBVIOUS
  <1> HIDE DEF new, Obj
  <1>4. /\ objs' \in Seq(Obj)
        /\ DOMAIN objs' = DOMAIN objs \cup {n} /\ n \notin DOMAIN objs
        /\ objs'[n] = new /\ \A o \in DOMAIN objs : objs'[o] = objs[o]
    <2>1. Len(objs) \in Nat /\ DOMAIN objs = 1..Len(objs)
      BY <1>2
    <2> QED
      BY <1>1, <1>2, <2>1, AppendProperties
  <1>5. TypeOK'
    BY <1>1, <1>4, Registers DEF Inv, TypeOK, Inside, Obj
  <1>6. Bounded' /\ QuarantineDead'
    BY <1>1, <1>4, Registers DEF Inv, QuarantineDead, TypeOK
  <1>7. ASSUME ~ disabled'
        PROVE  Exact'
    <2>1. /\ ~ disabled /\ DOMAIN blk' = DOMAIN blk \cup {base}
          /\ blk'[base].alive = TRUE /\ blk'[base].size = size
          /\ \A b \in DOMAIN blk : b # base => blk'[b] = blk[b]
          /\ base \in DOMAIN blk => blk'[base].id = blk[base].id
      BY <1>1, <1>7, Registers
    <2>2. \A o \in DOMAIN objs : \A a \in Space(o) : a \notin Bytes(base, size)
      BY <1>1, <1>7, Registers
    <2>3. base \in Bytes(base, size)
      BY <1>1, <1>7, Registers
    <2>4. Exact
      BY <2>1 DEF Inv
    <2>5. \A o \in DOMAIN objs : objs[o].at \in Space(o)
      BY SpaceOf DEF Inv
    <2>6. \A o \in DOMAIN objs : objs[o].at # base
      BY <2>2, <2>3, <2>5
    <2>7. /\ n \in DOMAIN objs' /\ Space(n)' = Bytes(base, size)
          /\ \A o \in DOMAIN objs : Space(o)' = Space(o)
      <3>1. Space(n)' = Bytes(objs'[n].at, objs'[n].size)
        BY DEF Space, Bytes
      <3>2. \A o \in DOMAIN objs : Space(o)' = Bytes(objs'[o].at, objs'[o].size)
        BY DEF Space, Bytes
      <3> QED
        BY <1>3, <1>4, <3>1, <3>2 DEF Space
    <2>8. Tracked'
      <3> SUFFICES ASSUME NEW o \in DOMAIN objs'
                   PROVE  /\ objs'[o].at \in DOMAIN blk' /\ blk'[objs'[o].at].size = objs'[o].size
                          /\ blk'[objs'[o].at].alive = objs'[o].live
        BY DEF Tracked
      <3>1. CASE o = n
        BY <1>3, <1>4, <2>1, <3>1
      <3>2. CASE o # n
        BY <1>4, <2>1, <2>4, <2>6, <3>2 DEF Exact, Tracked
      <3> QED
        BY <3>1, <3>2
    <2>9. KeptDead'
      BY <1>1, <1>3, <1>4, <2>4 DEF Exact, KeptDead
    <2>10. Fresh'
      BY <1>3, <1>4, <2>1, <2>4 DEF Exact, Fresh
    <2>11. Apart'
      <3> SUFFICES ASSUME NEW o1 \in DOMAIN objs', NEW o2 \in DOMAIN objs', NEW a,
                          a \in Space(o1)', a \in Space(o2)'
                   PROVE  o1 = o2
        BY DEF Apart
      <3> QED
        BY <1>4, <2>2, <2>4, <2>7 DEF Exact, Apart
    <2>12. Origins'
      <3> SUFFICES ASSUME NEW a \in DOMAIN prov', prov'[a].owner # Null
                   PROVE  /\ prov'[a].owner \in DOMAIN blk' /\ prov'[a].id = blk'[prov'[a].owner].id
                          /\ \E o \in DOMAIN objs' : a \in Space(o)' /\ prov'[a].owner \in Space(o)'
        BY DEF Origins
      <3>1. /\ prov[a].owner \in DOMAIN blk /\ prov[a].id = blk[prov[a].owner].id
            /\ \E o \in DOMAIN objs : a \in Space(o) /\ prov[a].owner \in Space(o)
        BY <1>1, <2>4 DEF Exact, Origins
      <3> QED
        BY <1>1, <1>4, <2>1, <2>7, <3>1
    <2> QED
      BY <2>8, <2>9, <2>10, <2>11, <2>12 DEF Exact
  <1> QED
    BY <1>5, <1>6, <1>7 DEF Inv

LEMMA DisposeKeeps ==
  ASSUME Inv, NEW o \in DOMAIN objs, Dispose(o)
  PROVE  Inv'
  <1> DEFINE Obj == [at : Cells, size : Sizes, live : BOOLEAN]
  <1> PICK base : base = objs[o].at
    OBVIOUS
  <1>1. /\ objs[o].live /\ objs' = [objs EXCEPT ![o].live = FALSE] /\ quarantine' = KeptBack(o)
        /\ blk' = IF base \in DOMAIN blk THEN [blk EXCEPT ![base].alive = FALSE] ELSE blk
        /\ ptrs' = ptrs /\ prov' = prov /\ nextId' = nextId /\ disabled' = disabled
    BY DEF Dispose
  <1>2. /\ DOMAIN objs' = DOMAIN objs /\ ~ objs'[o].live
        /\ \A x \in DOMAIN objs : /\ objs'[x].at = objs[x].at /\ objs'[x].size = objs[x].size
                                  /\ x # o => objs'[x].live = objs[x].live
    <2>1. objs[o] \in Obj
      BY SpaceOf DEF Inv
    <2> QED
      BY <1>1, <2>1
  <1>3. objs' \in Seq(Obj)
    <2>1. objs \in Seq(Obj) /\ [objs[o] EXCEPT !.live = FALSE] \in Obj
      BY SpaceOf DEF Inv, TypeOK
    <2> HIDE DEF Obj
    <2>2. objs' = [objs EXCEPT ![o] = [objs[o] EXCEPT !.live = FALSE]]
      BY <1>1
    <2> QED
      BY <2>1, <2>2, ExceptSeq
  <1>4. /\ DOMAIN blk' = DOMAIN blk
        /\ base \in DOMAIN blk => ~ blk'[base].alive
        /\ \A b \in DOMAIN blk : /\ blk'[b].size = blk[b].size /\ blk'[b].id = blk[b].id
                                 /\ b # base => blk'[b] = blk[b]
        /\ blk' \in [DOMAIN blk' -> [size : Sizes, alive : BOOLEAN, id : Nat]]
    <2>1. blk \in [DOMAIN blk -> [size : Sizes, alive : BOOLEAN, id : Nat]]
      BY DEF Inv, TypeOK
    <2> QED
      BY <1>1, <2>1
  <1>5. quarantine' \subseteq quarantine \cup {o}
    BY <1>1 DEF KeptBack
  <1>6. TypeOK'
    BY <1>1, <1>2, <1>3, <1>4, <1>5 DEF Inv, TypeOK, Inside
  <1>7. Bounded'
    BY <1>4 DEF Inv, Bounded
  <1>8. QuarantineDead'
    <2> SUFFICES ASSUME NEW x \in quarantine'
                 PROVE  ~ objs'[x].live
      BY DEF QuarantineDead
    <2>1. CASE x = o
      BY <1>2, <2>1
    <2>2. CASE x # o
      <3>1. x \in quarantine /\ x \in DOMAIN objs
        BY <1>5, <2>2 DEF Inv, TypeOK
      <3> QED
        BY <1>2, <2>2, <3>1 DEF Inv, QuarantineDead
    <2> QED
      BY <2>1, <2>2
  <1>9. ASSUME ~ disabled'
        PROVE  Exact'
    <2>1. ~ disabled /\ Exact
      BY <1>1, <1>9 DEF Inv
    <2>2. quarantine' = quarantine \cup {o}
      BY <1>1, <2>1, RoomLeft DEF KeptBack
    <2>3. \A x \in DOMAIN objs : Space(x)' = Space(x)
      <3>1. \A x : Space(x)' = Bytes(objs'[x].at, objs'[x].size)
        BY DEF Space, Bytes
      <3> QED
        BY <1>2, <3>1 DEF Space
    <2>4. \A x \in DOMAIN objs : objs[x].at \in Space(x) /\ objs[x].live \in BOOLEAN
      BY SpaceOf DEF Inv
    <2>5. Tracked'
      <3>1. \A x \in DOMAIN objs : objs[x].at = base => x = o
        BY <2>1, <2>4 DEF Exact, Apart
      <3> SUFFICES ASSUME NEW x \in DOMAIN objs'
                   PROVE  /\ objs'[x].at \in DOMAIN blk' /\ blk'[objs'[x].at].size = objs'[x].size
                          /\ blk'[objs'[x].at].alive = objs'[x].live
        BY DEF Tracked
      <3>2. /\ objs[x].at \in DOMAIN blk /\ blk[objs[x].at].size = objs[x].size
            /\ blk[objs[x].at].alive = objs[x].live
        BY <1>2, <2>1 DEF Exact, Tracked
      <3>3. CASE x = o
        <4>1. ~ blk'[base].alive /\ blk'[base].alive \in BOOLEAN
          BY <1>4, <3>2, <3>3
        <4>2. objs'[o].live \in BOOLEAN
          <5>1. o \in 1..Len(objs')
            BY <1>2, <1>3
          <5> HIDE DEF Obj
          <5>2. objs'[o] \in Obj
            BY <1>3, <5>1, ElementOfSeq
          <5> QED
            BY <5>2 DEF Obj
        <4> QED
          BY <1>2, <1>4, <3>2, <3>3, <4>1, <4>2
      <3>4. CASE x # o
        BY <1>2, <1>4, <3>1, <3>2, <3>4
      <3> QED
        BY <3>3, <3>4
    <2>6. KeptDead'
      <3> SUFFICES ASSUME NEW x \in DOMAIN objs', ~ objs'[x].live, x # o
                   PROVE  x \in quarantine
        BY <2>2 DEF KeptDead
      <3> QED
        BY <1>2, <2>1 DEF Exact, KeptDead
    <2>7. Apart'
      BY <1>2, <2>1, <2>3 DEF Exact, Apart
    <2>8. Fresh'
      <3> SUFFICES ASSUME NEW b \in DOMAIN blk', ~ blk'[b].alive
                   PROVE  \E x \in DOMAIN objs' : objs'[x].at = b
        BY DEF Fresh
      <3>1. CASE b = base
        BY <1>2, <3>1
      <3>2. CASE b # base
        BY <1>2, <1>4, <2>1, <3>2 DEF Exact, Fresh
      <3> QED
        BY <3>1, <3>2
    <2>9. Origins'
      BY <1>1, <1>2, <1>4, <2>1, <2>3 DEF Exact, Origins
    <2> QED
      BY <2>5, <2>6, <2>7, <2>8, <2>9 DEF Exact
  <1> QED
    BY <1>6, <1>7, <1>8, <1>9 DEF Inv

LEMMA ResetKeeps ==
  ASSUME Reset
  PROVE  Inv'
  <1>1. /\ objs' = <<>> /\ ptrs' = {} /\ quarantine' = {} /\ blk' = <<>> /\ prov' = <<>>
        /\ nextId' = 1 /\ disabled' = FALSE
    BY DEF Reset
  <1>2. DOMAIN objs' = {} /\ DOMAIN blk' = {} /\ DOMAIN prov' = {}
    BY <1>1
  <1>3. TypeOK'
    <2>1. \A S : <<>> \in Seq(S)
      OBVIOUS
    <2>2. \A S : <<>> \in [DOMAIN <<>> -> S]
      OBVIOUS
    <2>3. objs' \in Seq([at : Cells, size : Sizes, live : BOOLEAN])
      BY <1>1, <2>1
    <2>4. /\ blk' \in [DOMAIN blk' -> [size : Sizes, alive : BOOLEAN, id : Nat]]
          /\ prov' \in [DOMAIN prov' -> [owner : Nat, id : Nat]]
      BY <1>1, <2>2
    <2> QED
      BY <1>1, <2>3, <2>4 DEF TypeOK
  <1>4. Bounded'
    BY <1>2, FS_EmptySet, CtfeMemAssumption DEF Bounded
  <1> QED
    BY <1>1, <1>2, <1>3, <1>4
       DEF Inv, QuarantineDead, Exact, Tracked, KeptDead, Apart, Fresh, Origins

-----------------------------------------------------------------------------
(* The block recorded for an address of a value lies in that value.        *)
LEMMA OwnerInside ==
  ASSUME Inv, NEW o \in DOMAIN objs, NEW a \in Space(o)
  PROVE  /\ OwnerOf(a) \in Nat
         /\ ~ disabled => (OwnerOf(a) \in DOMAIN blk => OwnerOf(a) \in Space(o))
         /\ ~ disabled => (OwnerOf(a) # Null =>
              /\ a \in DOMAIN prov /\ prov[a].owner = OwnerOf(a)
              /\ OwnerOf(a) \in DOMAIN blk /\ prov[a].id = blk[OwnerOf(a)].id)
  <1>1. a \in DOMAIN prov => prov[a].owner \in Nat
    BY DEF Inv, TypeOK
  <1>2. OwnerOf(a) \in Nat
    BY <1>1 DEF OwnerOf, Null
  <1>3. ASSUME ~ disabled, OwnerOf(a) # Null
        PROVE  /\ a \in DOMAIN prov /\ prov[a].owner = OwnerOf(a)
               /\ OwnerOf(a) \in DOMAIN blk /\ prov[a].id = blk[OwnerOf(a)].id
               /\ OwnerOf(a) \in Space(o)
    <2>1. a \in DOMAIN prov /\ prov[a].owner = OwnerOf(a)
      BY <1>3 DEF OwnerOf
    <2>2. OwnerOf(a) \in DOMAIN blk /\ prov[a].id = blk[OwnerOf(a)].id
      BY <1>3, <2>1 DEF Inv, Exact, Origins
    <2>3. PICK x \in DOMAIN objs : a \in Space(x) /\ OwnerOf(a) \in Space(x)
      BY <1>3, <2>1 DEF Inv, Exact, Origins
    <2>4. x = o
      BY <1>3, <2>3 DEF Inv, Exact, Apart
    <2> QED
      BY <2>1, <2>2, <2>3, <2>4
  <1> QED
    BY <1>2, <1>3, NullApart

LEMMA BaseInside ==
  ASSUME Inv, NEW o \in DOMAIN objs, NEW a \in Space(o)
  PROVE  /\ Base(a) \in Nat
         /\ ~ disabled => (Base(a) \in DOMAIN blk => Base(a) \in Space(o))
  <1>1. a \in Nat
    BY SpaceOf DEF Inv
  <1> QED
    BY <1>1, OwnerInside DEF Base

(* A new pointer lies in its value too. *)
LEMMA GetsInside ==
  ASSUME TypeOK, NEW o \in DOMAIN objs, NEW off \in Nat, Inside(o, off), Gets(o, off)
  PROVE  /\ \A p \in ptrs' : p.obj \in DOMAIN objs /\ p.off \in Nat /\ Inside(p.obj, p.off)
         /\ objs[o].at + off \in Space(o)
  <1>1. \A p \in ptrs' : p \in ptrs \/ (p.obj = o /\ p.off = off)
    BY DEF Gets
  <1>2. objs[o].at + off \in Space(o)
    BY SpaceOf DEF Inside
  <1> QED
    BY <1>1, <1>2 DEF TypeOK

LEMMA PointsKeeps ==
  ASSUME Inv, Points
  PROVE  Inv'
  <1>1. PICK o \in DOMAIN objs, off \in Offsets :
          \/ AddrOf(o, off)
          \/ DataArray(o, off)
          \/ \E part \in Offsets : SliceArray(o, part, off)
    BY DEF Points
  <1>2. Offsets \subseteq Nat
    BY CtfeMemAssumption DEF Offsets
  <1>3. objs[o].at \in Nat /\ objs[o].at \in Space(o)
    BY SpaceOf DEF Inv
  <1>4. CASE AddrOf(o, off)
    <2>1. Inside(o, off) /\ NoteAddr(objs[o].at + off, objs[o].at) /\ Gets(o, off) /\ Kept
      BY <1>4 DEF AddrOf
    <2> QED
      BY <1>2, <1>3, <2>1, GetsInside, NoteKeeps DEF Inv, Kept
  <1>5. CASE DataArray(o, off)
    <2>1. /\ Inside(o, off) /\ NoteAddr(objs[o].at + off, OwnerOf(objs[o].at + off))
          /\ Gets(o, off) /\ Kept
      BY <1>5 DEF DataArray
    <2>2. objs[o].at + off \in Space(o)
      BY <1>2, <2>1, GetsInside DEF Inv
    <2> QED
      BY <1>2, <2>1, <2>2, GetsInside, OwnerInside, NoteKeeps DEF Inv, Kept
  <1>6. ASSUME NEW part \in Offsets, SliceArray(o, part, off)
        PROVE  Inv'
    <2>1. /\ part <= off /\ Inside(o, off) /\ NoteAddr(objs[o].at + off, objs[o].at + part)
          /\ Gets(o, off) /\ Kept
      BY <1>6 DEF SliceArray
    <2>2. objs[o].at + part \in Space(o) /\ objs[o].at + part \in Nat
      <3>1. part < objs[o].size
        BY <1>2, <2>1, SpaceOf DEF Inside, Inv
      <3> QED
        BY <1>2, <1>3, <3>1, SpaceOf DEF Inv
    <2> QED
      BY <1>2, <2>1, <2>2, GetsInside, NoteKeeps DEF Inv, Kept
  <1> QED
    BY <1>1, <1>4, <1>5, <1>6

LEMMA FollowsKeeps ==
  ASSUME Inv, Follows
  PROVE  Inv'
  <1>1. PICK p \in ptrs :
          \/ MakeSlice(p)
          \/ DataSlice(p)
          \/ \E off \in Offsets : AddrThrough(p, off) \/ SliceSlice(p, off)
    BY DEF Follows
  <1>2. Offsets \subseteq Nat
    BY CtfeMemAssumption DEF Offsets
  <1>3. p.obj \in DOMAIN objs /\ At(p) \in Space(p.obj)
    BY PtrInside DEF Inv
  <1>4. CASE MakeSlice(p) \/ DataSlice(p)
    <2>1. NoteAddr(At(p), OwnerOf(At(p))) /\ ptrs' = ptrs /\ Kept
      BY <1>4 DEF MakeSlice, DataSlice
    <2>2. \A q \in ptrs' : q.obj \in DOMAIN objs /\ q.off \in Nat /\ Inside(q.obj, q.off)
      BY <2>1 DEF Inv, TypeOK
    <2> QED
      BY <1>3, <2>1, <2>2, OwnerInside, NoteKeeps DEF Kept
  <1>5. ASSUME NEW off \in Offsets, AddrThrough(p, off) \/ SliceSlice(p, off)
        PROVE  Inv'
    <2>1. /\ Inside(p.obj, off) /\ NoteAddr(objs[p.obj].at + off, Base(At(p)))
          /\ Gets(p.obj, off) /\ Kept
      BY <1>5 DEF SliceSlice, AddrThrough
    <2> QED
      BY <1>2, <1>3, <2>1, GetsInside, BaseInside, NoteKeeps DEF Inv, Kept
  <1> QED
    BY <1>1, <1>4, <1>5

-----------------------------------------------------------------------------
LEMMA InitInv == Init => Inv
  <1> SUFFICES ASSUME Init PROVE Inv
    OBVIOUS
  <1>1. /\ objs = <<>> /\ ptrs = {} /\ quarantine = {} /\ blk = <<>> /\ prov = <<>>
        /\ nextId = 1 /\ disabled = FALSE
    BY DEF Init
  <1>2. DOMAIN objs = {} /\ DOMAIN blk = {} /\ DOMAIN prov = {}
    BY <1>1
  <1>3. TypeOK
    <2>1. \A S : <<>> \in Seq(S)
      OBVIOUS
    <2>2. \A S : <<>> \in [DOMAIN <<>> -> S]
      OBVIOUS
    <2>3. objs \in Seq([at : Cells, size : Sizes, live : BOOLEAN])
      BY <1>1, <2>1
    <2>4. /\ blk \in [DOMAIN blk -> [size : Sizes, alive : BOOLEAN, id : Nat]]
          /\ prov \in [DOMAIN prov -> [owner : Nat, id : Nat]]
      BY <1>1, <2>2
    <2> QED
      BY <1>1, <2>3, <2>4 DEF TypeOK
  <1>4. Bounded
    BY <1>2, FS_EmptySet, CtfeMemAssumption DEF Bounded
  <1> QED
    BY <1>1, <1>2, <1>3, <1>4
       DEF Inv, QuarantineDead, Exact, Tracked, KeptDead, Apart, Fresh, Origins

LEMMA NextInv == Inv /\ [Next]_vars => Inv'
  <1> SUFFICES ASSUME Inv, [Next]_vars PROVE Inv'
    OBVIOUS
  <1>1. CASE Lives
    <2>1. PICK base \in Cells, size \in Sizes : Make(base, size) \/ Scratch(base, size)
      BY <1>1 DEF Lives
    <2> QED
      BY <2>1, MakeKeeps, ScratchKeeps
  <1>2. CASE Dies
    BY <1>2, DisposeKeeps DEF Dies
  <1>3. CASE Points
    BY <1>3, PointsKeeps
  <1>4. CASE Follows
    BY <1>4, FollowsKeeps
  <1>5. CASE Reset
    BY <1>5, ResetKeeps
  <1>6. CASE UNCHANGED vars
    BY <1>6 DEF vars, Inv, TypeOK, Inside, Bounded, QuarantineDead, Exact, Tracked, KeptDead,
                Apart, Fresh, Origins, Space
  <1> QED
    BY <1>1, <1>2, <1>3, <1>4, <1>5, <1>6 DEF Next

(* The tables are right at every moment: the invariant of src/vm/ctfe_mem.c. *)
THEOREM SpecInv == Spec => []Inv
  BY InitInv, NextInv, PTL DEF Spec

(* Entries, values and pointers have their types, and every pointer of the *)
(* program lies in a value that was made.                                  *)
THEOREM TypeCorrect == Spec => []TypeOK
  <1>1. Inv => TypeOK
    BY DEF Inv
  <1> QED
    BY <1>1, SpecInv, PTL

(* ctfe_mem_check never reports a pointer to a value that is still there:  *)
(* "reuse can only miss, never false alarm" (ctfe_mem.h).                   *)
THEOREM LiveAcceptedCorrect == Spec => []LiveAccepted
  <1>1. ASSUME Inv, NEW p \in ptrs, objs[p.obj].live
        PROVE  ~ Reported(At(p))
    <2> DEFINE o == p.obj
               a == At(p)
               w == OwnerOf(a)
    <2>1. o \in DOMAIN objs /\ a \in Space(o)
      BY <1>1, PtrInside DEF Inv
    <2> SUFFICES ASSUME ~ disabled PROVE ~ Reported(a)
      BY DEF Reported
    <2> HIDE DEF a, o
    <2>2. Tracked /\ Apart /\ Fresh
      BY <1>1 DEF Inv, Exact
    <2>3. objs[o].live
      BY <1>1 DEF o
    <2>4. CASE w # Null
      <3>1. /\ prov[a].owner = w /\ w \in DOMAIN blk /\ prov[a].id = blk[w].id /\ w \in Space(o)
        BY <1>1, <2>1, <2>4, OwnerInside
      <3>2. blk[w].alive
        <4> SUFFICES ASSUME ~ blk[w].alive PROVE FALSE
          OBVIOUS
        <4>1. PICK x \in DOMAIN objs : objs[x].at = w
          BY <2>2, <3>1 DEF Fresh
        <4>2. w \in Space(x)
          BY <1>1, <4>1, SpaceOf DEF Inv
        <4>3. x = o
          BY <2>1, <2>2, <3>1, <4>2 DEF Apart
        <4> QED
          BY <2>1, <2>2, <2>3, <4>1, <4>3 DEF Tracked
      <3> QED
        BY <2>4, <3>1, <3>2 DEF Reported, Gone
    <2>5. CASE w = Null
      <3>1. objs[o].at \in DOMAIN blk /\ blk[objs[o].at].alive = TRUE /\ blk[objs[o].at].size = objs[o].size
        BY <2>1, <2>2, <2>3 DEF Tracked
      <3>2. Within(a, TRUE)
        BY <2>1, <3>1 DEF Within, Space
      <3> QED
        BY <2>5, <3>2 DEF Reported
    <2> QED
      BY <2>4, <2>5
  <1>2. Inv => LiveAccepted
    BY <1>1 DEF LiveAccepted
  <1> QED
    BY <1>2, SpecInv, PTL

(* ctfe_mem_check reports every pointer whose value is gone, unless a table *)
(* was full or a scratch block of a clone is taken for the value.           *)
THEOREM StaleReportedCorrect == Spec => []StaleReported
  <1>1. ASSUME Inv, NEW p \in ptrs, ~ objs[p.obj].live, ~ disabled
        PROVE  \/ Reported(At(p))
               \/ Ghost(OwnerOf(At(p)))
               \/ OwnerOf(At(p)) = Null /\ GhostAt(At(p))
    <2> DEFINE o == p.obj
               a == At(p)
               w == OwnerOf(a)
    <2>1. o \in DOMAIN objs /\ a \in Space(o)
      BY <1>1, PtrInside DEF Inv
    <2>2. ~ objs[o].live
      BY <1>1
    <2> HIDE DEF a, o
    <2>3. Tracked /\ Apart
      BY <1>1 DEF Inv, Exact
    <2>4. \A x \in DOMAIN objs : a \in Space(x) => ~ objs[x].live
      BY <2>1, <2>2, <2>3 DEF Apart
    <2>5. ASSUME w # Null
          PROVE  Reported(a) \/ Ghost(w)
      <3>1. /\ prov[a].owner = w /\ w \in DOMAIN blk /\ prov[a].id = blk[w].id /\ w \in Space(o)
        BY <1>1, <2>1, <2>5, OwnerInside
      <3>2. CASE ~ blk[w].alive
        BY <1>1, <2>5, <3>1, <3>2 DEF Reported, Gone
      <3>3. CASE blk[w].alive
        <4>1. ASSUME NEW x \in DOMAIN objs, objs[x].at = w
              PROVE  ~ objs[x].live
          <5>1. w \in Space(x)
            BY <1>1, <4>1, SpaceOf DEF Inv
          <5>2. x = o
            BY <2>1, <2>3, <3>1, <5>1 DEF Apart
          <5> QED
            BY <2>2, <5>2
        <4> QED
          BY <3>1, <3>3, <4>1 DEF Ghost
      <3> QED
        BY <3>2, <3>3
    <2>6. ASSUME w = Null
          PROVE  Reported(a) \/ GhostAt(a)
      <3>1. /\ objs[o].at \in DOMAIN blk /\ blk[objs[o].at].alive = objs[o].live
            /\ blk[objs[o].at].size = objs[o].size /\ objs[o].live \in BOOLEAN
        BY <1>1, <2>1, <2>3, SpaceOf DEF Tracked, Inv
      <3>2. Within(a, FALSE)
        BY <2>1, <2>2, <3>1 DEF Within, Space
      <3>3. CASE ~ Within(a, TRUE)
        BY <1>1, <2>6, <3>2, <3>3 DEF Reported
      <3>4. CASE Within(a, TRUE)
        <4>1. PICK b \in DOMAIN blk : blk[b].alive = TRUE /\ a \in Bytes(b, blk[b].size)
          BY <3>4 DEF Within
        <4>2. ASSUME NEW x \in DOMAIN objs, objs[x].at = b
              PROVE  ~ objs[x].live
          <5>1. blk[b].size = objs[x].size
            BY <2>3, <4>2 DEF Tracked
          <5>2. a \in Space(x)
            BY <4>1, <4>2, <5>1 DEF Space
          <5> QED
            BY <2>4, <5>2
        <4> QED
          BY <4>1, <4>2 DEF Ghost, GhostAt
      <3> QED
        BY <3>3, <3>4
    <2> QED
      BY <2>5, <2>6 DEF a, o
  <1>2. Inv => StaleReported
    BY <1>1 DEF StaleReported
  <1> QED
    BY <1>2, SpecInv, PTL
=============================================================================
