--------------------------- MODULE InstallProofs ---------------------------
(***************************************************************************)
(* Install keeps its types, a complete postinstall marker always names a   *)
(* hook that succeeded, a complete clux.lock vouches for its hooks, and    *)
(* hooks run deps first: for every package tree, every set of manifests    *)
(* and scripts and any number of overlapping, crashing invocations.        *)
(***************************************************************************)
EXTENDS Install, SequenceTheorems, TLAPS

(* The stack operations that stand for calls and returns of the recursions  *)
(* install_tree and collect_packages keep a stack of frames.                *)
LEMMA PopType ==
  ASSUME NEW S, NEW s \in Seq(S), s # <<>>
  PROVE  /\ Pop(s) \in Seq(S)
         /\ Len(Pop(s)) = Len(s) - 1
         /\ \A k \in 1..Len(Pop(s)) : Pop(s)[k] = s[k]
  <1>1. Len(s) - 1 \in Nat
    BY EmptySeq
  <1>2. \A k \in 1..(Len(s) - 1) : s[k] \in S
    BY <1>1
  <1>3. Pop(s) \in [1..(Len(s) - 1) -> S]
    BY <1>2 DEF Pop
  <1>4. Pop(s) \in Seq(S)
    BY <1>1, <1>3, IsASeq DEF Pop
  <1>5. Len(Pop(s)) = Len(s) - 1
    BY <1>1, <1>3, <1>4
  <1> QED
    BY <1>3, <1>4, <1>5 DEF Pop

(* a return leaves only frames that were on the stack *)
LEMMA TopType ==
  ASSUME NEW S, NEW s \in Seq(S), s # <<>>
  PROVE  Len(s) \in 1..Len(s) /\ Top(s) \in S
  BY DEF Top

(* replacing the top frame changes that frame only *)
LEMMA SetTopType ==
  ASSUME NEW S, NEW s \in Seq(S), s # <<>>, NEW f \in S
  PROVE  /\ SetTop(s, f) \in Seq(S)
         /\ Len(SetTop(s, f)) = Len(s)
         /\ \A k \in 1..Len(s) : SetTop(s, f)[k] = IF k = Len(s) THEN f ELSE s[k]
  BY DEF SetTop

(* Updating one invocation with a well-typed record keeps the process part  *)
(* of the type invariant.                                                   *)
LEMMA UpdateType ==
  ASSUME TypeOK, NEW i \in Process, NEW r \in ProcType, StackOK(r), HookOK(r), Update(i, r)
  PROVE  /\ proc' \in [Process -> ProcType]
         /\ \A j \in Process : StackOK(proc'[j]) /\ HookOK(proc'[j])
  BY DEF TypeOK, Update

(* The record of a returned, killed or not yet started command is well typed. *)
LEMMA IdleType ==
  ASSUME NEW c \in {"idle", "done", "crashed"}, NEW rc \in {0, 1}
  PROVE  LET r == [Idle EXCEPT !.pc = c, !.rc = rc]
         IN r \in ProcType /\ StackOK(r) /\ HookOK(r)
  <1> DEFINE r == [Idle EXCEPT !.pc = c, !.rc = rc]
  <1>1. Idle \in ProcType /\ Idle.stack = <<>>
    BY DEF Idle, ProcType, PC, Entries
  <1>2. r \in ProcType /\ r.pc = c /\ r.stack = <<>>
    BY <1>1 DEF ProcType, PC
  <1>3. StackOK(r) /\ HookOK(r)
    BY <1>2 DEF StackOK, HookOK
  <1> QED
    BY <1>2, <1>3 DEF r

(* A command that has just been started has the root's frame on its stack.  *)
LEMMA StartType ==
  ASSUME NEW a \in BOOLEAN, NEW f \in BOOLEAN, NEW l \in BOOLEAN,
         NEW c \in {"slurp", "tree"}
  PROVE  LET r == [Idle EXCEPT !.pc = c, !.allow = a, !.force = f, !.locked = l,
                               !.stack = <<Frame(Root)>>]
         IN r \in ProcType /\ StackOK(r) /\ HookOK(r)
  <1> DEFINE r == [Idle EXCEPT !.pc = c, !.allow = a, !.force = f, !.locked = l,
                               !.stack = <<Frame(Root)>>]
  <1>1. Idle \in ProcType
    BY DEF Idle, ProcType, PC, Entries
  <1>2. Frame(Root) \in FrameType
    BY InstallAssumption DEF Frame, FrameType
  <1>3. <<Frame(Root)>> \in Seq(FrameType)
    BY <1>2
  <1> HIDE DEF r
  <1>5. r \in ProcType
    BY <1>1, <1>3 DEF ProcType, PC, r
  <1>6. r.pc = c /\ r.stack = <<Frame(Root)>>
    BY <1>1 DEF ProcType, r
  <1>4. StackOK(r) /\ HookOK(r)
    BY <1>6 DEF StackOK, HookOK, Frame
  <1> QED
    BY <1>5, <1>4 DEF r

(* Finishing or killing a command *)
LEMMA FinishType ==
  ASSUME TypeOK, NEW i \in Process, NEW rc \in {0, 1}, Finish(i, rc)
  PROVE  /\ proc' \in [Process -> ProcType]
         /\ \A j \in Process : StackOK(proc'[j]) /\ HookOK(proc'[j])
  BY IdleType, UpdateType DEF Finish

(* Popping a frame, with or without recording a failure *)
LEMMA PopRecordType ==
  ASSUME NEW r \in ProcType, StackOK(r), r.stack # <<>>,
         NEW c \in {"tree", "collect"}, NEW b \in BOOLEAN, NEW n \in Seq(NodeType)
  PROVE  LET q == [r EXCEPT !.pc = c, !.stack = Pop(r.stack), !.failed = b, !.nodes = n]
         IN q \in ProcType /\ StackOK(q) /\ HookOK(q)
  <1> DEFINE q == [r EXCEPT !.pc = c, !.stack = Pop(r.stack), !.failed = b, !.nodes = n]
  <1>1. Pop(r.stack) \in Seq(FrameType)
    BY PopType DEF ProcType
  <1>2. q \in ProcType /\ q.pc = c /\ q.stack = Pop(r.stack)
    BY <1>1 DEF ProcType, PC
  <1> HIDE DEF q
  <1>3. HookOK(q)
    BY <1>2 DEF HookOK
  <1>4. StackOK(q)
    <2>1. r.stack \in Seq(FrameType)
      BY DEF ProcType
    <2>2. /\ Len(Pop(r.stack)) = Len(r.stack) - 1 
          /\ \A k \in 1..Len(Pop(r.stack)) : Pop(r.stack)[k] = r.stack[k]
      BY <2>1, PopType
    <2> QED
      BY <1>2, <2>1, <2>2 DEF StackOK
  <1> QED
    BY <1>2, <1>3, <1>4 DEF q

(* Replacing the top frame by a loaded one *)
LEMMA LoadRecordType ==
  ASSUME NEW r \in ProcType, StackOK(r), r.stack # <<>>, r.pc \in {"tree", "collect"},
         NEW f \in FrameType, f.loaded => f.desc \in Manifest
  PROVE  LET q == [r EXCEPT !.stack = SetTop(r.stack, f)]
         IN q \in ProcType /\ StackOK(q) /\ HookOK(q)
  <1> DEFINE q == [r EXCEPT !.stack = SetTop(r.stack, f)]
  <1>1. /\ SetTop(r.stack, f) \in Seq(FrameType)
        /\ Len(SetTop(r.stack, f)) = Len(r.stack)
        /\ \A k \in 1..Len(r.stack) :
             SetTop(r.stack, f)[k] = IF k = Len(r.stack) THEN f ELSE r.stack[k]
    <2>1. r.stack \in Seq(FrameType)
      BY DEF ProcType
    <2>2. Len(r.stack) \in 1..Len(r.stack)
      BY <2>1, TopType
    <2> QED
      BY <2>1, <2>2 DEF SetTop
  <1>2. q \in ProcType /\ q.pc = r.pc /\ q.stack = SetTop(r.stack, f)
    BY <1>1 DEF ProcType
  <1> HIDE DEF q
  <1>3. HookOK(q)
    BY <1>2 DEF HookOK
  <1>4. StackOK(q)
    BY <1>1, <1>2 DEF StackOK
  <1> QED
    BY <1>2, <1>3, <1>4 DEF q

-----------------------------------------------------------------------------
(* the part of TypeOK that speaks of the invocations *)
ProcsOK == /\ proc \in [Process -> ProcType]
           /\ \A j \in Process : StackOK(proc[j]) /\ HookOK(proc[j])

(* what run_one and build_hook compute from the files is a hook hash and a  *)
(* lock entry                                                               *)
LEMMA EntryType ==
  ASSUME TypeOK, NEW p \in Pkg, NEW d \in Manifest
  PROVE  /\ d.cmd # NoCmd => HookKey(p, d.cmd) \in HookHash
         /\ EntryOk(p, d) => EntryOf(p, d) \in Entry
  <1>1. d.cmd \in Cmd \cup {NoCmd} /\ d.id \in Id /\ d.art \in BOOLEAN
    BY InstallAssumption
  <1>2. ScriptHash(p, d.cmd) \in Content \cup {NoScript}
    BY DEF ScriptHash, TypeOK
  <1>3. d.cmd # NoCmd => HookKey(p, d.cmd) \in HookHash
    BY <1>1, <1>2 DEF HookKey, HookHash
  <1>4. EntryOk(p, d) => EntryOf(p, d) \in Entry
    BY <1>1, <1>2 DEF EntryOk, EntryOf, Entry, ArtHash, TypeOK
  <1> QED
    BY <1>3, <1>4

(* install_tree and run_one, up to the start of the hook *)
LEMMA TreeType ==
  ASSUME TypeOK, NEW i \in Process,
         TreeEnter(i) \/ TreeDescend(i) \/ RunOne(i) \/ TreeDone(i)
  PROVE  ProcsOK'
  <1> DEFINE r == proc[i]
             s == r.stack
             f == Top(s)
  <1>0. /\ r \in ProcType /\ StackOK(r) /\ HookOK(r)
        /\ s \in Seq(FrameType) /\ r.nodes \in Seq(NodeType) /\ r.failed \in BOOLEAN
    BY DEF TypeOK, ProcType
  <1>1. ASSUME s # <<>> PROVE f \in FrameType /\ (f.loaded => f.desc \in Manifest)
    BY <1>0, <1>1, TopType DEF StackOK, Top
  <1>2. CASE TreeEnter(i)
    <2>1. r.pc = "tree" /\ s # <<>> /\ f.pkg \in Pkg
      BY <1>1, <1>2 DEF TreeEnter, FrameType
    <2>2. CASE Depth(s) > InstallMaxDepth
      <3>1. [r EXCEPT !.pc = "tree", !.stack = Pop(s), !.failed = r.failed, !.nodes = r.nodes]
            = [r EXCEPT !.stack = Pop(s)]
        BY <1>0, <2>1 DEF ProcType
      <3> QED
        BY <1>0, <1>2, <2>1, <2>2, <3>1, PopRecordType, UpdateType DEF TreeEnter, ProcsOK
    <2>3. CASE ~(Depth(s) > InstallMaxDepth) /\ mod[f.pkg] \in {Absent, Bad}
      <3>1. [r EXCEPT !.pc = "tree", !.stack = Pop(s), !.failed = TRUE, !.nodes = r.nodes]
            = [r EXCEPT !.stack = Pop(s), !.failed = TRUE]
        BY <1>0, <2>1 DEF ProcType
      <3> QED
        BY <1>0, <1>2, <2>1, <2>3, <3>1, PopRecordType, UpdateType DEF TreeEnter, ProcsOK
    <2>4. CASE ~(Depth(s) > InstallMaxDepth) /\ mod[f.pkg] \notin {Absent, Bad}
      <3> DEFINE g == [pkg |-> f.pkg, todo |-> Deps[f.pkg], loaded |-> TRUE, desc |-> mod[f.pkg]]
      <3>1. g \in FrameType /\ g.desc \in Manifest
        BY <2>1, <2>4, InstallAssumption DEF FrameType, TypeOK
      <3> HIDE DEF g
      <3>2. Update(i, [r EXCEPT !.stack = SetTop(s, g)])
        BY <1>2, <2>4 DEF TreeEnter, g
      <3> QED
        BY <1>0, <2>1, <3>1, <3>2, LoadRecordType, UpdateType DEF ProcsOK
    <2> QED
      BY <2>2, <2>3, <2>4
  <1>3. CASE TreeDescend(i)
    <2> DEFINE g == [f EXCEPT !.todo = Tail(f.todo)]
    <2>1. r.pc \in {"tree", "collect"} /\ s # <<>> /\ f.todo # <<>>
      BY <1>3 DEF TreeDescend
    <2>2. f \in FrameType /\ (f.loaded => f.desc \in Manifest)
      BY <1>1, <2>1
    <2>3. f.todo \in Seq(Pkg) /\ Head(f.todo) \in Pkg /\ Tail(f.todo) \in Seq(Pkg)
      BY <2>1, <2>2, HeadTailProperties DEF FrameType
    <2>4. g \in FrameType /\ (g.loaded => g.desc \in Manifest)
      BY <2>2, <2>3 DEF FrameType
    <2> HIDE DEF g
    <2>5. LET q == [r EXCEPT !.stack = SetTop(s, g)]
          IN q \in ProcType /\ StackOK(q) /\ HookOK(q)
      BY <1>0, <2>1, <2>4, LoadRecordType
    <2>6. CASE mod[Head(f.todo)] = Absent
      BY <1>3, <2>5, <2>6, UpdateType DEF TreeDescend, ProcsOK, g
    <2>7. CASE mod[Head(f.todo)] # Absent
      <3> DEFINE t == SetTop(s, g)
                 c == Frame(Head(f.todo))
                 q == [r EXCEPT !.stack = Append(t, c)]
      <3>1. t \in Seq(FrameType) /\ \A k \in 1..Len(t) : t[k].loaded => t[k].desc \in Manifest
        BY <1>0, <2>5 DEF ProcType, StackOK
      <3>2. c \in FrameType /\ ~c.loaded
        BY <2>3 DEF Frame, FrameType
      <3> HIDE DEF t, c
      <3>3. /\ Append(t, c) \in Seq(FrameType)
            /\ \A k \in 1..Len(Append(t, c)) :
                 Append(t, c)[k].loaded => Append(t, c)[k].desc \in Manifest
        BY <3>1, <3>2
      <3>4. q \in ProcType /\ q.pc = r.pc /\ q.stack = Append(t, c)
        BY <1>0, <3>3 DEF ProcType
      <3> HIDE DEF q
      <3>5. StackOK(q) /\ HookOK(q)
        BY <2>1, <3>3, <3>4 DEF StackOK, HookOK
      <3>6. Update(i, q)
        BY <1>3, <2>7 DEF TreeDescend, q, t, c, g
      <3> QED
        BY <3>4, <3>5, <3>6, UpdateType DEF ProcsOK
    <2> QED
      BY <2>6, <2>7
  <1>4. CASE RunOne(i)
    <2>1. r.pc = "tree" /\ s # <<>> /\ f.loaded
      BY <1>4 DEF RunOne
    <2>2. f \in FrameType /\ f.pkg \in Pkg /\ f.desc \in Manifest
      BY <1>1, <2>1 DEF FrameType
    <2> DEFINE key == HookKey(f.pkg, f.desc.cmd)
    <2>3. CASE Update(i, [r EXCEPT !.stack = Pop(s)])
      <3>1. [r EXCEPT !.pc = "tree", !.stack = Pop(s), !.failed = r.failed, !.nodes = r.nodes]
            = [r EXCEPT !.stack = Pop(s)]
        BY <1>0, <2>1 DEF ProcType
      <3> QED
        BY <1>0, <2>1, <2>3, <3>1, PopRecordType, UpdateType DEF ProcsOK
    <2>4. CASE Update(i, [r EXCEPT !.stack = Pop(s), !.failed = TRUE])
      <3>1. [r EXCEPT !.pc = "tree", !.stack = Pop(s), !.failed = TRUE, !.nodes = r.nodes]
            = [r EXCEPT !.stack = Pop(s), !.failed = TRUE]
        BY <1>0, <2>1 DEF ProcType
      <3> QED
        BY <1>0, <2>1, <2>4, <3>1, PopRecordType, UpdateType DEF ProcsOK
    <2>5. CASE f.desc.cmd # NoCmd /\ Update(i, [r EXCEPT !.pc = "hook", !.key = key])
      <3> DEFINE q == [r EXCEPT !.pc = "hook", !.key = key]
      <3>1. key \in HookHash
        BY <2>2, <2>5, EntryType
      <3> HIDE DEF key
      <3>2. q \in ProcType /\ q.stack = s /\ q.key = key
        BY <1>0, <3>1 DEF ProcType, PC
      <3> HIDE DEF q
      <3>3. StackOK(q)
        BY <1>0, <3>2 DEF StackOK
      <3>4. HookOK(q)
        BY <2>1, <2>5, <3>1, <3>2 DEF HookOK
      <3> QED
        BY <2>5, <3>2, <3>3, <3>4, UpdateType DEF ProcsOK, q
    <2> QED
      BY <1>4, <2>3, <2>4, <2>5 DEF RunOne
  <1>5. CASE TreeDone(i)
    <2> DEFINE q == [r EXCEPT !.pc = "collect", !.stack = <<Frame(Root)>>]
    <2>1. <<Frame(Root)>> \in Seq(FrameType) /\ ~Frame(Root).loaded
      BY InstallAssumption DEF Frame, FrameType
    <2>2. q \in ProcType /\ q.pc = "collect" /\ q.stack = <<Frame(Root)>>
      BY <1>0, <2>1 DEF ProcType, PC
    <2> HIDE DEF q
    <2>3. StackOK(q) /\ HookOK(q)
      BY <2>1, <2>2 DEF StackOK, HookOK
    <2>4. CASE r.failed
      BY <1>5, <2>4, FinishType DEF TreeDone, ProcsOK
    <2>5. CASE ~r.failed
      BY <1>5, <2>2, <2>3, <2>5, UpdateType DEF TreeDone, ProcsOK, q
    <2> QED
      BY <2>4, <2>5
  <1> QED
    BY <1>2, <1>3, <1>4, <1>5

(* the end of the hook and write_marker *)
LEMMA HookType ==
  ASSUME TypeOK, NEW i \in Process, NEW ok \in BOOLEAN, NEW a \in Content \cup {Absent},
         HookEnds(i, ok, a) \/ MarkOpen(i, ok) \/ MarkWrite(i, ok)
  PROVE  /\ ProcsOK'
         /\ art' \in [Pkg -> Content \cup {Absent}]
         /\ marker' \in [Pkg -> HookHash \cup {Absent, Torn}]
         /\ ran' \in [Pkg -> SUBSET HookHash]
  <1> DEFINE r == proc[i]
             s == r.stack
             p == Top(s).pkg
             d == Top(s).desc
  <1>0. /\ r \in ProcType /\ StackOK(r) /\ HookOK(r)
        /\ s \in Seq(FrameType) /\ r.nodes \in Seq(NodeType) /\ r.failed \in BOOLEAN
        /\ r.pc \in {"hook", "mark", "markw"}
    BY DEF TypeOK, ProcType, HookEnds, MarkOpen, MarkWrite
  <1>1. s # <<>> /\ Top(s).loaded /\ d.cmd # NoCmd /\ r.key \in HookHash
    BY <1>0 DEF HookOK
  <1>2. Top(s) \in FrameType /\ p \in Pkg /\ d \in Manifest
    <2>1. Top(s) \in FrameType /\ Len(s) \in 1..Len(s)
      BY <1>0, <1>1, TopType
    <2>2. d \in Manifest
      BY <1>0, <1>1, <2>1 DEF StackOK, Top
    <2> QED
      BY <2>1, <2>2 DEF FrameType
  <1>3. ASSUME NEW c \in {"mark", "markw"}, Update(i, [r EXCEPT !.pc = c])
        PROVE  ProcsOK'
    <2> DEFINE q == [r EXCEPT !.pc = c]
    <2>1. q \in ProcType /\ q.stack = s /\ q.key = r.key
      BY <1>0 DEF ProcType, PC
    <2> HIDE DEF q
    <2>2. StackOK(q) /\ HookOK(q)
      BY <1>0, <1>1, <2>1 DEF StackOK, HookOK
    <2> QED
      BY <1>3, <2>1, <2>2, UpdateType DEF ProcsOK, q
  <1>4. ASSUME Update(i, [r EXCEPT !.pc = "tree", !.failed = TRUE, !.stack = Pop(s)])
        PROVE  ProcsOK'
    <2>1. [r EXCEPT !.pc = "tree", !.stack = Pop(s), !.failed = TRUE, !.nodes = r.nodes]
          = [r EXCEPT !.pc = "tree", !.failed = TRUE, !.stack = Pop(s)]
      BY <1>0 DEF ProcType
    <2> QED
      BY <1>0, <1>1, <1>4, <2>1, PopRecordType, UpdateType DEF ProcsOK
  <1>5. ASSUME Update(i, [r EXCEPT !.pc = "tree", !.stack = Pop(s)])
        PROVE  ProcsOK'
    <2>1. [r EXCEPT !.pc = "tree", !.stack = Pop(s), !.failed = r.failed, !.nodes = r.nodes]
          = [r EXCEPT !.pc = "tree", !.stack = Pop(s)]
      BY <1>0 DEF ProcType
    <2> QED
      BY <1>0, <1>1, <1>5, <2>1, PopRecordType, UpdateType DEF ProcsOK
  <1>6. CASE HookEnds(i, ok, a)
    <2>1. ProcsOK'
      BY <1>3, <1>4, <1>6 DEF HookEnds
    <2>2. art' \in [Pkg -> Content \cup {Absent}] /\ marker' = marker
      BY <1>2, <1>6 DEF HookEnds, TypeOK
    <2>3. ScriptHash(p, d.cmd) \in Content \cup {NoScript}
      BY <1>2 DEF ScriptHash, TypeOK
    <2>4. ran' \in [Pkg -> SUBSET HookHash]
      <3>1. d.cmd \in Cmd => HookKey(p, d.cmd) \in HookHash
        BY <2>3 DEF HookKey, HookHash
      <3>2. ran' = ran \/ ran' = [ran EXCEPT ![p] = @ \cup {HookKey(p, d.cmd)}]
        BY <1>6 DEF HookEnds
      <3>3. d.cmd \in Cmd
        BY <1>1, <1>2, InstallAssumption
      <3> QED
        BY <1>2, <3>1, <3>2, <3>3 DEF TypeOK
    <2> QED
      BY <2>1, <2>2, <2>4 DEF TypeOK
  <1>7. CASE MarkOpen(i, ok)
    <2>1. ProcsOK'
      BY <1>3, <1>4, <1>7 DEF MarkOpen
    <2> QED
      BY <1>2, <1>7, <2>1 DEF MarkOpen, TypeOK
  <1>8. CASE MarkWrite(i, ok)
    <2>1. ProcsOK'
      BY <1>5, <1>8 DEF MarkWrite
    <2> QED
      BY <1>1, <1>2, <1>8, <2>1 DEF MarkWrite, TypeOK
  <1> QED
    BY <1>6, <1>7, <1>8

(* collect_packages *)
LEMMA CollectType ==
  ASSUME TypeOK, NEW i \in Process,
         CollectEnter(i) \/ CollectPush(i) \/ CollectDone(i)
  PROVE  ProcsOK'
  <1> DEFINE r == proc[i]
             s == r.stack
             f == Top(s)
  <1>0. /\ r \in ProcType /\ StackOK(r) /\ r.pc = "collect"
        /\ s \in Seq(FrameType) /\ r.nodes \in Seq(NodeType) /\ r.failed \in BOOLEAN
    BY DEF TypeOK, ProcType, CollectEnter, CollectPush, CollectDone
  <1>1. ASSUME s # <<>> PROVE f \in FrameType /\ (f.loaded => f.desc \in Manifest)
    BY <1>0, <1>1, TopType DEF StackOK, Top
  <1>2. CASE CollectEnter(i)
    <2>1. s # <<>> /\ f.pkg \in Pkg
      BY <1>1, <1>2 DEF CollectEnter, FrameType
    <2>2. CASE Depth(s) > LockMaxDepth \/ mod[f.pkg] \in {Absent, Bad}
      BY <1>2, <2>2, FinishType DEF CollectEnter, ProcsOK
    <2>3. CASE ~(Depth(s) > LockMaxDepth \/ mod[f.pkg] \in {Absent, Bad})
      <3> DEFINE g == [pkg |-> f.pkg, todo |-> Deps[f.pkg], loaded |-> TRUE, desc |-> mod[f.pkg]]
      <3>1. g \in FrameType /\ g.desc \in Manifest
        BY <2>1, <2>3, InstallAssumption DEF FrameType, TypeOK
      <3> HIDE DEF g
      <3>2. Update(i, [r EXCEPT !.stack = SetTop(s, g)])
        BY <1>2, <2>3 DEF CollectEnter, g
      <3> QED
        BY <1>0, <2>1, <3>1, <3>2, LoadRecordType, UpdateType DEF ProcsOK
    <2> QED
      BY <2>2, <2>3
  <1>3. CASE CollectPush(i)
    <2> DEFINE n == Append(r.nodes, [pkg |-> f.pkg, desc |-> f.desc])
    <2>1. s # <<>> /\ f.pkg \in Pkg /\ f.desc \in Manifest
      BY <1>1, <1>3 DEF CollectPush, FrameType
    <2>2. n \in Seq(NodeType)
      BY <1>0, <2>1 DEF NodeType
    <2>3. [r EXCEPT !.pc = "collect", !.stack = Pop(s), !.failed = r.failed, !.nodes = n]
          = [r EXCEPT !.stack = Pop(s), !.nodes = n]
      BY <1>0 DEF ProcType
    <2>4. Update(i, [r EXCEPT !.stack = Pop(s), !.nodes = n])
      BY <1>3 DEF CollectPush
    <2> HIDE DEF n
    <2> QED
      BY <1>0, <2>1, <2>2, <2>3, <2>4, PopRecordType, UpdateType DEF ProcsOK
  <1>4. CASE CollectDone(i)
    <2>1. ASSUME NEW c \in {"hash", "verify"}, Update(i, [r EXCEPT !.pc = c])
          PROVE  ProcsOK'
      <3> DEFINE q == [r EXCEPT !.pc = c]
      <3>1. q \in ProcType /\ q.pc = c /\ q.stack = s
        BY <1>0 DEF ProcType, PC
      <3> HIDE DEF q
      <3>2. StackOK(q) /\ HookOK(q)
        BY <1>0, <3>1 DEF StackOK, HookOK
      <3> QED
        BY <2>1, <3>1, <3>2, UpdateType DEF ProcsOK, q
    <2>2. \/ Update(i, [r EXCEPT !.pc = "hash"])
          \/ Update(i, [r EXCEPT !.pc = "verify"])
          \/ Finish(i, 1)
      BY <1>4 DEF CollectDone
    <2> QED
      BY <2>1, <2>2, FinishType DEF ProcsOK
  <1> QED
    BY <1>2, <1>3, <1>4

(* write_lockfile and clux_lock_verify_impl *)
LEMMA LockType ==
  ASSUME TypeOK, NEW i \in Process, NEW ok \in BOOLEAN,
         HashNode(i) \/ LockOpen(i, ok) \/ LockWrite(i, ok)
           \/ VerifyRead(i) \/ VerifyNode(i) \/ VerifyDone(i)
  PROVE  ProcsOK' /\ lock' \in LockFile \cup {Absent, Torn}
  <1> DEFINE r == proc[i]
  <1>0. /\ r \in ProcType /\ StackOK(r)
        /\ r.pc \in {"hash", "lockw", "slurp", "verify"}
        /\ r.nodes \in Seq(NodeType) /\ r.pkgs \in Entries
    BY DEF TypeOK, ProcType, HashNode, LockOpen, LockWrite, VerifyRead, VerifyNode, VerifyDone
  <1>1. ASSUME NEW c \in {"hash", "lockw", "collect", "verify"}, NEW n \in Seq(NodeType),
               NEW e \in Entries, Update(i, [r EXCEPT !.pc = c, !.nodes = n, !.pkgs = e])
        PROVE  ProcsOK'
    <2> DEFINE q == [r EXCEPT !.pc = c, !.nodes = n, !.pkgs = e]
    <2>1. q \in ProcType /\ q.pc = c /\ q.stack = r.stack
      BY <1>0 DEF ProcType, PC
    <2> HIDE DEF q
    <2>2. StackOK(q) /\ HookOK(q)
      BY <1>0, <2>1 DEF StackOK, HookOK
    <2> QED
      BY <1>1, <2>1, <2>2, UpdateType DEF ProcsOK, q
  <1>2. CASE HashNode(i)
    <2> DEFINE n == Head(r.nodes)
               e == [r.pkgs EXCEPT ![n.pkg] = EntryOf(n.pkg, n.desc)]
    <2>1. n \in NodeType /\ Tail(r.nodes) \in Seq(NodeType) /\ lock' = lock
      BY <1>0, <1>2, HeadTailProperties DEF HashNode
    <2>2. n.pkg \in Pkg /\ n.desc \in Manifest
      BY <2>1 DEF NodeType
    <2>3. CASE ~EntryOk(n.pkg, n.desc)
      BY <1>2, <2>1, <2>3, FinishType DEF HashNode, ProcsOK, TypeOK
    <2>4. CASE EntryOk(n.pkg, n.desc)
      <3>1. EntryOf(n.pkg, n.desc) \in Entry
        BY <2>2, <2>4, EntryType
      <3>2. e \in Entries
        BY <1>0, <2>2, <3>1 DEF Entries
      <3>3. [r EXCEPT !.pc = "hash", !.nodes = Tail(r.nodes), !.pkgs = e]
            = [r EXCEPT !.nodes = Tail(r.nodes), !.pkgs = e]
        BY <1>0, <1>2 DEF ProcType, HashNode
      <3>4. [r EXCEPT !.nodes = Tail(@), !.pkgs[n.pkg] = EntryOf(n.pkg, n.desc)]
            = [r EXCEPT !.nodes = Tail(r.nodes), !.pkgs = e]
        BY <1>0 DEF ProcType
      <3>5. Update(i, [r EXCEPT !.nodes = Tail(@), !.pkgs[n.pkg] = EntryOf(n.pkg, n.desc)])
        BY <1>2, <2>4 DEF HashNode
      <3> HIDE DEF e
      <3> QED
        BY <1>1, <2>1, <3>2, <3>3, <3>4, <3>5 DEF TypeOK
    <2> QED
      BY <2>3, <2>4
  <1>3. CASE LockOpen(i, ok)
    <2>1. [r EXCEPT !.pc = "lockw", !.nodes = r.nodes, !.pkgs = r.pkgs] = [r EXCEPT !.pc = "lockw"]
      BY <1>0 DEF ProcType
    <2> QED
      BY <1>0, <1>1, <1>3, <2>1, FinishType DEF LockOpen, TypeOK, ProcsOK
  <1>4. CASE LockWrite(i, ok)
    <2>1. lock' \in LockFile \cup {Absent, Torn}
      BY <1>0, <1>4 DEF LockWrite, LockFile
    <2>2. (IF ok THEN 0 ELSE 1) \in {0, 1} /\ Finish(i, IF ok THEN 0 ELSE 1)
      BY <1>4 DEF LockWrite
    <2> QED
      BY <2>1, <2>2, FinishType DEF ProcsOK
  <1>5. CASE VerifyRead(i)
    <2>1. lock' = lock
      BY <1>5 DEF VerifyRead
    <2>2. CASE Finish(i, 1)
      BY <2>1, <2>2, FinishType DEF ProcsOK, TypeOK
    <2>3. CASE lock \notin {Absent, Torn} /\ Update(i, [r EXCEPT !.pc = "collect", !.pkgs = lock.pkgs])
      <3>1. lock.pkgs \in Entries
        BY <2>3 DEF TypeOK, LockFile
      <3>2. [r EXCEPT !.pc = "collect", !.nodes = r.nodes, !.pkgs = lock.pkgs]
            = [r EXCEPT !.pc = "collect", !.pkgs = lock.pkgs]
        BY <1>0 DEF ProcType
      <3> QED
        BY <1>0, <1>1, <2>1, <2>3, <3>1, <3>2 DEF TypeOK
    <2> QED
      BY <1>5, <2>2, <2>3 DEF VerifyRead
  <1>6. CASE VerifyNode(i)
    <2>1. Tail(r.nodes) \in Seq(NodeType) /\ lock' = lock /\ r.pc = "verify"
      BY <1>0, <1>6, HeadTailProperties DEF VerifyNode
    <2>2. [r EXCEPT !.pc = "verify", !.nodes = Tail(r.nodes), !.pkgs = r.pkgs]
          = [r EXCEPT !.nodes = Tail(@)]
      BY <1>0, <2>1 DEF ProcType
    <2>3. Finish(i, 1) \/ Update(i, [r EXCEPT !.nodes = Tail(@)])
      BY <1>6 DEF VerifyNode
    <2> QED
      BY <1>0, <1>1, <2>1, <2>2, <2>3, FinishType DEF ProcsOK, TypeOK
  <1>7. CASE VerifyDone(i)
    BY <1>7, FinishType DEF VerifyDone, ProcsOK, TypeOK
  <1> QED
    BY <1>2, <1>3, <1>4, <1>5, <1>6, <1>7

-----------------------------------------------------------------------------
(* TypeOK holds initially and every step of every invocation, every crash   *)
(* and every edit by the user keeps it.                                     *)
LEMMA InitType == Init => TypeOK
  <1> SUFFICES ASSUME Init PROVE TypeOK
    OBVIOUS
  <1>1. Idle \in ProcType /\ Idle.stack = <<>> /\ Idle.pc = "idle"
    BY DEF Idle, ProcType, PC, Entries
  <1>2. Idle \in ProcType /\ StackOK(Idle) /\ HookOK(Idle)
    BY <1>1 DEF StackOK, HookOK
  <1>3. MaxRuns \in Nat /\ MaxEdits \in Nat
    BY InstallAssumption
  <1> QED
    BY <1>2, <1>3 DEF Init, TypeOK

LEMMA NextType == TypeOK /\ [Next]_vars => TypeOK'
  <1> SUFFICES ASSUME TypeOK, [Next]_vars PROVE TypeOK'
    OBVIOUS
  <1> USE InstallAssumption
  <1>1. ASSUME NEW i \in Process, NEW a \in BOOLEAN, NEW f \in BOOLEAN, NEW l \in BOOLEAN,
               Start(i, a, f, l)
        PROVE  TypeOK'
    <2>1. runs' \in 0..MaxRuns
      BY <1>1 DEF Start, TypeOK
    <2>2. CASE mod[Root] \in {Absent, Bad}
      BY <1>1, <2>1, <2>2, FinishType DEF Start, TypeOK
    <2>3. CASE mod[Root] \notin {Absent, Bad}
      <3> DEFINE c == IF l THEN "slurp" ELSE "tree"
      <3>1. c \in {"slurp", "tree"} /\ (a /\ ~l) \in BOOLEAN /\ (f /\ ~l) \in BOOLEAN
        OBVIOUS
      <3>2. Update(i, [Idle EXCEPT !.pc = c, !.allow = a /\ ~l, !.force = f /\ ~l,
                                   !.locked = l, !.stack = <<Frame(Root)>>])
        BY <1>1, <2>3 DEF Start
      <3> HIDE DEF c
      <3>3. ProcsOK'
        BY <3>1, <3>2, StartType, UpdateType DEF ProcsOK
      <3> QED
        BY <1>1, <2>1, <3>3 DEF Start, TypeOK, ProcsOK
    <2> QED
      BY <2>2, <2>3
  <1>2. ASSUME NEW i \in Process, Step(i)
        PROVE  TypeOK'
    <2>1. CASE TreeEnter(i) \/ TreeDescend(i) \/ RunOne(i) \/ TreeDone(i)
      <3>1. ProcsOK'
        BY <2>1, TreeType
      <3> QED
        BY <2>1, <3>1 DEF TreeEnter, TreeDescend, RunOne, TreeDone, TypeOK, ProcsOK
    <2>2. ASSUME NEW ok \in BOOLEAN, NEW a \in Content \cup {Absent},
                 HookEnds(i, ok, a) \/ MarkOpen(i, ok) \/ MarkWrite(i, ok)
          PROVE  TypeOK'
      <3>1. /\ ProcsOK'
            /\ art' \in [Pkg -> Content \cup {Absent}]
            /\ marker' \in [Pkg -> HookHash \cup {Absent, Torn}]
            /\ ran' \in [Pkg -> SUBSET HookHash]
        BY <2>2, HookType
      <3> QED
        BY <2>2, <3>1 DEF HookEnds, MarkOpen, MarkWrite, TypeOK, ProcsOK
    <2>3. CASE CollectEnter(i) \/ CollectPush(i) \/ CollectDone(i)
      <3>1. ProcsOK'
        BY <2>3, CollectType
      <3> QED
        BY <2>3, <3>1 DEF CollectEnter, CollectPush, CollectDone, TypeOK, ProcsOK
    <2>4. ASSUME NEW ok \in BOOLEAN,
                 HashNode(i) \/ LockOpen(i, ok) \/ LockWrite(i, ok)
                   \/ VerifyRead(i) \/ VerifyNode(i) \/ VerifyDone(i)
          PROVE  TypeOK'
      <3>1. ProcsOK' /\ lock' \in LockFile \cup {Absent, Torn}
        BY <2>4, LockType
      <3> QED
        BY <2>4, <3>1 DEF HashNode, LockOpen, LockWrite, VerifyRead, VerifyNode, VerifyDone,
                          TypeOK, ProcsOK
    <2> QED
      BY <1>2, <2>1, <2>2, <2>3, <2>4 DEF Step
  <1>3. ASSUME NEW i \in Process, Crash(i)
        PROVE  TypeOK'
    <2> DEFINE r == [Idle EXCEPT !.pc = "crashed"]
    <2>1. Idle \in ProcType /\ Idle.stack = <<>>
      BY DEF Idle, ProcType, PC, Entries
    <2>2. r \in ProcType /\ r.pc = "crashed" /\ r.stack = <<>>
      BY <2>1 DEF ProcType, PC
    <2>3. StackOK(r) /\ HookOK(r)
      BY <2>2 DEF StackOK, HookOK
    <2>4. Update(i, r)
      BY <1>3 DEF Crash
    <2> HIDE DEF r
    <2>5. ProcsOK'
      BY <2>2, <2>3, <2>4, UpdateType DEF ProcsOK
    <2> QED
      BY <1>3, <2>5 DEF Crash, TypeOK, ProcsOK
  <1>4. CASE Edit
    <2>1. edits' \in 0..MaxEdits
      BY <1>4 DEF Edit, TypeOK
    <2>2. lock' \in LockFile \cup {Absent, Torn}
      BY <1>4 DEF Edit, TypeOK, LockFile
    <2>3. mod' \in [Pkg -> Manifest \cup {Absent, Bad}]
      BY <1>4 DEF Edit, TypeOK
    <2>4. script' \in [Pkg -> Content \cup {Absent}]
      BY <1>4 DEF Edit, TypeOK
    <2>5. art' \in [Pkg -> Content \cup {Absent}]
      BY <1>4 DEF Edit, TypeOK
    <2> QED
      BY <1>4, <2>1, <2>2, <2>3, <2>4, <2>5 DEF Edit, TypeOK
  <1>5. CASE UNCHANGED vars
    BY <1>5 DEF vars, TypeOK
  <1> QED
    BY <1>1, <1>2, <1>3, <1>4, <1>5 DEF Next

(* Type correctness of install.c and lockfile.c for every package tree      *)
THEOREM TypeCorrect == Spec => []TypeOK
  BY InitType, NextType, PTL DEF Spec

-----------------------------------------------------------------------------
(* MarkerImpliesRan is not inductive: the marker is written from the local  *)
(* hash of the invocation, two steps after the hook ended.  What carries it *)
(* is that the hash belongs to the script the hook is started from, and     *)
(* that it has succeeded by the time the marker is opened.                  *)
KeyOK(r) ==
  LET f == Top(r.stack)
  IN /\ r.pc = "hook" => r.key = HookKey(f.pkg, f.desc.cmd)
     /\ r.pc \in {"mark", "markw"} => r.key \in ran[f.pkg]
HookKeyed == \A i \in Process : KeyOK(proc[i])

MarkerInv == HookKeyed /\ MarkerImpliesRan

(* a step that starts no hook and leaves the scripts and the history alone  *)
(* keeps the keys of all hooks that are under way                           *)
LEMMA KeepsKeys ==
  ASSUME TypeOK, MarkerInv, NEW i \in Process, NEW r, Update(i, r),
         r.pc \notin {"hook", "mark", "markw"},
         UNCHANGED script, \A p \in Pkg : ran[p] \subseteq ran'[p]
  PROVE  HookKeyed'
  <1> SUFFICES ASSUME NEW j \in Process PROVE KeyOK(proc[j])'
    BY DEF HookKeyed
  <1>1. proc \in [Process -> ProcType] /\ proc' = [proc EXCEPT ![i] = r]
    BY DEF TypeOK, Update
  <1>2. CASE j = i
    BY <1>1, <1>2 DEF KeyOK
  <1>3. CASE j # i
    <2>1. proc'[j] = proc[j] /\ KeyOK(proc[j])
      BY <1>1, <1>3 DEF MarkerInv, HookKeyed
    <2>2. proc[j].pc \in {"mark", "markw"} => Top(proc[j].stack).pkg \in Pkg
      <3>1. proc[j].stack \in Seq(FrameType) /\ HookOK(proc[j])
        BY <1>1 DEF TypeOK, ProcType
      <3>2. proc[j].stack # <<>> => Top(proc[j].stack) \in FrameType
        BY <3>1, TopType
      <3> QED
        BY <3>1, <3>2 DEF HookOK, FrameType
    <2> QED
      BY <2>1, <2>2 DEF KeyOK, HookKey, ScriptHash
  <1> QED
    BY <1>2, <1>3

(* a finished command is at "done", whatever its exit status *)
LEMMA FinishPc ==
  ASSUME TypeOK, NEW i \in Process, NEW rc, Finish(i, rc)
  PROVE  proc'[i].pc = "done"
  BY DEF TypeOK, Finish, Update, Idle

(* every step of every invocation, a crash and an edit keep MarkerInv *)
LEMMA NextMarker == TypeOK /\ TypeOK' /\ MarkerInv /\ [Next]_vars => MarkerInv'
  <1> SUFFICES ASSUME TypeOK, TypeOK', MarkerInv, [Next]_vars PROVE MarkerInv'
    OBVIOUS
  <1>0. proc \in [Process -> ProcType] /\ ran \in [Pkg -> SUBSET HookHash]
    BY DEF TypeOK
  <1>1. ASSUME NEW i \in Process, proc'[i].pc \notin {"hook", "mark", "markw"},
               NEW r, Update(i, r), UNCHANGED <<script, ran>>
        PROVE  HookKeyed'
    <2>1. proc'[i] = r
      BY <1>0, <1>1 DEF Update
    <2> QED
      BY <1>1, <2>1, KeepsKeys
  <1>2. ASSUME UNCHANGED <<marker, ran>> PROVE MarkerImpliesRan'
    BY <1>2 DEF MarkerInv, MarkerImpliesRan
  <1>3. ASSUME NEW i \in Process, NEW a \in BOOLEAN, NEW f \in BOOLEAN, NEW l \in BOOLEAN,
               Start(i, a, f, l)
        PROVE  MarkerInv'
    <2>1. proc'[i].pc \in {"done", "slurp", "tree"}
      <3>1. CASE Finish(i, 1)
        BY <3>1, FinishPc
      <3>2. CASE ~Finish(i, 1)
        <4> DEFINE c == IF l THEN "slurp" ELSE "tree"
                   q == [Idle EXCEPT !.pc = c, !.allow = a /\ ~l, !.force = f /\ ~l,
                                     !.locked = l, !.stack = <<Frame(Root)>>]
        <4>1. Update(i, q)
          BY <1>3, <3>2 DEF Start
        <4>2. q.pc = c
          BY DEF Idle
        <4> HIDE DEF q
        <4> QED
          BY <1>0, <4>1, <4>2 DEF Update
      <3> QED
        BY <3>1, <3>2
    <2> QED
      BY <1>1, <1>2, <1>3, <2>1 DEF Start, Finish, MarkerInv
  <1>4. ASSUME NEW i \in Process, Step(i)
        PROVE  MarkerInv'
    <2> DEFINE r == proc[i]
               f == Top(r.stack)
    <2>0. r \in ProcType /\ StackOK(r) /\ HookOK(r) /\ KeyOK(r)
      BY DEF TypeOK, MarkerInv, HookKeyed
    <2>1. CASE TreeEnter(i) \/ TreeDescend(i) \/ TreeDone(i)
      <3>1. proc'[i].pc \in {"tree", "collect", "done"}
        <4>1. CASE TreeEnter(i)
          BY <1>0, <2>0, <4>1 DEF TreeEnter, Update, ProcType
        <4>2. CASE TreeDescend(i)
          BY <1>0, <2>0, <4>2 DEF TreeDescend, Update, ProcType
        <4>3. CASE TreeDone(i)
          <5>1. CASE Finish(i, 1)
            BY <5>1, FinishPc
          <5>2. CASE Update(i, [proc[i] EXCEPT !.pc = "collect", !.stack = <<Frame(Root)>>])
            BY <1>0, <2>0, <5>2 DEF Update, ProcType
          <5> QED
            BY <4>3, <5>1, <5>2, Zenon DEF TreeDone
        <4> QED
          BY <2>1, <4>1, <4>2, <4>3
      <3> QED
        BY <1>1, <1>2, <2>1, <3>1 DEF TreeEnter, TreeDescend, TreeDone, Finish, MarkerInv
    <2>2. CASE RunOne(i)
      <3>1. UNCHANGED <<script, ran, marker>>
        BY <2>2 DEF RunOne
      <3>2. PICK q : Update(i, q)
        BY <2>2 DEF RunOne
      <3>3. CASE proc'[i].pc # "hook"
        <4>1. proc'[i].pc = "tree"
          BY <1>0, <2>0, <2>2, <3>3 DEF RunOne, Update, ProcType
        <4> QED
          BY <1>1, <1>2, <3>1, <3>2, <4>1 DEF MarkerInv
      <3>4. CASE proc'[i].pc = "hook"
        <4>1. proc' = [proc EXCEPT ![i] = [r EXCEPT !.pc = "hook", !.key = HookKey(f.pkg, f.desc.cmd)]]
          BY <1>0, <2>0, <2>2, <3>4 DEF RunOne, Update, ProcType
        <4>2. proc'[i].stack = r.stack /\ proc'[i].key = HookKey(f.pkg, f.desc.cmd)
          BY <1>0, <2>0, <4>1 DEF ProcType
        <4>3. KeyOK(proc[i])'
          BY <3>1, <3>4, <4>2 DEF KeyOK, HookKey, ScriptHash
        <4>4. ASSUME NEW j \in Process, j # i PROVE KeyOK(proc[j])'
          <5>1. proc'[j] = proc[j] /\ KeyOK(proc[j])
            BY <1>0, <4>1, <4>4 DEF MarkerInv, HookKeyed
          <5> QED
            BY <3>1, <5>1 DEF KeyOK, HookKey, ScriptHash
        <4> QED
          BY <1>2, <3>1, <4>3, <4>4 DEF MarkerInv, HookKeyed
      <3> QED
        BY <3>3, <3>4
    <2>3. ASSUME NEW ok \in BOOLEAN, NEW a \in Content \cup {Absent}, HookEnds(i, ok, a)
          PROVE  MarkerInv'
      <3>1. r.pc = "hook" /\ r.key = HookKey(f.pkg, f.desc.cmd) /\ f.pkg \in Pkg
        <4>1. r.stack \in Seq(FrameType)
          BY <2>0 DEF ProcType
        <4>2. r.pc = "hook" /\ r.stack # <<>>
          BY <2>0, <2>3 DEF HookEnds, HookOK
        <4>3. f \in FrameType
          BY <4>1, <4>2, TopType
        <4> QED
          BY <2>0, <4>2, <4>3 DEF KeyOK, FrameType
      <3>2. UNCHANGED <<script, marker>> /\ \A p \in Pkg : ran[p] \subseteq ran'[p]
        BY <1>0, <2>3, <3>1 DEF HookEnds
      <3>3. MarkerImpliesRan'
        BY <3>2 DEF MarkerInv, MarkerImpliesRan
      <3>4. CASE ok
        <4>1. proc' = [proc EXCEPT ![i] = [r EXCEPT !.pc = "mark"]]
          BY <2>3, <3>4 DEF HookEnds, Update
        <4>2. proc'[i].stack = r.stack /\ proc'[i].key = r.key /\ proc'[i].pc = "mark"
          BY <1>0, <2>0, <4>1 DEF ProcType
        <4>3. r.key \in ran'[f.pkg]
          BY <1>0, <2>3, <3>1, <3>4 DEF HookEnds
        <4>4. KeyOK(proc[i])'
          BY <4>2, <4>3 DEF KeyOK
        <4>5. ASSUME NEW j \in Process, j # i PROVE KeyOK(proc[j])'
          <5>1. proc'[j] = proc[j] /\ KeyOK(proc[j])
            BY <1>0, <4>1, <4>5 DEF MarkerInv, HookKeyed
          <5>2. proc[j].pc \in {"mark", "markw"} => Top(proc[j].stack).pkg \in Pkg
            <6>1. proc[j].stack \in Seq(FrameType) /\ HookOK(proc[j])
              BY DEF TypeOK, ProcType
            <6>2. proc[j].stack # <<>> => Top(proc[j].stack) \in FrameType
              BY <6>1, TopType
            <6> QED
              BY <6>1, <6>2 DEF HookOK, FrameType
          <5> QED
            BY <3>2, <5>1, <5>2 DEF KeyOK, HookKey, ScriptHash
        <4> QED
          BY <3>3, <4>4, <4>5 DEF MarkerInv, HookKeyed
      <3>5. CASE ~ok
        <4> DEFINE q == [r EXCEPT !.pc = "tree", !.failed = TRUE, !.stack = Pop(r.stack)]
        <4>1. Update(i, q)
          BY <2>3, <3>5 DEF HookEnds
        <4>2. q.pc = "tree"
          BY <2>0 DEF ProcType
        <4> HIDE DEF q
        <4>3. HookKeyed'
          BY <3>2, <4>1, <4>2, KeepsKeys
        <4> QED
          BY <3>3, <4>3 DEF MarkerInv
      <3> QED
        BY <3>4, <3>5
    <2>4. ASSUME NEW ok \in BOOLEAN, MarkOpen(i, ok)
          PROVE  MarkerInv'
      <3>1. UNCHANGED <<script, ran>>
        BY <2>4 DEF MarkOpen
      <3>2. MarkerImpliesRan'
        BY <2>4, InstallAssumption DEF MarkOpen, MarkerInv, MarkerImpliesRan, TypeOK
      <3>3. CASE ok
        <4>1. proc' = [proc EXCEPT ![i] = [r EXCEPT !.pc = "markw"]] /\ r.pc = "mark"
          BY <2>4, <3>3 DEF MarkOpen, Update
        <4>2. proc'[i].stack = r.stack /\ proc'[i].key = r.key /\ proc'[i].pc = "markw"
          BY <1>0, <2>0, <4>1 DEF ProcType
        <4>3. KeyOK(proc[i])'
          BY <2>0, <3>1, <4>1, <4>2 DEF KeyOK
        <4>4. ASSUME NEW j \in Process, j # i PROVE KeyOK(proc[j])'
          <5>1. proc'[j] = proc[j] /\ KeyOK(proc[j])
            BY <1>0, <4>1, <4>4 DEF MarkerInv, HookKeyed
          <5> QED
            BY <3>1, <5>1 DEF KeyOK, HookKey, ScriptHash
        <4> QED
          BY <3>2, <4>3, <4>4 DEF MarkerInv, HookKeyed
      <3>4. CASE ~ok
        <4> DEFINE q == [r EXCEPT !.pc = "tree", !.failed = TRUE, !.stack = Pop(r.stack)]
        <4>1. Update(i, q)
          BY <2>4, <3>4 DEF MarkOpen
        <4>2. q.pc = "tree"
          BY <2>0 DEF ProcType
        <4> HIDE DEF q
        <4>3. HookKeyed'
          BY <3>1, <4>1, <4>2, KeepsKeys
        <4> QED
          BY <3>2, <4>3 DEF MarkerInv
      <3> QED
        BY <3>3, <3>4
    <2>5. ASSUME NEW ok \in BOOLEAN, MarkWrite(i, ok)
          PROVE  MarkerInv'
      <3> DEFINE q == [r EXCEPT !.pc = "tree", !.stack = Pop(r.stack)]
      <3>1. Update(i, q) /\ UNCHANGED <<script, ran>> /\ r.key \in ran[f.pkg]
        BY <2>0, <2>5 DEF MarkWrite, KeyOK
      <3>2. q.pc = "tree"
        BY <2>0 DEF ProcType
      <3> HIDE DEF q
      <3>3. HookKeyed'
        BY <3>1, <3>2, KeepsKeys
      <3>4. MarkerImpliesRan'
        BY <2>5, <3>1, InstallAssumption DEF MarkWrite, MarkerInv, MarkerImpliesRan, TypeOK
      <3> QED
        BY <3>3, <3>4 DEF MarkerInv
    <2>6. CASE CollectEnter(i) \/ CollectPush(i) \/ CollectDone(i)
      <3>1. proc'[i].pc \in {"collect", "hash", "verify", "done"}
        <4>1. CASE CollectEnter(i)
          BY <1>0, <2>0, <4>1, FinishPc DEF CollectEnter, Update, ProcType
        <4>2. CASE CollectPush(i)
          BY <1>0, <2>0, <4>2 DEF CollectPush, Update, ProcType
        <4>3. CASE CollectDone(i)
          BY <1>0, <2>0, <4>3, FinishPc DEF CollectDone, Update, ProcType
        <4> QED
          BY <2>6, <4>1, <4>2, <4>3
      <3>2. UNCHANGED <<script, ran, marker>> /\ \E q : Update(i, q)
        BY <2>6 DEF CollectEnter, CollectPush, CollectDone, Finish
      <3> QED
        BY <1>1, <1>2, <3>1, <3>2 DEF MarkerInv
    <2>7. ASSUME NEW ok \in BOOLEAN, HashNode(i) \/ LockOpen(i, ok) \/ LockWrite(i, ok)
                   \/ VerifyRead(i) \/ VerifyNode(i) \/ VerifyDone(i)
          PROVE  MarkerInv'
      <3>1. proc'[i].pc \in {"hash", "lockw", "collect", "verify", "done"}
        <4>1. CASE HashNode(i)
          BY <1>0, <2>0, <4>1, FinishPc DEF HashNode, Update, ProcType
        <4>2. CASE LockOpen(i, ok) \/ LockWrite(i, ok)
          BY <1>0, <2>0, <4>2, FinishPc DEF LockOpen, LockWrite, Update, ProcType
        <4>3. CASE VerifyRead(i) \/ VerifyDone(i)
          BY <1>0, <2>0, <4>3, FinishPc DEF VerifyRead, VerifyDone, Update, ProcType
        <4>4. CASE VerifyNode(i)
          BY <1>0, <2>0, <4>4, FinishPc DEF VerifyNode, Update, ProcType
        <4> QED
          BY <2>7, <4>1, <4>2, <4>3, <4>4
      <3>2. UNCHANGED <<script, ran, marker>> /\ \E q : Update(i, q)
        BY <2>7 DEF HashNode, LockOpen, LockWrite, VerifyRead, VerifyNode, VerifyDone, Finish
      <3> QED
        BY <1>1, <1>2, <3>1, <3>2 DEF MarkerInv
    <2> QED
      BY <1>4, <2>1, <2>2, <2>3, <2>4, <2>5, <2>6, <2>7 DEF Step
  <1>5. ASSUME NEW i \in Process, Crash(i)
        PROVE  MarkerInv'
    <2>1. proc'[i].pc = "crashed"
      BY <1>0, <1>5 DEF Crash, Update, Idle
    <2> QED
      BY <1>1, <1>2, <1>5, <2>1 DEF Crash, MarkerInv
  <1>6. CASE Edit
    <2>1. ASSUME NEW j \in Process PROVE KeyOK(proc[j])'
      <3>1. proc' = proc /\ ~Active(j) /\ KeyOK(proc[j]) /\ ran' = ran
        BY <1>6 DEF Edit, MarkerInv, HookKeyed
      <3> QED
        BY <3>1 DEF KeyOK, Active
    <2> QED
      BY <1>2, <1>6, <2>1 DEF Edit, MarkerInv, HookKeyed
  <1>7. CASE UNCHANGED vars
    BY <1>7 DEF vars, MarkerInv, MarkerImpliesRan, HookKeyed, KeyOK, HookKey, ScriptHash
  <1> QED
    BY <1>3, <1>4, <1>5, <1>6, <1>7 DEF Next

(* A complete postinstall.ok always names a hook that ended with status 0.  *)
THEOREM MarkerCorrect == Spec => []MarkerImpliesRan
  <1>1. Init => MarkerInv
    BY InstallAssumption DEF Init, MarkerInv, HookKeyed, KeyOK, MarkerImpliesRan, Idle
  <1>2. MarkerInv => MarkerImpliesRan
    BY DEF MarkerInv
  <1> QED
    BY <1>1, <1>2, TypeCorrect, NextMarker, PTL DEF Spec

-----------------------------------------------------------------------------
(* The two recursions over the tree.  install_tree is silent about what     *)
(* lies too deep, collect_packages fails on it: what joins them is that     *)
(* what the calls on the stack have not visited yet is all that is missing  *)
(* from the packages near the root, while nothing has failed.               *)

(* the packages whose manifest is good and whose hook, if any, has          *)
(* succeeded in its present form                                            *)
Done == {p \in Pkg : /\ mod[p] \in Manifest
                     /\ mod[p].cmd # NoCmd => HookKey(p, mod[p].cmd) \in ran[p]}

(* the packages of a todo list, and the subdirectories of deps/ *)
Elems(q)  == {q[k] : k \in 1..Len(q)}
DepsOf(p) == Elems(Deps[p])

(* the packages at most n levels of deps/ below p, p included, that are     *)
(* reached through packages with a clux.mod; m stands for mod               *)
Near(m, p, n) ==
  {q \in Pkg : \E s \in Seq(Pkg) :
     /\ Len(s) \in 1..(n + 1) /\ s[1] = p /\ s[Len(s)] = q
     /\ \A k \in 1..Len(s) : m[s[k]] # Absent
     /\ \A k \in 1..(Len(s) - 1) : s[k + 1] \in DepsOf(s[k])}

(* what the call of frame f, with n levels left, has still to visit         *)
Owed(m, f, n) ==
  IF ~f.loaded THEN Near(m, f.pkg, n)
  ELSE {f.pkg} \cup UNION {Near(m, d, n - 1) : d \in Elems(f.todo)}

(* every package near the root is done or owed by a call on the stack s    *)
Covered(s, m, done) ==
  \A q \in Near(m, Root, InstallMaxDepth) :
    q \in done \/ \E k \in 1..Len(s) : q \in Owed(m, s[k], InstallMaxDepth + 1 - k)

(* a dependency of a package on the stack is done, still to come, or being  *)
(* visited by the next call                                                 *)
ChildrenFirst(s, m, done) ==
  \A k \in 1..Len(s) : s[k].loaded /\ k <= InstallMaxDepth =>
    \A d \in DepsOf(s[k].pkg) : m[d] # Absent =>
      d \in done \/ d \in Elems(s[k].todo) \/ (k < Len(s) /\ s[k + 1].pkg = d)

(* the k-th call is of a package k - 1 levels below the root                *)
FrameOK(f, k, m) ==
  /\ f.pkg \in Near(m, Root, k - 1)
  /\ Elems(f.todo) \subseteq DepsOf(f.pkg)
  /\ f.loaded => f.desc = m[f.pkg] /\ k <= InstallMaxDepth + 1

FramesOK(s, m) == \A k \in 1..Len(s) : FrameOK(s[k], k, m)

TreePC == {"tree", "hook", "mark", "markw"}

(* what holds of an invocation r between its start and its end              *)
WalkOK(r, m, done) ==
  /\ m[Root] # Absent
  /\ FramesOK(r.stack, m)
  /\ r.pc \in TreePC \cup {"hash", "lockw"} => ~r.locked
  /\ r.pc \in {"slurp", "verify"} => r.locked
  /\ r.pc \in TreePC /\ ~r.failed =>
       Covered(r.stack, m, done) /\ ChildrenFirst(r.stack, m, done)
  /\ r.pc \in {"hook", "mark", "markw"} => Top(r.stack).todo = <<>>
  /\ r.pc \in {"mark", "markw"} => Top(r.stack).pkg \in done
  /\ r.pc = "collect" /\ ~r.locked => Near(m, Root, InstallMaxDepth) \subseteq done
  /\ ~r.locked => \A k \in 1..Len(r.nodes) :
       r.nodes[k].pkg \in done /\ r.nodes[k].desc = m[r.nodes[k].pkg]

(* what pkgs lists vouches for its hooks; h stands for ran                  *)
PkgsOK(pkgs, h) ==
  \A p \in Pkg : pkgs[p] # Absent /\ pkgs[p].cmd # NoCmd => <<pkgs[p].cmd, pkgs[p].scr>> \in h[p]

(* the inductive invariant *)
RecOK(r, m, done, h) ==
  r.pc \notin {"idle", "done", "crashed"} =>
    WalkOK(r, m, done) /\ (~r.locked => PkgsOK(r.pkgs, h))

WalkInv ==
  /\ \A i \in Process : RecOK(proc[i], mod, Done, ran)
  /\ lock \in LockFile => PkgsOK(lock.pkgs, ran)

(* the first step of a path: to be near p is to be p or to be near a        *)
(* dependency of p                                                          *)
LEMMA NearFirst ==
  ASSUME NEW m, NEW p \in Pkg, NEW n \in Int, NEW q \in Near(m, p, n)
  PROVE  /\ n >= 0
         /\ q = p \/ \E d \in DepsOf(p) : m[d] # Absent /\ q \in Near(m, d, n - 1)
  <1>1. PICK s \in Seq(Pkg) :
          /\ Len(s) \in 1..(n + 1) /\ s[1] = p /\ s[Len(s)] = q
          /\ \A k \in 1..Len(s) : m[s[k]] # Absent
          /\ \A k \in 1..(Len(s) - 1) : s[k + 1] \in DepsOf(s[k])
    BY DEF Near
  <1>2. CASE Len(s) = 1
    BY <1>1, <1>2
  <1>3. CASE Len(s) # 1
    <2> DEFINE t == Tail(s)
    <2>1. /\ t \in Seq(Pkg) /\ Len(t) = Len(s) - 1
          /\ \A k \in 1..Len(t) : t[k] = s[k + 1]
      BY <1>1
    <2> HIDE DEF t
    <2>2. s[2] \in DepsOf(p) /\ m[s[2]] # Absent
      <3>1. Len(s) \in Nat /\ Len(s) >= 1
        BY <1>1
      <3> DEFINE l == Len(s)
      <3>2. 1 \in 1..(Len(s) - 1) /\ 2 \in 1..Len(s)
        <4>1. l \in Nat /\ l >= 1 /\ l # 1
          BY <1>3, <3>1
        <4> HIDE DEF l
        <4>2. 1 \in 1..(l - 1) /\ 2 \in 1..l
          BY <4>1
        <4> QED
          BY <4>2 DEF l
      <3>3. s[1 + 1] \in DepsOf(s[1])
        BY <1>1, <3>2
      <3> QED
        BY <1>1, <3>2, <3>3
    <2>3. t[1] = s[2] /\ t[Len(t)] = q /\ Len(t) \in 1..(n - 1 + 1) /\ q \in Pkg
      BY <1>1, <1>3, <2>1 DEF Near
    <2>4. \A k \in 1..Len(t) : m[t[k]] # Absent
      BY <1>1, <2>1
    <2>5. \A k \in 1..(Len(t) - 1) : t[k + 1] \in DepsOf(t[k])
      BY <1>1, <2>1
    <2>6. q \in Near(m, s[2], n - 1)
      BY <2>1, <2>3, <2>4, <2>5 DEF Near
    <2> QED
      BY <1>1, <2>2, <2>6
  <1> QED
    BY <1>2, <1>3

(* a package is near itself *)
LEMMA NearSelf ==
  ASSUME NEW m, NEW p \in Pkg, NEW n \in Nat, m[p] # Absent
  PROVE  p \in Near(m, p, n)
  <1> DEFINE s == <<p>>
  <1>1. s \in Seq(Pkg) /\ Len(s) = 1 /\ s[1] = p
    OBVIOUS
  <1> HIDE DEF s
  <1>2. Len(s) \in 1..(n + 1) /\ s[Len(s)] = p
    BY <1>1
  <1>3. \A k \in 1..Len(s) : m[s[k]] # Absent
    BY <1>1
  <1>4. \A k \in 1..(Len(s) - 1) : s[k + 1] \in DepsOf(s[k])
    BY <1>1
  <1> QED
    BY <1>1, <1>2, <1>3, <1>4 DEF Near

(* the last step of a path *)
LEMMA NearLast ==
  ASSUME NEW m, NEW p \in Pkg, NEW n \in Nat, NEW q \in Near(m, p, n),
         NEW d \in DepsOf(q), d \in Pkg, m[d] # Absent
  PROVE  d \in Near(m, p, n + 1)
  <1>1. PICK s \in Seq(Pkg) :
          /\ Len(s) \in 1..(n + 1) /\ s[1] = p /\ s[Len(s)] = q
          /\ \A k \in 1..Len(s) : m[s[k]] # Absent
          /\ \A k \in 1..(Len(s) - 1) : s[k + 1] \in DepsOf(s[k])
    BY DEF Near
  <1> DEFINE t == Append(s, d)
  <1>2. /\ t \in Seq(Pkg) /\ Len(t) = Len(s) + 1
        /\ \A k \in 1..Len(t) : t[k] = IF k = Len(s) + 1 THEN d ELSE s[k]
    BY <1>1
  <1> HIDE DEF t
  <1>3. Len(t) \in 1..(n + 1 + 1) /\ t[1] = p /\ t[Len(t)] = d
    BY <1>1, <1>2
  <1>4. \A k \in 1..Len(t) : m[t[k]] # Absent
    BY <1>1, <1>2
  <1>5. \A k \in 1..(Len(t) - 1) : t[k + 1] \in DepsOf(t[k])
    BY <1>1, <1>2
  <1> QED
    BY <1>2, <1>3, <1>4, <1>5 DEF Near

(* what is near within k levels is near within n *)
LEMMA NearMore ==
  ASSUME NEW m, NEW p \in Pkg, NEW k \in Int, NEW n \in Int, k <= n
  PROVE  Near(m, p, k) \subseteq Near(m, p, n)
  BY DEF Near

(* the dependencies of a package are packages *)
LEMMA DepsType == \A p \in Pkg : DepsOf(p) \subseteq Pkg
  BY InstallAssumption DEF DepsOf, Elems

(* a step of another invocation can only make more packages done            *)
LEMMA WalkMore ==
  ASSUME NEW r, NEW m, NEW d1, NEW d2, WalkOK(r, m, d1), d1 \subseteq d2
  PROVE  WalkOK(r, m, d2)
  <1>1. Covered(r.stack, m, d1) => Covered(r.stack, m, d2)
    BY DEF Covered
  <1>2. ChildrenFirst(r.stack, m, d1) => ChildrenFirst(r.stack, m, d2)
    BY DEF ChildrenFirst
  <1> QED
    BY <1>1, <1>2 DEF WalkOK

(* the first call of the recursion has everything still to visit            *)
LEMMA StartWalk ==
  ASSUME NEW m, NEW done, m[Root] # Absent
  PROVE  LET s == <<Frame(Root)>>
         IN FramesOK(s, m) /\ Covered(s, m, done) /\ ChildrenFirst(s, m, done)
  <1> DEFINE s == <<Frame(Root)>>
             f == Frame(Root)
  <1>1. Len(s) = 1 /\ s[1] = f
    OBVIOUS
  <1>2. f.pkg = Root /\ f.todo = <<>> /\ ~f.loaded
    BY DEF Frame
  <1> HIDE DEF s, f
  <1>3. Root \in Near(m, Root, 0)
    BY InstallAssumption, NearSelf
  <1>4. FramesOK(s, m)
    BY <1>1, <1>2, <1>3 DEF FramesOK, FrameOK, Elems
  <1>5. Covered(s, m, done)
    <2>1. Owed(m, s[1], InstallMaxDepth + 1 - 1) = Near(m, Root, InstallMaxDepth)
      BY <1>1, <1>2, InstallAssumption DEF Owed
    <2> QED
      BY <1>1, <2>1 DEF Covered
  <1>6. ChildrenFirst(s, m, done)
    BY <1>1, <1>2 DEF ChildrenFirst
  <1> QED
    BY <1>4, <1>5, <1>6 DEF s, f

(* a return of a call that was too deep, or whose package is now done       *)
LEMMA PopWalk ==
  ASSUME NEW m, NEW done, NEW s \in Seq(FrameType), s # <<>>, FramesOK(s, m)
  PROVE  /\ FramesOK(Pop(s), m)
         /\ /\ Covered(s, m, done) /\ ChildrenFirst(s, m, done)
            /\ \/ Len(s) > InstallMaxDepth + 1
               \/ Top(s).loaded /\ Top(s).todo = <<>> /\ Top(s).pkg \in done
            => Covered(Pop(s), m, done) /\ ChildrenFirst(Pop(s), m, done)
  <1> DEFINE t == Pop(s)
             l == Len(s)
  <1>1. /\ l \in Nat \ {0} /\ Len(t) = l - 1
        /\ \A k \in 1..(l - 1) : t[k] = s[k]
    <2>1. l \in Nat /\ l \in 1..l
      BY TopType
    <2> QED
      BY <2>1, PopType
  <1> HIDE DEF t
  <1>2. FramesOK(t, m)
    BY <1>1 DEF FramesOK
  <1>3. ASSUME Covered(s, m, done), ChildrenFirst(s, m, done),
               \/ l > InstallMaxDepth + 1
               \/ s[l].loaded /\ s[l].todo = <<>> /\ s[l].pkg \in done
        PROVE  Covered(t, m, done) /\ ChildrenFirst(t, m, done)
    <2>1. s[l] \in FrameType /\ InstallMaxDepth \in Nat
      BY <1>1, InstallAssumption
    <2>2. Owed(m, s[l], InstallMaxDepth + 1 - l) \subseteq done
      <3>1. CASE s[l].loaded
        <4>1. s[l].todo = <<>> /\ s[l].pkg \in done
          <5>1. l <= InstallMaxDepth + 1
            BY <1>1, <3>1 DEF FramesOK, FrameOK
          <5> QED
            BY <1>1, <1>3, <2>1, <5>1
        <4> QED
          BY <3>1, <4>1 DEF Owed, Elems
      <3>2. CASE ~s[l].loaded
        <4>1. InstallMaxDepth + 1 - l \in Int /\ ~(InstallMaxDepth + 1 - l >= 0)
          BY <1>1, <1>3, <2>1, <3>2
        <4>2. s[l].pkg \in Pkg
          BY <2>1 DEF FrameType
        <4>3. Near(m, s[l].pkg, InstallMaxDepth + 1 - l) = {}
          BY <4>1, <4>2, NearFirst
        <4> QED
          BY <3>2, <4>3 DEF Owed
      <3> QED
        BY <3>1, <3>2
    <2>3. Covered(t, m, done)
      <3> SUFFICES ASSUME NEW q \in Near(m, Root, InstallMaxDepth), q \notin done
                   PROVE  \E k \in 1..Len(t) : q \in Owed(m, t[k], InstallMaxDepth + 1 - k)
        BY DEF Covered
      <3>1. PICK k \in 1..l : q \in Owed(m, s[k], InstallMaxDepth + 1 - k)
        BY <1>3 DEF Covered
      <3>2. k # l
        BY <2>2, <3>1
      <3> QED
        BY <1>1, <3>1, <3>2
    <2>4. ChildrenFirst(t, m, done)
      <3> SUFFICES ASSUME NEW k \in 1..Len(t), t[k].loaded, k <= InstallMaxDepth,
                          NEW d \in DepsOf(t[k].pkg), m[d] # Absent,
                          d \notin done, d \notin Elems(t[k].todo)
                   PROVE  k < Len(t) /\ t[k + 1].pkg = d
        BY DEF ChildrenFirst
      <3>1. k \in 1..l /\ k < l /\ t[k] = s[k]
        BY <1>1
      <3>2. s[k + 1].pkg = d
        BY <1>3, <3>1 DEF ChildrenFirst
      <3>3. k + 1 # l
        BY <1>1, <1>3, <2>1, <3>1, <3>2
      <3> QED
        BY <1>1, <3>1, <3>2, <3>3
    <2> QED
      BY <2>3, <2>4
  <1> QED
    BY <1>2, <1>3 DEF t, Top

(* the call has loaded its package: its dependencies are still to visit     *)
LEMMA LoadWalk ==
  ASSUME NEW m, NEW done, NEW s \in Seq(FrameType), s # <<>>, FramesOK(s, m),
         ~Top(s).loaded, Len(s) <= InstallMaxDepth + 1,
         NEW g \in FrameType, g.pkg = Top(s).pkg, g.todo = Deps[g.pkg], g.loaded,
         g.desc = m[g.pkg]
  PROVE  /\ FramesOK(SetTop(s, g), m)
         /\ Covered(s, m, done) /\ ChildrenFirst(s, m, done)
            => Covered(SetTop(s, g), m, done) /\ ChildrenFirst(SetTop(s, g), m, done)
  <1> DEFINE t == SetTop(s, g)
             l == Len(s)
  <1>1. /\ l \in Nat \ {0} /\ Len(t) = l
        /\ \A k \in 1..l : t[k] = IF k = l THEN g ELSE s[k]
    <2>1. l \in Nat \ {0}
      BY TopType
    <2>2. Len(t) = l /\ \A k \in 1..l : t[k] = IF k = l THEN g ELSE s[k]
      BY SetTopType
    <2> QED
      BY <2>1, <2>2
  <1>2. s[l].pkg = g.pkg /\ ~s[l].loaded /\ g.pkg \in Pkg /\ Elems(g.todo) = DepsOf(g.pkg)
    BY DEF Top, FrameType, DepsOf
  <1> HIDE DEF t
  <1>3. FramesOK(t, m)
    <2>1. FrameOK(s[l], l, m) /\ l <= InstallMaxDepth + 1
      BY <1>1 DEF FramesOK
    <2>2. FrameOK(g, l, m)
      BY <1>2, <2>1 DEF FrameOK
    <2> QED
      BY <1>1, <2>2 DEF FramesOK
  <1>4. ASSUME Covered(s, m, done), ChildrenFirst(s, m, done)
        PROVE  Covered(t, m, done) /\ ChildrenFirst(t, m, done)
    <2>1. Owed(m, s[l], InstallMaxDepth + 1 - l) \subseteq Owed(m, g, InstallMaxDepth + 1 - l)
      <3> DEFINE n == InstallMaxDepth + 1 - l
      <3>1. n \in Int
        BY <1>1, InstallAssumption
      <3> HIDE DEF n
      <3>2. \A q \in Near(m, g.pkg, n) :
              q = g.pkg \/ \E d \in Elems(g.todo) : q \in Near(m, d, n - 1)
        BY <1>2, <3>1, NearFirst
      <3>3. Owed(m, s[l], n) = Near(m, g.pkg, n)
        BY <1>2 DEF Owed
      <3>4. Owed(m, g, n) = {g.pkg} \cup UNION {Near(m, d, n - 1) : d \in Elems(g.todo)}
        BY DEF Owed
      <3> QED
        BY <3>2, <3>3, <3>4 DEF n
    <2>2. Covered(t, m, done)
      BY <1>1, <1>4, <2>1 DEF Covered
    <2>3. ChildrenFirst(t, m, done)
      <3> SUFFICES ASSUME NEW k \in 1..l, t[k].loaded, k <= InstallMaxDepth,
                          NEW d \in DepsOf(t[k].pkg), m[d] # Absent
                   PROVE  d \in done \/ d \in Elems(t[k].todo) \/ (k < l /\ t[k + 1].pkg = d)
        BY <1>1 DEF ChildrenFirst
      <3>1. CASE k = l
        BY <1>1, <1>2, <3>1
      <3>2. CASE k # l
        <4>1. t[k] = s[k] /\ k + 1 \in 1..l /\ t[k + 1].pkg = s[k + 1].pkg
          BY <1>1, <1>2, <3>2
        <4> QED
          BY <1>4, <4>1 DEF ChildrenFirst
      <3> QED
        BY <3>1, <3>2
    <2> QED
      BY <2>2, <2>3
  <1> QED
    BY <1>3, <1>4 DEF t

(* the loop goes on to the next subdirectory of deps/: one without a        *)
(* clux.mod is skipped, for another the recursive call has it to visit      *)
LEMMA DescendWalk ==
  ASSUME NEW m, NEW done, NEW s \in Seq(FrameType), s # <<>>, FramesOK(s, m),
         Top(s).loaded, Top(s).todo # <<>>
  PROVE  LET d == Head(Top(s).todo)
             t == SetTop(s, [Top(s) EXCEPT !.todo = Tail(@)])
             u == IF m[d] = Absent THEN t ELSE Append(t, Frame(d))
         IN /\ FramesOK(u, m)
            /\ Covered(s, m, done) /\ ChildrenFirst(s, m, done)
               => Covered(u, m, done) /\ ChildrenFirst(u, m, done)
  <1> DEFINE f == Top(s)
             d == Head(f.todo)
             g == [f EXCEPT !.todo = Tail(@)]
             t == SetTop(s, g)
             u == IF m[d] = Absent THEN t ELSE Append(t, Frame(d))
             l == Len(s)
  <1>1. f \in FrameType /\ l \in Nat \ {0} /\ f = s[l]
    BY TopType DEF Top
  <1>2. f.todo \in Seq(Pkg) /\ f.todo # <<>> /\ f.pkg \in Pkg
    BY <1>1 DEF FrameType
  <1> HIDE DEF f
  <1>3. /\ d \in Pkg /\ Tail(f.todo) \in Seq(Pkg)
        /\ Elems(f.todo) = {d} \cup Elems(Tail(f.todo))
    <2> DEFINE w == f.todo
    <2>0. w \in Seq(Pkg) /\ w # <<>>
      BY <1>2
    <2> HIDE DEF w
    <2>1. Tail(w) \in Seq(Pkg) /\ Head(w) \in Pkg /\ Len(w) \in Nat \ {0}
      BY <2>0
    <2>2. Len(Tail(w)) = Len(w) - 1 /\ \A k \in 1..(Len(w) - 1) : Tail(w)[k] = w[k + 1]
      BY <2>0
    <2>3. Head(w) = w[1]
      BY <2>0
    <2>4. ASSUME NEW k \in 1..Len(w), k # 1 PROVE w[k] \in Elems(Tail(w))
      <3>1. k - 1 \in 1..(Len(w) - 1) /\ Tail(w)[k - 1] = w[k]
        BY <2>1, <2>2, <2>4
      <3> QED
        BY <2>2, <3>1 DEF Elems
    <2>5. ASSUME NEW k \in 1..Len(Tail(w)) PROVE Tail(w)[k] \in Elems(w)
      BY <2>1, <2>2 DEF Elems
    <2>6. Elems(w) = {Head(w)} \cup Elems(Tail(w))
      <3>1. Head(w) \in Elems(w)
        BY <2>1, <2>3 DEF Elems
      <3>2. \A x \in Elems(w) : x = Head(w) \/ x \in Elems(Tail(w))
        BY <2>3, <2>4 DEF Elems
      <3>3. \A x \in Elems(Tail(w)) : x \in Elems(w)
        <4> SUFFICES ASSUME NEW x \in Elems(Tail(w)) PROVE x \in Elems(w)
          OBVIOUS
        <4>1. PICK k \in 1..Len(Tail(w)) : x = Tail(w)[k]
          BY DEF Elems
        <4> QED
          BY <2>5, <4>1
      <3> QED
        BY <3>1, <3>2, <3>3
    <2> QED
      BY <2>1, <2>6 DEF w
  <1>4. /\ g \in FrameType /\ g.pkg = f.pkg /\ g.loaded = f.loaded /\ g.desc = f.desc
        /\ g.todo = Tail(f.todo)
    BY <1>1, <1>3 DEF FrameType
  <1> HIDE DEF g
  <1>5. /\ t \in Seq(FrameType) /\ Len(t) = l
        /\ \A k \in 1..l : t[k] = IF k = l THEN g ELSE s[k]
    BY <1>4, SetTopType
  <1> HIDE DEF t
  <1>6. f.loaded /\ FrameOK(f, l, m)
    BY <1>1 DEF f, FramesOK
  <1>7. FramesOK(t, m)
    <2>1. FrameOK(g, l, m)
      BY <1>3, <1>4, <1>6 DEF FrameOK
    <2> QED
      BY <1>1, <1>5, <2>1 DEF FramesOK
  <1>8. CASE m[d] = Absent
    <2>1. u = t
      BY <1>8
    <2>2. ASSUME Covered(s, m, done) PROVE Covered(t, m, done)
      <3> DEFINE n == InstallMaxDepth + 1 - l
      <3>1. n - 1 \in Int
        BY <1>1, InstallAssumption
      <3> HIDE DEF n
      <3>2. Near(m, d, n - 1) = {}
        BY <1>8 DEF Near
      <3>3. Owed(m, f, n) \subseteq Owed(m, g, n)
        BY <1>3, <1>4, <1>6, <3>2 DEF Owed
      <3> QED
        BY <1>1, <1>5, <2>2, <3>3 DEF Covered, n
    <2>3. ASSUME ChildrenFirst(s, m, done) PROVE ChildrenFirst(t, m, done)
      <3> SUFFICES ASSUME NEW k \in 1..l, t[k].loaded, k <= InstallMaxDepth,
                          NEW e \in DepsOf(t[k].pkg), m[e] # Absent
                   PROVE  e \in done \/ e \in Elems(t[k].todo) \/ (k < l /\ t[k + 1].pkg = e)
        BY <1>5 DEF ChildrenFirst
      <3>1. CASE k = l
        <4>1. e \in done \/ e \in Elems(f.todo)
          BY <1>1, <1>4, <1>5, <1>6, <2>3, <3>1 DEF ChildrenFirst
        <4> QED
          BY <1>3, <1>4, <1>5, <1>8, <3>1, <4>1
      <3>2. CASE k # l
        <4>1. t[k] = s[k] /\ k + 1 \in 1..l /\ t[k + 1].pkg = s[k + 1].pkg
          BY <1>1, <1>4, <1>5, <3>2
        <4> QED
          BY <2>3, <4>1 DEF ChildrenFirst
      <3> QED
        BY <3>1, <3>2
    <2> QED
      BY <1>7, <2>1, <2>2, <2>3 DEF t, g, f
  <1>9. CASE m[d] # Absent
    <2> DEFINE h == Frame(d)
               v == Append(t, h)
    <2>1. u = v
      BY <1>9
    <2>2. h.pkg = d /\ h.todo = <<>> /\ ~h.loaded
      BY DEF Frame
    <2> HIDE DEF h
    <2>3. Len(v) = l + 1 /\ \A k \in 1..(l + 1) : v[k] = IF k = l + 1 THEN h ELSE t[k]
      BY <1>5
    <2> HIDE DEF v
    <2>4. FramesOK(v, m)
      <3>1. f.pkg \in Near(m, Root, l - 1) /\ d \in DepsOf(f.pkg) /\ l - 1 \in Nat
        BY <1>1, <1>3, <1>6 DEF FrameOK
      <3>2. d \in Near(m, Root, l - 1 + 1)
        BY <1>3, <1>9, <3>1, NearLast, InstallAssumption
      <3>3. l + 1 - 1 = l - 1 + 1 /\ l + 1 \in Nat
        BY <1>1
      <3>4. FrameOK(h, l + 1, m)
        BY <2>2, <3>2, <3>3 DEF FrameOK, Elems
      <3> QED
        BY <1>1, <1>5, <1>7, <2>3, <3>4 DEF FramesOK
    <2>5. ASSUME Covered(s, m, done) PROVE Covered(v, m, done)
      <3> DEFINE n == InstallMaxDepth + 1 - l
      <3>1. Owed(m, f, n) \subseteq Owed(m, g, n) \cup Owed(m, h, n - 1)
        <4> HIDE DEF n
        <4>1. Owed(m, h, n - 1) = Near(m, d, n - 1)
          BY <2>2 DEF Owed
        <4> QED
          BY <1>3, <1>4, <1>6, <4>1 DEF Owed
      <3>2. n - 1 = InstallMaxDepth + 1 - (l + 1)
        BY <1>1, InstallAssumption
      <3> SUFFICES ASSUME NEW q \in Near(m, Root, InstallMaxDepth), q \notin done
                   PROVE  \E k \in 1..(l + 1) : q \in Owed(m, v[k], InstallMaxDepth + 1 - k)
        BY <2>3 DEF Covered
      <3>3. PICK k \in 1..l : q \in Owed(m, s[k], InstallMaxDepth + 1 - k)
        BY <2>5 DEF Covered
      <3>4. CASE k # l
        BY <1>1, <1>5, <2>3, <3>3, <3>4
      <3>5. CASE k = l
        <4>1. v[l] = g /\ v[l + 1] = h
          BY <1>1, <1>5, <2>3
        <4>2. q \in Owed(m, v[l], n) \/ q \in Owed(m, v[l + 1], n - 1)
          BY <1>1, <3>1, <3>3, <3>5, <4>1
        <4> QED
          BY <1>1, <3>2, <4>2
      <3> QED
        BY <3>4, <3>5
    <2>6. ASSUME ChildrenFirst(s, m, done) PROVE ChildrenFirst(v, m, done)
      <3> SUFFICES ASSUME NEW k \in 1..(l + 1), v[k].loaded, k <= InstallMaxDepth,
                          NEW e \in DepsOf(v[k].pkg), m[e] # Absent
                   PROVE  \/ e \in done \/ e \in Elems(v[k].todo)
                          \/ (k < l + 1 /\ v[k + 1].pkg = e)
        BY <2>3 DEF ChildrenFirst
      <3>1. CASE k = l + 1
        BY <2>2, <2>3, <3>1
      <3>2. CASE k = l
        <4>1. v[k] = g /\ v[k + 1] = h
          BY <1>1, <1>5, <2>3, <3>2
        <4>2. e \in done \/ e \in Elems(f.todo)
          BY <1>1, <1>4, <1>6, <2>6, <3>2, <4>1 DEF ChildrenFirst
        <4> QED
          BY <1>1, <1>3, <1>4, <2>2, <3>2, <4>1, <4>2
      <3>3. CASE k \in 1..(l - 1)
        <4>1. v[k] = s[k] /\ k + 1 \in 1..l /\ v[k + 1].pkg = s[k + 1].pkg /\ k \in 1..l
          BY <1>1, <1>4, <1>5, <2>3, <3>3
        <4> QED
          BY <1>1, <2>6, <3>3, <4>1 DEF ChildrenFirst
      <3> QED
        BY <1>1, <3>1, <3>2, <3>3
    <2> QED
      BY <2>1, <2>4, <2>5, <2>6 DEF v, h, t, g, f
  <1> QED
    BY <1>8, <1>9 DEF t, g, f

(* while no file is edited, what is done stays done                         *)
LEMMA DoneGrows ==
  ASSUME TypeOK, UNCHANGED <<mod, script>>, \A p \in Pkg : ran[p] \subseteq ran'[p]
  PROVE  Done \subseteq Done'
  BY DEF Done, HookKey, ScriptHash

(* a step of one invocation that leaves packages and scripts alone keeps    *)
(* what is known of the other invocations                                   *)
LEMMA KeepsWalk ==
  ASSUME TypeOK, WalkInv, NEW i \in Process, NEW r, Update(i, r),
         UNCHANGED <<mod, script>>, \A p \in Pkg : ran[p] \subseteq ran'[p],
         RecOK(r, mod, Done', ran'),
         lock' \in LockFile => PkgsOK(lock'.pkgs, ran')
  PROVE  WalkInv'
  <1>1. proc \in [Process -> ProcType] /\ proc' = [proc EXCEPT ![i] = r] /\ mod' = mod
    BY DEF TypeOK, Update
  <1>2. Done \subseteq Done'
    BY DoneGrows
  <1>3. ASSUME NEW j \in Process PROVE RecOK(proc'[j], mod', Done', ran')
    <2>1. CASE j = i
      BY <1>1, <2>1
    <2>2. CASE j # i
      <3>1. proc'[j] = proc[j] /\ RecOK(proc[j], mod, Done, ran)
        BY <1>1, <2>2 DEF WalkInv
      <3>2. WalkOK(proc[j], mod, Done) => WalkOK(proc[j], mod, Done')
        BY <1>2, WalkMore
      <3>3. PkgsOK(proc[j].pkgs, ran) => PkgsOK(proc[j].pkgs, ran')
        BY DEF PkgsOK
      <3> QED
        BY <1>1, <3>1, <3>2, <3>3 DEF RecOK
    <2> QED
      BY <2>1, <2>2
  <1> QED
    BY <1>3 DEF WalkInv

(* a step that changes the local state of one invocation only               *)
LEMMA LocalWalk ==
  ASSUME TypeOK, WalkInv, NEW i \in Process, NEW r, Update(i, r),
         UNCHANGED <<mod, script, lock, ran>>, RecOK(r, mod, Done, ran)
  PROVE  WalkInv'
  <1>1. Done' = Done
    BY DEF Done, HookKey, ScriptHash
  <1>2. lock' \in LockFile => PkgsOK(lock'.pkgs, ran')
    BY DEF WalkInv
  <1>3. RecOK(r, mod, Done', ran')
    BY <1>1
  <1> QED
    BY <1>2, <1>3, KeepsWalk

(* the end of an invocation                                                 *)
LEMMA FinishWalk ==
  ASSUME TypeOK, WalkInv, NEW i \in Process, NEW rc, Finish(i, rc),
         UNCHANGED <<mod, script, lock, ran>>
  PROVE  WalkInv'
  <1> DEFINE r == [Idle EXCEPT !.pc = "done", !.rc = rc]
  <1>1. r.pc = "done"
    BY DEF Idle
  <1>2. Update(i, r)
    BY DEF Finish
  <1> HIDE DEF r
  <1>3. RecOK(r, mod, Done, ran)
    BY <1>1 DEF RecOK
  <1> QED
    BY <1>2, <1>3, LocalWalk

(* what is known of an invocation that is walking a tree                    *)
LEMMA AtWork ==
  ASSUME TypeOK, WalkInv, NEW i \in Process, proc[i].pc \notin {"idle", "done", "crashed"}
  PROVE  /\ proc[i] \in ProcType /\ StackOK(proc[i]) /\ HookOK(proc[i])
         /\ proc[i].stack \in Seq(FrameType) /\ proc[i].nodes \in Seq(NodeType)
         /\ WalkOK(proc[i], mod, Done)
         /\ ~proc[i].locked => PkgsOK(proc[i].pkgs, ran)
  BY DEF TypeOK, WalkInv, RecOK, ProcType

(* a call of install_tree returns, with or without a failure                *)
LEMMA ReturnWalk ==
  ASSUME TypeOK, WalkInv, NEW i \in Process, proc[i].pc \in TreePC,
         proc[i].stack # <<>>, NEW b \in BOOLEAN, proc[i].failed => b,
         NEW done, Done \subseteq done, NEW h, PkgsOK(proc[i].pkgs, h),
         \/ b
         \/ Len(proc[i].stack) > InstallMaxDepth + 1
         \/ /\ Top(proc[i].stack).loaded /\ Top(proc[i].stack).todo = <<>>
            /\ Top(proc[i].stack).pkg \in done
  PROVE  RecOK([proc[i] EXCEPT !.pc = "tree", !.stack = Pop(proc[i].stack), !.failed = b],
               mod, done, h)
  <1> DEFINE r == proc[i]
             s == r.stack
             q == [r EXCEPT !.pc = "tree", !.stack = Pop(s), !.failed = b]
  <1>1. r.pc \notin {"idle", "done", "crashed"}
    BY DEF TreePC
  <1>2. r \in ProcType /\ s \in Seq(FrameType) /\ WalkOK(r, mod, Done)
    BY <1>1, AtWork
  <1>3. WalkOK(r, mod, done)
    BY <1>2, WalkMore
  <1>4. /\ q.pc = "tree" /\ q.stack = Pop(s) /\ q.failed = b /\ q.locked = r.locked
        /\ q.nodes = r.nodes /\ q.pkgs = r.pkgs
    BY <1>2 DEF ProcType
  <1> HIDE DEF q
  <1>5. FramesOK(s, mod) /\ ~r.locked
    BY <1>3 DEF WalkOK
  <1>6. FramesOK(Pop(s), mod)
    BY <1>2, <1>5, PopWalk
  <1>7. ~b => Covered(Pop(s), mod, done) /\ ChildrenFirst(Pop(s), mod, done)
    <2>1. ~b => Covered(s, mod, done) /\ ChildrenFirst(s, mod, done)
      BY <1>3 DEF WalkOK
    <2> QED
      BY <1>2, <1>5, <2>1, PopWalk
  <1>8. WalkOK(q, mod, done)
    BY <1>3, <1>4, <1>5, <1>6, <1>7 DEF WalkOK, TreePC
  <1> QED
    BY <1>4, <1>8 DEF RecOK, q

(* install_tree enters a package, and the loop over deps/ of both           *)
(* recursions                                                               *)
LEMMA EnterWalk ==
  ASSUME TypeOK, WalkInv, NEW i \in Process,
         TreeEnter(i) \/ TreeDescend(i) \/ CollectEnter(i)
  PROVE  WalkInv'
  <1> DEFINE r == proc[i]
             s == r.stack
             f == Top(s)
  <1>0. UNCHANGED <<mod, script, lock, ran>> /\ r.pc \in {"tree", "collect"} /\ s # <<>>
    BY DEF TreeEnter, TreeDescend, CollectEnter
  <1>1. /\ r \in ProcType /\ StackOK(r) /\ WalkOK(r, mod, Done)
        /\ s \in Seq(FrameType) /\ FramesOK(s, mod)
        /\ ~r.locked => PkgsOK(r.pkgs, ran)
    BY <1>0, AtWork DEF WalkOK
  <1>2. f \in FrameType /\ f.pkg \in Pkg /\ Len(s) \in Nat \ {0} /\ f = s[Len(s)]
    <2>1. f \in FrameType /\ Len(s) \in 1..Len(s)
      BY <1>0, <1>1, TopType
    <2>2. Len(s) \in Nat
      BY <1>1
    <2> QED
      BY <2>1, <2>2 DEF Top, FrameType
  <1>3. ASSUME NEW t \in Seq(FrameType), FramesOK(t, mod),
               Covered(s, mod, Done) /\ ChildrenFirst(s, mod, Done)
                 => Covered(t, mod, Done) /\ ChildrenFirst(t, mod, Done),
               Update(i, [r EXCEPT !.stack = t])
        PROVE  WalkInv'
    <2> DEFINE q == [r EXCEPT !.stack = t]
    <2>1. /\ q.pc = r.pc /\ q.stack = t /\ q.failed = r.failed /\ q.locked = r.locked
          /\ q.nodes = r.nodes /\ q.pkgs = r.pkgs
      BY <1>1 DEF ProcType
    <2> HIDE DEF q
    <2>2. WalkOK(q, mod, Done)
      BY <1>0, <1>1, <1>3, <2>1 DEF WalkOK, TreePC
    <2>3. RecOK(q, mod, Done, ran)
      BY <1>1, <2>1, <2>2 DEF RecOK
    <2> QED
      BY <1>0, <1>3, <2>3, LocalWalk DEF q
  <1>4. ASSUME ~f.loaded, Len(s) <= InstallMaxDepth + 1, mod[f.pkg] \notin {Absent, Bad},
               Update(i, [r EXCEPT !.stack = SetTop(s,
                    [pkg |-> f.pkg, todo |-> Deps[f.pkg], loaded |-> TRUE, desc |-> mod[f.pkg]])])
        PROVE  WalkInv'
    <2> DEFINE g == [pkg |-> f.pkg, todo |-> Deps[f.pkg], loaded |-> TRUE, desc |-> mod[f.pkg]]
               t == SetTop(s, g)
    <2>1. g \in FrameType
      BY <1>2, <1>4, InstallAssumption DEF FrameType, TypeOK
    <2>2. g.pkg = f.pkg /\ g.todo = Deps[g.pkg] /\ g.loaded /\ g.desc = mod[g.pkg]
      OBVIOUS
    <2> HIDE DEF g
    <2>3. /\ FramesOK(t, mod)
          /\ Covered(s, mod, Done) /\ ChildrenFirst(s, mod, Done)
             => Covered(t, mod, Done) /\ ChildrenFirst(t, mod, Done)
      BY <1>0, <1>1, <1>4, <2>1, <2>2, LoadWalk
    <2>4. t \in Seq(FrameType)
      BY <1>0, <1>1, <2>1, SetTopType
    <2>5. Update(i, [r EXCEPT !.stack = t])
      BY <1>4 DEF g
    <2> HIDE DEF t
    <2> QED
      BY <1>3, <2>3, <2>4, <2>5
  <1>5. CASE TreeEnter(i)
    <2>0. r.pc = "tree" /\ ~f.loaded /\ r.failed \in BOOLEAN /\ ~r.locked
      BY <1>1, <1>5 DEF TreeEnter, ProcType, WalkOK, TreePC
    <2>1. CASE Depth(s) > InstallMaxDepth
      <3>1. [r EXCEPT !.pc = "tree", !.stack = Pop(s), !.failed = r.failed] = [r EXCEPT !.stack = Pop(s)]
        BY <1>1, <2>0 DEF ProcType
      <3>2. Len(s) > InstallMaxDepth + 1
        BY <1>2, <2>1, InstallAssumption DEF Depth
      <3>3. RecOK([r EXCEPT !.stack = Pop(s)], mod, Done, ran)
        BY <1>0, <1>1, <2>0, <3>1, <3>2, ReturnWalk DEF TreePC
      <3> QED
        BY <1>0, <1>5, <2>1, <3>3, LocalWalk DEF TreeEnter
    <2>2. CASE ~(Depth(s) > InstallMaxDepth) /\ mod[f.pkg] \in {Absent, Bad}
      <3>1. [r EXCEPT !.pc = "tree", !.stack = Pop(s), !.failed = TRUE]
            = [r EXCEPT !.stack = Pop(s), !.failed = TRUE]
        BY <1>1, <2>0 DEF ProcType
      <3>3. RecOK([r EXCEPT !.stack = Pop(s), !.failed = TRUE], mod, Done, ran)
        BY <1>0, <1>1, <2>0, <3>1, ReturnWalk DEF TreePC
      <3> QED
        BY <1>0, <1>5, <2>2, <3>3, LocalWalk DEF TreeEnter
    <2>3. CASE ~(Depth(s) > InstallMaxDepth) /\ mod[f.pkg] \notin {Absent, Bad}
      <3>1. Len(s) <= InstallMaxDepth + 1
        BY <1>2, <2>3, InstallAssumption DEF Depth
      <3> QED
        BY <1>4, <1>5, <2>0, <2>3, <3>1 DEF TreeEnter
    <2> QED
      BY <2>1, <2>2, <2>3
  <1>6. CASE CollectEnter(i)
    <2>1. CASE Depth(s) > LockMaxDepth \/ mod[f.pkg] \in {Absent, Bad}
      BY <1>0, <1>6, <2>1, FinishWalk DEF CollectEnter
    <2>2. CASE ~(Depth(s) > LockMaxDepth \/ mod[f.pkg] \in {Absent, Bad})
      <3>1. Len(s) <= InstallMaxDepth + 1
        BY <1>2, <2>2, InstallAssumption DEF Depth
      <3> QED
        BY <1>4, <1>6, <2>2, <3>1 DEF CollectEnter
    <2> QED
      BY <2>1, <2>2
  <1>7. CASE TreeDescend(i)
    <2> DEFINE d == Head(f.todo)
               g == [f EXCEPT !.todo = Tail(@)]
               t == IF mod[d] = Absent THEN SetTop(s, g) ELSE Append(SetTop(s, g), Frame(d))
    <2>1. f.loaded /\ f.todo # <<>>
      BY <1>7 DEF TreeDescend
    <2>2. /\ FramesOK(t, mod)
          /\ Covered(s, mod, Done) /\ ChildrenFirst(s, mod, Done)
             => Covered(t, mod, Done) /\ ChildrenFirst(t, mod, Done)
      BY <1>0, <1>1, <2>1, DescendWalk
    <2>3. f.todo \in Seq(Pkg) /\ d \in Pkg /\ Tail(f.todo) \in Seq(Pkg)
      BY <1>2, <2>1, HeadTailProperties DEF FrameType
    <2>4. g \in FrameType /\ Frame(d) \in FrameType
      <3>1. Frame(d) \in FrameType
        BY <2>3 DEF FrameType, Frame
      <3>2. g \in FrameType
        <4> HIDE DEF f
        <4> QED
          BY <1>2, <2>3 DEF FrameType
      <3> QED
        BY <3>1, <3>2
    <2>5. SetTop(s, g) \in Seq(FrameType)
      BY <1>0, <1>1, <2>4, SetTopType
    <2>6. t \in Seq(FrameType)
      BY <2>4, <2>5, AppendProperties
    <2>7. Update(i, [r EXCEPT !.stack = t])
      BY <1>7 DEF TreeDescend
    <2> HIDE DEF t
    <2> QED
      BY <1>3, <2>2, <2>6, <2>7
  <1> QED
    BY <1>5, <1>6, <1>7

(* run_one up to the start of the hook, and the end of install_tree         *)
LEMMA RunWalk ==
  ASSUME TypeOK, WalkInv, MarkerImpliesRan, NEW i \in Process, RunOne(i) \/ TreeDone(i)
  PROVE  WalkInv'
  <1> DEFINE r == proc[i]
             s == r.stack
             f == Top(s)
  <1>0. UNCHANGED <<mod, script, lock, ran>> /\ r.pc = "tree"
    BY DEF RunOne, TreeDone
  <1>1. /\ r \in ProcType /\ StackOK(r) /\ WalkOK(r, mod, Done)
        /\ s \in Seq(FrameType) /\ FramesOK(s, mod) /\ r.failed \in BOOLEAN
        /\ ~r.locked /\ PkgsOK(r.pkgs, ran) /\ mod[Root] # Absent
    BY <1>0, AtWork DEF WalkOK, TreePC, ProcType
  <1>2. CASE RunOne(i)
    <2>1. s # <<>> /\ f.loaded /\ f.todo = <<>>
      BY <1>2 DEF RunOne
    <2>2. /\ f \in FrameType /\ f.pkg \in Pkg /\ Len(s) \in 1..Len(s) /\ f = s[Len(s)]
          /\ f.desc \in Manifest /\ f.desc = mod[f.pkg]
      <3>1. f \in FrameType /\ Len(s) \in 1..Len(s) /\ f = s[Len(s)]
        BY <1>1, <2>1, TopType DEF Top
      <3>2. f.desc \in Manifest
        BY <1>1, <2>1, <3>1 DEF StackOK
      <3>3. FrameOK(f, Len(s), mod)
        BY <1>1, <3>1 DEF FramesOK
      <3> QED
        BY <2>1, <3>1, <3>2, <3>3 DEF FrameType, FrameOK
    <2> DEFINE c == f.desc.cmd
               key == HookKey(f.pkg, c)
    <2>3. ASSUME NEW b \in BOOLEAN, r.failed => b, b \/ f.pkg \in Done,
                 Update(i, [r EXCEPT !.stack = Pop(s), !.failed = b])
          PROVE  WalkInv'
      <3>1. [r EXCEPT !.pc = "tree", !.stack = Pop(s), !.failed = b]
            = [r EXCEPT !.stack = Pop(s), !.failed = b]
        BY <1>0, <1>1 DEF ProcType
      <3>2. RecOK([r EXCEPT !.stack = Pop(s), !.failed = b], mod, Done, ran)
        BY <1>0, <1>1, <2>1, <2>3, <3>1, ReturnWalk DEF TreePC
      <3> QED
        BY <1>0, <2>3, <3>2, LocalWalk
    <2>4. [r EXCEPT !.stack = Pop(s)] = [r EXCEPT !.stack = Pop(s), !.failed = r.failed]
      BY <1>1 DEF ProcType
    <2>5. CASE c = NoCmd
      <3>1. f.pkg \in Done
        BY <2>2, <2>5 DEF Done
      <3>2. Update(i, [r EXCEPT !.stack = Pop(s)])
        BY <1>2, <2>5 DEF RunOne
      <3> QED
        BY <1>1, <2>3, <2>4, <3>1, <3>2
    <2>6. CASE c # NoCmd /\ ~r.allow
      <3>1. Update(i, [r EXCEPT !.stack = Pop(s), !.failed = TRUE])
        BY <1>2, <2>6 DEF RunOne
      <3> QED
        BY <2>3, <3>1
    <2>7. CASE c # NoCmd /\ r.allow /\ ~r.force /\ marker[f.pkg] = key
      <3>1. key \in ran[f.pkg]
        BY <2>2, <2>7, EntryType DEF MarkerImpliesRan
      <3>2. f.pkg \in Done
        BY <2>2, <3>1 DEF Done
      <3>3. Update(i, [r EXCEPT !.stack = Pop(s)])
        BY <1>2, <2>7 DEF RunOne
      <3> QED
        BY <1>1, <2>3, <2>4, <3>2, <3>3
    <2>8. CASE c # NoCmd /\ r.allow /\ ~(~r.force /\ marker[f.pkg] = key)
      <3> DEFINE q == [r EXCEPT !.pc = "hook", !.key = key]
      <3>1. Update(i, q)
        BY <1>2, <2>8 DEF RunOne
      <3>2. /\ q.pc = "hook" /\ q.stack = s /\ q.failed = r.failed /\ q.locked = r.locked
            /\ q.nodes = r.nodes /\ q.pkgs = r.pkgs
        BY <1>1 DEF ProcType
      <3> HIDE DEF q
      <3>3. WalkOK(q, mod, Done)
        BY <1>0, <1>1, <2>1, <3>2 DEF WalkOK, TreePC
      <3>4. RecOK(q, mod, Done, ran)
        BY <1>1, <3>2, <3>3 DEF RecOK
      <3> QED
        BY <1>0, <3>1, <3>4, LocalWalk
    <2> QED
      BY <2>5, <2>6, <2>7, <2>8
  <1>3. CASE TreeDone(i)
    <2>1. CASE r.failed
      BY <1>0, <1>3, <2>1, FinishWalk DEF TreeDone
    <2>2. CASE ~r.failed
      <3> DEFINE q == [r EXCEPT !.pc = "collect", !.stack = <<Frame(Root)>>]
      <3>1. Update(i, q) /\ s = <<>>
        BY <1>3, <2>2 DEF TreeDone
      <3>2. /\ q.pc = "collect" /\ q.stack = <<Frame(Root)>> /\ q.locked = r.locked
            /\ q.nodes = r.nodes /\ q.pkgs = r.pkgs
        BY <1>1 DEF ProcType
      <3> HIDE DEF q
      <3>3. Near(mod, Root, InstallMaxDepth) \subseteq Done
        <4>1. Covered(s, mod, Done) /\ Len(s) = 0
          BY <1>0, <1>1, <2>2, <3>1 DEF WalkOK, TreePC
        <4> QED
          BY <4>1 DEF Covered
      <3>4. FramesOK(<<Frame(Root)>>, mod)
        BY <1>1, StartWalk
      <3>5. WalkOK(q, mod, Done)
        BY <1>1, <3>2, <3>3, <3>4 DEF WalkOK, TreePC
      <3>6. RecOK(q, mod, Done, ran)
        BY <1>1, <3>2, <3>5 DEF RecOK
      <3> QED
        BY <1>0, <3>1, <3>6, LocalWalk
    <2> QED
      BY <2>1, <2>2
  <1> QED
    BY <1>2, <1>3

(* the end of the hook and write_marker                                     *)
LEMMA HookWalk ==
  ASSUME TypeOK, WalkInv, NEW i \in Process, NEW ok \in BOOLEAN,
         NEW a \in Content \cup {Absent},
         HookEnds(i, ok, a) \/ MarkOpen(i, ok) \/ MarkWrite(i, ok)
  PROVE  WalkInv'
  <1> DEFINE r == proc[i]
             s == r.stack
             f == Top(s)
  <1>0. UNCHANGED <<mod, script, lock>> /\ r.pc \in {"hook", "mark", "markw"}
    BY DEF HookEnds, MarkOpen, MarkWrite
  <1>1. /\ r \in ProcType /\ StackOK(r) /\ HookOK(r) /\ WalkOK(r, mod, Done)
        /\ s \in Seq(FrameType) /\ FramesOK(s, mod) /\ r.failed \in BOOLEAN
        /\ ~r.locked /\ PkgsOK(r.pkgs, ran)
    BY <1>0, AtWork DEF WalkOK, TreePC, ProcType
  <1>2. /\ s # <<>> /\ f.loaded /\ f.todo = <<>> /\ f.pkg \in Pkg
        /\ f.desc \in Manifest /\ f.desc = mod[f.pkg] /\ f.desc.cmd # NoCmd
    <2>1. s # <<>> /\ f.loaded /\ f.desc.cmd # NoCmd
      BY <1>0, <1>1 DEF HookOK
    <2>2. f.todo = <<>>
      BY <1>0, <1>1 DEF WalkOK
    <2>3. f \in FrameType /\ Len(s) \in 1..Len(s) /\ f = s[Len(s)]
      BY <1>1, <2>1, TopType DEF Top
    <2>4. f.desc \in Manifest
      BY <1>1, <2>1, <2>3 DEF StackOK
    <2>5. FrameOK(f, Len(s), mod)
      BY <1>1, <2>3 DEF FramesOK
    <2> QED
      BY <2>1, <2>2, <2>3, <2>4, <2>5 DEF FrameType, FrameOK
  <1>3. /\ \A p \in Pkg : ran[p] \subseteq ran'[p]
        /\ lock' \in LockFile => PkgsOK(lock'.pkgs, ran')
    <2>1. \A p \in Pkg : ran[p] \subseteq ran'[p]
      BY DEF HookEnds, MarkOpen, MarkWrite, TypeOK
    <2> QED
      BY <1>0, <2>1 DEF WalkInv, PkgsOK
  <1>4. Done \subseteq Done' /\ PkgsOK(r.pkgs, ran')
    BY <1>0, <1>1, <1>3, DoneGrows DEF PkgsOK
  <1>5. ASSUME NEW b \in BOOLEAN, r.failed => b, b \/ f.pkg \in Done',
               Update(i, [r EXCEPT !.pc = "tree", !.stack = Pop(s), !.failed = b])
        PROVE  WalkInv'
    <2>1. RecOK([r EXCEPT !.pc = "tree", !.stack = Pop(s), !.failed = b], mod, Done', ran')
      BY <1>0, <1>1, <1>2, <1>4, <1>5, ReturnWalk DEF TreePC
    <2> QED
      BY <1>0, <1>3, <1>5, <2>1, KeepsWalk
  <1>6. ASSUME NEW c \in {"mark", "markw"}, f.pkg \in Done', Update(i, [r EXCEPT !.pc = c])
        PROVE  WalkInv'
    <2> DEFINE q == [r EXCEPT !.pc = c]
    <2>1. /\ q.pc = c /\ q.stack = s /\ q.failed = r.failed /\ q.locked = r.locked
          /\ q.nodes = r.nodes /\ q.pkgs = r.pkgs
      BY <1>1 DEF ProcType
    <2> HIDE DEF q
    <2>2. WalkOK(r, mod, Done')
      BY <1>1, <1>4, WalkMore
    <2>3. WalkOK(q, mod, Done')
      BY <1>0, <1>2, <1>6, <2>1, <2>2 DEF WalkOK, TreePC
    <2>4. RecOK(q, mod, Done', ran')
      BY <1>4, <2>1, <2>3 DEF RecOK
    <2> QED
      BY <1>0, <1>3, <1>6, <2>4, KeepsWalk DEF q
  <1>7. [r EXCEPT !.pc = "tree", !.failed = TRUE, !.stack = Pop(s)]
        = [r EXCEPT !.pc = "tree", !.stack = Pop(s), !.failed = TRUE]
    BY <1>1 DEF ProcType
  <1>8. r.pc \in {"mark", "markw"} => f.pkg \in Done
    BY <1>1 DEF WalkOK
  <1>9. CASE HookEnds(i, ok, a)
    <2>1. CASE ok
      <3>1. HookKey(f.pkg, f.desc.cmd) \in ran'[f.pkg]
        BY <1>2, <1>9, <2>1 DEF HookEnds, TypeOK
      <3>3. f.pkg \in Done'
        BY <1>0, <1>2, <3>1 DEF Done, HookKey, ScriptHash
      <3> QED
        BY <1>6, <1>9, <2>1, <3>3 DEF HookEnds
    <2>2. CASE ~ok
      BY <1>5, <1>7, <1>9, <2>2 DEF HookEnds
    <2> QED
      BY <2>1, <2>2
  <1>10. CASE MarkOpen(i, ok)
    <2>1. f.pkg \in Done'
      BY <1>4, <1>8, <1>10 DEF MarkOpen
    <2> QED
      BY <1>5, <1>6, <1>7, <1>10, <2>1 DEF MarkOpen
  <1>11. CASE MarkWrite(i, ok)
    <2>1. f.pkg \in Done'
      BY <1>4, <1>8, <1>11 DEF MarkWrite
    <2>2. [r EXCEPT !.pc = "tree", !.stack = Pop(s)]
          = [r EXCEPT !.pc = "tree", !.stack = Pop(s), !.failed = r.failed]
      BY <1>1 DEF ProcType
    <2> QED
      BY <1>1, <1>5, <1>11, <2>1, <2>2 DEF MarkWrite
  <1> QED
    BY <1>9, <1>10, <1>11

(* collect_packages returns, and the verifier                               *)
LEMMA CollectWalk ==
  ASSUME TypeOK, WalkInv, NEW i \in Process,
         CollectPush(i) \/ CollectDone(i) \/ VerifyRead(i) \/ VerifyNode(i) \/ VerifyDone(i)
  PROVE  WalkInv'
  <1> DEFINE r == proc[i]
             s == r.stack
             f == Top(s)
  <1>0. UNCHANGED <<mod, script, lock, ran>> /\ r.pc \in {"collect", "slurp", "verify"}
    BY DEF CollectPush, CollectDone, VerifyRead, VerifyNode, VerifyDone
  <1>1. /\ r \in ProcType /\ StackOK(r) /\ WalkOK(r, mod, Done)
        /\ s \in Seq(FrameType) /\ FramesOK(s, mod) /\ r.nodes \in Seq(NodeType)
        /\ ~r.locked => PkgsOK(r.pkgs, ran)
    BY <1>0, AtWork DEF WalkOK
  <1>2. CASE CollectPush(i)
    <2> DEFINE e == [pkg |-> f.pkg, desc |-> f.desc]
               q == [r EXCEPT !.stack = Pop(s), !.nodes = Append(@, e)]
    <2>1. Update(i, q) /\ r.pc = "collect" /\ s # <<>> /\ f.loaded
      BY <1>2 DEF CollectPush
    <2>2. /\ q.pc = "collect" /\ q.stack = Pop(s) /\ q.locked = r.locked
          /\ q.nodes = Append(r.nodes, e) /\ q.pkgs = r.pkgs
      BY <1>1, <2>1 DEF ProcType
    <2> HIDE DEF q
    <2>3. FramesOK(Pop(s), mod)
      BY <1>1, <2>1, PopWalk
    <2>4. ~r.locked => e.pkg \in Done /\ e.desc = mod[e.pkg]
      <3>1. Len(s) \in 1..Len(s) /\ f = s[Len(s)] /\ Len(s) \in Nat
        BY <1>1, <2>1, TopType DEF Top
      <3>2. FrameOK(f, Len(s), mod)
        BY <1>1, <3>1 DEF FramesOK
      <3>3. f.desc = mod[f.pkg] /\ Len(s) - 1 <= InstallMaxDepth /\ f.pkg \in Near(mod, Root, Len(s) - 1)
        BY <2>1, <3>1, <3>2, InstallAssumption DEF FrameOK
      <3>4. f.pkg \in Near(mod, Root, InstallMaxDepth)
        BY <3>1, <3>3, NearMore, InstallAssumption
      <3> QED
        BY <1>1, <2>1, <3>3, <3>4 DEF WalkOK
    <2> HIDE DEF e
    <2>5. ~r.locked => \A k \in 1..Len(q.nodes) :
            q.nodes[k].pkg \in Done /\ q.nodes[k].desc = mod[q.nodes[k].pkg]
      <3>1. /\ Len(q.nodes) = Len(r.nodes) + 1
            /\ \A k \in 1..Len(q.nodes) :
                 q.nodes[k] = IF k = Len(r.nodes) + 1 THEN e ELSE r.nodes[k]
        BY <1>1, <2>2
      <3>2. ~r.locked => \A k \in 1..Len(r.nodes) :
              r.nodes[k].pkg \in Done /\ r.nodes[k].desc = mod[r.nodes[k].pkg]
        BY <1>1 DEF WalkOK
      <3>3. \A k \in 1..Len(q.nodes) : k = Len(r.nodes) + 1 \/ k \in 1..Len(r.nodes)
        BY <1>1, <3>1
      <3> QED
        BY <2>4, <3>1, <3>2, <3>3
    <2>6. WalkOK(q, mod, Done)
      BY <1>1, <2>1, <2>2, <2>3, <2>5 DEF WalkOK, TreePC
    <2>7. RecOK(q, mod, Done, ran)
      BY <1>1, <2>2, <2>6 DEF RecOK
    <2> QED
      BY <1>0, <2>1, <2>7, LocalWalk
  <1>3. ASSUME NEW q, Update(i, q), r.pc \in {"collect", "verify"},
               q.pc \in {"hash", "verify"}, q.pc = "hash" => ~r.locked,
               q.pc = "verify" => r.locked, q.locked = r.locked,
               q.stack = s, q.pkgs = r.pkgs, r.locked \/ q.nodes = r.nodes
        PROVE  WalkInv'
    <2>1. WalkOK(q, mod, Done)
      BY <1>1, <1>3 DEF WalkOK, TreePC
    <2>2. RecOK(q, mod, Done, ran)
      BY <1>1, <1>3, <2>1 DEF RecOK
    <2> QED
      BY <1>0, <1>3, <2>2, LocalWalk
  <1>4. CASE CollectDone(i)
    <2>0. r.pc = "collect"
      BY <1>4 DEF CollectDone
    <2>1. ASSUME NEW c \in {"hash", "verify"}, (c = "verify") <=> r.locked,
                 Update(i, [r EXCEPT !.pc = c])
          PROVE  WalkInv'
      <3> DEFINE q == [r EXCEPT !.pc = c]
      <3>1. /\ q.pc = c /\ q.locked = r.locked /\ q.stack = s /\ q.pkgs = r.pkgs
            /\ q.nodes = r.nodes
        BY <1>1 DEF ProcType
      <3>2. Update(i, q)
        BY <2>1
      <3> HIDE DEF q
      <3> QED
        BY <1>3, <2>0, <2>1, <3>1, <3>2
    <2>2. CASE ~r.locked
      <3>1. Update(i, [r EXCEPT !.pc = "hash"])
        BY <1>4, <2>2 DEF CollectDone
      <3> QED
        BY <2>1, <2>2, <3>1
    <2>3. CASE r.locked /\ Update(i, [r EXCEPT !.pc = "verify"])
      BY <2>1, <2>3
    <2>4. CASE Finish(i, 1)
      BY <1>0, <2>4, FinishWalk
    <2> QED
      BY <1>4, <2>2, <2>3, <2>4 DEF CollectDone
  <1>5. CASE VerifyRead(i)
    <2>1. CASE Finish(i, 1)
      BY <1>0, <2>1, FinishWalk
    <2>2. CASE Update(i, [r EXCEPT !.pc = "collect", !.pkgs = lock.pkgs])
      <3> DEFINE q == [r EXCEPT !.pc = "collect", !.pkgs = lock.pkgs]
      <3>1. /\ q.pc = "collect" /\ q.stack = s /\ q.locked = r.locked /\ q.nodes = r.nodes
        BY <1>1 DEF ProcType
      <3> HIDE DEF q
      <3>2. r.pc = "slurp"
        BY <1>5 DEF VerifyRead
      <3>3. WalkOK(q, mod, Done) /\ q.locked
        BY <1>1, <3>1, <3>2 DEF WalkOK, TreePC
      <3>4. RecOK(q, mod, Done, ran)
        BY <3>3 DEF RecOK
      <3> QED
        BY <1>0, <2>2, <3>4, LocalWalk DEF q
    <2> QED
      BY <1>5, <2>1, <2>2 DEF VerifyRead
  <1>6. CASE VerifyNode(i)
    <2>1. CASE Finish(i, 1)
      BY <1>0, <2>1, FinishWalk
    <2>2. CASE Update(i, [r EXCEPT !.nodes = Tail(@)])
      <3>1. r.pc = "verify" /\ r.locked
        BY <1>1, <1>6 DEF VerifyNode, WalkOK
      <3> DEFINE q == [r EXCEPT !.nodes = Tail(@)]
      <3>2. q.pc = "verify" /\ q.locked = r.locked /\ q.stack = s /\ q.pkgs = r.pkgs
        BY <1>1, <3>1 DEF ProcType
      <3>3. Update(i, q)
        BY <2>2
      <3> HIDE DEF q
      <3> QED
        BY <1>3, <3>1, <3>2, <3>3
    <2> QED
      BY <1>6, <2>1, <2>2 DEF VerifyNode
  <1>7. CASE VerifyDone(i)
    BY <1>0, <1>7, FinishWalk DEF VerifyDone
  <1> QED
    BY <1>2, <1>4, <1>5, <1>6, <1>7

(* write_lockfile: what is hashed and written vouches for its hooks         *)
LEMMA LockWalk ==
  ASSUME TypeOK, WalkInv, NEW i \in Process, NEW ok \in BOOLEAN,
         HashNode(i) \/ LockOpen(i, ok) \/ LockWrite(i, ok)
  PROVE  WalkInv'
  <1> DEFINE r == proc[i]
             s == r.stack
  <1>0. UNCHANGED <<mod, script, ran>> /\ r.pc \in {"hash", "lockw"}
    BY DEF HashNode, LockOpen, LockWrite
  <1>1. /\ r \in ProcType /\ WalkOK(r, mod, Done) /\ r.nodes \in Seq(NodeType)
        /\ r.pkgs \in Entries /\ ~r.locked /\ PkgsOK(r.pkgs, ran)
    <2>1. r \in ProcType /\ WalkOK(r, mod, Done) /\ r.nodes \in Seq(NodeType)
          /\ (~r.locked => PkgsOK(r.pkgs, ran))
      BY <1>0, AtWork
    <2>2. ~r.locked
      BY <1>0, <2>1 DEF WalkOK
    <2> QED
      BY <2>1, <2>2 DEF ProcType
  <1>2. Done' = Done /\ \A p \in Pkg : ran[p] \subseteq ran'[p]
    BY <1>0 DEF Done, HookKey, ScriptHash
  <1>3. ASSUME NEW rc, Finish(i, rc), lock' \in LockFile => PkgsOK(lock'.pkgs, ran)
        PROVE  WalkInv'
    <2> DEFINE q == [Idle EXCEPT !.pc = "done", !.rc = rc]
    <2>1. q.pc = "done" /\ Update(i, q)
      BY <1>3 DEF Idle, Finish
    <2> HIDE DEF q
    <2>2. RecOK(q, mod, Done', ran')
      BY <2>1 DEF RecOK
    <2> QED
      BY <1>0, <1>2, <1>3, <2>1, <2>2, KeepsWalk
  <1>4. CASE HashNode(i)
    <2> DEFINE n == Head(r.nodes)
               p == n.pkg
               d == n.desc
               q == [r EXCEPT !.nodes = Tail(@), !.pkgs[p] = EntryOf(p, d)]
    <2>0. lock' = lock /\ r.nodes # <<>>
      BY <1>4 DEF HashNode
    <2>1. CASE Finish(i, 1)
      BY <1>0, <2>0, <2>1, FinishWalk
    <2>2. CASE Update(i, q)
      <3>1. n \in NodeType /\ p \in Pkg /\ d \in Manifest
        <4>1. n \in NodeType
          BY <1>1, <2>0, HeadTailProperties
        <4> HIDE DEF n
        <4> QED
          BY <4>1 DEF NodeType
      <3>2. p \in Done /\ d = mod[p]
        <4>1. n = r.nodes[1] /\ 1 \in 1..Len(r.nodes)
          BY <1>1, <2>0
        <4> QED
          BY <1>1, <4>1 DEF WalkOK
      <3>3. /\ q.pc = r.pc /\ q.stack = s /\ q.locked = r.locked
            /\ q.nodes = Tail(r.nodes) /\ q.pkgs = [r.pkgs EXCEPT ![p] = EntryOf(p, d)]
        BY <1>1 DEF ProcType
      <3> HIDE DEF q, n, d
      <3>4. EntryOf(p, d).cmd # NoCmd => <<EntryOf(p, d).cmd, EntryOf(p, d).scr>> \in ran[p]
        BY <3>2 DEF EntryOf, Done, HookKey
      <3>5. PkgsOK(q.pkgs, ran)
        BY <1>1, <3>1, <3>3, <3>4 DEF PkgsOK, Entries
      <3>6. \A k \in 1..Len(q.nodes) :
              q.nodes[k].pkg \in Done /\ q.nodes[k].desc = mod[q.nodes[k].pkg]
        <4>1. /\ Len(q.nodes) = Len(r.nodes) - 1
              /\ \A k \in 1..Len(q.nodes) : q.nodes[k] = r.nodes[k + 1] /\ k + 1 \in 1..Len(r.nodes)
          BY <1>1, <2>0, <3>3
        <4> QED
          BY <1>1, <4>1 DEF WalkOK
      <3>7. WalkOK(q, mod, Done)
        BY <1>0, <1>1, <3>3, <3>6 DEF WalkOK, TreePC
      <3>8. RecOK(q, mod, Done, ran)
        BY <3>5, <3>7 DEF RecOK
      <3> QED
        BY <1>0, <2>0, <2>2, <3>8, LocalWalk DEF q, n, d
    <2> QED
      BY <1>4, <2>1, <2>2 DEF HashNode
  <1>5. CASE LockOpen(i, ok)
    <2>1. lock' \in LockFile => PkgsOK(lock'.pkgs, ran)
      BY <1>5, InstallAssumption DEF LockOpen, WalkInv
    <2>2. CASE ok
      <3> DEFINE q == [r EXCEPT !.pc = "lockw"]
      <3>1. Update(i, q)
        BY <1>5, <2>2 DEF LockOpen
      <3>2. /\ q.pc = "lockw" /\ q.stack = s /\ q.locked = r.locked /\ q.nodes = r.nodes
            /\ q.pkgs = r.pkgs
        BY <1>1 DEF ProcType
      <3> HIDE DEF q
      <3>3. WalkOK(q, mod, Done)
        BY <1>0, <1>1, <3>2 DEF WalkOK, TreePC
      <3>4. RecOK(q, mod, Done', ran')
        BY <1>0, <1>1, <1>2, <3>2, <3>3 DEF RecOK
      <3> QED
        BY <1>0, <1>2, <2>1, <3>1, <3>4, KeepsWalk
    <2>3. CASE ~ok
      BY <1>3, <1>5, <2>1, <2>3 DEF LockOpen
    <2> QED
      BY <2>2, <2>3
  <1>6. CASE LockWrite(i, ok)
    <2>1. CASE ok
      <3>1. lock' = [target |-> Target, pkgs |-> r.pkgs] /\ Finish(i, 0)
        BY <1>6, <2>1 DEF LockWrite
      <3>2. lock'.pkgs = r.pkgs
        BY <3>1
      <3> QED
        BY <1>1, <1>3, <3>1, <3>2
    <2>2. CASE ~ok
      <3>1. lock' \notin LockFile /\ Finish(i, 1)
        BY <1>6, <2>2, InstallAssumption DEF LockWrite
      <3> QED
        BY <1>3, <3>1
    <2> QED
      BY <2>1, <2>2
  <1> QED
    BY <1>4, <1>5, <1>6

(* a command starts with a root that has a clux.mod                         *)
LEMMA StartsWalk ==
  ASSUME TypeOK, WalkInv, NEW i \in Process, NEW a \in BOOLEAN, NEW b \in BOOLEAN,
         NEW l \in BOOLEAN, Start(i, a, b, l)
  PROVE  WalkInv'
  <1>0. UNCHANGED <<mod, script, lock, ran>>
    BY DEF Start
  <1>1. CASE mod[Root] \in {Absent, Bad}
    BY <1>0, <1>1, FinishWalk DEF Start
  <1>2. CASE mod[Root] \notin {Absent, Bad}
    <2> DEFINE q == [Idle EXCEPT !.pc = IF l THEN "slurp" ELSE "tree",
                                 !.allow = a /\ ~l, !.force = b /\ ~l, !.locked = l,
                                 !.stack = <<Frame(Root)>>]
    <2>1. Update(i, q)
      BY <1>2 DEF Start
    <2>2. /\ q.pc = IF l THEN "slurp" ELSE "tree"
          /\ q.stack = <<Frame(Root)>> /\ q.locked = l /\ q.nodes = <<>>
          /\ q.pkgs = [p \in Pkg |-> Absent]
      BY DEF Idle
    <2> HIDE DEF q
    <2>3. /\ FramesOK(<<Frame(Root)>>, mod)
          /\ Covered(<<Frame(Root)>>, mod, Done) /\ ChildrenFirst(<<Frame(Root)>>, mod, Done)
      BY <1>2, StartWalk
    <2>4. q.pc \in {"slurp", "tree"} /\ Len(q.nodes) = 0
      BY <2>2
    <2>5. WalkOK(q, mod, Done)
      BY <1>2, <2>2, <2>3, <2>4 DEF WalkOK, TreePC
    <2>6. PkgsOK(q.pkgs, ran)
      BY <2>2 DEF PkgsOK
    <2>7. RecOK(q, mod, Done, ran)
      BY <2>5, <2>6 DEF RecOK
    <2> QED
      BY <1>0, <2>1, <2>7, LocalWalk
  <1> QED
    BY <1>1, <1>2

(* the user edits while no command runs, and no edit writes a lockfile      *)
LEMMA EditWalk ==
  ASSUME TypeOK, WalkInv, Edit
  PROVE  WalkInv'
  <1>1. /\ proc' = proc /\ ran' = ran
        /\ \A i \in Process : proc[i].pc \in {"idle", "done", "crashed"}
    BY DEF Edit, Active
  <1>2. lock' \in LockFile => PkgsOK(lock'.pkgs, ran')
    <2>1. CASE lock' = lock
      BY <1>1, <2>1 DEF WalkInv
    <2>2. CASE lock \notin {Absent, Torn} /\ lock' = [lock EXCEPT !.target = OtherTarget]
      <3>1. lock \in LockFile
        BY <2>2 DEF TypeOK
      <3>2. lock'.pkgs = lock.pkgs
        BY <2>2, <3>1 DEF LockFile
      <3> QED
        BY <1>1, <3>1, <3>2 DEF WalkInv
    <2> QED
      BY <2>1, <2>2 DEF Edit
  <1>3. \A i \in Process : RecOK(proc'[i], mod', Done', ran')
    BY <1>1 DEF RecOK
  <1> QED
    BY <1>2, <1>3 DEF WalkInv

(* every step of every invocation, a crash and an edit keep WalkInv         *)
LEMMA NextWalk == TypeOK /\ MarkerImpliesRan /\ WalkInv /\ [Next]_vars => WalkInv'
  <1> SUFFICES ASSUME TypeOK, MarkerImpliesRan, WalkInv, [Next]_vars PROVE WalkInv'
    OBVIOUS
  <1>1. ASSUME NEW i \in Process, Step(i) PROVE WalkInv'
    <2>1. CASE TreeEnter(i) \/ TreeDescend(i) \/ CollectEnter(i)
      BY <2>1, EnterWalk
    <2>2. CASE RunOne(i) \/ TreeDone(i)
      BY <2>2, RunWalk
    <2>3. CASE \E ok \in BOOLEAN, a \in Content \cup {Absent} : HookEnds(i, ok, a)
      BY <2>3, HookWalk
    <2>4. CASE \E ok \in BOOLEAN : MarkOpen(i, ok) \/ MarkWrite(i, ok)
      <3>1. Absent \in Content \cup {Absent}
        OBVIOUS
      <3> QED
        BY <2>4, <3>1, HookWalk
    <2>5. CASE CollectPush(i) \/ CollectDone(i) \/ VerifyRead(i) \/ VerifyNode(i) \/ VerifyDone(i)
      BY <2>5, CollectWalk
    <2>6. CASE HashNode(i) \/ \E ok \in BOOLEAN : LockOpen(i, ok) \/ LockWrite(i, ok)
      <3>1. TRUE \in BOOLEAN
        OBVIOUS
      <3> QED
        BY <2>6, <3>1, LockWalk
    <2> QED
      BY <1>1, <2>1, <2>2, <2>3, <2>4, <2>5, <2>6 DEF Step
  <1>2. ASSUME NEW i \in Process, Crash(i) PROVE WalkInv'
    <2> DEFINE q == [Idle EXCEPT !.pc = "crashed"]
    <2>1. Update(i, q) /\ UNCHANGED <<mod, script, lock, ran>>
      BY <1>2 DEF Crash
    <2>2. q.pc = "crashed"
      BY DEF Idle
    <2> HIDE DEF q
    <2>3. RecOK(q, mod, Done, ran)
      BY <2>2 DEF RecOK
    <2> QED
      BY <2>1, <2>3, LocalWalk
  <1>3. CASE \E i \in Process, allow, force, locked \in BOOLEAN : Start(i, allow, force, locked)
    BY <1>3, StartsWalk
  <1>4. CASE Edit
    BY <1>4, EditWalk
  <1>5. CASE UNCHANGED vars
    BY <1>5 DEF vars, WalkInv, Done, HookKey, ScriptHash
  <1> QED
    BY <1>1, <1>2, <1>3, <1>4, <1>5 DEF Next

(* no command has started and no lock has been written                      *)
LEMMA InitWalk == Init => WalkInv
  BY InstallAssumption DEF Init, WalkInv, RecOK, Idle

(* A complete clux.lock vouches for its hooks: whatever crashes, failed     *)
(* writes, edits and overlapping installs come between, a postinstall       *)
(* command that it lists has succeeded with the script it records.          *)
THEOREM LockCorrect == Spec => []LockedHooksRan
  <1>1. WalkInv => LockedHooksRan
    BY DEF WalkInv, PkgsOK, LockedHooksRan
  <1>2. Spec => []MarkerImpliesRan
    BY MarkerCorrect
  <1> QED
    BY <1>1, <1>2, InitWalk, TypeCorrect, NextWalk, PTL DEF Spec

(* while a hook runs in an install without a failure so far, the hooks of   *)
(* the packages directly below are done                                     *)
LEMMA HookLast == TypeOK /\ WalkInv => DepsFirst
  <1> SUFFICES ASSUME TypeOK, WalkInv, NEW i \in Process, proc[i].pc = "hook", ~proc[i].failed,
                      Depth(proc[i].stack) < InstallMaxDepth,
                      NEW k \in 1..Len(Deps[Top(proc[i].stack).pkg]),
                      mod[Deps[Top(proc[i].stack).pkg][k]] \in Manifest,
                      mod[Deps[Top(proc[i].stack).pkg][k]].cmd # NoCmd
               PROVE  LET d == Deps[Top(proc[i].stack).pkg][k]
                      IN HookKey(d, mod[d].cmd) \in ran[d]
    BY DEF DepsFirst
  <1> DEFINE r == proc[i]
             s == r.stack
             f == Top(s)
             d == Deps[f.pkg][k]
  <1>1. /\ HookOK(r) /\ s \in Seq(FrameType) /\ f.todo = <<>>
        /\ ChildrenFirst(s, mod, Done)
    BY AtWork DEF WalkOK, TreePC
  <1>2. s # <<>> /\ f.loaded
    BY <1>1 DEF HookOK
  <1>3. Len(s) \in 1..Len(s) /\ f = s[Len(s)] /\ Len(s) <= InstallMaxDepth
    <2>1. /\ s \in Seq(FrameType) /\ s # <<>> /\ f = Top(s)
          /\ Depth(s) < InstallMaxDepth /\ InstallMaxDepth \in Nat
      BY <1>1, <1>2, InstallAssumption
    <2> HIDE DEF r, s, f, d
    <2>2. Len(s) \in 1..Len(s) /\ Len(s) \in Nat
      BY <2>1, TopType
    <2>3. Len(s) <= InstallMaxDepth
      BY <2>1, <2>2 DEF Depth
    <2> QED
      BY <2>1, <2>2, <2>3, Zenon DEF Top
  <1>4. d \in DepsOf(f.pkg) /\ mod[d] # Absent
    BY InstallAssumption DEF DepsOf, Elems
  <1>5. d \in Done
    <2>1. Elems(f.todo) = {}
      BY <1>1 DEF Elems
    <2>2. PICK n \in 1..Len(s) : n = Len(s) /\ s[n] = f /\ s[n].loaded /\ n <= InstallMaxDepth
      BY <1>2, <1>3
    <2> HIDE DEF r, s, f, d
    <2>3. d \in Done \/ d \in Elems(s[n].todo) \/ (n < Len(s) /\ s[n + 1].pkg = d)
      BY <1>1, <1>4, <2>2, Zenon DEF ChildrenFirst
    <2>4. ~ n < Len(s)
      BY <2>2
    <2> QED
      BY <2>1, <2>2, <2>3, <2>4, Zenon
  <1> QED
    BY <1>5 DEF Done

(* "deps first, then root", at every depth at which hooks run, however many *)
(* installs overlap and whatever is interrupted.                            *)
THEOREM OrderCorrect == Spec => []DepsFirst
  <1>1. Spec => []MarkerImpliesRan
    BY MarkerCorrect
  <1> QED
    BY <1>1, HookLast, InitWalk, TypeCorrect, NextWalk, PTL DEF Spec

=============================================================================
