-------------------------- MODULE ModuleLoadProofs --------------------------
(***************************************************************************)
(* For any set of modules and any import graph: the type of the loader's   *)
(* state, that an importer is handed only modules that are finished, that  *)
(* the module order is topological, that the export tables are exact, and  *)
(* that the verdict is right.                                              *)
(***************************************************************************)
EXTENDS ModuleLoad, SequenceTheorems, TLAPS

Slot  == [path : Path, live : BOOLEAN]
Frame == [path : Path, next : Nat \ {0}]

(* The type of the variables, in the form the steps need.                   *)
Shape ==
  /\ src = [p \in Path |-> src[p]]
  /\ \A p \in Path : src[p] = None \/ src[p] \in Sources(p)
  /\ frames \in Seq(Frame) /\ pathStack \in Seq(Slot) /\ order \in Seq(Path)
  /\ call \in Path \cup {None} /\ ret \in Path \cup {None, Null}
  /\ call = None \/ ret = None
  /\ mods \in [Path -> {"absent", "stub", "prepared"}]
  /\ exports \in [Path -> SUBSET (Symbol \X Path)]
  /\ hasErr \in BOOLEAN /\ status \in {"running", "ok", "failed"}

(* A frame is a module that was opened; the one below it is at the import   *)
(* that names it, and the innermost at the one that is on its way.          *)
Chain ==
  /\ \A i \in DOMAIN frames :
       /\ src[frames[i].path] # None
       /\ frames[i].next <= Len(Imports(frames[i].path)) + 1
  /\ \A i \in 1..(Len(frames) - 1) :
       /\ frames[i].next <= Len(Imports(frames[i].path))
       /\ frames[i + 1].path = Imports(frames[i].path)[frames[i].next].to
  /\ frames # <<>> /\ (call # None \/ ret # None) =>
       /\ Top.next <= Len(Imports(Top.path))
       /\ call # None => call = Imports(Top.path)[Top.next].to
       /\ ret \in Path => ret = Imports(Top.path)[Top.next].to

(* The modules in analysis are the stubs of the table, each is on the path  *)
(* stack with a live string, and nothing else is before the first failure.  *)
(* This is why a module in the table that is not on the path stack is       *)
(* finished.                                                                *)
OnStack ==
  /\ \A i, j \in DOMAIN frames : frames[i].path = frames[j].path => i = j
  /\ \A i \in DOMAIN frames : OnPathStack(frames[i].path)
  /\ ~ hasErr /\ ret # Null =>
       /\ Len(pathStack) = Len(frames)
       /\ \A i \in DOMAIN frames :
            pathStack[i].path = frames[i].path /\ pathStack[i].live
  /\ \A p \in Path : mods[p] = "stub" <=> \E i \in DOMAIN frames : frames[i].path = p
  /\ ImportersGetPrepared

(* A finished module is in the order, and so is, as long as nothing failed, *)
(* every import the modules in analysis have behind them.                   *)
Visited ==
  /\ \A p \in Path : mods[p] = "prepared" => \E i \in DOMAIN order : order[i] = p
  /\ ~ hasErr =>
       \A i \in DOMAIN frames : \A k \in 1..(frames[i].next - 1) :
         \E j \in DOMAIN order : order[j] = Imports(frames[i].path)[k].to
  /\ \A i \in DOMAIN order : src[order[i]] # None
  /\ OrderTopological

Inv == Shape /\ Chain /\ OnStack /\ Visited

-----------------------------------------------------------------------------
LEMMA AppendFacts ==
  ASSUME NEW S, NEW s \in Seq(S), NEW x \in S
  PROVE  /\ Append(s, x) \in Seq(S)
         /\ Len(Append(s, x)) = Len(s) + 1
         /\ DOMAIN Append(s, x) = 1..(Len(s) + 1)
         /\ \A i \in DOMAIN s : Append(s, x)[i] = s[i]
         /\ Append(s, x)[Len(s) + 1] = x
  OBVIOUS

LEMMA FrontFacts ==
  ASSUME NEW S, NEW s \in Seq(S), s # <<>>
  PROVE  /\ Front(s) \in Seq(S)
         /\ Len(Front(s)) = Len(s) - 1
         /\ DOMAIN Front(s) = 1..(Len(s) - 1)
         /\ \A i \in 1..(Len(s) - 1) : Front(s)[i] = s[i]
  <1>1. /\ Front(s) \in Seq(S)
        /\ DOMAIN Front(s) = 1..(Len(s) - 1)
        /\ \A i \in 1..(Len(s) - 1) : Front(s)[i] = s[i]
    BY DEF Front
  <1>2. Len(s) \in Nat \ {0} /\ Len(Front(s)) \in Nat
    BY <1>1, EmptySeq, LenProperties
  <1>3. DOMAIN Front(s) = 1..Len(Front(s))
    BY <1>1, LenProperties
  <1>. QED  BY <1>1, <1>2, <1>3

LEMMA LastFacts ==
  ASSUME NEW S, NEW s \in Seq(S), s # <<>>
  PROVE  /\ Len(s) \in Nat \ {0}
         /\ DOMAIN s = 1..Len(s)
         /\ Len(s) \in DOMAIN s
         /\ s[Len(s)] \in S
  OBVIOUS

(* The source of a module that was opened.                                  *)
LEMMA SourceFacts ==
  ASSUME Shape, NEW p \in Path, src[p] # None
  PROVE  /\ Imports(p) \in Seq(Import)
         /\ src[p].own \subseteq Symbol
         /\ Len(Imports(p)) \in Nat
         /\ \A k \in 1..Len(Imports(p)) : Imports(p)[k].to \in Path \cup {Missing}
  <1>1. IsSource(src[p])
    BY LoadAssumption DEF Shape
  <1>2. Imports(p) \in Seq(Import) /\ src[p].own \subseteq Symbol
    BY <1>1 DEF IsSource, Imports
  <1>3. \A k \in 1..Len(Imports(p)) : Imports(p)[k] \in Import
    BY <1>2, ElementOfSeq
  <1>. QED  BY <1>2, <1>3, LenProperties DEF Import

(* Passing over an import.                                                  *)
LEMMA SkippedFacts ==
  ASSUME Shape, frames # <<>>, Skipped
  PROVE  /\ frames' \in Seq(Frame)
         /\ Len(frames') = Len(frames)
         /\ DOMAIN frames' = DOMAIN frames
         /\ \A i \in DOMAIN frames : frames'[i].path = frames[i].path
         /\ \A i \in 1..(Len(frames) - 1) : frames'[i].next = frames[i].next
         /\ frames'[Len(frames)].next = frames[Len(frames)].next + 1
         /\ frames' # <<>>
  <1>1. /\ Len(frames) \in DOMAIN frames
        /\ frames \in [1..Len(frames) -> Frame]
        /\ Len(frames) \in Nat \ {0}
    BY LastFacts DEF Shape
  <1>2. \A i \in DOMAIN frames : frames[i] \in Frame
    BY <1>1
  <1>3. frames' = [i \in 1..Len(frames) |->
                     IF i = Len(frames) THEN [frames[i] EXCEPT !.next = @ + 1]
                     ELSE frames[i]]
    BY <1>1 DEF Skipped
  <1>4. \A i \in 1..Len(frames) : frames'[i] \in Frame
    BY <1>1, <1>2, <1>3 DEF Frame
  <1>5. frames' \in Seq(Frame) /\ Len(frames') = Len(frames)
    BY <1>1, <1>3, <1>4
  <1>. QED
    BY <1>1, <1>2, <1>3, <1>5 DEF Frame

(* Opening a module leaves the sources of the others alone.                 *)
LEMMA OpensFacts ==
  ASSUME Shape, NEW p \in Path, NEW s, Opens(p, s)
  PROVE  /\ s \in Sources(p) /\ src'[p] = s /\ s # None
         /\ src' = [q \in Path |-> src'[q]]
         /\ \A q \in Path : src'[q] = None \/ src'[q] \in Sources(q)
         /\ \A q \in Path : src[q] # None => src'[q] = src[q]
  <1>1. s \in Sources(p) /\ (src[p] # None => s = src[p])
    BY DEF Opens, Shape
  <1>2. s # None
    BY <1>1, LoadAssumption
  <1>. QED  BY <1>1, <1>2 DEF Opens, Shape

(* The order stays topological when nothing is opened again and nothing     *)
(* that is finished leaves the table.                                       *)
LEMMA OrderKept ==
  ASSUME Shape, Visited, order' = order,
         \A q \in Path : src[q] # None => src'[q] = src[q],
         \A q \in Path : mods[q] = "prepared" => mods'[q] = "prepared"
  PROVE  /\ \A i \in DOMAIN order' : src'[order'[i]] # None
         /\ OrderTopological'
  <1>1. \A i \in DOMAIN order : order[i] \in Path
    BY ElementOfSeq, LenProperties DEF Shape
  <1>2. \A i \in DOMAIN order : src'[order[i]] = src[order[i]] /\ src[order[i]] # None
    BY <1>1 DEF Visited
  <1>3. ASSUME NEW i \in DOMAIN order
        PROVE  Successors(order[i])' = Successors(order[i])
    <2>1. order[i] \in Opened /\ (order[i] \in Opened)'
      BY <1>1, <1>2 DEF Opened
    <2>2. Imports(order[i])' = Imports(order[i])
      BY <1>2 DEF Imports
    <2>. QED  BY <2>1, <2>2 DEF Successors
  <1>. QED  BY <1>1, <1>2, <1>3 DEF Visited, OrderTopological

(* The modules in analysis.                                                 *)
LEMMA FrameFacts ==
  ASSUME Shape, Chain
  PROVE  /\ Len(frames) \in Nat /\ DOMAIN frames = 1..Len(frames)
         /\ Len(pathStack) \in Nat /\ DOMAIN pathStack = 1..Len(pathStack)
         /\ \A i \in DOMAIN frames :
              /\ frames[i].path \in Path /\ frames[i].next \in Nat \ {0}
              /\ src[frames[i].path] # None
  <1>1. /\ Len(frames) \in Nat /\ DOMAIN frames = 1..Len(frames)
        /\ Len(pathStack) \in Nat /\ DOMAIN pathStack = 1..Len(pathStack)
    BY LenProperties DEF Shape
  <1>2. \A i \in DOMAIN frames : frames[i] \in Frame
    BY <1>1, ElementOfSeq DEF Shape
  <1>. QED  BY <1>1, <1>2 DEF Frame, Chain

(* The innermost module.                                                    *)
LEMMA TopFacts ==
  ASSUME Shape, Chain, frames # <<>>
  PROVE  /\ Len(frames) \in Nat \ {0} /\ Len(frames) \in DOMAIN frames
         /\ DOMAIN frames = 1..Len(frames)
         /\ \A i \in DOMAIN frames : frames[i].path \in Path /\ frames[i].next \in Nat \ {0}
         /\ Top.path \in Path /\ Top.next \in Nat \ {0} /\ src[Top.path] # None
         /\ Imports(Top.path) \in Seq(Import) /\ Len(Imports(Top.path)) \in Nat
  <1>1. /\ Len(frames) \in Nat \ {0} /\ Len(frames) \in DOMAIN frames
        /\ DOMAIN frames = 1..Len(frames)
    BY LastFacts DEF Shape
  <1>2. \A i \in DOMAIN frames : frames[i] \in Frame
    BY <1>1, ElementOfSeq DEF Shape
  <1>3. Top.path \in Path /\ Top.next \in Nat \ {0} /\ src[Top.path] # None
    BY <1>1, <1>2 DEF Top, Frame, Chain
  <1>. QED  BY <1>1, <1>2, <1>3, SourceFacts DEF Frame

-----------------------------------------------------------------------------
(* Init and the steps.                                                      *)
LEMMA InitInv == ASSUME Init PROVE Inv
  <1>1. Shape
    <2>1. <<>> \in Seq(Frame) /\ <<>> \in Seq(Slot) /\ <<>> \in Seq(Path)
      OBVIOUS
    <2>2. frames \in Seq(Frame) /\ pathStack \in Seq(Slot) /\ order \in Seq(Path)
      BY <2>1 DEF Init
    <2>3. /\ mods \in [Path -> {"absent", "stub", "prepared"}]
          /\ exports \in [Path -> SUBSET (Symbol \X Path)]
      BY DEF Init
    <2>5. /\ src = [p \in Path |-> src[p]]
          /\ \A p \in Path : src[p] = None
      BY DEF Init
    <2>4. /\ call \in Path /\ ret = None
          /\ hasErr \in BOOLEAN /\ status \in {"running", "ok", "failed"}
      BY LoadAssumption DEF Init
    <2>. QED  BY <2>2, <2>3, <2>4, <2>5 DEF Shape
  <1>2. Chain
    BY DEF Init, Chain
  <1>3. OnStack
    BY LoadAssumption DEF Init, OnStack, ImportersGetPrepared
  <1>4. Visited
    BY DEF Init, Visited, OrderTopological
  <1>. QED  BY <1>1, <1>2, <1>3, <1>4 DEF Inv

LEMMA ReportCircularInv == ASSUME Inv, ReportCircular PROVE Inv'
  <1>. USE DEF Inv, ReportCircular, Returns
  <1>1. Shape'
    BY DEF Shape
  <1>2. Chain'
    BY LoadAssumption DEF Chain, Imports, Top
  <1>3. OnStack'
    BY LoadAssumption DEF OnStack, OnPathStack, ImportersGetPrepared
  <1>4. Visited'
    BY OrderKept DEF Visited
  <1>. QED  BY <1>1, <1>2, <1>3, <1>4

LEMMA UseCachedInv == ASSUME Inv, UseCached PROVE Inv'
  <1>. USE DEF Inv, UseCached, Returns
  <1>1. Shape'
    BY LoadAssumption DEF Shape
  <1>2. call \in Path /\ ret = None
    BY DEF Shape
  <1>3. Chain'
    BY <1>2, LoadAssumption DEF Chain, Imports, Top
  <1>4. mods[call] = "prepared"
    <2>1. mods[call] # "stub"
      BY <1>2 DEF OnStack
    <2>. QED  BY <1>2, <2>1 DEF Shape
  <1>5. OnStack'
    BY <1>2, <1>4, LoadAssumption DEF OnStack, OnPathStack, ImportersGetPrepared
  <1>6. Visited'
    BY OrderKept DEF Visited, Imports
  <1>. QED  BY <1>1, <1>3, <1>5, <1>6

LEMMA RejectInv == ASSUME Inv, Reject PROVE Inv'
  <1>. USE DEF Inv
  <1>1. call \in Path /\ ret = None /\ ret' = Null /\ call' = None
    BY DEF Reject, Returns, Shape
  <1>2. PICK s \in Sources(call) : Opens(call, s) /\ hasErr' = (hasErr \/ s.fault = "syntax")
    BY DEF Reject
  <1>3. /\ src' = [q \in Path |-> src'[q]]
        /\ \A q \in Path : src'[q] = None \/ src'[q] \in Sources(q)
        /\ \A q \in Path : src[q] # None => src'[q] = src[q]
    BY <1>1, <1>2, OpensFacts
  <1>4. Shape'
    <2>1. [path |-> call, live |-> FALSE] \in Slot
      BY <1>1 DEF Slot
    <2>2. pathStack' \in Seq(Slot)
      BY <2>1, AppendFacts DEF Reject, Shape
    <2>. QED  BY <1>1, <1>2, <1>3, <2>2 DEF Reject, Shape
  <1>5. Chain'
    <2>1. \A i \in DOMAIN frames : src'[frames[i].path] = src[frames[i].path] /\ src[frames[i].path] # None
      BY <1>3, FrameFacts
    <2>2. frames' = frames
      BY DEF Reject
    <2>3. frames # <<>> => Len(frames) \in DOMAIN frames
      BY LastFacts DEF Shape
    <2>4. \A i \in DOMAIN frames : frames[i].next <= Len(src'[frames[i].path].imports) + 1
      BY <2>1 DEF Chain, Imports
    <2>6. ASSUME NEW i \in 1..(Len(frames) - 1)
          PROVE  /\ frames[i].next <= Len(src'[frames[i].path].imports)
                 /\ frames[i + 1].path = src'[frames[i].path].imports[frames[i].next].to
      <3>1. i \in DOMAIN frames
        BY FrameFacts
      <3>. QED  BY <2>1, <3>1 DEF Chain, Imports
    <2>5. frames # <<>> => Top.next <= Len(src'[Top.path].imports)
      BY <1>1, <2>1, <2>3, LoadAssumption DEF Chain, Top, Imports
    <2>. QED  BY <1>1, <2>1, <2>2, <2>4, <2>5, <2>6, LoadAssumption DEF Chain, Top, Imports
  <1>6. OnStack'
    <2>1. ASSUME NEW i \in DOMAIN frames
          PROVE  OnPathStack(frames[i].path)'
      <3>1. PICK j \in DOMAIN pathStack :
              pathStack[j].live /\ pathStack[j].path = frames[i].path
        BY DEF OnStack, OnPathStack
      <3>2. [path |-> call, live |-> FALSE] \in Slot
        BY <1>1 DEF Slot
      <3>3. j \in DOMAIN pathStack' /\ pathStack'[j] = pathStack[j]
        BY <3>2, AppendFacts, FrameFacts DEF Reject, Shape
      <3>. QED  BY <3>1, <3>3 DEF OnPathStack, Reject
    <2>2. frames' = frames /\ mods' = mods
      BY DEF Reject
    <2>. QED  BY <1>1, <2>1, <2>2, LoadAssumption DEF OnStack, ImportersGetPrepared
  <1>7. Visited'
    <2>1. \A i \in DOMAIN frames : src'[frames[i].path] = src[frames[i].path] /\ src[frames[i].path] # None
      BY <1>3, FrameFacts
    <2>2. \A q \in Path : mods[q] = "prepared" => mods'[q] = "prepared"
      BY DEF Reject
    <2>3. /\ \A i \in DOMAIN order' : src'[order'[i]] # None
          /\ OrderTopological'
      BY <1>3, <2>2, OrderKept DEF Reject
    <2>4. /\ frames' = frames /\ mods' = mods /\ order' = order
          /\ hasErr => hasErr'
      BY <1>2 DEF Reject
    <2>5. ASSUME ~ hasErr', NEW i \in DOMAIN frames, NEW k \in 1..(frames[i].next - 1)
          PROVE  \E j \in DOMAIN order : order[j] = src'[frames[i].path].imports[k].to
      BY <2>1, <2>4, <2>5 DEF Visited, Imports
    <2>. QED  BY <2>3, <2>4, <2>5 DEF Visited, Imports
  <1>. QED  BY <1>4, <1>5, <1>6, <1>7

LEMMA EnterInv == ASSUME Inv, Enter PROVE Inv'
  <1>. USE DEF Inv
  <1>1. call \in Path /\ ret = None /\ ret' = None /\ call' = None /\ ~ hasErr /\ ~ hasErr'
    BY DEF Enter, Shape
  <1>2. PICK s \in Sources(call) : Opens(call, s)
    BY DEF Enter
  <1>3. /\ src' = [q \in Path |-> src'[q]] /\ src'[call] # None
        /\ \A q \in Path : src'[q] = None \/ src'[q] \in Sources(q)
        /\ \A q \in Path : src[q] # None => src'[q] = src[q]
        /\ src'[call] = s
    BY <1>1, <1>2, OpensFacts
  <1>. DEFINE slot == [path |-> call, live |-> TRUE]
              frame == [path |-> call, next |-> 1]
  <1>4. slot \in Slot /\ frame \in Frame
    BY <1>1 DEF Slot, Frame
  <1>5. /\ pathStack' \in Seq(Slot) /\ Len(pathStack') = Len(pathStack) + 1
        /\ DOMAIN pathStack' = 1..(Len(pathStack) + 1)
        /\ \A i \in DOMAIN pathStack : pathStack'[i] = pathStack[i]
        /\ pathStack'[Len(pathStack) + 1] = slot
    BY <1>4, AppendFacts DEF Enter, Shape
  <1>6. /\ frames' \in Seq(Frame) /\ Len(frames') = Len(frames) + 1
        /\ DOMAIN frames' = 1..(Len(frames) + 1)
        /\ \A i \in DOMAIN frames : frames'[i] = frames[i]
        /\ frames'[Len(frames) + 1] = frame
    BY <1>4, AppendFacts DEF Enter, Shape
  <1>7. /\ Len(frames) \in Nat /\ DOMAIN frames = 1..Len(frames)
        /\ Len(pathStack) \in Nat /\ DOMAIN pathStack = 1..Len(pathStack)
    BY FrameFacts
  <1>8. Shape'
    BY <1>1, <1>3, <1>5, <1>6 DEF Enter, Shape
  <1>9. \A i \in DOMAIN frames :
          /\ src'[frames[i].path] = src[frames[i].path] /\ src[frames[i].path] # None
          /\ frames[i].next \in Nat \ {0}
    BY <1>3, FrameFacts
  <1>10. Chain'
    <2>1. \A i \in DOMAIN frames : src'[frames'[i].path].imports = Imports(frames[i].path)
      BY <1>6, <1>9 DEF Imports
    <2>2. Len(src'[call].imports) \in Nat
      BY <1>1, <1>2, <1>3, LoadAssumption, LenProperties DEF IsSource
    <2>3. ASSUME NEW i \in DOMAIN frames'
          PROVE  /\ src'[frames'[i].path] # None
                 /\ frames'[i].next <= Len(src'[frames'[i].path].imports) + 1
      <3>1. CASE i \in DOMAIN frames
        BY <3>1, <1>6, <1>9, <2>1 DEF Chain
      <3>2. CASE i = Len(frames) + 1
        BY <3>2, <1>3, <1>6, <2>2
      <3>. QED  BY <3>1, <3>2, <1>6, <1>7
    <2>4. ASSUME NEW i \in 1..(Len(frames') - 1)
          PROVE  /\ frames'[i].next <= Len(src'[frames'[i].path].imports)
                 /\ frames'[i + 1].path = src'[frames'[i].path].imports[frames'[i].next].to
      <3>1. i \in DOMAIN frames /\ frames'[i] = frames[i]
        BY <1>6, <1>7
      <3>2. CASE i < Len(frames)
        <4>1. i \in 1..(Len(frames) - 1) /\ frames'[i + 1] = frames[i + 1]
          BY <3>2, <1>6, <1>7
        <4>. QED  BY <3>1, <4>1, <2>1 DEF Chain
      <3>3. CASE i = Len(frames)
        <4>1. frames # <<>> /\ call # None
          BY <3>1, LoadAssumption DEF Enter
        <4>2. Top.next <= Len(Imports(Top.path)) /\ call = Imports(Top.path)[Top.next].to
          BY <4>1 DEF Chain
        <4>3. frames'[i + 1].path = call
          BY <3>3, <1>6
        <4>. QED  BY <3>1, <3>3, <4>2, <4>3, <2>1 DEF Top
      <3>4. Len(frames) \in Nat /\ Len(frames') - 1 = Len(frames)
        BY <1>6, <1>7
      <3>5. i < Len(frames) \/ i = Len(frames)
        BY <3>4
      <3>. QED  BY <3>2, <3>3, <3>5
    <2>. QED  BY <2>3, <2>4, <1>1 DEF Chain, Imports
  <1>11. OnStack'
    <2>1. ASSUME NEW i \in DOMAIN frames
          PROVE  \E j \in DOMAIN pathStack' : pathStack'[j].live /\ pathStack'[j].path = frames[i].path
      <3>1. PICK j \in DOMAIN pathStack :
              pathStack[j].live /\ pathStack[j].path = frames[i].path
        BY DEF OnStack, OnPathStack
      <3>. QED  BY <3>1, <1>5, <1>7
    <2>2. \E j \in DOMAIN pathStack' : pathStack'[j].live /\ pathStack'[j].path = call
      BY <1>5, <1>7
    <2>3. \A i \in DOMAIN frames : frames[i].path # call
      BY DEF OnStack, Enter
    <2>4. ASSUME NEW i \in DOMAIN frames', NEW j \in DOMAIN frames',
                 frames'[i].path = frames'[j].path
          PROVE  i = j
      <3>1. \A n \in DOMAIN frames' :
              \/ n \in DOMAIN frames /\ frames'[n].path = frames[n].path
              \/ n = Len(frames) + 1 /\ frames'[n].path = call
        BY <1>6, <1>7
      <3>. QED  BY <2>4, <3>1, <2>3 DEF OnStack
    <2>5. ASSUME NEW i \in DOMAIN frames'
          PROVE  \E j \in DOMAIN pathStack' : pathStack'[j].live /\ pathStack'[j].path = frames'[i].path
      <3>1. CASE i \in DOMAIN frames
        BY <3>1, <2>1, <1>6
      <3>2. CASE i = Len(frames) + 1
        BY <3>2, <2>2, <1>6
      <3>. QED  BY <3>1, <3>2, <1>6, <1>7
    <2>6. /\ Len(pathStack') = Len(frames')
          /\ \A i \in DOMAIN frames' :
               pathStack'[i].path = frames'[i].path /\ pathStack'[i].live
      <3>1. /\ Len(pathStack) = Len(frames)
            /\ \A i \in DOMAIN frames :
                 pathStack[i].path = frames[i].path /\ pathStack[i].live
        BY <1>1, LoadAssumption DEF OnStack
      <3>2. ASSUME NEW i \in DOMAIN frames'
            PROVE  pathStack'[i].path = frames'[i].path /\ pathStack'[i].live
        <4>1. CASE i \in DOMAIN frames
          BY <4>1, <3>1, <1>5, <1>6, <1>7
        <4>2. CASE i = Len(frames) + 1
          BY <4>2, <3>1, <1>5, <1>6
        <4>. QED  BY <4>1, <4>2, <1>6, <1>7
      <3>. QED  BY <3>1, <3>2, <1>5, <1>6
    <2>7. ASSUME NEW p \in Path
          PROVE  mods'[p] = "stub" <=> \E i \in DOMAIN frames' : frames'[i].path = p
      <3>1. mods'[p] = IF p = call THEN "stub" ELSE mods[p]
        BY <1>1 DEF Enter, Shape
      <3>2. (\E i \in DOMAIN frames' : frames'[i].path = p) <=>
              (p = call \/ \E i \in DOMAIN frames : frames[i].path = p)
        BY <1>6, <1>7
      <3>. QED  BY <3>1, <3>2 DEF OnStack
    <2>. QED  BY <2>4, <2>5, <2>6, <2>7, <1>1, LoadAssumption DEF OnStack, OnPathStack, ImportersGetPrepared
  <1>12. Visited'
    <2>1. \A q \in Path : mods[q] = "prepared" <=> mods'[q] = "prepared"
      BY <1>1 DEF Enter, Shape
    <2>2. ASSUME NEW i \in DOMAIN frames', NEW k \in 1..(frames'[i].next - 1)
          PROVE  \E j \in DOMAIN order : order[j] = src'[frames'[i].path].imports[k].to
      <3>1. CASE i \in DOMAIN frames
        BY <3>1, <1>1, <1>6, <1>9 DEF Visited, Imports
      <3>2. CASE i = Len(frames) + 1
        BY <3>2, <1>6
      <3>. QED  BY <3>1, <3>2, <1>6, <1>7
    <2>3. order' = order
      BY DEF Enter
    <2>4. /\ \A i \in DOMAIN order' : src'[order'[i]] # None
          /\ OrderTopological'
      BY <1>3, <2>1, <2>3, OrderKept
    <2>. QED  BY <2>1, <2>2, <2>3, <2>4 DEF Visited, Imports
  <1>. QED  BY <1>8, <1>10, <1>11, <1>12

LEMMA ImportModuleInv == ASSUME Inv, ImportModule PROVE Inv'
  <1>. USE DEF Inv
  <1>1. /\ frames # <<>> /\ call = None /\ ret = None /\ ret' = None
        /\ Top.next <= Len(Imports(Top.path))
        /\ call' = Imports(Top.path)[Top.next].to /\ call' # Missing
    BY DEF ImportModule, AtImport
  <1>2. call' \in Path
    <2>1. Top.next \in 1..Len(Imports(Top.path))
      BY <1>1, TopFacts
    <2>. QED  BY <1>1, <2>1, TopFacts, SourceFacts
  <1>3. Shape'
    BY <1>1, <1>2 DEF ImportModule, Shape
  <1>4. Chain'
    BY <1>1, LoadAssumption DEF ImportModule, Chain, Top, Imports
  <1>5. OnStack'
    BY <1>1 DEF ImportModule, OnStack, OnPathStack, ImportersGetPrepared
  <1>6. Visited'
    <2>1. OrderTopological'
      BY OrderKept DEF ImportModule
    <2>. QED  BY <2>1 DEF ImportModule, Visited, Imports
  <1>. QED  BY <1>3, <1>4, <1>5, <1>6

(* What the three ways past an import have in common.                       *)
LEMMA PassesImport ==
  ASSUME Inv, frames # <<>>, Skipped, call' = None, ret' = None,
         Top.next <= Len(Imports(Top.path)),
         hasErr' \in BOOLEAN, hasErr => hasErr',
         ~ hasErr' => ret # Null /\
           \E j \in DOMAIN order : order[j] = Imports(Top.path)[Top.next].to,
         UNCHANGED <<src, pathStack, mods, order, exports, status>>
  PROVE  Inv'
  <1>. USE DEF Inv
  <1>1. /\ frames' \in Seq(Frame) /\ frames' # <<>>
        /\ Len(frames') = Len(frames) /\ DOMAIN frames' = DOMAIN frames
        /\ \A i \in DOMAIN frames : frames'[i].path = frames[i].path
        /\ \A i \in 1..(Len(frames) - 1) : frames'[i].next = frames[i].next
        /\ frames'[Len(frames)].next = frames[Len(frames)].next + 1
    BY SkippedFacts
  <1>2. /\ Len(frames) \in Nat \ {0} /\ DOMAIN frames = 1..Len(frames)
        /\ \A i \in DOMAIN frames :
             frames[i].path \in Path /\ frames[i].next \in Nat \ {0}
        /\ Len(Imports(Top.path)) \in Nat
    BY TopFacts
  <1>3. Shape'
    BY <1>1, LoadAssumption DEF Shape
  <1>4. Chain'
    <2>1. ASSUME NEW i \in DOMAIN frames
          PROVE  /\ src[frames'[i].path] # None
                 /\ frames'[i].next <= Len(src[frames'[i].path].imports) + 1
      <3>1. CASE i = Len(frames)
        BY <3>1, <1>1, <1>2 DEF Chain, Top, Imports
      <3>2. CASE i \in 1..(Len(frames) - 1)
        BY <3>2, <1>1, <1>2 DEF Chain, Imports
      <3>. QED  BY <3>1, <3>2, <1>2
    <2>2. ASSUME NEW i \in 1..(Len(frames) - 1)
          PROVE  /\ frames'[i].next <= Len(src[frames'[i].path].imports)
                 /\ frames'[i + 1].path = src[frames'[i].path].imports[frames'[i].next].to
      <3>1. i \in DOMAIN frames /\ i + 1 \in DOMAIN frames
        BY <1>2
      <3>. QED  BY <3>1, <1>1 DEF Chain, Imports
    <2>. QED  BY <2>1, <2>2, <1>1, LoadAssumption DEF Chain, Imports
  <1>5. OnStack'
    <2>1. \A i \in DOMAIN frames :
            \E j \in DOMAIN pathStack : pathStack[j].live /\ pathStack[j].path = frames'[i].path
      BY <1>1 DEF OnStack, OnPathStack
    <2>2. \A i, j \in DOMAIN frames : frames'[i].path = frames'[j].path => i = j
      BY <1>1 DEF OnStack
    <2>3. ~ hasErr' => /\ Len(pathStack) = Len(frames)
                       /\ \A i \in DOMAIN frames :
                            pathStack[i].path = frames'[i].path /\ pathStack[i].live
      BY <1>1 DEF OnStack
    <2>4. \A p \in Path : mods[p] = "stub" <=> \E i \in DOMAIN frames : frames'[i].path = p
      BY <1>1 DEF OnStack
    <2>. QED  BY <1>1, <2>1, <2>2, <2>3, <2>4, LoadAssumption DEF OnStack, OnPathStack, ImportersGetPrepared
  <1>6. Visited'
    <2>1. OrderTopological'
      BY OrderKept
    <2>2. ASSUME ~ hasErr', NEW i \in DOMAIN frames, NEW k \in 1..(frames'[i].next - 1)
          PROVE  \E j \in DOMAIN order : order[j] = src[frames'[i].path].imports[k].to
      <3>1. CASE i \in 1..(Len(frames) - 1)
        <4>1. /\ frames'[i].path = frames[i].path
              /\ k \in 1..(frames[i].next - 1)
          BY <3>1, <1>1
        <4>. QED  BY <2>2, <4>1 DEF Visited, Imports
      <3>2. CASE i = Len(frames) /\ k \in 1..(frames[i].next - 1)
        <4>1. frames'[i].path = frames[i].path
          BY <1>1
        <4>. QED  BY <2>2, <3>2, <4>1 DEF Visited, Imports
      <3>3. CASE i = Len(frames) /\ k = frames[i].next
        BY <2>2, <3>3, <1>1, <1>2 DEF Top, Imports
      <3>4. i = Len(frames) \/ i \in 1..(Len(frames) - 1)
        BY <1>2
      <3>5. i = Len(frames) => k = frames[i].next \/ k \in 1..(frames[i].next - 1)
        BY <1>1, <1>2
      <3>. QED  BY <3>1, <3>2, <3>3, <3>4, <3>5
    <2>. QED  BY <2>1, <2>2, <1>1 DEF Visited, Imports
  <1>. QED  BY <1>3, <1>4, <1>5, <1>6

LEMMA ImportMissingInv == ASSUME Inv, ImportMissing PROVE Inv'
  BY PassesImport DEF ImportMissing, AtImport, Inv, Shape

LEMMA ImportFailsInv == ASSUME Inv, ImportFails PROVE Inv'
  <1>1. frames # <<>> /\ call' = None /\ Top.next <= Len(Imports(Top.path))
    BY LoadAssumption DEF Inv, Shape, Chain, ImportFails
  <1>. QED  BY <1>1, PassesImport DEF ImportFails

LEMMA ImportReturnsInv == ASSUME Inv, ImportReturns PROVE Inv'
  <1>1. /\ frames # <<>> /\ call' = None /\ ret # Null
        /\ Top.next <= Len(Imports(Top.path))
        /\ ret = Imports(Top.path)[Top.next].to
    BY LoadAssumption DEF Inv, Shape, Chain, ImportReturns
  <1>2. \E j \in DOMAIN order : order[j] = Imports(Top.path)[Top.next].to
    BY <1>1 DEF Inv, OnStack, ImportersGetPrepared, Visited, ImportReturns
  <1>. QED  BY <1>1, <1>2, PassesImport DEF ImportReturns, Inv, Shape

LEMMA FinishInv == ASSUME Inv, Finish PROVE Inv'
  <1>. USE DEF Inv
  <1>1. Shape'
    BY DEF Finish, Shape
  <1>2. Chain' /\ OnStack'
    BY DEF Finish, Chain, Top, Imports, OnStack, OnPathStack, ImportersGetPrepared
  <1>3. OrderTopological'
    BY OrderKept DEF Finish
  <1>4. Visited'
    BY <1>3 DEF Finish, Visited, Imports
  <1>. QED  BY <1>1, <1>2, <1>4

(* The end of an analysis: the frame below is at the import that named it.  *)
LEMMA LeavesFrame ==
  ASSUME Inv, frames # <<>>, frames' = Front(frames), src' = src,
         call' = None, ret' \in {Top.path, Null}
  PROVE  /\ frames' \in Seq(Frame) /\ Len(frames') = Len(frames) - 1
         /\ DOMAIN frames' = 1..(Len(frames) - 1)
         /\ \A i \in DOMAIN frames' : i \in DOMAIN frames /\ frames'[i] = frames[i]
         /\ \A i \in DOMAIN frames' : frames'[i].path # Top.path
         /\ \A p \in Path : p # Top.path =>
              ((\E i \in DOMAIN frames' : frames'[i].path = p)
                 <=> \E i \in DOMAIN frames : frames[i].path = p)
         /\ Chain'
  <1>. USE DEF Inv
  <1>1. /\ Len(frames) \in Nat \ {0} /\ DOMAIN frames = 1..Len(frames)
        /\ Top.path \in Path
    BY TopFacts
  <1>2. /\ frames' \in Seq(Frame) /\ Len(frames') = Len(frames) - 1
        /\ DOMAIN frames' = 1..(Len(frames) - 1)
        /\ \A i \in 1..(Len(frames) - 1) : frames'[i] = frames[i]
    BY FrontFacts DEF Shape
  <1>3. \A i \in DOMAIN frames' : i \in DOMAIN frames /\ frames'[i] = frames[i]
    BY <1>1, <1>2
  <1>4. \A i \in DOMAIN frames' : frames'[i].path # Top.path
    BY <1>1, <1>2, <1>3 DEF OnStack, Top
  <1>5. \A i \in DOMAIN frames : i \in DOMAIN frames' \/ frames[i].path = Top.path
    BY <1>1, <1>2 DEF Top
  <1>6. \A p \in Path : p # Top.path =>
          ((\E i \in DOMAIN frames' : frames'[i].path = p)
             <=> \E i \in DOMAIN frames : frames[i].path = p)
    BY <1>3, <1>5
  <1>7. Chain'
    <2>1. \A i \in DOMAIN frames' :
            /\ src[frames'[i].path] # None
            /\ frames'[i].next <= Len(src[frames'[i].path].imports) + 1
      BY <1>3 DEF Chain, Imports
    <2>2. ASSUME NEW i \in 1..(Len(frames) - 1)
          PROVE  /\ frames'[i].next <= Len(src[frames'[i].path].imports)
                 /\ frames[i + 1].path = src[frames'[i].path].imports[frames'[i].next].to
      BY <1>2 DEF Chain, Imports
    <2>3. ASSUME NEW i \in 1..(Len(frames') - 1)
          PROVE  /\ frames'[i].next <= Len(src[frames'[i].path].imports)
                 /\ frames'[i + 1].path = src[frames'[i].path].imports[frames'[i].next].to
      <3>1. i \in 1..(Len(frames) - 1) /\ i + 1 \in 1..(Len(frames) - 1)
        BY <1>1, <1>2
      <3>. QED  BY <2>2, <3>1, <1>2
    <2>4. ASSUME frames' # <<>>
          PROVE  LET top == frames'[Len(frames')]
                 IN  /\ top.next <= Len(src[top.path].imports)
                     /\ Top.path = src[top.path].imports[top.next].to
      <3>1. Len(frames') # 0
        BY <1>2, <2>4, EmptySeq
      <3>2. Len(frames) - 1 \in 1..(Len(frames) - 1) /\ Len(frames) - 1 + 1 = Len(frames)
        BY <1>1, <1>2, <3>1
      <3>. QED  BY <2>2, <3>2, <1>2 DEF Top
    <2>. QED  BY <2>1, <2>3, <2>4, LoadAssumption DEF Chain, Imports, Top
  <1>. QED  BY <1>2, <1>3, <1>4, <1>6, <1>7

LEMMA AnalysisFailsInv == ASSUME Inv, AnalysisFails PROVE Inv'
  <1>. USE DEF Inv
  <1>1. /\ frames # <<>> /\ frames' = Front(frames) /\ src' = src
        /\ call = None /\ call' = None /\ ret' = Null /\ hasErr' = TRUE
        /\ order' = order /\ exports' = exports /\ status' = status
    BY DEF AnalysisFails, AtEnd
  <1>2. /\ frames' \in Seq(Frame) /\ Len(frames') = Len(frames) - 1
        /\ \A i \in DOMAIN frames' : i \in DOMAIN frames /\ frames'[i] = frames[i]
        /\ \A i \in DOMAIN frames' : frames'[i].path # Top.path
        /\ \A p \in Path : p # Top.path =>
             ((\E i \in DOMAIN frames' : frames'[i].path = p)
                <=> \E i \in DOMAIN frames : frames[i].path = p)
        /\ Chain'
    BY <1>1, LeavesFrame
  <1>3. Top.path \in Path /\ Len(frames) \in DOMAIN frames
    BY <1>1, TopFacts
  <1>4. mods' = [mods EXCEPT ![Top.path] = "absent"] /\ mods[Top.path] = "stub"
    <2>1. mods[Top.path] = "stub"
      BY <1>3 DEF OnStack, Top
    <2>. QED  BY <2>1 DEF AnalysisFails, Unbound
  <1>5. /\ DOMAIN pathStack' = DOMAIN pathStack
        /\ pathStack' \in Seq(Slot)
        /\ \A j \in DOMAIN pathStack :
             pathStack[j].path # Top.path => pathStack'[j] = pathStack[j]
    <2>1. /\ Len(pathStack) \in Nat /\ DOMAIN pathStack = 1..Len(pathStack)
      BY FrameFacts
    <2>2. \A j \in DOMAIN pathStack : pathStack[j] \in Slot
      BY <2>1, ElementOfSeq DEF Shape
    <2>3. pathStack' = [j \in 1..Len(pathStack) |->
                          IF pathStack[j].path = Top.path
                          THEN [pathStack[j] EXCEPT !.live = FALSE] ELSE pathStack[j]]
      BY <2>1 DEF AnalysisFails
    <2>4. \A j \in 1..Len(pathStack) : pathStack'[j] \in Slot
      BY <2>1, <2>2, <2>3 DEF Slot
    <2>. QED  BY <2>1, <2>3, <2>4
  <1>6. Shape'
    BY <1>1, <1>2, <1>4, <1>5 DEF Shape
  <1>7. OnStack'
    <2>1. \A i, j \in DOMAIN frames' : frames'[i].path = frames'[j].path => i = j
      BY <1>2 DEF OnStack
    <2>2. ASSUME NEW i \in DOMAIN frames'
          PROVE  \E j \in DOMAIN pathStack' : pathStack'[j].live /\ pathStack'[j].path = frames'[i].path
      <3>1. PICK j \in DOMAIN pathStack :
              pathStack[j].live /\ pathStack[j].path = frames'[i].path
        BY <1>2 DEF OnStack, OnPathStack
      <3>. QED  BY <3>1, <1>2, <1>5
    <2>3. \A p \in Path : mods'[p] = "stub" <=> \E i \in DOMAIN frames' : frames'[i].path = p
      BY <1>2, <1>3, <1>4 DEF OnStack, Shape
    <2>. QED  BY <2>1, <2>2, <2>3, <1>1, LoadAssumption DEF OnStack, OnPathStack, ImportersGetPrepared
  <1>8. Visited'
    <2>1. \A q \in Path : mods[q] = "prepared" <=> mods'[q] = "prepared"
      BY <1>3, <1>4 DEF Shape
    <2>2. /\ \A i \in DOMAIN order' : src'[order'[i]] # None
          /\ OrderTopological'
      BY <2>1, <1>1, OrderKept
    <2>. QED  BY <2>1, <2>2, <1>1 DEF Visited
  <1>. QED  BY <1>2, <1>6, <1>7, <1>8

LEMMA PrepareInv == ASSUME Inv, Prepare PROVE Inv'
  <1>. USE DEF Inv
  <1>1. /\ frames # <<>> /\ frames' = Front(frames) /\ src' = src
        /\ call = None /\ ret = None /\ call' = None /\ ret' = Top.path
        /\ ~ hasErr /\ Top.next > Len(Imports(Top.path))
        /\ status' = status /\ mods' = [mods EXCEPT ![Top.path] = "prepared"]
        /\ order' = Append(order, Top.path) /\ pathStack' = Front(pathStack)
    BY DEF Prepare, AtEnd, Bound, Ordered, Popped
  <1>2. /\ frames' \in Seq(Frame) /\ Len(frames') = Len(frames) - 1
        /\ DOMAIN frames' = 1..(Len(frames) - 1)
        /\ \A i \in DOMAIN frames' : i \in DOMAIN frames /\ frames'[i] = frames[i]
        /\ \A i \in DOMAIN frames' : frames'[i].path # Top.path
        /\ \A p \in Path : p # Top.path =>
             ((\E i \in DOMAIN frames' : frames'[i].path = p)
                <=> \E i \in DOMAIN frames : frames[i].path = p)
        /\ Chain'
    BY <1>1, LeavesFrame
  <1>3. /\ Top.path \in Path /\ src[Top.path] # None /\ Top.next \in Nat
        /\ Len(frames) \in DOMAIN frames /\ Len(frames) \in Nat \ {0}
        /\ Len(Imports(Top.path)) \in Nat
    BY <1>1, TopFacts
  <1>4. mods[Top.path] = "stub"
    BY <1>3 DEF OnStack, Top
  <1>5. /\ Len(pathStack) = Len(frames)
        /\ \A i \in DOMAIN frames : pathStack[i].path = frames[i].path /\ pathStack[i].live
    BY <1>1, LoadAssumption DEF OnStack
  <1>6. /\ pathStack' \in Seq(Slot) /\ Len(pathStack') = Len(frames) - 1
        /\ DOMAIN pathStack' = 1..(Len(frames) - 1)
        /\ \A i \in 1..(Len(frames) - 1) : pathStack'[i] = pathStack[i]
    <2>1. pathStack # <<>>
      BY <1>3, <1>5
    <2>. QED  BY <1>1, <1>5, <2>1, FrontFacts DEF Shape
  <1>7. /\ order' \in Seq(Path)
        /\ Len(order) \in Nat /\ DOMAIN order = 1..Len(order)
        /\ DOMAIN order' = 1..(Len(order) + 1)
        /\ \A i \in DOMAIN order : order'[i] = order[i]
        /\ order'[Len(order) + 1] = Top.path
    BY <1>1, <1>3, AppendFacts, LenProperties DEF Shape
  <1>8. Shape'
    <2>1. Merged(Top.path) \subseteq Symbol \X Path
      <3>1. Imports(Top.path) \in Seq(Import) /\ src[Top.path].own \subseteq Symbol
        BY <1>3, SourceFacts
      <3>2. ASSUME NEW k \in Turns(Top.path)
            PROVE  Candidates(Top.path, k) \subseteq Symbol \X Path
        <4>1. CASE k = 0
          BY <4>1, <3>1, <1>3 DEF Candidates
        <4>2. CASE k # 0
          <5>1. k \in 1..(Top.next - 1)
            BY <4>2, <1>1, <1>3 DEF Turns
          <5>2. Imports(Top.path)[k].to \in Path
            BY <5>1, <1>1, <1>3, <1>7, ElementOfSeq DEF Visited, Top, Shape
          <5>. QED  BY <4>2, <5>2 DEF Candidates, Shape
        <4>. QED  BY <4>1, <4>2
      <3>. QED  BY <3>2 DEF Merged
    <2>2. exports' = [exports EXCEPT ![Top.path] = Merged(Top.path)]
      BY DEF Prepare
    <2>3. exports' \in [Path -> SUBSET (Symbol \X Path)]
      BY <2>1, <2>2, <1>3 DEF Shape
    <2>4. hasErr' \in BOOLEAN
      BY DEF Prepare, ExportConflict
    <2>5. mods' \in [Path -> {"absent", "stub", "prepared"}]
      BY <1>1, <1>3 DEF Shape
    <2>. QED  BY <1>1, <1>2, <1>3, <1>6, <1>7, <2>3, <2>4, <2>5 DEF Shape
  <1>9. OnStack'
    <2>1. \A i, j \in DOMAIN frames' : frames'[i].path = frames'[j].path => i = j
      BY <1>2 DEF OnStack
    <2>2. /\ Len(pathStack') = Len(frames')
          /\ \A i \in DOMAIN frames' : pathStack'[i].path = frames'[i].path /\ pathStack'[i].live
      BY <1>2, <1>5, <1>6
    <2>3. \A i \in DOMAIN frames' :
            \E j \in DOMAIN pathStack' : pathStack'[j].live /\ pathStack'[j].path = frames'[i].path
      BY <1>2, <1>6, <2>2
    <2>4. \A p \in Path : mods'[p] = "stub" <=> \E i \in DOMAIN frames' : frames'[i].path = p
      BY <1>1, <1>2, <1>3 DEF OnStack, Shape
    <2>5. mods'[Top.path] = "prepared"
      BY <1>1, <1>3 DEF Shape
    <2>. QED  BY <2>1, <2>2, <2>3, <2>4, <2>5, <1>1 DEF OnStack, OnPathStack, ImportersGetPrepared
  <1>10. Visited'
    <2>1. \A p \in Path : mods'[p] = IF p = Top.path THEN "prepared" ELSE mods[p]
      BY <1>1, <1>3 DEF Shape
    <2>2. \A p \in Path : mods'[p] = "prepared" => \E i \in DOMAIN order' : order'[i] = p
      BY <2>1, <1>7 DEF Visited
    <2>3. ASSUME NEW i \in DOMAIN frames', NEW k \in 1..(frames'[i].next - 1)
          PROVE  \E j \in DOMAIN order' : order'[j] = src[frames'[i].path].imports[k].to
      <3>1. i \in DOMAIN frames /\ k \in 1..(frames[i].next - 1) /\ frames'[i] = frames[i]
        BY <1>2
      <3>2. \E j \in DOMAIN order : order[j] = Imports(frames[i].path)[k].to
        BY <3>1, <1>1 DEF Visited
      <3>. QED  BY <3>1, <3>2, <1>7 DEF Imports
    <2>4. \A i \in DOMAIN order' : order'[i] \in Path /\ src[order'[i]] # None /\ mods'[order'[i]] = "prepared"
      <3>1. \A i \in DOMAIN order : order[i] \in Path /\ src[order[i]] # None /\ mods[order[i]] = "prepared"
        BY <1>7, ElementOfSeq DEF Visited, OrderTopological, Shape
      <3>. QED  BY <3>1, <2>1, <1>3, <1>7
    <2>5. ASSUME NEW i \in DOMAIN order', NEW q \in Successors(order'[i])
          PROVE  \E j \in 1..(i - 1) : order'[j] = q
      <3>1. CASE i \in DOMAIN order
        <4>1. PICK j \in 1..(i - 1) : order[j] = q
          BY <3>1, <1>7 DEF Visited, OrderTopological
        <4>. QED  BY <4>1, <3>1, <1>7
      <3>2. CASE i = Len(order) + 1
        <4>1. PICK k \in DOMAIN Imports(Top.path) : q = Imports(Top.path)[k].to
          BY <3>2, <1>3, <1>7 DEF Successors, Opened
        <4>2. k \in 1..(Top.next - 1)
          BY <1>1, <1>3, SourceFacts, LenProperties
        <4>3. PICK j \in DOMAIN order : order[j] = q
          BY <4>1, <4>2, <1>1, <1>3 DEF Visited, Top
        <4>. QED  BY <4>3, <3>2, <1>7
      <3>. QED  BY <3>1, <3>2, <1>7
    <2>6. ASSUME NEW i \in DOMAIN order', NEW q \in Successors(order[i])'
          PROVE  q \in Successors(order'[i])
      <3>1. order'[i] \in Opened /\ (order[i] \in Opened)'
        BY <2>4, <1>1 DEF Opened
      <3>2. Imports(order[i])' = Imports(order'[i])
        BY <1>1 DEF Imports
      <3>. QED  BY <2>6, <3>1, <3>2 DEF Successors
    <2>7. OrderTopological'
      BY <2>4, <2>5, <2>6 DEF OrderTopological
    <2>. QED  BY <2>2, <2>3, <2>4, <2>7, <1>1 DEF Visited, Imports
  <1>. QED  BY <1>2, <1>8, <1>9, <1>10

-----------------------------------------------------------------------------
LEMMA NextInv == ASSUME Inv, [Next]_vars PROVE Inv'
  <1>1. CASE UNCHANGED vars
    <2>1. Shape'
      BY <1>1 DEF vars, Inv, Shape
    <2>2. Chain' /\ OnStack'
      BY <1>1 DEF vars, Inv, Chain, Top, Imports, OnStack, OnPathStack, ImportersGetPrepared
    <2>3. OrderTopological'
      BY <1>1, OrderKept DEF vars, Inv
    <2>4. Visited'
      BY <1>1, <2>3 DEF vars, Inv, Visited, Imports
    <2>. QED  BY <2>1, <2>2, <2>4 DEF Inv
  <1>2. CASE Next
    BY <1>1, <1>2, ReportCircularInv, UseCachedInv, RejectInv, EnterInv,
       ImportMissingInv, ImportModuleInv, ImportReturnsInv, ImportFailsInv,
       PrepareInv, AnalysisFailsInv, FinishInv DEF Next, Done
  <1>. QED  BY <1>1, <1>2

(* The invariant holds of every program, whatever its modules import.       *)
THEOREM Invariance == Spec => []Inv
  BY InitInv, NextInv, PTL DEF Spec

(* The loader's state has its type (compile_module_impl).                   *)
THEOREM TypeCorrect == Spec => []TypeOK
  <1>1. Inv => TypeOK
    <2>. SUFFICES ASSUME Inv PROVE TypeOK
      OBVIOUS
    <2>1. ASSUME NEW i \in DOMAIN frames
          PROVE  /\ frames[i].path \in Opened
                 /\ frames[i].next \in 1..(Len(Imports(frames[i].path)) + 1)
      <3>1. /\ frames[i].path \in Path /\ frames[i].next \in Nat \ {0}
            /\ src[frames[i].path] # None
        BY FrameFacts DEF Inv
      <3>2. Len(Imports(frames[i].path)) \in Nat
        BY <3>1, SourceFacts DEF Inv
      <3>. QED  BY <3>1, <3>2 DEF Inv, Chain, Opened
    <2>2. ASSUME NEW i \in DOMAIN pathStack
          PROVE  pathStack[i].path \in Path /\ pathStack[i].live \in BOOLEAN
      <3>1. pathStack[i] \in Slot
        BY FrameFacts, ElementOfSeq DEF Inv, Shape
      <3>. QED  BY <3>1 DEF Slot
    <2>3. ASSUME NEW i \in DOMAIN order
          PROVE  order[i] \in Opened
      <3>1. order[i] \in Path
        BY ElementOfSeq, LenProperties DEF Inv, Shape
      <3>. QED  BY <3>1 DEF Inv, Visited, Opened
    <2>. QED  BY <2>1, <2>2, <2>3 DEF TypeOK, Inv, Shape, Opened
  <1>. QED  BY <1>1, Invariance, PTL

(* An importer is handed finished modules only: what the order of the path  *)
(* stack and the cache in compile_module_impl is for.                       *)
THEOREM ImportersGetPreparedCorrect == Spec => []ImportersGetPrepared
  <1>1. Inv => ImportersGetPrepared
    BY DEF Inv, OnStack
  <1>. QED  BY <1>1, Invariance, PTL

(* The stubs of the module table are the modules in analysis.               *)
THEOREM StubsCorrect == Spec => []StubsInAnalysis
  <1>1. Inv => StubsInAnalysis
    BY DEF Inv, OnStack, StubsInAnalysis, FramePaths
  <1>. QED  BY <1>1, Invariance, PTL

(* vm->module_order is topological for every import graph.                  *)
THEOREM OrderCorrect == Spec => []OrderTopological
  <1>1. Inv => OrderTopological
    BY DEF Inv, Visited
  <1>. QED  BY <1>1, Invariance, PTL

-----------------------------------------------------------------------------
(***************************************************************************)
(* The verdict and the export tables.  Inv is not enough for them: they    *)
(* need that a finished module has only finished imports, that whatever    *)
(* is called from a module in analysis is reached from it, that no error   *)
(* is without a reason, and that the outermost module is the entry.        *)
(***************************************************************************)
(* A finished module imports finished modules only, all of which exist.     *)
PreparedClosed ==
  \A p \in Path : mods[p] = "prepared" =>
    /\ src[p] # None
    /\ \A k \in DOMAIN Imports(p) :
         Imports(p)[k].to \in Path /\ mods[Imports(p)[k].to] = "prepared"

(* Why a program may be refused.                                            *)
Conflict == \E p \in Path : \E x, y \in Defined(Reach({p}, Reexports(FALSE))) :
              x[1] = y[1] /\ x # y
Reason ==
  \/ Cyclic
  \/ \E p \in Opened : src[p].fault # "none"
  \/ \E p \in Opened : \E i \in DOMAIN Imports(p) : Imports(p)[i].to = Missing
  \/ Conflict

(* No error, no NULL and no freed path without a reason.                    *)
Failures ==
  hasErr \/ ret = Null \/ (\E i \in DOMAIN pathStack : ~ pathStack[i].live) => Reason

(* What is opened is reached from the entry, and a module in analysis is    *)
(* reached from the imports of those below it.                              *)
Traced ==
  /\ \A p \in Path : src[p] # None => p \in Reach({Entry}, Graph)
  /\ \A i, j \in DOMAIN frames : i < j => frames[j].path \in Reach(Graph[frames[i].path], Graph)

(* The outermost call is that of the entry, and its result is the verdict.  *)
Rooted ==
  /\ frames # <<>> => frames[1].path = Entry
  /\ frames = <<>> => call \in {Entry, None} /\ ret \in {Entry, None, Null}
  /\ status # "running" => frames = <<>> /\ call = None /\ ret # None
  /\ status = "ok" => ret = Entry /\ ~ hasErr
  /\ status = "failed" => ret = Null \/ hasErr
  /\ \A i, j \in DOMAIN order : order[i] = order[j] => i = j

Inv2 == PreparedClosed /\ ExportsExact /\ Failures /\ Traced /\ Rooted

-----------------------------------------------------------------------------
(* Reach is the least closed set.                                           *)
LEMMA ReachFacts ==
  ASSUME NEW g \in [Path -> SUBSET Path], NEW P \in SUBSET Path
  PROVE  /\ Reach(P, g) \subseteq Path /\ P \subseteq Reach(P, g)
         /\ \A q \in Reach(P, g) : g[q] \subseteq Reach(P, g)
         /\ \A S \in SUBSET Path :
              P \subseteq S /\ (\A q \in S : g[q] \subseteq S) => Reach(P, g) \subseteq S
  <1>1. \A q : q \in Reach(P, g) <=>
          q \in Path /\ \A S \in SUBSET Path :
            P \subseteq S /\ (\A r \in S : g[r] \subseteq S) => q \in S
    BY DEF Reach
  <1>2. ASSUME NEW q \in Reach(P, g), NEW r \in g[q]
        PROVE  r \in Reach(P, g)
    BY <1>1, <1>2
  <1>. QED  BY <1>1, <1>2

(* A larger graph and larger start reach more.                              *)
LEMMA ReachMono ==
  ASSUME NEW g \in [Path -> SUBSET Path], NEW h \in [Path -> SUBSET Path],
         NEW P \in SUBSET Path, NEW Q \in SUBSET Path, P \subseteq Q,
         \A q \in Path : g[q] \subseteq h[q]
  PROVE  Reach(P, g) \subseteq Reach(Q, h)
  <1>1. Reach(Q, h) \in SUBSET Path /\ P \subseteq Reach(Q, h)
    BY ReachFacts
  <1>2. \A q \in Reach(Q, h) : g[q] \subseteq Reach(Q, h)
    BY <1>1, ReachFacts
  <1>. QED  BY <1>1, <1>2, ReachFacts

(* What a module reaches is the module and what its successors reach.       *)
LEMMA ReachStep ==
  ASSUME NEW g \in [Path -> SUBSET Path], NEW p \in Path
  PROVE  Reach({p}, g) = {p} \cup UNION {Reach({q}, g) : q \in g[p]}
  <1>. DEFINE S == {p} \cup UNION {Reach({q}, g) : q \in g[p]}
  <1>1. g[p] \subseteq Path /\ {p} \in SUBSET Path
    OBVIOUS
  <1>2. \A q \in g[p] : {q} \in SUBSET Path
    BY <1>1
  <1>3. S \in SUBSET Path
    <2>1. \A q \in g[p] : Reach({q}, g) \subseteq Path
      BY <1>2, ReachFacts
    <2>. QED  BY <2>1
  <1>4. \A q \in g[p] : q \in S
    BY <1>2, ReachFacts
  <1>5. \A q \in g[p] : \A r \in Reach({q}, g) : g[r] \subseteq Reach({q}, g)
    BY <1>2, ReachFacts
  <1>6. \A r \in S : g[r] \subseteq S
    BY <1>4, <1>5
  <1>7. Reach({p}, g) \subseteq S
    <2>1. {p} \subseteq S
      OBVIOUS
    <2>. HIDE DEF S
    <2>. QED  BY <1>1, <1>3, <1>6, <2>1, ReachFacts
  <1>8. p \in Reach({p}, g) /\ g[p] \subseteq Reach({p}, g)
    BY <1>1, ReachFacts
  <1>9. ASSUME NEW q \in g[p] PROVE Reach({q}, g) \subseteq Reach({p}, g)
    <2>1. Reach({p}, g) \in SUBSET Path /\ {q} \subseteq Reach({p}, g)
      BY <1>1, <1>8, ReachFacts
    <2>2. \A r \in Reach({p}, g) : g[r] \subseteq Reach({p}, g)
      BY <1>1, ReachFacts
    <2>. QED  BY <1>2, <2>1, <2>2, ReachFacts
  <1>. QED  BY <1>7, <1>8, <1>9

(* Who reaches the sources of an edge reaches its target.                   *)
LEMMA ReachNext ==
  ASSUME NEW g \in [Path -> SUBSET Path], NEW P \in SUBSET Path,
         NEW q \in Reach(P, g), NEW r \in g[q]
  PROVE  r \in Reach(P, g)
  BY ReachFacts

(* The import graph and the graph of proxy exports are graphs.              *)
GraphTyped == Graph \in [Path -> SUBSET Path]

LEMMA GraphType == Inv => GraphTyped
  <1>. SUFFICES ASSUME Inv PROVE GraphTyped
    OBVIOUS
  <1>1. ASSUME NEW p \in Path PROVE Successors(p) \in SUBSET Path
    <2>1. CASE p \in Opened
      <3>1. src[p] # None
        BY <2>1 DEF Opened
      <3>2. /\ DOMAIN Imports(p) = 1..Len(Imports(p))
            /\ \A k \in 1..Len(Imports(p)) : Imports(p)[k].to \in Path \cup {Missing}
        BY <3>1, SourceFacts, LenProperties DEF Inv
      <3>. QED  BY <2>1, <3>2 DEF Successors
    <2>2. CASE p \notin Opened
      BY <2>2 DEF Successors
    <2>. QED  BY <2>1, <2>2
  <1>. QED  BY <1>1 DEF Graph, GraphTyped

LEMMA GraphTypeNext == Inv' => GraphTyped'
  BY GraphType, PTL

(* the graph of proxy exports by path, and what they make of a module's own *)
(* names; s stands for src                                                  *)
Forwarding    == Reexports(FALSE)
OwnNames(s, P) == UNION {s[p].own \X {p} : p \in {q \in P : q \in Path /\ s[q] # None}}

LEMMA ReexportType ==
  ASSUME PreparedClosed
  PROVE  Forwarding \in [Path -> SUBSET Path]
  BY DEF Forwarding, Reexports, Forwarded, PreparedClosed

LEMMA DefinedIs ==
  /\ \A p \in Path : Defined(Reach({p}, Reexports(FALSE))) = OwnNames(src, Reach({p}, Forwarding))
  /\ ExportsExact <=> (~ hasErr => \A p \in Path : mods[p] = "prepared" =>
       exports[p] = OwnNames(src, Reach({p}, Forwarding)))
  /\ Conflict <=> \E p \in Path : \E x, y \in OwnNames(src, Reach({p}, Forwarding)) :
       x[1] = y[1] /\ x # y
  <1>1. \A P : Defined(P) = OwnNames(src, P)
    BY DEF Defined, OwnNames, Opened
  <1>. QED  BY <1>1 DEF ExportsExact, Conflict, Forwarding

(* While nothing that was opened changes, the graph of imports grows, and   *)
(* with the finished modules the graph of proxy exports.                    *)
SrcKept == \A q \in Path : src[q] # None => src'[q] = src[q]

LEMMA GraphGrows ==
  ASSUME Inv, SrcKept
  PROVE  /\ Opened \subseteq Opened'
         /\ \A p \in Opened : src'[p] = src[p] /\ Imports(p)' = Imports(p)
         /\ \A p \in Path : Graph[p] \subseteq Graph'[p]
  <1>1. Opened \subseteq Opened'
    BY DEF Opened, SrcKept
  <1>2. \A p \in Opened : src'[p] = src[p] /\ Imports(p)' = Imports(p)
    BY DEF Opened, SrcKept, Imports
  <1>3. ASSUME NEW p \in Path PROVE Successors(p) \subseteq Successors(p)'
    <2>1. CASE p \in Opened
      BY <2>1, <1>1, <1>2 DEF Successors
    <2>2. CASE p \notin Opened
      BY <2>2 DEF Successors
    <2>. QED  BY <2>1, <2>2
  <1>. QED  BY <1>1, <1>2, <1>3 DEF Graph

(* What a finished module reaches by proxy exports is finished.             *)
LEMMA ReexportsInside ==
  ASSUME Inv, PreparedClosed, NEW p \in Path, mods[p] = "prepared"
  PROVE  \A q \in Reach({p}, Forwarding) : mods[q] = "prepared" /\ q \in Opened
  <1>. DEFINE S == {q \in Path : mods[q] = "prepared"}
              g == Forwarding
  <1>1. g \in [Path -> SUBSET Path]
    BY ReexportType
  <1>2. \A q \in S : g[q] \subseteq S
    BY DEF PreparedClosed, Forwarding, Reexports, Forwarded
  <1>3. {p} \subseteq S /\ S \in SUBSET Path /\ {p} \in SUBSET Path
    OBVIOUS
  <1>. HIDE DEF S, g
  <1>4. Reach({p}, g) \subseteq S
    BY <1>1, <1>2, <1>3, ReachFacts
  <1>. QED  BY <1>4 DEF S, g, PreparedClosed, Opened

(* Finishing more modules adds nothing to what finished ones reach.         *)
LEMMA ReexportsGrow ==
  ASSUME Inv, PreparedClosed, PreparedClosed', SrcKept,
         \A q \in Path : mods[q] = "prepared" => mods'[q] = "prepared"
  PROVE  /\ \A p \in Path : Reach({p}, Forwarding) \subseteq Reach({p}, Forwarding')
         /\ \A p \in Path : OwnNames(src, Reach({p}, Forwarding)) \subseteq
                              OwnNames(src', Reach({p}, Forwarding'))
         /\ \A p \in Path : mods[p] = "prepared" =>
              /\ Forwarding'[p] = Forwarding[p]
              /\ Reach({p}, Forwarding') = Reach({p}, Forwarding)
              /\ OwnNames(src', Reach({p}, Forwarding')) = OwnNames(src, Reach({p}, Forwarding))
  <1>. DEFINE g == Forwarding
              h == Forwarding'
  <1>1. g \in [Path -> SUBSET Path] /\ h \in [Path -> SUBSET Path]
    <2>1. g \in [Path -> SUBSET Path]
      BY ReexportType
    <2>2. h \in [Path -> SUBSET Path]
      BY DEF Forwarding, Reexports, Forwarded, PreparedClosed
    <2>. QED  BY <2>1, <2>2
  <1>2. ASSUME NEW q \in Path, mods[q] = "prepared" PROVE h[q] = g[q]
    <2>1. Imports(q)' = Imports(q) /\ mods'[q] = "prepared"
      BY <1>2, GraphGrows DEF Opened, PreparedClosed
    <2>. QED  BY <1>2, <2>1 DEF Forwarding, Reexports, Forwarded, Forwards
  <1>3. \A q \in Path : mods[q] # "prepared" => g[q] = {}
    BY DEF Forwarding, Reexports
  <1>. HIDE DEF g, h
  <1>4. \A q \in Path : g[q] \subseteq h[q]
    BY <1>1, <1>2, <1>3
  <1>5. \A q \in Path : src[q] # None => src'[q] = src[q]
    BY DEF SrcKept
  <1>6. ASSUME NEW p \in Path
        PROVE  Reach({p}, g) \subseteq Reach({p}, h)
    <2>1. {p} \in SUBSET Path
      OBVIOUS
    <2>. QED  BY <1>1, <1>4, <2>1, ReachMono
  <1>7. ASSUME NEW p \in Path, mods[p] = "prepared"
        PROVE  Reach({p}, h) \subseteq Reach({p}, g)
    <2>1. \A q \in Reach({p}, g) : mods[q] = "prepared" /\ q \in Opened
      BY <1>7, ReexportsInside DEF g
    <2>2. {p} \in SUBSET Path
      OBVIOUS
    <2>3. Reach({p}, g) \in SUBSET Path /\ {p} \subseteq Reach({p}, g)
          /\ \A q \in Reach({p}, g) : g[q] \subseteq Reach({p}, g)
      BY <1>1, <2>2, ReachFacts
    <2>4. \A q \in Reach({p}, g) : h[q] \subseteq Reach({p}, g)
      BY <1>2, <2>1, <2>3
    <2>. QED  BY <1>1, <2>2, <2>3, <2>4, ReachFacts
  <1>8. \A P, Q : P \subseteq Q => OwnNames(src, P) \subseteq OwnNames(src', Q)
    BY <1>5 DEF OwnNames
  <1>9. ASSUME NEW P, \A q \in P : q \in Opened PROVE OwnNames(src', P) = OwnNames(src, P)
    BY <1>5, <1>9 DEF OwnNames, Opened
  <1>10. ASSUME NEW p \in Path, mods[p] = "prepared"
         PROVE  /\ Reach({p}, h) = Reach({p}, g)
                /\ OwnNames(src', Reach({p}, h)) = OwnNames(src, Reach({p}, g))
    <2>1. Reach({p}, h) = Reach({p}, g) /\ \A q \in Reach({p}, g) : q \in Opened
      BY <1>6, <1>7, <1>10, ReexportsInside DEF g
    <2>. QED  BY <1>9, <2>1
  <1>. QED  BY <1>2, <1>6, <1>8, <1>10 DEF g, h

(* A reason to refuse a program stays one.                                  *)
LEMMA ReasonStays ==
  ASSUME Inv, Inv', PreparedClosed, PreparedClosed', SrcKept,
         \A q \in Path : mods[q] = "prepared" => mods'[q] = "prepared", Reason
  PROVE  Reason'
  <1>1. /\ Opened \subseteq Opened'
        /\ \A p \in Opened : src'[p] = src[p] /\ Imports(p)' = Imports(p)
        /\ \A p \in Path : Graph[p] \subseteq Graph'[p]
    BY GraphGrows
  <1>2. Graph \in [Path -> SUBSET Path] /\ Graph' \in [Path -> SUBSET Path]
    BY GraphType, GraphTypeNext DEF GraphTyped
  <1>3. CASE Cyclic
    <2>1. PICK p \in Path : p \in Reach(Graph[p], Graph)
      BY <1>3 DEF Cyclic
    <2>2. Graph[p] \in SUBSET Path /\ Graph'[p] \in SUBSET Path
      BY <1>2
    <2>3. p \in Reach(Graph'[p], Graph')
      BY <1>1, <1>2, <2>1, <2>2, ReachMono
    <2>. QED  BY <2>3 DEF Cyclic, Reason
  <1>4. CASE \E p \in Opened : src[p].fault # "none"
    BY <1>1, <1>4 DEF Reason
  <1>5. CASE \E p \in Opened : \E i \in DOMAIN Imports(p) : Imports(p)[i].to = Missing
    <2>1. PICK p \in Opened : \E i \in DOMAIN Imports(p) : Imports(p)[i].to = Missing
      BY <1>5
    <2>2. p \in Opened' /\ Imports(p)' = Imports(p)
      BY <1>1
    <2>. QED  BY <2>1, <2>2 DEF Reason
  <1>6. CASE Conflict
    <2>1. \A p \in Path : OwnNames(src, Reach({p}, Forwarding)) \subseteq
                              OwnNames(src', Reach({p}, Forwarding'))
      BY ReexportsGrow
    <2>2. \E p \in Path : \E x, y \in OwnNames(src', Reach({p}, Forwarding')) :
       x[1] = y[1] /\ x # y
      BY <1>6, <2>1, DefinedIs
    <2>3. Conflict'
      BY <2>2 DEF Conflict, OwnNames, Forwarding, Defined, Opened
    <2>. QED  BY <2>3 DEF Reason
  <1>. QED  BY <1>3, <1>4, <1>5, <1>6 DEF Reason

(* What a step keeps that finishes no module.                               *)
LEMMA StepKeeps ==
  ASSUME Inv, Inv', Inv2, SrcKept, exports' = exports, order' = order, hasErr => hasErr',
         \A q \in Path : mods'[q] = "prepared" <=> mods[q] = "prepared"
  PROVE  /\ PreparedClosed' /\ ExportsExact'
         /\ Reason => Reason'
         /\ \A P \in SUBSET Path : Reach(P, Graph) \subseteq Reach(P, Graph')
         /\ \A p \in Path : Reach(Graph[p], Graph) \subseteq Reach(Graph'[p], Graph')
  <1>1. /\ Opened \subseteq Opened'
        /\ \A p \in Opened : src'[p] = src[p] /\ Imports(p)' = Imports(p)
        /\ \A p \in Path : Graph[p] \subseteq Graph'[p]
    BY GraphGrows DEF Inv2
  <1>2. Graph \in [Path -> SUBSET Path] /\ Graph' \in [Path -> SUBSET Path]
    BY GraphType, GraphTypeNext DEF GraphTyped
  <1>3. PreparedClosed'
    <2>1. \A p \in Path : mods[p] = "prepared" => p \in Opened
      BY DEF Inv2, PreparedClosed, Opened
    <2>. QED  BY <1>1, <2>1 DEF Inv2, PreparedClosed, Opened
  <1>4. ExportsExact'
    <2>1. ~ hasErr => \A p \in Path : mods[p] = "prepared" =>
            exports[p] = OwnNames(src, Reach({p}, Forwarding))
      BY DefinedIs DEF Inv2
    <2>2. \A p \in Path : mods[p] = "prepared" =>
            OwnNames(src', Reach({p}, Forwarding')) = OwnNames(src, Reach({p}, Forwarding))
      BY <1>3, ReexportsGrow DEF Inv2
    <2>3. ~ hasErr' => \A p \in Path : mods'[p] = "prepared" =>
            exports'[p] = OwnNames(src', Reach({p}, Forwarding'))
      BY <2>1, <2>2
    <2>. QED  BY <2>3 DEF ExportsExact, OwnNames, Forwarding, Defined, Opened
  <1>5. Reason => Reason'
    BY <1>3, ReasonStays DEF Inv2
  <1>6. \A P \in SUBSET Path : Reach(P, Graph) \subseteq Reach(P, Graph')
    BY <1>1, <1>2, ReachMono
  <1>7. ASSUME NEW p \in Path PROVE Reach(Graph[p], Graph) \subseteq Reach(Graph'[p], Graph')
    <2>1. Graph[p] \in SUBSET Path /\ Graph'[p] \in SUBSET Path
      BY <1>2
    <2>. QED  BY <1>1, <1>2, <2>1, ReachMono
  <1>. QED  BY <1>3, <1>4, <1>5, <1>6, <1>7

(* The module about to be compiled is reached from all in analysis.         *)
LEMMA CallReached ==
  ASSUME Inv, Inv2, call # None
  PROVE  /\ call \in Path /\ call \in Reach({Entry}, Graph)
         /\ \A i \in DOMAIN frames : call \in Reach(Graph[frames[i].path], Graph)
  <1>1. Graph \in [Path -> SUBSET Path] /\ call \in Path /\ {Entry} \in SUBSET Path
    BY GraphType, LoadAssumption DEF GraphTyped, Inv, Shape
  <1>2. CASE frames = <<>>
    <2>1. call = Entry
      BY <1>2 DEF Inv2, Rooted
    <2>2. DOMAIN frames = {}
      BY <1>2
    <2>. QED  BY <1>1, <2>1, <2>2, ReachFacts
  <1>3. CASE frames # <<>>
    <2>1. /\ Len(frames) \in DOMAIN frames /\ Top = frames[Len(frames)]
          /\ DOMAIN frames = 1..Len(frames) /\ Len(frames) \in Nat
          /\ Top.path \in Path /\ src[Top.path] # None /\ Top.next \in Nat \ {0}
          /\ \A i \in DOMAIN frames : frames[i].path \in Path
      BY <1>3, TopFacts DEF Inv, Top
    <2>2. Top.next <= Len(Imports(Top.path)) /\ call = Imports(Top.path)[Top.next].to
      BY <1>3 DEF Inv, Chain
    <2>3. call \in Graph[Top.path]
      <3>1. Top.next \in DOMAIN Imports(Top.path)
        BY <2>1, <2>2, SourceFacts, LenProperties DEF Inv
      <3>. QED  BY <1>1, <2>1, <2>2, <3>1, LoadAssumption DEF Graph, Successors, Opened
    <2>4. call \in Reach({Entry}, Graph)
      BY <1>1, <2>1, <2>3, ReachNext DEF Inv2, Traced
    <2>5. ASSUME NEW i \in DOMAIN frames PROVE call \in Reach(Graph[frames[i].path], Graph)
      <3>1. Graph[frames[i].path] \in SUBSET Path
        BY <1>1, <2>1
      <3>2. CASE i = Len(frames)
        BY <1>1, <2>1, <2>3, <3>1, <3>2, ReachFacts
      <3>3. CASE i < Len(frames)
        <4>1. Top.path \in Reach(Graph[frames[i].path], Graph)
          BY <2>1, <3>3 DEF Inv2, Traced
        <4>. QED  BY <1>1, <2>3, <3>1, <4>1, ReachNext
      <3>. QED  BY <2>1, <3>2, <3>3
    <2>. QED  BY <1>1, <2>4, <2>5
  <1>. QED  BY <1>2, <1>3

(* A call of a module in analysis closes a cycle.                           *)
LEMMA CircularIsCyclic ==
  ASSUME Inv, Inv2, ReportCircular
  PROVE  Reason
  <1>1. CASE hasErr \/ \E i \in DOMAIN pathStack : ~ pathStack[i].live
    BY <1>1 DEF Inv2, Failures
  <1>2. CASE ~ hasErr /\ ~ \E i \in DOMAIN pathStack : ~ pathStack[i].live
    <2>1. OnPathStack(call) /\ call # None /\ ret # Null
      BY <1>2, LoadAssumption DEF ReportCircular, StaleOnPathStack, Inv, Shape
    <2>2. /\ Len(pathStack) = Len(frames)
          /\ \A i \in DOMAIN frames : pathStack[i].path = frames[i].path
      BY <1>2, <2>1 DEF Inv, OnStack
    <2>3. DOMAIN pathStack = DOMAIN frames
      BY <2>2, FrameFacts DEF Inv
    <2>4. PICK i \in DOMAIN frames : frames[i].path = call
      BY <2>1, <2>2, <2>3 DEF OnPathStack
    <2>5. call \in Reach(Graph[call], Graph) /\ call \in Path
      BY <2>1, <2>4, CallReached
    <2>. QED  BY <2>5 DEF Reason, Cyclic
  <1>. QED  BY <1>1, <1>2

(* Traced holds after a step that enters no module.                         *)
LEMMA TracedKeeps ==
  ASSUME Inv, Inv', Inv2, SrcKept,
         \A P \in SUBSET Path : Reach(P, Graph) \subseteq Reach(P, Graph'),
         \A p \in Path : Reach(Graph[p], Graph) \subseteq Reach(Graph'[p], Graph'),
         \A q \in Path : src'[q] # None => src[q] # None \/ q = call,
         \A i \in DOMAIN frames' : i \in DOMAIN frames /\ frames'[i].path = frames[i].path
  PROVE  Traced'
  <1>1. {Entry} \in SUBSET Path /\ None \notin Path
    BY LoadAssumption
  <1>2. \A p \in Path : src'[p] # None => p \in Reach({Entry}, Graph')
    <2>1. ASSUME NEW p \in Path, src'[p] # None PROVE p \in Reach({Entry}, Graph)
      BY <1>1, <2>1, CallReached DEF Inv2, Traced
    <2>. QED  BY <1>1, <2>1
  <1>3. ASSUME NEW i \in DOMAIN frames', NEW j \in DOMAIN frames', i < j
        PROVE  frames'[j].path \in Reach(Graph'[frames'[i].path], Graph')
    <2>1. frames[i].path \in Path /\ i \in DOMAIN frames /\ j \in DOMAIN frames
      BY FrameFacts DEF Inv
    <2>2. frames[j].path \in Reach(Graph[frames[i].path], Graph)
      BY <1>3, <2>1 DEF Inv2, Traced
    <2>. QED  BY <2>1, <2>2
  <1>. QED  BY <1>2, <1>3 DEF Traced

LEMMA ReportCircularInv2 == ASSUME Inv, Inv', Inv2, ReportCircular PROVE Inv2'
  <1>1. SrcKept /\ UNCHANGED <<src, frames, pathStack, mods, order, exports, status>>
    BY DEF ReportCircular, SrcKept
  <1>2. call # None /\ call' = None /\ ret' = Null /\ hasErr' = TRUE
    BY DEF ReportCircular, Returns
  <1>3. /\ PreparedClosed' /\ ExportsExact' /\ Reason'
        /\ \A P \in SUBSET Path : Reach(P, Graph) \subseteq Reach(P, Graph')
        /\ \A p \in Path : Reach(Graph[p], Graph) \subseteq Reach(Graph'[p], Graph')
    BY <1>1, <1>2, StepKeeps, CircularIsCyclic
  <1>4. Traced'
    BY <1>1, <1>3, TracedKeeps
  <1>5. Rooted'
    BY <1>1, <1>2, LoadAssumption DEF Inv2, Rooted
  <1>. QED  BY <1>3, <1>4, <1>5 DEF Inv2, Failures

LEMMA UseCachedInv2 == ASSUME Inv, Inv', Inv2, UseCached PROVE Inv2'
  <1>1. /\ SrcKept /\ UNCHANGED <<src, frames, pathStack, mods, order, exports, hasErr, status>>
        /\ call # None /\ call' = None /\ ret' = call /\ call \in Path
    BY DEF UseCached, SrcKept, Returns, Inv, Shape
  <1>2. /\ PreparedClosed' /\ ExportsExact' /\ (Reason => Reason')
        /\ \A P \in SUBSET Path : Reach(P, Graph) \subseteq Reach(P, Graph')
        /\ \A p \in Path : Reach(Graph[p], Graph) \subseteq Reach(Graph'[p], Graph')
    BY <1>1, StepKeeps
  <1>3. Traced'
    BY <1>1, <1>2, TracedKeeps
  <1>4. Rooted'
    BY <1>1, LoadAssumption DEF Inv2, Rooted
  <1>5. Failures'
    BY <1>1, <1>2, LoadAssumption DEF Inv2, Failures
  <1>. QED  BY <1>2, <1>3, <1>4, <1>5 DEF Inv2

LEMMA RejectInv2 == ASSUME Inv, Inv', Inv2, Reject PROVE Inv2'
  <1>1. /\ UNCHANGED <<frames, mods, order, exports, status>>
        /\ call \in Path /\ call # None /\ call' = None /\ ret' = Null
    BY DEF Reject, Returns, Inv, Shape
  <1>2. PICK s \in Sources(call) :
          /\ Opens(call, s)
          /\ hasErr \/ s.fault \in {"unreadable", "syntax"}
          /\ hasErr' = (hasErr \/ s.fault = "syntax")
    BY DEF Reject
  <1>3. SrcKept /\ src'[call] = s /\ s # None /\ \A q \in Path : src'[q] # None => src[q] # None \/ q = call
    <2>1. s \in Sources(call) /\ src'[call] = s /\ s # None
          /\ \A q \in Path : src[q] # None => src'[q] = src[q]
      BY <1>1, <1>2, OpensFacts DEF Inv
    <2>. QED  BY <1>2, <2>1 DEF SrcKept, Opens, Inv, Shape
  <1>4. /\ PreparedClosed' /\ ExportsExact' /\ (Reason => Reason')
        /\ \A P \in SUBSET Path : Reach(P, Graph) \subseteq Reach(P, Graph')
        /\ \A p \in Path : Reach(Graph[p], Graph) \subseteq Reach(Graph'[p], Graph')
    BY <1>1, <1>2, <1>3, StepKeeps
  <1>5. Traced'
    BY <1>1, <1>3, <1>4, TracedKeeps
  <1>6. Rooted'
    BY <1>1, <1>2, LoadAssumption DEF Inv2, Rooted
  <1>7. Reason'
    <2>1. CASE hasErr
      BY <1>4, <2>1 DEF Inv2, Failures
    <2>2. CASE s.fault \in {"unreadable", "syntax"}
      <3>1. call \in Opened' /\ src'[call].fault # "none"
        BY <1>1, <1>3, <2>2 DEF Opened
      <3>. QED  BY <3>1 DEF Reason
    <2>. QED  BY <1>2, <2>1, <2>2
  <1>. QED  BY <1>4, <1>5, <1>6, <1>7 DEF Inv2, Failures

LEMMA EnterInv2 == ASSUME Inv, Inv', Inv2, Enter PROVE Inv2'
  <1>1. /\ UNCHANGED <<order, exports, status, hasErr>> /\ ~ hasErr
        /\ call \in Path /\ call # None /\ call' = None /\ ret = None /\ ret' = None
        /\ mods' = [mods EXCEPT ![call] = "stub"] /\ mods[call] = "absent"
    BY DEF Enter, Inv, Shape
  <1>2. PICK s \in Sources(call) : Opens(call, s)
    BY DEF Enter
  <1>3. SrcKept /\ \A q \in Path : src'[q] # None => src[q] # None \/ q = call
    <2>1. \A q \in Path : src[q] # None => src'[q] = src[q]
      BY <1>1, <1>2, OpensFacts DEF Inv
    <2>. QED  BY <1>2, <2>1 DEF SrcKept, Opens, Inv, Shape
  <1>4. /\ PreparedClosed' /\ ExportsExact' /\ (Reason => Reason')
        /\ \A P \in SUBSET Path : Reach(P, Graph) \subseteq Reach(P, Graph')
        /\ \A p \in Path : Reach(Graph[p], Graph) \subseteq Reach(Graph'[p], Graph')
    <2>1. \A q \in Path : mods'[q] = "prepared" <=> mods[q] = "prepared"
      BY <1>1 DEF Inv, Shape
    <2>. QED  BY <1>1, <1>3, <2>1, StepKeeps
  <1>. DEFINE frame == [path |-> call, next |-> 1]
  <1>5. /\ DOMAIN frames = 1..Len(frames) /\ Len(frames) \in Nat
        /\ DOMAIN frames' = 1..(Len(frames) + 1)
        /\ \A i \in DOMAIN frames : frames'[i] = frames[i] /\ frames[i].path \in Path
        /\ frames'[Len(frames) + 1].path = call
    <2>1. frame \in Frame
      BY <1>1 DEF Frame
    <2>2. /\ DOMAIN frames' = 1..(Len(frames) + 1)
          /\ \A i \in DOMAIN frames : frames'[i] = frames[i]
          /\ frames'[Len(frames) + 1] = frame
      BY <2>1, AppendFacts DEF Enter, Inv, Shape
    <2>. QED  BY <2>2, FrameFacts DEF Inv
  <1>6. Traced'
    <2>1. {Entry} \in SUBSET Path
      BY LoadAssumption
    <2>2. \A p \in Path : src'[p] # None => p \in Reach({Entry}, Graph')
      <3>1. ASSUME NEW p \in Path, src'[p] # None PROVE p \in Reach({Entry}, Graph)
        BY <1>1, <1>3, <3>1, CallReached DEF Inv2, Traced
      <3>. QED  BY <1>4, <2>1, <3>1
    <2>3. ASSUME NEW i \in DOMAIN frames', NEW j \in DOMAIN frames', i < j
          PROVE  frames'[j].path \in Reach(Graph'[frames'[i].path], Graph')
      <3>1. i \in DOMAIN frames /\ frames'[i].path = frames[i].path /\ frames[i].path \in Path
        BY <1>5, <2>3
      <3>2. frames'[j].path \in Reach(Graph[frames[i].path], Graph)
        <4>1. CASE j \in DOMAIN frames
          BY <1>5, <2>3, <3>1, <4>1 DEF Inv2, Traced
        <4>2. CASE j = Len(frames) + 1
          BY <1>1, <1>5, <3>1, <4>2, CallReached
        <4>. QED  BY <1>5, <4>1, <4>2
      <3>. QED  BY <1>4, <3>1, <3>2
    <2>. QED  BY <2>2, <2>3 DEF Traced
  <1>7. Rooted'
    <2>1. frames' # <<>> /\ frames'[1].path = Entry
      <3>1. 1 \in DOMAIN frames'
        BY <1>5
      <3>2. CASE frames = <<>>
        <4>1. Len(frames) = 0 /\ call = Entry
          BY <1>1, <3>2 DEF Inv2, Rooted
        <4>. QED  BY <1>5, <3>1, <4>1
      <3>3. CASE frames # <<>>
        <4>1. 1 \in DOMAIN frames
          BY <3>3, LastFacts DEF Inv, Shape
        <4>. QED  BY <1>5, <3>1, <3>3, <4>1 DEF Inv2, Rooted
      <3>. QED  BY <3>2, <3>3
    <2>. QED  BY <1>1, <2>1, LoadAssumption DEF Inv2, Rooted
  <1>8. Failures'
    <2>1. ASSUME NEW i \in DOMAIN pathStack', ~ pathStack'[i].live
          PROVE  \E j \in DOMAIN pathStack : ~ pathStack[j].live
      <3>. DEFINE slot == [path |-> call, live |-> TRUE]
      <3>1. slot \in Slot /\ slot.live
        BY <1>1 DEF Slot
      <3>2. /\ DOMAIN pathStack' = 1..(Len(pathStack) + 1)
            /\ \A j \in DOMAIN pathStack : pathStack'[j] = pathStack[j]
            /\ pathStack'[Len(pathStack) + 1] = slot
        BY <3>1, AppendFacts DEF Enter, Inv, Shape
      <3>. HIDE DEF slot
      <3>3. DOMAIN pathStack = 1..Len(pathStack) /\ Len(pathStack) \in Nat
        BY FrameFacts DEF Inv
      <3>. QED  BY <2>1, <3>1, <3>2, <3>3
    <2>. QED  BY <1>1, <1>4, <2>1, LoadAssumption DEF Inv2, Failures
  <1>. QED  BY <1>4, <1>6, <1>7, <1>8 DEF Inv2

LEMMA ImportModuleInv2 == ASSUME Inv, Inv', Inv2, ImportModule PROVE Inv2'
  <1>1. /\ SrcKept /\ UNCHANGED <<src, frames, ret, pathStack, mods, order, exports, hasErr, status>>
        /\ frames # <<>>
    BY DEF ImportModule, AtImport, SrcKept
  <1>2. /\ PreparedClosed' /\ ExportsExact' /\ (Reason => Reason')
        /\ \A P \in SUBSET Path : Reach(P, Graph) \subseteq Reach(P, Graph')
        /\ \A p \in Path : Reach(Graph[p], Graph) \subseteq Reach(Graph'[p], Graph')
    BY <1>1, StepKeeps
  <1>3. Traced'
    BY <1>1, <1>2, TracedKeeps
  <1>4. Rooted' /\ Failures'
    BY <1>1, <1>2 DEF Inv2, Rooted, Failures
  <1>. QED  BY <1>2, <1>3, <1>4 DEF Inv2

(* the three ways past an import                                            *)
LEMMA PassesImport2 ==
  ASSUME Inv, Inv', Inv2, frames # <<>>, Skipped, call' = None, ret' = None,
         hasErr => hasErr', hasErr' => Reason,
         UNCHANGED <<src, pathStack, mods, order, exports, status>>
  PROVE  Inv2'
  <1>1. /\ DOMAIN frames' = DOMAIN frames /\ frames' # <<>>
        /\ \A i \in DOMAIN frames : frames'[i].path = frames[i].path
        /\ 1 \in DOMAIN frames
    BY SkippedFacts, LastFacts DEF Inv, Shape
  <1>2. SrcKept
    BY DEF SrcKept
  <1>3. /\ PreparedClosed' /\ ExportsExact' /\ (Reason => Reason')
        /\ \A P \in SUBSET Path : Reach(P, Graph) \subseteq Reach(P, Graph')
        /\ \A p \in Path : Reach(Graph[p], Graph) \subseteq Reach(Graph'[p], Graph')
    BY <1>2, StepKeeps
  <1>4. Traced'
    BY <1>1, <1>2, <1>3, TracedKeeps
  <1>5. Rooted'
    BY <1>1 DEF Inv2, Rooted
  <1>6. Failures'
    BY <1>3, LoadAssumption DEF Inv2, Failures
  <1>. QED  BY <1>3, <1>4, <1>5, <1>6 DEF Inv2

LEMMA ImportMissingInv2 == ASSUME Inv, Inv', Inv2, ImportMissing PROVE Inv2'
  <1>1. Reason
    <2>1. /\ frames # <<>> /\ Top.next <= Len(Imports(Top.path))
          /\ Imports(Top.path)[Top.next].to = Missing
      BY DEF ImportMissing, AtImport
    <2>2. Top.path \in Opened /\ Top.next \in DOMAIN Imports(Top.path)
      BY <2>1, TopFacts, LenProperties DEF Inv, Opened
    <2>. QED  BY <2>1, <2>2 DEF Reason
  <1>2. /\ frames # <<>> /\ Skipped /\ call' = None /\ ret' = None /\ hasErr'
        /\ UNCHANGED <<src, pathStack, mods, order, exports, status>>
    BY DEF ImportMissing, AtImport
  <1>. QED  BY <1>1, <1>2, PassesImport2

LEMMA ImportReturnsInv2 == ASSUME Inv, Inv', Inv2, ImportReturns PROVE Inv2'
  <1>1. call = None
    BY LoadAssumption DEF ImportReturns, Inv, Shape
  <1>2. hasErr => Reason
    BY DEF Inv2, Failures
  <1>. QED  BY <1>1, <1>2, PassesImport2 DEF ImportReturns

LEMMA ImportFailsInv2 == ASSUME Inv, Inv', Inv2, ImportFails PROVE Inv2'
  <1>1. call = None /\ ret = Null
    BY LoadAssumption DEF ImportFails, Inv, Shape
  <1>2. Reason
    BY <1>1 DEF Inv2, Failures
  <1>. QED  BY <1>1, <1>2, PassesImport2 DEF ImportFails

LEMMA FinishInv2 == ASSUME Inv, Inv', Inv2, Finish PROVE Inv2'
  <1>1. /\ SrcKept /\ UNCHANGED <<src, frames, call, ret, pathStack, mods, order, exports, hasErr>>
        /\ frames = <<>> /\ call = None /\ ret # None
        /\ status' = IF ret = Null \/ hasErr THEN "failed" ELSE "ok"
    BY DEF Finish, SrcKept
  <1>2. /\ PreparedClosed' /\ ExportsExact' /\ (Reason => Reason')
        /\ \A P \in SUBSET Path : Reach(P, Graph) \subseteq Reach(P, Graph')
        /\ \A p \in Path : Reach(Graph[p], Graph) \subseteq Reach(Graph'[p], Graph')
    BY <1>1, StepKeeps
  <1>3. Traced'
    BY <1>1, <1>2, TracedKeeps
  <1>4. Rooted' /\ Failures'
    BY <1>1, <1>2 DEF Inv2, Rooted, Failures
  <1>. QED  BY <1>2, <1>3, <1>4 DEF Inv2

LEMMA AnalysisFailsInv2 == ASSUME Inv, Inv', Inv2, AnalysisFails PROVE Inv2'
  <1>1. /\ frames # <<>> /\ frames' = Front(frames) /\ src' = src
        /\ call = None /\ call' = None /\ ret' = Null /\ hasErr' = TRUE
        /\ order' = order /\ exports' = exports /\ status' = status
        /\ hasErr \/ src[Top.path].fault = "sema"
    BY DEF AnalysisFails, AtEnd
  <1>2. /\ SrcKept /\ Top.path \in Path /\ Top.path \in Opened /\ mods[Top.path] = "stub"
    <2>1. /\ Top.path \in Path /\ src[Top.path] # None /\ Len(frames) \in DOMAIN frames
      BY <1>1, TopFacts DEF Inv
    <2>. QED  BY <1>1, <2>1 DEF SrcKept, Opened, Inv, OnStack, Top
  <1>3. \A q \in Path : mods'[q] = "prepared" <=> mods[q] = "prepared"
    BY <1>2 DEF AnalysisFails, Unbound, Inv, Shape
  <1>4. /\ PreparedClosed' /\ ExportsExact' /\ (Reason => Reason')
        /\ \A P \in SUBSET Path : Reach(P, Graph) \subseteq Reach(P, Graph')
        /\ \A p \in Path : Reach(Graph[p], Graph) \subseteq Reach(Graph'[p], Graph')
    BY <1>1, <1>2, <1>3, StepKeeps
  <1>5. \A i \in DOMAIN frames' : i \in DOMAIN frames /\ frames'[i].path = frames[i].path
    BY <1>1, LeavesFrame
  <1>6. Traced'
    BY <1>1, <1>2, <1>4, <1>5, TracedKeeps
  <1>7. Reason'
    <2>1. CASE hasErr
      BY <1>4, <2>1 DEF Inv2, Failures
    <2>2. CASE src[Top.path].fault = "sema"
      BY <1>2, <1>4, <2>2 DEF Reason
    <2>. QED  BY <1>1, <2>1, <2>2
  <1>8. Rooted'
    <2>1. frames' # <<>> => 1 \in DOMAIN frames'
      BY <1>1, LeavesFrame, LastFacts
    <2>2. frames' # <<>> => frames'[1].path = Entry
      BY <1>1, <1>5, <2>1 DEF Inv2, Rooted
    <2>. QED  BY <1>1, <2>2, LoadAssumption DEF Inv2, Rooted
  <1>. QED  BY <1>4, <1>6, <1>7, <1>8 DEF Inv2, Failures

(* What the table of a module is merged from.                               *)
Offered(p) == UNION {Candidates(p, k) : k \in Turns(p)}

LEMMA MergedFacts ==
  ASSUME NEW p \in Path, Len(Imports(p)) \in Nat, ~ ExportConflict(p)
  PROVE  Merged(p) = Offered(p)
  <1>1. Merged(p) \subseteq Offered(p)
    BY DEF Merged, Offered
  <1>2. ASSUME NEW k \in Turns(p), NEW x \in Candidates(p, k) PROVE x \in Merged(p)
    <2>1. \A j \in 0..(k - 1) : j \in Turns(p)
      BY DEF Turns
    <2>2. \A j \in 0..(k - 1) : \A y \in Candidates(p, j) : y[1] = x[1] => y = x
      BY <1>2, <2>1 DEF ExportConflict
    <2>. QED  BY <1>2, <2>2 DEF Merged
  <1>. QED  BY <1>1, <1>2 DEF Offered

(* What the names of a set of modules are, one by one.                      *)
LEMMA OwnNamesAre ==
  \A s, P, x : x \in OwnNames(s, P) <=>
    \E r \in P : r \in Path /\ s[r] # None /\ x \in s[r].own \X {r}
  BY DEF OwnNames

(* What a module that is finished had to finish before.                     *)
LEMMA PrepareFacts ==
  ASSUME Inv, Inv', Inv2, Prepare
  PROVE  /\ Top.path \in Path /\ src[Top.path] # None /\ src' = src /\ SrcKept
         /\ Len(Imports(Top.path)) \in Nat
         /\ DOMAIN Imports(Top.path) = 1..Len(Imports(Top.path))
         /\ mods[Top.path] = "stub" /\ mods' = [mods EXCEPT ![Top.path] = "prepared"]
         /\ \A k \in 1..Len(Imports(Top.path)) :
              Imports(Top.path)[k].to \in Path /\ mods[Imports(Top.path)[k].to] = "prepared"
         /\ PreparedClosed'
         /\ \A q \in Path : mods[q] = "prepared" => mods'[q] = "prepared"
  <1>1. /\ frames # <<>> /\ src' = src /\ ~ hasErr /\ Top.next > Len(Imports(Top.path))
        /\ mods' = [mods EXCEPT ![Top.path] = "prepared"]
    BY DEF Prepare, AtEnd, Bound
  <1>2. /\ Top.path \in Path /\ src[Top.path] # None /\ Top.next \in Nat
        /\ Len(frames) \in DOMAIN frames /\ Top = frames[Len(frames)]
        /\ Len(Imports(Top.path)) \in Nat
        /\ DOMAIN Imports(Top.path) = 1..Len(Imports(Top.path))
    BY <1>1, TopFacts, LenProperties DEF Inv, Top
  <1>3. mods[Top.path] = "stub"
    BY <1>2 DEF Inv, OnStack
  <1>4. ASSUME NEW k \in 1..Len(Imports(Top.path))
        PROVE  Imports(Top.path)[k].to \in Path /\ mods[Imports(Top.path)[k].to] = "prepared"
    <2>1. k \in 1..(Top.next - 1)
      BY <1>1, <1>2
    <2>2. PICK j \in DOMAIN order : order[j] = Imports(Top.path)[k].to
      BY <1>1, <1>2, <2>1 DEF Inv, Visited
    <2>3. order[j] \in Path
      BY <2>2, ElementOfSeq, LenProperties DEF Inv, Shape
    <2>. QED  BY <2>2, <2>3 DEF Inv, Visited, OrderTopological
  <1>5. \A q \in Path : mods[q] = "prepared" => mods'[q] = "prepared"
    BY <1>1 DEF Inv, Shape
  <1>6. \A q \in Path : mods'[q] = "prepared" => mods[q] = "prepared" \/ q = Top.path
    BY <1>1 DEF Inv, Shape
  <1>7. PreparedClosed'
    <2>1. \A q \in Path : Imports(q)' = Imports(q)
      BY <1>1 DEF Imports
    <2>2. ASSUME NEW q \in Path, mods'[q] = "prepared"
          PROVE  /\ src'[q] # None
                 /\ \A k \in DOMAIN Imports(q) :
                      Imports(q)[k].to \in Path /\ mods'[Imports(q)[k].to] = "prepared"
      <3>1. CASE mods[q] = "prepared"
        BY <1>1, <1>5, <3>1 DEF Inv2, PreparedClosed
      <3>2. CASE q = Top.path
        BY <1>1, <1>2, <1>4, <1>5, <3>2
      <3>. QED  BY <1>6, <2>2, <3>1, <3>2
    <2>. QED  BY <2>1, <2>2 DEF PreparedClosed
  <1>. QED  BY <1>1, <1>2, <1>3, <1>4, <1>5, <1>7 DEF SrcKept

(* The table of a module that is finished without a conflict.               *)
LEMMA PrepareExports ==
  ASSUME Inv, Inv', Inv2, Prepare
  PROVE  Offered(Top.path) = OwnNames(src', Reach({Top.path}, Forwarding'))
  <1>. DEFINE g == Forwarding'
  <1>. SUFFICES ASSUME NEW p \in Path, p = Top.path
                PROVE  Offered(p) = OwnNames(src', Reach({p}, Forwarding'))
    BY PrepareFacts
  <1>1. /\ p \in Path /\ src[p] # None /\ src' = src /\ SrcKept
        /\ Len(Imports(p)) \in Nat /\ DOMAIN Imports(p) = 1..Len(Imports(p))
        /\ \A k \in 1..Len(Imports(p)) :
             Imports(p)[k].to \in Path /\ mods[Imports(p)[k].to] = "prepared"
        /\ mods' = [mods EXCEPT ![p] = "prepared"] /\ PreparedClosed'
        /\ \A q \in Path : mods[q] = "prepared" => mods'[q] = "prepared"
    BY PrepareFacts
  <1>2. g \in [Path -> SUBSET Path]
    BY <1>1 DEF Forwarding, Reexports, Forwarded, PreparedClosed
  <1>3. g[p] = {Imports(p)[k].to : k \in {j \in 1..Len(Imports(p)) : Forwards(Imports(p)[j])}}
    <2>1. Imports(p)' = Imports(p) /\ mods'[p] = "prepared"
      BY <1>1 DEF Imports, Inv, Shape
    <2>. QED  BY <1>1, <2>1 DEF Forwarding, Reexports, Forwarded, Forwards
  <1>4. ASSUME NEW q \in Path, mods[q] = "prepared"
        PROVE  exports[q] = OwnNames(src', Reach({q}, g))
    <2>1. exports[q] = OwnNames(src, Reach({q}, Forwarding))
      BY <1>4, DefinedIs DEF Inv2, Prepare
    <2>. QED  BY <1>1, <1>4, <2>1, ReexportsGrow DEF Inv2
  <1>5. src[p].own \subseteq Symbol
    BY <1>1, SourceFacts DEF Inv
  <1>. HIDE DEF g
  <1>6. Reach({p}, g) = {p} \cup UNION {Reach({q}, g) : q \in g[p]}
    BY <1>1, <1>2, ReachStep
  <1>7. \A x : x \in Offered(p) <=>
          \/ x \in src[p].own \X {p}
          \/ \E k \in 1..Len(Imports(p)) :
               Forwards(Imports(p)[k]) /\ x \in exports[Imports(p)[k].to]
    <2>1. Turns(p) = {0} \cup 1..Len(Imports(p))
      BY <1>1 DEF Turns
    <2>2. /\ Candidates(p, 0) = src[p].own \X {p}
          /\ \A k \in 1..Len(Imports(p)) : Candidates(p, k) =
               IF Forwards(Imports(p)[k]) THEN exports[Imports(p)[k].to] ELSE {}
      BY DEF Candidates
    <2>3. \A x : x \in Offered(p) <=> \E k \in {0} \cup 1..Len(Imports(p)) : x \in Candidates(p, k)
      BY <2>1 DEF Offered
    <2>4. \A x : x \in Offered(p) <=>
            x \in Candidates(p, 0) \/ \E k \in 1..Len(Imports(p)) : x \in Candidates(p, k)
      BY <2>3
    <2>5. \A x : \A k \in 1..Len(Imports(p)) :
            x \in Candidates(p, k) <=> Forwards(Imports(p)[k]) /\ x \in exports[Imports(p)[k].to]
      BY <2>2
    <2>6. \A x : x \in Candidates(p, 0) <=> x \in src[p].own \X {p}
      BY <2>2
    <2>. QED  BY <2>4, <2>5, <2>6
  <1>8. \A x : x \in Offered(p) <=>
          \/ x \in src[p].own \X {p}
          \/ \E q \in g[p] : x \in OwnNames(src', Reach({q}, g))
    <2>1. \A q \in g[p] : exports[q] = OwnNames(src', Reach({q}, g))
      BY <1>1, <1>3, <1>4
    <2>2. ASSUME NEW x
          PROVE  (\E k \in 1..Len(Imports(p)) :
                    Forwards(Imports(p)[k]) /\ x \in exports[Imports(p)[k].to])
                 <=> \E q \in g[p] : x \in OwnNames(src', Reach({q}, g))
      <3>1. (\E k \in 1..Len(Imports(p)) :
                    Forwards(Imports(p)[k]) /\ x \in exports[Imports(p)[k].to])
            <=> \E q \in g[p] : x \in exports[q]
        BY <1>3
      <3>. QED  BY <2>1, <3>1
    <2>. QED  BY <1>7, <2>2
  <1>9. \A x : x \in OwnNames(src', Reach({p}, g)) <=>
          \/ x \in src[p].own \X {p}
          \/ \E q \in g[p] : x \in OwnNames(src', Reach({q}, g))
    <2>1. \A r : r \in Reach({p}, g) <=> r = p \/ \E q \in g[p] : r \in Reach({q}, g)
      BY <1>6
    <2>2. \A x : x \in OwnNames(src', Reach({p}, g)) <=>
            \E r \in Reach({p}, g) : r \in Path /\ src'[r] # None /\ x \in src'[r].own \X {r}
      BY OwnNamesAre
    <2>3. \A x, q : x \in OwnNames(src', Reach({q}, g)) <=>
            \E r \in Reach({q}, g) : r \in Path /\ src'[r] # None /\ x \in src'[r].own \X {r}
      BY OwnNamesAre
    <2>. QED  BY <1>1, <2>1, <2>2, <2>3
  <1>10. Offered(p) = OwnNames(src', Reach({p}, g))
    BY <1>8, <1>9
  <1>. QED  BY <1>10 DEF g

LEMMA ConflictNext ==
  ASSUME \E p \in Path : \E x, y \in OwnNames(src', Reach({p}, Forwarding')) :
           x[1] = y[1] /\ x # y
  PROVE  Conflict'
  <1>1. \A P : Defined(P)' = OwnNames(src', P)
    BY DEF Defined, OwnNames, Opened
  <1>. QED  BY <1>1 DEF Conflict, Forwarding

LEMMA PrepareInv2 == ASSUME Inv, Inv', Inv2, Prepare PROVE Inv2'
  <1>1. /\ frames # <<>> /\ frames' = Front(frames) /\ ~ hasErr
        /\ call = None /\ ret = None /\ call' = None /\ ret' = Top.path
        /\ hasErr' = ExportConflict(Top.path) /\ status' = status
        /\ exports' = [exports EXCEPT ![Top.path] = Merged(Top.path)]
        /\ order' = Append(order, Top.path) /\ pathStack' = Front(pathStack)
    BY DEF Prepare, AtEnd, Ordered, Popped
  <1>2. /\ Top.path \in Path /\ src' = src /\ SrcKept /\ Len(Imports(Top.path)) \in Nat
        /\ mods[Top.path] = "stub" /\ mods' = [mods EXCEPT ![Top.path] = "prepared"]
        /\ PreparedClosed'
        /\ \A q \in Path : mods[q] = "prepared" => mods'[q] = "prepared"
    BY PrepareFacts
  <1>3. Reason => Reason'
    BY <1>2, ReasonStays DEF Inv2
  <1>4. Offered(Top.path) = OwnNames(src', Reach({Top.path}, Forwarding'))
    BY PrepareExports
  <1>5. hasErr' => Reason'
    <2>. DEFINE names == Offered(Top.path)
    <2>1. ExportConflict(Top.path) => \E x, y \in names : x[1] = y[1] /\ x # y
      BY DEF ExportConflict, Offered
    <2>2. names = OwnNames(src', Reach({Top.path}, Forwarding'))
      BY <1>4
    <2>. HIDE DEF names
    <2>3. ExportConflict(Top.path) => Conflict'
      BY <1>2, <2>1, <2>2, ConflictNext
    <2>. QED  BY <1>1, <2>3 DEF Reason
  <1>6. ExportsExact'
    <2>1. ASSUME ~ hasErr', NEW q \in Path, mods'[q] = "prepared"
          PROVE  exports'[q] = OwnNames(src', Reach({q}, Forwarding'))
      <3>1. CASE q = Top.path
        <4>1. Merged(Top.path) = Offered(Top.path)
          BY <1>1, <1>2, <2>1, MergedFacts
        <4>2. exports'[Top.path] = Merged(Top.path)
          BY <1>1, <1>2 DEF Inv, Shape
        <4>. QED  BY <1>4, <3>1, <4>1, <4>2
      <3>2. CASE q # Top.path
        <4>1. mods[q] = "prepared" /\ exports'[q] = exports[q]
          BY <1>1, <1>2, <2>1, <3>2 DEF Inv, Shape
        <4>2. exports[q] = OwnNames(src, Reach({q}, Forwarding))
          BY <1>1, <4>1, DefinedIs DEF Inv2
        <4>. QED  BY <1>2, <4>1, <4>2, ReexportsGrow DEF Inv2
      <3>. QED  BY <3>1, <3>2
    <2>. QED  BY <2>1 DEF ExportsExact, OwnNames, Forwarding, Defined, Opened
  <1>7. \A i \in DOMAIN frames' : i \in DOMAIN frames /\ frames'[i].path = frames[i].path
    BY <1>1, <1>2, LeavesFrame
  <1>8. Traced'
    <2>1. Graph' = Graph
      BY <1>2 DEF Graph, Successors, Opened, Imports
    <2>2. /\ \A P \in SUBSET Path : Reach(P, Graph) \subseteq Reach(P, Graph')
          /\ \A p \in Path : Reach(Graph[p], Graph) \subseteq Reach(Graph'[p], Graph')
      BY <2>1
    <2>. QED  BY <1>2, <1>7, <2>2, TracedKeeps
  <1>9. /\ DOMAIN order = 1..Len(order) /\ Len(order) \in Nat
        /\ DOMAIN order' = 1..(Len(order) + 1)
        /\ \A i \in DOMAIN order : order'[i] = order[i]
        /\ order'[Len(order) + 1] = Top.path
    BY <1>1, <1>2, AppendFacts, LenProperties DEF Inv, Shape
  <1>10. \A i \in DOMAIN order : order[i] # Top.path
    BY <1>2 DEF Inv, Visited, OrderTopological
  <1>11. Rooted'
    <2>1. frames' # <<>> => 1 \in DOMAIN frames'
      BY <1>1, <1>2, LeavesFrame, LastFacts
    <2>2. frames' # <<>> => frames'[1].path = Entry
      BY <1>1, <1>7, <2>1 DEF Inv2, Rooted
    <2>3. frames' = <<>> => ret' = Entry
      <3>1. SUFFICES ASSUME frames' = <<>> PROVE Top.path = Entry
        BY <1>1
      <3>2. Len(frames) \in Nat /\ Len(frames') = Len(frames) - 1
        BY <1>1, <1>2, LeavesFrame, TopFacts DEF Inv
      <3>3. Len(frames) = 1
        BY <3>1, <3>2
      <3>. QED  BY <1>1, <3>3 DEF Top, Inv2, Rooted
    <2>4. \A i, j \in DOMAIN order' : order'[i] = order'[j] => i = j
      BY <1>9, <1>10 DEF Inv2, Rooted
    <2>5. status = "running"
      BY <1>1 DEF Inv2, Rooted, Inv, Shape
    <2>. QED  BY <1>1, <2>2, <2>3, <2>4, <2>5, LoadAssumption DEF Rooted
  <1>12. Failures'
    <2>1. ret' # Null
      BY <1>1, <1>2, LoadAssumption
    <2>2. ASSUME NEW i \in DOMAIN pathStack', ~ pathStack'[i].live PROVE FALSE
      <3>1. /\ Len(pathStack) = Len(frames)
            /\ \A j \in DOMAIN frames : pathStack[j].live
        BY <1>1, LoadAssumption DEF Inv, OnStack
      <3>2. Len(frames) \in Nat \ {0} /\ DOMAIN frames = 1..Len(frames)
        BY <1>1, TopFacts DEF Inv
      <3>3. pathStack # <<>>
        BY <3>1, <3>2
      <3>4. DOMAIN pathStack' = 1..(Len(pathStack) - 1)
            /\ \A j \in 1..(Len(pathStack) - 1) : pathStack'[j] = pathStack[j]
        BY <1>1, <3>3, FrontFacts DEF Inv, Shape
      <3>. QED  BY <2>2, <3>1, <3>2, <3>4
    <2>. QED  BY <1>5, <2>1, <2>2 DEF Failures
  <1>. QED  BY <1>2, <1>6, <1>8, <1>11, <1>12 DEF Inv2

LEMMA InitInv2 == ASSUME Init PROVE Inv2
  <1>1. PreparedClosed /\ ExportsExact /\ Failures /\ Traced
    BY LoadAssumption DEF Init, PreparedClosed, ExportsExact, Failures, Traced
  <1>2. Rooted
    BY LoadAssumption DEF Init, Rooted
  <1>. QED  BY <1>1, <1>2 DEF Inv2

LEMMA NextInv2 == ASSUME Inv, Inv', Inv2, [Next]_vars PROVE Inv2'
  <1>1. CASE UNCHANGED vars
    <2>. USE <1>1 DEF vars
    <2>1. SrcKept
      BY DEF SrcKept
    <2>2. PreparedClosed' /\ ExportsExact' /\ (Reason => Reason')
      BY <2>1, StepKeeps
    <2>3. Graph' = Graph
      BY DEF Graph, Successors, Opened, Imports
    <2>4. Failures' /\ Traced' /\ Rooted'
      BY <2>2, <2>3 DEF Inv2, Failures, Traced, Rooted
    <2>. QED  BY <2>2, <2>4 DEF Inv2
  <1>2. CASE Done
    BY <1>1, <1>2 DEF Done
  <1>. QED
    BY <1>1, <1>2, ReportCircularInv2, UseCachedInv2, RejectInv2, EnterInv2, ImportMissingInv2,
       ImportModuleInv2, ImportReturnsInv2, ImportFailsInv2, PrepareInv2, AnalysisFailsInv2,
       FinishInv2 DEF Next

THEOREM Invariance2 == Spec => [](Inv /\ Inv2)
  <1>1. Inv /\ Inv2 /\ [Next]_vars => (Inv /\ Inv2)'
    BY NextInv, NextInv2
  <1>2. Init => Inv /\ Inv2
    BY InitInv, InitInv2
  <1>. QED  BY <1>1, <1>2, PTL DEF Spec

(* Until the first error the table of a finished module has what it and the *)
(* modules it re-exports define (build_sema_exports), in any graph, cyclic  *)
(* re-exports and diamonds included: each table was complete when it was    *)
(* copied.                                                                  *)
THEOREM ExportsExactCorrect == Spec => []ExportsExact
  <1>1. Inv /\ Inv2 => ExportsExact
    BY DEF Inv2
  <1>. QED  BY <1>1, Invariance2, PTL

(* The modules of a program that compiled.                                  *)
LEMMA OkOrder ==
  ASSUME Inv, Inv2, status = "ok"
  PROVE  {order[i] : i \in DOMAIN order} = Reach({Entry}, Graph)
  <1>. DEFINE O == {order[i] : i \in DOMAIN order}
  <1>1. Graph \in [Path -> SUBSET Path] /\ {Entry} \in SUBSET Path /\ Entry \in Path
    BY GraphType, LoadAssumption DEF GraphTyped
  <1>2. \A i \in DOMAIN order : order[i] \in Path /\ mods[order[i]] = "prepared"
    BY ElementOfSeq, LenProperties DEF Inv, Shape, Visited, OrderTopological
  <1>3. O \in SUBSET Path
    BY <1>2
  <1>4. Entry \in O
    <2>1. ret = Entry
      BY DEF Inv2, Rooted
    <2>2. mods[Entry] = "prepared"
      BY <1>1, <2>1 DEF Inv, OnStack, ImportersGetPrepared
    <2>. QED  BY <1>1, <2>2 DEF Inv, Visited
  <1>5. ASSUME NEW p \in O PROVE Graph[p] \subseteq O
    <2>1. PICK i \in DOMAIN order : order[i] = p
      BY <1>5
    <2>2. \A q \in Successors(p) : \E j \in 1..(i - 1) : order[j] = q
      BY <2>1 DEF Inv, Visited, OrderTopological
    <2>3. Len(order) \in Nat /\ DOMAIN order = 1..Len(order)
      BY LenProperties DEF Inv, Shape
    <2>4. \A j \in 1..(i - 1) : j \in DOMAIN order
      BY <2>3
    <2>. QED  BY <1>3, <2>2, <2>4 DEF Graph
  <1>6. \A p \in O : p \in Reach({Entry}, Graph)
    BY <1>2 DEF Inv, Visited, Inv2, Traced
  <1>. HIDE DEF O
  <1>7. Reach({Entry}, Graph) \subseteq O
    BY <1>1, <1>3, <1>4, <1>5, ReachFacts
  <1>. QED  BY <1>6, <1>7 DEF O

LEMMA OkAcyclic ==
  ASSUME Inv, Inv2, status = "ok"
  PROVE  ~ Cyclic
  <1>1. SUFFICES ASSUME NEW p \in Path, p \in Reach(Graph[p], Graph) PROVE FALSE
    BY DEF Cyclic
  <1>2. Graph \in [Path -> SUBSET Path] /\ Graph[p] \in SUBSET Path
    BY GraphType DEF GraphTyped
  <1>3. CASE p \notin Opened
    <2>1. Graph[p] = {}
      BY <1>3 DEF Graph, Successors
    <2>2. {} \in SUBSET Path /\ \A q \in {} : Graph[q] \subseteq {}
      OBVIOUS
    <2>. QED  BY <1>1, <1>2, <2>1, <2>2, ReachFacts
  <1>4. CASE p \in Opened
    <2>1. p \in Reach({Entry}, Graph)
      BY <1>4 DEF Opened, Inv2, Traced
    <2>2. PICK i \in DOMAIN order : order[i] = p
      BY <2>1, OkOrder
    <2>3. Len(order) \in Nat /\ DOMAIN order = 1..Len(order)
      BY LenProperties DEF Inv, Shape
    <2>. DEFINE B == {order[j] : j \in 1..(i - 1)}
    <2>4. \A j \in 1..(i - 1) : j \in DOMAIN order /\ order[j] \in Path
      BY <2>3, ElementOfSeq DEF Inv, Shape
    <2>5. B \in SUBSET Path
      BY <2>4
    <2>6. Graph[p] \subseteq B
      <3>1. \A q \in Successors(p) : \E j \in 1..(i - 1) : order[j] = q
        BY <2>2 DEF Inv, Visited, OrderTopological
      <3>. QED  BY <3>1 DEF Graph
    <2>7. ASSUME NEW q \in B PROVE Graph[q] \subseteq B
      <3>1. PICK j \in 1..(i - 1) : order[j] = q
        BY <2>7
      <3>2. \A r \in Successors(q) : \E k \in 1..(j - 1) : order[k] = r
        BY <2>4, <3>1 DEF Inv, Visited, OrderTopological
      <3>3. \A k \in 1..(j - 1) : k \in 1..(i - 1)
        BY <2>3, <3>1
      <3>. QED  BY <2>5, <3>2, <3>3 DEF Graph
    <2>8. p \notin B
      <3>1. \A j \in 1..(i - 1) : order[j] # order[i]
        <4>1. \A j \in 1..(i - 1) : j # i
          BY <2>3
        <4>. QED  BY <2>2, <2>4, <4>1 DEF Inv2, Rooted
      <3>. QED  BY <2>2, <3>1
    <2>. HIDE DEF B
    <2>. QED  BY <1>1, <1>2, <2>5, <2>6, <2>7, <2>8, ReachFacts
  <1>. QED  BY <1>3, <1>4

(* The verdict of compile_module_prepare is right for every program: "ok"   *)
(* says that the imports have no cycle and that each module the entry       *)
(* reaches was compiled once; "failed" has one of the four reasons.         *)
THEOREM VerdictRightCorrect == Spec => []VerdictRight
  <1>1. Inv /\ Inv2 => VerdictRight
    <2>. SUFFICES ASSUME Inv, Inv2 PROVE VerdictRight
      OBVIOUS
    <2>1. status = "failed" => Reason
      BY DEF Inv2, Rooted, Failures
    <2>2. status = "ok" =>
            /\ ~ Cyclic
            /\ {order[i] : i \in DOMAIN order} = Reach({Entry}, Graph)
            /\ \A i, j \in DOMAIN order : order[i] = order[j] => i = j
      BY OkOrder, OkAcyclic DEF Inv2, Rooted
    <2>. QED  BY <2>1, <2>2 DEF VerdictRight, Reason, Conflict
  <1>. QED  BY <1>1, Invariance2, PTL
=============================================================================
