-------------------------- MODULE ExpertArenaProofs --------------------------
(***************************************************************************)
(* The inductive invariant of ExpertArena and its proof, for any number of *)
(* layers, experts, slots, protected experts and forwards in flight, and   *)
(* what follows from it: the maps agree with the slots, the DMAs of a      *)
(* prefill read what was planned, the shared addresses are stable, and the *)
(* two flags and the event implement ArenaSharing.                         *)
(*                                                                         *)
(* The argument: the flags encode program points; from the check of the    *)
(* event on, the server is alone, so no DMA is pending and no plan is      *)
(* being made; only then do maps and slots change.                         *)
(***************************************************************************)
EXTENDS ExpertArena, FiniteSetTheorems, TLAPS

(* Between the check of the host's flag and the end of the promotion.      *)
Alone == server \in {"event", "select", "copy", "copying", "update"}

(* Program points of a prefill that has planned and not yet cleared its    *)
(* flag.                                                                   *)
Planned == host \in {"plan", "issue", "event", "active"}

(* The flags are the program points that raise and lower them, and never   *)
(* let both sides in.                                                      *)
FlagInv ==
  /\ promoting <=> Alone \/ server \in {"active", "lower"}
  /\ active <=> Planned \/ host = "wait"
  /\ ~(Alone /\ Planned)

(* A pending DMA is of a begun prefill; unless the prefill is still issuing,*)
(* the event covers it.  So a server that saw the event done is alone.     *)
DmaInv ==
  /\ launched <= MaxForwards
  /\ host # "idle" => launched >= 1
  /\ \A i \in DOMAIN dma :
       /\ dma[i].gen \in 1 .. launched
       /\ dma[i].gen <= dmaEvent \/ (dma[i].gen = launched /\ host \in {"issue", "event"})
  /\ Moving => dma = <<>>

(* What is planned and pending names the present places.                   *)
PlaceInv ==
  /\ host \in {"issue", "event", "active"} => snapshot = slotOf
  /\ \A i \in DOMAIN dma : dma[i].row = slotOf[dma[i].layer]

(* The moves of a promotion: each brings an expert without a slot into a   *)
(* movable slot it names with its owner, and no two share slot or expert.  *)
MoveInv ==
  /\ ~Moving => moves = <<>>
  /\ \A i \in DOMAIN moves :
       /\ slotOf[moves[i].l][moves[i].e] = None
       /\ moves[i].slot \in Movable
       /\ moves[i].victim = owner[moves[i].l][moves[i].slot]
       /\ lastUse[moves[i].l][moves[i].slot] = step
  /\ \A i, j \in DOMAIN moves :
       i # j /\ moves[i].l = moves[j].l =>
         moves[i].slot # moves[j].slot /\ moves[i].e # moves[j].e

(* Slots hold their owner's bytes, except where experts are being moved.   *)
ContentInv ==
  /\ server \notin {"copying", "update"} => content = owner
  /\ server \in {"copying", "update"} =>
       \A l \in Layers, s \in Slots : MovesInto(l, s) = {} => content[l][s] = owner[l][s]
  /\ server = "update" =>
       \A i \in DOMAIN moves : content[moves[i].l][moves[i].slot] = moves[i].e

(* Protected slots keep their expert.                                      *)
ProtectInv == \A l \in Layers, s \in Slots : s < Protect => owner[l][s] = s

ArenaInv ==
  /\ TypeOK /\ FlagInv /\ DmaInv /\ PlaceInv
  /\ MapsAgree /\ MoveInv /\ ContentInv /\ ProtectInv

-----------------------------------------------------------------------------
(* Types.                                                                  *)

LEMMA ExpertsFinite == ASSUME NEW S \in SUBSET Experts PROVE Cardinality(S) \in Nat
<1>1. IsFiniteSet(Experts)
  BY FS_Interval, ArenaAssumption DEF Experts
<1>2. IsFiniteSet(S)
  BY <1>1, FS_Subset
<1> QED
  BY <1>2, FS_CardinalityType

LEMMA Sizes ==
  /\ NumLayers \in Nat /\ NumLayers >= 1 /\ NumExperts \in Nat /\ PerLayer \in Nat
  /\ PerLayer <= NumExperts /\ PerStep \in Nat /\ Protect \in Nat
BY ArenaAssumption

LEMMA TypeInit == Init => TypeOK
<1> SUFFICES ASSUME Init PROVE TypeOK
  OBVIOUS
<1>1. \A e \in Experts : HomeSlot(e) \in Slots \union {None}
  BY ArenaAssumption DEF HomeSlot, Slots, Experts, None
<1>2. \A s \in Slots : s \in Experts /\ -1 - s \in Int
  BY ArenaAssumption DEF Slots, Experts
<1>3. slotOf \in [Layers -> Rows] /\ snapshot \in [Layers -> Rows]
  BY <1>1 DEF Init, Rows
<1>4. HostTypes
  <2>1. host = "idle" /\ launched = 0 /\ issued = 0
    BY DEF Init
  <2> QED
    BY <1>3, <2>1, Sizes DEF HostTypes
<1>5. GpuTypes
  <2>1. compute = <<>> /\ dma = <<>> /\ layer \in Layers
    BY ArenaAssumption DEF Init, Layers
  <2> QED
    BY <2>1 DEF GpuTypes
<1>6. FlagTypes
  BY DEF Init, FlagTypes
<1>7. ServerTypes
  BY DEF Init, ServerTypes
<1>8. ArenaTypes
  <2>1. owner \in [Layers -> [Slots -> Experts]] /\ lastUse \in [Layers -> [Slots -> Int]]
    BY <1>2 DEF Init
  <2>2. content \in [Layers -> [Slots -> Experts \union {None}]]
    BY <1>2 DEF Init
  <2>3. table = slotOf
    BY DEF Init
  <2> QED
    BY <1>3, <2>1, <2>2, <2>3 DEF ArenaTypes
<1> QED
  BY <1>4, <1>5, <1>6, <1>7, <1>8 DEF TypeOK

LEMMA HostTypesStep == ASSUME TypeOK, Next PROVE HostTypes'
<1> USE DEF TypeOK, HostTypes, hostVars
<1>1. CASE Host
  <2>1. launched' \in Nat
    BY <1>1 DEF Host, LaunchDecode, LaunchChunk, BeginPrefill, AwaitPromotion, Plan, Issue,
      StoreEvent, ClearActive, StoreUsage, hostVars
  <2>2. issued' \in 0 .. NumLayers
    BY <1>1, ArenaAssumption DEF Host, LaunchDecode, LaunchChunk, BeginPrefill,
      AwaitPromotion, Plan, Issue, StoreEvent, ClearActive, StoreUsage, hostVars
  <2>3. snapshot' \in [Layers -> Rows]
    BY <1>1 DEF Host, LaunchDecode, LaunchChunk, BeginPrefill, AwaitPromotion, Plan, Issue,
      StoreEvent, ClearActive, StoreUsage, hostVars, ArenaTypes
  <2>4. host' \in {"idle", "wait", "plan", "issue", "event", "active", "usage"}
    BY <1>1 DEF Host, LaunchDecode, LaunchChunk, BeginPrefill, AwaitPromotion, Plan, Issue,
      StoreEvent, ClearActive, StoreUsage, hostVars
  <2> QED
    BY <2>1, <2>2, <2>3, <2>4
<1>2. CASE Gpu
  BY <1>2 DEF Gpu, Transfer, FinishPrefill
<1>3. CASE Server
  <2>1. UNCHANGED hostVars
    BY <1>3 DEF Server, ServeDecode, ServeChunk, LoadUsage, TakeHints, Raise, CheckActive,
      CheckEvent, Select, EndSelect, StartCopy, EndCopy, Update, Lower
  <2> QED
    BY <2>1
<1> QED
  BY <1>1, <1>2, <1>3 DEF Next

LEMMA GpuTypesStep == ASSUME TypeOK, Next PROVE GpuTypes'
<1> DEFINE Forwards == [kind : {"decode", "chunk", "prefill"}, n : Nat]
           Copies == [gen : Nat, layer : Layers, row : Rows]
<1>0. compute \in Seq(Forwards) /\ layer \in Layers /\ dma \in Seq(Copies) /\ launched \in Nat
  BY DEF TypeOK, GpuTypes, HostTypes
<1> SUFFICES compute' \in Seq(Forwards) /\ layer' \in Layers /\ dma' \in Seq(Copies)
  BY DEF GpuTypes
<1>1. CASE LaunchDecode \/ LaunchChunk \/ StoreUsage
  <2>1. PICK f \in Forwards : compute' = Append(compute, f)
    <3>1. CASE LaunchDecode
      <4>1. [kind |-> "decode", n |-> launched'] \in Forwards
        BY <1>0, <3>1 DEF LaunchDecode
      <4> QED
        BY <3>1, <4>1 DEF LaunchDecode
    <3>2. CASE LaunchChunk
      <4>1. [kind |-> "chunk", n |-> launched'] \in Forwards
        BY <1>0, <3>2 DEF LaunchChunk
      <4> QED
        BY <3>2, <4>1 DEF LaunchChunk
    <3>3. CASE StoreUsage
      <4>1. [kind |-> "prefill", n |-> launched] \in Forwards
        BY <1>0
      <4> QED
        BY <3>3, <4>1 DEF StoreUsage
    <3> QED
      BY <1>1, <3>1, <3>2, <3>3
  <2>2. layer' = layer /\ dma' = dma
    BY <1>1 DEF LaunchDecode, LaunchChunk, StoreUsage
  <2> HIDE DEF Forwards, Copies
  <2> QED
    BY <1>0, <2>1, <2>2
<1>2. CASE Issue
  <2>1. issued' \in Layers
    BY <1>2, ArenaAssumption DEF Issue, Layers, TypeOK, HostTypes
  <2>2. snapshot[issued'] \in Rows
    BY <2>1 DEF TypeOK, HostTypes
  <2>3. [gen |-> launched, layer |-> issued', row |-> snapshot[issued']] \in Copies
    BY <1>0, <2>1, <2>2
  <2>4. dma' = Append(dma, [gen |-> launched, layer |-> issued', row |-> snapshot[issued']])
    BY <1>2 DEF Issue
  <2>5. compute' = compute /\ layer' = layer
    BY <1>2 DEF Issue
  <2> HIDE DEF Forwards, Copies
  <2> QED
    BY <1>0, <2>3, <2>4, <2>5
<1>3. CASE Transfer
  <2> HIDE DEF Forwards, Copies
  <2> QED
    BY <1>0, <1>3 DEF Transfer
<1>4. CASE FinishPrefill
  <2> HIDE DEF Forwards, Copies
  <2> QED
    BY <1>0, <1>4 DEF FinishPrefill
<1>5. CASE ServeDecode \/ ServeChunk
  <2>1. compute # <<>> /\ Advance /\ dma' = dma
    BY <1>5 DEF ServeDecode, ServeChunk
  <2>2. layer' \in Layers
    BY <1>0, <2>1, ArenaAssumption DEF Advance, Layers
  <2>3. compute' = compute \/ compute' = Tail(compute)
    BY <2>1 DEF Advance
  <2> HIDE DEF Forwards, Copies
  <2> QED
    BY <1>0, <2>1, <2>2, <2>3
<1>6. CASE UNCHANGED gpuVars
  BY <1>0, <1>6 DEF gpuVars
<1> QED
  BY <1>1, <1>2, <1>3, <1>4, <1>5, <1>6 DEF Next, Host, Gpu, Server, BeginPrefill,
    AwaitPromotion, Plan, StoreEvent, ClearActive, LoadUsage, TakeHints, Raise, CheckActive,
    CheckEvent, Select, EndSelect, StartCopy, EndCopy, Update, Lower, gpuVars

LEMMA FlagTypesStep == ASSUME TypeOK, Next PROVE FlagTypes'
<1>0. FlagTypes /\ launched \in Nat
  BY DEF TypeOK, HostTypes
<1>1. CASE Host
  <2>1. CASE LaunchDecode
    BY <1>0, <2>1 DEF LaunchDecode, FlagTypes, flagVars
  <2>2. CASE LaunchChunk
    BY <1>0, <2>2 DEF LaunchChunk, FlagTypes
  <2>3. CASE BeginPrefill
    BY <1>0, <2>3 DEF BeginPrefill, FlagTypes
  <2>4. CASE AwaitPromotion \/ Plan \/ Issue
    BY <1>0, <2>4 DEF AwaitPromotion, Plan, Issue, FlagTypes, flagVars
  <2>5. CASE StoreEvent \/ ClearActive \/ StoreUsage
    BY <1>0, <2>5 DEF StoreEvent, ClearActive, StoreUsage, FlagTypes
  <2> QED
    BY <1>1, <2>1, <2>2, <2>3, <2>4, <2>5 DEF Host
<1>2. CASE Gpu
  BY <1>0, <1>2 DEF Gpu, Transfer, FinishPrefill, FlagTypes, flagVars
<1>3. CASE TakeHints
  BY <1>0, <1>3 DEF TakeHints, FlagTypes
<1>4. CASE Raise
  BY <1>0, <1>4 DEF Raise, FlagTypes
<1>5. CASE Lower
  BY <1>0, <1>5 DEF Lower, FlagTypes
<1>6. CASE UNCHANGED flagVars
  BY <1>0, <1>6 DEF FlagTypes, flagVars
<1> QED
  BY <1>1, <1>2, <1>3, <1>4, <1>5, <1>6 DEF Next, Server, ServeDecode, ServeChunk, LoadUsage, CheckActive,
    CheckEvent, Select, EndSelect, StartCopy, EndCopy, Update, flagVars

LEMMA HintListsType == ASSUME NEW h \in HintLists PROVE h \in Seq(Pairs)
BY ArenaAssumption DEF HintLists

(* What Select adds is a move, and stamps a slot.                          *)
LEMMA SelectTypes ==
  ASSUME TypeOK, Select
  PROVE  /\ moves' \in Seq(Moves) /\ cand' \in Seq(Pairs)
         /\ lastUse' \in [Layers -> [Slots -> Int]]
<1>1. moves \in Seq(Moves) /\ cand \in Seq(Pairs) /\ cand # <<>> /\ step \in Int
        /\ lastUse \in [Layers -> [Slots -> Int]]
  BY DEF TypeOK, ServerTypes, ArenaTypes, Select
<1>2. Head(cand) \in Pairs
  BY <1>1
<1> DEFINE l == Head(cand)[1]
           e == Head(cand)[2]
<1>3. l \in Layers /\ e \in Experts
  BY <1>2 DEF Pairs
<1>4. cand' \in Seq(Pairs)
  BY <1>1 DEF Select
<1>5. CASE UNCHANGED <<moves, lastUse>>
  BY <1>1, <1>4, <1>5
<1>6. CASE \E s \in Victims(l) :
             /\ lastUse' = [lastUse EXCEPT ![l][s] = step]
             /\ moves' = Append(moves, [l |-> l, e |-> e, slot |-> s, victim |-> owner[l][s]])
  <2>1. PICK s \in Victims(l) :
          /\ lastUse' = [lastUse EXCEPT ![l][s] = step]
          /\ moves' = Append(moves, [l |-> l, e |-> e, slot |-> s, victim |-> owner[l][s]])
    BY <1>6
  <2>2. s \in Slots
    BY DEF Victims, Movable
  <2>3. owner[l][s] \in Experts
    BY <1>3, <2>2 DEF TypeOK, ArenaTypes
  <2>4. [l |-> l, e |-> e, slot |-> s, victim |-> owner[l][s]] \in Moves
    BY <1>3, <2>2, <2>3 DEF Moves
  <2>5. lastUse' \in [Layers -> [Slots -> Int]]
    BY <1>1, <1>3, <2>1, <2>2
  <2> HIDE DEF l, e
  <2>6. moves' \in Seq(Moves)
    BY <1>1, <2>1, <2>4
  <2> QED
    BY <1>4, <2>5, <2>6
<1> QED
  BY <1>5, <1>6 DEF Select

LEMMA ServeTypes ==
  ASSUME TypeOK, ServeDecode
  PROVE  cand' \in Seq(Pairs) /\ step' \in Int /\ lastUse' \in [Layers -> [Slots -> Int]]
<1>1. cand \in Seq(Pairs) /\ layer \in Layers /\ lastUse \in [Layers -> [Slots -> Int]]
  BY DEF TypeOK, ServerTypes, GpuTypes, ArenaTypes
<1>2. step' \in Int
  <2> DEFINE Forwards == [kind : {"decode", "chunk", "prefill"}, n : Nat]
  <2>1. compute \in Seq(Forwards) /\ compute # <<>> /\ step' = Head(compute).n
    BY DEF TypeOK, GpuTypes, ServeDecode
  <2>2. Head(compute) \in Forwards
    <3> HIDE DEF Forwards
    <3> QED
      BY <2>1
  <2> QED
    BY <2>1, <2>2
<1>3. PICK used \in SUBSET Experts :
        LET missing == {e \in used : slotOf[layer][e] = None}
        IN  /\ lastUse' = [lastUse EXCEPT ![layer] =
                 [s \in Slots |-> IF \E e \in used : slotOf[layer][e] = s THEN step' ELSE @[s]]]
            /\ \E order \in Orderings(missing) :
                 cand' = cand \o [i \in DOMAIN order |-> <<layer, order[i]>>]
  BY DEF ServeDecode
<1>4. lastUse' \in [Layers -> [Slots -> Int]]
  BY <1>1, <1>2, <1>3
<1> DEFINE missing == {e \in used : slotOf[layer][e] = None}
<1>5. PICK order \in Orderings(missing) :
        cand' = cand \o [i \in DOMAIN order |-> <<layer, order[i]>>]
  BY <1>3
<1>6. Cardinality(missing) \in Nat /\ missing \subseteq Experts
  BY ExpertsFinite
<1> HIDE DEF missing
<1>7. order \in [1 .. Cardinality(missing) -> missing]
  BY <1>5 DEF Orderings
<1>8. [i \in DOMAIN order |-> <<layer, order[i]>>] \in Seq(Pairs)
  <2>1. \A i \in 1 .. Cardinality(missing) : <<layer, order[i]>> \in Pairs
    BY <1>1, <1>6, <1>7 DEF Pairs
  <2> QED
    BY <1>6, <1>7, <2>1
<1>9. cand' \in Seq(Pairs)
  BY <1>1, <1>5, <1>8
<1> QED
  BY <1>2, <1>4, <1>9

LEMMA ServerTypesStep == ASSUME TypeOK, Next PROVE ServerTypes'
<1>0. /\ ServerTypes /\ step \in Int /\ budget \in Nat
      /\ cand \in Seq(Pairs) /\ hints \in Seq(Pairs) /\ moves \in Seq(Moves)
  BY DEF TypeOK, ServerTypes
<1>1. CASE UNCHANGED serverVars
  BY <1>0, <1>1 DEF ServerTypes, serverVars
<1>2. CASE ServeDecode
  <2>1. hints' = hints /\ budget' = budget /\ moves' = moves /\ server' \in {"hints", "serve"}
    BY <1>2 DEF ServeDecode
  <2> QED
    BY <1>0, <1>2, <2>1, ServeTypes DEF ServerTypes
<1>3. CASE LoadUsage
  BY <1>0, <1>3 DEF LoadUsage, ServerTypes
<1>4. CASE TakeHints
  BY <1>0, <1>4, HintListsType DEF TakeHints, ServerTypes
<1>5. CASE Raise
  BY <1>0, <1>5 DEF Raise, ServerTypes
<1>6. CASE CheckActive
  <2>1. /\ step' = step /\ hints' = hints /\ budget' = budget /\ moves' = moves
        /\ cand' = <<>> \/ cand' = cand
        /\ server' \in {"lower", "event"}
    BY <1>6 DEF CheckActive, GiveUp
  <2>2. cand' \in Seq(Pairs)
    <3>1. <<>> \in Seq(Pairs)
      OBVIOUS
    <3>2. cand' = <<>> \/ cand' = cand
      BY <2>1
    <3> QED
      BY <1>0, <3>1, <3>2
  <2> QED
    BY <1>0, <2>1, <2>2 DEF ServerTypes
<1>7. CASE CheckEvent /\ GiveUp
  BY <1>0, <1>7 DEF CheckEvent, GiveUp, ServerTypes
<1>8. CASE CheckEvent /\ Merge
  <2> DEFINE nh == IF Len(hints) < Boost THEN Len(hints) ELSE Boost
  <2>1. nh \in Nat /\ nh <= Len(hints) /\ Len(hints) \in Nat
    BY <1>0, ArenaAssumption
  <2>2. SubSeq(hints, 1, nh) \in Seq(Pairs) /\ SubSeq(hints, nh + 1, Len(hints)) \in Seq(Pairs)
    BY <1>0, <2>1
  <2>3. cand' \in Seq(Pairs) /\ hints' \in Seq(Pairs)
    BY <1>0, <1>8, <2>2 DEF Merge
  <2>4. budget' \in Nat
    BY <1>8, <2>1, Sizes DEF Merge
  <2>5. moves' = <<>> /\ server' = "select" /\ step' = step
    BY <1>8 DEF Merge, CheckEvent
  <2> QED
    BY <1>0, <2>3, <2>4, <2>5 DEF ServerTypes
<1>9. CASE Select
  <2>1. server' = server /\ step' = step /\ hints' = hints /\ budget' = budget
    BY <1>9 DEF Select
  <2> QED
    BY <1>0, <1>9, <2>1, SelectTypes DEF ServerTypes
<1>10. CASE EndSelect \/ StartCopy \/ EndCopy \/ Lower
  <2>1. /\ step' = step /\ hints' = hints /\ budget' = budget /\ moves' = moves
        /\ cand' = <<>> \/ cand' = cand
    BY <1>10 DEF EndSelect, StartCopy, EndCopy, Lower
  <2>2. server' \in {"lower", "copy", "copying", "update", "serve"}
    BY <1>10 DEF EndSelect, StartCopy, EndCopy, Lower
  <2>3. cand' \in Seq(Pairs)
    <3>1. <<>> \in Seq(Pairs)
      OBVIOUS
    <3>2. cand' = <<>> \/ cand' = cand
      BY <2>1
    <3> QED
      BY <1>0, <3>1, <3>2
  <2> QED
    BY <1>0, <2>1, <2>2, <2>3 DEF ServerTypes
<1>11. CASE Update
  BY <1>0, <1>11 DEF Update, ServerTypes
<1> QED
  BY <1>1, <1>2, <1>3, <1>4, <1>5, <1>6, <1>7, <1>8, <1>9, <1>10, <1>11 DEF Next, Host, Gpu,
    Server, LaunchDecode, LaunchChunk, BeginPrefill, AwaitPromotion, Plan, Issue, StoreEvent,
    ClearActive, StoreUsage, Transfer, FinishPrefill, ServeChunk, CheckEvent

(* The slots a promotion copies into hold nothing, then the expert moved.  *)
LEMMA MoveTypes ==
  ASSUME TypeOK, NEW i \in DOMAIN moves
  PROVE  /\ moves[i] \in Moves /\ moves[i].l \in Layers /\ moves[i].e \in Experts
         /\ moves[i].slot \in Slots /\ moves[i].victim \in Experts
<1>1. moves \in Seq(Moves)
  BY DEF TypeOK, ServerTypes
<1>2. moves[i] \in Moves
  BY <1>1
<1> QED
  BY <1>2 DEF Moves

LEMMA IncomingType ==
  ASSUME TypeOK, NEW l \in Layers, NEW s \in Slots, MovesInto(l, s) # {}
  PROVE  Incoming(l, s) \in Experts
<1>1. (CHOOSE i \in MovesInto(l, s) : TRUE) \in DOMAIN moves
  BY DEF MovesInto
<1> QED
  BY <1>1, MoveTypes DEF Incoming

LEMMA ArenaTypesStep == ASSUME TypeOK, Next PROVE ArenaTypes'
<1>0. ArenaTypes
  BY DEF TypeOK
<1>1. CASE UNCHANGED arenaVars
  BY <1>0, <1>1 DEF ArenaTypes, arenaVars
<1>2. CASE ServeDecode
  <2>1. table' = table /\ slotOf' = slotOf /\ owner' = owner /\ content' = content
    BY <1>2 DEF ServeDecode
  <2> QED
    BY <1>0, <1>2, <2>1, ServeTypes DEF ArenaTypes
<1>3. CASE Select
  <2>1. table' = table /\ slotOf' = slotOf /\ owner' = owner /\ content' = content
    BY <1>3 DEF Select
  <2> QED
    BY <1>0, <1>3, <2>1, SelectTypes DEF ArenaTypes
<1>4. CASE StartCopy
  <2>1. content' \in [Layers -> [Slots -> Experts \union {None}]]
    BY <1>0, <1>4 DEF StartCopy, ArenaTypes
  <2> QED
    BY <1>0, <1>4, <2>1 DEF StartCopy, ArenaTypes
<1>5. CASE EndCopy
  <2>1. content' \in [Layers -> [Slots -> Experts \union {None}]]
    BY <1>0, <1>5, IncomingType DEF EndCopy, ArenaTypes
  <2> QED
    BY <1>0, <1>5, <2>1 DEF EndCopy, ArenaTypes
<1>6. CASE Update
  <2> DEFINE m == Head(moves)
  <2>1. m = moves[1] /\ 1 \in DOMAIN moves
    BY <1>6 DEF Update, TypeOK, ServerTypes
  <2>2. m.l \in Layers /\ m.e \in Experts /\ m.slot \in Slots /\ m.victim \in Experts
    BY <2>1, MoveTypes
  <2>3. /\ table' = [table EXCEPT ![m.l] = [@ EXCEPT ![m.victim] = None, ![m.e] = m.slot]]
        /\ slotOf' = [slotOf EXCEPT ![m.l] = [@ EXCEPT ![m.victim] = None, ![m.e] = m.slot]]
        /\ owner' = [owner EXCEPT ![m.l][m.slot] = m.e]
        /\ lastUse' = lastUse /\ content' = content
    BY <1>6 DEF Update
  <2> HIDE DEF m
  <2>4. table' \in [Layers -> Rows]
    BY <1>0, <2>2, <2>3 DEF ArenaTypes, Rows
  <2>5. slotOf' \in [Layers -> Rows]
    BY <1>0, <2>2, <2>3 DEF ArenaTypes, Rows
  <2>6. owner' \in [Layers -> [Slots -> Experts]]
    BY <1>0, <2>2, <2>3 DEF ArenaTypes
  <2> QED
    BY <1>0, <2>3, <2>4, <2>5, <2>6 DEF ArenaTypes
<1> QED
  BY <1>1, <1>2, <1>3, <1>4, <1>5, <1>6 DEF Next, Host, Gpu, Server, LaunchDecode,
    LaunchChunk, BeginPrefill, AwaitPromotion, Plan, Issue, StoreEvent, ClearActive,
    StoreUsage, Transfer, FinishPrefill, ServeChunk, LoadUsage, TakeHints, Raise, CheckActive,
    CheckEvent, EndSelect, Lower

LEMMA TypeStep == TypeOK /\ [Next]_vars => TypeOK'
<1>1. CASE TypeOK /\ Next
  BY <1>1, HostTypesStep, GpuTypesStep, FlagTypesStep, ServerTypesStep, ArenaTypesStep
    DEF TypeOK
<1>2. CASE TypeOK /\ UNCHANGED vars
  BY <1>2 DEF TypeOK, HostTypes, GpuTypes, FlagTypes, ServerTypes, ArenaTypes, vars, hostVars,
    gpuVars, flagVars, serverVars, arenaVars
<1> QED
  BY <1>1, <1>2

-----------------------------------------------------------------------------
(* The flags.                                                              *)

LEMMA FlagStep == ASSUME TypeOK, FlagInv, Next PROVE FlagInv'
<1>0. active \in BOOLEAN /\ promoting \in BOOLEAN
  BY DEF TypeOK, FlagTypes
<1> USE DEF FlagInv, Alone, Planned
<1>1. CASE UNCHANGED <<host, active, promoting, server>>
  BY <1>1
<1>2. CASE BeginPrefill
  BY <1>2 DEF BeginPrefill, CanLaunch, serverVars
<1>3. CASE AwaitPromotion
  BY <1>3 DEF AwaitPromotion, flagVars, serverVars
<1>4. CASE Plan \/ Issue
  BY <1>4 DEF Plan, Issue, flagVars, serverVars
<1>5. CASE StoreEvent
  BY <1>5 DEF StoreEvent, serverVars
<1>6. CASE ClearActive
  BY <1>6 DEF ClearActive, serverVars
<1>7. CASE StoreUsage
  BY <1>7 DEF StoreUsage, serverVars
<1>8. CASE ServeDecode
  <2>1. server = "serve" /\ server' \in {"hints", "serve"}
    BY <1>8 DEF ServeDecode
  <2> QED
    BY <1>8, <2>1 DEF ServeDecode, hostVars, flagVars
<1>9. CASE LoadUsage
  <2>1. server = "hints" /\ server' \in {"take", "serve", "raise"}
    BY <1>9 DEF LoadUsage
  <2> QED
    BY <1>9, <2>1 DEF LoadUsage, hostVars, flagVars
<1>10. CASE TakeHints
  <2>1. server = "take" /\ server' \in {"serve", "raise"}
    BY <1>10 DEF TakeHints
  <2> QED
    BY <1>10, <2>1 DEF TakeHints, hostVars
<1>11. CASE Raise
  BY <1>11 DEF Raise, hostVars
<1>12. CASE CheckActive
  BY <1>12 DEF CheckActive, GiveUp, hostVars, flagVars
<1>13. CASE CheckEvent
  <2>1. server = "event" /\ server' \in {"select", "lower"}
    BY <1>13 DEF CheckEvent, Merge, GiveUp
  <2> QED
    BY <1>13, <2>1 DEF CheckEvent, hostVars, flagVars
<1>14. CASE EndSelect
  <2>1. server = "select" /\ server' \in {"lower", "copy"}
    BY <1>14 DEF EndSelect
  <2> QED
    BY <1>14, <2>1 DEF EndSelect, hostVars, flagVars
<1>15. CASE StartCopy \/ EndCopy
  BY <1>15 DEF StartCopy, EndCopy, hostVars, flagVars
<1>16. CASE Lower
  <2>1. server \in {"lower", "update"} /\ server' = "serve" /\ ~promoting'
    BY <1>16 DEF Lower
  <2> QED
    BY <1>16, <2>1 DEF Lower, hostVars
<1> QED
  BY <1>1, <1>2, <1>3, <1>4, <1>5, <1>6, <1>7, <1>8, <1>9, <1>10, <1>11, <1>12, <1>13, <1>14,
    <1>15, <1>16 DEF Next, Host, Gpu, Server, LaunchDecode, LaunchChunk, Transfer,
    FinishPrefill, ServeChunk, Select, Update, hostVars, flagVars, serverVars

-----------------------------------------------------------------------------
(* The DMAs of the copy stream.                                            *)

LEMMA DmaTypes ==
  ASSUME TypeOK, NEW i \in DOMAIN dma
  PROVE  /\ dma[i].gen \in Nat /\ dma[i].layer \in Layers /\ dma[i].row \in Rows
<1> DEFINE Copies == [gen : Nat, layer : Layers, row : Rows]
<1>1. dma \in Seq(Copies)
  BY DEF TypeOK, GpuTypes
<1>2. dma[i] \in Copies
  <2> HIDE DEF Copies
  <2> QED
    BY <1>1
<1> QED
  BY <1>2

(* What leaves the copy stream is its head.                                *)
LEMMA DmaTail ==
  ASSUME TypeOK, Transfer
  PROVE  /\ \A i \in DOMAIN dma' : i + 1 \in DOMAIN dma /\ dma'[i] = dma[i + 1]
         /\ \A i \in DOMAIN dma : i = 1 \/ (i - 1 \in DOMAIN dma' /\ dma'[i - 1] = dma[i])
         /\ 1 \in DOMAIN dma
<1> DEFINE Copies == [gen : Nat, layer : Layers, row : Rows]
<1>1. dma \in Seq(Copies) /\ dma # <<>> /\ dma' = Tail(dma)
  BY DEF TypeOK, GpuTypes, Transfer
<1> HIDE DEF Copies
<1> QED
  BY <1>1

(* What Issue puts on the copy stream is a row of the snapshot.            *)
LEMMA DmaAppend ==
  ASSUME TypeOK, Issue
  PROVE  /\ issued' \in Layers
         /\ \A i \in DOMAIN dma' :
              \/ i \in DOMAIN dma /\ dma'[i] = dma[i]
              \/ dma'[i] = [gen |-> launched, layer |-> issued', row |-> snapshot[issued']]
         /\ \A i \in DOMAIN dma : i \in DOMAIN dma' /\ dma'[i] = dma[i]
<1> DEFINE Copies == [gen : Nat, layer : Layers, row : Rows]
           new == [gen |-> launched, layer |-> issued', row |-> snapshot[issued']]
<1>1. dma \in Seq(Copies) /\ dma' = Append(dma, new)
  BY DEF TypeOK, GpuTypes, Issue
<1>2. issued' \in Layers
  BY Sizes DEF Issue, Layers, TypeOK, HostTypes
<1> HIDE DEF Copies, new
<1>3. /\ \A i \in DOMAIN dma' : (i \in DOMAIN dma /\ dma'[i] = dma[i]) \/ dma'[i] = new
      /\ \A i \in DOMAIN dma : i \in DOMAIN dma' /\ dma'[i] = dma[i]
  BY <1>1
<1> QED
  BY <1>2, <1>3 DEF new

(* A server that sees the event done is alone with the arena.              *)
LEMMA EventCovers ==
  ASSUME TypeOK, FlagInv, DmaInv, server = "event", dmaEvent = 0 \/ DmaDone(dmaEvent)
  PROVE  dma = <<>>
<1>1. host \notin {"issue", "event"}
  BY DEF FlagInv, Alone, Planned
<1>2. \A i \in DOMAIN dma : dma[i].gen \in 1 .. launched /\ dma[i].gen <= dmaEvent
  BY <1>1 DEF DmaInv
<1>3. launched \in Nat /\ dmaEvent \in Nat
  BY DEF TypeOK, HostTypes, FlagTypes
<1>4. DOMAIN dma = {}
  <2>1. ASSUME NEW i \in DOMAIN dma PROVE FALSE
    <3>1. dma[i].gen \in Nat /\ dma[i].gen >= 1 /\ dma[i].gen <= dmaEvent
      BY <1>2, <1>3
    <3>2. dmaEvent # 0 => dma[i].gen > dmaEvent
      BY DEF DmaDone
    <3> QED
      BY <1>3, <3>1, <3>2
  <2> QED
    BY <2>1
<1> DEFINE Copies == [gen : Nat, layer : Layers, row : Rows]
<1>5. dma \in Seq(Copies)
  BY DEF TypeOK, GpuTypes
<1> HIDE DEF Copies
<1> QED
  BY <1>4, <1>5

LEMMA DmaStep == ASSUME TypeOK, FlagInv, DmaInv, Next PROVE DmaInv'
<1>0. launched \in Nat /\ dmaEvent \in Nat /\ MaxForwards \in Nat
  BY ArenaAssumption DEF TypeOK, HostTypes, FlagTypes
<1>1. CASE LaunchDecode \/ LaunchChunk \/ BeginPrefill
  <2>1. /\ host = "idle" /\ launched < MaxForwards /\ launched' = launched + 1
        /\ host' \in {"idle", "wait"} /\ dma' = dma /\ dmaEvent' = dmaEvent
        /\ server' = server
    BY <1>1 DEF LaunchDecode, LaunchChunk, BeginPrefill, CanLaunch, gpuVars, flagVars,
      serverVars
  <2> QED
    BY <1>0, <2>1, DmaTypes DEF DmaInv, Moving
<1>2. CASE AwaitPromotion \/ Plan \/ ClearActive \/ StoreUsage
  <2>1. /\ host \in {"wait", "plan", "active", "usage"} /\ launched' = launched
        /\ dma' = dma /\ dmaEvent' = dmaEvent /\ server' = server
    BY <1>2 DEF AwaitPromotion, Plan, ClearActive, StoreUsage, gpuVars, flagVars, serverVars
  <2> QED
    BY <2>1 DEF DmaInv, Moving
<1>3. CASE Issue
  <2>1. /\ host = "issue" /\ host' \in {"issue", "event"} /\ launched' = launched
        /\ dmaEvent' = dmaEvent /\ server' = server
    BY <1>3 DEF Issue, flagVars, serverVars
  <2>2. ~Moving
    BY <2>1 DEF FlagInv, Alone, Planned, Moving
  <2>3. \A i \in DOMAIN dma' : (i \in DOMAIN dma /\ dma'[i] = dma[i]) \/ dma'[i].gen = launched
    BY <1>3, DmaAppend
  <2> QED
    BY <1>0, <2>1, <2>2, <2>3 DEF DmaInv, Moving
<1>4. CASE StoreEvent
  <2>1. /\ host = "event" /\ host' = "active" /\ launched' = launched /\ dma' = dma
        /\ dmaEvent' = launched /\ server' = server
    BY <1>4 DEF StoreEvent, gpuVars, serverVars
  <2> QED
    BY <1>0, <2>1, DmaTypes DEF DmaInv, Moving
<1>5. CASE Transfer
  <2>1. UNCHANGED <<host, launched, dmaEvent, server>> /\ dma # <<>>
    BY <1>5 DEF Transfer, hostVars, flagVars, serverVars
  <2> QED
    BY <1>5, <2>1, DmaTail DEF DmaInv, Moving
<1>6. CASE CheckEvent
  <2>1. /\ server = "event" /\ UNCHANGED <<host, launched, dma, dmaEvent>>
        /\ server' = "lower" \/ dmaEvent = 0 \/ DmaDone(dmaEvent)
    BY <1>6 DEF CheckEvent, GiveUp, hostVars, gpuVars, flagVars
  <2>2. server' = "lower" \/ dma = <<>>
    BY <2>1, EventCovers
  <2> QED
    BY <2>1, <2>2 DEF DmaInv, Moving
<1>7. CASE Server /\ ~CheckEvent
  <2>1. UNCHANGED <<host, launched, dma, dmaEvent>> /\ (Moving' => Moving)
    BY <1>7 DEF Server, ServeDecode, ServeChunk, LoadUsage, TakeHints, Raise, CheckActive,
      GiveUp, Select, EndSelect, StartCopy, EndCopy, Update, Lower, hostVars, gpuVars,
      flagVars, serverVars, Moving
  <2> QED
    BY <2>1 DEF DmaInv
<1>8. CASE FinishPrefill
  BY <1>8 DEF FinishPrefill, hostVars, flagVars, serverVars, DmaInv, Moving
<1> QED
  BY <1>1, <1>2, <1>3, <1>4, <1>5, <1>6, <1>7, <1>8 DEF Next, Host, Gpu

-----------------------------------------------------------------------------
(* Places: they change in Update and nowhere else.                         *)

LEMMA PlacesKept == ASSUME Next, ~Update PROVE UNCHANGED <<slotOf, table, owner>>
<1>1. CASE Host \/ Gpu
  BY <1>1 DEF Host, Gpu, LaunchDecode, LaunchChunk, BeginPrefill, AwaitPromotion, Plan, Issue,
    StoreEvent, ClearActive, StoreUsage, Transfer, FinishPrefill, arenaVars
<1>2. CASE Server
  BY <1>2 DEF Server, ServeDecode, ServeChunk, LoadUsage, TakeHints, Raise, CheckActive,
    CheckEvent, Select, EndSelect, StartCopy, EndCopy, Lower, arenaVars
<1> QED
  BY <1>1, <1>2 DEF Next

LEMMA PlaceStep == ASSUME TypeOK, FlagInv, DmaInv, PlaceInv, Next PROVE PlaceInv'
<1>1. CASE Update
  <2>1. server = "update" /\ UNCHANGED <<host, dma>>
    BY <1>1 DEF Update, hostVars, gpuVars
  <2>2. host \notin {"issue", "event", "active"} /\ dma = <<>>
    BY <2>1 DEF FlagInv, Alone, Planned, DmaInv, Moving
  <2> QED
    BY <2>1, <2>2 DEF PlaceInv
<1>2. CASE Plan
  <2>1. snapshot' = slotOf /\ slotOf' = slotOf /\ dma' = dma
    BY <1>2 DEF Plan, gpuVars, arenaVars
  <2> QED
    BY <2>1 DEF PlaceInv
<1>3. CASE Issue
  <2>1. host = "issue" /\ snapshot' = snapshot /\ slotOf' = slotOf
    BY <1>3 DEF Issue, arenaVars
  <2>2. snapshot = slotOf
    BY <2>1 DEF PlaceInv
  <2>3. \A i \in DOMAIN dma' : dma'[i].row = slotOf[dma'[i].layer]
    BY <1>3, <2>2, DmaAppend DEF PlaceInv
  <2> QED
    BY <2>1, <2>2, <2>3 DEF PlaceInv
<1>4. CASE Transfer
  <2>1. UNCHANGED <<host, snapshot, slotOf>>
    BY <1>4 DEF Transfer, hostVars, arenaVars
  <2> QED
    BY <1>4, <2>1, DmaTail DEF PlaceInv
<1>5. CASE Next /\ ~Update /\ ~Plan /\ ~Issue /\ ~Transfer
  <2>1. slotOf' = slotOf
    BY <1>5, PlacesKept
  <2>2. CASE Host
    <3>1. dma' = dma /\ snapshot' = snapshot
      BY <1>5, <2>2 DEF Host, LaunchDecode, LaunchChunk, BeginPrefill, AwaitPromotion,
        StoreEvent, ClearActive, StoreUsage, gpuVars
    <3>2. host' \in {"issue", "event", "active"} => host \in {"issue", "event", "active"}
      BY <1>5, <2>2 DEF Host, LaunchDecode, LaunchChunk, BeginPrefill, AwaitPromotion,
        StoreEvent, ClearActive, StoreUsage
    <3> QED
      BY <2>1, <3>1, <3>2 DEF PlaceInv
  <2>3. CASE Gpu \/ Server
    <3>1. UNCHANGED <<host, dma, snapshot>>
      BY <1>5, <2>3 DEF Gpu, Server, FinishPrefill, ServeDecode, ServeChunk, LoadUsage,
        TakeHints, Raise, CheckActive, CheckEvent, Select, EndSelect, StartCopy, EndCopy,
        Lower, hostVars, gpuVars
    <3> QED
      BY <2>1, <3>1 DEF PlaceInv
  <2> QED
    BY <1>5, <2>2, <2>3 DEF Next
<1> QED
  BY <1>1, <1>2, <1>3, <1>4, <1>5

-----------------------------------------------------------------------------
(* Moves.                                                                  *)

(* Select adds at most one move: of an expert without a slot that no other *)
(* move brings in, to a movable slot not used in this step.                *)
LEMMA SelectAdds ==
  ASSUME TypeOK, Select
  PROVE  \/ UNCHANGED <<moves, lastUse>>
         \/ \E l \in Layers, e \in Experts, s \in Movable :
              /\ slotOf[l][e] = None /\ ~Chosen(l, e) /\ lastUse[l][s] < step
              /\ lastUse' = [lastUse EXCEPT ![l][s] = step]
              /\ moves' = Append(moves, [l |-> l, e |-> e, slot |-> s, victim |-> owner[l][s]])
<1>1. cand \in Seq(Pairs) /\ cand # <<>>
  BY DEF TypeOK, ServerTypes, Select
<1>2. Head(cand) \in Pairs
  BY <1>1
<1>3. Head(cand)[1] \in Layers /\ Head(cand)[2] \in Experts
  BY <1>2 DEF Pairs
<1>4. \A l \in Layers : \A s \in Victims(l) : s \in Movable /\ lastUse[l][s] < step
  BY DEF Victims
<1>5. CASE UNCHANGED <<moves, lastUse>>
  BY <1>5
<1>6. CASE ~UNCHANGED <<moves, lastUse>>
  <2> DEFINE l == Head(cand)[1]
             e == Head(cand)[2]
  <2>1. /\ slotOf[l][e] = None /\ ~Chosen(l, e)
        /\ \E s \in Victims(l) :
             /\ lastUse' = [lastUse EXCEPT ![l][s] = step]
             /\ moves' = Append(moves, [l |-> l, e |-> e, slot |-> s, victim |-> owner[l][s]])
    BY <1>6 DEF Select
  <2> HIDE DEF l, e
  <2> QED
    BY <1>3, <1>4, <2>1 DEF l, e
<1> QED
  BY <1>5, <1>6

(* Update makes the first move and drops it.                               *)
LEMMA UpdateMoves ==
  ASSUME TypeOK, Update
  PROVE  /\ server = "update" /\ server' = "update" /\ 1 \in DOMAIN moves
         /\ slotOf' = [slotOf EXCEPT ![moves[1].l] =
                [@ EXCEPT ![moves[1].victim] = None, ![moves[1].e] = moves[1].slot]]
         /\ table' = [table EXCEPT ![moves[1].l] =
                [@ EXCEPT ![moves[1].victim] = None, ![moves[1].e] = moves[1].slot]]
         /\ owner' = [owner EXCEPT ![moves[1].l][moves[1].slot] = moves[1].e]
         /\ UNCHANGED <<lastUse, content, step>>
         /\ \A i \in DOMAIN moves' : i + 1 \in DOMAIN moves /\ moves'[i] = moves[i + 1]
         /\ \A i \in DOMAIN moves : i = 1 \/ (i - 1 \in DOMAIN moves' /\ moves'[i - 1] = moves[i])
<1>1. moves \in Seq(Moves) /\ moves # <<>> /\ moves' = Tail(moves)
  BY DEF TypeOK, ServerTypes, Update
<1>2. 1 \in DOMAIN moves /\ Head(moves) = moves[1]
  BY <1>1
<1>3. /\ \A i \in DOMAIN moves' : i + 1 \in DOMAIN moves /\ moves'[i] = moves[i + 1]
      /\ \A i \in DOMAIN moves : i = 1 \/ (i - 1 \in DOMAIN moves' /\ moves'[i - 1] = moves[i])
  BY <1>1
<1> QED
  BY <1>2, <1>3 DEF Update

LEMMA MapsStep == ASSUME TypeOK, MapsAgree, MoveInv, Next PROVE MapsAgree'
<1>1. CASE ~Update
  BY <1>1, PlacesKept DEF MapsAgree
<1>2. CASE Update
  <2> DEFINE m == moves[1]
  <2>1. /\ 1 \in DOMAIN moves
        /\ slotOf' = [slotOf EXCEPT ![m.l] = [@ EXCEPT ![m.victim] = None, ![m.e] = m.slot]]
        /\ table' = [table EXCEPT ![m.l] = [@ EXCEPT ![m.victim] = None, ![m.e] = m.slot]]
        /\ owner' = [owner EXCEPT ![m.l][m.slot] = m.e]
    BY <1>2, UpdateMoves
  <2>2. m.l \in Layers /\ m.e \in Experts /\ m.slot \in Slots /\ m.victim \in Experts
    BY <2>1, MoveTypes
  <2>3. slotOf[m.l][m.e] = None /\ m.victim = owner[m.l][m.slot]
    BY <2>1 DEF MoveInv
  <2>4. slotOf \in [Layers -> Rows] /\ table \in [Layers -> Rows]
          /\ owner \in [Layers -> [Slots -> Experts]]
    BY DEF TypeOK, ArenaTypes
  <2>5. None \notin Slots
    BY Sizes DEF None, Slots
  <2>6. slotOf[m.l][m.victim] = m.slot /\ m.victim # m.e
    BY <2>2, <2>3, <2>5 DEF MapsAgree
  <2> HIDE DEF m
  <2>7. \A l \in Layers : \A e \in Experts :
          slotOf'[l][e] = IF l = m.l /\ e = m.e THEN m.slot
                          ELSE IF l = m.l /\ e = m.victim THEN None ELSE slotOf[l][e]
    BY <2>1, <2>2, <2>4 DEF Rows
  <2>8. \A l \in Layers : \A s \in Slots :
          owner'[l][s] = IF l = m.l /\ s = m.slot THEN m.e ELSE owner[l][s]
    BY <2>1, <2>2, <2>4
  <2>9. \A l \in Layers : table'[l] = slotOf'[l]
    BY <2>1, <2>2, <2>4 DEF MapsAgree
  <2>10. ASSUME NEW l \in Layers, NEW s \in Slots PROVE slotOf'[l][owner'[l][s]] = s
    <3>1. slotOf[l][owner[l][s]] = s /\ owner[l][s] \in Experts
      BY <2>4 DEF MapsAgree
    <3>2. CASE l = m.l /\ s = m.slot
      BY <2>2, <2>7, <2>8, <3>2
    <3>3. CASE ~(l = m.l /\ s = m.slot)
      BY <2>3, <2>5, <2>6, <2>7, <2>8, <3>1, <3>3
    <3> QED
      BY <3>2, <3>3
  <2>11. ASSUME NEW l \in Layers, NEW e \in Experts, slotOf'[l][e] # None
         PROVE  owner'[l][slotOf'[l][e]] = e
    <3>1. CASE l = m.l /\ e = m.e
      BY <2>2, <2>7, <2>8, <3>1
    <3>2. CASE ~(l = m.l /\ e = m.e)
      <4>1. slotOf'[l][e] = slotOf[l][e] /\ ~(l = m.l /\ e = m.victim)
        BY <2>7, <2>11, <3>2
      <4>2. slotOf[l][e] \in Slots /\ owner[l][slotOf[l][e]] = e
        BY <2>4, <2>11, <4>1 DEF Rows, MapsAgree
      <4>3. ~(l = m.l /\ slotOf[l][e] = m.slot)
        BY <2>3, <4>1, <4>2
      <4> QED
        BY <2>8, <4>1, <4>2, <4>3
    <3> QED
      BY <3>1, <3>2
  <2> QED
    BY <2>9, <2>10, <2>11 DEF MapsAgree
<1> QED
  BY <1>1, <1>2

LEMMA MoveStep == ASSUME TypeOK, MapsAgree, MoveInv, Next PROVE MoveInv'
<1>0. /\ slotOf \in [Layers -> Rows] /\ owner \in [Layers -> [Slots -> Experts]]
      /\ lastUse \in [Layers -> [Slots -> Int]] /\ step \in Int /\ moves \in Seq(Moves)
  BY DEF TypeOK, ArenaTypes, ServerTypes
<1>1. CASE Update
  <2> DEFINE m == moves[1]
  <2>1. /\ server' = "update" /\ 1 \in DOMAIN moves
        /\ slotOf' = [slotOf EXCEPT ![m.l] = [@ EXCEPT ![m.victim] = None, ![m.e] = m.slot]]
        /\ owner' = [owner EXCEPT ![m.l][m.slot] = m.e]
        /\ UNCHANGED <<lastUse, step>>
        /\ \A i \in DOMAIN moves' : i + 1 \in DOMAIN moves /\ moves'[i] = moves[i + 1]
    BY <1>1, UpdateMoves
  <2>2. m.l \in Layers /\ m.e \in Experts /\ m.slot \in Slots /\ m.victim \in Experts
    BY <2>1, MoveTypes
  <2>3. DOMAIN moves \subseteq Nat /\ \A i \in DOMAIN moves' : i \in Nat /\ i + 1 # 1
    <3>1. DOMAIN moves \subseteq Nat \ {0}
      BY <1>0
    <3>2. \A i \in DOMAIN moves' : i \in Nat \ {0}
      BY <1>0, <1>1 DEF Update
    <3> QED
      BY <3>1, <3>2
  <2>4. ASSUME NEW i \in DOMAIN moves'
        PROVE  /\ slotOf'[moves'[i].l][moves'[i].e] = None
               /\ moves'[i].slot \in Movable
               /\ moves'[i].victim = owner'[moves'[i].l][moves'[i].slot]
               /\ lastUse'[moves'[i].l][moves'[i].slot] = step'
    <3> DEFINE q == moves[i + 1]
    <3>1. i + 1 \in DOMAIN moves /\ i + 1 # 1 /\ moves'[i] = q
      BY <2>1, <2>3
    <3>2. q.l \in Layers /\ q.e \in Experts /\ q.slot \in Slots
      BY <3>1, MoveTypes
    <3>3. /\ slotOf[q.l][q.e] = None /\ q.slot \in Movable
          /\ q.victim = owner[q.l][q.slot] /\ lastUse[q.l][q.slot] = step
          /\ q.l = m.l => q.slot # m.slot /\ q.e # m.e
      BY <2>1, <3>1 DEF MoveInv
    <3> HIDE DEF m, q
    <3>4. slotOf'[q.l][q.e] = None
      BY <1>0, <2>1, <2>2, <3>2, <3>3 DEF Rows
    <3>5. owner'[q.l][q.slot] = owner[q.l][q.slot]
      BY <1>0, <2>1, <2>2, <3>2, <3>3
    <3> QED
      BY <2>1, <3>1, <3>3, <3>4, <3>5
  <2>5. ASSUME NEW i \in DOMAIN moves', NEW j \in DOMAIN moves', i # j, moves'[i].l = moves'[j].l
        PROVE  moves'[i].slot # moves'[j].slot /\ moves'[i].e # moves'[j].e
    <3>1. i + 1 \in DOMAIN moves /\ j + 1 \in DOMAIN moves /\ i + 1 # j + 1
            /\ moves'[i] = moves[i + 1] /\ moves'[j] = moves[j + 1]
      BY <2>1, <2>3, <2>5
    <3> QED
      BY <2>5, <3>1 DEF MoveInv
  <2> QED
    BY <2>1, <2>4, <2>5 DEF MoveInv, Moving
<1>2. CASE Select
  <2>1. server = "select" /\ server' = "select" /\ UNCHANGED <<slotOf, owner, step>>
    BY <1>2 DEF Select
  <2>2. CASE UNCHANGED <<moves, lastUse>>
    BY <2>1, <2>2 DEF MoveInv, Moving
  <2>3. CASE ~UNCHANGED <<moves, lastUse>>
    <3>1. PICK l \in Layers, e \in Experts, s \in Movable :
            /\ slotOf[l][e] = None /\ ~Chosen(l, e) /\ lastUse[l][s] < step
            /\ lastUse' = [lastUse EXCEPT ![l][s] = step]
            /\ moves' = Append(moves, [l |-> l, e |-> e, slot |-> s, victim |-> owner[l][s]])
      BY <1>2, <2>3, SelectAdds
    <3> DEFINE new == [l |-> l, e |-> e, slot |-> s, victim |-> owner[l][s]]
    <3>2. s \in Slots
      BY DEF Movable
    <3>3. \A k \in Layers : \A t \in Slots :
            lastUse'[k][t] = IF k = l /\ t = s THEN step ELSE lastUse[k][t]
      BY <1>0, <3>1, <3>2
    <3>4. ASSUME NEW i \in DOMAIN moves
          PROVE  /\ moves[i].l = l => moves[i].slot # s /\ moves[i].e # e
                 /\ lastUse'[moves[i].l][moves[i].slot] = step
      <4>1. moves[i].l \in Layers /\ moves[i].slot \in Slots
        BY MoveTypes
      <4>2. lastUse[moves[i].l][moves[i].slot] = step
        BY DEF MoveInv
      <4>3. moves[i].l = l => moves[i].e # e
        BY <3>1 DEF Chosen
      <4>4. moves[i].l = l => moves[i].slot # s
        BY <1>0, <3>1, <4>2
      <4> QED
        BY <3>3, <4>1, <4>2, <4>3, <4>4
    <3>5. /\ new.l = l /\ new.e = e /\ new.slot = s /\ new.victim = owner[l][s]
          /\ lastUse'[l][s] = step
      BY <3>2, <3>3
    <3> HIDE DEF new
    <3>6. \A i \in DOMAIN moves' :
            (i \in DOMAIN moves /\ moves'[i] = moves[i]) \/ (i = Len(moves) + 1 /\ moves'[i] = new)
      BY <1>0, <3>1 DEF new
    <3>7. ASSUME NEW i \in DOMAIN moves'
          PROVE  /\ slotOf'[moves'[i].l][moves'[i].e] = None
                 /\ moves'[i].slot \in Movable
                 /\ moves'[i].victim = owner'[moves'[i].l][moves'[i].slot]
                 /\ lastUse'[moves'[i].l][moves'[i].slot] = step'
      BY <2>1, <3>1, <3>4, <3>5, <3>6 DEF MoveInv
    <3>8. ASSUME NEW i \in DOMAIN moves', NEW j \in DOMAIN moves', i # j, moves'[i].l = moves'[j].l
          PROVE  moves'[i].slot # moves'[j].slot /\ moves'[i].e # moves'[j].e
      <4>1. CASE i \in DOMAIN moves /\ moves'[i] = moves[i] /\ j \in DOMAIN moves /\ moves'[j] = moves[j]
        BY <3>8, <4>1 DEF MoveInv
      <4>2. CASE i \in DOMAIN moves /\ moves'[i] = moves[i] /\ moves'[j] = new
        BY <3>4, <3>5, <3>8, <4>2
      <4>3. CASE moves'[i] = new /\ j \in DOMAIN moves /\ moves'[j] = moves[j]
        BY <3>4, <3>5, <3>8, <4>3
      <4> QED
        BY <3>6, <3>8, <4>1, <4>2, <4>3
    <3> QED
      BY <2>1, <3>7, <3>8 DEF MoveInv, Moving
  <2> QED
    BY <2>2, <2>3
<1>3. CASE ~Update /\ ~Select
  <2>1. UNCHANGED <<slotOf, owner>>
    BY <1>3, PlacesKept
  <2>2. CASE CheckEvent
    <3>1. moves' = <<>> \/ (server = "event" /\ moves' = moves)
      BY <2>2 DEF CheckEvent, Merge, GiveUp
    <3>2. moves' = <<>>
      BY <3>1 DEF MoveInv, Moving
    <3> QED
      BY <3>2 DEF MoveInv
  <2>3. CASE ~Moving /\ moves' = moves
    <3>1. moves' = <<>>
      BY <2>3 DEF MoveInv
    <3> QED
      BY <3>1 DEF MoveInv
  <2>4. CASE UNCHANGED <<moves, lastUse, step>> /\ (Moving => Moving' \/ moves = <<>>)
    BY <2>1, <2>4 DEF MoveInv
  <2>5. CASE Host \/ Gpu \/ ServeChunk
    <3>1. UNCHANGED <<moves, lastUse, step>>
      BY <2>5 DEF Host, Gpu, LaunchDecode, LaunchChunk, BeginPrefill, AwaitPromotion, Plan,
        Issue, StoreEvent, ClearActive, StoreUsage, Transfer, FinishPrefill, ServeChunk,
        serverVars, arenaVars
    <3>2. server' = server
      BY <2>5 DEF Host, Gpu, LaunchDecode, LaunchChunk, BeginPrefill, AwaitPromotion, Plan,
        Issue, StoreEvent, ClearActive, StoreUsage, Transfer, FinishPrefill, ServeChunk,
        serverVars
    <3> QED
      BY <2>4, <3>1, <3>2 DEF Moving
  <2>6. CASE ServeDecode \/ LoadUsage \/ TakeHints \/ Raise \/ CheckActive
    <3>1. server \in {"serve", "hints", "take", "raise", "active"}
      BY <2>6 DEF ServeDecode, LoadUsage, TakeHints, Raise, CheckActive
    <3>2. moves' = moves
      BY <2>6 DEF ServeDecode, LoadUsage, TakeHints, Raise, CheckActive, GiveUp
    <3> QED
      BY <2>3, <3>1, <3>2 DEF Moving
  <2>7. CASE EndSelect
    <3>1. UNCHANGED <<moves, lastUse, step>> /\ (moves = <<>> \/ server' = "copy")
      BY <2>7 DEF EndSelect, arenaVars
    <3> QED
      BY <2>4, <3>1 DEF Moving
  <2>8. CASE StartCopy \/ EndCopy
    <3>1. UNCHANGED <<moves, lastUse, step>> /\ server' \in {"copying", "update"}
      BY <2>8 DEF StartCopy, EndCopy
    <3> QED
      BY <2>4, <3>1 DEF Moving
  <2>9. CASE Lower
    <3>1. UNCHANGED <<moves, lastUse, step>> /\ (server = "lower" \/ moves = <<>>)
      BY <2>9 DEF Lower, arenaVars
    <3> QED
      BY <2>3, <2>4, <3>1 DEF Moving
  <2> QED
    BY <1>3, <2>2, <2>5, <2>6, <2>7, <2>8, <2>9 DEF Next, Server
<1> QED
  BY <1>1, <1>2, <1>3

-----------------------------------------------------------------------------
(* What the slots hold.                                                    *)

LEMMA ContentKept == ASSUME Next, ~StartCopy, ~EndCopy PROVE content' = content
<1>1. CASE Host \/ Gpu
  BY <1>1 DEF Host, Gpu, LaunchDecode, LaunchChunk, BeginPrefill, AwaitPromotion, Plan, Issue,
    StoreEvent, ClearActive, StoreUsage, Transfer, FinishPrefill, arenaVars
<1>2. CASE Server
  BY <1>2 DEF Server, ServeDecode, ServeChunk, LoadUsage, TakeHints, Raise, CheckActive,
    CheckEvent, Select, EndSelect, Update, Lower, arenaVars
<1> QED
  BY <1>1, <1>2 DEF Next

(* No two moves go into one slot.                                          *)
LEMMA IncomingUnique ==
  ASSUME TypeOK, MoveInv, NEW i \in DOMAIN moves
  PROVE  /\ MovesInto(moves[i].l, moves[i].slot) # {}
         /\ Incoming(moves[i].l, moves[i].slot) = moves[i].e
<1> DEFINE M == MovesInto(moves[i].l, moves[i].slot)
<1>1. i \in M
  BY DEF MovesInto
<1>2. \A j \in M : j = i
  BY DEF MovesInto, MoveInv
<1>3. (CHOOSE j \in M : TRUE) = i
  <2> HIDE DEF M
  <2> QED
    BY <1>1, <1>2
<1> QED
  BY <1>1, <1>3 DEF Incoming

LEMMA ContentStep == ASSUME TypeOK, MoveInv, ContentInv, Next PROVE ContentInv'
<1>0. /\ content \in [Layers -> [Slots -> Experts \union {None}]]
      /\ owner \in [Layers -> [Slots -> Experts]]
  BY DEF TypeOK, ArenaTypes
<1>1. CASE StartCopy
  <2>1. /\ server = "copy" /\ server' = "copying" /\ UNCHANGED <<owner, moves>>
        /\ content' = [l \in Layers |-> [s \in Slots |->
             IF MovesInto(l, s) = {} THEN content[l][s] ELSE None]]
    BY <1>1 DEF StartCopy
  <2>2. content = owner
    BY <2>1 DEF ContentInv
  <2>3. \A l \in Layers, s \in Slots : MovesInto(l, s)' = MovesInto(l, s)
    BY <2>1 DEF MovesInto
  <2> QED
    BY <2>1, <2>2, <2>3 DEF ContentInv
<1>2. CASE EndCopy
  <2>1. /\ server = "copying" /\ server' = "update" /\ UNCHANGED <<owner, moves>>
        /\ content' = [l \in Layers |-> [s \in Slots |->
             IF MovesInto(l, s) = {} THEN content[l][s] ELSE Incoming(l, s)]]
    BY <1>2 DEF EndCopy
  <2>2. \A l \in Layers, s \in Slots : MovesInto(l, s)' = MovesInto(l, s)
    BY <2>1 DEF MovesInto
  <2>3. \A l \in Layers, s \in Slots : MovesInto(l, s) = {} => content'[l][s] = owner[l][s]
    BY <2>1 DEF ContentInv
  <2>4. ASSUME NEW i \in DOMAIN moves PROVE content'[moves[i].l][moves[i].slot] = moves[i].e
    <3>1. moves[i].l \in Layers /\ moves[i].slot \in Slots
      BY MoveTypes
    <3> QED
      BY <2>1, <3>1, IncomingUnique
  <2> QED
    BY <2>1, <2>2, <2>3, <2>4 DEF ContentInv
<1>3. CASE Update
  <2> DEFINE m == moves[1]
  <2>1. /\ server = "update" /\ server' = "update" /\ 1 \in DOMAIN moves
        /\ owner' = [owner EXCEPT ![m.l][m.slot] = m.e] /\ content' = content
        /\ \A i \in DOMAIN moves' : i + 1 \in DOMAIN moves /\ moves'[i] = moves[i + 1]
        /\ \A i \in DOMAIN moves : i = 1 \/ (i - 1 \in DOMAIN moves' /\ moves'[i - 1] = moves[i])
    BY <1>3, UpdateMoves
  <2>2. m.l \in Layers /\ m.slot \in Slots
    BY <2>1, MoveTypes
  <2>3. content[m.l][m.slot] = m.e
    BY <2>1 DEF ContentInv
  <2>4. ASSUME NEW l \in Layers, NEW s \in Slots, MovesInto(l, s)' = {}
        PROVE  content'[l][s] = owner'[l][s]
    <3>1. CASE l = m.l /\ s = m.slot
      <4> HIDE DEF m
      <4> QED
        BY <1>0, <2>1, <2>2, <2>3, <3>1
    <3>2. CASE ~(l = m.l /\ s = m.slot)
      <4>1. MovesInto(l, s) = {}
        <5>1. ASSUME NEW i \in MovesInto(l, s) PROVE FALSE
          <6>1. i \in DOMAIN moves /\ moves[i].l = l /\ moves[i].slot = s /\ i # 1
            BY <3>2 DEF MovesInto
          <6>2. i - 1 \in DOMAIN moves' /\ moves'[i - 1] = moves[i]
            BY <2>1, <6>1
          <6>3. i - 1 \in MovesInto(l, s)'
            BY <6>1, <6>2 DEF MovesInto
          <6> QED
            BY <2>4, <6>3
        <5> QED
          BY <5>1
      <4>2. content[l][s] = owner[l][s]
        BY <2>1, <4>1 DEF ContentInv
      <4>3. owner'[l][s] = owner[l][s]
        <5> HIDE DEF m
        <5> QED
          BY <1>0, <2>1, <2>2, <3>2
      <4> QED
        BY <2>1, <4>2, <4>3
    <3> QED
      BY <3>1, <3>2
  <2>5. \A i \in DOMAIN moves' : content'[moves'[i].l][moves'[i].slot] = moves'[i].e
    BY <2>1 DEF ContentInv
  <2> QED
    BY <2>1, <2>4, <2>5 DEF ContentInv
<1>4. CASE Lower
  <2>1. server \in {"lower", "update"} /\ server' = "serve" /\ UNCHANGED <<content, owner>>
          /\ (server = "update" => moves = <<>>)
    BY <1>4 DEF Lower, arenaVars
  <2>2. CASE server = "lower"
    BY <2>1, <2>2 DEF ContentInv
  <2>3. CASE server = "update"
    <3>1. \A l \in Layers, s \in Slots : MovesInto(l, s) = {}
      BY <2>1, <2>3 DEF MovesInto
    <3>2. \A l \in Layers, s \in Slots : content[l][s] = owner[l][s]
      BY <2>3, <3>1 DEF ContentInv
    <3>3. content = owner
      BY <1>0, <3>2
    <3> QED
      BY <2>1, <3>3 DEF ContentInv
  <2> QED
    BY <2>1, <2>2, <2>3
<1>5. CASE ~StartCopy /\ ~EndCopy /\ ~Update /\ ~Lower
  <2>1. UNCHANGED <<content, owner>>
    BY <1>5, ContentKept, PlacesKept
  <2>2. CASE Host \/ Gpu
    <3>1. UNCHANGED <<moves, server>>
      BY <2>2 DEF Host, Gpu, LaunchDecode, LaunchChunk, BeginPrefill, AwaitPromotion, Plan,
        Issue, StoreEvent, ClearActive, StoreUsage, Transfer, FinishPrefill, serverVars
    <3> QED
      BY <2>1, <3>1 DEF ContentInv, MovesInto
  <2>3. CASE Server
    <3>1. server \notin {"copying", "update"}
      BY <1>5, <2>3 DEF Server, ServeDecode, ServeChunk, LoadUsage, TakeHints, Raise,
        CheckActive, CheckEvent, Select, EndSelect
    <3>2. server' \notin {"copying", "update"}
      BY <1>5, <2>3 DEF Server, ServeDecode, ServeChunk, LoadUsage, TakeHints, Raise,
        CheckActive, CheckEvent, Merge, GiveUp, Select, EndSelect, serverVars
    <3> QED
      BY <2>1, <3>1, <3>2 DEF ContentInv
  <2> QED
    BY <2>2, <2>3 DEF Next
<1> QED
  BY <1>1, <1>2, <1>3, <1>4, <1>5

LEMMA ProtectStep == ASSUME TypeOK, MoveInv, ProtectInv, Next PROVE ProtectInv'
<1>1. CASE Update
  <2> DEFINE m == moves[1]
  <2>1. 1 \in DOMAIN moves /\ owner' = [owner EXCEPT ![m.l][m.slot] = m.e]
    BY <1>1, UpdateMoves
  <2>2. m.l \in Layers /\ m.slot \in Slots /\ m.slot \in Movable
    BY <2>1, MoveTypes DEF MoveInv
  <2>3. owner \in [Layers -> [Slots -> Experts]]
    BY DEF TypeOK, ArenaTypes
  <2> HIDE DEF m
  <2>4. ASSUME NEW l \in Layers, NEW s \in Slots, s < Protect PROVE owner'[l][s] = s
    <3>1. s # m.slot
      BY <2>2, <2>4, Sizes DEF Movable, Slots
    <3> QED
      BY <2>1, <2>2, <2>3, <2>4, <3>1 DEF ProtectInv
  <2> QED
    BY <2>4 DEF ProtectInv
<1>2. CASE ~Update
  BY <1>2, PlacesKept DEF ProtectInv
<1> QED
  BY <1>1, <1>2

-----------------------------------------------------------------------------
(* The inductive invariant.                                                *)

LEMMA InvInit == Init => ArenaInv
<1> SUFFICES ASSUME Init PROVE ArenaInv
  OBVIOUS
<1>1. TypeOK
  BY TypeInit
<1>2. FlagInv
  BY DEF Init, FlagInv, Alone, Planned
<1>3. dma = <<>> /\ host = "idle" /\ launched = 0 /\ moves = <<>> /\ server = "serve"
        /\ content = owner
  BY DEF Init
<1>4. DmaInv /\ PlaceInv /\ MoveInv /\ ContentInv
  BY <1>3, ArenaAssumption DEF DmaInv, PlaceInv, MoveInv, ContentInv, Moving
<1>5. MapsAgree
  <2>1. table = slotOf
    BY DEF Init
  <2>2. \A s \in Slots : s \in Experts /\ HomeSlot(s) = s
    BY Sizes DEF Slots, Experts, HomeSlot
  <2>3. \A e \in Experts : HomeSlot(e) # None => HomeSlot(e) = e /\ e \in Slots
    BY Sizes DEF Slots, Experts, HomeSlot
  <2>4. \A l \in Layers : \A e \in Experts : slotOf[l][e] = HomeSlot(e)
    BY DEF Init
  <2>5. \A l \in Layers : \A s \in Slots : owner[l][s] = s
    BY DEF Init
  <2> QED
    BY <2>1, <2>2, <2>3, <2>4, <2>5 DEF MapsAgree
<1>6. ProtectInv
  BY DEF Init, ProtectInv
<1> QED
  BY <1>1, <1>2, <1>4, <1>5, <1>6 DEF ArenaInv

LEMMA InvStep == ArenaInv /\ [Next]_vars => ArenaInv'
<1>1. CASE ArenaInv /\ Next
  <2>1. TypeOK'
    BY <1>1, TypeStep DEF ArenaInv
  <2>2. FlagInv' /\ DmaInv' /\ PlaceInv'
    BY <1>1, FlagStep, DmaStep, PlaceStep DEF ArenaInv
  <2>3. MapsAgree' /\ MoveInv' /\ ContentInv' /\ ProtectInv'
    BY <1>1, MapsStep, MoveStep, ContentStep, ProtectStep DEF ArenaInv
  <2> QED
    BY <2>1, <2>2, <2>3 DEF ArenaInv
<1>2. CASE ArenaInv /\ UNCHANGED vars
  <2>1. TypeOK'
    BY <1>2, TypeStep DEF ArenaInv
  <2>2. FlagInv' /\ DmaInv' /\ PlaceInv'
    BY <1>2 DEF ArenaInv, FlagInv, DmaInv, PlaceInv, Alone, Planned, Moving, vars, hostVars,
      gpuVars, flagVars, serverVars, arenaVars
  <2>3. MapsAgree' /\ MoveInv' /\ ContentInv' /\ ProtectInv'
    BY <1>2 DEF ArenaInv, MapsAgree, MoveInv, ContentInv, ProtectInv, MovesInto, Moving, vars,
      hostVars, gpuVars, flagVars, serverVars, arenaVars
  <2> QED
    BY <2>1, <2>2, <2>3 DEF ArenaInv
<1> QED
  BY <1>1, <1>2

(* The inductive invariant holds in every state of the arena.              *)
THEOREM ArenaInvariant == Spec => []ArenaInv
<1>1. Init => ArenaInv
  BY InvInit
<1>2. ArenaInv /\ [Next]_vars => ArenaInv'
  BY InvStep
<1> QED
  BY <1>1, <1>2, PTL DEF Spec

(* Slot map, owners and the table of the CPU kernels agree, move by move   *)
(* (dyn_promote).                                                          *)
THEOREM MapsAlwaysAgree == Spec => []MapsAgree
<1>1. ArenaInv => MapsAgree
  BY DEF ArenaInv
<1> QED
  BY <1>1, ArenaInvariant, PTL

(* The CPU kernels read an expert's own weights (compute_layer).           *)
THEOREM TableAlwaysExact == Spec => []TableExact
<1>1. ArenaInv => TableExact
  <2> SUFFICES ASSUME ArenaInv, server \notin {"copy", "copying", "update"},
                      NEW l \in Layers, NEW e \in Experts, table[l][e] # None
               PROVE  content[l][table[l][e]] = e
    BY DEF TableExact
  <2>1. content = owner
    BY DEF ArenaInv, ContentInv
  <2> QED
    BY <2>1 DEF ArenaInv, MapsAgree
<1> QED
  BY <1>1, ArenaInvariant, PTL

(* The DMAs of a prefill read what it was planned with (stream_v2.py,      *)
(* _State.plan, _issue).                                                   *)
THEOREM DmaAlwaysReadsPlanned == Spec => []DmaReadsPlanned
<1>1. ArenaInv => DmaReadsPlanned
  <2> SUFFICES ASSUME ArenaInv PROVE DmaReadsPlanned
    OBVIOUS
  <2>1. \A l \in Layers : content = owner => Good(l, slotOf[l])
    BY DEF ArenaInv, MapsAgree, Good
  <2>2. ASSUME NEW i \in DOMAIN dma PROVE Good(dma[i].layer, dma[i].row)
    <3>1. content = owner
      <4>1. dma # <<>>
        OBVIOUS
      <4> QED
        BY <4>1 DEF ArenaInv, DmaInv, ContentInv, Moving
    <3>2. dma[i].layer \in Layers /\ dma[i].row = slotOf[dma[i].layer]
      BY DmaTypes DEF ArenaInv, PlaceInv
    <3> QED
      BY <2>1, <3>1, <3>2
  <2>3. ASSUME host = "issue", NEW l \in issued + 1 .. NumLayers PROVE Good(l, snapshot[l])
    <3>1. content = owner
      BY <2>3 DEF ArenaInv, FlagInv, Alone, Planned, ContentInv
    <3>2. l \in Layers
      BY Sizes DEF ArenaInv, TypeOK, HostTypes, Layers
    <3>3. snapshot = slotOf
      BY <2>3 DEF ArenaInv, PlaceInv
    <3> QED
      BY <2>1, <3>1, <3>2, <3>3
  <2> QED
    BY <2>2, <2>3 DEF DmaReadsPlanned
<1> QED
  BY <1>1, ArenaInvariant, PTL

(* The addresses gpu_share reads hold the protected experts at every moment*)
(* (expert_store.gpu_addr).                                                *)
THEOREM ShareAlwaysStable == Spec => []ShareStable
<1>1. ArenaInv => ShareStable
  <2> SUFFICES ASSUME ArenaInv, NEW l \in Layers, NEW s \in Slots, s < Protect
               PROVE  content[l][s] = s
    BY DEF ShareStable, Slots, Experts
  <2>1. owner[l][s] = s
    BY DEF ArenaInv, ProtectInv
  <2>2. MovesInto(l, s) = {}
    BY Sizes DEF ArenaInv, MoveInv, MovesInto, Movable, Slots
  <2> QED
    BY <2>1, <2>2 DEF ArenaInv, ContentInv
<1> QED
  BY <1>1, ArenaInvariant, PTL

-----------------------------------------------------------------------------
(* The flags and the event implement the readers-writer resource.          *)

LEMMA SharingInit == Init => Sharing!Init
<1> SUFFICES ASSUME Init PROVE Sharing!Init
  OBVIOUS
<1>1. launched = 0 /\ server = "serve"
  BY DEF Init
<1>2. Reading = {}
  BY <1>1 DEF Reading
<1>3. Moving = FALSE
  BY <1>1 DEF Moving
<1> QED
  BY <1>2, <1>3 DEF Sharing!Init

(* Readers, by the generations on the copy stream.                         *)
Pending == {dma[i].gen : i \in DOMAIN dma}

LEMMA ReadingIs ==
  TypeOK /\ DmaInv => Reading = Pending \union (IF Planned THEN {launched} ELSE {})
<1> SUFFICES ASSUME TypeOK, DmaInv
             PROVE  Reading = Pending \union (IF Planned THEN {launched} ELSE {})
  OBVIOUS
<1>1. launched \in Nat /\ (Planned => launched \in 1 .. launched)
  BY DEF TypeOK, HostTypes, Planned, DmaInv
<1>2. \A i \in DOMAIN dma : dma[i].gen \in 1 .. launched
  BY DEF DmaInv
<1> QED
  BY <1>1, <1>2 DEF Reading, Pending, Planned

LEMMA ReadingNext ==
  (TypeOK /\ DmaInv => Reading = Pending \union (IF Planned THEN {launched} ELSE {}))'
BY ReadingIs, PTL

LEMMA SharingStep ==
  ASSUME ArenaInv, ArenaInv', Next PROVE [Sharing!Next]_(Sharing!vars)
<1>0. TypeOK /\ TypeOK' /\ FlagInv /\ DmaInv /\ DmaInv'
  BY DEF ArenaInv
<1>1. /\ Reading = Pending \union (IF Planned THEN {launched} ELSE {})
      /\ Reading' = Pending' \union (IF Planned' THEN {launched'} ELSE {})
  BY <1>0, ReadingIs, ReadingNext
<1>2. CASE UNCHANGED <<slotOf, Reading>> /\ (Moving' <=> Moving)
  <2>1. Moving' = Moving
    BY <1>2 DEF Moving
  <2>2. slotOf' = slotOf /\ Reading' = Reading
    BY <1>2
  <2>3. UNCHANGED Sharing!vars
    BY <2>1, <2>2, Zenon DEF Sharing!vars
  <2> QED
    BY <2>3
<1>3. CASE Host /\ ~AwaitPromotion /\ ~ClearActive
  <2>1. slotOf' = slotOf /\ server' = server
    <3>1. CASE LaunchDecode \/ LaunchChunk \/ BeginPrefill
      BY <3>1 DEF LaunchDecode, LaunchChunk, BeginPrefill, serverVars, arenaVars
    <3>2. CASE Plan \/ Issue \/ StoreEvent \/ StoreUsage
      BY <3>2 DEF Plan, Issue, StoreEvent, StoreUsage, serverVars, arenaVars
    <3> QED
      BY <1>3, <3>1, <3>2 DEF Host
  <2>2. CASE Issue
    <3>1. Planned /\ Planned' /\ launched' = launched
      BY <2>2 DEF Issue, Planned
    <3>2. \A g \in Pending' : g \in Pending \/ g = launched
      BY <2>2, <1>0, DmaAppend DEF Pending
    <3>3. \A g \in Pending : g \in Pending'
      BY <2>2, <1>0, DmaAppend DEF Pending
    <3>4. Reading' = Reading
      BY <1>1, <3>1, <3>2, <3>3
    <3> QED
      BY <1>2, <2>1, <3>4 DEF Moving
  <2>3. CASE ~Issue
    <3>1. dma' = dma /\ (Planned' <=> Planned) /\ (Planned => launched' = launched)
      BY <1>3, <2>3 DEF Host, LaunchDecode, LaunchChunk, BeginPrefill, Plan, StoreEvent,
        StoreUsage, CanLaunch, Planned, gpuVars
    <3>2. Reading' = Reading
      BY <1>1, <3>1 DEF Pending
    <3> QED
      BY <1>2, <2>1, <3>2 DEF Moving
  <2> QED
    BY <2>2, <2>3
<1>4. CASE AwaitPromotion
  <2>1. /\ ~promoting /\ host = "wait" /\ host' = "plan" /\ UNCHANGED <<launched, dma, server, slotOf>>
    BY <1>4 DEF AwaitPromotion, gpuVars, serverVars, arenaVars
  <2>2. ~Moving /\ ~Moving'
    BY <1>0, <2>1 DEF FlagInv, Alone, Moving
  <2>3. Reading' = Reading \union {launched}
    BY <1>1, <2>1 DEF Planned, Pending
  <2>4. launched \in 1 .. MaxForwards
    BY <1>0, <2>1, ArenaAssumption DEF DmaInv, TypeOK, HostTypes
  <2>5. Sharing!StartRead
    BY <2>1, <2>2, <2>3, <2>4 DEF Sharing!StartRead, Moving
  <2> QED
    BY <2>5 DEF Sharing!Next
<1>5. CASE ClearActive
  <2>1. host = "active" /\ host' = "usage" /\ UNCHANGED <<launched, dma, server, slotOf>>
    BY <1>5 DEF ClearActive, gpuVars, serverVars, arenaVars
  <2>2. Reading = Pending \union {launched} /\ Reading' = Pending
    BY <1>1, <2>1 DEF Planned, Pending
  <2>3. CASE launched \in Pending
    BY <1>2, <2>1, <2>2, <2>3 DEF Moving
  <2>4. CASE launched \notin Pending
    <3>1. launched \in Reading /\ Reading' = Reading \ {launched}
      BY <2>2, <2>4
    <3>2. Sharing!EndRead
      BY <2>1, <3>1 DEF Sharing!EndRead, Moving
    <3> QED
      BY <3>2 DEF Sharing!Next
  <2> QED
    BY <2>3, <2>4
<1>6. CASE Transfer
  <2>1. UNCHANGED <<host, launched, server, slotOf>>
    BY <1>6 DEF Transfer, hostVars, serverVars, arenaVars
  <2> DEFINE g == dma[1].gen
  <2>2. g \in Pending /\ Pending' \subseteq Pending /\ Pending \subseteq Pending' \union {g}
    BY <1>0, <1>6, DmaTail DEF Pending
  <2>3. Planned' <=> Planned
    BY <2>1 DEF Planned
  <2> HIDE DEF g
  <2>4. Reading' = Reading \/ (g \in Reading /\ Reading' = Reading \ {g})
    BY <1>1, <2>1, <2>2, <2>3
  <2>5. CASE Reading' = Reading
    BY <1>2, <2>1, <2>5 DEF Moving
  <2>6. CASE g \in Reading /\ Reading' = Reading \ {g}
    <3>1. Sharing!EndRead
      BY <2>1, <2>6 DEF Sharing!EndRead, Moving
    <3> QED
      BY <3>1 DEF Sharing!Next
  <2> QED
    BY <2>4, <2>5, <2>6
<1>7. CASE FinishPrefill
  <2>1. UNCHANGED <<host, launched, dma, server, slotOf>>
    BY <1>7 DEF FinishPrefill, hostVars, serverVars, arenaVars
  <2>2. Reading' = Reading
    BY <2>1 DEF Reading
  <2> QED
    BY <1>2, <2>1, <2>2 DEF Moving
<1>8. CASE Server
  <2>1. UNCHANGED <<host, launched, dma>>
    BY <1>8 DEF Server, ServeDecode, ServeChunk, LoadUsage, TakeHints, Raise, CheckActive,
      CheckEvent, Select, EndSelect, StartCopy, EndCopy, Update, Lower, hostVars, gpuVars
  <2>2. Reading' = Reading
    BY <2>1 DEF Reading
  <2>3. CASE Update
    <3>1. Moving /\ Moving'
      BY <2>3 DEF Update, Moving
    <3>2. Sharing!Write
      BY <2>2, <3>1 DEF Sharing!Write, Moving
    <3> QED
      BY <3>2 DEF Sharing!Next
  <2>4. CASE ~Update
    <3>1. slotOf' = slotOf
      BY <2>4, PlacesKept
    <3>2. CASE Moving' <=> Moving
      BY <1>2, <2>2, <3>1, <3>2
    <3>3. CASE Moving /\ ~Moving'
      <4>1. Sharing!EndWrite
        BY <2>2, <3>1, <3>3 DEF Sharing!EndWrite, Moving
      <4> QED
        BY <4>1 DEF Sharing!Next
    <3>4. CASE ~Moving /\ Moving'
      <4>1. CheckEvent /\ server = "event"
        BY <1>8, <3>4 DEF Server, ServeDecode, ServeChunk, LoadUsage, TakeHints, Raise,
          CheckActive, GiveUp, CheckEvent, Select, EndSelect, StartCopy, EndCopy, Update,
          Lower, Moving, serverVars
      <4>2. dma = <<>> /\ ~Planned
        BY <1>0, <2>1, <3>4, <4>1 DEF DmaInv, FlagInv, Alone
      <4>3. Reading = {}
        BY <1>1, <4>2 DEF Pending
      <4>4. Sharing!StartWrite
        BY <2>2, <3>1, <3>4, <4>3 DEF Sharing!StartWrite, Moving
      <4> QED
        BY <4>4 DEF Sharing!Next
    <3> QED
      BY <3>2, <3>3, <3>4
  <2> QED
    BY <2>3, <2>4
<1> QED
  BY <1>3, <1>4, <1>5, <1>6, <1>7, <1>8 DEF Next, Host, Gpu

(* Promotions and prefills share the arena as ArenaSharing allows          *)
(* (arena_begin_prefill, arena_end_prefill, dyn_promote).                  *)
THEOREM SharingImplemented == Spec => ImplementsSharing
<1>1. Init => Sharing!Init
  BY SharingInit
<1>2. ArenaInv /\ ArenaInv' /\ [Next]_vars => [Sharing!Next]_(Sharing!vars)
  <2>1. CASE Next
    BY <2>1, SharingStep
  <2>2. CASE UNCHANGED vars
    BY <2>2 DEF vars, hostVars, gpuVars, flagVars, serverVars, arenaVars, Sharing!vars,
      Reading, Moving
  <2> QED
    BY <2>1, <2>2
<1> QED
  BY <1>1, <1>2, ArenaInvariant, PTL DEF Spec, ImplementsSharing, Sharing!Spec
=============================================================================
