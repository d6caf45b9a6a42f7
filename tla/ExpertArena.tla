---------------------------- MODULE ExpertArena ----------------------------
(***************************************************************************)
(* The dynamic expert arena of one rank (compressed_tensors_moe/           *)
(* cpu_moe.cpp, expert_store.py, stream_v2.py).                            *)
(*                                                                         *)
(* Each layer keeps its best-ranked cold experts in slots of page-locked   *)
(* memory (the arena); the others (the tail) are read through a file       *)
(* mapping.  The CPU expert server answers the decode requests of the GPU, *)
(* stamps the arena experts they use and, after a step's last layer,       *)
(* promotes tail experts into the least recently used slots.  A long       *)
(* prefill instead copies all experts to the GPU by DMA, from the places   *)
(* it has read at its start.  Two flags and a CUDA event keep the two      *)
(* apart:                                                                  *)
(*                                                                         *)
(*   host            active := 1; wait for promoting = 0; read the places; *)
(*                   enqueue the DMAs; event := ...; active := 0           *)
(*   server thread   promoting := 1; if active or the event is not done,   *)
(*                   give up; move experts; promoting := 0                 *)
(*                                                                         *)
(* Processes: the host thread that launches forwards, the compute stream   *)
(* of the GPU, its copy stream, and the server thread.                     *)
(*                                                                         *)
(* The cold experts of a layer are numbered by their rank, the slots of a  *)
(* layer by the expert they hold at the start.                             *)
(***************************************************************************)
EXTENDS Integers, FiniteSets, Sequences

CONSTANTS
  NumLayers,
  NumExperts,    \* cold experts of a layer
  PerLayer,      \* arena slots of a layer
  Protect,       \* best-ranked experts that are never moved
  PerStep,       \* promotions of one decode step
  HintPerLayer,  \* hints a prefill leaves per layer
  Boost,         \* hints that may be added to a step's promotions
  Depth,         \* forwards launched and not yet executed
  MaxForwards    \* bound on the number of forwards

ASSUME ArenaAssumption ==
  /\ {NumLayers, NumExperts, PerLayer, PerStep, Depth} \subseteq Nat \ {0}
  /\ {Protect, HintPerLayer, Boost, MaxForwards} \subseteq Nat
  /\ PerLayer <= NumExperts

Layers  == 1 .. NumLayers
Experts == 0 .. NumExperts - 1
Slots   == 0 .. PerLayer - 1
None    == -1                     \* no slot, or no whole expert
Pairs   == Layers \X Experts

(* Layout: initial places, and the slots dyn_init leaves out of a layer's  *)
(* candidates for eviction.  Mutant: every slot may be evicted.            *)
HomeSlot(e) == IF e < PerLayer THEN e ELSE None
EverySlot == Slots
Movable == {s \in Slots : s >= Protect}

VARIABLES
  (* host thread *)
  host, launched, issued,
  snapshot,   \* the copy of slot_of the current prefill works with
  (* GPU *)
  compute,    \* forwards on the compute stream
  layer,      \* layer the first of them is at
  dma,        \* groups of experts on the copy stream
  (* shared atomics *)
  active, promoting, dmaEvent, usageEvent,
  (* server thread *)
  server, step, cand, hints, budget, moves,
  (* arena *)
  table,      \* what the CPU kernels read: a slot or the file mapping
  slotOf, owner, lastUse,
  content     \* the expert whose bytes a slot holds

hostVars   == <<host, launched, issued, snapshot>>
gpuVars    == <<compute, layer, dma>>
flagVars   == <<active, promoting, dmaEvent, usageEvent>>
serverVars == <<server, step, cand, hints, budget, moves>>
arenaVars  == <<table, slotOf, owner, lastUse, content>>
vars == <<hostVars, gpuVars, flagVars, serverVars, arenaVars>>

Init ==
  /\ host = "idle" /\ launched = 0 /\ issued = 0
  /\ snapshot = [l \in Layers |-> [e \in Experts |-> None]]
  /\ compute = <<>> /\ layer = 1 /\ dma = <<>>
  /\ active = FALSE /\ promoting = FALSE /\ dmaEvent = 0 /\ usageEvent = 0
  /\ server = "serve" /\ step = -1 /\ cand = <<>> /\ hints = <<>>
  /\ budget = 0 /\ moves = <<>>
  /\ slotOf = [l \in Layers |-> [e \in Experts |-> HomeSlot(e)]]
  /\ table = slotOf
  /\ owner = [l \in Layers |-> [s \in Slots |-> s]]
  /\ lastUse = [l \in Layers |-> [s \in Slots |-> -1 - s]]
  /\ content = owner

-----------------------------------------------------------------------------
(* The host thread launches forwards: decode steps, prefill chunks small   *)
(* enough for the CPU, and prefill steps that stream the experts.          *)

CanLaunch == host = "idle" /\ launched < MaxForwards /\ Len(compute) < Depth

LaunchDecode ==
  /\ CanLaunch
  /\ launched' = launched + 1
  /\ compute' = Append(compute, [kind |-> "decode", n |-> launched'])
  /\ UNCHANGED <<host, issued, snapshot, layer, dma, flagVars, serverVars, arenaVars>>

(* A chunk's routing counts are handed over before its last request.       *)
LaunchChunk ==
  /\ CanLaunch
  /\ launched' = launched + 1
  /\ compute' = Append(compute, [kind |-> "chunk", n |-> launched'])
  /\ usageEvent' = launched'
  /\ UNCHANGED <<host, issued, snapshot, layer, dma, active, promoting, dmaEvent,
                 serverVars, arenaVars>>

(* arena_begin_prefill.                                                    *)
BeginPrefill ==
  /\ CanLaunch
  /\ launched' = launched + 1
  /\ active' = TRUE
  /\ host' = "wait"
  /\ UNCHANGED <<issued, snapshot, gpuVars, promoting, dmaEvent, usageEvent, serverVars,
                 arenaVars>>

(* Mutant: it does not wait for a promotion in progress.                   *)
NoWait ==
  /\ host = "wait"
  /\ host' = "plan"
  /\ UNCHANGED <<launched, issued, snapshot, gpuVars, flagVars, serverVars, arenaVars>>
AwaitPromotion ==
  /\ host = "wait" /\ ~promoting
  /\ host' = "plan"
  /\ UNCHANGED <<launched, issued, snapshot, gpuVars, flagVars, serverVars, arenaVars>>

(* _State.plan.                                                            *)
Plan ==
  /\ host = "plan"
  /\ host' = "issue"
  /\ snapshot' = slotOf
  /\ issued' = 0
  /\ UNCHANGED <<launched, gpuVars, flagVars, serverVars, arenaVars>>

(* _State._issue: a layer's arena experts go on the copy stream.           *)
Issue ==
  /\ host = "issue" /\ issued < NumLayers
  /\ issued' = issued + 1
  /\ dma' = Append(dma, [gen |-> launched, layer |-> issued', row |-> snapshot[issued']])
  /\ host' = IF issued' = NumLayers THEN "event" ELSE "issue"
  /\ UNCHANGED <<launched, snapshot, compute, layer, flagVars, serverVars, arenaVars>>

(* arena_end_prefill: the event recorded after the last DMA, then the flag.*)
StoreEvent ==
  /\ host = "event"
  /\ dmaEvent' = launched
  /\ host' = "active"
  /\ UNCHANGED <<launched, issued, snapshot, gpuVars, active, promoting, usageEvent,
                 serverVars, arenaVars>>

ClearActive ==
  /\ host = "active"
  /\ active' = FALSE
  /\ host' = "usage"
  /\ UNCHANGED <<launched, issued, snapshot, gpuVars, promoting, dmaEvent, usageEvent,
                 serverVars, arenaVars>>

(* The forward is complete as far as the host is concerned.                *)
StoreUsage ==
  /\ host = "usage"
  /\ usageEvent' = launched
  /\ compute' = Append(compute, [kind |-> "prefill", n |-> launched])
  /\ host' = "idle"
  /\ UNCHANGED <<launched, issued, snapshot, layer, dma, active, promoting, dmaEvent,
                 serverVars, arenaVars>>

-----------------------------------------------------------------------------
(* The GPU.                                                                *)

(* Copy stream: in order.                                                  *)
Transfer ==
  /\ dma # <<>>
  /\ dma' = Tail(dma)
  /\ UNCHANGED <<hostVars, compute, layer, flagVars, serverVars, arenaVars>>

DmaDone(g) == \A i \in DOMAIN dma : dma[i].gen > g

(* Compute stream: a prefill's layers wait for their experts.              *)
FinishPrefill ==
  /\ compute # <<>>
  /\ Head(compute).kind = "prefill" /\ DmaDone(Head(compute).n)
  /\ compute' = Tail(compute)
  /\ UNCHANGED <<hostVars, layer, dma, flagVars, serverVars, arenaVars>>

UsageDone(n) ==
  \A i \in DOMAIN compute :
    \/ compute[i].n > n
    \/ (compute[i].n = n /\ compute[i].kind = "chunk" /\ layer = NumLayers)

-----------------------------------------------------------------------------
(* The server thread.                                                      *)

(* Mutant: the layer after the last one.                                   *)
AdvancePast ==
  IF layer > NumLayers
    THEN layer' = 1 /\ compute' = Tail(compute)
    ELSE layer' = layer + 1 /\ UNCHANGED compute
Advance ==
  IF layer = NumLayers
    THEN layer' = 1 /\ compute' = Tail(compute)
    ELSE layer' = layer + 1 /\ UNCHANGED compute

(* The sequences that list each element of a set once.                     *)
Orderings(S) ==
  {f \in [1 .. Cardinality(S) -> S] : \A i, j \in DOMAIN f : f[i] = f[j] => i = j}

(* A decode request of one layer is answered, then noted (dyn_note): the   *)
(* arena experts it uses are stamped, the others become candidates.        *)
ServeDecode ==
  /\ server = "serve" /\ compute # <<>> /\ Head(compute).kind = "decode"
  /\ step' = Head(compute).n
  /\ \E used \in SUBSET Experts :
       LET missing == {e \in used : slotOf[layer][e] = None}
       IN  /\ lastUse' = [lastUse EXCEPT ![layer] =
                [s \in Slots |-> IF \E e \in used : slotOf[layer][e] = s THEN step' ELSE @[s]]]
           /\ \E order \in Orderings(missing) :
                cand' = cand \o [i \in DOMAIN order |-> <<layer, order[i]>>]
  /\ server' = IF layer = NumLayers THEN "hints" ELSE "serve"
  /\ Advance
  /\ UNCHANGED <<hostVars, dma, flagVars, hints, budget, moves, table, slotOf, owner, content>>

(* A chunk's request only reads the table.                                 *)
ServeChunk ==
  /\ server = "serve" /\ compute # <<>> /\ Head(compute).kind = "chunk"
  /\ Advance
  /\ UNCHANGED <<hostVars, dma, flagVars, serverVars, arenaVars>>

(* dyn_take_hints: tail experts the last prefills have used, layer by      *)
(* layer.                                                                  *)
HintLists ==
  {h \in UNION {[1 .. k -> Pairs] : k \in 0 .. NumLayers * HintPerLayer} :
     /\ \A i \in DOMAIN h : slotOf[h[i][1]][h[i][2]] = None
     /\ \A i, j \in DOMAIN h : i < j => h[i] # h[j] /\ h[i][1] <= h[j][1]
     /\ \A l \in Layers : Cardinality({i \in DOMAIN h : h[i][1] = l}) <= HintPerLayer}

LoadUsage ==
  /\ server = "hints"
  /\ server' = IF usageEvent # 0 /\ UsageDone(usageEvent) THEN "take"
               ELSE IF cand = <<>> /\ hints = <<>> THEN "serve" ELSE "raise"
  /\ UNCHANGED <<hostVars, gpuVars, flagVars, step, cand, hints, budget, moves, arenaVars>>

TakeHints ==
  /\ server = "take"
  /\ usageEvent' = 0
  /\ hints' \in HintLists
  /\ server' = IF cand = <<>> /\ hints' = <<>> THEN "serve" ELSE "raise"
  /\ UNCHANGED <<hostVars, gpuVars, active, promoting, dmaEvent, step, cand, budget, moves,
                 arenaVars>>

(* dyn_promote.                                                            *)
Raise ==
  /\ server = "raise"
  /\ promoting' = TRUE
  /\ server' = "active"
  /\ UNCHANGED <<hostVars, gpuVars, active, dmaEvent, usageEvent, step, cand, hints, budget,
                 moves, arenaVars>>

(* Giving up drops the candidates; the hints stay.                         *)
GiveUp ==
  /\ cand' = <<>>
  /\ server' = "lower"
  /\ UNCHANGED <<hints, budget, moves>>

CheckActive ==
  /\ server = "active"
  /\ IF active THEN GiveUp
     ELSE server' = "event" /\ UNCHANGED <<cand, hints, budget, moves>>
  /\ UNCHANGED <<hostVars, gpuVars, flagVars, step, arenaVars>>

(* Hints first, with a budget of their own.                                *)
Merge ==
  LET nh == IF Len(hints) < Boost THEN Len(hints) ELSE Boost
  IN  /\ cand' = SubSeq(hints, 1, nh) \o cand
      /\ hints' = SubSeq(hints, nh + 1, Len(hints))
      /\ budget' = PerStep + nh
      /\ moves' = <<>>
      /\ server' = "select"

(* Mutant: the event is not looked at.                                     *)
EventIgnored ==
  /\ server = "event"
  /\ Merge
  /\ UNCHANGED <<hostVars, gpuVars, flagVars, step, arenaVars>>
CheckEvent ==
  /\ server = "event"
  /\ IF dmaEvent = 0 \/ DmaDone(dmaEvent) THEN Merge ELSE GiveUp
  /\ UNCHANGED <<hostVars, gpuVars, flagVars, step, arenaVars>>

(* The least recently used slot of a layer, of those not used in this step.*)
Victims(l) ==
  {s \in Movable : /\ lastUse[l][s] < step
                   /\ \A r \in Movable :
                        \/ lastUse[l][s] < lastUse[l][r]
                        \/ lastUse[l][s] = lastUse[l][r] /\ s <= r}

Chosen(l, e) == \E i \in DOMAIN moves : moves[i].l = l /\ moves[i].e = e

(* Mutant: an expert named twice is promoted twice.                        *)
SelectTwice ==
  /\ server = "select" /\ cand # <<>> /\ Len(moves) < budget
  /\ LET l == Head(cand)[1]
         e == Head(cand)[2]
     IN  IF slotOf[l][e] # None \/ Victims(l) = {}
           THEN UNCHANGED <<moves, lastUse>>
           ELSE \E s \in Victims(l) :
                  /\ lastUse' = [lastUse EXCEPT ![l][s] = step]
                  /\ moves' = Append(moves, [l |-> l, e |-> e, slot |-> s, victim |-> owner[l][s]])
  /\ cand' = Tail(cand)
  /\ UNCHANGED <<hostVars, gpuVars, flagVars, server, step, hints, budget, table, slotOf,
                 owner, content>>
Select ==
  /\ server = "select" /\ cand # <<>> /\ Len(moves) < budget
  /\ LET l == Head(cand)[1]
         e == Head(cand)[2]
     IN  IF slotOf[l][e] # None \/ Chosen(l, e) \/ Victims(l) = {}
           THEN UNCHANGED <<moves, lastUse>>
           ELSE \E s \in Victims(l) :
                  /\ lastUse' = [lastUse EXCEPT ![l][s] = step]
                  /\ moves' = Append(moves, [l |-> l, e |-> e, slot |-> s, victim |-> owner[l][s]])
  /\ cand' = Tail(cand)
  /\ UNCHANGED <<hostVars, gpuVars, flagVars, server, step, hints, budget, table, slotOf,
                 owner, content>>

EndSelect ==
  /\ server = "select" /\ (cand = <<>> \/ Len(moves) >= budget)
  /\ cand' = <<>>
  /\ server' = IF moves = <<>> THEN "lower" ELSE "copy"
  /\ UNCHANGED <<hostVars, gpuVars, flagVars, step, hints, budget, moves, arenaVars>>

(* The pool's threads copy the experts' parts into the slots, in any order.*)
MovesInto(l, s) == {i \in DOMAIN moves : moves[i].l = l /\ moves[i].slot = s}
Incoming(l, s) == moves[CHOOSE i \in MovesInto(l, s) : TRUE].e

StartCopy ==
  /\ server = "copy"
  /\ content' = [l \in Layers |-> [s \in Slots |->
       IF MovesInto(l, s) = {} THEN content[l][s] ELSE None]]
  /\ server' = "copying"
  /\ UNCHANGED <<hostVars, gpuVars, flagVars, step, cand, hints, budget, moves, table,
                 slotOf, owner, lastUse>>

EndCopy ==
  /\ server = "copying"
  /\ content' = [l \in Layers |-> [s \in Slots |->
       IF MovesInto(l, s) = {} THEN content[l][s] ELSE Incoming(l, s)]]
  /\ server' = "update"
  /\ UNCHANGED <<hostVars, gpuVars, flagVars, step, cand, hints, budget, moves, table,
                 slotOf, owner, lastUse>>

(* The maps, one move after the other.  Mutant: the evicted expert keeps   *)
(* its table entry.                                                        *)
KeepEvicted ==
  /\ server = "update" /\ moves # <<>>
  /\ LET m == Head(moves)
     IN  /\ table' = [table EXCEPT ![m.l][m.e] = m.slot]
         /\ slotOf' = [slotOf EXCEPT ![m.l] = [@ EXCEPT ![m.victim] = None, ![m.e] = m.slot]]
         /\ owner' = [owner EXCEPT ![m.l][m.slot] = m.e]
  /\ moves' = Tail(moves)
  /\ UNCHANGED <<hostVars, gpuVars, flagVars, server, step, cand, hints, budget, lastUse,
                 content>>
Update ==
  /\ server = "update" /\ moves # <<>>
  /\ LET m == Head(moves)
     IN  /\ table' = [table EXCEPT ![m.l] = [@ EXCEPT ![m.victim] = None, ![m.e] = m.slot]]
         /\ slotOf' = [slotOf EXCEPT ![m.l] = [@ EXCEPT ![m.victim] = None, ![m.e] = m.slot]]
         /\ owner' = [owner EXCEPT ![m.l][m.slot] = m.e]
  /\ moves' = Tail(moves)
  /\ UNCHANGED <<hostVars, gpuVars, flagVars, server, step, cand, hints, budget, lastUse,
                 content>>

(* Mutant: the flag stays raised.                                          *)
StayRaised ==
  /\ server = "lower" \/ (server = "update" /\ moves = <<>>)
  /\ server' = "serve"
  /\ UNCHANGED <<hostVars, gpuVars, flagVars, step, cand, hints, budget, moves, arenaVars>>
Lower ==
  /\ server = "lower" \/ (server = "update" /\ moves = <<>>)
  /\ promoting' = FALSE
  /\ server' = "serve"
  /\ UNCHANGED <<hostVars, gpuVars, active, dmaEvent, usageEvent, step, cand, hints, budget,
                 moves, arenaVars>>

-----------------------------------------------------------------------------
Host ==
  \/ LaunchDecode \/ LaunchChunk
  \/ BeginPrefill \/ AwaitPromotion \/ Plan \/ Issue \/ StoreEvent \/ ClearActive \/ StoreUsage

Gpu == Transfer \/ FinishPrefill

Server ==
  \/ ServeDecode \/ ServeChunk
  \/ LoadUsage \/ TakeHints \/ Raise \/ CheckActive \/ CheckEvent
  \/ Select \/ EndSelect \/ StartCopy \/ EndCopy \/ Update \/ Lower

Next == Host \/ Gpu \/ Server

Spec == Init /\ [][Next]_vars

(* The server thread polls, the copy stream runs what it is given, the     *)
(* host finishes a forward it has begun.                                   *)
FairSpec == Spec /\ WF_vars(Server) /\ WF_vars(Gpu) /\ WF_vars(Host)

-----------------------------------------------------------------------------
(* Properties.                                                             *)

Rows == [Experts -> Slots \union {None}]
Moves == [l : Layers, e : Experts, slot : Slots, victim : Experts]

HostTypes ==
  /\ host \in {"idle", "wait", "plan", "issue", "event", "active", "usage"}
  /\ launched \in Nat /\ issued \in 0 .. NumLayers
  /\ snapshot \in [Layers -> Rows]
GpuTypes ==
  /\ compute \in Seq([kind : {"decode", "chunk", "prefill"}, n : Nat])
  /\ layer \in Layers
  /\ dma \in Seq([gen : Nat, layer : Layers, row : Rows])
FlagTypes ==
  /\ active \in BOOLEAN /\ promoting \in BOOLEAN
  /\ dmaEvent \in Nat /\ usageEvent \in Nat
ServerTypes ==
  /\ server \in {"serve", "hints", "take", "raise", "active", "event", "select", "copy",
                 "copying", "update", "lower"}
  /\ step \in Int /\ budget \in Nat
  /\ cand \in Seq(Pairs) /\ hints \in Seq(Pairs) /\ moves \in Seq(Moves)
ArenaTypes ==
  /\ table \in [Layers -> Rows] /\ slotOf \in [Layers -> Rows]
  /\ owner \in [Layers -> [Slots -> Experts]]
  /\ lastUse \in [Layers -> [Slots -> Int]]
  /\ content \in [Layers -> [Slots -> Experts \union {None}]]

(* Types of the whole state.                                               *)
TypeOK == HostTypes /\ GpuTypes /\ FlagTypes /\ ServerTypes /\ ArenaTypes

(* Each layer's slot map and owners stay inverse to each other, move by    *)
(* move: no expert has two slots, no slot two experts, and the number of   *)
(* arena experts never changes (dyn_promote).                              *)
MapsAgree ==
  \A l \in Layers :
    /\ table[l] = slotOf[l]
    /\ \A s \in Slots : slotOf[l][owner[l][s]] = s
    /\ \A e \in Experts : slotOf[l][e] # None => owner[l][slotOf[l][e]] = e

(* The CPU kernels compute an expert with that expert's weights: an address*)
(* in the table is that of a slot with exactly its bytes (compute_layer).  *)
TableExact ==
  server \in {"serve", "hints", "take", "raise", "active", "event", "select", "lower"} =>
    \A l \in Layers : \A e \in Experts :
      table[l][e] # None => content[l][table[l][e]] = e

(* A row of places is good while its slots hold what the row says.         *)
Good(l, row) == \A e \in Experts : row[e] # None => content[l][row[e]] = e

(* The DMAs of a prefill step, those on the stream and those to come, read *)
(* the experts the step was planned with, whole, however far the copy      *)
(* stream lags behind the host (stream_v2.py, _State.plan and _issue).     *)
DmaReadsPlanned ==
  /\ \A i \in DOMAIN dma : Good(dma[i].layer, dma[i].row)
  /\ host = "issue" => \A l \in issued + 1 .. NumLayers : Good(l, snapshot[l])

(* The addresses gpu_share reads over PCIe stay those of the protected     *)
(* experts at every moment, promotions included (expert_store.gpu_addr).   *)
ShareStable ==
  \A l \in Layers : \A e \in Slots : e < Protect => content[l][e] = e

(* From the check on, the server has the arena for itself.                 *)
Moving == server \in {"select", "copy", "copying", "update"}
Reading ==
  {g \in 1 .. launched : \/ g = launched /\ host \in {"plan", "issue", "event", "active"}
                         \/ \E i \in DOMAIN dma : dma[i].gen = g}

(* Experts move only while no prefill step reads their places or has a DMA *)
(* to come: the interlock implements ArenaSharing                          *)
(* (arena_begin_prefill, arena_end_prefill, dyn_promote).                  *)
Sharing == INSTANCE ArenaSharing
  WITH Steps <- 1 .. MaxForwards, places <- slotOf, readers <- Reading, writing <- Moving
ImplementsSharing == Sharing!Spec

(* A prefill step that waits for a promotion is let in, whatever the       *)
(* server is doing (arena_begin_prefill spins until promoting is 0).       *)
PrefillAdmitted == host = "wait" ~> host = "plan"
=============================================================================
