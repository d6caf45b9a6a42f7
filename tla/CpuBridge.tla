----------------------------- MODULE CpuBridge -----------------------------
(***************************************************************************)
(* The mailbox between the GPU and the CPU expert server of one rank       *)
(* (bridge_cuda.cu, cpu_moe.cpp start_server, cpu_experts.py).             *)
(*                                                                         *)
(* A forward's kernel writes a layer's tokens into a request slot in       *)
(* page-locked memory and publishes a sequence number last; the server     *)
(* thread polls the slots, computes, writes the response and publishes the *)
(* same number; a later kernel of the same stream waits for it and adds    *)
(* the response.  Decode steps have one slot per layer and run from a CUDA *)
(* graph; prefill chunks share one big slot for all layers.  The number is *)
(* made from a counter in GPU memory, which layer 0 advances, and the      *)
(* layer.                                                                  *)
(*                                                                         *)
(* After a decode answer is published the server reads the request's       *)
(* expert ids once more, to keep the arena's statistics (dyn_note).        *)
(*                                                                         *)
(* Calls are numbered; a payload is the number of its call.                *)
(*                                                                         *)
(* Proofs follow the properties: the mailbox implements ExpertCall, and    *)
(* the ids the server notes are those it answered, for any number of       *)
(* layers and forwards and any scaling of the sequence numbers that leaves *)
(* room for the layers.                                                    *)
(***************************************************************************)
EXTENDS Integers, TLAPS

CONSTANTS
  NumLayers,
  LayerBits,    \* sequence numbers per counter value (64)
  MaxForwards   \* bound on the number of forwards

(* What the constants may be.                                              *)
BridgeAssumption ==
  /\ NumLayers \in Nat \ {0, 1}
  /\ LayerBits \in Nat /\ NumLayers <= LayerBits
  /\ MaxForwards \in Nat

Layers == 0 .. NumLayers - 1
Big    == NumLayers                 \* the big slot
Kinds  == {"decode", "big"}

VARIABLES
  (* GPU stream *)
  gpc, kind, layer, forwards, counter,
  call,      \* number of the last call submitted
  calls,     \* calls returned
  result,    \* the call the last answer was for
  (* shared memory *)
  reqSeq, reqCall, respSeq, respCall,
  (* server thread *)
  spc, seen, slot,
  answered,  \* call computed last
  noted      \* call whose ids were noted last

gpuVars    == <<gpc, kind, layer, forwards, counter, call, calls, result>>
memVars    == <<reqSeq, reqCall, respSeq, respCall>>
serverVars == <<spc, seen, slot, answered, noted>>
vars == <<gpuVars, memVars, serverVars>>

Slots == 0 .. NumLayers

(* The slot of a layer's requests.  Mutant: decode layers share a slot too.*)
OneSlot(k, l) == IF k = "decode" THEN 0 ELSE Big
SlotOf(k, l) == IF k = "decode" THEN l ELSE Big

(* The sequence number.  Mutant: the counter is not scaled.                *)
Unscaled(c, l) == c + l
SeqOf(c, l) == c * LayerBits + l

Init ==
  /\ gpc = "start" /\ kind = "decode" /\ layer = 0 /\ forwards = 0 /\ counter = 0
  /\ call = 0 /\ calls = 0 /\ result = 0
  /\ reqSeq = [s \in Slots |-> 0] /\ reqCall = [s \in Slots |-> 0]
  /\ respSeq = [s \in Slots |-> 0] /\ respCall = [s \in Slots |-> 0]
  /\ spc = "poll" /\ seen = [s \in Slots |-> 0] /\ slot = 0 /\ answered = 0 /\ noted = 0

-----------------------------------------------------------------------------
(* The GPU stream.                                                         *)

Here == SlotOf(kind, layer)

(* A forward is launched: a decode step or a prefill chunk.                *)
Start ==
  /\ gpc = "start" /\ forwards < MaxForwards
  /\ forwards' = forwards + 1
  /\ kind' \in Kinds
  /\ layer' = 0
  /\ gpc' = "write"
  /\ UNCHANGED <<counter, call, calls, result, memVars, serverVars>>

(* submit_kernel, submit_big_copy_kernel: the payload.                     *)
Write ==
  /\ gpc = "write"
  /\ call' = call + 1
  /\ reqCall' = [reqCall EXCEPT ![Here] = call']
  /\ gpc' = "publish"
  /\ UNCHANGED <<kind, layer, forwards, counter, calls, result, reqSeq, respSeq, respCall,
                 serverVars>>

(* The counter advances at layer 0; the number is stored last.  Mutant: it *)
(* is made before the counter advances.                                    *)
PublishOld ==
  /\ gpc = "publish"
  /\ counter' = IF layer = 0 THEN counter + 1 ELSE counter
  /\ reqSeq' = [reqSeq EXCEPT ![Here] = SeqOf(counter, layer)]
  /\ gpc' = "wait"
  /\ UNCHANGED <<kind, layer, forwards, call, calls, result, reqCall, respSeq, respCall,
                 serverVars>>
Publish ==
  /\ gpc = "publish"
  /\ counter' = IF layer = 0 THEN counter + 1 ELSE counter
  /\ reqSeq' = [reqSeq EXCEPT ![Here] = SeqOf(counter', layer)]
  /\ gpc' = "wait"
  /\ UNCHANGED <<kind, layer, forwards, call, calls, result, reqCall, respSeq, respCall,
                 serverVars>>

(* wait_add_kernel, wait_kernel.                                           *)
Wait ==
  /\ gpc = "wait"
  /\ respSeq[Here] = SeqOf(counter, layer)
  /\ gpc' = "add"
  /\ UNCHANGED <<kind, layer, forwards, counter, call, calls, result, memVars, serverVars>>

Add ==
  /\ gpc = "add"
  /\ result' = respCall[Here]
  /\ calls' = calls + 1
  /\ IF layer = NumLayers - 1
       THEN gpc' = "start" /\ UNCHANGED layer
       ELSE gpc' = "write" /\ layer' = layer + 1
  /\ UNCHANGED <<kind, forwards, counter, call, memVars, serverVars>>

-----------------------------------------------------------------------------
(* The server thread.                                                      *)

Poll(s) ==
  /\ spc = "poll" /\ reqSeq[s] # seen[s]
  /\ seen' = [seen EXCEPT ![s] = reqSeq[s]]
  /\ slot' = s
  /\ spc' = "compute"
  /\ UNCHANGED <<gpuVars, memVars, answered, noted>>

Compute ==
  /\ spc = "compute"
  /\ respCall' = [respCall EXCEPT ![slot] = reqCall[slot]]
  /\ answered' = reqCall[slot]
  /\ spc' = "respond"
  /\ UNCHANGED <<gpuVars, reqSeq, reqCall, respSeq, seen, slot, noted>>

(* The number read by Poll is the one published, after the response.       *)
Respond ==
  /\ spc = "respond"
  /\ respSeq' = [respSeq EXCEPT ![slot] = seen[slot]]
  /\ spc' = IF slot = Big THEN "poll" ELSE "note"
  /\ UNCHANGED <<gpuVars, reqSeq, reqCall, respCall, seen, slot, answered, noted>>

Note ==
  /\ spc = "note"
  /\ noted' = reqCall[slot]
  /\ spc' = "poll"
  /\ UNCHANGED <<gpuVars, memVars, seen, slot, answered>>

Gpu    == Start \/ Write \/ Publish \/ Wait \/ Add
Server == (\E s \in Slots : Poll(s)) \/ Compute \/ Respond \/ Note

Next == Gpu \/ Server

Spec == Init /\ [][Next]_vars

(* The stream runs what it holds, the server thread polls.                 *)
FairSpec == Spec /\ WF_vars(gpc # "start" /\ Gpu) /\ WF_vars(Server)

-----------------------------------------------------------------------------
(* At most one request is open, and its number is one behind which the     *)
(* server is or has been.                                                  *)
TypeOK ==
  /\ gpc \in {"start", "write", "publish", "wait", "add"} /\ kind \in Kinds /\ layer \in Layers
  /\ spc \in {"poll", "compute", "respond", "note"} /\ slot \in Slots
  /\ forwards \in 0 .. MaxForwards /\ counter \in 0 .. forwards
  /\ calls \in {call, call - 1} /\ answered <= call /\ noted <= answered
  /\ \A s \in Slots : respSeq[s] <= seen[s] /\ seen[s] <= reqSeq[s]

(* The bridge implements ExpertCall: whatever a layer adds is the answer   *)
(* to its own request, never an earlier layer's or step's that is still in *)
(* the slot (wait_add_kernel, add_f32_kernel).                             *)
Call == INSTANCE ExpertCall WITH calls <- calls, result <- result
ImplementsExpertCall == Call!Spec

(* The ids the server notes after it has answered are those it answered:   *)
(* the GPU, which may go on at once, does not come back to the slot before *)
(* they have been read (start_server, dyn_note).                           *)
NotedIntact == [][noted' # noted => noted' = answered]_vars

(* No request stays unanswered.                                            *)
Answered == gpc = "wait" ~> gpc = "add"

-----------------------------------------------------------------------------
(* Proofs.  At most one request is open, in the slot of the layer the      *)
(* stream waits at (Here).  Its number is above every other in the         *)
(* mailbox, because numbers grow with the counter and the layer, so no     *)
(* answer left over from an earlier call can pass for its answer.          *)

(* The number of the last request, and a bound on the number of the next.  *)
Now == SeqOf(counter, layer)
Coming == IF layer = 0 \/ gpc = "start" THEN SeqOf(counter + 1, 0) ELSE Now

Idle == {"poll", "note"}

BridgeTyped ==
  /\ gpc \in {"start", "write", "publish", "wait", "add"} /\ kind \in Kinds /\ layer \in Layers
  /\ spc \in {"poll", "compute", "respond", "note"} /\ slot \in Slots
  /\ {forwards, counter, call, calls, result, answered, noted} \subseteq Int /\ counter \in Nat
  /\ reqSeq \in [Slots -> Nat] /\ respSeq \in [Slots -> Nat] /\ seen \in [Slots -> Nat]
  /\ reqCall \in [Slots -> Int] /\ respCall \in [Slots -> Int]

(* Published numbers are below the next one.                               *)
Numbers ==
  /\ gpc \in {"start", "write", "publish"} => \A s \in Slots : reqSeq[s] < Coming
  /\ gpc \in {"wait", "add"} => reqSeq[Here] = Now /\ \A s \in Slots : reqSeq[s] <= Now

(* Every slot but the open one has been seen and answered; the open one    *)
(* has not been seen, or is being answered, or has been.                   *)
Settled(s) == seen[s] = reqSeq[s] /\ respSeq[s] = reqSeq[s]
Unseen   == seen[Here] < Now /\ respSeq[Here] < Now /\ spc \in Idle
InWork   == seen[Here] = Now /\ respSeq[Here] < Now /\ spc \in {"compute", "respond"} /\ slot = Here
Done     == seen[Here] = Now /\ respSeq[Here] = Now /\ spc \in Idle

Served ==
  /\ \A s \in Slots : Settled(s) \/ (gpc = "wait" /\ s = Here)
  /\ gpc = "wait" => Unseen \/ InWork \/ Done
  /\ gpc # "wait" => spc \in Idle

(* What the slots carry.                                                   *)
Payloads ==
  /\ gpc \in {"publish", "wait", "add"} => reqCall[Here] = call
  /\ calls = IF gpc \in {"start", "write"} THEN call ELSE call - 1
  /\ spc = "respond" => respCall[Here] = call /\ answered = call
  /\ (gpc = "wait" /\ respSeq[Here] = Now) \/ gpc = "add" => respCall[Here] = call

(* While the server notes ids the stream can have reached the next layer,  *)
(* or the next forward's first, and no further.                            *)
Behind == IF layer = 0 THEN slot = NumLayers - 1 ELSE kind = "decode" /\ slot = layer - 1
Noting ==
  spc = "note" =>
    /\ reqCall[slot] = answered /\ slot \in Layers
    /\ gpc = "add" => slot = Here
    /\ gpc = "wait" => IF respSeq[Here] = Now THEN slot = Here ELSE Behind
    /\ gpc = "start" => slot = NumLayers - 1
    /\ gpc \in {"write", "publish"} => Behind

BridgeInv == BridgeTyped /\ Numbers /\ Served /\ Payloads /\ Noting

-----------------------------------------------------------------------------
(* Sequence numbers grow with the layer and with the counter.              *)
LEMMA SeqType == ASSUME BridgeAssumption, NEW c \in Nat, NEW l \in Layers PROVE SeqOf(c, l) \in Nat
<1>1. l \in Nat /\ LayerBits \in Nat
  BY DEF BridgeAssumption, Layers
<1>2. c * LayerBits \in Nat
  BY <1>1
<1> QED
  BY <1>1, <1>2 DEF SeqOf

LEMMA SeqGrows ==
  ASSUME BridgeAssumption, NEW c \in Nat, NEW l \in Layers
  PROVE  /\ SeqOf(c, l) < SeqOf(c + 1, 0)
         /\ l + 1 \in Layers => SeqOf(c, l) < SeqOf(c, l + 1)
<1>1. l \in Nat /\ LayerBits \in Nat /\ l < LayerBits
  BY DEF BridgeAssumption, Layers
<1>2. c * LayerBits \in Nat /\ (c + 1) * LayerBits = c * LayerBits + LayerBits
  BY <1>1
<1> QED
  BY <1>1, <1>2 DEF SeqOf

LEMMA Places ==
  ASSUME BridgeAssumption
  PROVE  /\ NumLayers \in Nat /\ NumLayers > 1 /\ 0 \in Layers /\ Big \in Slots
         /\ Layers \subseteq Slots /\ Layers \subseteq Nat
         /\ \A l \in Layers : l < NumLayers /\ l # Big
         /\ \A l \in Layers : l # NumLayers - 1 => l + 1 \in Layers
BY DEF BridgeAssumption, Layers, Slots, Big

LEMMA HereType == ASSUME BridgeAssumption, BridgeTyped PROVE Here \in Slots
BY Places DEF BridgeTyped, Here, SlotOf, Kinds

-----------------------------------------------------------------------------
LEMMA InitBridge == ASSUME BridgeAssumption, Init PROVE BridgeInv
<1>1. BridgeTyped
  BY Places DEF Init, BridgeTyped, Kinds, Slots
<1>2. SeqOf(0, 0) = 0 /\ SeqOf(0, 0) < SeqOf(1, 0)
  BY Places, SeqGrows DEF SeqOf, BridgeAssumption
<1>3. Numbers
  BY <1>2 DEF Init, Numbers, Coming
<1> QED
  BY <1>1, <1>3 DEF Init, BridgeInv, Served, Settled, Payloads, Noting, Idle

LEMMA StartKeeps == ASSUME BridgeAssumption, BridgeInv, Start PROVE BridgeInv'
<1> USE DEF Start, memVars, serverVars
<1>1. BridgeTyped'
  BY Places DEF BridgeInv, BridgeTyped
<1>2. Numbers'
  BY DEF BridgeInv, Numbers, Coming
<1>3. Served'
  BY DEF BridgeInv, Served, Settled
<1>4. Payloads'
  BY DEF BridgeInv, Payloads, Served, Idle
<1>5. Noting'
  BY DEF BridgeInv, Noting, Behind
<1> QED
  BY <1>1, <1>2, <1>3, <1>4, <1>5 DEF BridgeInv

LEMMA WriteKeeps == ASSUME BridgeAssumption, BridgeInv, Write PROVE BridgeInv'
<1> USE DEF Write, serverVars
<1>1. Here \in Slots /\ Here' = Here
  BY HereType DEF BridgeInv, Here
<1>2. BridgeTyped'
  BY <1>1 DEF BridgeInv, BridgeTyped
<1>3. Numbers'
  BY DEF BridgeInv, Numbers, Coming, Now
<1>4. Served'
  BY DEF BridgeInv, Served, Settled
<1>5. spc \in Idle
  BY DEF BridgeInv, Served
<1>6. Payloads'
  BY <1>1, <1>5 DEF BridgeInv, BridgeTyped, Payloads, Idle
<1>7. spc = "note" => slot # Here
  BY Places DEF BridgeInv, BridgeTyped, Noting, Behind, Here, SlotOf, Kinds
<1>8. Noting'
  BY <1>1, <1>7, Places DEF BridgeInv, BridgeTyped, Noting, Behind
<1> QED
  BY <1>2, <1>3, <1>4, <1>6, <1>8 DEF BridgeInv

LEMMA PublishKeeps == ASSUME BridgeAssumption, BridgeInv, Publish PROVE BridgeInv'
<1> USE DEF Publish, serverVars
<1>1. Here \in Slots /\ Here' = Here
  BY HereType DEF BridgeInv, Here
<1>2. counter' \in Nat /\ layer \in Layers /\ counter \in Nat
  BY DEF BridgeInv, BridgeTyped
<1>3. Now' = Coming /\ Now' = SeqOf(counter', layer)
  BY DEF Now, Coming
<1>4. Now' \in Nat
  BY <1>2, <1>3, SeqType
<1>5. BridgeTyped'
  BY <1>1, <1>2, <1>3, <1>4 DEF BridgeInv, BridgeTyped
<1>6. reqSeq' = [reqSeq EXCEPT ![Here] = Now']
  BY <1>3
<1>7. \A s \in Slots : reqSeq[s] \in Nat /\ reqSeq[s] < Now'
  BY <1>3 DEF BridgeInv, BridgeTyped, Numbers
<1>8. Numbers'
  BY <1>1, <1>4, <1>6, <1>7 DEF BridgeInv, BridgeTyped, Numbers
<1>9. spc \in Idle /\ \A s \in Slots : Settled(s)
  BY DEF BridgeInv, Served
<1>10. Served'
  <2>1. \A s \in Slots : s # Here => Settled(s)'
    BY <1>6, <1>9 DEF Settled, BridgeInv, BridgeTyped
  <2>2. Unseen'
    BY <1>1, <1>7, <1>9 DEF Unseen, Settled, Idle
  <2> QED
    BY <1>1, <2>1, <2>2 DEF Served
<1>11. respSeq'[Here'] # Now'
  BY <1>1, <1>7, <1>9, <1>4 DEF Settled
<1>12. Payloads'
  BY <1>1, <1>9, <1>11 DEF BridgeInv, Payloads, Idle
<1>13. Noting'
  BY <1>11 DEF BridgeInv, Noting, Behind
<1> QED
  BY <1>5, <1>8, <1>10, <1>12, <1>13 DEF BridgeInv

LEMMA WaitKeeps == ASSUME BridgeAssumption, BridgeInv, Wait PROVE BridgeInv'
<1> USE DEF Wait, memVars, serverVars
<1>1. Here \in Slots /\ Here' = Here /\ Now' = Now
  BY HereType DEF BridgeInv, Here, Now
<1>2. Now \in Nat /\ respSeq[Here] = Now
  BY SeqType DEF BridgeInv, BridgeTyped, Now
<1>3. BridgeTyped'
  BY DEF BridgeInv, BridgeTyped
<1>4. Numbers'
  BY <1>1 DEF BridgeInv, Numbers
<1>5. Done
  BY <1>2 DEF BridgeInv, Served, Unseen, InWork
<1>6. reqSeq[Here] = Now
  BY DEF BridgeInv, Numbers
<1>7. Served'
  BY <1>5, <1>6 DEF BridgeInv, Served, Settled, Done
<1>8. Payloads'
  BY <1>1, <1>2 DEF BridgeInv, Payloads
<1>9. Noting'
  BY <1>1, <1>2 DEF BridgeInv, Noting
<1> QED
  BY <1>3, <1>4, <1>7, <1>8, <1>9 DEF BridgeInv

LEMMA AddKeeps == ASSUME BridgeAssumption, BridgeInv, Add PROVE BridgeInv'
<1> USE DEF Add, memVars, serverVars
<1>1. layer \in Layers /\ layer' \in Layers /\ counter \in Nat
  BY Places DEF BridgeInv, BridgeTyped
<1>2. Here \in Slots
  BY HereType DEF BridgeInv
<1>3. BridgeTyped'
  BY <1>1, <1>2 DEF BridgeInv, BridgeTyped
<1>4. Now < Coming'
  BY <1>1, SeqGrows, Places DEF Now, Coming
<1>5. Now \in Int /\ Coming' \in Int
  BY <1>1, SeqType, Places DEF Now, Coming
<1>6. \A s \in Slots : reqSeq[s] \in Int /\ reqSeq[s] <= Now
  BY DEF BridgeInv, BridgeTyped, Numbers
<1>7. Numbers'
  BY <1>4, <1>5, <1>6 DEF Numbers
<1>8. Served'
  BY DEF BridgeInv, Served, Settled
<1>9. Payloads'
  BY DEF BridgeInv, BridgeTyped, Payloads, Served, Idle
<1>10. spc = "note" => slot = Here /\ slot \in Layers /\ reqCall[slot] = answered
  BY DEF BridgeInv, Noting
<1>11. spc = "note" => slot = layer /\ kind = "decode"
  BY <1>10, Places DEF BridgeInv, BridgeTyped, Kinds, Here, SlotOf
<1>12. Noting'
  BY <1>1, <1>10, <1>11, Places DEF Noting, Behind
<1> QED
  BY <1>3, <1>7, <1>8, <1>9, <1>12 DEF BridgeInv

LEMMA PollKeeps == ASSUME BridgeAssumption, BridgeInv, NEW s \in Slots, Poll(s) PROVE BridgeInv'
<1> USE DEF Poll, gpuVars, memVars
<1>1. Here \in Slots /\ Here' = Here /\ Now' = Now /\ Coming' = Coming
  BY HereType DEF BridgeInv, Here, Now, Coming
<1>2. gpc = "wait" /\ s = Here
  BY DEF BridgeInv, Served, Settled
<1>3. reqSeq[Here] = Now /\ Now \in Nat
  BY <1>1, <1>2 DEF BridgeInv, BridgeTyped, Numbers
<1>4. Unseen
  BY <1>2, <1>3 DEF BridgeInv, Served, InWork, Done
<1>5. BridgeTyped'
  BY <1>1 DEF BridgeInv, BridgeTyped
<1>6. Numbers'
  BY <1>1 DEF BridgeInv, Numbers
<1>7. seen'[Here] = Now /\ \A t \in Slots : t # Here => seen'[t] = seen[t]
  BY <1>1, <1>2, <1>3 DEF BridgeInv, BridgeTyped
<1>8. Served'
  <2>1. InWork'
    BY <1>1, <1>2, <1>4, <1>7 DEF InWork, Unseen
  <2> QED
    BY <1>1, <1>2, <1>7, <2>1 DEF BridgeInv, Served, Settled
<1>9. Payloads'
  BY <1>1 DEF BridgeInv, Payloads
<1>10. Noting'
  BY DEF Noting
<1> QED
  BY <1>5, <1>6, <1>8, <1>9, <1>10 DEF BridgeInv

LEMMA ComputeKeeps == ASSUME BridgeAssumption, BridgeInv, Compute PROVE BridgeInv'
<1> USE DEF Compute, gpuVars
<1>1. Here \in Slots /\ Here' = Here /\ Now' = Now /\ Coming' = Coming
  BY HereType DEF BridgeInv, Here, Now, Coming
<1>2. gpc = "wait" /\ InWork
  BY DEF BridgeInv, Served, Unseen, Done, Idle
<1>3. slot = Here /\ reqCall[slot] = call
  BY <1>2 DEF BridgeInv, Payloads, InWork
<1>4. BridgeTyped'
  BY <1>1, <1>3 DEF BridgeInv, BridgeTyped
<1>5. Numbers'
  BY <1>1 DEF BridgeInv, Numbers
<1>6. Served'
  BY <1>1, <1>2 DEF BridgeInv, Served, Settled, InWork
<1>7. respCall'[Here] = call
  BY <1>1, <1>3 DEF BridgeInv, BridgeTyped
<1>8. Payloads'
  BY <1>1, <1>2, <1>3, <1>7 DEF BridgeInv, Payloads
<1>9. Noting'
  BY DEF Noting
<1> QED
  BY <1>4, <1>5, <1>6, <1>8, <1>9 DEF BridgeInv

LEMMA RespondKeeps == ASSUME BridgeAssumption, BridgeInv, Respond PROVE BridgeInv'
<1> USE DEF Respond, gpuVars
<1>1. Here \in Slots /\ Here' = Here /\ Now' = Now /\ Coming' = Coming
  BY HereType DEF BridgeInv, Here, Now, Coming
<1>2. gpc = "wait" /\ InWork
  BY DEF BridgeInv, Served, Unseen, Done, Idle
<1>3. slot = Here /\ seen[Here] = Now
  BY <1>2 DEF InWork
<1>4. BridgeTyped'
  BY <1>1, <1>3 DEF BridgeInv, BridgeTyped
<1>5. Numbers'
  BY <1>1 DEF BridgeInv, Numbers
<1>6. respSeq'[Here] = Now /\ \A t \in Slots : t # Here => respSeq'[t] = respSeq[t]
  BY <1>1, <1>3 DEF BridgeInv, BridgeTyped
<1>7. Served'
  <2>1. Done'
    BY <1>1, <1>3, <1>6 DEF Done, Idle
  <2> QED
    BY <1>1, <1>2, <1>6, <2>1 DEF BridgeInv, Served, Settled
<1>8. Payloads'
  BY <1>1, <1>2, <1>3 DEF BridgeInv, Payloads
<1>9. Noting'
  <2>1. slot # Big => slot \in Layers
    BY DEF BridgeInv, BridgeTyped, Slots, Layers, Big, BridgeAssumption
  <2> QED
    BY <1>1, <1>2, <1>3, <1>6, <2>1 DEF BridgeInv, Payloads, Noting
<1> QED
  BY <1>4, <1>5, <1>7, <1>8, <1>9 DEF BridgeInv

LEMMA NoteKeeps == ASSUME BridgeAssumption, BridgeInv, Note PROVE BridgeInv'
<1> USE DEF Note, gpuVars, memVars
<1>1. Here' = Here /\ Now' = Now /\ Coming' = Coming
  BY DEF Here, Now, Coming
<1>2. BridgeTyped'
  BY DEF BridgeInv, BridgeTyped
<1>3. Numbers'
  BY <1>1 DEF BridgeInv, Numbers
<1>4. Served'
  BY <1>1 DEF BridgeInv, Served, Settled, Unseen, InWork, Done, Idle
<1>5. Payloads'
  BY <1>1 DEF BridgeInv, Payloads
<1>6. Noting'
  BY DEF Noting
<1> QED
  BY <1>2, <1>3, <1>4, <1>5, <1>6 DEF BridgeInv

LEMMA NextBridge == ASSUME BridgeAssumption, BridgeInv, [Next]_vars PROVE BridgeInv'
<1>1. CASE Next
  BY <1>1, StartKeeps, WriteKeeps, PublishKeeps, WaitKeeps, AddKeeps, PollKeeps, ComputeKeeps,
     RespondKeeps, NoteKeeps DEF Next, Gpu, Server
<1>2. CASE UNCHANGED vars
  BY <1>2 DEF vars, gpuVars, memVars, serverVars, BridgeInv, BridgeTyped, Numbers, Coming, Now,
     Here, Served, Settled, Unseen, InWork, Done, Payloads, Noting, Behind
<1> QED
  BY <1>1, <1>2

-----------------------------------------------------------------------------
(* The inductive invariant of the mailbox (bridge_cuda.cu, start_server):  *)
(* at most one request is open, its number is above all others, whatever   *)
(* has been answered carries its own call.                                 *)
THEOREM BridgeInvariant == ASSUME BridgeAssumption PROVE Spec => []BridgeInv
BY InitBridge, NextBridge, PTL DEF Spec

(* Every answer a layer adds (wait_add_kernel, add_f32_kernel) is the      *)
(* answer to its own request, and calls return in order: the mailbox       *)
(* implements ExpertCall.                                                  *)
THEOREM BridgeImplements == ASSUME BridgeAssumption PROVE Spec => ImplementsExpertCall
<1>1. Init => Call!Init
  BY DEF Init, Call!Init
<1>2. ASSUME BridgeInv, [Next]_vars PROVE [Call!Call]_<<calls, result>>
  <2>1. CASE Add
    BY <1>2, <2>1 DEF BridgeInv, BridgeTyped, Payloads, Add, Call!Call
  <2>2. CASE [Next]_vars /\ ~Add
    BY <1>2, <2>2 DEF Next, Gpu, Server, Start, Write, Publish, Wait, Poll, Compute, Respond, Note,
       vars, gpuVars, memVars, serverVars
  <2> QED
    BY <1>2, <2>1, <2>2
<1> QED
  BY <1>1, <1>2, BridgeInvariant, PTL DEF Spec, ImplementsExpertCall, Call!Spec

(* The ids the server reads once more after it has answered (dyn_note) are *)
(* those it answered: the stream cannot come back to the slot before.      *)
THEOREM NotedAlwaysIntact == ASSUME BridgeAssumption PROVE Spec => NotedIntact
<1>1. ASSUME BridgeInv, [Next]_vars PROVE [noted' # noted => noted' = answered]_vars
  BY <1>1 DEF BridgeInv, Noting, Next, Gpu, Server, Start, Write, Publish, Wait, Add, Poll, Compute,
     Respond, Note, vars, gpuVars, memVars, serverVars
<1> QED
  BY <1>1, BridgeInvariant, PTL DEF Spec, NotedIntact
-----------------------------------------------------------------------------
(* The counter is the number of forwards, behind by one until layer 0 of   *)
(* the last one has published; the server notes what it has answered, and  *)
(* answers what has been submitted; no slot is answered before it is seen. *)
Counted ==
  /\ forwards \in 0 .. MaxForwards
  /\ counter = IF layer = 0 /\ gpc \in {"write", "publish"} THEN forwards - 1 ELSE forwards
  /\ answered <= call /\ noted <= answered
  /\ \A s \in Slots : respSeq[s] <= seen[s]

LEMMA InitCounted == ASSUME BridgeAssumption, Init PROVE Counted
BY DEF BridgeAssumption, Init, Counted

LEMMA NextCounted == ASSUME BridgeAssumption, BridgeInv, Counted, [Next]_vars PROVE Counted'
<1> USE DEF Counted
<1>1. BridgeTyped /\ MaxForwards \in Nat
  BY DEF BridgeAssumption, BridgeInv
<1>2. CASE Start \/ Write \/ Publish \/ Wait
  BY <1>1, <1>2 DEF BridgeTyped, Start, Write, Publish, Wait, memVars, serverVars
<1>3. CASE Add
  <2>1. layer \in Nat
    BY <1>1, Places DEF BridgeTyped
  <2> QED
    BY <1>3, <2>1 DEF Add, memVars, serverVars
<1>4. CASE Compute
  <2>1. reqCall[slot] = call
    BY <1>4 DEF BridgeInv, Served, Payloads, Unseen, InWork, Done, Idle, Compute
  <2> QED
    BY <1>1, <1>4, <2>1 DEF BridgeTyped, Compute, gpuVars
<1>5. CASE Note
  BY <1>1, <1>5 DEF BridgeInv, BridgeTyped, Noting, Note, gpuVars, memVars
<1>6. CASE Respond
  BY <1>1, <1>6 DEF BridgeTyped, Respond, gpuVars
<1>7. ASSUME NEW s \in Slots, Poll(s) PROVE Counted'
  <2>1. gpc = "wait" /\ s = Here /\ reqSeq[Here] = Now
    BY <1>7 DEF BridgeInv, Numbers, Served, Settled, Poll
  <2>2. respSeq[s] <= reqSeq[s]
    <3>1. {respSeq[s], Now} \subseteq Int
      BY <1>1, <2>1 DEF BridgeTyped
    <3>2. respSeq[Here] <= Now
      BY <2>1, <3>1 DEF BridgeInv, Served, Unseen, InWork, Done
    <3> QED
      BY <2>1, <3>2
  <2> QED
    BY <1>1, <1>7, <2>2 DEF BridgeTyped, Poll, gpuVars, memVars
<1>8. CASE UNCHANGED vars
  BY <1>8 DEF vars, gpuVars, memVars, serverVars
<1> QED
  BY <1>2, <1>3, <1>4, <1>5, <1>6, <1>7, <1>8 DEF Next, Gpu, Server

(* The mailbox keeps its order (start_server, wait_kernel): in no slot is  *)
(* the answered number ahead of the seen one or the seen one ahead of the  *)
(* published one, at most one call is open, the ids noted are of a call    *)
(* submitted, and the counter in GPU memory never exceeds the forwards.    *)
THEOREM MailboxOrdered == ASSUME BridgeAssumption PROVE Spec => []TypeOK
<1>1. Init => Counted
  BY InitCounted
<1>2. BridgeInv /\ Counted /\ [Next]_vars => Counted'
  BY NextCounted
<1>3. ASSUME BridgeInv, Counted PROVE TypeOK
  <2>1. BridgeTyped /\ Numbers /\ Served /\ Payloads
    BY <1>3 DEF BridgeInv
  <2>2. counter \in 0 .. forwards
    BY <1>3, <2>1 DEF Counted, BridgeTyped
  <2>3. ASSUME NEW s \in Slots PROVE respSeq[s] <= seen[s] /\ seen[s] <= reqSeq[s]
    <3>1. {reqSeq[s], seen[s], respSeq[s], Now} \subseteq Int
      BY <1>3, <2>1, <2>3, SeqType DEF BridgeTyped, Now
    <3>2. CASE Settled(s)
      BY <3>1, <3>2 DEF Settled
    <3>3. CASE gpc = "wait" /\ s = Here
      <4>1. reqSeq[s] = Now
        BY <2>1, <3>3 DEF Numbers
      <4>2. seen[s] <= Now
        BY <2>1, <3>1, <3>3 DEF Served, Unseen, InWork, Done
      <4>3. respSeq[s] <= seen[s]
        BY <1>3 DEF Counted
      <4> QED
        BY <4>1, <4>2, <4>3
    <3> QED
      BY <2>1, <3>2, <3>3 DEF Served
  <2> QED
    BY <1>3, <2>1, <2>2, <2>3 DEF TypeOK, BridgeTyped, Payloads, Counted
<1> QED
  BY <1>1, <1>2, <1>3, BridgeInvariant, PTL DEF Spec
=============================================================================
