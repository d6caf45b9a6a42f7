-------------------------- MODULE PleOffloadProofs --------------------------
(***************************************************************************)
(* The inductive invariant of PleOffload and its proof, for any number of  *)
(* ranks, PLE layers, start-up forwards, batches and batches in flight,    *)
(* and what follows from it: the safety properties the runs check, and     *)
(* that the handshake implements PleForward.                               *)
(*                                                                         *)
(* The invariant counts, for every rank t and layer l, the last real batch *)
(* whose host buffer the CPU worker has claimed and published and the      *)
(* rank's stream has released, and says how the two flags encode the       *)
(* distance between these counters.                                        *)
(***************************************************************************)
EXTENDS PleOffload, TLAPS

(* The last real batch among the forwards up to x: 0 for start-up ones.    *)
Max0(x) == IF x < 0 THEN 0 ELSE x

(* The last batch whose output in buffer l rank t's stream has given back.  *)
Released(t, l) ==
  IF gpc[t] # "idle" /\ l < glayer[t] THEN Max0(current[t]) ELSE Max0(finished[t])

(* The last batch for which the CPU worker has taken the buffer.           *)
Claimed(t, l) ==
  IF \/ wpc = "poll" \/ l < wlayer
     \/ l = wlayer /\ wpc \in {"compute", "fanOut", "publish"}
     \/ l = wlayer /\ wpc \in {"zeroReady", "zeroConsumed"} /\ t < target
  THEN batch ELSE batch - 1

(* The last batch whose output it has announced in the ready flag.         *)
Published(t, l) ==
  IF wpc = "poll" \/ l < wlayer \/ (l = wlayer /\ wpc = "publish" /\ t < target)
  THEN batch ELSE batch - 1

(* The last request the model thread of rank 0 has put in the queue, and   *)
(* the last one the request thread has sent on.                            *)
Queued ==
  IF prepared[0] < 1 THEN 0
  ELSE IF hpc[0] = "put" THEN prepared[0] - 1 ELSE prepared[0]

Sent == IF tpc = "get" THEN request ELSE request - 1

(* The model threads: what each program point has prepared and launched.   *)
HostInv ==
  \A t \in Ranks :
    /\ prepared[t] <= issued
    /\ hpc[t] \in {"idle", "sync"} => launched[t] = prepared[t]
    /\ hpc[t] \in {"put", "claim", "spin"} => prepared[t] >= 1 /\ launched[t] = prepared[t] - 1
    /\ hpc[t] \in {"signal", "sync"} => prepared[t] <= 0
    /\ hpc[t] = "signal" => launched[t] \in {prepared[t] - 1, prepared[t]}
    /\ hpc[t] = "put" => t = 0
    /\ hpc[t] = "spin" => prepared[t] = 1
    /\ stale[t] <=> (launched[t] <= 0 /\ hpc[t] # "spin")

(* Real batches start when the start-up forwards are over.                 *)
StartInv ==
  issued >= 1 =>
    \A t \in Ranks : finished[t] >= 0 /\ prepared[t] >= 0 /\ hpc[t] \notin {"signal", "sync"}

(* A rank enqueues a real forward only after all its buffers were claimed. *)
ClaimInv ==
  \A t \in Ranks, l \in Layers :
    (launched[t] >= 1 \/ (hpc[t] = "spin" /\ l < hlayer[t])) => Claimed(t, l) >= 1

(* The streams: a forward runs between its preparation and the next one.   *)
StreamInv ==
  \A t \in Ranks :
    /\ finished[t] <= current[t] /\ current[t] <= finished[t] + 1
    /\ current[t] <= prepared[t] /\ finished[t] <= launched[t]
    /\ gpc[t] # "idle" => current[t] = finished[t] + 1 /\ current[t] <= launched[t]
    /\ gpc[t] # "idle" => (gpc[t] = "end" <=> glayer[t] = NumLayers + 1)

(* Requests go through queue, thread, socket and worker one at a time.     *)
QueueInv ==
  \/ queue = 0 /\ request = Queued
  \/ queue >= 1 /\ queue = Queued /\ request = Queued - 1

(* The request thread stages the inputs of the request it holds.           *)
StageInv ==
  /\ tpc # "get" => request >= 1
  /\ tpc = "event" => event >= request
  /\ tpc \in {"copy", "send"} => current[0] >= request
  /\ tpc = "send" => inputs = request

(* A sent request is in the socket or is the worker's batch.               *)
SocketInv ==
  /\ \/ pipe = <<>> /\ batch = Sent
     \/ /\ pipe = <<Sent>> /\ Sent >= 1 /\ batch = Sent - 1
        /\ wpc = "poll" \/ (wpc = "publish" /\ wlayer = NumLayers)
  /\ pipe # <<>> => inputs = Sent

(* The way of a request, from the model thread to the worker.              *)
PipelineInv == QueueInv /\ StageInv /\ SocketInv

(* The worker: whose inputs it reads, what it holds, what it hands on.     *)
WorkerInv ==
  /\ wpc # "poll" => batch >= 1
  /\ wpc \in {"await", "zeroReady", "zeroConsumed", "compute"} => inputs = batch
  /\ (wpc \in {"fanOut", "publish"} /\ wlayer < NumLayers) => inputs = batch
  /\ wpc = "zeroConsumed" => ready[target][wlayer] = 0
  /\ wpc \in {"zeroReady", "zeroConsumed"} =>
       \A t \in Ranks : t >= target => consumed[t][wlayer] = 1
  /\ wpc = "fanOut" => target >= 1 /\ \A t \in Ranks : t < target => buffer[t][wlayer] = batch
  /\ wpc = "publish" => \A t \in Ranks : buffer[t][wlayer] = batch

(* The flags of a buffer encode where its three counters are.              *)
Channel(t, l) ==
  /\ Released(t, l) <= Published(t, l) /\ Claimed(t, l) <= Released(t, l) + 1
  /\ consumed[t][l] = 0 <=> Claimed(t, l) = Released(t, l) + 1
  /\ Claimed(t, l) >= 1 =>
       (ready[t][l] = 1 <=> /\ Published(t, l) = Released(t, l) + 1
                            /\ ~(gpc[t] = "release" /\ glayer[t] = l))
  /\ Published(t, l) = Released(t, l) + 1 => buffer[t][l] = Published(t, l)

(* Every buffer's flags are right.                                         *)
ChannelInv == \A t \in Ranks, l \in Layers : Channel(t, l)

(* What the stream of a real forward has copied so far.                    *)
CopyInv ==
  \A t \in Ranks :
    gpc[t] # "idle" /\ current[t] >= 1 =>
      /\ \A l \in Layers : l < glayer[t] => device[t][l] = current[t]
      /\ gpc[t] \in {"copy", "reset", "release"} => Published(t, glayer[t]) = current[t]
      /\ gpc[t] \in {"reset", "release"} => device[t][glayer[t]] = current[t]

(* The inductive invariant.                                                *)
IInv ==
  /\ TypeOK /\ HostInv /\ StartInv /\ ClaimInv /\ StreamInv /\ PipelineInv
  /\ WorkerInv /\ ChannelInv /\ CopyInv /\ FreshOutputs

-----------------------------------------------------------------------------
(* Indices, and what each process leaves alone.                            *)

(* The rank indices that the worker's loops over the ranks reach.          *)
LEMMA RankFacts ==
  /\ 0 \in Ranks /\ Ranks \subseteq Nat
  /\ TPSize > 1 => 1 \in Ranks
  /\ \A r \in Ranks : r + 1 < TPSize => r + 1 \in Ranks
  BY ConstantsAssumption DEF Ranks

(* The layer indices that the worker's loop over the layers reaches.       *)
LEMMA LayerFacts ==
  /\ 1 \in Layers /\ NumLayers \in Layers /\ Layers \subseteq Nat
  /\ NumLayers \in Nat
  /\ \A l \in Layers : l < NumLayers => l + 1 \in Layers
  /\ \A l \in Layers : 1 <= l /\ l <= NumLayers
  /\ \A i \in Int : 1 <= i /\ i <= NumLayers => i \in Layers
  BY ConstantsAssumption DEF Layers

(* A position in a loop over the layers is a layer, or just past the last. *)
LEMMA PlaceFacts ==
  /\ 1 \in 1 .. NumLayers + 1
  /\ \A i \in 1 .. NumLayers + 1 : i \in Nat /\ (i <= NumLayers => i + 1 \in 1 .. NumLayers + 1)
  /\ \A i \in 1 .. NumLayers + 1 : (i <= NumLayers <=> i \in Layers) /\ (i # NumLayers + 1 <=> i \in Layers)
  BY ConstantsAssumption DEF Layers

(* What the request thread never changes.                                  *)
LEMMA ThreadFrame ==
  ASSUME Thread
  PROVE  UNCHANGED <<engineVars, hostVars, wpc, batch, wlayer, target, shmVars, streamVars>>
  BY DEF Thread, TakeRequest, WaitEvent, BeginCopy, EndCopy, Send, workerVars

(* What the CPU worker never changes.                                      *)
LEMMA WorkerFrame ==
  ASSUME Worker
  PROVE  UNCHANGED <<engineVars, hostVars, threadVars, streamVars>>
  BY DEF Worker, Receive, AwaitConsumed, ZeroReady, ZeroConsumed, Compute, FanOut, Publish

(* What a model stream never changes.                                      *)
LEMMA StreamFrame ==
  ASSUME NEW t \in Ranks, Stream(t)
  PROVE  UNCHANGED <<engineVars, hostVars, threadVars, workerVars, buffer>>
  BY DEF Stream, RunPrepare, StartForward, WaitReady, CopyOutput, ResetReady,
         ReleaseBuffer, EndForward, shmVars

(* What a model thread never changes.                                      *)
LEMMA HostFrame ==
  ASSUME NEW t \in Ranks, Host(t)
  PROVE  UNCHANGED <<issued, tpc, request, event, inputs, workerVars, streamVars>>
  BY DEF Host, Prepare, PutRequest, SkipClaim, StartClaim, SpinClaim, LaunchClaimed,
         SignalLayer, LaunchDummy, Synchronize, EndCapture, engineVars, threadVars

(* A claim timeout and a stopped system change at most the failed flag.    *)
LEMMA OtherFrame ==
  ASSUME Stopped \/ \E t \in Ranks : ClaimTimeout(t)
  PROVE  UNCHANGED <<issued, hostVars, threadVars, workerVars, shmVars, streamVars>>
  BY DEF Stopped, ClaimTimeout, vars, engineVars

-----------------------------------------------------------------------------
(* The counters.                                                           *)

(* The worker's counters depend on the worker's own state only.            *)
LEMMA ClaimedFrame ==
  UNCHANGED <<wpc, batch, wlayer, target>> =>
    \A t, l : Claimed(t, l)' = Claimed(t, l) /\ Published(t, l)' = Published(t, l)
  BY DEF Claimed, Published

(* The stream's counter depends on the stream's own state only.            *)
LEMMA ReleasedFrame ==
  UNCHANGED <<gpc, glayer, current, finished>> => \A t, l : Released(t, l)' = Released(t, l)
  BY DEF Released, Max0

(* Start-up forwards, numbered up to 0, count as 0.                        *)
LEMMA Max0Facts ==
  \A x \in Int : (x <= 0 => Max0(x) = 0) /\ (x >= 0 => Max0(x) = x)
  BY DEF Max0

(* A buffer is claimed before it is published, both within one batch.      *)
LEMMA CounterFacts ==
  ASSUME WorkerTypes, StreamTypes, NEW t \in Ranks, NEW l \in Layers
  PROVE  /\ Claimed(t, l) \in Int /\ Published(t, l) \in Int /\ Released(t, l) \in Nat
         /\ Published(t, l) <= Claimed(t, l) /\ Claimed(t, l) <= batch
         /\ batch - 1 <= Published(t, l)
<1>0. batch \in Nat
  BY DEF WorkerTypes
<1>1. Claimed(t, l) \in {batch, batch - 1} /\ Published(t, l) \in {batch, batch - 1}
  BY DEF Claimed, Published
<1>2. Released(t, l) \in Nat
  <2>1. current[t] \in Int /\ finished[t] \in Int
    BY DEF StreamTypes
  <2>2. Max0(current[t]) \in Nat /\ Max0(finished[t]) \in Nat
    BY <2>1 DEF Max0
  <2>3. QED
    BY <2>2 DEF Released
<1>3. Published(t, l) = batch => Claimed(t, l) = batch
  BY <1>0 DEF Claimed, Published
<1>4. QED
  BY <1>0, <1>1, <1>2, <1>3

(* Taking the next request claims and publishes nothing yet.               *)
LEMMA ReceiveCounters ==
  ASSUME WorkerTypes, PipelineInv, Receive, NEW t \in Ranks, NEW l \in Layers
  PROVE  Claimed(t, l)' = Claimed(t, l) /\ Published(t, l)' = Published(t, l)
<1>1. Claimed(t, l) = batch /\ Published(t, l) = batch
  BY DEF Receive, Claimed, Published
<1>2. batch' = batch + 1 /\ wlayer' = 1 /\ wpc' = "await"
  BY DEF Receive, PipelineInv, SocketInv, WorkerTypes
<1>3. Claimed(t, l)' = batch' - 1 /\ Published(t, l)' = batch' - 1
  BY <1>2, LayerFacts DEF Claimed, Published
<1>4. QED
  BY <1>1, <1>2, <1>3 DEF WorkerTypes

(* Zeroing a consumed flag claims exactly that buffer.                     *)
LEMMA ZeroConsumedCounters ==
  ASSUME WorkerTypes, ZeroConsumed, NEW t \in Ranks, NEW l \in Layers
  PROVE  /\ Claimed(t, l)' = IF t = target /\ l = wlayer THEN Claimed(t, l) + 1 ELSE Claimed(t, l)
         /\ Published(t, l)' = Published(t, l)
         /\ l = wlayer => Published(t, l) = batch - 1
         /\ t = target /\ l = wlayer => Claimed(t, l) = batch - 1
<1>1. batch \in Nat /\ wlayer \in Nat /\ l \in Nat /\ t \in Nat /\ target \in Nat
  BY RankFacts, LayerFacts DEF WorkerTypes
<1>2. wpc = "zeroConsumed" /\ batch' = batch /\ wlayer' = wlayer
      /\ batch' \in Nat /\ wlayer' \in Nat /\ target' \in Nat
  BY <1>1 DEF ZeroConsumed
<1>3. \/ wpc' = "zeroReady" /\ target' = target + 1
      \/ t <= target /\ wpc' = "compute"
  <2>1. target + 1 < TPSize \/ t <= target
    BY ConstantsAssumption DEF Ranks, WorkerTypes
  <2>2. QED
    BY <2>1 DEF ZeroConsumed, MoreTargets
<1>4. Published(t, l)' = Published(t, l) /\ (l = wlayer => Published(t, l) = batch - 1)
  BY <1>1, <1>2, <1>3 DEF Published
<1>5. t = target /\ l = wlayer => Claimed(t, l) = batch - 1 /\ Claimed(t, l)' = batch
  BY <1>1, <1>2, <1>3 DEF Claimed
<1>6. ~(t = target /\ l = wlayer) => Claimed(t, l)' = Claimed(t, l)
  BY <1>1, <1>2, <1>3 DEF Claimed
<1>7. QED
  BY <1>1, <1>4, <1>5, <1>6

(* Setting a ready flag publishes exactly that buffer.                     *)
LEMMA PublishCounters ==
  ASSUME WorkerTypes, Publish, NEW t \in Ranks, NEW l \in Layers
  PROVE  /\ Published(t, l)' = IF t = target /\ l = wlayer THEN Published(t, l) + 1 ELSE Published(t, l)
         /\ Claimed(t, l)' = Claimed(t, l)
         /\ l = wlayer => Claimed(t, l) = batch
         /\ t = target /\ l = wlayer => Published(t, l) = batch - 1
<1>1. batch \in Nat /\ wlayer \in Nat /\ l \in Nat /\ t \in Nat /\ target \in Nat /\ l <= NumLayers
      /\ NumLayers \in Nat
  BY RankFacts, LayerFacts DEF WorkerTypes
<1>2. wpc = "publish" /\ batch' = batch
      /\ batch' \in Nat /\ wlayer' \in Nat /\ target' \in Nat
  BY <1>1 DEF Publish
<1>3. \/ target' = target + 1 /\ UNCHANGED <<wpc, wlayer>>
      \/ t <= target /\ wlayer' = wlayer + 1 /\ wpc' = "await"
      \/ t <= target /\ l <= wlayer /\ wpc' = "poll"
  BY <1>1, ConstantsAssumption DEF Publish, MoreTargets, Ranks, WorkerTypes
<1>4. Claimed(t, l)' = Claimed(t, l) /\ (l = wlayer => Claimed(t, l) = batch)
  BY <1>1, <1>2, <1>3 DEF Claimed
<1>5. t = target /\ l = wlayer => Published(t, l) = batch - 1 /\ Published(t, l)' = batch
  BY <1>1, <1>2, <1>3 DEF Published
<1>6. ~(t = target /\ l = wlayer) => Published(t, l)' = Published(t, l)
  BY <1>1, <1>2, <1>3 DEF Published
<1>7. QED
  BY <1>1, <1>4, <1>5, <1>6

(* The worker's other steps claim and publish nothing.                     *)
LEMMA OtherCounters ==
  ASSUME WorkerTypes, AwaitConsumed \/ ZeroReady \/ Compute \/ FanOut,
         NEW t \in Ranks, NEW l \in Layers
  PROVE  Claimed(t, l)' = Claimed(t, l) /\ Published(t, l)' = Published(t, l)
<1> USE RankFacts, LayerFacts DEF WorkerTypes, Claimed, Published
<1>1. CASE AwaitConsumed
  BY <1>1 DEF AwaitConsumed
<1>2. CASE ZeroReady
  BY <1>2 DEF ZeroReady
<1>3. CASE Compute
  BY <1>3 DEF Compute
<1>4. CASE FanOut
  BY <1>4 DEF FanOut
<1>5. QED
  BY <1>1, <1>2, <1>3, <1>4

(* A worker that has a batch works for a forward of a real batch.          *)
LEMMA Active ==
  ASSUME TypeOK, HostInv, PipelineInv, WorkerInv
  PROVE  /\ wpc # "poll" => batch >= 1
         /\ batch >= 1 => issued >= 1
<1> USE RankFacts DEF TypeOK, EngineTypes, HostTypes, ThreadTypes, WorkerTypes
<1>1. wpc # "poll" => batch >= 1
  BY DEF WorkerInv
<1>2. batch >= 1 => request >= 1
  BY DEF PipelineInv, QueueInv, StageInv, SocketInv, Sent
<1>3. request >= 1 => prepared[0] >= 1
  BY DEF PipelineInv, QueueInv, Queued
<1>4. QED
  BY <1>1, <1>2, <1>3 DEF HostInv

(* While the worker has had a batch, every forward that runs is a real one.*)
LEMMA Busy ==
  ASSUME TypeOK, HostInv, StartInv, StreamInv, PipelineInv, WorkerInv, batch >= 1,
         NEW t \in Ranks
  PROVE  finished[t] >= 0 /\ (gpc[t] # "idle" => current[t] >= 1)
  BY Active DEF StartInv, StreamInv, TypeOK, StreamTypes

(* While a model thread signals dummy outputs, no request is under way: the*)
(* signal never races the CPU worker for the buffers.                      *)
LEMMA Dormant ==
  ASSUME TypeOK, HostInv, StartInv, PipelineInv, WorkerInv, NEW t \in Ranks,
         hpc[t] = "signal"
  PROVE  /\ wpc = "poll" /\ pipe = <<>> /\ tpc = "get" /\ batch = 0
         /\ \A u \in Ranks, l \in Layers : Claimed(u, l) = 0 /\ Published(u, l) = 0
<1> USE RankFacts DEF TypeOK, EngineTypes, HostTypes, ThreadTypes, WorkerTypes
<1>1. prepared[0] <= 0
  BY DEF StartInv, HostInv
<1>2. request = 0
  BY <1>1 DEF PipelineInv, QueueInv, Queued
<1>3. tpc = "get" /\ Sent = 0 /\ pipe = <<>> /\ batch = 0
  BY <1>2 DEF PipelineInv, StageInv, SocketInv, Sent
<1>4. wpc = "poll"
  BY <1>3, Active
<1>5. QED
  BY <1>3, <1>4 DEF Claimed, Published

-----------------------------------------------------------------------------
(* Types.                                                                  *)

(* A model thread's step keeps the types of the model threads' state.      *)
LEMMA HostTypesStep ==
  ASSUME TypeOK, NEW t \in Ranks, Host(t)
  PROVE  HostTypes'
<1> USE PlaceFacts DEF TypeOK, HostTypes, HostPc, Goto
<1>1. CASE Prepare(t)
  <2>1. \E pc \in HostPc : hpc' = [hpc EXCEPT ![t] = pc]
    BY <1>1 DEF Prepare
  <2>2. UNCHANGED hlayer \/ hlayer' = [hlayer EXCEPT ![t] = 1]
    BY <1>1 DEF Prepare
  <2>3. UNCHANGED stale \/ stale' = [stale EXCEPT ![t] = TRUE]
    BY <1>1 DEF Prepare
  <2>4. prepared' \in [Ranks -> Int] /\ UNCHANGED launched
    BY <1>1 DEF Prepare
  <2>5. QED
    BY <2>1, <2>2, <2>3, <2>4
<1>2. CASE t = 0 /\ PutRequest
  BY <1>2 DEF PutRequest
<1>3. CASE SkipClaim(t)
  BY <1>3 DEF SkipClaim
<1>4. CASE StartClaim(t)
  BY <1>4 DEF StartClaim
<1>5. CASE SpinClaim(t)
  BY <1>5 DEF SpinClaim
<1>6. CASE LaunchClaimed(t)
  BY <1>6 DEF LaunchClaimed
<1>7. CASE SignalLayer(t)
  BY <1>7 DEF SignalLayer
<1>8. CASE LaunchDummy(t)
  BY <1>8 DEF LaunchDummy
<1>9. CASE Synchronize(t)
  BY <1>9 DEF Synchronize
<1>10. CASE EndCapture(t)
  BY <1>10 DEF EndCapture
<1>11. QED
  BY <1>1, <1>2, <1>3, <1>4, <1>5, <1>6, <1>7, <1>8, <1>9, <1>10 DEF Host

(* Every step keeps the types of the request thread's state.               *)
LEMMA ThreadTypesStep ==
  ASSUME TypeOK, HostInv, Next
  PROVE  ThreadTypes'
<1> USE RankFacts DEF TypeOK, ThreadTypes, HostTypes, StreamTypes
<1>1. CASE Thread
  BY <1>1 DEF Thread, TakeRequest, WaitEvent, BeginCopy, EndCopy, Send, ThreadPc
<1>2. ASSUME NEW t \in Ranks, Host(t) PROVE ThreadTypes'
  <2>1. CASE t = 0 /\ PutRequest
    <3>1. prepared[0] \in Nat
      BY <2>1 DEF PutRequest, HostInv
    <3>2. QED
      BY <2>1, <3>1 DEF PutRequest
  <2>2. QED
    BY <1>2, <2>1 DEF Host, Prepare, SkipClaim, StartClaim, SpinClaim, LaunchClaimed,
       SignalLayer, LaunchDummy, Synchronize, EndCapture, threadVars
<1>3. QED
  BY <1>1, <1>2, WorkerFrame, StreamFrame, OtherFrame DEF Next, Issue, threadVars

(* Every step keeps the types of the CPU worker's state.                   *)
LEMMA WorkerTypesStep ==
  ASSUME TypeOK, Next
  PROVE  WorkerTypes'
<1> USE RankFacts, LayerFacts DEF TypeOK, WorkerTypes, WorkerPc
<1>1. CASE Send
  BY <1>1 DEF Send, ThreadTypes
<1>2. CASE Worker
  <2>1. CASE Receive
    BY <2>1 DEF Receive
  <2>2. CASE AwaitConsumed
    BY <2>2 DEF AwaitConsumed
  <2>3. CASE ZeroReady
    BY <2>3 DEF ZeroReady
  <2>4. CASE ZeroConsumed
    BY <2>4 DEF ZeroConsumed, MoreTargets
  <2>5. CASE Compute
    BY <2>5 DEF Compute
  <2>6. CASE FanOut
    BY <2>6 DEF FanOut, MoreTargets
  <2>7. CASE Publish
    BY <2>7 DEF Publish, MoreTargets
  <2>8. QED
    BY <1>2, <2>1, <2>2, <2>3, <2>4, <2>5, <2>6, <2>7 DEF Worker
<1>3. ASSUME UNCHANGED workerVars PROVE WorkerTypes'
  BY <1>3 DEF workerVars
<1>4. QED
  BY <1>1, <1>2, <1>3, HostFrame, StreamFrame, OtherFrame
     DEF Next, Issue, Thread, TakeRequest, WaitEvent, BeginCopy, EndCopy

(* Every step keeps the types of the flags and buffers.                    *)
LEMMA ShmTypesStep ==
  ASSUME TypeOK, Next
  PROVE  ShmTypes'
<1> USE RankFacts DEF TypeOK, ShmTypes
<1>1. ASSUME NEW t \in Ranks, Host(t) PROVE ShmTypes'
  <2>1. CASE SignalLayer(t)
    BY <2>1, PlaceFacts DEF SignalLayer, HostTypes
  <2>2. QED
    BY <1>1, <2>1 DEF Host, Prepare, PutRequest, SkipClaim, StartClaim, SpinClaim,
       LaunchClaimed, LaunchDummy, Synchronize, EndCapture, shmVars
<1>2. CASE Worker
  <2> USE DEF WorkerTypes, ThreadTypes
  <2>1. CASE ZeroReady
    BY <2>1 DEF ZeroReady
  <2>2. CASE ZeroConsumed
    BY <2>2 DEF ZeroConsumed
  <2>3. CASE Compute
    BY <2>3 DEF Compute
  <2>4. CASE FanOut
    BY <2>4 DEF FanOut
  <2>5. CASE Publish
    BY <2>5 DEF Publish
  <2>6. QED
    BY <1>2, <2>1, <2>2, <2>3, <2>4, <2>5 DEF Worker, Receive, AwaitConsumed, shmVars
<1>3. ASSUME NEW t \in Ranks, Stream(t) PROVE ShmTypes'
  <2>1. CASE ResetReady(t)
    BY <2>1 DEF ResetReady
  <2>2. CASE ReleaseBuffer(t)
    BY <2>2 DEF ReleaseBuffer
  <2>3. QED
    BY <1>3, <2>1, <2>2 DEF Stream, RunPrepare, StartForward, WaitReady, CopyOutput, EndForward, shmVars
<1>4. QED
  BY <1>1, <1>2, <1>3, ThreadFrame, OtherFrame DEF Next, Issue, shmVars

(* A stream's step keeps the types of the streams' state.                  *)
LEMMA StreamTypesStep ==
  ASSUME TypeOK, StreamInv, NEW t \in Ranks, Stream(t)
  PROVE  StreamTypes'
<1> USE PlaceFacts DEF TypeOK, StreamTypes, StreamPc
<1>1. CASE RunPrepare(t)
  BY <1>1 DEF RunPrepare
<1>2. CASE StartForward(t)
  BY <1>2 DEF StartForward
<1>3. CASE WaitReady(t)
  BY <1>3 DEF WaitReady
<1>4. CASE CopyOutput(t)
  <2>1. glayer[t] \in Layers
    BY <1>4 DEF CopyOutput, StreamInv
  <2>2. QED
    BY <1>4, <2>1 DEF CopyOutput, ShmTypes
<1>5. CASE ResetReady(t)
  BY <1>5 DEF ResetReady
<1>6. CASE ReleaseBuffer(t)
  <2>1. glayer[t] \in Layers
    BY <1>6 DEF ReleaseBuffer, StreamInv
  <2>2. glayer[t] + 1 \in 1 .. NumLayers + 1
    BY <2>1
  <2>3. QED
    BY <1>6, <2>2 DEF ReleaseBuffer
<1>7. CASE EndForward(t)
  BY <1>7 DEF EndForward
<1>8. QED
  BY <1>1, <1>2, <1>3, <1>4, <1>5, <1>6, <1>7 DEF Stream

(* Every step keeps every type.                                            *)
LEMMA TypeStep ==
  ASSUME TypeOK, HostInv, StreamInv, Next
  PROVE  TypeOK'
<1>1. EngineTypes'
  <2>1. ASSUME NEW t \in Ranks, Host(t) PROVE EngineTypes'
    BY <2>1 DEF TypeOK, EngineTypes, Host, Prepare, PutRequest, SkipClaim, StartClaim, SpinClaim,
       LaunchClaimed, SignalLayer, LaunchDummy, Synchronize, EndCapture, engineVars
  <2>2. CASE Issue
    BY <2>2 DEF TypeOK, EngineTypes, Issue
  <2>3. CASE Stopped
    BY <2>3 DEF TypeOK, EngineTypes, Stopped, engineVars, vars
  <2>4. ASSUME NEW t \in Ranks, ClaimTimeout(t) PROVE EngineTypes'
    BY <2>4 DEF TypeOK, EngineTypes, ClaimTimeout
  <2>5. QED
    BY <2>1, <2>2, <2>3, <2>4, ThreadFrame, WorkerFrame, StreamFrame DEF TypeOK, EngineTypes, Next, engineVars
<1>2. HostTypes'
  <2>1. ASSUME UNCHANGED hostVars PROVE HostTypes'
    BY <2>1 DEF TypeOK, HostTypes, hostVars
  <2>2. QED
    BY <2>1, HostTypesStep, ThreadFrame, WorkerFrame, StreamFrame, OtherFrame DEF Next, Issue
<1>3. StreamTypes'
  <2>1. ASSUME UNCHANGED streamVars PROVE StreamTypes'
    BY <2>1 DEF TypeOK, StreamTypes, streamVars
  <2>2. QED
    BY <2>1, StreamTypesStep, HostFrame, ThreadFrame, WorkerFrame, OtherFrame DEF Next, Issue
<1>4. QED
  BY <1>1, <1>2, <1>3, ThreadTypesStep, WorkerTypesStep, ShmTypesStep DEF TypeOK

-----------------------------------------------------------------------------
(* Model threads and streams.                                              *)

(* The model threads' invariant is inductive.                              *)
LEMMA HostStep ==
  ASSUME TypeOK, HostInv, Next
  PROVE  HostInv'
<1> USE RankFacts DEF TypeOK, EngineTypes, HostTypes
<1>1. CASE Issue
  BY <1>1 DEF Issue, HostInv, hostVars
<1>2. ASSUME NEW t \in Ranks, Host(t) PROVE HostInv'
  <2> USE DEF HostInv, Goto
  <2>1. CASE Prepare(t)
    BY <2>1 DEF Prepare, engineVars
  <2>2. CASE t = 0 /\ PutRequest
    BY <2>2 DEF PutRequest
  <2>3. CASE SkipClaim(t)
    BY <2>3 DEF SkipClaim, MustClaim, engineVars
  <2>4. CASE StartClaim(t)
    BY <2>4 DEF StartClaim, MustClaim, engineVars
  <2>5. CASE SpinClaim(t)
    BY <2>5 DEF SpinClaim, engineVars
  <2>6. CASE LaunchClaimed(t)
    BY <2>6 DEF LaunchClaimed, engineVars
  <2>7. CASE SignalLayer(t)
    BY <2>7 DEF SignalLayer, engineVars
  <2>8. CASE LaunchDummy(t)
    BY <2>8 DEF LaunchDummy, engineVars
  <2>9. CASE Synchronize(t)
    BY <2>9 DEF Synchronize, engineVars
  <2>10. CASE EndCapture(t)
    BY <2>10 DEF EndCapture, engineVars
  <2>11. QED
    BY <1>2, <2>1, <2>2, <2>3, <2>4, <2>5, <2>6, <2>7, <2>8, <2>9, <2>10 DEF Host
<1>3. ASSUME UNCHANGED <<issued, hostVars>> PROVE HostInv'
  BY <1>3 DEF HostInv, hostVars
<1>4. QED
  BY <1>1, <1>2, <1>3, ThreadFrame, WorkerFrame, StreamFrame, OtherFrame DEF Next, engineVars

(* No start-up forward is left once a real batch has been issued.          *)
LEMMA StartStep ==
  ASSUME TypeOK, HostInv, StreamInv, StartInv, Next
  PROVE  StartInv'
<1> USE RankFacts DEF TypeOK, EngineTypes, HostTypes, StreamTypes
<1>1. CASE Issue
  BY <1>1 DEF Issue, Drained, StartInv, hostVars, streamVars
<1>2. ASSUME NEW t \in Ranks, Host(t) PROVE StartInv'
  <2>1. UNCHANGED <<issued, finished>>
    BY <1>2, HostFrame DEF streamVars
  <2> USE DEF StartInv, HostInv, Goto
  <2>2. CASE Prepare(t)
    BY <2>1, <2>2 DEF Prepare
  <2>3. CASE Synchronize(t)
    BY <2>1, <2>3 DEF Synchronize
  <2>4. QED
    BY <1>2, <2>1, <2>2, <2>3 DEF Host, PutRequest, SkipClaim, StartClaim, SpinClaim,
       LaunchClaimed, SignalLayer, LaunchDummy, EndCapture
<1>3. ASSUME NEW t \in Ranks, Stream(t) PROVE StartInv'
  <2>1. UNCHANGED <<issued, prepared, hpc>>
    BY <1>3, StreamFrame DEF engineVars, hostVars
  <2>2. \A u \in Ranks : finished[u] <= finished'[u]
    <3>1. CASE EndForward(t)
      BY <3>1 DEF EndForward, StreamInv
    <3>2. QED
      BY <1>3, <3>1 DEF Stream, RunPrepare, StartForward, WaitReady, CopyOutput,
         ResetReady, ReleaseBuffer
  <2>ints. \A u \in Ranks : finished'[u] \in Int
    BY <1>3 DEF StreamInv, Stream, RunPrepare, StartForward, WaitReady, CopyOutput,
       ResetReady, ReleaseBuffer, EndForward
  <2>3. QED
    BY <2>1, <2>2, <2>ints DEF StartInv
<1>4. ASSUME UNCHANGED <<issued, hostVars, streamVars>> PROVE StartInv'
  BY <1>4 DEF StartInv, hostVars, streamVars
<1>5. QED
  BY <1>1, <1>2, <1>3, <1>4, ThreadFrame, WorkerFrame, OtherFrame DEF Next, engineVars

(* A stream runs a forward after its input preparation, one at a time.     *)
LEMMA StreamStep ==
  ASSUME TypeOK, HostInv, StreamInv, Next
  PROVE  StreamInv'
<1> USE RankFacts, ConstantsAssumption DEF TypeOK, HostTypes, StreamTypes
<1>1. CASE Issue
  BY <1>1 DEF Issue, hostVars, streamVars, StreamInv
<1>2. ASSUME NEW t \in Ranks, Host(t) PROVE StreamInv'
  <2>1. UNCHANGED <<gpc, glayer, current, finished>>
    BY <1>2, HostFrame DEF streamVars
  <2>2. \A u \in Ranks : prepared[u] <= prepared'[u] /\ launched[u] <= launched'[u]
    BY <1>2 DEF HostInv, Host, Prepare, PutRequest, SkipClaim, StartClaim, SpinClaim,
       LaunchClaimed, SignalLayer, LaunchDummy, Synchronize, EndCapture, Goto
  <2>3. \A u \in Ranks : prepared'[u] \in Int /\ launched'[u] \in Int
    BY <1>2 DEF HostInv, Host, Prepare, PutRequest, SkipClaim, StartClaim, SpinClaim,
       LaunchClaimed, SignalLayer, LaunchDummy, Synchronize, EndCapture, Goto
  <2>4. QED
    BY <2>1, <2>2, <2>3 DEF StreamInv
<1>3. ASSUME NEW t \in Ranks, Stream(t) PROVE StreamInv'
  <2>1. UNCHANGED <<prepared, launched>>
    BY <1>3, StreamFrame DEF hostVars
  <2> USE <2>1 DEF StreamInv
  <2>2. CASE RunPrepare(t)
    BY <2>2 DEF RunPrepare
  <2>3. CASE StartForward(t)
    BY <2>3 DEF StartForward
  <2>4. CASE WaitReady(t)
    BY <2>4 DEF WaitReady
  <2>5. CASE CopyOutput(t)
    BY <2>5 DEF CopyOutput
  <2>6. CASE ResetReady(t)
    BY <2>6 DEF ResetReady
  <2>7. CASE ReleaseBuffer(t)
    <3>1. UNCHANGED <<current, finished>> /\ gpc[t] = "release"
      BY <2>7 DEF ReleaseBuffer
    <3>2. glayer[t] \in Layers /\ glayer'[t] = glayer[t] + 1
      BY <2>7, PlaceFacts DEF ReleaseBuffer
    <3>3. gpc'[t] = "end" <=> glayer'[t] = NumLayers + 1
      BY <2>7, <3>2, LayerFacts DEF ReleaseBuffer
    <3>4. \A u \in Ranks : u # t => gpc'[u] = gpc[u] /\ glayer'[u] = glayer[u]
      BY <2>7 DEF ReleaseBuffer
    <3>5. QED
      BY <3>1, <3>3, <3>4
  <2>8. CASE EndForward(t)
    BY <2>8 DEF EndForward
  <2>9. QED
    BY <1>3, <2>2, <2>3, <2>4, <2>5, <2>6, <2>7, <2>8 DEF Stream
<1>4. ASSUME UNCHANGED <<hostVars, streamVars>> PROVE StreamInv'
  BY <1>4 DEF StreamInv, hostVars, streamVars
<1>5. QED
  BY <1>1, <1>2, <1>3, <1>4, ThreadFrame, WorkerFrame, OtherFrame DEF Next

-----------------------------------------------------------------------------
(* Requests and the worker.                                                *)

(* While the request thread copies or sends, the worker has published every*)
(* layer of the batch before for rank 0, and rank 0's stream has completed it.*)
LEMMA Reading ==
  ASSUME TypeOK, StreamInv, PipelineInv, ChannelInv, tpc \in {"copy", "send"}
  PROVE  /\ pipe = <<>> /\ batch = Sent
         /\ wpc = "poll" \/ (wpc = "publish" /\ wlayer = NumLayers)
         /\ finished[0] = Sent /\ current[0] = request
<1>1. /\ 0 \in Ranks /\ NumLayers \in Layers /\ NumLayers \in Nat
      /\ request \in Nat /\ batch \in Nat /\ wlayer \in Nat /\ wlayer <= NumLayers /\ target \in Nat
      /\ current[0] \in Int /\ finished[0] \in Int
  BY RankFacts, LayerFacts DEF TypeOK, ThreadTypes, WorkerTypes, StreamTypes
<1>2. Sent = request - 1 /\ Sent \in Nat /\ current[0] >= Sent + 1
  BY <1>1 DEF PipelineInv, StageInv, Sent
<1>3. finished[0] >= Sent /\ finished[0] <= current[0] /\ current[0] <= finished[0] + 1
  BY <1>1, <1>2 DEF StreamInv
<1>4. Released(0, NumLayers) >= finished[0]
  BY <1>1, <1>2, <1>3 DEF Released, Max0
<1>5. /\ Published(0, NumLayers) >= finished[0] /\ Published(0, NumLayers) <= batch
      /\ Published(0, NumLayers) \in Int
  <2>1. Released(0, NumLayers) <= Published(0, NumLayers)
    BY <1>1 DEF ChannelInv, Channel
  <2>2. QED
    BY <1>1, <1>4, <2>1, CounterFacts DEF TypeOK
<1>6. pipe = <<>> /\ batch = Sent
  BY <1>1, <1>2, <1>3, <1>5 DEF PipelineInv, SocketInv
<1>7. Published(0, NumLayers) = batch /\ finished[0] = Sent
  BY <1>1, <1>2, <1>3, <1>5, <1>6
<1>8. wpc = "poll" \/ (wpc = "publish" /\ wlayer = NumLayers)
  BY <1>1, <1>7 DEF Published
<1>9. QED
  BY <1>1, <1>2, <1>3, <1>6, <1>7, <1>8

(* The engine's next request is in the queue or has been taken.            *)
LEMMA QueueStep ==
  ASSUME TypeOK, HostInv, QueueInv, Next
  PROVE  QueueInv'
<1>1. 0 \in Ranks /\ prepared[0] \in Int /\ hpc[0] \in HostPc /\ queue \in Nat /\ request \in Nat
  BY RankFacts DEF TypeOK, HostTypes, ThreadTypes
<1>2. Queued \in Nat
  BY <1>1 DEF Queued, HostInv
<1>3. ASSUME UNCHANGED <<hostVars, queue, request>> PROVE QueueInv'
  BY <1>3 DEF QueueInv, Queued, hostVars
<1>4. ASSUME NEW t \in Ranks, Host(t) PROVE QueueInv'
  <2>1. UNCHANGED request
    BY <1>4, HostFrame
  <2>2. UNCHANGED <<queue, Queued>> \/ (queue = 0 /\ queue' = Queued + 1 /\ Queued' = Queued + 1)
    <3> USE <1>1 DEF Queued, Goto
    <3>0. hpc \in [Ranks -> HostPc] /\ prepared \in [Ranks -> Int]
      BY DEF TypeOK, HostTypes
    <3>1. CASE Prepare(t)
      <4>1. hpc[t] = "idle" /\ queue' = queue
            /\ prepared' = [prepared EXCEPT ![t] = @ + 1]
        BY <3>1 DEF Prepare, threadVars
      <4>2. CASE t # 0
        <5>1. hpc'[0] = hpc[0] /\ prepared'[0] = prepared[0]
          BY <3>0, <3>1, <4>2 DEF Prepare
        <5>2. QED
          BY <4>1, <5>1
      <4>3. CASE t = 0
        <5>1. prepared'[0] = prepared[0] + 1 /\ (prepared'[0] >= 1 => hpc'[0] = "put")
          BY <3>0, <3>1, <4>3 DEF Prepare
        <5>2. QED
          BY <4>1, <4>3, <5>1
      <4>4. QED
        BY <4>2, <4>3
    <3>2. CASE t = 0 /\ PutRequest
      <4>1. hpc[0] = "put" /\ prepared[0] >= 1 /\ prepared' = prepared
        BY <3>2 DEF PutRequest, HostInv
      <4>2. CASE queue = 0
        <5>1. queue' = prepared[0] /\ hpc'[0] = "claim"
          BY <3>0, <3>2, <4>2 DEF PutRequest
        <5>2. QED
          BY <4>1, <4>2, <5>1
      <4>3. CASE queue # 0
        BY <3>2, <4>3 DEF PutRequest
      <4>4. QED
        BY <4>2, <4>3
    <3>3. CASE ~Prepare(t) /\ ~(t = 0 /\ PutRequest)
      <4>1. UNCHANGED <<queue, prepared>>
        BY <1>4, <3>3 DEF Host, SkipClaim, StartClaim, SpinClaim, LaunchClaimed, SignalLayer,
           LaunchDummy, Synchronize, EndCapture, threadVars
      <4>2. hpc[0] = "put" <=> hpc'[0] = "put"
        BY <1>4, <3>0, <3>3 DEF Host, SkipClaim, StartClaim, SpinClaim, LaunchClaimed, SignalLayer,
           LaunchDummy, Synchronize, EndCapture
      <4>3. QED
        BY <4>1, <4>2
    <3>4. QED
      BY <3>1, <3>2, <3>3
  <2>3. QED
    BY <1>1, <1>2, <2>1, <2>2 DEF QueueInv
<1>5. ASSUME Thread PROVE QueueInv'
  <2>1. UNCHANGED Queued
    BY <1>5, ThreadFrame DEF Queued, hostVars
  <2>2. CASE TakeRequest
    BY <1>1, <1>2, <2>1, <2>2 DEF QueueInv, TakeRequest
  <2>3. CASE ~TakeRequest
    BY <1>5, <2>1, <2>3 DEF QueueInv, Thread, WaitEvent, BeginCopy, EndCopy, Send
  <2>4. QED
    BY <2>2, <2>3
<1>6. QED
  BY <1>3, <1>4, <1>5, WorkerFrame, StreamFrame, OtherFrame DEF Next, Issue, threadVars

(* The request thread stages the inputs of the request it holds.           *)
LEMMA StageStep ==
  ASSUME TypeOK, HostInv, StreamInv, PipelineInv, ChannelInv, Next
  PROVE  StageInv'
<1>1. /\ 0 \in Ranks /\ prepared[0] \in Int /\ current[0] \in Int /\ queue \in Nat /\ request \in Nat
      /\ event \in Int
  BY RankFacts DEF TypeOK, HostTypes, ThreadTypes, StreamTypes
<1>2. CASE Thread
  <2>1. UNCHANGED current
    BY <1>2, ThreadFrame DEF streamVars
  <2> USE <1>1, <2>1 DEF StageInv, PipelineInv
  <2>2. CASE TakeRequest
    BY <2>2 DEF TakeRequest
  <2>3. CASE WaitEvent
    <3>1. request <= prepared[0]
      BY <2>3 DEF WaitEvent, QueueInv, Queued
    <3>2. QED
      BY <2>3, <3>1 DEF WaitEvent
  <2>4. CASE BeginCopy
    BY <2>4 DEF BeginCopy, EventPassed
  <2>5. CASE EndCopy
    BY <2>5, Reading DEF EndCopy
  <2>6. CASE Send
    BY <2>6 DEF Send
  <2>7. QED
    BY <1>2, <2>2, <2>3, <2>4, <2>5, <2>6 DEF Thread
<1>3. ASSUME UNCHANGED <<tpc, request, event, inputs>>, current'[0] >= current[0], current'[0] \in Int
      PROVE  StageInv'
  BY <1>1, <1>3 DEF StageInv, PipelineInv
<1>4. ASSUME NEW t \in Ranks, Stream(t) PROVE StageInv'
  <2>1. current'[0] >= current[0] /\ current'[0] \in Int
    <3>1. CASE RunPrepare(t)
      BY <1>1, <3>1 DEF RunPrepare, TypeOK, StreamTypes
    <3>2. CASE ~RunPrepare(t)
      BY <1>1, <1>4, <3>2 DEF Stream, StartForward, WaitReady, CopyOutput, ResetReady,
         ReleaseBuffer, EndForward
    <3>3. QED
      BY <3>1, <3>2
  <2>2. QED
    BY <1>3, <1>4, <2>1, StreamFrame DEF threadVars
<1>5. ASSUME UNCHANGED <<tpc, request, event, inputs, streamVars>> PROVE StageInv'
  BY <1>1, <1>3, <1>5 DEF streamVars
<1>6. QED
  BY <1>2, <1>4, <1>5, HostFrame, WorkerFrame, OtherFrame DEF Next, Issue, threadVars

(* A sent request is in the socket or is the worker's batch.               *)
LEMMA SocketStep ==
  ASSUME TypeOK, HostInv, StreamInv, PipelineInv, WorkerInv, ChannelInv, Next
  PROVE  SocketInv'
<1>1. request \in Nat /\ batch \in Nat
  BY DEF TypeOK, ThreadTypes, WorkerTypes
<1>2. CASE Thread
  <2>1. UNCHANGED <<wpc, batch, wlayer>>
    BY <1>2, ThreadFrame
  <2> USE <1>1, <2>1 DEF SocketInv, PipelineInv
  <2>2. CASE TakeRequest
    <3>1. UNCHANGED <<pipe, inputs>> /\ Sent' = Sent
      BY <2>2 DEF TakeRequest, Sent, QueueInv, workerVars
    <3>2. QED
      BY <3>1
  <2>3. CASE WaitEvent \/ BeginCopy
    <3>1. UNCHANGED <<pipe, inputs>> /\ Sent' = Sent
      BY <2>3 DEF WaitEvent, BeginCopy, Sent, workerVars
    <3>2. QED
      BY <3>1
  <2>4. CASE EndCopy
    <3>1. pipe' = <<>> /\ Sent' = Sent /\ batch = Sent
      BY <2>4, Reading DEF EndCopy, Sent, workerVars
    <3>2. QED
      BY <3>1
  <2>5. CASE Send
    <3>1. pipe = <<>> /\ batch = Sent /\ (wpc = "poll" \/ (wpc = "publish" /\ wlayer = NumLayers))
      BY <2>5, Reading DEF Send
    <3>2. Sent = request - 1 /\ Sent' = request /\ inputs' = request /\ request >= 1
      BY <2>5 DEF Send, Sent, StageInv
    <3>3. pipe' = <<request>>
      BY <2>5, <3>1 DEF Send
    <3>4. QED
      BY <3>1, <3>2, <3>3
  <2>6. QED
    BY <1>2, <2>2, <2>3, <2>4, <2>5 DEF Thread
<1>3. CASE Worker
  <2>1. UNCHANGED Sent /\ UNCHANGED inputs
    BY <1>3, WorkerFrame DEF Sent, threadVars
  <2> USE <1>1, <2>1 DEF SocketInv, PipelineInv
  <2>2. CASE Receive
    <3>1. pipe = <<Sent>> /\ Sent >= 1 /\ pipe' = <<>> /\ batch' = Head(pipe)
      BY <2>2 DEF Receive
    <3>2. QED
      BY <3>1
  <2>3. CASE ~Receive
    <3>1. UNCHANGED <<pipe, batch>>
      BY <1>3, <2>3 DEF Worker, AwaitConsumed, ZeroReady, ZeroConsumed, Compute, FanOut, Publish
    <3>2. wpc = "poll" \/ (wpc = "publish" /\ wlayer = NumLayers) =>
            wpc' = "poll" \/ (wpc' = "publish" /\ wlayer' = NumLayers)
      BY <1>3, <2>3, LayerFacts DEF Worker, AwaitConsumed, ZeroReady, ZeroConsumed, Compute, FanOut, Publish
    <3>3. QED
      BY <3>1, <3>2
  <2>4. QED
    BY <2>2, <2>3
<1>4. ASSUME UNCHANGED <<tpc, request, inputs, workerVars>> PROVE SocketInv'
  BY <1>4 DEF SocketInv, PipelineInv, Sent, workerVars
<1>5. QED
  BY <1>2, <1>3, <1>4, HostFrame, StreamFrame, OtherFrame DEF Next, Issue, threadVars

(* The worker computes from its own batch's inputs and hands the result on.*)
LEMMA WorkerStep ==
  ASSUME TypeOK, HostInv, StartInv, StreamInv, PipelineInv, WorkerInv, ChannelInv, Next
  PROVE  WorkerInv'
<1> USE RankFacts, LayerFacts DEF TypeOK, WorkerTypes, ShmTypes
<1>1. ASSUME NEW t \in Ranks, Host(t) PROVE WorkerInv'
  <2>1. UNCHANGED <<inputs, wpc, batch, wlayer, target>>
    BY <1>1, HostFrame DEF workerVars
  <2>2. CASE SignalLayer(t)
    BY <2>1, <2>2, Dormant DEF SignalLayer, WorkerInv
  <2>3. CASE ~SignalLayer(t)
    <3>1. UNCHANGED shmVars
      BY <1>1, <2>3 DEF Host, Prepare, PutRequest, SkipClaim, StartClaim, SpinClaim,
         LaunchClaimed, LaunchDummy, Synchronize, EndCapture
    <3>2. QED
      BY <2>1, <3>1 DEF WorkerInv, shmVars
  <2>4. QED
    BY <2>2, <2>3
<1>2. ASSUME Thread PROVE WorkerInv'
  <2>1. UNCHANGED <<wpc, batch, wlayer, target, shmVars>>
    BY <1>2, ThreadFrame
  <2>2. CASE EndCopy
    BY <2>1, <2>2, Reading DEF EndCopy, WorkerInv, shmVars
  <2>3. CASE ~EndCopy
    <3>1. UNCHANGED inputs
      BY <1>2, <2>3 DEF Thread, TakeRequest, WaitEvent, BeginCopy, Send
    <3>2. QED
      BY <2>1, <3>1 DEF WorkerInv, shmVars
  <2>4. QED
    BY <2>2, <2>3
<1>3. ASSUME Worker PROVE WorkerInv'
  <2> USE DEF WorkerInv
  <2>1. CASE Receive
    BY <2>1 DEF Receive, PipelineInv, SocketInv, threadVars
  <2>2. CASE AwaitConsumed
    BY <2>2 DEF AwaitConsumed, AllConsumed, threadVars, shmVars
  <2>3. CASE ZeroReady
    BY <2>3 DEF ZeroReady, threadVars
  <2>4. CASE ZeroConsumed
    BY <2>4 DEF ZeroConsumed, MoreTargets, threadVars
  <2>5. CASE Compute
    <3>1. TPSize > 1 \/ \A t \in Ranks : t = 0
      BY ConstantsAssumption DEF Ranks
    <3>2. QED
      BY <2>5, <3>1 DEF Compute, threadVars
  <2>6. CASE FanOut
    <3>1. target + 1 < TPSize \/ \A t \in Ranks : t <= target
      BY ConstantsAssumption DEF Ranks
    <3>2. ASSUME NEW t \in Ranks, t <= target PROVE buffer'[t][wlayer] = batch
      <4>1. buffer[0][wlayer] = batch
        BY <2>6 DEF FanOut
      <4>2. CASE t = target
        BY <2>6, <4>1, <4>2 DEF FanOut
      <4>3. CASE t # target
        <5>1. buffer'[t] = buffer[t]
          BY <2>6, <4>3 DEF FanOut
        <5>2. QED
          BY <2>6, <3>2, <4>3, <5>1 DEF FanOut
      <4>4. QED
        BY <4>2, <4>3
    <3>3. UNCHANGED <<batch, wlayer, inputs>> /\ batch >= 1 /\ (wlayer < NumLayers => inputs = batch)
      BY <2>6 DEF FanOut, threadVars
    <3>4. \/ wpc' = "fanOut" /\ target' = target + 1
          \/ wpc' = "publish" /\ \A t \in Ranks : t <= target
      BY <2>6, <3>1 DEF FanOut, MoreTargets
    <3>5. CASE wpc' = "fanOut" /\ target' = target + 1
      BY <3>2, <3>3, <3>5
    <3>6. CASE wpc' = "publish" /\ \A t \in Ranks : t <= target
      BY <3>2, <3>3, <3>6
    <3>7. QED
      BY <3>4, <3>5, <3>6
  <2>7. CASE Publish
    BY <2>7 DEF Publish, threadVars
  <2>8. QED
    BY <1>3, <2>1, <2>2, <2>3, <2>4, <2>5, <2>6, <2>7 DEF Worker
<1>4. ASSUME NEW t \in Ranks, Stream(t) PROVE WorkerInv'
  <2>1. UNCHANGED <<inputs, wpc, batch, wlayer, target, buffer>>
    BY <1>4, StreamFrame DEF workerVars, threadVars
  <2>2. CASE ResetReady(t)
    BY <2>1, <2>2 DEF ResetReady, WorkerInv
  <2>3. CASE ReleaseBuffer(t)
    BY <2>1, <2>3 DEF ReleaseBuffer, WorkerInv
  <2>4. QED
    BY <1>4, <2>1, <2>2, <2>3 DEF Stream, RunPrepare, StartForward, WaitReady, CopyOutput,
       EndForward, shmVars, WorkerInv
<1>5. ASSUME UNCHANGED <<threadVars, workerVars, shmVars>> PROVE WorkerInv'
  BY <1>5 DEF WorkerInv, threadVars, workerVars, shmVars
<1>6. QED
  BY <1>1, <1>2, <1>3, <1>4, <1>5, OtherFrame DEF Next, Issue

-----------------------------------------------------------------------------
(* The buffers.                                                            *)

(* No rank enqueues a real forward before its buffers have been claimed.   *)
LEMMA ClaimStep ==
  ASSUME TypeOK, HostInv, StartInv, StreamInv, PipelineInv, WorkerInv, ChannelInv, ClaimInv, Next
  PROVE  ClaimInv'
<1>1. CASE Worker
  <2>1. UNCHANGED <<launched, hpc, hlayer>>
    BY <1>1, WorkerFrame DEF hostVars
  <2>2. ASSUME NEW t \in Ranks, NEW l \in Layers, Claimed(t, l) >= 1 PROVE Claimed(t, l)' >= 1
    <3>1. Claimed(t, l)' = Claimed(t, l) \/ Claimed(t, l)' = Claimed(t, l) + 1
      BY <1>1, ReceiveCounters, ZeroConsumedCounters, PublishCounters, OtherCounters DEF Worker, TypeOK
    <3>2. Claimed(t, l) \in Int
      BY CounterFacts DEF TypeOK
    <3>3. QED
      BY <3>1, <3>2, <2>2
  <2>3. QED
    BY <2>1, <2>2 DEF ClaimInv
<1>2. ASSUME UNCHANGED <<wpc, batch, wlayer, target>>,
             ASSUME NEW t \in Ranks, NEW l \in Layers,
                    launched'[t] >= 1 \/ (hpc'[t] = "spin" /\ l < hlayer'[t])
             PROVE  Claimed(t, l) >= 1
      PROVE  ClaimInv'
  BY <1>2, ClaimedFrame DEF ClaimInv
<1>3. ASSUME UNCHANGED <<hostVars, wpc, batch, wlayer, target>> PROVE ClaimInv'
  BY <1>2, <1>3 DEF ClaimInv, hostVars
<1>4. ASSUME NEW u \in Ranks, Host(u), NEW t \in Ranks, NEW l \in Layers,
             launched'[t] >= 1 \/ (hpc'[t] = "spin" /\ l < hlayer'[t])
      PROVE  Claimed(t, l) >= 1
  <2> USE DEF TypeOK, HostTypes, Goto, ClaimInv, HostInv
  <2>1. CASE Prepare(u)
    BY <1>4, <2>1 DEF Prepare
  <2>2. CASE u = 0 /\ PutRequest
    BY <1>4, <2>2 DEF PutRequest
  <2>3. CASE SkipClaim(u)
    BY <1>4, <2>3 DEF SkipClaim, MustClaim
  <2>4. CASE StartClaim(u)
    BY <1>4, <2>4, LayerFacts DEF StartClaim
  <2>5. CASE SpinClaim(u)
    <3>1. CASE t = u /\ l = hlayer[u]
      <4>1. Claimed(t, l) = Released(t, l) + 1
        BY <2>5, <3>1 DEF SpinClaim, ChannelInv, Channel
      <4>2. QED
        BY <4>1, CounterFacts
    <3>2. CASE ~(t = u /\ l = hlayer[u])
      BY <1>4, <2>5, <3>2, LayerFacts DEF SpinClaim
    <3>3. QED
      BY <3>1, <3>2
  <2>6. CASE LaunchClaimed(u)
    BY <1>4, <2>6, LayerFacts DEF LaunchClaimed
  <2>7. CASE SignalLayer(u)
    BY <1>4, <2>7 DEF SignalLayer
  <2>8. CASE LaunchDummy(u)
    BY <1>4, <2>8 DEF LaunchDummy
  <2>9. CASE Synchronize(u)
    BY <1>4, <2>9 DEF Synchronize
  <2>10. CASE EndCapture(u)
    BY <1>4, <2>10 DEF EndCapture
  <2>11. QED
    BY <1>4, <2>1, <2>2, <2>3, <2>4, <2>5, <2>6, <2>7, <2>8, <2>9, <2>10 DEF Host
<1>5. ASSUME NEW u \in Ranks, Host(u) PROVE ClaimInv'
  BY <1>2, <1>4, <1>5, HostFrame DEF workerVars
<1>6. CASE Issue
  BY <1>3, <1>6 DEF Issue, workerVars
<1>7. QED
  BY <1>1, <1>3, <1>5, <1>6, ThreadFrame, StreamFrame, OtherFrame DEF Next, workerVars

(* The flags of a buffer always encode where its three counters are.       *)
LEMMA ChannelStep ==
  ASSUME TypeOK, HostInv, StartInv, ClaimInv, StreamInv, PipelineInv, WorkerInv, ChannelInv, CopyInv, Next
  PROVE  ChannelInv'
<1>1. ASSUME UNCHANGED <<wpc, batch, wlayer, target, shmVars, gpc, glayer, current, finished>>
      PROVE  ChannelInv'
  BY <1>1, ClaimedFrame, ReleasedFrame DEF ChannelInv, Channel, shmVars
<1>2. ASSUME NEW u \in Ranks, Host(u) PROVE ChannelInv'
  <2>1. UNCHANGED <<workerVars, streamVars>>
    BY <1>2, HostFrame
  <2>2. CASE SignalLayer(u)
    <3>1. \A t \in Ranks, l \in Layers : Claimed(t, l)' = 0 /\ Published(t, l)' = 0
      BY <2>1, <2>2, Dormant, ClaimedFrame DEF SignalLayer, workerVars
    <3>2. \A t \in Ranks : finished[t] <= 0 /\ current[t] <= 0
      BY <2>2 DEF SignalLayer, StartInv, HostInv, StreamInv, TypeOK, EngineTypes, HostTypes, StreamTypes
    <3>3. \A t \in Ranks, l \in Layers : Released(t, l)' = 0
      <4>1. \A t \in Ranks : Max0(current[t]) = 0 /\ Max0(finished[t]) = 0
        BY <3>2 DEF Max0, TypeOK, StreamTypes
      <4>2. QED
        BY <2>1, <4>1 DEF Released, streamVars
    <3>4. \A t \in Ranks, l \in Layers : consumed'[t][l] = 1
      <4>1. \A t \in Ranks, l \in Layers : consumed[t][l] = 1
        BY <2>1, <2>2, <3>1, <3>3, ClaimedFrame, ReleasedFrame, CounterFacts
           DEF ChannelInv, Channel, TypeOK, ShmTypes, workerVars, streamVars
      <4>2. QED
        BY <2>2, <4>1 DEF SignalLayer, TypeOK, ShmTypes
    <3>5. QED
      BY <3>1, <3>3, <3>4 DEF ChannelInv, Channel
  <2>3. CASE ~SignalLayer(u)
    <3>1. UNCHANGED shmVars
      BY <1>2, <2>3 DEF Host, Prepare, PutRequest, SkipClaim, StartClaim, SpinClaim,
         LaunchClaimed, LaunchDummy, Synchronize, EndCapture
    <3>2. QED
      BY <1>1, <2>1, <3>1 DEF workerVars, streamVars
  <2>4. QED
    BY <2>2, <2>3
<1>3. ASSUME Worker PROVE ChannelInv'
  <2> SUFFICES ASSUME NEW t \in Ranks, NEW l \in Layers PROVE Channel(t, l)'
    BY DEF ChannelInv
  <2>1. Released(t, l)' = Released(t, l) /\ UNCHANGED <<gpc, glayer>>
    BY <1>3, WorkerFrame, ReleasedFrame DEF streamVars
  <2>2. /\ Claimed(t, l) \in Int /\ Published(t, l) \in Int /\ Released(t, l) \in Nat
        /\ Published(t, l) <= Claimed(t, l) /\ Claimed(t, l) <= batch /\ batch - 1 <= Published(t, l)
    BY CounterFacts DEF TypeOK
  <2>3. batch \in Nat /\ wlayer \in Layers /\ target \in Ranks /\ 0 \in Ranks
    BY RankFacts DEF TypeOK, WorkerTypes
  <2>4. /\ ready \in [Ranks -> [Layers -> {0, 1}]] /\ consumed \in [Ranks -> [Layers -> {0, 1}]]
        /\ buffer \in [Ranks -> [Layers -> Int]]
    BY DEF TypeOK, ShmTypes
  <2>5. Channel(t, l)
    BY DEF ChannelInv
  <2>bounds. /\ Released(t, l) <= Published(t, l) /\ Claimed(t, l) <= Released(t, l) + 1
             /\ consumed[t][l] = 1 => Claimed(t, l) <= Released(t, l)
    BY <2>2, <2>5 DEF Channel
  <2>gaps. /\ consumed[t][l] = 1 /\ Claimed(t, l) = Published(t, l) =>
               Claimed(t, l) = Released(t, l) /\ Published(t, l) = Released(t, l)
           /\ Claimed(t, l) = batch /\ Published(t, l) = batch - 1 => Released(t, l) = batch - 1
    BY <2>2, <2>3, <2>bounds
  <2> USE <2>1, <2>2, <2>3, <2>4, <2>5
  <2>6. CASE Receive
    BY <2>6, ReceiveCounters DEF Receive, shmVars, Channel, TypeOK
  <2>7. CASE AwaitConsumed
    BY <2>7, OtherCounters DEF AwaitConsumed, shmVars, Channel, TypeOK
  <2>8. CASE ZeroReady
    <3>1. Claimed(t, l)' = Claimed(t, l) /\ Published(t, l)' = Published(t, l)
      BY <2>8, OtherCounters DEF TypeOK
    <3>2. ~(t = target /\ l = wlayer) => ready'[t][l] = ready[t][l]
      BY <2>8 DEF ZeroReady
    <3>3. t = target /\ l = wlayer =>
            /\ ready'[t][l] = 0 /\ consumed[t][l] = 1
            /\ Published(t, l) = batch - 1 /\ Claimed(t, l) = batch - 1
      BY <2>8, LayerFacts, RankFacts DEF ZeroReady, WorkerInv, Claimed, Published
    <3>4. UNCHANGED <<consumed, buffer>>
      BY <2>8 DEF ZeroReady
    <3>5. QED
      BY <3>1, <3>2, <3>3, <3>4 DEF Channel
  <2>9. CASE ZeroConsumed
    <3>1. /\ Claimed(t, l)' = IF t = target /\ l = wlayer THEN Claimed(t, l) + 1 ELSE Claimed(t, l)
          /\ Published(t, l)' = Published(t, l)
          /\ l = wlayer => Published(t, l) = batch - 1
          /\ t = target /\ l = wlayer => Claimed(t, l) = batch - 1
      BY <2>9, ZeroConsumedCounters DEF TypeOK
    <3>2. ~(t = target /\ l = wlayer) => consumed'[t][l] = consumed[t][l]
      BY <2>9 DEF ZeroConsumed
    <3>3. t = target /\ l = wlayer => consumed'[t][l] = 0 /\ ready[t][l] = 0 /\ consumed[t][l] = 1
      BY <2>9, RankFacts DEF ZeroConsumed, WorkerInv
    <3>4. UNCHANGED <<ready, buffer>>
      BY <2>9 DEF ZeroConsumed
    <3>5. CASE t = target /\ l = wlayer
      <4>1. Claimed(t, l) = Released(t, l) /\ Published(t, l) = Released(t, l)
        BY <2>gaps, <3>1, <3>3, <3>5
      <4>2. Claimed(t, l)' = Released(t, l) + 1
        BY <3>1, <3>5, <4>1
      <4>3. QED
        BY <3>1, <3>3, <3>4, <3>5, <4>1, <4>2 DEF Channel
    <3>6. CASE ~(t = target /\ l = wlayer)
      BY <3>1, <3>2, <3>4, <3>6 DEF Channel
    <3>7. QED
      BY <3>5, <3>6
  <2>10. CASE Compute \/ FanOut
    <3>1. Claimed(t, l)' = Claimed(t, l) /\ Published(t, l)' = Published(t, l)
      BY <2>10, OtherCounters DEF TypeOK
    <3>2. UNCHANGED <<ready, consumed>>
      BY <2>10 DEF Compute, FanOut
    <3>3. l # wlayer => buffer'[t][l] = buffer[t][l]
      <4>1. \E v, r : r \in Ranks /\ buffer' = [buffer EXCEPT ![r] = [buffer[r] EXCEPT ![wlayer] = v]]
        BY <2>10 DEF Compute, FanOut
      <4>2. QED
        BY <4>1
    <3>4. l = wlayer => Published(t, l) = batch - 1 /\ Claimed(t, l) = batch
      BY <2>10, LayerFacts DEF Compute, FanOut, Published, Claimed
    <3>5. QED
      BY <3>1, <3>2, <3>3, <3>4 DEF Channel
  <2>11. CASE Publish
    <3>1. /\ Published(t, l)' = IF t = target /\ l = wlayer THEN Published(t, l) + 1 ELSE Published(t, l)
          /\ Claimed(t, l)' = Claimed(t, l)
          /\ l = wlayer => Claimed(t, l) = batch
          /\ t = target /\ l = wlayer => Published(t, l) = batch - 1
      BY <2>11, PublishCounters DEF TypeOK
    <3>2. ~(t = target /\ l = wlayer) => ready'[t][l] = ready[t][l]
      BY <2>11 DEF Publish
    <3>3. t = target /\ l = wlayer => ready'[t][l] = 1 /\ buffer[t][l] = batch
      BY <2>11 DEF Publish, WorkerInv
    <3>4. UNCHANGED <<consumed, buffer>>
      BY <2>11 DEF Publish
    <3>5. t = target /\ l = wlayer => ~(gpc[t] = "release" /\ glayer[t] = l)
      <4>1. SUFFICES ASSUME t = target, l = wlayer, gpc[t] = "release", glayer[t] = l PROVE FALSE
        OBVIOUS
      <4>2. current[t] >= 1 /\ current[t] = finished[t] + 1 /\ finished[t] \in Int /\ current[t] \in Int
        BY <2>11, <4>1, Active, Busy DEF Publish, StreamInv, TypeOK, StreamTypes
      <4>3. Published(t, l) = current[t]
        BY <4>1, <4>2 DEF CopyInv
      <4>4. Released(t, l) = finished[t]
        BY <4>1, <4>2, LayerFacts DEF Released, Max0
      <4>5. QED
        BY <3>1, <4>1, <4>2, <4>3, <4>4 DEF Channel
    <3>6. CASE t = target /\ l = wlayer
      <4>1. Claimed(t, l) = batch /\ Published(t, l) = batch - 1 /\ Released(t, l) = batch - 1
        BY <2>gaps, <3>1, <3>6
      <4>2. Published(t, l)' = batch /\ Claimed(t, l)' = batch /\ Released(t, l)' = batch - 1
        BY <3>1, <3>6, <4>1
      <4>3. consumed[t][l] = 0
        BY <4>1 DEF Channel
      <4>4. QED
        BY <3>3, <3>4, <3>5, <3>6, <4>2, <4>3 DEF Channel
    <3>7. CASE ~(t = target /\ l = wlayer)
      BY <3>1, <3>2, <3>4, <3>7 DEF Channel
    <3>8. QED
      BY <3>6, <3>7
  <2>12. QED
    BY <1>3, <2>6, <2>7, <2>8, <2>9, <2>10, <2>11 DEF Worker
<1>4. ASSUME NEW u \in Ranks, Stream(u) PROVE ChannelInv'
  <2> SUFFICES ASSUME NEW t \in Ranks, NEW l \in Layers PROVE Channel(t, l)'
    BY DEF ChannelInv
  <2>1. /\ Claimed(t, l)' = Claimed(t, l) /\ Published(t, l)' = Published(t, l)
        /\ UNCHANGED <<batch, buffer>>
    BY <1>4, StreamFrame, ClaimedFrame DEF workerVars
  <2>2. /\ Claimed(t, l) \in Int /\ Published(t, l) \in Int /\ Released(t, l) \in Nat
        /\ Published(t, l) <= Claimed(t, l) /\ Claimed(t, l) <= batch /\ batch - 1 <= Published(t, l)
    BY CounterFacts DEF TypeOK
  <2>3. /\ gpc \in [Ranks -> StreamPc] /\ glayer \in [Ranks -> 1 .. NumLayers + 1]
        /\ current \in [Ranks -> Int] /\ finished \in [Ranks -> Int]
    BY DEF TypeOK, StreamTypes
  <2>4. ready \in [Ranks -> [Layers -> {0, 1}]] /\ consumed \in [Ranks -> [Layers -> {0, 1}]]
    BY DEF TypeOK, ShmTypes
  <2>5. Channel(t, l)
    BY DEF ChannelInv
  <2> USE <2>1, <2>2, <2>3, <2>4, <2>5
  <2>6. CASE RunPrepare(u)
    <3>1. Released(t, l)' = Released(t, l)
      BY <2>6 DEF RunPrepare, Released
    <3>2. QED
      BY <2>6, <3>1 DEF RunPrepare, Channel, shmVars
  <2>7. CASE StartForward(u)
    <3>1. Released(t, l)' = Released(t, l)
      BY <2>7, LayerFacts DEF StartForward, Released
    <3>2. gpc[t] = "release" /\ glayer[t] = l <=> gpc'[t] = "release" /\ glayer'[t] = l
      BY <2>7 DEF StartForward
    <3>3. QED
      BY <2>7, <3>1, <3>2 DEF StartForward, Channel, shmVars
  <2>8. CASE WaitReady(u) \/ CopyOutput(u)
    <3>1. Released(t, l)' = Released(t, l)
      BY <2>8 DEF WaitReady, CopyOutput, Released
    <3>2. gpc[t] = "release" <=> gpc'[t] = "release"
      BY <2>8 DEF WaitReady, CopyOutput
    <3>3. QED
      BY <2>8, <3>1, <3>2 DEF WaitReady, CopyOutput, Channel, shmVars
  <2>9. CASE ResetReady(u)
    <3>1. Released(t, l)' = Released(t, l)
      BY <2>9 DEF ResetReady, Released
    <3>2. ~(t = u /\ l = glayer[u]) =>
            /\ ready'[t][l] = ready[t][l]
            /\ gpc[t] = "release" /\ glayer[t] = l <=> gpc'[t] = "release" /\ glayer'[t] = l
      BY <2>9 DEF ResetReady
    <3>3. t = u /\ l = glayer[u] => ready'[t][l] = 0 /\ gpc'[t] = "release" /\ glayer'[t] = l
      BY <2>9 DEF ResetReady
    <3>4. QED
      BY <2>9, <3>1, <3>2, <3>3 DEF ResetReady, Channel
  <2>10. CASE ReleaseBuffer(u)
    <3>1. CASE ~(t = u /\ l = glayer[u])
      <4>1. Released(t, l)' = Released(t, l)
        <5>1. CASE t # u
          BY <2>10, <5>1 DEF ReleaseBuffer, Released
        <5>2. CASE t = u
          <6>1. glayer'[t] = glayer[t] + 1 /\ gpc'[t] # "idle" /\ gpc[t] # "idle" /\ glayer[t] \in Nat
                /\ UNCHANGED <<current, finished>>
            BY <2>10, <5>2, PlaceFacts DEF ReleaseBuffer
          <6>2. l \in Nat /\ l # glayer[t]
            BY <3>1, <5>2, LayerFacts
          <6>3. CASE l < glayer[t]
            BY <6>1, <6>2, <6>3 DEF Released
          <6>4. CASE ~(l < glayer[t])
            <7>1. ASSUME NEW m \in Nat, l # m, ~(l < m) PROVE ~(l < m + 1)
              BY <6>2, <7>1
            <7>2. ~(l < glayer'[t])
              BY <6>1, <6>2, <6>4, <7>1
            <7>3. QED
              BY <6>1, <6>4, <7>2 DEF Released
          <6>5. QED
            BY <6>3, <6>4
        <5>3. QED
          BY <5>1, <5>2
      <4>2. consumed'[t][l] = consumed[t][l] /\ UNCHANGED ready
        BY <2>10, <3>1 DEF ReleaseBuffer
      <4>3. gpc[t] = "release" /\ glayer[t] = l <=> gpc'[t] = "release" /\ glayer'[t] = l
        BY <2>10, <3>1, PlaceFacts DEF ReleaseBuffer
      <4>4. QED
        BY <4>1, <4>2, <4>3 DEF Channel
    <3>2. CASE t = u /\ l = glayer[u]
      <4>1. /\ gpc[t] = "release" /\ current[t] = finished[t] + 1
            /\ current[t] \in Int /\ finished[t] \in Int
        BY <2>10, <3>2 DEF ReleaseBuffer, StreamInv
      <4>2. Released(t, l) = Max0(finished[t]) /\ Released(t, l)' = Max0(current[t])
        BY <2>10, <3>2, LayerFacts DEF ReleaseBuffer, Released
      <4>3. consumed'[t][l] = 1 /\ UNCHANGED ready /\ gpc'[t] # "release"
        BY <2>10, <3>2 DEF ReleaseBuffer
      <4>4. CASE current[t] >= 1
        <5>1. Published(t, l) = current[t]
          BY <3>2, <4>1, <4>4 DEF CopyInv
        <5>2. Released(t, l) = current[t] - 1 /\ Released(t, l)' = current[t]
          BY <4>1, <4>2, <4>4, Max0Facts
        <5>3. ready[t][l] = 0
          BY <3>2, <4>1, <4>4, <5>1 DEF Channel
        <5>4. Claimed(t, l) = current[t]
          BY <5>1, <5>2 DEF Channel
        <5>5. QED
          BY <4>3, <5>1, <5>2, <5>3, <5>4 DEF Channel
      <4>5. CASE current[t] < 1
        <5>1. batch = 0
          BY <4>1, <4>5, Busy DEF TypeOK, WorkerTypes
        <5>2. Released(t, l) = 0 /\ Released(t, l)' = 0
          BY <4>1, <4>2, <4>5 DEF Max0
        <5>3. QED
          BY <4>3, <5>1, <5>2 DEF Channel
      <4>6. QED
        BY <4>1, <4>4, <4>5
    <3>3. QED
      BY <3>1, <3>2
  <2>11. CASE EndForward(u)
    <3>1. Released(t, l)' = Released(t, l)
      <4>1. t = u => glayer[t] = NumLayers + 1
        BY <2>11 DEF EndForward, StreamInv
      <4>2. QED
        BY <2>11, <4>1, LayerFacts DEF EndForward, Released
    <3>2. gpc[t] = "release" <=> gpc'[t] = "release"
      BY <2>11 DEF EndForward
    <3>3. QED
      BY <2>11, <3>1, <3>2 DEF EndForward, Channel, shmVars
  <2>12. QED
    BY <1>4, <2>6, <2>7, <2>8, <2>9, <2>10, <2>11 DEF Stream
<1>5. QED
  BY <1>1, <1>2, <1>3, <1>4, ThreadFrame, OtherFrame DEF Next, Issue, workerVars, streamVars

(* A stream that has passed a layer's wait copies the layer's own batch.   *)
LEMMA CopyStep ==
  ASSUME TypeOK, HostInv, StartInv, ClaimInv, StreamInv, PipelineInv, WorkerInv, ChannelInv, CopyInv, Next
  PROVE  CopyInv'
<1>1. ASSUME UNCHANGED <<gpc, glayer, current, device>>,
             \A t \in Ranks, l \in Layers :
               gpc[t] \in {"copy", "reset", "release"} /\ current[t] >= 1 /\ glayer[t] = l =>
                 Published(t, l)' = Published(t, l)
      PROVE  CopyInv'
  <2>1. \A t \in Ranks : gpc[t] \in {"copy", "reset", "release"} => glayer[t] \in Layers
    BY PlaceFacts DEF StreamInv, TypeOK, StreamTypes
  <2>2. \A t \in Ranks :
          gpc[t] \in {"copy", "reset", "release"} /\ current[t] >= 1 =>
            Published(t, glayer[t])' = Published(t, glayer[t])
    BY <1>1, <2>1
  <2>3. QED
    BY <1>1, <2>2 DEF CopyInv
<1>2. ASSUME UNCHANGED <<wpc, batch, wlayer, target, streamVars>> PROVE CopyInv'
  BY <1>2, <1>1, ClaimedFrame DEF streamVars
<1>3. ASSUME Worker PROVE CopyInv'
  <2>1. ASSUME NEW t \in Ranks, NEW l \in Layers,
               gpc[t] \in {"copy", "reset", "release"}, current[t] >= 1, glayer[t] = l
        PROVE  Published(t, l)' = Published(t, l)
    <3>1. CASE Publish
      <4>1. /\ Published(t, l)' = Published(t, l)
            \/ (Claimed(t, l) = batch /\ Published(t, l) = batch - 1)
        BY <3>1, PublishCounters DEF TypeOK
      <4>2. /\ Claimed(t, l) \in Int /\ Published(t, l) \in Int /\ Released(t, l) \in Nat
            /\ batch \in Nat
        BY CounterFacts DEF TypeOK, WorkerTypes
      <4>3. Claimed(t, l) <= Released(t, l) + 1
        BY DEF ChannelInv, Channel
      <4>4. Released(t, l) = current[t] - 1 /\ Published(t, l) = current[t]
        <5>1. /\ current[t] = finished[t] + 1 /\ finished[t] \in Int /\ current[t] \in Int
              /\ Published(t, l) = current[t]
          BY <2>1 DEF CopyInv, StreamInv, TypeOK, StreamTypes
        <5>2. Released(t, l) = Max0(finished[t])
          BY <2>1, LayerFacts DEF Released
        <5>3. QED
          BY <2>1, <5>1, <5>2, Max0Facts
      <4>5. current[t] \in Int
        BY DEF TypeOK, StreamTypes
      <4>6. ~(Claimed(t, l) = batch /\ Published(t, l) = batch - 1)
        BY <4>2, <4>3, <4>4, <4>5
      <4>7. QED
        BY <4>1, <4>6
    <3>2. QED
      BY <1>3, <3>1, ReceiveCounters, ZeroConsumedCounters, OtherCounters DEF Worker, TypeOK
  <2>2. QED
    BY <1>1, <1>3, <2>1, WorkerFrame DEF streamVars
<1>4. ASSUME NEW u \in Ranks, Stream(u) PROVE CopyInv'
  <2> SUFFICES ASSUME NEW t \in Ranks, gpc'[t] # "idle", current'[t] >= 1
               PROVE  /\ \A l \in Layers : l < glayer'[t] => device'[t][l] = current'[t]
                      /\ gpc'[t] \in {"copy", "reset", "release"} =>
                           Published(t, glayer'[t]) = current'[t]
                      /\ gpc'[t] \in {"reset", "release"} => device'[t][glayer'[t]] = current'[t]
    <3>1. \A t, l : Published(t, l)' = Published(t, l)
      BY <1>4, StreamFrame, ClaimedFrame DEF workerVars
    <3>2. QED
      BY <3>1 DEF CopyInv
  <2>1. /\ gpc \in [Ranks -> StreamPc] /\ glayer \in [Ranks -> 1 .. NumLayers + 1]
        /\ current \in [Ranks -> Int] /\ finished \in [Ranks -> Int]
        /\ device \in [Ranks -> [Layers -> Int]]
    BY DEF TypeOK, StreamTypes
  <2>2. CASE gpc'[t] = gpc[t] /\ glayer'[t] = glayer[t] /\ current'[t] = current[t] /\ device'[t] = device[t]
    BY <2>2 DEF CopyInv
  <2>3. CASE RunPrepare(u)
    BY <2>1, <2>2, <2>3 DEF RunPrepare
  <2>4. CASE StartForward(u)
    BY <2>1, <2>2, <2>4, LayerFacts DEF StartForward
  <2>5. CASE WaitReady(u) /\ t = u
    <3>1. /\ gpc[t] = "wait" /\ ready[t][glayer[t]] = 1 /\ UNCHANGED <<glayer, current, device>>
          /\ gpc'[t] = "copy"
      BY <2>1, <2>5 DEF WaitReady, ReadySet
    <3>2. glayer[t] \in Layers /\ current[t] = finished[t] + 1 /\ launched[t] >= 1
      BY <2>1, <3>1, PlaceFacts DEF StreamInv, TypeOK, HostTypes
    <3>3. Claimed(t, glayer[t]) >= 1
      BY <3>2 DEF ClaimInv
    <3>4. Published(t, glayer[t]) = Released(t, glayer[t]) + 1
      BY <3>1, <3>2, <3>3 DEF ChannelInv, Channel
    <3>5. Released(t, glayer[t]) = Max0(finished[t])
      BY <2>1, <3>2, LayerFacts DEF Released
    <3>6. Max0(finished[t]) = finished[t]
      BY <2>1, <3>1, <3>2, Max0Facts
    <3>7. QED
      BY <3>1, <3>2, <3>4, <3>5, <3>6 DEF CopyInv
  <2>6. CASE CopyOutput(u) /\ t = u
    <3>1. gpc[t] = "copy" /\ gpc'[t] = "reset" /\ UNCHANGED <<glayer, current>>
      BY <2>1, <2>6 DEF CopyOutput
    <3>2. glayer[t] \in Layers /\ current[t] = finished[t] + 1
      BY <2>1, <3>1, PlaceFacts DEF StreamInv
    <3>3. Published(t, glayer[t]) = current[t]
      BY <3>1 DEF CopyInv
    <3>4. Released(t, glayer[t]) = Max0(finished[t])
      BY <2>1, <3>2, LayerFacts DEF Released
    <3>5. Max0(finished[t]) = finished[t]
      BY <2>1, <3>1, <3>2, Max0Facts
    <3>6. buffer[t][glayer[t]] = current[t]
      BY <3>2, <3>3, <3>4, <3>5 DEF ChannelInv, Channel
    <3>7. /\ device'[t][glayer[t]] = current[t]
          /\ \A l \in Layers : l # glayer[t] => device'[t][l] = device[t][l]
      BY <2>1, <2>6, <3>2, <3>6 DEF CopyOutput
    <3>8. QED
      BY <3>1, <3>2, <3>3, <3>7, LayerFacts DEF CopyInv
  <2>7. CASE ResetReady(u) /\ t = u
    BY <2>1, <2>7 DEF ResetReady, CopyInv
  <2>8. CASE ReleaseBuffer(u) /\ t = u
    <3>1. /\ gpc[t] = "release" /\ UNCHANGED <<current, device>> /\ gpc'[t] \in {"wait", "end"}
          /\ glayer'[t] = glayer[t] + 1
      BY <2>1, <2>8 DEF ReleaseBuffer
    <3>2. \A l \in Layers : l < glayer[t] + 1 => l < glayer[t] \/ l = glayer[t]
      <4>1. glayer[t] \in Nat /\ Layers \subseteq Nat
        BY <2>1, PlaceFacts, LayerFacts
      <4>2. QED
        BY <4>1
    <3>3. QED
      BY <3>1, <3>2 DEF CopyInv
  <2>9. CASE EndForward(u)
    BY <2>1, <2>2, <2>9 DEF EndForward
  <2>10. CASE t # u /\ (WaitReady(u) \/ CopyOutput(u) \/ ResetReady(u) \/ ReleaseBuffer(u))
    BY <2>1, <2>2, <2>10 DEF WaitReady, CopyOutput, ResetReady, ReleaseBuffer
  <2>11. QED
    BY <1>4, <2>3, <2>4, <2>5, <2>6, <2>7, <2>8, <2>9, <2>10 DEF Stream
<1>5. QED
  BY <1>2, <1>3, <1>4, HostFrame, ThreadFrame, OtherFrame DEF Next, Issue, workerVars

(* A completed forward has used what its stream copied.                    *)
LEMMA FreshStep ==
  ASSUME TypeOK, StreamInv, CopyInv, FreshOutputs, Next
  PROVE  FreshOutputs'
<1>1. ASSUME UNCHANGED <<finished, used>> PROVE FreshOutputs'
  BY <1>1 DEF FreshOutputs
<1>2. ASSUME NEW u \in Ranks, EndForward(u) PROVE FreshOutputs'
  <2>1. /\ finished \in [Ranks -> Int] /\ used \in [Ranks -> [Layers -> Int]]
        /\ glayer[u] = NumLayers + 1 /\ gpc[u] = "end"
    BY <1>2 DEF TypeOK, StreamTypes, EndForward, StreamInv
  <2>2. current[u] >= 1 => \A l \in Layers : device[u][l] = current[u]
    BY <2>1, LayerFacts DEF CopyInv
  <2>3. QED
    BY <1>2, <2>1, <2>2 DEF EndForward, FreshOutputs
<1>3. ASSUME NEW u \in Ranks, Stream(u) PROVE FreshOutputs'
  BY <1>1, <1>2, <1>3 DEF Stream, RunPrepare, StartForward, WaitReady, CopyOutput, ResetReady,
     ReleaseBuffer
<1>4. QED
  BY <1>1, <1>3, HostFrame, ThreadFrame, WorkerFrame, OtherFrame DEF Next, Issue, streamVars

-----------------------------------------------------------------------------
(* The invariant.                                                          *)

(* The initial state satisfies the invariant.                              *)
LEMMA InitInv ==
  ASSUME Init
  PROVE  IInv
<1> USE ConstantsAssumption, RankFacts, PlaceFacts, LayerFacts DEF Init
<1>1. TypeOK
  <2>1. EngineTypes
    <3>1. issued \in Int
      OBVIOUS
    <3>2. failed \in BOOLEAN
      OBVIOUS
    <3>3. QED
      BY <3>1, <3>2 DEF EngineTypes
  <2>hosts. HostTypes
    BY DEF HostTypes, HostPc
  <2>2. ThreadTypes /\ WorkerTypes
    BY DEF ThreadTypes, WorkerTypes, ThreadPc, WorkerPc
  <2>3. ShmTypes /\ StreamTypes
    BY DEF ShmTypes, StreamTypes, StreamPc
  <2>4. QED
    BY <2>1, <2>hosts, <2>2, <2>3 DEF TypeOK
<1>2. HostInv /\ StartInv /\ StreamInv
  BY DEF HostInv, StartInv, StreamInv
<1>3. PipelineInv /\ WorkerInv
  BY DEF PipelineInv, QueueInv, StageInv, SocketInv, WorkerInv, Queued, Sent
<1>4. ClaimInv /\ CopyInv /\ FreshOutputs
  BY DEF ClaimInv, CopyInv, FreshOutputs
<1>5. ChannelInv
  <2>1. \A t \in Ranks, l \in Layers : Released(t, l) = 0 /\ Claimed(t, l) = 0 /\ Published(t, l) = 0
    BY DEF Released, Claimed, Published, Max0
  <2>2. QED
    BY <2>1 DEF ChannelInv, Channel
<1>6. QED
  BY <1>1, <1>2, <1>3, <1>4, <1>5 DEF IInv

(* Every action preserves the invariant.                                   *)
LEMMA NextInv ==
  ASSUME IInv, Next
  PROVE  IInv'
<1>1. TypeOK' /\ HostInv' /\ StartInv' /\ StreamInv'
  BY TypeStep, HostStep, StartStep, StreamStep DEF IInv
<1>2. PipelineInv' /\ WorkerInv'
  BY QueueStep, StageStep, SocketStep, WorkerStep DEF IInv, PipelineInv
<1>3. ClaimInv' /\ ChannelInv' /\ CopyInv' /\ FreshOutputs'
  BY ClaimStep, ChannelStep, CopyStep, FreshStep DEF IInv
<1>4. QED
  BY <1>1, <1>2, <1>3 DEF IInv

(* So does a stuttering step.                                              *)
LEMMA StutterInv ==
  ASSUME IInv, UNCHANGED vars
  PROVE  IInv'
<1> USE DEF IInv, vars, engineVars, hostVars, threadVars, workerVars, shmVars, streamVars
<1>1. TypeOK'
  BY DEF TypeOK, EngineTypes, HostTypes, ThreadTypes, WorkerTypes, ShmTypes, StreamTypes
<1>2. HostInv' /\ StartInv' /\ StreamInv' /\ FreshOutputs'
  BY DEF HostInv, StartInv, StreamInv, FreshOutputs
<1>3. PipelineInv'
  <2>1. UNCHANGED <<Queued, Sent>>
    BY DEF Queued, Sent
  <2>2. QED
    BY <2>1 DEF PipelineInv, QueueInv, StageInv, SocketInv
<1>4. WorkerInv'
  BY DEF WorkerInv
<1>5. ClaimInv' /\ CopyInv'
  BY ClaimedFrame DEF ClaimInv, CopyInv
<1>6. ChannelInv'
  BY ClaimedFrame, ReleasedFrame DEF ChannelInv, Channel
<1>7. QED
  BY <1>1, <1>2, <1>3, <1>4, <1>5, <1>6

(* The inductive invariant holds in every reachable state, whatever the number*)
(* of ranks, layers, start-up forwards, batches and batches in flight.     *)
THEOREM Invariance == Spec => []IInv
<1>1. Init => IInv
  BY InitInv
<1>2. IInv /\ [Next]_vars => IInv'
  BY NextInv, StutterInv
<1>3. QED
  BY <1>1, <1>2, PTL DEF Spec

-----------------------------------------------------------------------------
(* Type correctness: in particular the worker's loops never index past the *)
(* registered ranks and layers.                                            *)
THEOREM TypeCorrect == Spec => []TypeOK
<1>1. IInv => TypeOK
  BY DEF IInv
<1>2. QED
  BY <1>1, Invariance, PTL

(* No forward of a real batch computes with another batch's PLE outputs or with*)
(* the zeros of a dummy run, on any rank, for any layer (ple_offload_layer.py).*)
THEOREM Freshness == Spec => []FreshOutputs
<1>1. IInv => FreshOutputs
  BY DEF IInv
<1>2. QED
  BY <1>1, Invariance, PTL

(* A buffer that is being copied is one the worker has published and not   *)
(* claimed again.                                                          *)
LEMMA CopyingPublished ==
  ASSUME IInv, NEW t \in Ranks, NEW l \in Layers, gpc[t] \in {"copy", "reset"}, glayer[t] = l
  PROVE  ~Writing(t, l)
<1>1. SUFFICES ASSUME Writing(t, l) PROVE FALSE
  OBVIOUS
<1>2. wlayer = l /\ wpc \in {"compute", "fanOut"}
  BY <1>1 DEF Writing
<1>3. batch \in Nat /\ current[t] \in Int /\ finished[t] \in Int /\ l \in Nat
  BY LayerFacts DEF IInv, TypeOK, WorkerTypes, StreamTypes
<1>4. current[t] >= 1 /\ current[t] = finished[t] + 1
  BY <1>2, Active, Busy DEF IInv, StreamInv
<1>5. Published(t, l) = batch - 1 /\ Claimed(t, l) = batch
  BY <1>2, <1>3 DEF Published, Claimed
<1>6. Published(t, l) = current[t]
  BY <1>4 DEF IInv, CopyInv
<1>7. Released(t, l) = finished[t]
  BY <1>3, <1>4, Max0Facts DEF Released
<1>8. Claimed(t, l) <= Released(t, l) + 1
  BY DEF IInv, ChannelInv, Channel
<1>9. QED
  BY <1>3, <1>4, <1>5, <1>6, <1>7, <1>8

(* The CPU worker never writes a host buffer that a model stream is copying.*)
THEOREM Untorn == Spec => []NoTornOutput
<1>1. ASSUME IInv PROVE NoTornOutput
  <2>1. \A t \in Ranks : gpc[t] \in {"copy", "reset"} => glayer[t] \in Layers
    BY <1>1, PlaceFacts DEF IInv, TypeOK, StreamTypes, StreamInv
  <2>2. QED
    BY <1>1, <2>1, CopyingPublished DEF NoTornOutput
<1>2. QED
  BY <1>1, Invariance, PTL

(* The request thread never overwrites shared inputs that the CPU worker has*)
(* yet to read (connector.py, worker.py).                                  *)
THEOREM Unread == Spec => []InputsUnread
<1>1. ASSUME IInv PROVE InputsUnread
  BY <1>1, Reading, LayerFacts DEF IInv, InputsUnread, StillReading
<1>2. QED
  BY <1>1, Invariance, PTL

(* The worker's drain never meets two requests, so it drops no batch as a  *)
(* duplicate.                                                              *)
THEOREM Undropped == Spec => []NoRequestDropped
<1>1. ASSUME IInv PROVE NoRequestDropped
  <2>1. pipe = <<>> \/ pipe = <<Sent>>
    BY <1>1 DEF IInv, PipelineInv, SocketInv
  <2>2. CASE pipe = <<>>
    BY <2>2 DEF NoRequestDropped
  <2>3. CASE pipe = <<Sent>>
    <3>1. Len(pipe) = 1
      BY <2>3
    <3>2. QED
      BY <3>1 DEF NoRequestDropped
  <2>4. QED
    BY <2>1, <2>2, <2>3
<1>2. QED
  BY <1>1, Invariance, PTL

(* All four together, as the run checks them.                              *)
THEOREM Handshake == Spec => []HandshakeSafe
<1>1. FreshOutputs /\ NoTornOutput /\ InputsUnread /\ NoRequestDropped => HandshakeSafe
  BY DEF HandshakeSafe
<1>2. QED
  BY <1>1, Freshness, Untorn, Unread, Undropped, PTL

(* The runner's input buffers do not change while they are copied to shared*)
(* memory, although the copy runs on a stream of its own.                  *)
THEOREM Stable == Spec => SourceStable
<1>1. ASSUME IInv, [Next]_vars PROVE tpc = "copy" => current'[0] = current[0]
  <2>1. SUFFICES ASSUME tpc = "copy", Next PROVE current'[0] = current[0]
    BY <1>1 DEF vars, streamVars
  <2>2. 0 \in Ranks /\ request \in Nat /\ current[0] = request /\ finished[0] = request - 1
    BY <1>1, <2>1, Reading, RankFacts DEF IInv, TypeOK, ThreadTypes, Sent
  <2>3. ASSUME NEW u \in Ranks, Stream(u) PROVE current'[0] = current[0]
    <3>1. CASE RunPrepare(u)
      BY <2>2, <3>1 DEF RunPrepare, IInv, TypeOK, StreamTypes
    <3>2. QED
      BY <2>3, <3>1 DEF Stream, StartForward, WaitReady, CopyOutput, ResetReady, ReleaseBuffer,
         EndForward
  <2>4. QED
    BY <2>1, <2>3, HostFrame, ThreadFrame, WorkerFrame, OtherFrame DEF Next, Issue, streamVars
<1>2. QED
  BY <1>1, Invariance, PTL DEF Spec, SourceStable

(* The handshake implements PleForward: the ranks go through the forwards in*)
(* lockstep and compute each with its own batch's PLE outputs.             *)
THEOREM Refinement == Spec => ImplementsPleForward
<1>1. Init => Abstract!Init
  BY DEF Init, Abstract!Init
<1>2. ASSUME IInv, [Next]_vars PROVE [Abstract!Next]_<<finished, used>>
  <2>1. ASSUME NEW t \in Ranks, EndForward(t), FreshOutputs' PROVE Abstract!Forward(t)
    <3>1. /\ finished \in [Ranks -> Int] /\ used \in [Ranks -> [Layers -> Int]]
          /\ device \in [Ranks -> [Layers -> Int]]
          /\ current[t] = finished[t] + 1
      BY <1>2, <2>1 DEF IInv, TypeOK, StreamTypes, EndForward, StreamInv
    <3>2. \A u \in Ranks : finished[u] >= finished[t]
      BY <1>2, <2>1, <3>1 DEF EndForward, IInv, StreamInv, TypeOK, StreamTypes
    <3>3. /\ finished' = [finished EXCEPT ![t] = @ + 1]
          /\ used' \in [Ranks -> [Layers -> Int]]
          /\ \A u \in Ranks \ {t} : used'[u] = used[u]
      BY <2>1, <3>1 DEF EndForward
    <3>4. finished'[t] >= 1 => used'[t] = [l \in Layers |-> finished'[t]]
      BY <2>1, <3>3 DEF FreshOutputs
    <3>5. QED
      BY <3>2, <3>3, <3>4 DEF Abstract!Forward
  <2>2. ASSUME NEW t \in Ranks, Stream(t), Next PROVE [Abstract!Next]_<<finished, used>>
    <3>1. FreshOutputs'
      BY <1>2, <2>2, NextInv DEF IInv
    <3>2. QED
      BY <2>1, <2>2, <3>1 DEF Abstract!Next, Stream, RunPrepare, StartForward, WaitReady,
         CopyOutput, ResetReady, ReleaseBuffer
  <2>3. ASSUME UNCHANGED streamVars PROVE [Abstract!Next]_<<finished, used>>
    BY <2>3 DEF streamVars
  <2>4. QED
    BY <1>2, <2>2, <2>3, HostFrame, ThreadFrame, WorkerFrame, OtherFrame DEF Next, Issue, vars
<1>3. QED
  BY <1>1, <1>2, Invariance, PTL DEF Spec, ImplementsPleForward, Abstract!Spec
=============================================================================
