----------------------------- MODULE PleOffload -----------------------------
(***************************************************************************)
(* The PLE CPU-offload handshake of one data-parallel rank.                *)
(*                                                                         *)
(* The n-gram / per-layer-embedding table is too large for the GPUs.  One  *)
(* CPU process (v1/ple_offload/worker.py) looks the embeddings up and      *)
(* publishes them in page-locked host buffers, one per tensor-parallel     *)
(* rank and PLE layer; the model stream of every rank waits in the CUDA    *)
(* graph for the buffer's `ready' flag, copies it and gives it back        *)
(* through the `consumed' flag (ple_offload_layer.py).  TP rank 0 tells    *)
(* the CPU process about a batch through a request thread that first       *)
(* copies the batch's inputs to shared memory (connector.py).              *)
(*                                                                         *)
(* Five kinds of process interleave: the engine, the model thread of each  *)
(* rank, the CUDA model stream of each rank, the request thread of rank 0  *)
(* and the CPU worker.                                                     *)
(*                                                                         *)
(* Forwards are numbered.  The start-up forwards (profile run, CUDA graph  *)
(* warm-up), whose PLE wait the connector satisfies itself, are numbered   *)
(* 1 - Warmups .. 0; the forwards of real batches 1 .. MaxForwards.  A     *)
(* batch is represented by its number wherever its data goes: input        *)
(* buffers, host outputs, device outputs.                                  *)
(***************************************************************************)
EXTENDS Integers, Sequences

CONSTANTS
  TPSize,       \* tensor-parallel ranks
  NumLayers,    \* PLE layers, in the order the CPU worker and the model visit
  Warmups,      \* start-up forwards
  Depth,        \* batches in flight: 1 synchronous, 2 async scheduling
  MaxForwards   \* bound on the number of real batches

ASSUME ConstantsAssumption ==
  /\ TPSize \in Nat \ {0}
  /\ NumLayers \in Nat \ {0}
  /\ Warmups \in Nat
  /\ Depth \in Nat \ {0}
  /\ MaxForwards \in Nat

Ranks == 0 .. TPSize - 1
Layers == 1 .. NumLayers
First == 1 - Warmups

VARIABLES
  issued,    \* last forward the engine has asked the ranks for
  failed,    \* an exception left a model thread: the engine is dead
  (* model thread of each rank *)
  hpc, hlayer,
  prepared,  \* last forward whose input preparation it has enqueued
  launched,  \* last forward it has enqueued
  stale,     \* _qwen38_stale_ready_possible
  (* request thread of rank 0 *)
  queue,     \* _request_queue, maxsize 1: the waiting request or 0
  tpc,
  request,   \* the request the thread took last
  event,     \* recording of _input_ready_event the D2H stream waits for
  inputs,    \* batch in the shared input buffers
  (* CPU worker *)
  pipe,      \* requests in its ZMQ socket
  wpc, batch, wlayer, target,
  (* shared host memory, per rank and layer *)
  ready, consumed, buffer,
  (* CUDA model stream of each rank *)
  gpc, glayer,
  current,   \* last forward whose input preparation the stream has run
  finished,  \* last forward the stream has completed
  device,    \* contents of the device output buffers
  used       \* what the last completed forward computed with

engineVars == <<issued, failed>>
hostVars   == <<hpc, hlayer, prepared, launched, stale>>
threadVars == <<queue, tpc, request, event, inputs>>
workerVars == <<pipe, wpc, batch, wlayer, target>>
shmVars    == <<ready, consumed, buffer>>
streamVars == <<gpc, glayer, current, finished, device, used>>

vars == <<engineVars, hostVars, threadVars, workerVars, shmVars, streamVars>>

Init ==
  /\ issued = -Warmups /\ failed = FALSE
  /\ hpc = [t \in Ranks |-> "idle"] /\ hlayer = [t \in Ranks |-> 1]
  /\ prepared = [t \in Ranks |-> -Warmups]
  /\ launched = [t \in Ranks |-> -Warmups]
  /\ stale = [t \in Ranks |-> TRUE]
  /\ queue = 0 /\ tpc = "get" /\ request = 0 /\ event = 0 /\ inputs = 0
  /\ pipe = <<>> /\ wpc = "poll" /\ batch = 0 /\ wlayer = 1 /\ target = 0
  /\ ready = [t \in Ranks |-> [l \in Layers |-> 0]]
  /\ consumed = [t \in Ranks |-> [l \in Layers |-> 1]]
  /\ buffer = [t \in Ranks |-> [l \in Layers |-> 0]]
  /\ gpc = [t \in Ranks |-> "idle"] /\ glayer = [t \in Ranks |-> 1]
  /\ current = [t \in Ranks |-> -Warmups]
  /\ finished = [t \in Ranks |-> -Warmups]
  /\ device = [t \in Ranks |-> [l \in Layers |-> 0]]
  /\ used = [t \in Ranks |-> [l \in Layers |-> 0]]

-----------------------------------------------------------------------------
(* The engine.  The start-up calls are collective: each is issued when     *)
(* every rank is done with the one before.  A real batch is issued when    *)
(* rank 0 has returned the output of the batch Depth places earlier.       *)

Drained ==
  \A t \in Ranks : hpc[t] = "idle" /\ prepared[t] = issued /\ finished[t] = issued

Issue ==
  /\ ~failed
  /\ issued < MaxForwards
  /\ IF issued <= 0 THEN Drained ELSE finished[0] >= issued + 1 - Depth
  /\ issued' = issued + 1
  /\ UNCHANGED <<failed, hostVars, threadVars, workerVars, shmVars, streamVars>>

-----------------------------------------------------------------------------
(* The model thread of rank t.                                             *)

Goto(t, from, to) == hpc[t] = from /\ hpc' = [hpc EXCEPT ![t] = to]

(* execute_model: the input preparation of the next forward is enqueued on *)
(* the model stream.  For a real batch rank 0 records the input-ready      *)
(* event behind it and goes on to queue the request; a dummy batch goes to *)
(* signal_dummy_outputs, whose first statement sets the stale flag.        *)
Prepare(t) ==
  /\ ~failed
  /\ prepared[t] < issued
  /\ prepared' = [prepared EXCEPT ![t] = @ + 1]
  /\ IF prepared[t] + 1 >= 1
       THEN /\ Goto(t, "idle", IF t = 0 THEN "put" ELSE "claim")
            /\ UNCHANGED <<hlayer, stale>>
       ELSE /\ Goto(t, "idle", "signal")
            /\ hlayer' = [hlayer EXCEPT ![t] = 1]
            /\ stale' = [stale EXCEPT ![t] = TRUE]
  /\ UNCHANGED <<engineVars, launched, threadVars, workerVars, shmVars, streamVars>>

(* self._request_queue.put_nowait(request): the queue holds one request,   *)
(* a second one raises queue.Full.                                         *)
PutRequest ==
  /\ ~failed /\ hpc[0] = "put"
  /\ \/ queue = 0 /\ queue' = prepared[0] /\ Goto(0, "put", "claim") /\ UNCHANGED failed
     \/ queue # 0 /\ failed' = TRUE /\ UNCHANGED <<queue, hpc>>
  /\ UNCHANGED <<issued, hlayer, prepared, launched, stale, tpc, request, event,
                 inputs, workerVars, shmVars, streamVars>>

(* _launch waits for the CPU worker's claim only while a ready flag set by *)
(* a dummy signal may be left over.  The mutant never waits.               *)
NeverClaims(t) == FALSE
MustClaim(t) == stale[t]

(* The claim wait of _launch is skipped once a real batch has claimed the  *)
(* buffers after the last dummy signal; the forward is enqueued at once.   *)
SkipClaim(t) ==
  /\ ~failed
  /\ Goto(t, "claim", "idle")
  /\ ~MustClaim(t)
  /\ launched' = [launched EXCEPT ![t] = prepared[t]]
  /\ UNCHANGED <<engineVars, hlayer, prepared, stale, threadVars, workerVars,
                 shmVars, streamVars>>

StartClaim(t) ==
  /\ ~failed
  /\ Goto(t, "claim", "spin")
  /\ MustClaim(t)
  /\ stale' = [stale EXCEPT ![t] = FALSE]
  /\ hlayer' = [hlayer EXCEPT ![t] = 1]
  /\ UNCHANGED <<engineVars, prepared, launched, threadVars, workerVars, shmVars,
                 streamVars>>

(* One layer after the other, until the CPU worker has taken its buffer.   *)
SpinClaim(t) ==
  /\ ~failed
  /\ hpc[t] = "spin" /\ hlayer[t] <= NumLayers
  /\ consumed[t][hlayer[t]] = 0
  /\ hlayer' = [hlayer EXCEPT ![t] = @ + 1]
  /\ UNCHANGED <<engineVars, hpc, prepared, launched, stale, threadVars,
                 workerVars, shmVars, streamVars>>

LaunchClaimed(t) ==
  /\ ~failed
  /\ hlayer[t] = NumLayers + 1
  /\ Goto(t, "spin", "idle")
  /\ launched' = [launched EXCEPT ![t] = prepared[t]]
  /\ UNCHANGED <<engineVars, hlayer, prepared, stale, threadVars, workerVars,
                 shmVars, streamVars>>

(* VLLM_PLE_OFFLOAD_READY_TIMEOUT may expire before a layer is claimed.    *)
ClaimTimeout(t) ==
  /\ ~failed
  /\ hpc[t] = "spin" /\ hlayer[t] <= NumLayers
  /\ consumed[t][hlayer[t]] # 0
  /\ failed' = TRUE
  /\ UNCHANGED <<issued, hostVars, threadVars, workerVars, shmVars, streamVars>>

(* signal_dummy_outputs, one layer at a time.                              *)
SignalLayer(t) ==
  /\ ~failed
  /\ hpc[t] = "signal" /\ hlayer[t] <= NumLayers
  /\ buffer' = [buffer EXCEPT ![t][hlayer[t]] = 0]
  /\ ready' = [ready EXCEPT ![t][hlayer[t]] = 1]
  /\ consumed' = [consumed EXCEPT ![t][hlayer[t]] = 1]
  /\ hlayer' = [hlayer EXCEPT ![t] = @ + 1]
  /\ UNCHANGED <<engineVars, hpc, prepared, launched, stale, threadVars,
                 workerVars, streamVars>>

LaunchDummy(t) ==
  /\ ~failed
  /\ hlayer[t] = NumLayers + 1 /\ launched[t] < prepared[t]
  /\ Goto(t, "signal", "sync")
  /\ launched' = [launched EXCEPT ![t] = prepared[t]]
  /\ UNCHANGED <<engineVars, hlayer, prepared, stale, threadVars, workerVars,
                 shmVars, streamVars>>

(* profile_run synchronises and returns.  A graph warm-up is followed by   *)
(* the capture of the same shape: entering torch.cuda.graph synchronises,  *)
(* and the captured forward signals once more, although nothing runs.      *)
Synchronize(t) ==
  /\ ~failed
  /\ finished[t] >= prepared[t]
  /\ \/ Goto(t, "sync", "idle") /\ UNCHANGED <<hlayer, stale>>
     \/ /\ Goto(t, "sync", "signal")
        /\ hlayer' = [hlayer EXCEPT ![t] = 1]
        /\ stale' = [stale EXCEPT ![t] = TRUE]
  /\ UNCHANGED <<engineVars, prepared, launched, threadVars, workerVars, shmVars,
                 streamVars>>

EndCapture(t) ==
  /\ ~failed
  /\ hlayer[t] = NumLayers + 1 /\ launched[t] = prepared[t]
  /\ Goto(t, "signal", "idle")
  /\ UNCHANGED <<engineVars, hlayer, prepared, launched, stale, threadVars,
                 workerVars, shmVars, streamVars>>

Host(t) ==
  \/ Prepare(t) \/ SkipClaim(t) \/ StartClaim(t) \/ SpinClaim(t)
  \/ LaunchClaimed(t) \/ SignalLayer(t) \/ LaunchDummy(t) \/ Synchronize(t)
  \/ EndCapture(t) \/ (t = 0 /\ PutRequest)

-----------------------------------------------------------------------------
(* The request thread of rank 0.                                           *)

TakeRequest ==
  /\ tpc = "get" /\ queue # 0
  /\ request' = queue /\ queue' = 0 /\ tpc' = "wait"
  /\ UNCHANGED <<engineVars, hostVars, event, inputs, workerVars, shmVars, streamVars>>

(* _d2h_stream.wait_event: the stream waits for the recording of the event *)
(* that is the latest one at the time of this call.                        *)
WaitEvent ==
  /\ tpc = "wait"
  /\ event' = prepared[0] /\ tpc' = "event"
  /\ UNCHANGED <<engineVars, hostVars, queue, request, inputs, workerVars, shmVars,
                 streamVars>>

(* The D2H stream starts the copies once the model stream has passed the   *)
(* event, which lies between the input preparation and the forward.        *)
(* Mutants: the copies do not wait; the event is recorded after the        *)
(* forward.                                                                *)
NoEventWait == TRUE
EventAfterForward == finished[0] >= event
EventPassed == current[0] >= event

BeginCopy ==
  /\ tpc = "event" /\ EventPassed
  /\ tpc' = "copy"
  /\ UNCHANGED <<engineVars, hostVars, queue, request, event, inputs, workerVars,
                 shmVars, streamVars>>

(* The copies complete and _d2h_done_event.synchronize() returns: the      *)
(* shared inputs hold what the runner's device buffers held.               *)
EndCopy ==
  /\ tpc = "copy"
  /\ inputs' = current[0] /\ tpc' = "send"
  /\ UNCHANGED <<engineVars, hostVars, queue, request, event, workerVars, shmVars,
                 streamVars>>

Send ==
  /\ tpc = "send"
  /\ pipe' = Append(pipe, request) /\ tpc' = "get"
  /\ UNCHANGED <<engineVars, hostVars, queue, request, event, inputs, wpc, batch,
                 wlayer, target, shmVars, streamVars>>

Thread == TakeRequest \/ WaitEvent \/ BeginCopy \/ EndCopy \/ Send

-----------------------------------------------------------------------------
(* The CPU worker.                                                         *)

(* busy_loop drains the socket; _handle_requests keeps the first request   *)
(* of the data-parallel rank and drops the others as duplicates.           *)
Receive ==
  /\ wpc = "poll" /\ pipe # <<>>
  /\ batch' = Head(pipe) /\ pipe' = <<>>
  /\ wlayer' = 1 /\ wpc' = "await"
  /\ UNCHANGED <<engineVars, hostVars, threadVars, target, shmVars, streamVars>>

(* Spin until every rank has consumed the layer's previous result.         *)
AllConsumed == \A t \in Ranks : consumed[t][wlayer] = 1

AwaitConsumed ==
  /\ wpc = "await" /\ AllConsumed
  /\ target' = 0 /\ wpc' = "zeroReady"
  /\ UNCHANGED <<engineVars, hostVars, threadVars, pipe, batch, wlayer, shmVars,
                 streamVars>>

(* The loops over the ranks' targets.  Mutant: one target too many.        *)
PastTargets == target < TPSize
MoreTargets == target + 1 < TPSize

ZeroReady ==
  /\ wpc = "zeroReady"
  /\ ready' = [ready EXCEPT ![target][wlayer] = 0]
  /\ wpc' = "zeroConsumed"
  /\ UNCHANGED <<engineVars, hostVars, threadVars, pipe, batch, wlayer, target,
                 consumed, buffer, streamVars>>

ZeroConsumed ==
  /\ wpc = "zeroConsumed"
  /\ consumed' = [consumed EXCEPT ![target][wlayer] = 0]
  /\ IF MoreTargets
       THEN wpc' = "zeroReady" /\ target' = target + 1
       ELSE wpc' = "compute" /\ UNCHANGED target
  /\ UNCHANGED <<engineVars, hostVars, threadVars, pipe, batch, wlayer, ready, buffer,
                 streamVars>>

(* layer.forward_impl reads the shared inputs and writes rank 0's buffer.  *)
Compute ==
  /\ wpc = "compute"
  /\ buffer' = [buffer EXCEPT ![0][wlayer] = inputs]
  /\ IF TPSize > 1 THEN wpc' = "fanOut" /\ target' = 1
                   ELSE wpc' = "publish" /\ target' = 0
  /\ UNCHANGED <<engineVars, hostVars, threadVars, pipe, batch, wlayer, ready, consumed,
                 streamVars>>

FanOut ==
  /\ wpc = "fanOut"
  /\ buffer' = [buffer EXCEPT ![target][wlayer] = buffer[0][wlayer]]
  /\ IF MoreTargets
       THEN target' = target + 1 /\ UNCHANGED wpc
       ELSE target' = 0 /\ wpc' = "publish"
  /\ UNCHANGED <<engineVars, hostVars, threadVars, pipe, batch, wlayer, ready, consumed,
                 streamVars>>

Publish ==
  /\ wpc = "publish"
  /\ ready' = [ready EXCEPT ![target][wlayer] = 1]
  /\ IF MoreTargets
       THEN target' = target + 1 /\ UNCHANGED <<wpc, wlayer>>
       ELSE /\ UNCHANGED target
            /\ IF wlayer < NumLayers
                 THEN wlayer' = wlayer + 1 /\ wpc' = "await"
                 ELSE wpc' = "poll" /\ UNCHANGED wlayer
  /\ UNCHANGED <<engineVars, hostVars, threadVars, pipe, batch, consumed, buffer,
                 streamVars>>

Worker == Receive \/ AwaitConsumed \/ ZeroReady \/ ZeroConsumed \/ Compute
            \/ FanOut \/ Publish

-----------------------------------------------------------------------------
(* The CUDA model stream of rank t: input preparations and forwards in the *)
(* order they were enqueued.                                               *)

RunPrepare(t) ==
  /\ gpc[t] = "idle" /\ current[t] = finished[t] /\ current[t] < prepared[t]
  /\ current' = [current EXCEPT ![t] = @ + 1]
  /\ UNCHANGED <<engineVars, hostVars, threadVars, workerVars, shmVars, gpc, glayer,
                 finished, device, used>>

StartForward(t) ==
  /\ gpc[t] = "idle" /\ finished[t] < current[t] /\ current[t] <= launched[t]
  /\ gpc' = [gpc EXCEPT ![t] = "wait"]
  /\ glayer' = [glayer EXCEPT ![t] = 1]
  /\ UNCHANGED <<engineVars, hostVars, threadVars, workerVars, shmVars, current,
                 finished, device, used>>

(* ple_offload_host_copy of layer glayer[t]: cuStreamWaitValue32(ready==1) *)
(* Mutant: the wait is not in the captured graph.                          *)
NoReadyWait(t) == TRUE
ReadySet(t) == ready[t][glayer[t]] = 1

WaitReady(t) ==
  /\ gpc[t] = "wait" /\ ReadySet(t)
  /\ gpc' = [gpc EXCEPT ![t] = "copy"]
  /\ UNCHANGED <<engineVars, hostVars, threadVars, workerVars, shmVars, glayer,
                 current, finished, device, used>>

CopyOutput(t) ==
  /\ gpc[t] = "copy"
  /\ device' = [device EXCEPT ![t][glayer[t]] = buffer[t][glayer[t]]]
  /\ gpc' = [gpc EXCEPT ![t] = "reset"]
  /\ UNCHANGED <<engineVars, hostVars, threadVars, workerVars, shmVars, glayer,
                 current, finished, used>>

ResetReady(t) ==
  /\ gpc[t] = "reset"
  /\ ready' = [ready EXCEPT ![t][glayer[t]] = 0]
  /\ gpc' = [gpc EXCEPT ![t] = "release"]
  /\ UNCHANGED <<engineVars, hostVars, threadVars, workerVars, consumed, buffer,
                 glayer, current, finished, device, used>>

ReleaseBuffer(t) ==
  /\ gpc[t] = "release"
  /\ consumed' = [consumed EXCEPT ![t][glayer[t]] = 1]
  /\ glayer' = [glayer EXCEPT ![t] = @ + 1]
  /\ gpc' = [gpc EXCEPT ![t] = IF glayer[t] < NumLayers THEN "wait" ELSE "end"]
  /\ UNCHANGED <<engineVars, hostVars, threadVars, workerVars, ready, buffer, current,
                 finished, device, used>>

(* The all-reduces of a forward hold a rank until all the others have      *)
(* reached the same forward.                                               *)
EndForward(t) ==
  /\ gpc[t] = "end"
  /\ \A u \in Ranks : \/ finished[u] >= current[t]
                      \/ (current[u] = current[t] /\ gpc[u] = "end")
  /\ finished' = [finished EXCEPT ![t] = current[t]]
  /\ used' = [used EXCEPT ![t] = device[t]]
  /\ gpc' = [gpc EXCEPT ![t] = "idle"]
  /\ UNCHANGED <<engineVars, hostVars, threadVars, workerVars, shmVars, glayer,
                 current, device>>

Stream(t) ==
  \/ RunPrepare(t) \/ StartForward(t) \/ WaitReady(t) \/ CopyOutput(t)
  \/ ResetReady(t) \/ ReleaseBuffer(t) \/ EndForward(t)

-----------------------------------------------------------------------------

(* Serving may stop: all batches served, or the engine dead.               *)
Stopped ==
  /\ failed \/ (issued = MaxForwards /\ \A t \in Ranks : finished[t] = MaxForwards)
  /\ UNCHANGED vars

Next ==
  \/ Issue \/ Thread \/ Worker \/ Stopped
  \/ \E t \in Ranks : Host(t) \/ ClaimTimeout(t) \/ Stream(t)

Spec == Init /\ [][Next]_vars

(* Every process and stream keeps running; the engine need not have work.  *)
Fairness ==
  /\ WF_vars(Thread) /\ WF_vars(Worker)
  /\ \A t \in Ranks : WF_vars(Host(t)) /\ WF_vars(Stream(t))

FairSpec == Spec /\ Fairness

-----------------------------------------------------------------------------

HostPc   == {"idle", "put", "claim", "spin", "signal", "sync"}
ThreadPc == {"get", "wait", "event", "copy", "send"}
WorkerPc == {"poll", "await", "zeroReady", "zeroConsumed", "compute", "fanOut", "publish"}
StreamPc == {"idle", "wait", "copy", "reset", "release", "end"}

EngineTypes == issued \in Int /\ failed \in BOOLEAN
HostTypes ==
  /\ hpc \in [Ranks -> HostPc] /\ hlayer \in [Ranks -> 1 .. NumLayers + 1]
  /\ prepared \in [Ranks -> Int] /\ launched \in [Ranks -> Int]
  /\ stale \in [Ranks -> BOOLEAN]
ThreadTypes ==
  /\ queue \in Nat /\ tpc \in ThreadPc /\ request \in Nat
  /\ event \in Int /\ inputs \in Int
WorkerTypes ==
  /\ pipe \in Seq(Nat) /\ wpc \in WorkerPc /\ batch \in Nat
  /\ wlayer \in Layers /\ target \in Ranks
ShmTypes ==
  /\ ready \in [Ranks -> [Layers -> {0, 1}]]
  /\ consumed \in [Ranks -> [Layers -> {0, 1}]]
  /\ buffer \in [Ranks -> [Layers -> Int]]
StreamTypes ==
  /\ gpc \in [Ranks -> StreamPc] /\ glayer \in [Ranks -> 1 .. NumLayers + 1]
  /\ current \in [Ranks -> Int] /\ finished \in [Ranks -> Int]
  /\ device \in [Ranks -> [Layers -> Int]]
  /\ used \in [Ranks -> [Layers -> Int]]

(* Type invariant: in particular the worker's target and layer indices     *)
(* never leave the registered ranks and layers.                            *)
TypeOK ==
  /\ EngineTypes /\ HostTypes /\ ThreadTypes /\ WorkerTypes /\ ShmTypes /\ StreamTypes

(* Freshness: the PLE outputs a forward of a real batch computes with are, *)
(* on every rank and for every layer, those of that batch: never those of  *)
(* an earlier batch, nor the zeros of a dummy run.                         *)
FreshOutputs ==
  \A t \in Ranks : finished[t] >= 1 => \A l \in Layers : used[t][l] = finished[t]

(* No tearing: while a rank's stream copies a host buffer, the CPU worker  *)
(* is not computing into it nor fanning out to it.                         *)
Writing(t, l) ==
  wlayer = l /\ ((wpc = "compute" /\ t = 0) \/ (wpc = "fanOut" /\ t = target))
NoTornOutput ==
  \A t \in Ranks : gpc[t] \in {"copy", "reset"} => ~Writing(t, glayer[t])

(* The shared inputs are not overwritten with the next batch's while the   *)
(* CPU worker has yet to read them for some layer of its own batch, or     *)
(* while a request for them waits in the socket.                           *)
StillReading ==
  \/ wpc \in {"await", "zeroReady", "zeroConsumed", "compute", "fanOut"}
  \/ wpc = "publish" /\ wlayer < NumLayers
  \/ pipe # <<>>
InputsUnread == tpc = "copy" => ~StillReading

(* The worker's request drain never meets a second request of the rank, so *)
(* the branch that drops duplicates never loses a batch.                   *)
NoRequestDropped == Len(pipe) <= 1

(* The handshake keeps each forward to its own batch's data (connector.py, *)
(* worker.py, ple_offload_layer.py): the outputs it computes with are fresh*)
(* and whole, and the worker reads the inputs of every request.            *)
HandshakeSafe == FreshOutputs /\ NoTornOutput /\ InputsUnread /\ NoRequestDropped

(* The model stream does not overwrite the runner's input buffers with the *)
(* next batch while the request thread's stream is copying them.           *)
SourceStable == [][tpc = "copy" => current'[0] = current[0]]_vars

(* "each forward consumes its output before the next launch, so one        *)
(* pending request is sufficient": the model thread never finds the        *)
(* request queue full.                                                     *)
QueueNeverFull == hpc[0] = "put" => queue = 0

(* The event the D2H stream waits for is the one recorded for the request  *)
(* being staged.  A later recording lies behind the forward that waits for *)
(* this very request.                                                      *)
EventOfRequest == tpc \in {"event", "copy"} => event = request

(* Refinement: the handshake implements lockstep forwards, each computed   *)
(* with its own batch's PLE outputs.                                       *)
Abstract == INSTANCE PleForward
  WITH Ranks <- Ranks, finished <- finished, used <- used
ImplementsPleForward == Abstract!Spec

(* Every batch the engine issues is completed by every rank, unless the    *)
(* claim wait times out.                                                   *)
ForwardsComplete ==
  \A n \in 1 .. MaxForwards :
    issued >= n ~> (failed \/ \A t \in Ranks : finished[t] >= n)
=============================================================================
