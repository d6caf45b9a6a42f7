------------------------------- MODULE MCLive -------------------------------
(***************************************************************************)
(* Model checking of what must eventually happen: start-up and shutdown of *)
(* the PLE CPU process, its handshake, requests under preemption, the CPU  *)
(* pool and the bridge to it, streamed prefill.                            *)
(*                                                                         *)
(* They do not interact in these models, so one behaviour runs one of      *)
(* them, `part'; the variables of the others rest in their initial state.  *)
(***************************************************************************)
EXTENDS PleLifecycle, Sequences

VARIABLES
  part,  \* the component that runs
  \* PleOffload
  issued, failed, hpc, hlayer, prepared, launched, pleStale, queue, tpc,
  request, event, inputs, pipe, wpc, pleBatch, wlayer, target, pleReady,
  pleConsumed, buffer, gpc, glayer, current, finished, device, used,
  \* MambaServing
  pool, content, phase, running, cursor, budget, preempted, step, flights, req,
  mgr, fresh, worker,
  \* CpuPool
  epoch, next, done, poolStop, fn, count, run, pc, seen, item, poolFinished,
  \* CpuBridge
  bridgeGpc, kind, layer, forwards, counter, call, calls, result, reqSeq,
  reqCall, respSeq, respCall, spc, bridgeSeen, slot, answered, noted,
  \* StreamPrefill
  prefillPc, gen, prefillAt, group, asked, loaded, tailIssued, recorded, compute,
  copy, tail, prefillDone, raw, rawTail, bounce, mapHost, mapDev, owner,
  pending, doneEvent, prefillQueue, rpc, prefillRequest, awaited, computed,
  weights, map

(* Synchronous scheduling.                                                 *)
Ple == INSTANCE PleOffload WITH TPSize <- 2, NumLayers <- 1, Warmups <- 1,
  Depth <- 1, MaxForwards <- 2, stale <- pleStale, batch <- pleBatch,
  ready <- pleReady, consumed <- pleConsumed
pleVars == <<issued, failed, hpc, hlayer, prepared, launched, pleStale, queue,
  tpc, request, event, inputs, pipe, wpc, pleBatch, wlayer, target, pleReady,
  pleConsumed, buffer, gpc, glayer, current, finished, device, used>>

(* Prompts of a block and a half and of two and a half blocks, in three    *)
(* blocks.                                                                 *)
Mamba == INSTANCE MambaServing WITH Requests <- {"r1", "r2"}, Blocks <- {"b1",
  "b2", "b3"}, Null <- "null", BlockSize <- 2, NumSpec <- 0, Depth <- 2,
  MaxBatched <- 4, Prompt <- [r1 |-> 3, r2 |-> 5], Common <- 2, MaxNew <- 1
mambaVars == <<pool, content, phase, running, cursor, budget, preempted, step,
  flights, req, mgr, fresh, worker>>

(* Three threads.                                                          *)
Pool == INSTANCE CpuPool WITH NumWorkers <- 3, Counts <- {0, 2}, MaxRuns <- 2,
  stop <- poolStop, finished <- poolFinished
poolVars == <<epoch, next, done, poolStop, fn, count, run, pc, seen, item,
  poolFinished>>

(* Three layers in slots of two bits less.                                 *)
Bridge == INSTANCE CpuBridge WITH NumLayers <- 3, LayerBits <- 4,
  MaxForwards <- 3, gpc <- bridgeGpc, seen <- bridgeSeen
bridgeVars == <<bridgeGpc, kind, layer, forwards, counter, call, calls, result,
  reqSeq, reqCall, respSeq, respCall, spc, bridgeSeen, slot, answered, noted>>

(* Streamed prefill with a tail read from the checkpoint.                  *)
Prefill == INSTANCE StreamPrefill WITH NumLayers <- 3, PerLayer <- 2,
  HasTail <- TRUE, NumBounce <- 2, MaxSteps <- 2, pc <- prefillPc,
  at <- prefillAt, done <- prefillDone, queue <- prefillQueue,
  request <- prefillRequest
prefillVars == <<prefillPc, gen, prefillAt, group, asked, loaded, tailIssued,
  recorded, compute, copy, tail, prefillDone, raw, rawTail, bounce, mapHost,
  mapDev, owner, pending, doneEvent, prefillQueue, rpc, prefillRequest,
  awaited, computed, weights, map>>

ASSUME Instances ==
  /\ Bridge!BridgeAssumption
  /\ Prefill!StreamAssumption

-----------------------------------------------------------------------------
Parts == {"lifecycle", "untimed", "handshake", "mamba", "pool", "bridge",
  "prefill"}
Lifecycle == part \in {"lifecycle", "untimed"}

SuiteInit ==
  /\ part \in Parts
  /\ Init
  /\ Ple!Init
  /\ Mamba!Init
  /\ Pool!Init
  /\ Bridge!Init
  /\ Prefill!Init

SuiteNext ==
  /\ IF Lifecycle THEN Next ELSE UNCHANGED vars
  /\ IF part = "handshake" THEN Ple!Next ELSE UNCHANGED pleVars
  /\ IF part = "mamba" THEN Mamba!Next ELSE UNCHANGED mambaVars
  /\ IF part = "pool" THEN Pool!Next ELSE UNCHANGED poolVars
  /\ IF part = "bridge" THEN Bridge!Next ELSE UNCHANGED bridgeVars
  /\ IF part = "prefill" THEN Prefill!Next ELSE UNCHANGED prefillVars
  /\ UNCHANGED part

suiteVars == <<part, vars, pleVars, mambaVars, poolVars, bridgeVars,
  prefillVars>>
SuiteSpec == SuiteInit /\ [][SuiteNext]_suiteVars

(* Threads, streams, processes and the engine loop run on; the executor    *)
(* reacts to a failure.  In "lifecycle" the joins with a timeout in        *)
(* PleOffloadWorkerHandle.close return, in "untimed" they need not.        *)
(* Nothing forces a failure, another timeout, a request of a client, or a  *)
(* forward or shutdown nobody asked for.                                   *)
Fairness ==
  /\ \A r \in Ranks :
       /\ WF_vars(Lifecycle /\ StartUp(r)) /\ WF_vars(Lifecycle /\ ClosingUnaided(r))
       /\ WF_vars(part = "lifecycle" /\ Closing(r))
       /\ WF_vars(Lifecycle /\ Claimed(r)) /\ WF_vars(Lifecycle /\ Send(r)) /\ WF_vars(Lifecycle /\ Copy(r))
  /\ WF_vars(Lifecycle /\ Cpu) /\ WF_vars(Lifecycle /\ Serve)
  /\ WF_vars(Lifecycle /\ Failing /\ Halt)
  /\ WF_pleVars(part = "handshake" /\ Ple!Thread) /\ WF_pleVars(part = "handshake" /\ Ple!Worker)
  /\ \A t \in Ple!Ranks :
       /\ WF_pleVars(part = "handshake" /\ Ple!Host(t))
       /\ WF_pleVars(part = "handshake" /\ Ple!Stream(t))
  /\ WF_mambaVars(part = "mamba" /\ (Mamba!Pass \/ \E r \in {"r1", "r2"} : Mamba!Update(r)))
  /\ WF_poolVars(part = "pool" /\ pc[0] # "idle" /\ Pool!Caller)
  /\ \A t \in Pool!Threads : WF_poolVars(part = "pool" /\ Pool!Thread(t))
  /\ WF_bridgeVars(part = "bridge" /\ bridgeGpc # "start" /\ Bridge!Gpu)
  /\ WF_bridgeVars(part = "bridge" /\ Bridge!Server)
  /\ WF_prefillVars(part = "prefill" /\ prefillPc # "idle" /\ Prefill!Host)
  /\ WF_prefillVars(part = "prefill" /\ Prefill!RunCopy) /\ WF_prefillVars(part = "prefill" /\ Prefill!RunTail)
  /\ WF_prefillVars(part = "prefill" /\ Prefill!Compute) /\ WF_prefillVars(part = "prefill" /\ Prefill!Reader)

FairSuiteSpec == SuiteSpec /\ Fairness

-----------------------------------------------------------------------------
(* The executor serves only when the CPU process has every registration,   *)
(* no buffer is unregistered from CUDA while a stream or the request       *)
(* thread uses it, and a spawner that is down leaves no CPU process behind *)
(* (gpu_worker.py: "Wait until weights and every TP registration are       *)
(* ready", connector.py: close); with synchronous scheduling the request   *)
(* queue is never full and the input-ready event is the request's own.     *)
LifecycleSafe ==
  /\ ServedWhenReady /\ UnpinnedUnused /\ ClosedMeansGone
  /\ part = "handshake" => Ple!QueueNeverFull /\ Ple!EventOfRequest

(* Start-up ends without the help of a timeout, in service or in a         *)
(* shutdown: every failure of a worker or of the CPU process reaches those *)
(* who wait for it (wait_for_ready).  A shutdown, whatever fails and       *)
(* whenever it comes, ends with the timeouts of the joins in               *)
(* PleOffloadWorkerHandle.close, unless a worker synchronises a stream     *)
(* whose PLE output the process will never publish; between forwards it    *)
(* ends without a timeout.                                                 *)
LifecycleEnds ==
  /\ part = "lifecycle" => EndsUnlessOrphaned
  /\ part = "untimed" => StartupEnds /\ IdleShutdownEnds

(* Nobody waits for ever: forwards of the PLE handshake, requests under    *)
(* preemption, calls and the end of the CPU pool, requests to the CPU      *)
(* experts, steps of a streamed prefill.                                   *)
AllComplete ==
  /\ part = "handshake" => Ple!ForwardsComplete
  /\ part = "mamba" => Mamba!AllFinish
  /\ part = "pool" => Pool!RunReturns /\ Pool!PoolStops
  /\ part = "bridge" => Bridge!Answered
  /\ part = "prefill" => Prefill!StepsComplete
=============================================================================
