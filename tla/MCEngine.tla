------------------------------ MODULE MCEngine ------------------------------
(***************************************************************************)
(* Model checking of the engine's components: the asynchronous scheduler   *)
(* with its runner, streaming sessions, encoder inputs and the capture of  *)
(* routed experts.                                                         *)
(*                                                                         *)
(* They do not interact in these models, so one behaviour runs one of      *)
(* them, `part'; the variables of the others are Off.                      *)
(***************************************************************************)
EXTENDS Integers, Sequences

VARIABLES
  part,  \* the component that runs
  \* AsyncScheduler
  req, running, waiting, skipped, finishedIds, preemptedIds, phase, cursor,
  budget, plan, passed, evicted, counted, flights, schedSeq, doneSeq, deferred, rowOf,
  table, gpu,
  \* StreamingSessions
  sessionReq, sessionRunning, sessionWaiting, sessionSkipped, paused,
  sessionFinishedIds, sessionPreemptedIds, sent, sessionFlights, rows, kv,
  \* EncoderInputs
  future, encRunning, encWaiting, computed, stale, cache, pass, steps, ran,
  held, missed, preempted,
  \* RoutedExperts
  routedReq, pool, bySlot, snapshot, routing, routedGpu, device, routedFlights,
  case, buffer

(* Multi-modal items of the prompts; a framed item's first token has no    *)
(* embedding.                                                              *)
Item(start, len, id) ==
  [start |-> start, len |-> len, id |-> id, emb |-> start .. start + len - 1]
Framed(start, len, id) ==
  [start |-> start, len |-> len, id |-> id, emb |-> start + 1 .. start + len - 1]
Items       == <<<<Item(1, 2, 1), Item(3, 2, 2)>>, <<Item(1, 2, 2)>>, <<Item(0, 2, 3)>>>>
FramedItems == <<<<Framed(0, 3, 1), Framed(4, 3, 1)>>, <<Item(1, 2, 2)>>, <<Item(3, 2, 3)>>>>
LateItems   == <<<<Item(0, 1, 1)>>, <<Item(5, 2, 2)>>, <<Item(5, 2, 3)>>>>

Off == "off"  \* value of the variables of components that do not run

(* Two requests with drafts and deferred frees; three by priority; one     *)
(* preempted and reset with three steps in flight; rows padded for two     *)
(* drafts.                                                                 *)
Fcfs == INSTANCE AsyncScheduler WITH Lookahead <- 0, NumSpec <- 1, MaxLen <- 5,
  MaxBatched <- 4, MaxRunning <- 2, BlockSize <- 2, Depth <- 2,
  ByPriority <- FALSE, Async <- TRUE, NeedsKv <- FALSE, Defer <- TRUE,
  MaxPreempt <- 1, Aborts <- {1}, Resets <- FALSE, Requests <- {1, 2},
  Prompt <- <<3, 2>>, MaxNew <- 2
Priority == INSTANCE AsyncScheduler WITH Lookahead <- 0, NumSpec <- 0,
  MaxLen <- 3, MaxBatched <- 3, MaxRunning <- 2, BlockSize <- 1, Depth <- 2,
  ByPriority <- TRUE, Async <- TRUE, NeedsKv <- FALSE, Defer <- FALSE,
  MaxPreempt <- 1, Aborts <- {}, Resets <- FALSE, Requests <- {1, 2, 3},
  Prompt <- <<2, 1, 1>>, MaxNew <- 2
Dropped == INSTANCE AsyncScheduler WITH Lookahead <- 0, NumSpec <- 1, MaxLen <- 6,
  MaxBatched <- 4, MaxRunning <- 2, BlockSize <- 1, Depth <- 3,
  ByPriority <- FALSE, Async <- TRUE, NeedsKv <- FALSE, Defer <- FALSE,
  MaxPreempt <- 2, Aborts <- {1}, Resets <- TRUE, Requests <- {1},
  Prompt <- <<3>>, MaxNew <- 3
Padded == INSTANCE AsyncScheduler WITH Lookahead <- 2, NumSpec <- 2, MaxLen <- 5,
  MaxBatched <- 6, MaxRunning <- 2, BlockSize <- 1, Depth <- 2,
  ByPriority <- FALSE, Async <- TRUE, NeedsKv <- FALSE, Defer <- FALSE,
  MaxPreempt <- 1, Aborts <- {}, Resets <- FALSE, Requests <- {1, 2},
  Prompt <- <<2, 1>>, MaxNew <- 3
asyncVars == <<req, running, waiting, skipped, finishedIds, preemptedIds,
  phase, cursor, budget, plan, passed, evicted, counted, flights, schedSeq,
  doneSeq, deferred, rowOf, table, gpu>>
asyncOff == req = Off /\ running = Off /\ waiting = Off /\ skipped = Off
  /\ finishedIds = Off /\ preemptedIds = Off /\ phase = Off /\ cursor = Off
  /\ budget = Off /\ plan = Off /\ passed = Off /\ evicted = Off /\ counted = Off
  /\ flights = Off /\ schedSeq = Off /\ doneSeq = Off /\ deferred = Off
  /\ rowOf = Off /\ table = Off /\ gpu = Off

(* Clients that send ahead, with one step in flight and with two; and      *)
(* clients that wait for their turn.                                       *)
Sessions == INSTANCE StreamingSessions WITH Requests <- {1, 2}, Chunks <- <<2,
  1>>, ChunkLen <- 1, MaxNew <- 2, MaxRunning <- 2, Depth <- 1,
  MaxPreempt <- 1, SendAhead <- TRUE, req <- sessionReq,
  running <- sessionRunning, waiting <- sessionWaiting,
  skipped <- sessionSkipped, finishedIds <- sessionFinishedIds,
  preemptedIds <- sessionPreemptedIds, flights <- sessionFlights
Overlapped == INSTANCE StreamingSessions WITH Requests <- {1, 2}, Chunks <- <<2,
  1>>, ChunkLen <- 1, MaxNew <- 2, MaxRunning <- 2, Depth <- 2,
  MaxPreempt <- 1, SendAhead <- TRUE, req <- sessionReq,
  running <- sessionRunning, waiting <- sessionWaiting,
  skipped <- sessionSkipped, finishedIds <- sessionFinishedIds,
  preemptedIds <- sessionPreemptedIds, flights <- sessionFlights
Turns == INSTANCE StreamingSessions WITH Requests <- {1, 2, 3}, Chunks <- <<1,
  1, 1>>, ChunkLen <- 1, MaxNew <- 2, MaxRunning <- 2, Depth <- 1,
  MaxPreempt <- 1, SendAhead <- FALSE, req <- sessionReq,
  running <- sessionRunning, waiting <- sessionWaiting,
  skipped <- sessionSkipped, finishedIds <- sessionFinishedIds,
  preemptedIds <- sessionPreemptedIds, flights <- sessionFlights
sessionVars == <<sessionReq, sessionRunning, sessionWaiting, sessionSkipped,
  paused, sessionFinishedIds, sessionPreemptedIds, sent, sessionFlights, rows,
  kv>>
sessionOff == sessionReq = Off /\ sessionRunning = Off /\ sessionWaiting = Off
  /\ sessionSkipped = Off /\ paused = Off /\ sessionFinishedIds = Off
  /\ sessionPreemptedIds = Off /\ sent = Off /\ sessionFlights = Off
  /\ rows = Off /\ kv = Off

(* Two items in a row and one of them again; whole items twice in a        *)
(* prompt; an item a chunk behind the start, by priority.                  *)
Chunked == INSTANCE EncoderInputs WITH Requests <- 1 .. 3, Size <- [i \in 1 ..
  3 |-> 2], Remote <- {}, Batched <- 4, ComputeBudget <- 4, CacheSize <- 4,
  Lookahead <- 1, ChunkedMm <- TRUE, ByPriority <- FALSE, Depth <- 2,
  MaxPreempt <- 1, Prompt <- <<6, 4, 4>>, Features <- Items,
  running <- encRunning, waiting <- encWaiting
WholeItems == INSTANCE EncoderInputs WITH Requests <- 1 .. 3, Size <- [i \in 1
  .. 3 |-> 2], Remote <- {2}, Batched <- 4, ComputeBudget <- 2, CacheSize <- 4,
  Lookahead <- 1, ChunkedMm <- FALSE, ByPriority <- FALSE, Depth <- 1,
  MaxPreempt <- 1, Prompt <- <<7, 4, 6>>, Features <- FramedItems,
  running <- encRunning, waiting <- encWaiting
Late == INSTANCE EncoderInputs WITH Requests <- 1 .. 3, Size <- [i \in 1 ..
  3 |-> 2], Remote <- {}, Batched <- 3, ComputeBudget <- 2, CacheSize <- 4,
  Lookahead <- 0, ChunkedMm <- FALSE, ByPriority <- TRUE, Depth <- 2,
  MaxPreempt <- 1, Prompt <- <<3, 7, 7>>, Features <- LateItems,
  running <- encRunning, waiting <- encWaiting
encVars == <<future, encRunning, encWaiting, computed, stale, cache, pass,
  steps, ran, held, missed, preempted>>
encOff == future = Off /\ encRunning = Off /\ encWaiting = Off
  /\ computed = Off /\ stale = Off /\ cache = Off /\ pass = Off /\ steps = Off
  /\ ran = Off /\ held = Off /\ missed = Off /\ preempted = Off

(* Blocks of one token, aborts and drops; blocks of two tokens with a      *)
(* draft.                                                                  *)
Routed == INSTANCE RoutedExperts WITH Requests <- {1, 2}, Prompt <- <<2, 1>>,
  Common <- 1, MaxNew <- 2, NumSpec <- 0, PromptStart <- <<1, 0>>,
  BlockSize <- 1, HashSize <- 1, NumBlocks <- 3, MaxBatched <- 2, Depth <- 2,
  Async <- TRUE, MaxPreempt <- 1, Aborts <- {1}, Drops <- TRUE,
  MaxDp <- 3, MaxTp <- 3, MaxTokens <- 4, MaxPad <- 2,
  req <- routedReq, gpu <- routedGpu, flights <- routedFlights
Drafts == INSTANCE RoutedExperts WITH Requests <- {1, 2}, Prompt <- <<2, 3>>,
  Common <- 2, MaxNew <- 2, NumSpec <- 1, PromptStart <- <<1, 0>>,
  BlockSize <- 2, HashSize <- 2, NumBlocks <- 4, MaxBatched <- 3, Depth <- 2,
  Async <- TRUE, MaxPreempt <- 1, Aborts <- {}, Drops <- FALSE,
  MaxDp <- 1, MaxTp <- 1, MaxTokens <- 1, MaxPad <- 0,
  req <- routedReq, gpu <- routedGpu, flights <- routedFlights
routedVars == <<routedReq, pool, bySlot, snapshot, routing, routedGpu, device,
  routedFlights>>
routedOff == routedReq = Off /\ pool = Off /\ bySlot = Off /\ snapshot = Off
  /\ routing = Off /\ routedGpu = Off /\ device = Off /\ routedFlights = Off

(* A capture (CaptureNext): every layout of up to three data- and          *)
(* tensor-parallel ranks.                                                  *)
captureVars == <<case, buffer>>
captureOff == case = Off /\ buffer = Off

ASSUME Instances ==
  /\ Sessions!SessionAssumption
  /\ Overlapped!SessionAssumption
  /\ Turns!SessionAssumption
  /\ Chunked!EncoderAssumption
  /\ WholeItems!EncoderAssumption
  /\ Late!EncoderAssumption
  /\ Routed!RoutedAssumption
  /\ Drafts!RoutedAssumption

-----------------------------------------------------------------------------
Parts == {"fcfs", "priority", "dropped", "padded", "sessions",
  "overlapped", "turns", "chunked", "whole", "late", "routed", "drafts",
  "capture"}

PartInit ==
  /\ CASE part = "fcfs" -> Fcfs!Init
       [] part = "priority" -> Priority!Init
       [] part = "dropped" -> Dropped!Init
       [] part = "padded" -> Padded!Init
       [] OTHER -> asyncOff
  /\ CASE part = "sessions" -> Sessions!SessionInit
       [] part = "overlapped" -> Overlapped!SessionInit
       [] part = "turns" -> Turns!SessionInit
       [] OTHER -> sessionOff
  /\ CASE part = "chunked" -> Chunked!EncInit
       [] part = "whole" -> WholeItems!EncInit
       [] part = "late" -> Late!EncInit
       [] OTHER -> encOff
  /\ CASE part = "routed" -> Routed!Init
       [] part = "drafts" -> Drafts!Init
       [] OTHER -> routedOff
  /\ IF part = "capture" THEN Routed!CaptureInit ELSE captureOff

SuiteInit == part \in Parts /\ PartInit

SuiteNext ==
  /\ CASE part = "fcfs" -> Fcfs!Next
       [] part = "priority" -> Priority!Next
       [] part = "dropped" -> Dropped!Next
       [] part = "padded" -> Padded!Next
       [] OTHER -> UNCHANGED asyncVars
  /\ CASE part = "sessions" -> Sessions!SessionNext
       [] part = "overlapped" -> Overlapped!SessionNext
       [] part = "turns" -> Turns!SessionNext
       [] OTHER -> UNCHANGED sessionVars
  /\ CASE part = "chunked" -> Chunked!EncNext
       [] part = "whole" -> WholeItems!EncNext
       [] part = "late" -> Late!EncNext
       [] OTHER -> UNCHANGED encVars
  /\ CASE part = "routed" -> Routed!Next
       [] part = "drafts" -> Drafts!Next
       [] OTHER -> UNCHANGED routedVars
  /\ IF part = "capture" THEN Routed!CaptureNext ELSE UNCHANGED captureVars
  /\ UNCHANGED part

suiteVars == <<part, asyncVars, sessionVars, encVars, routedVars, captureVars>>
SuiteSpec == SuiteInit /\ [][SuiteNext]_suiteVars

(* Sessions with two steps in flight alone.                                *)
OverlappedSpec == part = "overlapped" /\ PartInit /\ [][SuiteNext]_suiteVars

-----------------------------------------------------------------------------
(* The asynchronous scheduler keeps every request in the queue its status  *)
(* names, omits none ("preventing the silent omission of the subsequent    *)
(* request"), and what it counts ahead of the GPU is what the runner finds *)
(* when it executes the step: rows, known tokens, drafts, block tables and *)
(* blocks that are not yet free (scheduler.py, model_runner.py:            *)
(* "Fewer query rows than that would silently select the preceding         *)
(* request's hidden states").                                              *)
StepsMatch ==
  /\ part = "fcfs" => /\ Fcfs!QueuesAgree /\ Fcfs!StepMatches /\ Fcfs!TableExact
                     /\ Fcfs!FreedAfterWrites /\ Fcfs!DecodesLead
  /\ part = "priority" => Priority!NoneOmitted /\ Priority!QueuesAgree /\ Priority!StepMatches
  /\ part = "dropped" => Dropped!TypeOK /\ Dropped!InOrder /\ Dropped!StepMatches
  /\ part = "padded" => Padded!PlansPositive /\ Padded!StepMatches

(* With one step in flight a streaming session keeps the tokens behind its *)
(* blocks, the order of its inputs and its place in one queue, and the     *)
(* runner has a row for it if clients wait for their turn                  *)
(* (_update_request_as_session, schedule: "still hold a model-runner       *)
(* request slot").  With two in flight that holds of the sessions that     *)
(* were not preempted; InputCommences shows what becomes of the others.    *)
SessionsKept ==
  /\ part = "sessions" => /\ Sessions!SessionTypeOK /\ Sessions!PausedExact /\ Sessions!PrefixKept
                         /\ Sessions!InputsInOrder /\ Sessions!NeverLost
  /\ part = "overlapped" => Overlapped!PausedExact /\ Overlapped!KeptUnlessPreempted
  /\ part = "turns" => Turns!RowsSuffice

(* With two steps in flight, a session that has its next input is queued   *)
(* to be scheduled (add_request: "Commence next input chunk").             *)
InputCommences == part = "overlapped" => Overlapped!InputCommences

(* The runner holds every encoder output it gathers ("Encoder cache miss"),*)
(* fits the cache's size and encodes no more than the budget, whoever was  *)
(* preempted while the step was made (_try_schedule_encoder_inputs).       *)
EncoderHeld ==
  /\ part = "chunked" => Chunked!NoMiss /\ Chunked!RunnerFits
  /\ part = "whole" => WholeItems!NoMiss /\ WholeItems!BudgetKept
  /\ part = "late" => Late!RunnerFits /\ Late!BudgetKept

(* A client receives the routing of exactly its own tokens, whatever was   *)
(* preempted, resumed, rejected or given to others since, and hits find it *)
(* with the blocks; each rank captures its own tokens' rows                *)
(* (routed_experts_manager.py, routed_experts_capturer.py).                *)
RoutingExact ==
  /\ part = "routed" => Routed!RoutingExact /\ Routed!HitsCarryRouting
  /\ part = "drafts" => Drafts!RoutingExact /\ Drafts!HitsCarryRouting
  /\ part = "capture" => Routed!OwnRows
=============================================================================
