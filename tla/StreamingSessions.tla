------------------------- MODULE StreamingSessions --------------------------
(***************************************************************************)
(* Resumable requests (v1/core/sched/scheduler.py): a client sends its     *)
(* input in chunks; the request stops at the end of each answer, keeps its *)
(* blocks and its row in the model runner, and goes on with the next chunk.*)
(*                                                                         *)
(* A token is the chunk it came with, or Out for a sampled one.  Up to     *)
(* Depth steps are in flight (pipeline parallelism); the block pool is     *)
(* left open.                                                              *)
(***************************************************************************)
EXTENDS Integers, Sequences, FiniteSets, SequencesExt

CONSTANTS
  Requests,
  Chunks,      \* inputs each client sends before it ends the session
  ChunkLen,
  MaxNew,      \* max_tokens of an answer
  MaxRunning,  \* max_num_running_reqs, and the rows of the runner
  Depth,
  MaxPreempt,  \* bound on preemptions of a request
  SendAhead    \* whether clients send before the answer is complete

(* What the constants may be.                                              *)
SessionAssumption ==
  /\ IsFiniteSet(Requests) /\ Chunks \in [Requests -> Nat \ {0}]
  /\ {ChunkLen, MaxNew, MaxRunning, Depth} \subseteq Nat \ {0} /\ MaxPreempt \in Nat
  /\ SendAhead \in BOOLEAN

VARIABLES
  req, running, waiting, skipped,
  paused,                    \* num_waiting_for_streaming_input
  finishedIds, preemptedIds,
  sent,                      \* inputs each client has sent; one more for the end
  flights,                   \* steps in flight: tokens per request
  rows, kv                   \* runner: requests with a row, tokens behind its blocks

sessionVars == <<req, running, waiting, skipped, paused, finishedIds, preemptedIds, sent,
                 flights, rows, kv>>

Out == 0
End == -1
Input(c) == [i \in 1 .. ChunkLen |-> c]

NewReq == [status |-> "none", tokens |-> <<>>, prompt |-> 0, computed |-> 0, inflight |-> 0,
           stale |-> 0, queue |-> <<>>, preempts |-> 0]
OutCount(q) == Len(q.tokens) - q.prompt

SessionInit ==
  /\ req = [r \in Requests |-> NewReq]
  /\ running = <<>> /\ waiting = <<>> /\ skipped = <<>> /\ paused = 0
  /\ finishedIds = {} /\ preemptedIds = {}
  /\ sent = [r \in Requests |-> 0] /\ flights = <<>>
  /\ rows = {} /\ kv = [r \in Requests |-> <<>>]

(* Mutant: nothing is removed.                                             *)
AllStay(q, S) == q
Without(q, S) == SelectSeq(q, LAMBDA r : r \notin S)

-----------------------------------------------------------------------------
(* _update_request_as_session: the next input follows the tokens computed  *)
(* so far; the last sampled token is dropped.  Mutants: the whole answer   *)
(* is dropped; only the answer is kept.                                    *)
PromptOnly(q) == SubSeq(q.tokens, 1, q.prompt)
AnswerOnly(q) == SubSeq(q.tokens, q.prompt + 1, q.computed)
KeptTokens(q) == SubSeq(q.tokens, 1, q.computed)
AsSession(q, chunk) ==
  LET tokens == KeptTokens(q) \o Input(chunk)
  IN  [q EXCEPT !.tokens = tokens, !.prompt = Len(tokens), !.status = "waiting"]

(* add_request of the first input, of the next one, or of the end.  What   *)
(* arrives while an answer is under way waits in the request's own queue.  *)
Open(r) ==
  /\ sent[r] = 0 /\ sent' = [sent EXCEPT ![r] = 1]
  /\ req' = [req EXCEPT ![r] = [NewReq EXCEPT !.status = "waiting", !.tokens = Input(1),
                                              !.prompt = ChunkLen]]
  /\ waiting' = Append(waiting, r)
  /\ UNCHANGED <<running, skipped, paused, finishedIds, preemptedIds, flights, rows, kv>>

Update(r) == IF sent[r] < Chunks[r] THEN sent[r] + 1 ELSE End

(* Mutants: a paused session is not counted out; any session is.           *)
StillPaused(r) == paused
AnyPaused(r) == paused - 1
PausedAfter(r) == IF req[r].status = "paused" THEN paused - 1 ELSE paused

Send(r) ==
  /\ sent[r] \in 1 .. Chunks[r] /\ req[r].status \notin {"none", "finished"}
  /\ SendAhead \/ req[r].status = "paused"
  /\ sent' = [sent EXCEPT ![r] = @ + 1]
  /\ IF req[r].status # "paused"
       THEN /\ req' = [req EXCEPT ![r].queue = Append(@, Update(r))]
            /\ UNCHANGED <<running, waiting, skipped, paused, finishedIds>>
     ELSE IF Update(r) # End
       THEN /\ req' = [req EXCEPT ![r] = AsSession(@, Update(r))]
            /\ paused' = PausedAfter(r)
            /\ UNCHANGED <<running, waiting, skipped, finishedIds>>
     ELSE /\ req' = [req EXCEPT ![r].status = "finished"]
          /\ paused' = PausedAfter(r) /\ finishedIds' = finishedIds \union {r}
          /\ waiting' = Without(waiting, {r}) /\ skipped' = Without(skipped, {r})
          /\ UNCHANGED running
  /\ UNCHANGED <<preemptedIds, flights, rows, kv>>

(* finish_requests for a client that is gone.                              *)
Abort(r) ==
  /\ req[r].status \notin {"none", "finished"}
  /\ req' = [req EXCEPT ![r].status = "finished"]
  /\ paused' = PausedAfter(r) /\ finishedIds' = finishedIds \union {r}
  /\ running' = Without(running, {r}) /\ waiting' = Without(waiting, {r})
  /\ skipped' = Without(skipped, {r})
  /\ UNCHANGED <<preemptedIds, sent, flights, rows, kv>>

-----------------------------------------------------------------------------
(* A pass of schedule() and the runner's part of the step.                 *)

Left(r) == Len(req[r].tokens) - req[r].computed
Blocked(r) == req[r].status = "paused" \/ req[r].stale > 0

Preempted(q) ==
  [q EXCEPT !.status = "preempted", !.computed = 0, !.stale = q.inflight, !.preempts = @ + 1]

(* Slots left for admission.  Mutant: sessions that pause are not counted. *)
OnlyRunning == MaxRunning - Len(running)
Slots == MaxRunning - (Len(running) + paused)

(* The running requests behind the first `keep' are preempted, from the    *)
(* last: the allocation for one of those before failed.                    *)
PreemptSome(keep) ==
  LET gone == SubSeq(running, keep + 1, Len(running))
      plan == {r \in ToSet(SubSeq(running, 1, keep)) : Left(r) > 0}
  IN  /\ keep < Len(running) /\ \E i \in 1 .. keep + 1 : Left(running[i]) > 0
      /\ \A r \in ToSet(gone) : req[r].preempts < MaxPreempt
      /\ running' = SubSeq(running, 1, keep) /\ waiting' = gone \o waiting /\ UNCHANGED skipped
      /\ req' = [r \in Requests |->
                  IF r \in ToSet(gone) THEN Preempted(req[r])
                  ELSE IF r \in plan THEN [req[r] EXCEPT !.computed = @ + Left(r), !.inflight = @ + Left(r)]
                  ELSE req[r]]
      /\ flights' = Append(flights, [r \in plan |-> [n |-> Left(r), samples |-> TRUE]])
      /\ rows' = rows \ (finishedIds \union preemptedIds \union ToSet(gone))
      /\ kv' = [r \in Requests |-> IF r \in plan THEN req[r].tokens ELSE kv[r]]

(* Otherwise the waiting requests are traversed as far as `reach', the     *)
(* skipped ones first; those that cannot go on are put back.  A hit in the *)
(* prefix cache is left out: a resumed request computes all its tokens.    *)
AdmitSome(reach) ==
  LET queue == skipped \o waiting
      seen  == SubSeq(queue, 1, reach)
      new   == SelectSeq(seen, LAMBDA r : ~Blocked(r))
      plan  == {r \in ToSet(running \o new) : Left(r) > 0}
  IN  /\ Len(new) <= Slots \/ new = <<>>
      /\ running' = running \o new
      /\ skipped' = Without(seen, ToSet(new)) \o SubSeq(skipped, reach + 1, Len(skipped))
      /\ waiting' = SubSeq(queue, (IF reach > Len(skipped) THEN reach ELSE Len(skipped)) + 1, Len(queue))
      /\ req' = [r \in Requests |->
                  IF r \in plan
                    THEN [req[r] EXCEPT !.status = "running", !.computed = @ + Left(r), !.inflight = @ + Left(r)]
                    ELSE req[r]]
      /\ flights' = Append(flights, [r \in plan |-> [n |-> Left(r), samples |-> TRUE]])
      /\ rows' = (rows \ (finishedIds \union preemptedIds)) \union ToSet(new)
      /\ kv' = [r \in Requests |-> IF r \in plan THEN req[r].tokens ELSE kv[r]]

Pass ==
  /\ Len(flights) < Depth
  /\ \/ \E keep \in 0 .. Len(running) : PreemptSome(keep)
     \/ \E reach \in 0 .. Len(skipped) + Len(waiting) : AdmitSome(reach)
  /\ finishedIds' = {} /\ preemptedIds' = {}
  /\ UNCHANGED <<paused, sent>>

-----------------------------------------------------------------------------
(* update_from_output: each request of the step got one token.             *)

(* _handle_stopped_request.  Mutant: the end of the session is taken as no *)
(* input.                                                                  *)
EndIgnored(q) ==
  IF q.queue = <<>> THEN [q EXCEPT !.status = "paused"]
  ELSE IF Head(q.queue) = End THEN [q EXCEPT !.status = "paused", !.queue = <<>>]
  ELSE [AsSession(q, Head(q.queue)) EXCEPT !.queue = Tail(@)]
Stopped(q) ==
  IF q.queue = <<>> THEN [q EXCEPT !.status = "paused"]
  ELSE IF Head(q.queue) = End THEN [q EXCEPT !.status = "finished", !.queue = <<>>]
  ELSE [AsSession(q, Head(q.queue)) EXCEPT !.queue = Tail(@)]

Receive(q, n) ==
  [q EXCEPT !.inflight = @ - n, !.stale = IF @ > 0 THEN @ - n ELSE @,
            !.tokens = IF q.status = "finished" THEN @ ELSE Append(@, Out)]

(* The stopped requests leave the queue they were in before: running, or,  *)
(* when stale output stops a preempted one, both waiting queues, where     *)
(* _handle_stopped_request has just put them.                              *)
Output ==
  /\ flights # <<>>
  /\ LET step == Head(flights)
         got(r) == Receive(req[r], step[r].n)
         alive == {r \in DOMAIN step : req[r].status # "finished"}
         must == {r \in alive : OutCount(got(r)) >= MaxNew}
     IN  \E stop \in SUBSET alive :
           LET after(r) == IF r \in stop THEN Stopped(got(r)) ELSE got(r)
               wasRunning == {r \in stop : req[r].status = "running"}
               order == SetToSortSeq(stop, <)
               queued == SelectSeq(order, LAMBDA r : after(r).status = "waiting")
               pausing == SelectSeq(order, LAMBDA r : after(r).status = "paused")
               other == stop \ wasRunning
           IN  /\ must \subseteq stop
               /\ req' = [r \in Requests |-> IF r \in DOMAIN step THEN after(r) ELSE req[r]]
               /\ paused' = paused + Len(pausing)
               /\ finishedIds' = finishedIds \union {r \in stop : after(r).status = "finished"}
               /\ running' = Without(running, wasRunning)
               /\ waiting' = Without(waiting \o queued, other)
               /\ skipped' = Without(skipped \o pausing, other)
  /\ flights' = Tail(flights)
  /\ UNCHANGED <<preemptedIds, sent, rows, kv>>

SessionNext ==
  \/ \E r \in Requests : Open(r) \/ Send(r) \/ Abort(r)
  \/ Pass \/ Output
SessionSpec == SessionInit /\ [][SessionNext]_sessionVars

(* Clients send all their input, the engine schedules and processes; what  *)
(* can be admitted again and again is admitted.                            *)
SessionFair ==
  /\ \A r \in Requests : WF_sessionVars(Open(r)) /\ WF_sessionVars(Send(r))
  /\ WF_sessionVars(Output)
  /\ \A r \in Requests : SF_sessionVars(Pass /\ r \in DOMAIN flights'[Len(flights')])
SessionFairSpec == SessionSpec /\ SessionFair

-----------------------------------------------------------------------------
SessionTypeOK ==
  /\ \A r \in Requests :
       /\ req[r].status \in {"none", "waiting", "running", "preempted", "paused", "finished"}
       /\ {req[r].computed, req[r].inflight, req[r].stale} \subseteq Nat
  /\ paused \in Nat /\ Len(flights) <= Depth

(* The counter that reserves runner slots is the number of paused sessions *)
(* (num_waiting_for_streaming_input).                                      *)
PausedExact == paused = Cardinality({r \in Requests : req[r].status = "paused"})

(* The tokens behind a running session's blocks are the tokens it believes *)
(* to be computed, through every chunk (_update_request_as_session).       *)
PrefixOf(r) ==
  req[r].status \in {"running", "waiting", "paused"} =>
    /\ req[r].computed <= Len(req[r].tokens)
    /\ SubSeq(kv[r], 1, req[r].computed) = SubSeq(req[r].tokens, 1, req[r].computed)
PrefixKept == \A r \in Requests : PrefixOf(r)

(* The inputs of a session stand in the order the client sent them, none   *)
(* missing and none doubled.                                               *)
InputsOf(r) ==
  LET inputs == SelectSeq(req[r].tokens, LAMBDA t : t # Out)
  IN  \A i \in 1 .. Len(inputs) : inputs[i] = (i - 1) \div ChunkLen + 1
InputsInOrder == \A r \in Requests : InputsOf(r)

(* Every session that is not finished is in exactly one queue.             *)
Once(q, r) == Cardinality({i \in 1 .. Len(q) : q[i] = r})
Places(r) == Once(running, r) + Once(waiting, r) + Once(skipped, r)
PlaceOf(r) == Places(r) = IF req[r].status \in {"none", "finished"} THEN 0 ELSE 1
NeverLost == \A r \in Requests : PlaceOf(r)

(* With several steps in flight the three hold of every session as long as *)
(* it was not preempted, whatever becomes of the others; a session is      *)
(* never in two queues, and leaves all of them only when its own stale     *)
(* output stopped it (update_from_output, stopped_preempted_reqs), with    *)
(* nothing computed.                                                       *)
KeptUnlessPreempted ==
  \A r \in Requests :
    /\ req[r].preempts = 0 => PrefixOf(r) /\ InputsOf(r) /\ PlaceOf(r)
    /\ ~PlaceOf(r) => Places(r) = 0 /\ req[r].status \in {"waiting", "paused"} /\ req[r].computed = 0

(* A session that has its next input is in a queue (add_request: "Commence *)
(* next input chunk").                                                     *)
InputCommences == \A r \in Requests : req[r].status = "waiting" => Places(r) = 1

(* The runner has a row for every request it is given (schedule: "Paused   *)
(* streaming sessions ... still hold a model-runner request slot").        *)
RowsSuffice == Cardinality(rows) <= MaxRunning

(* A session whose client ends it is finished.                             *)
SessionsEnd == \A r \in Requests : (sent[r] > Chunks[r]) ~> (req[r].status = "finished")
=============================================================================
