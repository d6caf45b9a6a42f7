--------------------------- MODULE AsyncScheduler ---------------------------
(***************************************************************************)
(* The scheduler's queues and counters when steps overlap                  *)
(* (v1/core/sched/scheduler.py): both policies, the two waiting queues,    *)
(* preemption with output still in flight, delivered or dropped on return, *)
(* the reset of the prefix cache, and blocks whose release waits for the   *)
(* steps that may still write them; and the rows and block tables of its   *)
(* model runner.                                                           *)
(*                                                                         *)
(* The block pool is left open: an allocation of new blocks may fail at    *)
(* any time.  Output tokens are named by their position in the sequence.   *)
(* Left out: the input budget and its slots for parallel drafting, and     *)
(* long_prefill_token_threshold (both only make a step's share smaller).   *)
(***************************************************************************)
EXTENDS Integers, Sequences, FiniteSets, SequencesExt

CONSTANTS
  Requests,     \* numbers; a lower number has priority over a higher one
  Prompt,       \* prompt length of each request
  MaxNew,       \* max_tokens
  NumSpec,      \* draft tokens per step
  MaxLen,       \* max_model_len
  Lookahead,    \* num_prefill_lookahead
  MaxBatched,   \* token budget of a step
  MaxRunning,   \* max_num_running_reqs
  BlockSize,
  Depth,        \* steps scheduled and not processed
  ByPriority,   \* policy
  Async,        \* AsyncScheduler
  NeedsKv,      \* requires_kv_delivery
  Defer,        \* defer_block_free
  MaxPreempt,   \* bound on preemptions of a request
  Aborts,       \* requests a client may abort
  Resets        \* whether the prefix cache may be reset

(* What the constants may be.                                              *)
SchedulerAssumption ==
  /\ Requests \subseteq Nat /\ IsFiniteSet(Requests)
  /\ Prompt \in [Requests -> Nat \ {0}]
  /\ {MaxNew, MaxBatched, MaxRunning, BlockSize, Depth} \subseteq Nat \ {0}
  /\ {NumSpec, Lookahead, MaxPreempt} \subseteq Nat
  /\ \A r \in Requests : Prompt[r] + MaxNew <= MaxLen
  /\ {ByPriority, Async, NeedsKv, Defer, Resets} \subseteq BOOLEAN
  /\ Aborts \subseteq Requests
  /\ Async \/ Depth = 1

VARIABLES
  req,                       \* Request
  running, waiting, skipped,
  finishedIds, preemptedIds, \* sent to the worker with the next step
  phase, cursor, budget, plan, passed, evicted, \* the pass of schedule() under way
  counted,                   \* num_new_tokens once an allocation failed, or 0
  flights,                   \* steps scheduled and not processed
  schedSeq, doneSeq, deferred

passVars == <<cursor, budget, plan, passed, evicted, counted>>
fenceVars == <<schedSeq, doneSeq, deferred>>
queueVars == <<running, waiting, skipped>>
schedulerVars == <<req, queueVars, finishedIds, preemptedIds, phase, passVars, flights, fenceVars>>

Smaller(a, b) == IF a <= b THEN a ELSE b
Larger(a, b)  == IF a >= b THEN a ELSE b
Cdiv(n)       == (n + BlockSize - 1) \div BlockSize

NewReq == [status |-> "new", out |-> <<>>, computed |-> 0, holders |-> 0, spec |-> 0,
           inflight |-> 0, stale |-> 0, drop |-> FALSE, chunk |-> FALSE,
           epoch |-> 0, blocks |-> 0, last |-> 0]
Tokens(r) == Prompt[r] + Len(req[r].out)

SchedulerInit ==
  /\ req = [r \in Requests |-> NewReq]
  /\ running = <<>> /\ waiting = <<>> /\ skipped = <<>>
  /\ finishedIds = {} /\ preemptedIds = {}
  /\ phase = "idle" /\ cursor = 1 /\ budget = MaxBatched /\ plan = <<>>
  /\ passed = <<>> /\ evicted = FALSE /\ counted = 0
  /\ flights = <<>> /\ schedSeq = 0 /\ doneSeq = 0 /\ deferred = <<>>

-----------------------------------------------------------------------------
(* Queues: first come first served, or ordered by priority.                *)

(* Mutant: a finished request stays queued.                                *)
AllStay(q, S) == q
Without(q, S) == SelectSeq(q, LAMBDA r : r \notin S)

ByRank(q) == SortSeq(q, <)
AtEnd(q, r)   == IF ByPriority THEN ByRank(Append(q, r)) ELSE Append(q, r)
InFront(q, s) == IF ByPriority THEN ByRank(s \o q) ELSE s \o q

(* The skipped requests go first, or whichever head has priority.          *)
FromSkipped ==
  IF ~ByPriority \/ waiting = <<>> THEN skipped # <<>>
  ELSE skipped # <<>> /\ Head(skipped) < Head(waiting)
NextWaiting == IF FromSkipped THEN Head(skipped) ELSE Head(waiting)
Popped ==
  IF FromSkipped THEN skipped' = Tail(skipped) /\ UNCHANGED waiting
  ELSE waiting' = Tail(waiting) /\ UNCHANGED skipped

-----------------------------------------------------------------------------
(* Blocks.  Those of one admission of a request are freed together, at     *)
(* once or behind the fence of the last step scheduled.  Mutant: behind    *)
(* the last step processed.                                                *)

FenceDone == doneSeq
FenceOf == schedSeq
AfterFree(queue, r) ==
  IF Defer /\ req[r].last > doneSeq /\ req[r].blocks > 0
    THEN Append(queue, [fence |-> FenceOf, req |-> r, epoch |-> req[r].epoch])
    ELSE queue

(* _drain_deferred_frees stops at the first pending fence.                 *)
Drained(queue, seq) ==
  LET pending == {i \in 1 .. Len(queue) : queue[i].fence > seq}
  IN  IF pending = {} THEN <<>> ELSE SubSeq(queue, Min(pending), Len(queue))

-----------------------------------------------------------------------------
(* Clients and the engine, between two passes.                             *)

Add(r) ==
  /\ phase = "idle" /\ req[r].status = "new"
  /\ req' = [req EXCEPT ![r].status = "waiting"]
  /\ waiting' = AtEnd(waiting, r)
  /\ UNCHANGED <<running, skipped, finishedIds, preemptedIds, phase, passVars, flights, fenceVars>>

Ended(q) == [q EXCEPT !.status = "finished", !.blocks = 0]
Abort(r) ==
  /\ r \in Aborts /\ phase = "idle" /\ req[r].status \in {"waiting", "running", "preempted"}
  /\ req' = [req EXCEPT ![r] = Ended(@)]
  /\ running' = Without(running, {r}) /\ waiting' = Without(waiting, {r})
  /\ skipped' = Without(skipped, {r})
  /\ finishedIds' = finishedIds \union {r}
  /\ deferred' = AfterFree(deferred, r)
  /\ UNCHANGED <<preemptedIds, phase, passVars, flights, schedSeq, doneSeq>>

(* _preempt_request: output in flight is stale from now on.  Mutants: the  *)
(* stale share accumulates; a dropped share is delivered after all when    *)
(* the request is preempted again.                                         *)
StaleAdded(q) == q.stale + q.inflight
StaleShare(q) == q.inflight
DropForgotten(q, drop) == drop
DropAgain(q, drop) == drop \/ (q.drop /\ q.stale > 0)
Preempted(q, drop) ==
  [q EXCEPT !.status = "preempted", !.computed = 0, !.spec = 0, !.holders = 0,
            !.drop = DropAgain(q, drop), !.stale = StaleShare(q),
            !.epoch = @ + 1, !.blocks = 0]

(* reset_prefix_cache with reset_running_requests: from the last to the    *)
(* first, so that the queue keeps their order.                             *)
Reset ==
  /\ Resets /\ phase = "idle" /\ running # <<>>
  /\ \A r \in ToSet(running) : req[r].epoch < MaxPreempt
  /\ req' = [r \in Requests |-> IF r \in ToSet(running) THEN Preempted(req[r], TRUE) ELSE req[r]]
  /\ waiting' = InFront(waiting, running) /\ running' = <<>>
  /\ preemptedIds' = preemptedIds \union ToSet(running)
  /\ deferred' = FoldRight(LAMBDA r, queue : AfterFree(queue, r), running, deferred)
  /\ UNCHANGED <<skipped, finishedIds, phase, passVars, flights, schedSeq, doneSeq>>

-----------------------------------------------------------------------------
(* schedule(): the loop over the running requests.                         *)

StartPass ==
  /\ phase = "idle" /\ Len(flights) < Depth
  /\ finishedIds # {} \/ \E r \in Requests : req[r].status \in {"waiting", "running", "preempted"}
  /\ phase' = "run" /\ cursor' = 1 /\ budget' = MaxBatched /\ plan' = <<>>
  /\ passed' = <<>> /\ evicted' = FALSE /\ counted' = 0
  /\ UNCHANGED <<req, queueVars, finishedIds, preemptedIds, flights, fenceVars>>

InLoop == phase = "run" /\ cursor <= Len(running) /\ budget > 0
Current == running[cursor]

SureToEnd(q, r) == q.holders > 0 /\ q.computed + 2 - q.holders >= Prompt[r] + MaxNew

(* _reserve_prefill_lookahead.  Mutant: without the bound at 0.            *)
ReserveUnbounded(r, computed, n) ==
  LET left == Tokens(r) - computed - n
  IN  IF 0 < left /\ left < Lookahead THEN n - (Lookahead - left) ELSE n
Reserve(r, computed, n) ==
  LET left == Tokens(r) - computed - n
  IN  Larger(0, IF 0 < left /\ left < Lookahead THEN n - (Lookahead - left) ELSE n)

NewTokens(r) ==
  LET q == req[r]
      wanted == Tokens(r) + q.spec + q.holders - q.computed
  IN  IF SureToEnd(q, r) THEN 0
      ELSE Reserve(r, q.computed, Smaller(Smaller(wanted, budget), MaxLen - q.computed - 1))

BlocksFor(total) == Cdiv(Smaller(total + NumSpec, MaxLen))
With(p, r, entry) == [s \in DOMAIN p \union {r} |-> IF s = r THEN entry ELSE p[s]]
Less(p, S) == [s \in DOMAIN p \ S |-> p[s]]

(* Counted once for a request: the budget that a preemption gives back     *)
(* while its blocks are allocated is for the requests behind it.           *)
CountedTokens == IF counted > 0 THEN counted ELSE NewTokens(Current)

RunSkip ==
  /\ InLoop /\ CountedTokens = 0
  /\ cursor' = cursor + 1
  /\ UNCHANGED <<req, queueVars, finishedIds, preemptedIds, phase, budget, plan, passed,
                 evicted, counted, flights, fenceVars>>

(* The drafts that fit behind the known tokens.  Mutant: all of them.      *)
Unclipped(r, n) == req[r].spec
Drafts(r, n) ==
  Smaller(req[r].spec, Larger(0, n + req[r].computed - Tokens(r) - req[r].holders))

RunPlace ==
  /\ InLoop /\ CountedTokens # 0
  /\ LET r == Current
         n == CountedTokens
         have == Larger(req[r].blocks, BlocksFor(req[r].computed + n))
     IN  /\ plan' = With(plan, r, [n |-> n, start |-> req[r].computed, drafts |-> Drafts(r, n),
                                   new |-> FALSE, epoch |-> req[r].epoch,
                                   from |-> req[r].blocks + 1, upTo |-> have, tokens |-> Tokens(r)])
         /\ req' = [req EXCEPT ![r].spec = 0, ![r].blocks = have]
         /\ budget' = budget - n
  /\ cursor' = cursor + 1 /\ counted' = 0
  /\ UNCHANGED <<queueVars, finishedIds, preemptedIds, phase, passed, evicted, flights, fenceVars>>

(* The last request, or the one with the least priority, whose tokens are  *)
(* given back if it was scheduled before; the cursor follows the request   *)
(* it points at.  Mutant: it does not.                                     *)
Victim ==
  IF ByPriority THEN CHOOSE v \in ToSet(running) : \A r \in ToSet(running) : r <= v
  ELSE running[Len(running)]
CursorStays(v) == cursor
CursorAfter(v) ==
  IF \E i \in 1 .. cursor - 1 : running[i] = v THEN cursor - 1 ELSE cursor

RunPreempt ==
  /\ InLoop /\ CountedTokens # 0
  /\ BlocksFor(req[Current].computed + CountedTokens) > req[Current].blocks
  /\ LET v == Victim
     IN  /\ req[v].epoch < MaxPreempt
         /\ req' = [req EXCEPT ![v] = Preempted(@, NeedsKv)]
         /\ running' = Without(running, {v}) /\ waiting' = InFront(waiting, <<v>>)
         /\ preemptedIds' = preemptedIds \union {v}
         /\ deferred' = AfterFree(deferred, v)
         /\ plan' = Less(plan, {v})
         /\ budget' = IF v \in DOMAIN plan THEN budget + plan[v].n ELSE budget
         /\ cursor' = CursorAfter(v)
         /\ phase' = IF v = Current THEN "end" ELSE "run"
         /\ counted' = IF v = Current THEN 0 ELSE CountedTokens
  /\ evicted' = TRUE
  /\ UNCHANGED <<skipped, finishedIds, passed, flights, schedSeq, doneSeq>>

(* Nothing is admitted in a pass that preempted.                           *)
EndRun ==
  /\ phase = "run" /\ ~InLoop
  /\ phase' = IF evicted THEN "end" ELSE "wait"
  /\ UNCHANGED <<req, queueVars, finishedIds, preemptedIds, passVars, flights, fenceVars>>

-----------------------------------------------------------------------------
(* schedule(): the loop over the waiting requests.                         *)

Admitting ==
  phase = "wait" /\ (waiting # <<>> \/ skipped # <<>>) /\ budget > 0 /\ Len(running) < MaxRunning

(* With deliverable output still in flight it is resumed later.  Mutant:   *)
(* at once.                                                                *)
ResumesAnyhow(r) == FALSE
MustDrain(r) == req[r].stale > 0 /\ ~req[r].drop

WaitSkip ==
  /\ Admitting /\ MustDrain(NextWaiting)
  /\ Popped /\ passed' = Append(passed, NextWaiting)
  /\ UNCHANGED <<req, running, finishedIds, preemptedIds, phase, cursor, budget, plan, evicted,
                 counted, flights, fenceVars>>

(* A request with one token left joins decodes padded to their size.       *)
Pads(r, hit) ==
  /\ NumSpec > 0 /\ Tokens(r) - hit = 1
  /\ DOMAIN plan # {} /\ \E s \in DOMAIN plan : ~plan[s].new
  /\ \A s \in DOMAIN plan : ~plan[s].new => ~req[s].chunk
PadFits(hit) == 1 + NumSpec <= budget /\ hit + 1 + NumSpec <= MaxLen
AdmitTokens(r, hit) ==
  IF Pads(r, hit) THEN IF PadFits(hit) THEN 1 + NumSpec ELSE 0
  ELSE Reserve(r, hit, Smaller(Tokens(r) - hit, budget))

Hits(r) == {h \in 0 .. Tokens(r) - 1 : h % BlockSize = 0}

WaitAdmit ==
  /\ Admitting /\ ~MustDrain(NextWaiting)
  /\ LET r == NextWaiting
     IN  \E hit \in Hits(r) :
           LET n == AdmitTokens(r, hit)
               have == BlocksFor(hit + n)
           IN  /\ n > 0
               /\ plan' = With(plan, r, [n |-> n, start |-> hit,
                                         drafts |-> IF Pads(r, hit) THEN NumSpec ELSE 0,
                                         new |-> TRUE, epoch |-> req[r].epoch,
                                         from |-> 1, upTo |-> have, tokens |-> Tokens(r)])
               /\ req' = [req EXCEPT ![r].status = "running", ![r].computed = hit,
                                     ![r].blocks = have]
               /\ budget' = budget - n
  /\ Popped /\ running' = Append(running, NextWaiting)
  /\ UNCHANGED <<finishedIds, preemptedIds, phase, cursor, passed, evicted,
                 counted, flights, fenceVars>>

(* The loop ends when there is nothing to admit, or an allocation fails.   *)
EndWait ==
  /\ phase = "wait"
  /\ skipped' = InFront(skipped, passed)
  /\ phase' = "end"
  /\ UNCHANGED <<req, running, waiting, finishedIds, preemptedIds, passVars, flights, fenceVars>>

-----------------------------------------------------------------------------
(* The end of schedule() and _update_after_schedule.  AsyncScheduler adds  *)
(* a placeholder per token a step past the prompt may return, and the next *)
(* step's drafts.                                                          *)
Advanced(r, seq) ==
  LET p == plan[r]
      q == [req[r] EXCEPT !.computed = @ + p.n, !.inflight = @ + p.n, !.last = seq,
                          !.chunk = req[r].computed + p.n < Tokens(r) + req[r].holders]
  IN  IF q.chunk \/ ~Async THEN q
      ELSE [q EXCEPT !.holders = @ + 1 + p.drafts, !.spec = NumSpec]

EndPass ==
  /\ phase = "end"
  /\ schedSeq' = IF Defer /\ DOMAIN plan # {} THEN schedSeq + 1 ELSE schedSeq
  /\ req' = [r \in Requests |-> IF r \in DOMAIN plan THEN Advanced(r, schedSeq') ELSE req[r]]
  /\ flights' = Append(flights, [plan |-> plan, finished |-> finishedIds,
                                 preempted |-> preemptedIds, done |-> FALSE, out |-> <<>>])
  /\ finishedIds' = {} /\ preemptedIds' = {}
  /\ phase' = "idle" /\ cursor' = 1 /\ budget' = MaxBatched /\ plan' = <<>>
  /\ passed' = <<>> /\ evicted' = FALSE /\ counted' = 0
  /\ UNCHANGED <<queueVars, doneSeq, deferred>>

-----------------------------------------------------------------------------
(* update_from_output.                                                     *)

(* A step's share of the stale tokens is drained with it.  Mutant: never.  *)
NeverDrained(q, n) == [q EXCEPT !.inflight = @ - n]
Counted(q, n) ==
  [q EXCEPT !.inflight = @ - n, !.stale = IF @ > 0 THEN @ - n ELSE @]

(* Rejected drafts give back their tokens, unless the output is stale.     *)
Rollback(q, stale, rejected) ==
  IF stale THEN q
  ELSE [q EXCEPT !.computed = IF @ > 0 THEN @ - rejected ELSE @,
                 !.holders = IF @ > 0 THEN @ - rejected ELSE @]

Kept(q, tokens, eos) == SubSeq(tokens, 1, Smaller(Smaller(Len(tokens), eos), MaxNew - Len(q.out)))
Stops(q, tokens, eos) == Len(tokens) > 0 /\ (eos <= Len(tokens) \/ Len(q.out) + Len(tokens) >= MaxNew)

Delivered(q, stale, drafts, tokens, eos) ==
  LET rejected == IF drafts > 0 /\ tokens # <<>> THEN drafts - (Len(tokens) - 1) ELSE 0
      kept == Kept(q, tokens, eos)
      back == Rollback(q, stale, rejected)
      next == [back EXCEPT !.out = @ \o kept,
                           !.holders = IF Async /\ ~stale THEN @ - Len(kept) ELSE @,
                           !.spec = IF Async THEN @ ELSE IF q.chunk THEN 0 ELSE NumSpec]
  IN  IF Stops(q, tokens, eos) THEN Ended(next) ELSE next

AfterOutput(r, f, eos) ==
  LET q == Counted(req[r], f.plan[r].n)
      stale == req[r].stale > 0
  IN  IF req[r].status = "finished" THEN req[r]
      ELSE IF stale /\ q.drop THEN q
      ELSE Delivered(q, stale, f.plan[r].drafts, f.out[r], eos)

(* Mutant: the fence advances with empty steps too.                        *)
DoneAlways(f) == IF Defer THEN doneSeq + 1 ELSE doneSeq
DoneAfter(f) == IF Defer /\ DOMAIN f.plan # {} THEN doneSeq + 1 ELSE doneSeq

(* An end-of-sequence token may be any of the sampled ones, or none.       *)
Update ==
  /\ phase = "idle" /\ flights # <<>> /\ Head(flights).done
  /\ LET f == Head(flights)
     IN  \E eos \in 1 .. NumSpec + 2 :
           LET next == [r \in Requests |-> IF r \in DOMAIN f.plan THEN AfterOutput(r, f, eos) ELSE req[r]]
               ended == {r \in Requests : next[r].status = "finished" /\ req[r].status # "finished"}
               drained == IF Defer THEN Drained(deferred, DoneAfter(f)) ELSE deferred
           IN  /\ req' = next
               /\ running' = Without(running, ended) /\ waiting' = Without(waiting, ended)
               /\ skipped' = Without(skipped, ended)
               /\ finishedIds' = finishedIds \union ended
               /\ doneSeq' = DoneAfter(f)
               /\ deferred' = drained \o SetToSeq({[fence |-> FenceOf, req |-> r, epoch |-> req[r].epoch] :
                    r \in {e \in ended : Defer /\ req[e].last > DoneAfter(f) /\ req[e].blocks > 0}})
  /\ flights' = Tail(flights)
  /\ UNCHANGED <<preemptedIds, phase, passVars, schedSeq>>

SchedulerNext ==
  \/ \E r \in Requests : Add(r) \/ Abort(r)
  \/ Reset \/ StartPass \/ RunSkip \/ RunPlace \/ RunPreempt \/ EndRun
  \/ WaitSkip \/ WaitAdmit \/ EndWait \/ EndPass \/ Update

-----------------------------------------------------------------------------
(* The model runner (v1/worker/gpu/model_runner.py): it executes the steps *)
(* in order, behind the scheduler, and keeps a row per request whose       *)
(* counters the GPU advances by what was really accepted, while the        *)
(* scheduler counts every draft until it learns better.                    *)
VARIABLES
  rowOf,   \* req_id_to_index; 0: no row
  table,   \* block table of each row
  gpu      \* num_computed_tokens and total_len of each row

runnerVars == <<rowOf, table, gpu>>
vars == <<schedulerVars, runnerVars>>

Rows == 1 .. MaxRunning
NoRow == [computed |-> 0, total |-> 0, prefill |-> 0]

Init ==
  /\ SchedulerInit
  /\ rowOf = [r \in Requests |-> 0]
  /\ table = [i \in Rows |-> <<>>]
  /\ gpu = [i \in Rows |-> NoRow]

-----------------------------------------------------------------------------
(* finish_requests, add_requests, update_requests.                         *)

(* Mutant: rows of preempted requests are kept.                            *)
OnlyFinished(f) == f.finished
Removed(f) == f.finished \union f.preempted
KeptRows(f) == [r \in Requests |-> IF r \in Removed(f) THEN 0 ELSE rowOf[r]]
FreeRows(rows) == Rows \ {rows[r] : r \in Requests}

(* The rows of the requests a step brings.                                 *)
Newcomers(f) == {r \in DOMAIN f.plan : f.plan[r].new}
Assign(rows, r) ==
  LET dropped == [rows EXCEPT ![r] = 0]
      free == FreeRows(dropped)
  IN  IF free = {} THEN dropped
      ELSE [dropped EXCEPT ![r] = CHOOSE i \in free : \A j \in free : i <= j]
RowsAfter(f) == FoldLeft(Assign, KeptRows(f), SetToSortSeq(Newcomers(f), <))

(* append_block_ids.  Mutant: a new request's blocks are appended.         *)
BlockIds(r, p) == [i \in 1 .. p.upTo - p.from + 1 |-> <<r, p.epoch, p.from + i - 1>>]
NeverOverwritten(old, r, p) == old \o BlockIds(r, p)
TableRow(old, r, p) == IF p.new THEN BlockIds(r, p) ELSE old \o BlockIds(r, p)

RowBefore(f, rows, r) ==
  IF f.plan[r].new THEN [computed |-> f.plan[r].start, total |-> f.plan[r].tokens,
                         prefill |-> f.plan[r].tokens]
  ELSE gpu[rows[r]]

(* sort_batch_req_ids: requests with drafts, then those with the size of a *)
(* decode, then by size.  Mutant: the largest first.                       *)
QueryLen == NumSpec + 1
LargestFirst(p, r, s) == p[r].n > p[s].n
Before(p, r, s) ==
  LET key(x) == <<IF p[x].drafts > 0 THEN 0 ELSE 1, IF p[x].n = QueryLen THEN 0 ELSE 1, p[x].n>>
      a == key(r)
      b == key(s)
  IN  \/ a[1] < b[1]
      \/ a[1] = b[1] /\ a[2] < b[2]
      \/ a[1] = b[1] /\ a[2] = b[2] /\ a[3] < b[3]

(* sample and postprocess_sampled: a chunk of a prefill samples nothing;   *)
(* the others yield the tokens behind the known ones, and the counters     *)
(* advance by what was accepted.                                           *)
Samples(w, p) == w.computed + p.n >= w.prefill
Sampled(w, p, a) ==
  IF Samples(w, p) THEN [j \in 1 .. a + 1 |-> w.computed + p.n - p.drafts + j - 1] ELSE <<>>
RowAfter(w, p, a) ==
  IF Samples(w, p)
    THEN [w EXCEPT !.computed = @ + p.n - p.drafts + a, !.total = @ + a + 1]
    ELSE [w EXCEPT !.computed = @ + p.n]

Pending == {i \in 1 .. Len(flights) : ~flights[i].done}
NextFlight == CHOOSE i \in Pending : \A j \in Pending : i <= j

(* Padding rows hold no drafts to accept.                                  *)
Acceptances(f) ==
  {a \in [DOMAIN f.plan -> 0 .. NumSpec] :
     \A r \in DOMAIN f.plan : a[r] <= IF f.plan[r].new THEN 0 ELSE f.plan[r].drafts}

Execute ==
  /\ Pending # {} /\ phase = "idle"
  /\ LET f == flights[NextFlight]
         rows == RowsAfter(f)
         RowReq(i) == {r \in DOMAIN f.plan : rows[r] = i}
     IN  \E a \in Acceptances(f) :
           /\ rowOf' = rows
           /\ table' = [i \in Rows |->
                IF RowReq(i) = {} THEN table[i]
                ELSE LET r == CHOOSE r \in RowReq(i) : TRUE IN TableRow(table[i], r, f.plan[r])]
           /\ gpu' = [i \in Rows |->
                IF RowReq(i) = {} THEN gpu[i]
                ELSE LET r == CHOOSE r \in RowReq(i) : TRUE
                     IN  RowAfter(RowBefore(f, rows, r), f.plan[r], a[r])]
           /\ flights' = [flights EXCEPT ![NextFlight].done = TRUE,
                ![NextFlight].out =
                  [r \in DOMAIN f.plan |-> Sampled(RowBefore(f, rows, r), f.plan[r], a[r])]]
  /\ UNCHANGED <<req, queueVars, finishedIds, preemptedIds, phase, passVars, fenceVars>>

Next == (SchedulerNext /\ UNCHANGED runnerVars) \/ Execute
Spec == Init /\ [][Next]_vars

(* The engine keeps scheduling, the worker keeps executing and outputs are *)
(* processed; an allocation that is tried again and again succeeds.        *)
Fairness ==
  /\ WF_vars(StartPass /\ UNCHANGED runnerVars) /\ WF_vars(RunSkip /\ UNCHANGED runnerVars)
  /\ WF_vars(RunPlace /\ UNCHANGED runnerVars) /\ WF_vars(EndRun /\ UNCHANGED runnerVars)
  /\ WF_vars(WaitSkip /\ UNCHANGED runnerVars) /\ SF_vars(WaitAdmit /\ UNCHANGED runnerVars)
  /\ WF_vars(EndWait /\ UNCHANGED runnerVars) /\ WF_vars(EndPass /\ UNCHANGED runnerVars)
  /\ WF_vars(Update /\ UNCHANGED runnerVars) /\ WF_vars(Execute)
FairSpec == Spec /\ Fairness

-----------------------------------------------------------------------------
Statuses == {"new", "waiting", "running", "preempted", "finished"}
TypeOK ==
  /\ \A r \in Requests :
       /\ req[r].status \in Statuses
       /\ {req[r].computed, req[r].holders, req[r].spec, req[r].inflight, req[r].stale} \subseteq Nat
       /\ rowOf[r] \in 0 .. MaxRunning
  /\ Len(running) <= MaxRunning /\ budget \in 0 .. MaxBatched /\ Len(flights) <= Depth

(* A client gets every output token once and in order, however often the   *)
(* request was preempted with output in flight (_preempt_request: "could   *)
(* deliver tokens out of order").                                          *)
InOrder ==
  \A r \in Requests : \A i \in 1 .. Len(req[r].out) : req[r].out[i] = Prompt[r] + i - 1

(* A request is in the queue its status names, and in no other, once; no   *)
(* running request that could be scheduled was passed over ("preventing    *)
(* the silent omission of the subsequent request").                        *)
Queued(q, r) == Cardinality({i \in 1 .. Len(q) : q[i] = r})
QueuesAgree ==
  \A r \in Requests :
    /\ Queued(running, r) = IF req[r].status = "running" THEN 1 ELSE 0
    /\ Queued(waiting, r) + Queued(skipped, r)
         + (IF phase \in {"run", "wait"} THEN Queued(passed, r) ELSE 0)
         = IF req[r].status \in {"waiting", "preempted"} THEN 1 ELSE 0
NoneOmitted ==
  phase \in {"wait", "end"} /\ cursor > Len(running) /\ budget > 0 =>
    \A r \in ToSet(running) : r \in DOMAIN plan \/ NewTokens(r) = 0

(* The counts of tokens to schedule are never negative, though padded rows *)
(* may reach the model's length before the next step is planned            *)
(* (_reserve_prefill_lookahead: max(num_new_tokens, 0)).                   *)
PlansPositive ==
  /\ \A r \in DOMAIN plan : plan[r].n > 0
  /\ \A i \in 1 .. Len(flights) : \A r \in DOMAIN flights[i].plan : flights[i].plan[r].n > 0

(* What the next step to execute finds in the runner: rows for all its     *)
(* requests; the known tokens are exactly those the query covers before    *)
(* its drafts; the scheduler's count is an upper bound of the GPU's; and   *)
(* every logits row has a query row (prepare_inputs: "Fewer query rows     *)
(* than that would silently select the preceding request's hidden states").*)
StepMatches ==
  Pending # {} =>
    LET f == flights[NextFlight]
        rows == RowsAfter(f)
    IN  \A r \in DOMAIN f.plan :
          LET p == f.plan[r]
              w == RowBefore(f, rows, r)
          IN  /\ rows[r] # 0
              /\ p.start >= w.computed
              /\ Samples(w, p) => w.computed + p.n - p.drafts = w.total
              /\ ~Samples(w, p) => p.drafts = 0
              /\ p.n >= p.drafts + 1
              /\ p.upTo * BlockSize >= Smaller(w.computed + p.n, MaxLen)

(* The block table of a row holds the blocks of the request's present      *)
(* admission, in order, and no stale ones (append_block_ids, overwrite).   *)
Executed == {i \in 1 .. Len(flights) : flights[i].done}
TableExact ==
  Executed # {} =>
    LET f == flights[CHOOSE i \in Executed : \A j \in Executed : j <= i]
    IN  \A r \in DOMAIN f.plan :
          table[rowOf[r]] = [i \in 1 .. f.plan[r].upTo |-> <<r, f.plan[r].epoch, i>>]

(* Blocks a step in flight may write are not back in the pool when their   *)
(* release is to wait (defer_block_free).                                  *)
FreedAfterWrites ==
  Defer =>
    \A i \in 1 .. Len(flights) : \A r \in DOMAIN flights[i].plan :
      \/ req[r].epoch = flights[i].plan[r].epoch /\ req[r].status = "running"
      \/ \E j \in 1 .. Len(deferred) :
           deferred[j].req = r /\ deferred[j].epoch = flights[i].plan[r].epoch

(* In the batch order no prefill stands before a decode, drafts or none    *)
(* (split_decodes_and_prefills "relies on decode-like requests leading").  *)
DecodesLead ==
  \A i \in 1 .. Len(flights) : \A r, s \in DOMAIN flights[i].plan :
    flights[i].plan[r].n > QueryLen /\ flights[i].plan[s].n <= QueryLen
      => ~Before(flights[i].plan, r, s)

(* A request that is not aborted ends: no stale share keeps it waiting for *)
(* ever (schedule: "It drains within the pipeline depth").                 *)
AllEnd == \A r \in Requests : (req[r].status # "new") ~> (req[r].status = "finished")
=============================================================================
