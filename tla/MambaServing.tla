---------------------------- MODULE MambaServing ----------------------------
(***************************************************************************)
(* Recurrent-state blocks under the scheduler: admission with prefix-cache *)
(* hits, chunked prefill, speculative decode, async scheduling, preemption *)
(* and abort (v1/core/sched/scheduler.py with MambaManager).               *)
(*                                                                         *)
(* The scheduler is one thread: a pass (StartPass .. Dispatch), the        *)
(* processing of a step's output (Update) and a client's abort never       *)
(* overlap, but up to Depth steps are dispatched and not yet processed     *)
(* while the next pass runs.  The GPU executes steps in dispatch order,    *)
(* each after the one before: a step's effect on the blocks is part of     *)
(* Dispatch, what the scheduler learns of it comes with Update.            *)
(*                                                                         *)
(* A state is represented by the prefix it summarises: whose it is and     *)
(* after how many tokens; the first Common tokens are the same in every    *)
(* prompt.                                                                 *)
(***************************************************************************)
EXTENDS MambaManager, FiniteSets, TLC

CONSTANTS
  Requests, Blocks,
  Depth,       \* steps in flight: 1 synchronous, 2 async scheduling
  MaxBatched,  \* max_num_scheduled_tokens
  Prompt,      \* prompt length of each request
  Common,      \* prompt tokens all requests share
  MaxNew       \* max_tokens of every request

ASSUME ServingAssumption ==
  /\ IsFiniteSet(Requests) /\ IsFiniteSet(Blocks) /\ Null \notin Blocks
  /\ Depth \in Nat \ {0} /\ MaxBatched \in Nat \ {0} /\ MaxNew \in Nat \ {0}
  /\ Common \in Nat
  /\ Prompt \in [Requests -> Nat \ {0}]

VARIABLES
  (* block pool and GPU memory *)
  pool,      \* reference count and hash of each block
  content,   \* the state each block really holds
  (* scheduler *)
  phase,     \* idle, running loop, waiting loop, update
  running,   \* self.running
  cursor,    \* req_index of the running loop
  budget,    \* token_budget
  preempted, \* a request has been preempted in this pass
  step,      \* num_scheduled_tokens etc. of the requests scheduled so far
  flights,   \* dispatched steps whose output is not processed
  req,       \* Request
  (* block manager *)
  mgr,       \* req_to_blocks, _state_sweep_start, num_cached_block
  fresh,     \* cached_blocks_this_step
  (* model runner *)
  worker     \* block table, position and state index of each request

passVars == <<cursor, budget, preempted, step>>

vars == <<pool, content, phase, running, passVars, flights, req, mgr, fresh, worker>>

(* States.  Nothing: the state before the first token, and no hash.        *)
After(r, n) == [of |-> IF n <= Common THEN Null ELSE r, at |-> n]
Nothing == [of |-> Null, at |-> 0]
Garbage == [of |-> Null, at |-> -1]

NewReq == [status |-> "new", tokens |-> 0, computed |-> 0, placeholders |-> 0,
           spec |-> 0, inflight |-> 0, stale |-> 0, chunk |-> FALSE]
NoBlocks == [blocks |-> <<>>, sweep |-> 0, cached |-> 0]
NoRow == [table |-> <<>>, pos |-> 0, index |-> 0, bias |-> 0]

Init ==
  /\ pool = [b \in Blocks |-> [ref |-> 0, hash |-> Nothing]]
  /\ content = [b \in Blocks |-> Garbage]
  /\ phase = "idle" /\ running = <<>> /\ flights = <<>> /\ fresh = {}
  /\ cursor = 1 /\ budget = MaxBatched /\ preempted = FALSE /\ step = <<>>
  /\ req = [r \in Requests |-> [NewReq EXCEPT !.tokens = Prompt[r]]]
  /\ mgr = [r \in Requests |-> NoBlocks]
  /\ worker = [r \in Requests |-> NoRow]

(* remove_all: a request is in the list at most once.  Mutant: the list is *)
(* left as it is.                                                          *)
StaysListed(seq, r) == seq
Without(seq, r) ==
  IF \A i \in 1 .. Len(seq) : seq[i] # r THEN seq
  ELSE LET at == CHOOSE i \in 1 .. Len(seq) : seq[i] = r
       IN  [i \in 1 .. Len(seq) - 1 |-> IF i < at THEN seq[i] ELSE seq[i + 1]]

-----------------------------------------------------------------------------
(* The block pool.                                                         *)

(* Mutant: blocks some request still holds may be taken.                   *)
FewHolders(p) == {b \in Blocks : p[b].ref <= 1}
FreeBlocks(p) == {b \in Blocks : p[b].ref = 0}

Release(p, S) == [b \in Blocks |-> IF b \in S THEN [p[b] EXCEPT !.ref = @ - 1] ELSE p[b]]
Touch(p, S)   == [b \in Blocks |-> IF b \in S THEN [p[b] EXCEPT !.ref = @ + 1] ELSE p[b]]

(* get_new_blocks: a block that is taken loses its hash.                   *)
Take(p, S) == [b \in Blocks |-> IF b \in S THEN [ref |-> 1, hash |-> Nothing] ELSE p[b]]

(* Ways to pick n new blocks: which free ones are first in the queue       *)
(* depends on what was freed when.                                         *)
Picks(p, n) ==
  {f \in [1 .. n -> FreeBlocks(p)] : \A i, j \in 1 .. n : i # j => f[i] # f[j]}

(* Hashes the entries of r that the first `tokens' tokens fill.            *)
Hashed(p, r, blocks, cached, tokens) ==
  LET filled == Filled(blocks, cached, tokens)
  IN  [b \in Blocks |->
        IF \E i \in filled : blocks[i] = b
          THEN [p[b] EXCEPT !.hash = After(r, BlockSize * CHOOSE i \in filled : blocks[i] = b)]
          ELSE p[b]]
NewHashes(r, blocks, cached, tokens) ==
  {After(r, BlockSize * i) : i \in Filled(blocks, cached, tokens)}

-----------------------------------------------------------------------------
(* A client adds or aborts a request between two calls of the scheduler.   *)

Arrive(r) ==
  /\ phase = "idle" /\ req[r].status = "new"
  /\ req' = [req EXCEPT ![r].status = "waiting"]
  /\ UNCHANGED <<pool, content, phase, running, passVars, flights, mgr, fresh, worker>>

(* finish_requests, _free_request: all blocks go back to the pool.         *)
Abort(r) ==
  /\ phase = "idle" /\ req[r].status \in {"waiting", "running", "preempted"}
  /\ req' = [req EXCEPT ![r] = [NewReq EXCEPT !.status = "finished"]]
  /\ running' = Without(running, r)
  /\ pool' = Release(pool, Held(mgr[r].blocks))
  /\ mgr' = [mgr EXCEPT ![r] = NoBlocks]
  /\ worker' = [worker EXCEPT ![r] = NoRow]
  /\ UNCHANGED <<content, phase, passVars, flights, fresh>>

-----------------------------------------------------------------------------
(* schedule(): the token counts.                                           *)

(* _mamba_block_aligned_split: a prefill chunk ends on a block boundary,   *)
(* or stops at one, so that the state there can be cached; with MTP the    *)
(* last boundary kept is one block earlier.  Mutant: chunks are not        *)
(* aligned.                                                                *)
AnySplit(r, start, n) == n
AlignedSplit(r, start, n) ==
  LET prefillEnd == Larger(Prompt[r], req[r].tokens - 1)
      lastCache  == Larger(Floor(req[r].tokens) - (IF NumSpec > 0 THEN BlockSize ELSE 0), 0)
      aligned    == Floor(start + n)
      end == IF /\ start + n < prefillEnd
                /\ aligned > start \/ BlockSize <= MaxBatched
               THEN aligned ELSE start + n
      next  == IF start % BlockSize # 0 THEN Floor(start) + BlockSize ELSE 0
      stops == {s \in {next, lastCache} : start < s /\ s < end}
      stop  == IF stops = {} THEN end
               ELSE CHOOSE s \in stops : \A other \in stops : s <= other
  IN  IF start >= prefillEnd THEN n ELSE Larger(stop - start, 0)

(* With async scheduling no step is scheduled beyond one that is sure to   *)
(* reach max_tokens.                                                       *)
SureToEnd(r) ==
  /\ req[r].placeholders > 0
  /\ req[r].computed + 2 - req[r].placeholders >= Prompt[r] + MaxNew

(* Mutant: without the token budget.                                       *)
BeyondBudget(r) ==
  IF SureToEnd(r) THEN 0
  ELSE AlignedSplit(r, req[r].computed,
         req[r].tokens + req[r].spec + req[r].placeholders - req[r].computed)
NewTokens(r) ==
  IF SureToEnd(r) THEN 0
  ELSE AlignedSplit(r, req[r].computed,
         Smaller(req[r].tokens + req[r].spec + req[r].placeholders - req[r].computed,
                 budget))

(* Tokens whose steps have been processed: what may be released depends on *)
(* these only.                                                             *)
Processed(r) == Larger(0, req[r].computed - req[r].inflight)

-----------------------------------------------------------------------------
(* schedule(): the loop over the running requests.                         *)

StartPass ==
  /\ phase = "idle" /\ Len(flights) < Depth
  /\ \E r \in Requests : req[r].status \in {"waiting", "running", "preempted"}
  /\ phase' = "running" /\ fresh' = {}
  /\ UNCHANGED <<pool, content, running, passVars, flights, req, mgr, worker>>

InLoop == phase = "running" /\ cursor <= Len(running) /\ budget > 0
Current == running[cursor]

SkipRunning ==
  /\ InLoop /\ NewTokens(Current) = 0
  /\ cursor' = cursor + 1
  /\ UNCHANGED <<pool, content, phase, running, budget, preempted, step, flights, req,
                 mgr, fresh, worker>>

(* allocate_slots of a running request first releases the blocks of states *)
(* no longer read, then compares the estimate with the free blocks.        *)
SweptOf(r) == Swept(mgr[r].blocks, mgr[r].sweep, Processed(r))
SweptPool(r) == Release(pool, {mgr[r].blocks[i] : i \in SweptOf(r)})
SweptMgr(r) ==
  [mgr[r] EXCEPT !.blocks = NullOut(@, SweptOf(r)),
                 !.sweep = SweepEnd(mgr[r].blocks, @, Processed(r))]
Fits(p, needed) == needed <= Cardinality(FreeBlocks(p))
CurrentFits ==
  LET r == Current
  IN  Fits(SweptPool(r),
           Estimate(SweptMgr(r).blocks, req[r].computed + NewTokens(r), TRUE))

Scheduled(r, entry) ==
  [s \in DOMAIN step \union {r} |-> IF s = r THEN entry ELSE step[s]]

Grow ==
  /\ InLoop /\ NewTokens(Current) > 0 /\ CurrentFits
  /\ LET r == Current
         n == NewTokens(r)
         q == req[r]
         m == SweptMgr(r)
         total == q.computed + n
         tokens == Smaller(total, q.tokens)
         drafts == IF q.spec = 0 THEN 0
                   ELSE Smaller(q.spec, Larger(0, total - q.tokens - q.placeholders))
     IN  \E new \in Picks(SweptPool(r), NumNew(m.blocks, total, TRUE)) :
           LET blocks == Allocated(m.blocks, total, TRUE, new)
           IN  /\ pool' = Hashed(Take(SweptPool(r), Held(new)), r, blocks, m.cached, tokens)
               /\ mgr' = [mgr EXCEPT ![r] =
                            [m EXCEPT !.blocks = blocks,
                                      !.cached = Larger(@, tokens \div BlockSize)]]
               /\ fresh' = fresh \union NewHashes(r, blocks, m.cached, tokens)
               /\ step' = Scheduled(r, [n |-> n, drafts |-> drafts, padded |-> FALSE,
                                        admitted |-> FALSE])
               /\ req' = [req EXCEPT ![r].spec = 0]
               /\ budget' = budget - n
  /\ cursor' = cursor + 1
  /\ UNCHANGED <<content, phase, running, preempted, flights, worker>>

(* The output of the steps a preempted request still has in flight is      *)
(* stale: its tokens count, its effect on the counters does not.           *)
(* Mutant: all the tokens computed so far are taken for stale.             *)
StaleFromComputed(q) == q.computed
StaleShare(q) == q.inflight
PreemptedReq(q) ==
  [q EXCEPT !.status = "preempted", !.computed = 0, !.spec = 0, !.placeholders = 0,
            !.stale = StaleShare(q)]

PreemptLast ==
  /\ InLoop /\ NewTokens(Current) > 0 /\ ~CurrentFits
  /\ LET r == Current
         victim == running[Len(running)]
         swept == [mgr EXCEPT ![r] = SweptMgr(r)]
     IN  /\ pool' = Release(SweptPool(r), Held(swept[victim].blocks))
         /\ mgr' = [swept EXCEPT ![victim] = NoBlocks]
         /\ req' = [req EXCEPT ![victim] = PreemptedReq(@)]
         /\ worker' = [worker EXCEPT ![victim] = NoRow]
  /\ running' = SubSeq(running, 1, Len(running) - 1)
  /\ preempted' = TRUE
  /\ UNCHANGED <<content, phase, cursor, budget, step, flights, fresh>>

(* No request is admitted in a pass that preempted one.                    *)
EndRunning ==
  /\ phase = "running" /\ ~InLoop
  /\ phase' = IF preempted THEN "dispatch" ELSE "waiting"
  /\ UNCHANGED <<pool, content, running, passVars, flights, req, mgr, fresh, worker>>

-----------------------------------------------------------------------------
(* schedule(): the loop over the waiting requests.  Their order, and the   *)
(* limit the attention layers' cache puts on a hit, are left open.         *)

(* A preempted request waits until its stale output has drained.           *)
MayResume(r) == req[r].status \in {"waiting", "preempted"} /\ req[r].stale = 0

(* find_longest_cache_hit: lists that end in a block with the hit state.   *)
Hits(r) ==
  {<<>>} \union
    UNION {{[i \in 1 .. k |-> IF i = k THEN b ELSE Null] :
              b \in {c \in Blocks : pool[c].hash = After(r, k * BlockSize)}} :
           k \in 1 .. (req[r].tokens - 1) \div BlockSize}
HitTokens(found) == Len(found) * BlockSize

(* A state cached in this pass is not there before the step has run.       *)
(* Mutant: it is used all the same.                                        *)
AnyHit(r, found) == TRUE
HitUsable(r, found) == After(r, HitTokens(found)) \notin fresh

(* A request with one token left joins a batch of decodes padded to their  *)
(* size; when the split clips the padding, it is dropped.                  *)
JoinsDecodes(r, found) ==
  /\ NumSpec > 0 /\ req[r].tokens - HitTokens(found) = 1
  /\ \E s \in DOMAIN step : ~step[s].admitted
  /\ \A s \in DOMAIN step : ~step[s].admitted => ~req[s].chunk
AdmitTokens(r, found) ==
  LET joins == JoinsDecodes(r, found)
      asked == IF joins THEN 1 + NumSpec ELSE req[r].tokens - HitTokens(found)
      split == AlignedSplit(r, HitTokens(found), Smaller(asked, budget))
  IN  IF joins /\ asked > budget THEN 0
      ELSE IF joins /\ split \notin {0, asked} THEN 1
      ELSE split
Padded(r, found) == JoinsDecodes(r, found) /\ AdmitTokens(r, found) = 1 + NumSpec
AdmitTotal(r, found) == HitTokens(found) + AdmitTokens(r, found)

Admissible(r, found) ==
  /\ MayResume(r) /\ budget > 0
  /\ HitUsable(r, found)
  /\ AdmitTokens(r, found) > 0
  /\ Fits(pool, Estimate(found, AdmitTotal(r, found), FALSE)
                  + Cardinality(Held(found) \intersect FreeBlocks(pool)))

AdmittedBlocks(r, found, new) == Allocated(found, AdmitTotal(r, found), FALSE, new)

Admit(r) ==
  /\ phase = "waiting"
  /\ \E found \in Hits(r) :
       /\ Admissible(r, found)
       /\ LET tokens == Smaller(AdmitTotal(r, found), req[r].tokens)
              held == Touch(pool, Held(found))
          IN  \E new \in Picks(held, NumNew(found, AdmitTotal(r, found), FALSE)) :
                LET blocks == AdmittedBlocks(r, found, new)
                IN  /\ pool' = Hashed(Take(held, Held(new)), r, blocks, Len(found), tokens)
                    /\ mgr' = [mgr EXCEPT ![r] =
                                 [blocks |-> blocks, sweep |-> 0,
                                  cached |-> Larger(Len(found), tokens \div BlockSize)]]
                    /\ fresh' = fresh \union NewHashes(r, blocks, Len(found), tokens)
       /\ step' = Scheduled(r, [n |-> AdmitTokens(r, found),
                                drafts |-> IF Padded(r, found) THEN NumSpec ELSE 0,
                                padded |-> Padded(r, found), admitted |-> TRUE])
       /\ req' = [req EXCEPT ![r].status = "running", ![r].computed = HitTokens(found)]
       /\ worker' = [worker EXCEPT ![r] =
                       [NoRow EXCEPT !.pos = HitTokens(found), !.index = Len(found)]]
       /\ budget' = budget - AdmitTokens(r, found)
  /\ running' = Append(running, r)
  /\ UNCHANGED <<content, phase, cursor, preempted, flights>>

(* The loop ends when nothing more can be admitted; while something runs   *)
(* it may end before that, for want of attention blocks or request slots.  *)
EndAdmission ==
  /\ phase = "waiting"
  /\ running # <<>> \/ \A r \in Requests : \A found \in Hits(r) : ~Admissible(r, found)
  /\ phase' = "dispatch"
  /\ UNCHANGED <<pool, content, running, passVars, flights, req, mgr, fresh, worker>>

-----------------------------------------------------------------------------
(* The model runner executes a step.  Its block tables only ever grow at   *)
(* the end.                                                                *)

Table(r) ==
  worker[r].table
    \o SubSeq(mgr[r].blocks, Len(worker[r].table) + 1, Len(mgr[r].blocks))

(* Where the state of the tokens computed so far is.                       *)
Source(r) == Table(r)[worker[r].index + worker[r].bias]
HasState(r) ==
  \/ worker[r].pos = 0
  \/ Source(r) \in Blocks /\ content[Source(r)] = After(r, worker[r].pos)

(* preprocess_state copies the state to the running entry, the forward     *)
(* leaves there the state after the known tokens and in the entries behind *)
(* it one state per draft; postprocess_state copies the state at a block   *)
(* boundary, when one was passed, to its entry.  `a' drafts are accepted.  *)
Target(r) == Cdiv(worker[r].pos + step[r].n)
Sure(r) == worker[r].pos + step[r].n - step[r].drafts
Boundary(r, a) == Floor(Sure(r) + a)
PassesBoundary(r, a) == Boundary(r, a) >= Sure(r)

Written(r, a) ==
  {Table(r)[Target(r) + j] : j \in 0 .. step[r].drafts}
    \union (IF PassesBoundary(r, a) THEN {Table(r)[Boundary(r, a) \div BlockSize]} ELSE {})

Value(r, a, b) ==
  IF ~HasState(r) THEN Garbage
  ELSE IF PassesBoundary(r, a) /\ Table(r)[Boundary(r, a) \div BlockSize] = b
         THEN After(r, Boundary(r, a))
  ELSE IF \E j \in a + 1 .. step[r].drafts : Table(r)[Target(r) + j] = b THEN Garbage
  ELSE LET j == CHOOSE j \in 0 .. a : Table(r)[Target(r) + j] = b
       IN  After(r, Sure(r) + j)

NextRow(r, a) ==
  [table |-> Table(r), pos |-> Sure(r) + a, index |-> Target(r),
   bias |-> IF PassesBoundary(r, a) /\ Boundary(r, a) \div BlockSize = Target(r)
              THEN 0 ELSE a]

Acceptances ==
  {f \in [DOMAIN step -> 0 .. NumSpec] :
     \A r \in DOMAIN step : f[r] <= IF step[r].padded THEN 0 ELSE step[r].drafts}

(* _update_after_schedule: the counters advance as if all drafts were      *)
(* accepted; a request past its prompt gets a placeholder for each token   *)
(* the step may return, and drafts for its next step.                      *)
IsChunk(r) == req[r].computed + step[r].n < req[r].tokens + req[r].placeholders
AdvancedReq(r) ==
  LET q == [req[r] EXCEPT !.computed = @ + step[r].n, !.inflight = @ + step[r].n,
                          !.chunk = IsChunk(r)]
  IN  IF IsChunk(r) THEN q
      ELSE [q EXCEPT !.placeholders = @ + 1 + step[r].drafts, !.spec = NumSpec]

ResetPass == cursor' = 1 /\ budget' = MaxBatched /\ preempted' = FALSE /\ step' = <<>>

Dispatch ==
  /\ phase = "dispatch" /\ DOMAIN step # {}
  /\ \E accepted \in Acceptances :
       /\ content' =
            [b \in Blocks |->
               IF \E r \in DOMAIN step : b \in Written(r, accepted[r])
                 THEN LET r == CHOOSE r \in DOMAIN step : b \in Written(r, accepted[r])
                      IN  Value(r, accepted[r], b)
                 ELSE content[b]]
       /\ worker' = [r \in Requests |-> IF r \in DOMAIN step THEN NextRow(r, accepted[r])
                                        ELSE worker[r]]
       /\ flights' =
            Append(flights,
                   [r \in DOMAIN step |->
                      [n |-> step[r].n, rejected |-> step[r].drafts - accepted[r],
                       sampled |-> IF IsChunk(r) THEN 0 ELSE 1 + accepted[r]]])
  /\ req' = [r \in Requests |-> IF r \in DOMAIN step THEN AdvancedReq(r) ELSE req[r]]
  /\ phase' = "idle" /\ ResetPass
  /\ UNCHANGED <<pool, running, mgr, fresh>>

(* After a pass that scheduled nothing the engine waits for the oldest     *)
(* output, if one is due.                                                  *)
DispatchNothing ==
  /\ phase = "dispatch" /\ DOMAIN step = {}
  /\ phase' = (IF flights = <<>> THEN "idle" ELSE "update") /\ ResetPass
  /\ UNCHANGED <<pool, content, running, flights, req, mgr, fresh, worker>>

-----------------------------------------------------------------------------
(* update_from_output: the loop over the requests of the oldest step.      *)

RestOfStep(r) == [s \in DOMAIN Head(flights) \ {r} |-> Head(flights)[s]]
NextOutput(r) ==
  /\ phase \in {"idle", "update"} /\ flights # <<>>
  /\ r \in DOMAIN Head(flights)
  /\ IF DOMAIN RestOfStep(r) = {}
       THEN flights' = Tail(flights) /\ phase' = "idle"
       ELSE flights' = <<RestOfStep(r)>> \o Tail(flights) /\ phase' = "update"

(* The request was aborted or has stopped while the step was in flight.    *)
UpdateGone(r) ==
  /\ NextOutput(r)
  /\ req[r].status = "finished"
  /\ UNCHANGED <<pool, content, running, passVars, req, mgr, fresh, worker>>

(* In-flight and stale counts drain; the rejected drafts are taken back,   *)
(* unless the output is stale.  Mutant: they never are.                    *)
NeverRollBack(q) == FALSE
RollBack(q) == q.stale = 0
DrainedReq(q, out) ==
  LET d == [q EXCEPT !.inflight = @ - out.n, !.stale = IF @ > 0 THEN @ - out.n ELSE 0]
  IN  IF ~RollBack(q) THEN d
      ELSE [d EXCEPT !.computed = IF @ > 0 THEN @ - out.rejected ELSE @,
                     !.placeholders = IF @ > 0 THEN @ - out.rejected ELSE @]

UpdateChunk(r) ==
  /\ NextOutput(r)
  /\ req[r].status # "finished" /\ Head(flights)[r].sampled = 0
  /\ req' = [req EXCEPT ![r] = DrainedReq(@, Head(flights)[r])]
  /\ UNCHANGED <<pool, content, running, passVars, mgr, fresh, worker>>

(* Sampled tokens are appended until one stops the request.  A running     *)
(* request's new full states are hashed.                                   *)
UpdateTokens(r) ==
  /\ NextOutput(r)
  /\ req[r].status # "finished" /\ Head(flights)[r].sampled > 0
  /\ LET out == Head(flights)[r]
         d == DrainedReq(req[r], out)
         room == Prompt[r] + MaxNew - req[r].tokens
     IN  \E k \in 1 .. Smaller(out.sampled, room) : \E eos \in BOOLEAN :
           /\ k < Smaller(out.sampled, room) => eos
           /\ LET q == [d EXCEPT !.tokens = @ + k,
                                 !.placeholders = IF req[r].stale > 0 THEN @ ELSE @ - k]
                  m == mgr[r]
                  tokens == IF q.status = "running" THEN q.computed - q.placeholders ELSE 0
                  p == Hashed(pool, r, m.blocks, m.cached, tokens)
              IN  /\ fresh' = fresh \union NewHashes(r, m.blocks, m.cached, tokens)
                  /\ IF eos \/ k = room
                       THEN /\ req' = [req EXCEPT ![r] = [NewReq EXCEPT !.status = "finished"]]
                            /\ running' = Without(running, r)
                            /\ pool' = Release(p, Held(m.blocks))
                            /\ mgr' = [mgr EXCEPT ![r] = NoBlocks]
                            /\ worker' = [worker EXCEPT ![r] = NoRow]
                       ELSE /\ req' = [req EXCEPT ![r] = q]
                            /\ pool' = p
                            /\ mgr' = [mgr EXCEPT ![r].cached =
                                         Larger(@, tokens \div BlockSize)]
                            /\ UNCHANGED <<running, worker>>
  /\ UNCHANGED <<content, passVars>>

Update(r) == UpdateGone(r) \/ UpdateChunk(r) \/ UpdateTokens(r)

-----------------------------------------------------------------------------

Pass ==
  \/ StartPass \/ SkipRunning \/ Grow \/ PreemptLast \/ EndRunning
  \/ (\E r \in Requests : Admit(r)) \/ EndAdmission \/ Dispatch \/ DispatchNothing

AllDone ==
  /\ \A r \in Requests : req[r].status = "finished"
  /\ flights = <<>> /\ phase = "idle"
  /\ UNCHANGED vars

Next == Pass \/ AllDone \/ \E r \in Requests : Arrive(r) \/ Abort(r) \/ Update(r)

Spec == Init /\ [][Next]_vars

(* The engine loop goes on with passes and updates as long as there is     *)
(* work; clients need not do anything.                                     *)
Fairness == WF_vars(Pass \/ \E r \in Requests : Update(r))
FairSpec == Spec /\ Fairness

-----------------------------------------------------------------------------

Statuses == {"new", "waiting", "running", "preempted", "finished"}
Phases   == {"idle", "running", "waiting", "dispatch", "update"}
States   == [of : Requests \union {Null}, at : Int]

Req == [status : Statuses, tokens : Int, computed : Int, placeholders : Int,
        spec : Int, inflight : Int, stale : Int, chunk : BOOLEAN]
Mgr == [blocks : Seq(Blocks \union {Null}), sweep : Int, cached : Int]

(* A request is in the running list exactly when its status says so, and   *)
(* only once; its block list then reaches at least the speculative blocks  *)
(* of its last step, which the next allocation moves.                      *)
Distinct(seq) == \A i, j \in 1 .. Len(seq) : i # j => seq[i] # seq[j]
Listed(seq, r) == \E i \in 1 .. Len(seq) : seq[i] = r
RunningListed ==
  /\ Distinct(running)
  /\ \A r \in Requests : req[r].status = "running" <=> Listed(running, r)
  /\ \A r \in Requests : req[r].status = "running" => Len(mgr[r].blocks) >= NumSpec

(* Type invariant: the budget is never overdrawn, no counter of a request  *)
(* becomes negative, no more than Depth steps are in flight.               *)
TypeOK ==
  /\ phase \in Phases /\ cursor \in Nat /\ preempted \in BOOLEAN
  /\ budget \in 0 .. MaxBatched /\ Len(flights) <= Depth
  /\ pool \in [Blocks -> [ref : Nat, hash : States]]
  /\ content \in [Blocks -> States]
  /\ \A r \in Requests :
       /\ req[r] \in Req /\ mgr[r] \in Mgr
       /\ {req[r].tokens, req[r].computed, req[r].placeholders, req[r].spec,
           req[r].inflight, req[r].stale} \subseteq Nat
       /\ worker[r].table \in Seq(Blocks \union {Null})

(* A block's reference count is the number of requests whose list it is    *)
(* in, and no list has it twice: nothing leaks, nothing is freed twice.    *)
Holders(b) == {r \in Requests : b \in Held(mgr[r].blocks)}
RefCounts ==
  /\ \A b \in Blocks : pool[b].ref = Cardinality(Holders(b))
  /\ \A r \in Requests : \A i, j \in DOMAIN mgr[r].blocks :
       i # j /\ mgr[r].blocks[i] = mgr[r].blocks[j] => mgr[r].blocks[i] = Null

(* However long its prompt, a request never holds more than one block for  *)
(* each step in flight, one for the step being scheduled, one for the last *)
(* processed state, and the speculative ones.                              *)
HeldBound == \A r \in Requests : Cardinality(Held(mgr[r].blocks)) <= Depth + 1 + NumSpec

(* A running request's state is where its next step looks for it, and is   *)
(* the state after exactly the tokens computed so far.                     *)
StateExact == phase = "dispatch" => \A r \in DOMAIN step : HasState(r)

(* A step writes only blocks its request holds and shares with nobody.     *)
WritesOwned ==
  phase = "dispatch" =>
    \A r \in DOMAIN step : \A a \in 0 .. step[r].drafts : \A b \in Written(r, a) :
      b \in Held(mgr[r].blocks) /\ pool[b].ref = 1

(* Prefix-cache soundness: a block that can be hit holds the state its     *)
(* hash says.                                                              *)
CacheExact ==
  \A b \in Blocks :
    (pool[b].hash # Nothing /\ (phase \in {"idle", "update"} \/ pool[b].hash \notin fresh))
      => content[b] = pool[b].hash

(* When nothing of a running request is in flight, scheduler and model     *)
(* runner agree on how many tokens it has, over rejected drafts,           *)
(* preemption and resumption.                                              *)
CountersAgree ==
  \A r \in Requests :
    req[r].status = "running" /\ req[r].inflight = 0 /\ r \notin DOMAIN step
      => worker[r].pos = req[r].computed /\ req[r].placeholders = 0

(* The estimates that allocations are admitted on cover what they take, of *)
(* a running request and of one that is admitted with any hit.             *)
GrowthCovered(r) ==
  LET total == req[r].computed + NewTokens(r)
      blocks == SweptMgr(r).blocks
  IN  NumNew(blocks, total, TRUE) <= Larger(0, Estimate(blocks, total, TRUE))
AdmissionCovered(r, found) ==
  Admissible(r, found) =>
    NumNew(found, AdmitTotal(r, found), FALSE)
      <= Larger(0, Estimate(found, AdmitTotal(r, found), FALSE))
EstimateCovers ==
  /\ InLoop => GrowthCovered(Current)
  /\ phase = "waiting" =>
       \A r \in Requests : \A found \in Hits(r) : AdmissionCovered(r, found)

(* No request waits, is preempted and resumed, or decodes for ever.        *)
AllFinish ==
  \A r \in Requests : req[r].status = "waiting" ~> req[r].status = "finished"

-----------------------------------------------------------------------------
(* For TLC: a prompt of three chunks of two blocks and one of two and a    *)
(* half blocks; blocks may be exchanged for each other.                    *)
LongAndShort == [r1 |-> 9, r2 |-> 5]
BlockSymmetry == Permutations(Blocks)
=============================================================================
