------------------------------ MODULE KvLoads -------------------------------
(***************************************************************************)
(* Prefixes loaded through a KV connector (v1/core/sched/scheduler.py):    *)
(* asynchronously, the request waiting with its blocks for the transfer,   *)
(* or within the step that admits it; loads that fail, abort during a      *)
(* load, blocks reserved for prefills under way, and zeroing.              *)
(*                                                                         *)
(* Tokens are counted in blocks.  The first Common blocks of all prompts   *)
(* agree.  One step in flight, outputs of one token.                       *)
(***************************************************************************)
EXTENDS Integers, Sequences, FiniteSets, FiniteSetsExt, SequencesExt

CONSTANTS
  Requests, NumBlocks, MaxBatched, Common,
  Prompt,      \* blocks of each request's prompt
  Remote,      \* blocks of it the connector finds, 0: none
  LoadAsync,   \* requests whose load is asynchronous
  Recompute,   \* recompute_kv_load_failures
  Failures,    \* bound on failed transfers
  Aborts,      \* requests a client may abort
  MaxPreempt   \* bound on preemptions

(* What the constants may be.                                              *)
LoadsAssumption ==
  /\ {NumBlocks, MaxBatched} \subseteq Nat \ {0}
  /\ {Common, Failures, MaxPreempt} \subseteq Nat
  /\ LoadAsync \subseteq Requests /\ Aborts \subseteq Requests /\ Recompute \in BOOLEAN
  /\ Prompt \in [Requests -> 1 .. NumBlocks]
  /\ \A r \in Requests : Remote[r] \in 0 .. Prompt[r] - (IF r \in LoadAsync THEN 0 ELSE 1)

VARIABLES
  req,       \* [status, computed, blocks, preempts]
  pool,      \* references, cached prefixes, free queue
  content,   \* what each block holds
  phase, running, cursor, budget, step,
  inflight,  \* _inflight_prefills
  received, failed,  \* finished_ and failed_recving_kv_req_ids
  fresh, skip,       \* blocks to zero, and those not to
  zeroing,   \* zeroing the worker has not done yet
  transfers, \* positions each load still has to write
  syncs,     \* positions loaded within this step
  report,    \* [done, invalid] for the next output of the worker
  failures

queueVars == <<phase, running, cursor, budget, step>>
recvVars == <<received, failed>>
zeroVars == <<fresh, skip, zeroing>>
workVars == <<transfers, syncs, report, failures>>
loadsVars == <<req, pool, content, queueVars, inflight, recvVars, zeroVars, workVars>>

Blocks == 1 .. NumBlocks
Stale == "stale"  \* of an earlier request, or half written
Zero == "zero"
Key(r, i) == <<IF i <= Common THEN 0 ELSE r, i>>
Smaller(a, b) == IF a <= b THEN a ELSE b
Larger(a, b) == IF a >= b THEN a ELSE b
NoReport == [done |-> {}, invalid |-> {}]
NewReq == [status |-> "new", computed |-> 0, blocks |-> <<>>, preempts |-> 0]

LoadsInit ==
  /\ req = [r \in Requests |-> NewReq]
  /\ pool = [ref |-> [b \in Blocks |-> 0], cache |-> <<>>, free |-> [i \in Blocks |-> i]]
  /\ content = [b \in Blocks |-> <<Stale>>]
  /\ phase = "idle" /\ running = <<>> /\ cursor = 1 /\ budget = MaxBatched /\ step = <<>>
  /\ inflight = {} /\ received = {} /\ failed = {} /\ fresh = {} /\ skip = {} /\ zeroing = {}
  /\ transfers = [r \in Requests |-> {}] /\ syncs = [r \in Requests |-> {}]
  /\ report = NoReport /\ failures = 0

-----------------------------------------------------------------------------
(* The block pool.                                                         *)
Evicted(cache, S) == SelectSeq(cache, LAMBDA e : e.block \notin S)
FirstFree(p, n) == SubSeq(p.free, 1, n)
TakenFrom(p, n) ==
  LET taken == ToSet(FirstFree(p, n))
  IN  [ref |-> [b \in Blocks |-> IF b \in taken THEN 1 ELSE p.ref[b]],
       cache |-> Evicted(p.cache, taken), free |-> SubSeq(p.free, n + 1, Len(p.free))]
Touched(p, S) ==
  [p EXCEPT !.ref = [b \in Blocks |-> IF b \in S THEN @[b] + 1 ELSE @[b]],
            !.free = SelectSeq(@, LAMBDA b : b \notin S)]
Freed(p, blocks) ==
  LET gone == Reverse(blocks)
  IN  [p EXCEPT !.ref = [b \in Blocks |-> IF b \in ToSet(gone) THEN @[b] - 1 ELSE @[b]],
                !.free = @ \o SelectSeq(gone, LAMBDA b : p.ref[b] = 1)]
CachedTo(p, r, blocks, n) ==
  LET new == {[key |-> Key(r, i), block |-> blocks[i]] : i \in 1 .. n}
  IN  [p EXCEPT !.cache = @ \o SetToSeq(new \ Range(@))]

CachedBlock(k) == SelectSeq(pool.cache, LAMBDA e : e.key = k)
LocalHit(r) ==
  Max({n \in 0 .. Prompt[r] - 1 : \A i \in 1 .. n : CachedBlock(Key(r, i)) # <<>>})
HitBlocks(r) == [i \in 1 .. LocalHit(r) |-> CachedBlock(Key(r, i))[1].block]
Evictable(r) == Cardinality({i \in 1 .. LocalHit(r) : pool.ref[HitBlocks(r)[i]] = 0})

-----------------------------------------------------------------------------
(* Blocks that prefills under way still need.  The request's own share is  *)
(* in the sum if it was not dropped from the set.                          *)
Remaining(r) == Larger(Prompt[r] - Len(req[r].blocks), 0)
ReservedBlocks == MapThenSumSet(Remaining, inflight)

StartPass ==
  /\ phase = "idle"
  /\ \E r \in Requests : req[r].status \in {"waiting", "loading", "running"} \/ transfers[r] # {}
  /\ phase' = "running" /\ cursor' = 1 /\ budget' = MaxBatched /\ step' = <<>>
  /\ UNCHANGED <<req, pool, content, running, inflight, recvVars, zeroVars, workVars>>

InLoop == phase = "running" /\ cursor <= Len(running) /\ budget > 0
Current == running[cursor]
Next(r) == Smaller(Prompt[r] - req[r].computed, budget)
NewBlocks(r) == Larger(req[r].computed + Next(r) - Len(req[r].blocks), 0)

(* A running request gets the blocks of its next chunk, or the last        *)
(* running one is preempted.                                               *)
Grow ==
  /\ InLoop /\ NewBlocks(Current) <= Len(pool.free)
  /\ LET r == Current
         blocks == req[r].blocks \o FirstFree(pool, NewBlocks(r))
     IN  /\ req' = [req EXCEPT ![r].blocks = blocks]
         /\ pool' = CachedTo(TakenFrom(pool, NewBlocks(r)), r, blocks, req[r].computed + Next(r))
         /\ fresh' = fresh \union ToSet(FirstFree(pool, NewBlocks(r)))
         /\ step' = [s \in DOMAIN step \union {r} |-> IF s = r THEN Next(r) ELSE step[s]]
         /\ budget' = budget - Next(r)
  /\ cursor' = cursor + 1
  /\ UNCHANGED <<content, phase, running, inflight, recvVars, skip, zeroing, workVars>>

PreemptLast ==
  /\ InLoop /\ NewBlocks(Current) > Len(pool.free)
  /\ LET r == Last(running)
     IN  /\ req[r].preempts < MaxPreempt
         /\ pool' = Freed(pool, req[r].blocks)
         /\ req' = [req EXCEPT ![r] = [NewReq EXCEPT !.status = "waiting",
                                                     !.preempts = req[r].preempts + 1]]
         /\ inflight' = inflight \ {r}
  /\ running' = Front(running)
  /\ UNCHANGED <<content, phase, cursor, budget, step, recvVars, zeroVars, workVars>>

EndRunning ==
  /\ phase = "running" /\ ~InLoop /\ phase' = "waiting"
  /\ UNCHANGED <<req, pool, content, running, cursor, budget, step, inflight, recvVars, zeroVars,
                 workVars>>

-----------------------------------------------------------------------------
(* _try_promote_blocked_waiting_request, _update_waiting_for_remote_kv:    *)
(* what was loaded is cached; nothing valid: the blocks go back.  Mutant:  *)
(* the blocks of a failed load are not zeroed after all.                   *)
NotRezeroed(r) == {}
Rezeroed(r) == {req[r].blocks[i] : i \in req[r].computed + 1 .. Len(req[r].blocks)}

PromoteFailed(r) ==
  /\ r \in failed
  /\ IF req[r].computed > 0
       THEN /\ pool' = CachedTo(pool, r, req[r].blocks, req[r].computed)
            /\ fresh' = fresh \union Rezeroed(r)
            /\ req' = [req EXCEPT ![r].status = "waiting"]
       ELSE /\ pool' = Freed(pool, req[r].blocks) /\ fresh' = fresh
            /\ req' = [req EXCEPT ![r] = [@ EXCEPT !.status = "waiting", !.blocks = <<>>]]
PromoteLoaded(r) ==
  /\ r \notin failed
  /\ pool' = CachedTo(pool, r, req[r].blocks, req[r].computed) /\ fresh' = fresh
  /\ req' = [req EXCEPT ![r] = [@ EXCEPT !.status = "waiting",
                                         !.computed = Smaller(@, Prompt[r] - 1)]]

(* Mutant: as soon as the load is known to have failed.                    *)
AtFailure(r) == r \in received \union failed
Arrived(r) == r \in received
Promote(r) ==
  /\ phase = "waiting" /\ budget > 0 /\ req[r].status = "loading" /\ Arrived(r)
  /\ PromoteFailed(r) \/ PromoteLoaded(r)
  /\ received' = received \ {r} /\ failed' = failed \ {r}
  /\ UNCHANGED <<content, queueVars, inflight, skip, zeroing, workVars>>

(* An asynchronous load: blocks for the prefix that is loaded, if they are *)
(* free beyond what other prefills under way still need.                   *)
FindsRemote(r) == req[r].computed = 0 /\ Remote[r] > LocalHit(r)
LoadFits(r) == Remote[r] - LocalHit(r) + Evictable(r) <= Len(pool.free) - ReservedBlocks

(* Mutant: the blocks to be loaded are zeroed as any new ones.             *)
NotSkipped(blocks, hit) == {}
Skipped(blocks, hit) == ToSet(SubSeq(blocks, hit + 1, Len(blocks)))

AdmitLoad(r) ==
  /\ phase = "waiting" /\ budget > 0 /\ req[r].status = "waiting"
  /\ FindsRemote(r) /\ r \in LoadAsync /\ LoadFits(r)
  /\ LET hit == LocalHit(r)
         held == Touched(pool, ToSet(HitBlocks(r)))
         new == FirstFree(held, Remote[r] - hit)
         blocks == HitBlocks(r) \o new
     IN  /\ pool' = TakenFrom(held, Remote[r] - hit)
         /\ req' = [req EXCEPT ![r] = [@ EXCEPT !.status = "loading", !.computed = Remote[r],
                                                !.blocks = blocks]]
         /\ fresh' = fresh \union ToSet(new) /\ skip' = skip \union Skipped(blocks, hit)
         /\ transfers' = [transfers EXCEPT ![r] = hit + 1 .. Remote[r]]
  /\ inflight' = inflight \union {r}
  /\ UNCHANGED <<content, queueVars, recvVars, zeroing, syncs, report, failures>>

(* A first chunk, behind what is cached here or loaded within the step.    *)
Start(r) ==
  IF FindsRemote(r) THEN Remote[r] ELSE IF req[r].computed = 0 THEN LocalHit(r) ELSE req[r].computed
Found(r) == IF req[r].computed = 0 THEN HitBlocks(r) ELSE req[r].blocks
ChunkOf(r) == Smaller(Prompt[r] - Start(r), budget)
ChunkBlocks(r) == Larger(Start(r) + ChunkOf(r) - Len(Found(r)), 0)
ChunkFits(r) ==
  ChunkBlocks(r) + (IF req[r].computed = 0 THEN Evictable(r) ELSE 0) <= Len(pool.free)

AdmitChunk(r) ==
  /\ phase = "waiting" /\ budget > 0 /\ req[r].status = "waiting"
  /\ FindsRemote(r) => r \notin LoadAsync
  /\ ChunkFits(r)
  /\ LET held == IF req[r].computed = 0 THEN Touched(pool, ToSet(HitBlocks(r))) ELSE pool
         new == FirstFree(held, ChunkBlocks(r))
         blocks == Found(r) \o new
         end == Start(r) + ChunkOf(r)
     IN  /\ pool' = CachedTo(TakenFrom(held, ChunkBlocks(r)), r, blocks, end)
         /\ req' = [req EXCEPT ![r] = [@ EXCEPT !.status = "running", !.computed = Start(r),
                                                !.blocks = blocks]]
         /\ fresh' = fresh \union ToSet(new)
         /\ syncs' = [syncs EXCEPT ![r] = IF FindsRemote(r) THEN Len(Found(r)) + 1 .. Start(r) ELSE {}]
         /\ inflight' = IF end < Prompt[r] THEN inflight \union {r} ELSE inflight
  /\ step' = [s \in DOMAIN step \union {r} |-> IF s = r THEN ChunkOf(r) ELSE step[s]]
  /\ budget' = budget - ChunkOf(r) /\ running' = Append(running, r)
  /\ UNCHANGED <<content, phase, cursor, recvVars, skip, zeroing, transfers, report, failures>>

Ready(r) ==
  \/ req[r].status = "loading" /\ Arrived(r)
  \/ /\ req[r].status = "waiting"
     /\ IF FindsRemote(r) /\ r \in LoadAsync THEN LoadFits(r) ELSE ChunkFits(r)

(* The step goes to the worker; counts advance (_update_after_schedule).   *)
EndPass ==
  /\ phase = "waiting" /\ (budget > 0 => running # <<>> \/ \A r \in Requests : ~Ready(r))
  /\ req' = [r \in Requests |-> IF r \in DOMAIN step THEN [req[r] EXCEPT !.computed = @ + step[r]]
                                ELSE req[r]]
  /\ inflight' = {r \in inflight : r \in DOMAIN step => req[r].computed + step[r] < Prompt[r]}
  /\ zeroing' = zeroing \union (fresh \ skip) /\ fresh' = {} /\ skip' = {}
  /\ phase' = "execute"
  /\ UNCHANGED <<pool, content, running, cursor, budget, step, recvVars, workVars>>

-----------------------------------------------------------------------------
(* The worker.  A transfer writes a block, or gives it up; the last one    *)
(* reports the load as finished.                                           *)
Land(r, i) ==
  /\ phase \in {"execute", "idle"} /\ i \in transfers[r]
  /\ \/ /\ content' = [content EXCEPT ![req[r].blocks[i]] = Key(r, i)]
        /\ report' = [report EXCEPT !.done = IF transfers[r] = {i} THEN @ \union {r} ELSE @]
        /\ UNCHANGED failures
     \/ /\ failures < Failures /\ failures' = failures + 1
        /\ report' = [done |-> IF transfers[r] = {i} THEN report.done \union {r} ELSE report.done,
                      invalid |-> report.invalid \union {req[r].blocks[i]}]
        /\ UNCHANGED content
  /\ transfers' = [transfers EXCEPT ![r] = @ \ {i}]
  /\ UNCHANGED <<req, pool, queueVars, inflight, recvVars, zeroVars, syncs>>

(* The forward: new blocks are zeroed, this step's loads done but for      *)
(* `lost', and every token attends to all before it, those of the step     *)
(* included.  exact[i]: requests whose first i blocks are then right.      *)
From(r) == req[r].computed - step[r]
Loaded(lost) ==
  [b \in Blocks |->
     LET owners == {<<r, i>> \in (DOMAIN step) \X Blocks :
                      /\ i \in syncs[r] /\ req[r].blocks[i] = b /\ b \notin lost}
     IN  IF owners # {} THEN LET o == CHOOSE x \in owners : TRUE IN Key(o[1], o[2])
         ELSE IF b \in zeroing THEN <<Zero>> ELSE content[b]]
Exact(mem) ==
  LET ok[i \in 0 .. NumBlocks] ==
        IF i = 0 THEN DOMAIN step
        ELSE {r \in ok[i - 1] :
                \/ i > req[r].computed
                \/ mem[req[r].blocks[i]] = Key(r, i)
                \/ \E q \in ok[i - 1] : /\ From(q) < i /\ i <= req[q].computed
                                        /\ req[q].blocks[i] = req[r].blocks[i]}
  IN  ok
Computed(mem) ==
  [b \in Blocks |->
     LET writers == {<<r, i>> \in (DOMAIN step) \X Blocks :
                       From(r) < i /\ i <= req[r].computed /\ req[r].blocks[i] = b}
     IN  IF writers = {} THEN mem[b]
         ELSE LET w == CHOOSE x \in writers : TRUE
              IN  IF w[1] \in Exact(mem)[w[2]] THEN Key(w[1], w[2]) ELSE <<Stale>>]

Execute(lost) ==
  /\ phase = "execute" /\ Cardinality(lost) <= Failures - failures
  /\ lost \subseteq {req[r].blocks[i] : <<r, i>> \in {x \in (DOMAIN step) \X Blocks : x[2] \in syncs[x[1]]}}
  /\ content' = Computed(Loaded(lost))
  /\ report' = [report EXCEPT !.invalid = @ \union lost] /\ failures' = failures + Cardinality(lost)
  /\ zeroing' = {} /\ syncs' = [r \in Requests |-> {}] /\ phase' = "update"
  /\ UNCHANGED <<req, pool, running, cursor, budget, step, inflight, recvVars, fresh, skip, transfers>>

-----------------------------------------------------------------------------
(* _update_requests_with_invalid_blocks: each request goes back to its     *)
(* first invalid block, but one that shares it with an earlier request     *)
(* only to the start of the step.                                          *)
StepStart(r) == req[r].computed - (IF r \in DOMAIN step THEN step[r] ELSE 0)
Bad(r, invalid) == {i \in 1 .. StepStart(r) : req[r].blocks[i] \in invalid}
(* Mutant: one block too many is kept.                                     *)
OnePast(bad) == Min(bad)
ValidPrefix(bad) == Min(bad) - 1

Marking(order, invalid) ==
  LET mark[k \in 0 .. Len(order)] ==
        IF k = 0 THEN [marked |-> {}, computed |-> [r \in Requests |-> req[r].computed], evict |-> {}]
        ELSE LET r == order[k]
                 m == mark[k - 1]
                 bad == Bad(r, invalid)
                 mine == {i \in bad : req[r].blocks[i] \notin m.marked}
                 kept == ValidPrefix(mine)
             IN  [marked |-> m.marked \union {req[r].blocks[i] : i \in bad},
                  computed |-> [m.computed EXCEPT ![r] = IF bad = {} THEN @
                                  ELSE IF mine = {} THEN StepStart(r) ELSE kept],
                  evict |-> IF mine = {} THEN m.evict
                            ELSE m.evict \union ToSet(SubSeq(req[r].blocks, kept + 1, Len(req[r].blocks)))]
  IN  mark[Len(order)]

(* Only if the requests fail is the cache purged of what was not loaded.    *)
(* Mutant: it never is.                                                    *)
Unpurged(evict) == pool
Purged(evict) == IF Recompute THEN pool ELSE [pool EXCEPT !.cache = Evicted(@, evict)]

Loading == SetToSeq({r \in Requests : req[r].status = "loading"})
AsyncHit == {r \in Requests : req[r].status = "loading" /\ Bad(r, report.invalid) # {}}
SyncHit == {r \in ToSet(running) : Bad(r, report.invalid) # {}}

(* finish_requests, _free_request: blocks a load still writes stay until   *)
(* it is over.  Mutant: they are freed at once.                            *)
FreeNow(r, got) == TRUE
MayFree(r, got) == req[r].status = "loading" => r \in got

FreeAll(p, rs) ==
  LET order == SetToSeq(rs)
      free[k \in 0 .. Len(order)] ==
        IF k = 0 THEN p ELSE Freed(free[k - 1], req[order[k]].blocks)
  IN  free[Len(order)]

Update ==
  /\ phase = "update"
  /\ LET async == Marking(Loading, report.invalid)
         sync == Marking(running, report.invalid)
         hit == AsyncHit \union SyncHit
         count == [r \in Requests |-> IF r \in AsyncHit THEN async.computed[r] ELSE sync.computed[r]]
         errors == IF Recompute THEN {} ELSE hit
         done == {r \in DOMAIN step : r \notin SyncHit /\ req[r].computed >= Prompt[r]}
         late == {r \in report.done : req[r].status = "finished"}
         over == {r \in errors : r \notin AsyncHit} \union {r \in AsyncHit \intersect errors : MayFree(r, received)}
         gone == done \union late \union over
                   \union {r \in errors : r \in report.done}
     IN  /\ pool' = FreeAll(Purged(sync.evict), gone)
         /\ req' = [r \in Requests |->
              IF r \in gone THEN [NewReq EXCEPT !.status = "gone"]
              ELSE IF r \in errors THEN [req[r] EXCEPT !.status = "finished"]
              ELSE [req[r] EXCEPT !.computed = count[r]]]
         /\ running' = SelectSeq(running, LAMBDA r : r \notin done \union errors)
         /\ inflight' = inflight \ (done \union errors)
         /\ received' = (received \union {r \in report.done : req[r].status = "loading"}) \ errors
         /\ failed' = IF Recompute THEN failed \union AsyncHit ELSE failed
  /\ report' = NoReport /\ step' = <<>> /\ phase' = "idle"
  /\ UNCHANGED <<content, cursor, budget, zeroVars, transfers, syncs, failures>>

-----------------------------------------------------------------------------
Arrive(r) ==
  /\ phase = "idle" /\ req[r].status = "new"
  /\ req' = [req EXCEPT ![r].status = "waiting"]
  /\ UNCHANGED <<pool, content, queueVars, inflight, recvVars, zeroVars, workVars>>

Abort(r) ==
  /\ phase = "idle" /\ r \in Aborts /\ req[r].status \in {"waiting", "loading", "running"}
  /\ IF MayFree(r, received)
       THEN /\ req' = [req EXCEPT ![r] = [NewReq EXCEPT !.status = "gone"]]
            /\ pool' = Freed(pool, req[r].blocks)
       ELSE /\ req' = [req EXCEPT ![r].status = "finished"] /\ UNCHANGED pool
  /\ received' = received \ {r} /\ failed' = failed \ {r} /\ inflight' = inflight \ {r}
  /\ running' = SelectSeq(running, LAMBDA s : s # r)
  /\ UNCHANGED <<content, phase, cursor, budget, step, zeroVars, workVars>>

LoadsNext ==
  \/ StartPass \/ Grow \/ PreemptLast \/ EndRunning \/ EndPass \/ Update
  \/ \E lost \in SUBSET Blocks : Execute(lost)
  \/ \E r \in Requests :
       \/ Arrive(r) \/ Promote(r) \/ AdmitLoad(r) \/ AdmitChunk(r) \/ Abort(r)
       \/ \E i \in 1 .. NumBlocks : Land(r, i)

LoadsSpec == LoadsInit /\ [][LoadsNext]_loadsVars

-----------------------------------------------------------------------------
(* A block a transfer still writes belongs to its request alone, which may *)
(* be aborted (_free_request: delay_free_blocks).                          *)
LoadsOwned ==
  \A r \in Requests : \A i \in transfers[r] :
    /\ i <= Len(req[r].blocks) /\ pool.ref[req[r].blocks[i]] = 1
    /\ \A e \in Range(pool.cache) : e.block # req[r].blocks[i]

(* What a step attends to has been loaded or computed, failed loads and    *)
(* shared blocks included.                                                 *)
ReadsLoaded ==
  phase = "update" =>
    \A r \in DOMAIN step :
      Bad(r, report.invalid) = {} =>
        \A i \in 1 .. req[r].computed : content[req[r].blocks[i]] = Key(r, i)

(* A block is computed only over zeros or over its own earlier content,    *)
(* never over another request's (record_blocks_for_zeroing).               *)
ZeroedFirst ==
  phase = "execute" =>
    \A r \in DOMAIN step : \A i \in From(r) + 1 .. req[r].computed :
      LET b == req[r].blocks[i]
      IN  b \in zeroing \/ content[b] \in {<<Zero>>, Key(r, i)}

(* A load never holds up the queue for its own sake: if nothing runs or    *)
(* loads, the head of the queue can start ("to avoid deadlock").           *)
NotStuck ==
  /\ phase = "waiting" /\ budget = MaxBatched /\ running = <<>>
  /\ \A r \in Requests : req[r].status # "loading" /\ transfers[r] = {}
  /\ \E r \in Requests : req[r].status = "waiting"
  => \E r \in Requests : Ready(r)
=============================================================================
