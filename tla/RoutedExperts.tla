---------------------------- MODULE RoutedExperts ---------------------------
(***************************************************************************)
(* The experts every token was routed to, returned to the client           *)
(* (model_executor/layers/fused_moe/routed_experts_capturer.py, the        *)
(* scheduler's snapshot and update_from_output, the runner's clone and     *)
(* copy).  A step's rows go to a buffer indexed by KV slot; the prompt's   *)
(* are read from there with the first output, later ones from the step.    *)
(*                                                                         *)
(* Which requests a pass serves, with how many tokens, and which it        *)
(* preempts is left open (AsyncScheduler has the loops).  The routing of a *)
(* token is named by the prefix it ends: its owner and length; the first   *)
(* Common tokens of all prompts agree.  What a rank captures of a layer    *)
(* (CaptureNext, at the end) is modelled on its own.                       *)
(***************************************************************************)
EXTENDS Integers, Sequences, FiniteSets, FiniteSetsExt, SequencesExt

CONSTANTS
  Requests, Prompt, Common, MaxNew, NumSpec,
  PromptStart,  \* routed_experts_prompt_start of each request
  BlockSize, HashSize, NumBlocks, MaxBatched,
  Depth,        \* steps scheduled and not processed
  Async, MaxPreempt, Aborts,
  Drops,        \* whether a preemption may drop the output in flight
  MaxDp, MaxTp, MaxTokens, MaxPad   \* of a capture: ranks, tokens of a rank, padding

(* What the constants may be.                                              *)
RoutedAssumption ==
  /\ {MaxDp, MaxTp} \subseteq Nat \ {0} /\ {MaxTokens, MaxPad} \subseteq Nat
  /\ Requests \subseteq Nat /\ IsFiniteSet(Requests) /\ Aborts \subseteq Requests
  /\ {MaxNew, BlockSize, HashSize, NumBlocks, MaxBatched, Depth} \subseteq Nat \ {0}
  /\ {NumSpec, Common, MaxPreempt} \subseteq Nat /\ {Async, Drops} \subseteq BOOLEAN
  /\ BlockSize % HashSize = 0 /\ (Async \/ Depth = 1)
  /\ \A r \in Requests : Prompt[r] \in Nat \ {0} /\ PromptStart[r] \in 0 .. Prompt[r] - 1

VARIABLES
  req,       \* Request
  pool,      \* references, the free queue, hashes of blocks
  bySlot,    \* routed_experts_by_slot
  snapshot,  \* _re_block_ids
  routing,   \* what each request's client received
  gpu,       \* the worker's num_computed_tokens
  device,    \* the capture buffer
  flights    \* steps scheduled and not processed

vars == <<req, pool, bySlot, snapshot, routing, gpu, device, flights>>

Blocks == 1 .. NumBlocks
Smaller(a, b) == IF a <= b THEN a ELSE b
Larger(a, b)  == IF a >= b THEN a ELSE b
Cdiv(n)       == (n + BlockSize - 1) \div BlockSize
Key(r, n)     == [of |-> IF n <= Common THEN -1 ELSE r, at |-> n]
Wrong(r, n)   == [of |-> r, at |-> 0 - n]     \* of a draft that is rejected
Nothing       == [of |-> -1, at |-> 0]
NewReq == [status |-> "waiting", out |-> 0, computed |-> 0, holders |-> 0, spec |-> 0,
           inflight |-> 0, stale |-> 0, drop |-> FALSE, blocks |-> <<>>, preempts |-> 0]

Init ==
  /\ req = [r \in Requests |-> NewReq]
  /\ pool = [ref |-> [b \in Blocks |-> 0], free |-> [i \in Blocks |-> i], hashes |-> {}]
  /\ bySlot = [b \in Blocks |-> [i \in 1 .. BlockSize |-> Nothing]]
  /\ snapshot = <<>> /\ routing = [r \in Requests |-> <<>>]
  /\ gpu = [r \in Requests |-> 0]
  /\ device = [i \in 1 .. MaxBatched |-> Nothing]
  /\ flights = <<>>

Tokens(q, r) == Prompt[r] + q.out
WithStatus(s) == {r \in Requests : req[r].status = s}

-----------------------------------------------------------------------------
(* The block pool.  A free block keeps its hashes until it is taken.       *)

Taken(p, n) == SubSeq(p.free, 1, n)
TakeOut(p, n) ==
  LET taken == ToSet(Taken(p, n))
  IN  [ref |-> [b \in Blocks |-> IF b \in taken THEN 1 ELSE p.ref[b]],
       free |-> SubSeq(p.free, n + 1, Len(p.free)),
       hashes |-> {h \in p.hashes : h.block \notin taken}]
Hold(p, S) ==
  [p EXCEPT !.ref = [b \in Blocks |-> IF b \in S THEN @[b] + 1 ELSE @[b]],
            !.free = SelectSeq(@, LAMBDA b : b \notin S)]
GiveBack(p, blocks) ==
  LET left == [b \in Blocks |-> IF b \in ToSet(blocks) THEN p.ref[b] - 1 ELSE p.ref[b]]
  IN  [p EXCEPT !.ref = left, !.free = @ \o SelectSeq(Reverse(blocks), LAMBDA b : left[b] = 0)]

(* Full blocks of known tokens, and the block of the prompt's last hash    *)
(* boundary.  Mutant: drafts count as known.                               *)
DraftsKnown(q, r) == q.computed
Known(q, r) == Smaller(q.computed, Tokens(q, r))
LastHash(r) == Prompt[r] - (Prompt[r] % HashSize)
Registered(p, q, r) ==
  LET ends == {i * BlockSize : i \in 1 .. Known(q, r) \div BlockSize}
                \union {n \in {LastHash(r)} : 0 < n /\ n <= Known(q, r)}
  IN  [p EXCEPT !.hashes = @ \union {[key |-> Key(r, n), block |-> q.blocks[Cdiv(n)]] : n \in ends}]

(* The longest hit that leaves a token to compute.                         *)
Found(p, r, n) == \E h \in p.hashes : h.key = Key(r, n)
BlockAt(p, r, n) == (CHOOSE h \in p.hashes : h.key = Key(r, n)).block
HitEnds(p, q, r) ==
  {n \in 0 .. Tokens(q, r) - 1 :
     /\ n % HashSize = 0 /\ (n % BlockSize = 0 \/ Found(p, r, n))
     /\ \A i \in 1 .. n \div BlockSize : Found(p, r, i * BlockSize)}
Hit(p, q, r) == CHOOSE n \in HitEnds(p, q, r) : \A m \in HitEnds(p, q, r) : m <= n

-----------------------------------------------------------------------------
(* schedule()                                                              *)

(* A request's step: as many of its tokens as there is budget for.         *)
Wanted(q, r) == Tokens(q, r) + q.spec + q.holders - q.computed
SureToEnd(q, r) == q.holders > 0 /\ q.computed + 2 - q.holders >= Prompt[r] + MaxNew
MustDrain(q) == q.stale > 0 /\ ~q.drop
Share(q, r, n, isNew) ==
  [n |-> n, start |-> q.computed, new |-> isNew, blocks |-> q.blocks,
   drafts |-> Smaller(q.spec, Larger(0, n + q.computed - Tokens(q, r) - q.holders)),
   samples |-> q.computed + n >= Tokens(q, r) + q.holders]

After(q, share) ==
  LET held == share.samples /\ Async
  IN  [q EXCEPT !.computed = @ + share.n, !.inflight = @ + share.n,
                !.holders = IF held THEN @ + 1 + share.drafts ELSE @,
                !.spec = IF held THEN NumSpec ELSE 0]

Scheduled(st, r, q, p, n, isNew) ==
  LET share == Share(q, r, n, isNew)
      next == After(q, share)
  IN  [req |-> [st.req EXCEPT ![r] = next], pool |-> Registered(p, next, r),
       plan |-> [s \in DOMAIN st.plan \union {r} |-> IF s = r THEN share ELSE st.plan[s]],
       left |-> st.left - n, ok |-> TRUE]
Refused(st) == [st EXCEPT !.ok = FALSE]

(* A running request takes the blocks it lacks.                            *)
Served(st, r, n) ==
  LET q == st.req[r]
      new == Larger(0, Cdiv(q.computed + n) - Len(q.blocks))
  IN  IF n > Wanted(q, r) \/ n > st.left \/ SureToEnd(q, r) \/ new > Len(st.pool.free)
      THEN Refused(st)
      ELSE Scheduled(st, r, [q EXCEPT !.blocks = @ \o Taken(st.pool, new)],
                     TakeOut(st.pool, new), n, FALSE)

(* A waiting one starts behind its hit; the block the hit ends in, unless  *)
(* full, is replaced by a copy (_apply_cow; the source is kept for a step).*)
Admitted(st, r, n) ==
  LET q == st.req[r]
      hit == Hit(st.pool, q, r)
      full == [i \in 1 .. hit \div BlockSize |-> BlockAt(st.pool, r, i * BlockSize)]
      held == Hold(st.pool, ToSet(full))
      new == Cdiv(hit + n) - Len(full)
      blocks == full \o Taken(held, new)
  IN  IF MustDrain(q) \/ hit + n > Tokens(q, r) \/ n > st.left \/ new > Len(held.free)
      THEN Refused(st)
      ELSE Scheduled(st, r, [q EXCEPT !.status = "running", !.computed = hit, !.blocks = blocks],
                     TakeOut(held, new), n, TRUE)

(* _preempt_request                                                        *)
Preempted(q, drop) ==
  [q EXCEPT !.status = "waiting", !.computed = 0, !.holders = 0, !.spec = 0, !.blocks = <<>>,
            !.drop = drop \/ (q.drop /\ q.stale > 0), !.stale = q.inflight,
            !.preempts = @ + 1]
Freed(p, S) == FoldSet(LAMBDA r, acc : GiveBack(acc, req[r].blocks), p, S)
MayPreempt(S) == \A r \in S : req[r].preempts < MaxPreempt

(* The snapshot is taken before the forward; entries not used yet stay.    *)
(* Mutant: those of the last step only.                                    *)
OnlyThis(plan) == [r \in DOMAIN plan |-> plan[r].blocks]
SnapshotAfter(plan) ==
  [r \in DOMAIN plan \union DOMAIN snapshot |->
     IF r \in DOMAIN plan THEN plan[r].blocks ELSE snapshot[r]]

Step(plan) == [plan |-> plan, stage |-> "scheduled", order |-> <<>>, data |-> <<>>,
               slots |-> <<>>, host |-> <<>>, out |-> <<>>]

(* A pass that preempts admits nothing; new tokens per request, 0: none.   *)
Schedule ==
  /\ Len(flights) < Depth
  /\ \E victims \in SUBSET WithStatus("running") :
     \E news \in [Requests -> 0 .. MaxBatched] :
       LET chosen == {r \in Requests : news[r] > 0}
           start == [req |-> [r \in Requests |-> IF r \in victims THEN Preempted(req[r], FALSE)
                                                 ELSE req[r]],
                     pool |-> Freed(pool, victims), plan |-> <<>>, left |-> MaxBatched, ok |-> TRUE]
           ordered == SortSeq(SetToSeq(chosen \intersect WithStatus("running")), <)
                        \o SortSeq(SetToSeq(chosen \intersect WithStatus("waiting")), <)
           Place(r, st) == IF ~st.ok THEN st
                           ELSE IF st.req[r].status = "running" THEN Served(st, r, news[r])
                           ELSE Admitted(st, r, news[r])
           end == FoldLeft(LAMBDA st, r : Place(r, st), start, ordered)
       IN  /\ chosen # {} /\ chosen \intersect victims = {} /\ MayPreempt(victims)
           /\ chosen \subseteq WithStatus("running") \union WithStatus("waiting")
           /\ victims = {} \/ chosen \subseteq WithStatus("running")
           /\ end.ok
           /\ req' = end.req /\ pool' = end.pool
           /\ snapshot' = SnapshotAfter(end.plan)
           /\ flights' = Append(flights, Step(end.plan))
  /\ UNCHANGED <<bySlot, routing, gpu, device>>

(* reset_prefix_cache: all running requests are preempted, their output in *)
(* flight is dropped.                                                      *)
Reset ==
  /\ Drops /\ WithStatus("running") # {} /\ MayPreempt(WithStatus("running"))
  /\ req' = [r \in Requests |-> IF r \in WithStatus("running") THEN Preempted(req[r], TRUE)
                                ELSE req[r]]
  /\ pool' = [Freed(pool, WithStatus("running")) EXCEPT !.hashes = {}]
  /\ UNCHANGED <<bySlot, snapshot, routing, gpu, device, flights>>

Ended(q) == [q EXCEPT !.status = "finished", !.blocks = <<>>]
Abort(r) ==
  /\ r \in Aborts /\ req[r].status # "finished"
  /\ req' = [req EXCEPT ![r] = Ended(@)]
  /\ pool' = Freed(pool, {r})
  /\ UNCHANGED <<bySlot, snapshot, routing, gpu, device, flights>>

-----------------------------------------------------------------------------
(* The worker: the forward writes the capture buffer and is followed by    *)
(* the clone; the copy to the host runs on another stream, maybe behind    *)
(* the next forward.                                                       *)

(* The worker's order is its own, and so is the count of tokens, which     *)
(* drafts rejected on the GPU have not advanced.                           *)
From(f, r) == IF f.plan[r].new THEN f.plan[r].start ELSE gpu[r]
RowsOf(f, r, accepted) ==
  [j \in 1 .. f.plan[r].n |->
     IF j <= f.plan[r].n - f.plan[r].drafts + accepted THEN Key(r, From(f, r) + j)
     ELSE Wrong(r, From(f, r) + j)]
SlotsOf(f, r) ==
  [j \in 1 .. f.plan[r].n |->
     LET p == From(f, r) + j IN <<f.plan[r].blocks[Cdiv(p)], ((p - 1) % BlockSize) + 1>>]

(* The rows behind the step's keep what an earlier step wrote.             *)
Captured(rows) == [i \in DOMAIN device |-> IF i <= Len(rows) THEN rows[i] ELSE device[i]]

Forward(k) ==
  /\ k \in DOMAIN flights /\ flights[k].stage = "scheduled"
  /\ \A j \in 1 .. k - 1 : flights[j].stage # "scheduled"
  /\ LET f == flights[k]
         S == DOMAIN f.plan
     IN  \E order \in SetToSeqs(S) : \E accepted \in [S -> 0 .. NumSpec] :
           LET rows == FlattenSeq([i \in DOMAIN order |-> RowsOf(f, order[i], accepted[order[i]])])
           IN  /\ \A r \in S : accepted[r] <= f.plan[r].drafts
               /\ device' = Captured(rows)
               /\ gpu' = [r \in Requests |->
                            IF r \in S THEN From(f, r) + f.plan[r].n - f.plan[r].drafts + accepted[r]
                            ELSE gpu[r]]
               /\ flights' = [flights EXCEPT ![k] =
                    [@ EXCEPT !.stage = "ran", !.order = order, !.data = rows,
                              !.slots = FlattenSeq([i \in DOMAIN order |-> SlotsOf(f, order[i])]),
                              !.out = [r \in S |-> IF f.plan[r].samples THEN 1 + accepted[r] ELSE 0]]]
  /\ UNCHANGED <<req, pool, bySlot, snapshot, routing>>

(* Mutant: the copy reads the capture buffer itself.                       *)
FromBuffer(f) == SubSeq(device, 1, Len(f.data))
CopySource(f) == f.data

CopyOut(k) ==
  /\ k \in DOMAIN flights /\ flights[k].stage = "ran"
  /\ \A j \in 1 .. k - 1 : flights[j].stage = "copied"
  /\ flights' = [flights EXCEPT ![k] = [@ EXCEPT !.stage = "copied", !.host = CopySource(flights[k])]]
  /\ UNCHANGED <<req, pool, bySlot, snapshot, routing, gpu, device>>

-----------------------------------------------------------------------------
(* update_from_output                                                      *)

(* store_batch                                                             *)
Stored(f) ==
  [b \in Blocks |-> [i \in 1 .. BlockSize |->
     LET at == {j \in DOMAIN f.slots : f.slots[j] = <<b, i>>}
     IN  IF at = {} THEN bySlot[b][i] ELSE f.host[CHOOSE j \in at : TRUE]]]

(* RoutedExpertsManager.get.  Mutant: the buffer before store_batch.       *)
ReadFirst(f) == bySlot
ReadFrom(f) == Stored(f)
PromptRows(f, blocks, r) ==
  LET all == [p \in 1 .. Smaller(Prompt[r], Len(blocks) * BlockSize) |->
                ReadFrom(f)[blocks[Cdiv(p)]][((p - 1) % BlockSize) + 1]]
  IN  SubSeq(all, PromptStart[r] + 1, Len(all))

(* A request's first row.  Mutant: by the scheduler's order.               *)
ScheduledOffset(f, r) ==
  FoldSet(LAMBDA s, n : n + f.plan[s].n, 0, {s \in DOMAIN f.plan : s < r})
Offset(f, r) ==
  FoldSet(LAMBDA i, n : n + f.plan[f.order[i]].n, 0,
          {i \in DOMAIN f.order : \E j \in DOMAIN f.order : f.order[j] = r /\ i < j})

(* Accepted drafts lie at the start of a request's rows, the last known    *)
(* token at their end.  Mutant: always at the end.                         *)
AtTheEnd(f, r, kept) == Offset(f, r) + f.plan[r].n - kept
FirstRow(f, r, kept) ==
  IF f.plan[r].drafts > 0 THEN Offset(f, r) ELSE Offset(f, r) + f.plan[r].n - kept
StepRows(f, r, kept) == SubSeq(f.host, FirstRow(f, r, kept) + 1, FirstRow(f, r, kept) + kept)

(* Mutant: the blocks the request has now.                                 *)
LiveBlocks(r) == req[r].blocks
SnapshotOf(r) == IF r \in DOMAIN snapshot THEN snapshot[r] ELSE <<>>

(* A dropped output, or that of a finished request, is not looked at.      *)
Counted(q, n) == [q EXCEPT !.inflight = @ - n, !.stale = IF @ > 0 THEN @ - n ELSE @]
Ignored(r) == req[r].status = "finished" \/ (req[r].stale > 0 /\ req[r].drop)
KeptTokens(f, r, eos) == Smaller(Smaller(f.out[r], eos), MaxNew - req[r].out)
Delivered(f, r, eos) ==
  LET q == Counted(req[r], f.plan[r].n)
      stale == req[r].stale > 0
      kept == KeptTokens(f, r, eos)
      rejected == IF f.plan[r].drafts > 0 /\ f.out[r] > 0 THEN f.plan[r].drafts - (f.out[r] - 1) ELSE 0
      back == IF stale THEN q
              ELSE [q EXCEPT !.computed = @ - rejected, !.holders = IF @ > 0 THEN @ - rejected ELSE @]
      next == [back EXCEPT !.out = @ + kept,
                           !.holders = IF Async /\ ~stale THEN @ - kept ELSE @,
                           !.spec = IF Async \/ stale THEN @ ELSE IF kept > 0 THEN NumSpec ELSE 0]
      stops == kept > 0 /\ (eos <= f.out[r] \/ next.out >= MaxNew)
  IN  IF req[r].status = "finished" THEN q
      ELSE IF stale /\ q.drop THEN q
      ELSE IF stops THEN Ended(next) ELSE next

Returned(f, r, eos) ==
  LET kept == KeptTokens(f, r, eos)
  IN  IF Ignored(r) \/ kept = 0 THEN <<>>
      ELSE IF req[r].out = 0 THEN PromptRows(f, SnapshotOf(r), r)
      ELSE StepRows(f, r, kept)

Update ==
  /\ flights # <<>> /\ Head(flights).stage = "copied"
  /\ LET f == Head(flights)
         S == DOMAIN f.plan
     IN  \E eos \in 1 .. NumSpec + 2 :
           LET next == [r \in Requests |-> IF r \in S THEN Delivered(f, r, eos) ELSE req[r]]
               used == {r \in S : ~Ignored(r) /\ KeptTokens(f, r, eos) > 0}
           IN  /\ req' = next
               /\ pool' = Freed(pool, {r \in S : next[r].status = "finished"})
               /\ bySlot' = Stored(f)
               /\ snapshot' = [r \in DOMAIN snapshot \ used |-> snapshot[r]]
               /\ routing' = [r \in Requests |->
                                IF r \in S THEN routing[r] \o Returned(f, r, eos) ELSE routing[r]]
  /\ flights' = Tail(flights)
  /\ UNCHANGED <<gpu, device>>

Next ==
  \/ Schedule \/ Reset \/ Update
  \/ \E r \in Requests : Abort(r)
  \/ \E k \in DOMAIN flights : Forward(k) \/ CopyOut(k)
Spec == Init /\ [][Next]_vars

-----------------------------------------------------------------------------
(* What a client received is the routing of its prompt, from the start it  *)
(* asked for, and of every later token that was fed back (get's users in   *)
(* update_from_output): whatever was preempted, resumed, dropped, rejected *)
(* or given to others since.                                               *)
RoutingExact ==
  \A r \in Requests :
    routing[r] = IF req[r].out = 0 THEN <<>>
                 ELSE [i \in 1 .. Prompt[r] + req[r].out - 1 - PromptStart[r] |->
                         Key(r, PromptStart[r] + i)]

(* With no step in flight, every block a prefix hit may find holds the     *)
(* routing of its tokens (the manager's comment: routing survives with     *)
(* the blocks).                                                            *)
HitsCarryRouting ==
  flights = <<>> =>
    \A h \in pool.hashes :
      \A i \in 1 .. ((h.key.at - 1) % BlockSize) + 1 :
        LET p == BlockSize * ((h.key.at - 1) \div BlockSize) + i
        IN  /\ bySlot[h.block][i].at = p
            /\ bySlot[h.block][i].of \in {-1, h.key.of}

-----------------------------------------------------------------------------
(* RoutedExpertsCapturer.capture, on its own: which rows of a layer's      *)
(* top-k are this data-parallel rank's tokens.  The layout is not handed   *)
(* over: it is guessed from the number of rows.  A row is named by its     *)
(* data-parallel rank and token number, padding by token number 0.         *)
VARIABLES
  case,    \* layout, tokens per rank, this rank and the rows its layer gives
  buffer   \* device_buffer of its first tensor-parallel rank

captureVars == <<case, buffer>>
Padding == [dp |-> 0, at |-> 0]
None == <<>>

CaptureInit == case = None /\ buffer = None

-----------------------------------------------------------------------------
(* The rows a layer's router sees.                                         *)

TokensOf(d, n) == [i \in 1 .. n |-> [dp |-> d, at |-> i]]
Ceil(n, k) == (n + k - 1) \div k
PaddedTo(s, n) == [i \in 1 .. n |-> IF i <= Len(s) THEN s[i] ELSE Padding]

(* One rank's share of its tokens split over the tensor-parallel ranks.    *)
Shard(d, n, tp, t, size) == SubSeq(PaddedTo(TokensOf(d, n), tp * size), (t - 1) * size + 1, t * size)

(* all: every rank's tokens; own: this one's; shards: all ranks' shards in *)
(* DP-then-TP order; split: the first shard of this one's tokens.          *)
RowsIn(c) ==
  LET D == DOMAIN c.counts
  IN  CASE c.layout = "all" -> FlattenSeq([d \in D |-> TokensOf(d, c.counts[d])])
        [] c.layout = "own" -> TokensOf(c.rank, c.counts[c.rank])
        [] c.layout = "shards" ->
             FlattenSeq([d \in D |-> PaddedTo(TokensOf(d, c.counts[d]), c.tp * c.sizes[d])])
        [] c.layout = "split" ->
             Shard(c.rank, c.counts[c.rank], c.tp, 1, Ceil(c.counts[c.rank], c.tp))

(* The gather over the tensor-parallel group.                              *)
Gathered(c) ==
  LET size == Ceil(c.counts[c.rank], c.tp)
  IN  FlattenSeq([t \in 1 .. c.tp |-> Shard(c.rank, c.counts[c.rank], c.tp, t, size)])

-----------------------------------------------------------------------------
(* capture: start and rows, tried in this order; an unknown size raises.   *)

Upto(s, k) == FoldSet(LAMBDA d, n : n + s[d], 0, {d \in DOMAIN s : d <= k})
TotalOf(s) == Upto(s, Len(s))
LocalSizes(c) == [d \in DOMAIN c.counts |-> c.tp * c.sizes[d]]

(* Mutant: the shards are taken to hold tokens only.                       *)
ByTokens(c) == Upto(c.counts, c.rank - 1)
ShardStart(c) == Upto(LocalSizes(c), c.rank - 1)

Raises == [start |-> 0, rows |-> <<>>, ok |-> FALSE]
Guess(c, rows) ==
  LET own == c.counts[c.rank]
      n == Len(rows)
      Use(start, s) == [start |-> start, rows |-> s, ok |-> TRUE]
  IN  IF n = TotalOf(c.counts) THEN Use(Upto(c.counts, c.rank) - own, rows)
      ELSE IF n = own THEN Use(0, rows)
      ELSE IF c.sizes # None /\ n = TotalOf(LocalSizes(c)) THEN Use(ShardStart(c), rows)
      ELSE IF c.tp > 1 /\ n = Ceil(own, c.tp) THEN Use(0, Gathered(c))
      ELSE Raises

Write(c, rows) ==
  LET g == Guess(c, rows)
  IN  IF g.ok THEN SubSeq(g.rows, g.start + 1, g.start + c.counts[c.rank]) ELSE <<Padding>>

(* local_sizes is there whenever the shards are gathered, and may be there *)
(* otherwise; every shard of a rank is as long as its longest.             *)
Sizes(counts, tp) ==
  {[d \in DOMAIN counts |-> Ceil(counts[d], tp) + pad] : pad \in 0 .. MaxPad}
Capture(layout) ==
  /\ case = None
  /\ \E dp \in 1 .. MaxDp, tp \in 1 .. MaxTp :
     \E counts \in [1 .. dp -> 0 .. MaxTokens], rank \in 1 .. dp :
     \E sizes \in Sizes(counts, tp) \union {None} :
       LET c == [layout |-> layout, tp |-> tp, counts |-> counts, rank |-> rank, sizes |-> sizes]
       IN  /\ layout = "shards" => sizes # None
           /\ layout = "split" => tp > 1
           /\ case' = c /\ buffer' = Write(c, RowsIn(c))

CaptureNext == \E layout \in {"all", "own", "shards", "split"} : Capture(layout)

-----------------------------------------------------------------------------
(* capture's comments: whatever the layout, the rank keeps exactly its own *)
(* tokens' rows, in order, and none of the padding.                        *)
OwnRows == case # None => buffer = TokensOf(case.rank, case.counts[case.rank])
=============================================================================
