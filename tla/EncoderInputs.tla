--------------------------- MODULE EncoderInputs ----------------------------
(***************************************************************************)
(* Multimodal inputs in the scheduler (v1/core/sched/scheduler.py): which  *)
(* encoder outputs a step computes, how a request stops in front of one    *)
(* that does not fit, when an entry of the encoder cache is released, and  *)
(* the runner's copy of the cache, which follows one step behind.          *)
(*                                                                         *)
(* Requests only prefill; a request is finished with the output of its     *)
(* last chunk, which may arrive after it was preempted.  Blocks may run    *)
(* out at any time.  The encoder cache manager, which keeps unreferenced   *)
(* entries until their room is needed, is external.  Encoder-decoder       *)
(* models, whose inputs all belong to the first token, are left out.       *)
(***************************************************************************)
EXTENDS Integers, Sequences, FiniteSets, FiniteSetsExt, SequencesExt

CONSTANTS
  Requests,       \* in order of arrival and priority
  Prompt,         \* length of each prompt
  Features,       \* of each request: items [start, len, id, emb] in order
  Size,           \* embeddings of each id
  Remote,         \* ids the EC connector has
  Batched,        \* max_num_batched_tokens
  ComputeBudget,  \* encoder_compute_budget
  CacheSize,      \* encoder_cache_size
  Lookahead,      \* num_prefill_lookahead
  ChunkedMm,      \* not disable_chunked_mm_input
  ByPriority,     \* SchedulingPolicy.PRIORITY
  Depth,          \* steps in flight
  MaxPreempt      \* bound on preemptions

(* What the constants may be.                                              *)
EncoderAssumption ==
  /\ Requests \subseteq Nat /\ {Batched, CacheSize, Depth} \subseteq Nat \ {0}
  /\ {ComputeBudget, Lookahead, MaxPreempt} \subseteq Nat /\ {ChunkedMm, ByPriority} \subseteq BOOLEAN

VARIABLES
  future,            \* requests that have not arrived
  running, waiting,  \* requests, in order
  computed, stale,   \* tokens computed or under way; tokens whose output is stale
  cache,             \* encoder cache manager: [refs, freeable, freed]
  pass,              \* schedule() under way; at = 0: none
  steps,             \* scheduled steps the runner has not executed
  ran,               \* executed steps whose output is not processed
  held,              \* runner: ids in its encoder cache
  missed,            \* runner: ids gathered that were not there
  preempted
vars == <<future, running, waiting, computed, stale, cache, pass, steps, ran, held, missed, preempted>>

Ids == {f.id : f \in UNION {ToSet(Features[r]) : r \in Requests}}
Idle == [at |-> 0, tokens |-> 0, budget |-> 0, work |-> <<>>, enc |-> <<>>, victims |-> 0]
NoCache == [refs |-> <<>>, freeable |-> <<>>, freed |-> {}]
Room(ids) == FoldSet(LAMBDA i, sum : Size[i] + sum, 0, ids)

-----------------------------------------------------------------------------
(* The encoder cache manager.  refs: of each entry, the requests that need *)
(* it; freeable: entries nobody needs, oldest first.                       *)
Put(f, x, v) == [y \in DOMAIN f \union {x} |-> IF y = x THEN v ELSE f[y]]
Drop(f, xs) == [y \in DOMAIN f \ xs |-> f[y]]

CheckAndUpdate(m, r, id) ==
  [m EXCEPT !.refs[id] = @ \union {r}, !.freeable = SelectSeq(@, LAMBDA x : x # id)]
Evictions(m, need) ==   \* how many of the oldest freeable entries must go
  Min({k \in 0 .. Len(m.freeable) :
         need <= CacheSize - Room(DOMAIN m.refs) + Room({m.freeable[i] : i \in 1 .. k})})
CanAllocate(m, id, budget, planned) ==
  /\ Size[id] <= budget
  /\ Size[id] + planned <= CacheSize - Room({x \in DOMAIN m.refs : m.refs[x] # {}})
Evicted(m, need) ==
  LET gone == {m.freeable[i] : i \in 1 .. Evictions(m, need)}
  IN  [refs |-> Drop(m.refs, gone), freed |-> m.freed \union gone,
       freeable |-> SubSeq(m.freeable, Evictions(m, need) + 1, Len(m.freeable))]
Allocated(m, r, ids) ==
  [m EXCEPT !.refs = [y \in DOMAIN @ \union ids |->
     IF y \in ids THEN (IF y \in DOMAIN m.refs THEN m.refs[y] ELSE {}) \union {r} ELSE @[y]]]
Released(m, r, ids) ==
  LET mine == {x \in ids : x \in DOMAIN m.refs /\ r \in m.refs[x]}
      last == {x \in mine : m.refs[x] = {r}}
  IN  [m EXCEPT !.refs = [y \in DOMAIN @ |-> IF y \in mine THEN @[y] \ {r} ELSE @[y]],
                !.freeable = @ \o SetToSeq(last)]
ReleasedAll(m, r) == Released(m, r, Ids)

-----------------------------------------------------------------------------
(* _try_schedule_encoder_inputs: plan for tokens from + 1 .. from + n.     *)
(* Mutant: the drafter's look-ahead is not counted.                        *)
WindowNoShift(from, n) == from + n
WindowEnd(from, n) == from + n + Lookahead

(* Where a chunk must end that may not reach the item.                     *)
RolledBack(start, from) ==
  IF start > from + Lookahead THEN start - (from + Lookahead) ELSE 0

InWindow(f, from, end) == f.start + f.len > from /\ f.start < end
Planned(r, from, n, budget, m) ==
  LET end == WindowEnd(from, n)
      start == [m |-> m, n |-> n, budget |-> budget, ask |-> {}, load |-> {}, stop |-> n = 0]
      plan[i \in 0 .. Len(Features[r])] ==
        IF i = 0 THEN start
        ELSE
          LET s == plan[i - 1]
              f == Features[r][i]
              room == Room(s.ask \union s.load)
              m1 == Evicted(s.m, Size[f.id] + room)
          IN  IF s.stop \/ ~InWindow(f, from, end) \/ f.id \in s.ask \union s.load THEN s
              ELSE IF f.id \in DOMAIN s.m.refs THEN [s EXCEPT !.m = CheckAndUpdate(@, r, f.id)]
              ELSE IF \/ ~ChunkedMm /\ from < f.start /\ from + s.n < f.start + f.len
                      \/ ~CanAllocate(s.m, f.id, s.budget, room)
                THEN [s EXCEPT !.n = RolledBack(f.start, from), !.stop = TRUE]
              ELSE IF \A p \in f.emb : p < from \/ p >= end THEN [s EXCEPT !.m = m1]
              ELSE IF f.id \in Remote THEN [s EXCEPT !.m = m1, !.load = @ \union {f.id}]
              ELSE [s EXCEPT !.m = m1, !.ask = @ \union {f.id}, !.budget = @ - Size[f.id]]
  IN  plan[Len(Features[r])]

(* _reserve_prefill_lookahead                                              *)
Reserved(r, from, n) ==
  LET left == Prompt[r] - from - n
      m == IF 0 < left /\ left < Lookahead THEN n - (Lookahead - left) ELSE n
  IN  IF m > 0 THEN m ELSE 0

-----------------------------------------------------------------------------
EncInit ==
  /\ future = Requests /\ running = <<>> /\ waiting = <<>>
  /\ computed = [r \in Requests |-> 0] /\ stale = [r \in Requests |-> 0]
  /\ cache = NoCache /\ pass = Idle /\ steps = <<>> /\ ran = <<>>
  /\ held = {} /\ missed = {} /\ preempted = 0

RunnerVars == <<future, steps, ran, held, missed>>
Scheduling == pass.at > 0

Arrive(r) ==
  /\ r \in future /\ ~Scheduling /\ future' = future \ {r}
  /\ waiting' = IF ByPriority THEN SetToSortSeq(ToSet(waiting) \union {r}, <) ELSE Append(waiting, r)
  /\ UNCHANGED <<running, computed, stale, cache, pass, steps, ran, held, missed, preempted>>

BeginStep ==
  /\ ~Scheduling /\ Len(steps) + Len(ran) < Depth /\ running \o waiting # <<>>
  /\ pass' = [Idle EXCEPT !.at = 1, !.tokens = Batched, !.budget = ComputeBudget]
  /\ UNCHANGED <<running, waiting, computed, stale, cache, preempted, RunnerVars>>

(* The compute budget after a plan.                                        *)
BudgetAfter(p, plan) == IF plan.ask # {} THEN plan.budget ELSE p.budget

(* A request with n > 0 tokens is scheduled.                               *)
WithWork(p, r, from, plan, n) ==
  [p EXCEPT !.tokens = @ - n, !.work = Put(@, r, <<from, n>>),
            !.enc = Put(@, r, [ask |-> plan.ask, load |-> plan.load]),
            !.budget = BudgetAfter(p, plan)]

InRunning == pass.at \in DOMAIN running /\ pass.tokens > 0
Current == running[pass.at]
CurrentPlan ==
  LET r == Current
      n0 == Min({Prompt[r] - computed[r], pass.tokens})
  IN  Planned(r, computed[r], n0, pass.budget, cache)
CurrentTokens == Reserved(Current, computed[Current], CurrentPlan.n)

SkipRunning ==
  /\ InRunning /\ CurrentTokens = 0
  /\ cache' = CurrentPlan.m /\ pass' = [pass EXCEPT !.at = @ + 1]
  /\ UNCHANGED <<running, waiting, computed, stale, preempted, RunnerVars>>

(* The plan is kept while others are preempted for its blocks.             *)
Freed(m, victims) ==
  LET f[i \in 0 .. Len(victims)] == IF i = 0 THEN m ELSE ReleasedAll(f[i - 1], victims[i]) IN f[Len(victims)]

Unflight(r) ==   \* tokens of the request in steps not processed
  LET of(step) == IF r \in DOMAIN step.work THEN step.work[r][2] ELSE 0
  IN  FoldSeq(LAMBDA step, sum : of(step) + sum, 0, steps \o ran)

(* Victims: from the end of running, or the least important ones, which    *)
(* may be scheduled already; up to the request itself, which then ends the *)
(* pass.                                                                   *)
VictimsOf(k) ==
  IF ByPriority
    THEN LET order == SetToSortSeq(ToSet(running), >) IN SubSeq(order, 1, k)
    ELSE LET back == Reverse(running) IN SubSeq(back, 1, k)

ScheduleRunning(k) ==
  LET r == Current
      victims == VictimsOf(k)
      self == r \in ToSet(victims)
      dropped == [pass EXCEPT
        !.work = Drop(@, ToSet(victims)), !.enc = Drop(@, ToSet(victims)), !.victims = @ + k,
        !.tokens = @ + FoldSet(LAMBDA v, sum : pass.work[v][2] + sum, 0, DOMAIN pass.work \intersect ToSet(victims)),
        !.budget = @ + FoldSet(LAMBDA v, sum : Room(pass.enc[v].ask) + sum, 0, DOMAIN pass.enc \intersect ToSet(victims))]
      at == Cardinality({i \in 1 .. pass.at : running[i] \notin ToSet(victims)})
  IN  /\ InRunning /\ CurrentTokens > 0
      /\ preempted + k <= MaxPreempt /\ preempted' = preempted + k
      /\ self => Last(victims) = r
      /\ running' = SelectSeq(running, LAMBDA x : x \notin ToSet(victims))
      /\ waiting' = IF ByPriority THEN SetToSortSeq(ToSet(victims \o waiting), <)
                    ELSE Reverse(victims) \o waiting
      /\ stale' = [x \in Requests |-> IF x \in ToSet(victims) THEN Unflight(x) ELSE stale[x]]
      /\ IF self
           THEN /\ cache' = Freed(CurrentPlan.m, victims)
                /\ pass' = [dropped EXCEPT !.at = Len(running) + 1]
           ELSE /\ cache' = Allocated(Freed(CurrentPlan.m, victims), r, CurrentPlan.ask \union CurrentPlan.load)
                /\ pass' = [WithWork(dropped, r, computed[r], CurrentPlan, CurrentTokens) EXCEPT !.at = at + 1]
      /\ computed' = [x \in Requests |->
           IF x \in ToSet(victims) THEN 0 ELSE computed[x]]
      /\ UNCHANGED RunnerVars

(* Waiting requests, with whatever prefix of theirs is cached.  Blocks may *)
(* be short for it.  Requests with stale output under way are passed over. *)
Ready == SelectSeq(waiting, LAMBDA r : stale[r] = 0)
InWaiting == Scheduling /\ ~InRunning /\ pass.victims = 0 /\ pass.at <= Len(running) + 1
             /\ Ready # <<>> /\ pass.tokens > 0
WaitingOver(r, m) ==
  /\ cache' = m /\ pass' = [pass EXCEPT !.at = Len(running) + 2]
  /\ UNCHANGED <<running, waiting, computed>>

ScheduleWaiting(hit, fits) ==
  LET r == Head(Ready)
      n0 == Min({Prompt[r] - hit, pass.tokens})
      plan == Planned(r, hit, n0, pass.budget, cache)
      n == Reserved(r, hit, plan.n)
  IN  /\ InWaiting /\ hit < Prompt[r]
      /\ IF n = 0 THEN WaitingOver(r, plan.m)
         ELSE IF ~fits THEN running # <<>> /\ WaitingOver(r, ReleasedAll(plan.m, r))
         ELSE /\ running' = Append(running, r) /\ waiting' = SelectSeq(waiting, LAMBDA x : x # r)
              /\ cache' = Allocated(plan.m, r, plan.ask \union plan.load)
              /\ computed' = [computed EXCEPT ![r] = hit]
              /\ pass' = [WithWork(pass, r, hit, plan, n) EXCEPT !.at = Len(running) + 2]
      /\ UNCHANGED <<stale, preempted, RunnerVars>>

(* The output leaves with the ids evicted since the last one.              *)
EndStep ==
  /\ Scheduling /\ ~InRunning /\ ~InWaiting
  /\ steps' = Append(steps, [work |-> pass.work, enc |-> pass.enc, drop |-> cache.freed])
  /\ cache' = [cache EXCEPT !.freed = {}]
  /\ computed' = [r \in Requests |-> IF r \in DOMAIN pass.work THEN computed[r] + pass.work[r][2] ELSE computed[r]]
  /\ pass' = Idle
  /\ UNCHANGED <<future, running, waiting, stale, ran, held, missed, preempted>>

-----------------------------------------------------------------------------
(* The runner: ids dropped, inputs encoded or loaded, embeddings of the    *)
(* tokens and of the drafter's look-ahead gathered.                        *)
Needed(r, w) ==
  {f.id : f \in {g \in ToSet(Features[r]) : \E p \in g.emb : w[1] <= p /\ p < w[1] + w[2] + Lookahead}}
(* free_states, before anything is encoded.                                *)
Kept(step) == held \ step.drop

Execute ==
  /\ steps # <<>>
  /\ LET step == Head(steps)
         now == Kept(step) \union UNION {step.enc[r].ask \union step.enc[r].load : r \in DOMAIN step.enc}
     IN  /\ held' = now
         /\ missed' = missed \union (UNION {Needed(r, step.work[r]) : r \in DOMAIN step.work} \ now)
         /\ ran' = Append(ran, step)
  /\ steps' = Tail(steps)
  /\ UNCHANGED <<future, running, waiting, computed, stale, cache, pass, preempted>>

(* update_from_output, with _free_encoder_inputs.  The stale output of a   *)
(* preempted request is delivered all the same, and may finish it.         *)
Passed(f, r) == f.start + f.len + Lookahead <= computed[r]

Finished(step) ==
  {r \in DOMAIN step.work : step.work[r][1] + step.work[r][2] = Prompt[r]}
Update ==
  /\ ran # <<>> /\ ~Scheduling
  /\ LET step == Head(ran)
         done == Finished(step)
         gone(r) == IF r \in done THEN Ids
                    ELSE {f.id : f \in {g \in ToSet(Features[r]) : Passed(g, r)}}
         order == SetToSortSeq(DOMAIN step.work, <)
         m[i \in 0 .. Len(order)] ==
           IF i = 0 THEN cache ELSE Released(m[i - 1], order[i], gone(order[i]))
     IN  /\ cache' = m[Len(order)]
         /\ running' = SelectSeq(running, LAMBDA x : x \notin done)
         /\ waiting' = SelectSeq(waiting, LAMBDA x : x \notin done)
         /\ stale' = [r \in Requests |-> IF r \in DOMAIN step.work /\ stale[r] > 0
                                           THEN stale[r] - step.work[r][2] ELSE stale[r]]
  /\ ran' = Tail(ran)
  /\ UNCHANGED <<future, computed, pass, steps, held, missed, preempted>>

EncNext ==
  \/ \E r \in Requests : Arrive(r)
  \/ BeginStep \/ SkipRunning \/ EndStep \/ Execute \/ Update
  \/ \E k \in 0 .. Cardinality(Requests) : k <= Len(running) /\ ScheduleRunning(k)
  \/ \E hit \in 0 .. Max({Prompt[r] : r \in Requests}), fits \in BOOLEAN : ScheduleWaiting(hit, fits)

EncSpec == EncInit /\ [][EncNext]_vars
(* The engine loop keeps stepping, and the runner keeps executing.         *)
FairEncSpec == EncSpec /\ WF_vars(EncNext)

-----------------------------------------------------------------------------
(* The runner never gathers an embedding it does not hold ("Encoder cache  *)
(* miss", which takes the engine down): not for the chunk, and not for the *)
(* drafter's look-ahead behind it.                                         *)
NoMiss == missed = {}

(* What the runner holds fits the encoder cache's size, although drops     *)
(* reach it with the next step.                                            *)
RunnerFits == Room(held) <= CacheSize

(* No step encodes more embeddings than the compute budget, whoever was    *)
(* preempted while it was made.                                            *)
BudgetKept ==
  \A i \in DOMAIN steps :
    FoldSet(LAMBDA r, sum : Room(steps[i].enc[r].ask) + sum, 0, DOMAIN steps[i].enc) <= ComputeBudget

(* An entry of the encoder cache is computed, or a step under way computes *)
(* it ("already computed and cached from a previous step").                *)
CachedComputed ==
  \A id \in DOMAIN cache.refs :
    \/ id \in held
    \/ \E i \in DOMAIN steps : \E r \in DOMAIN steps[i].enc : id \in steps[i].enc[r].ask \union steps[i].enc[r].load
    \/ \E r \in DOMAIN pass.enc : id \in pass.enc[r].ask \union pass.enc[r].load

(* Every prompt is computed: requests never wait for room in the encoder   *)
(* cache that only they, or each other, could release.                     *)
AllComputed == <>[](running = <<>> /\ waiting = <<>>)
=============================================================================
