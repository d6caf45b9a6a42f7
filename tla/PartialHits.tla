----------------------------- MODULE PartialHits ----------------------------
(***************************************************************************)
(* Fine-grained prefix hits of a hybrid model: a hit may end inside a      *)
(* block, at a multiple of HashSize tokens.  The block it ends in is       *)
(* shared, so the request goes on in a private copy, which the worker      *)
(* makes before the forward of the step                                    *)
(* (v1/core/single_type_kv_cache_manager.py: FullAttentionManager and      *)
(* align-mode MambaManager; v1/core/sched/scheduler.py; the worker's       *)
(* update_requests).                                                       *)
(*                                                                         *)
(* One attention and one recurrent group share the pool.  A prefix is      *)
(* named by its owner and length; the first Common tokens of all prompts   *)
(* agree.  No drafts, one step in flight.                                  *)
(***************************************************************************)
EXTENDS MambaManager, FiniteSets, FiniteSetsExt, SequencesExt

CONSTANTS HashSize, Requests, NumBlocks, MaxBatched, Prompt, Common, MaxNew, MaxPreempt

(* What the constants may be.                                              *)
PartialAssumption ==
  /\ HashSize \in Nat \ {0} /\ BlockSize % HashSize = 0 /\ NumSpec = 0
  /\ {NumBlocks, MaxBatched, MaxNew} \subseteq Nat \ {0} /\ {Common, MaxPreempt} \subseteq Nat
  /\ Null = 0 /\ Prompt \in [Requests -> Nat \ {0}]

Hits == INSTANCE PrefixHits WITH BlockSize <- BlockSize, Window <- 2, ChunkSize <- BlockSize

VARIABLES
  pool,     \* references and hashes of each block, the free queue
  content,  \* what each block holds: keys by position, or a state
  phase, running, cursor, budget, step, preempted,
  req, attn, rec,   \* request, req_to_blocks etc. of the two groups
  fresh,            \* cached_blocks_this_step
  copies, zero      \* of this pass: _pending_cow_copies, new_block_ids

partialVars == <<pool, content, phase, running, cursor, budget, step, preempted, req, attn, rec,
                 fresh, copies, zero>>
passVars == <<phase, running, cursor, budget, step, preempted>>

Blocks == 1 .. NumBlocks
Place(t) == ((t - 1) % BlockSize) + 1   \* where in its block token t is
Key(r, n) == [of |-> IF n <= Common THEN Null ELSE r, at |-> n]
Nothing == [of |-> Null, at |-> 0]
Blank == [kv |-> [i \in 1 .. BlockSize |-> Nothing], state |-> Nothing]

NewReq == [status |-> "new", tokens |-> 0, computed |-> 0, preempts |-> 0]
NoAttn == [blocks |-> <<>>, cached |-> 0]
NoRec == [blocks |-> <<>>, cached |-> 0, sweep |-> 0, allocated |-> FALSE, tail |-> Null]

PartialInit ==
  /\ pool = [ref |-> [b \in Blocks |-> 0], attn |-> <<>>, rec |-> <<>>,
             free |-> [i \in Blocks |-> i]]
  /\ content = [b \in Blocks |-> Blank]
  /\ phase = "idle" /\ running = <<>> /\ cursor = 1 /\ budget = MaxBatched
  /\ step = <<>> /\ preempted = FALSE
  /\ req = [r \in Requests |-> [NewReq EXCEPT !.tokens = Prompt[r]]]
  /\ attn = [r \in Requests |-> NoAttn] /\ rec = [r \in Requests |-> NoRec]
  /\ fresh = {} /\ copies = <<>> /\ zero = {}

-----------------------------------------------------------------------------
(* The block pool: a queue of the blocks no one holds, and per group what  *)
(* is cached, oldest first; a block keeps its hashes until it is taken.    *)
Entry(k, b) == [key |-> k, block |-> b]
Evict(entries, S) == SelectSeq(entries, LAMBDA e : e.block \notin S)
Taken(p, n) == SubSeq(p.free, 1, n)
TakeOut(p, n) ==
  LET taken == ToSet(Taken(p, n))
  IN  [ref  |-> [b \in Blocks |-> IF b \in taken THEN 1 ELSE p.ref[b]],
       attn |-> Evict(p.attn, taken), rec |-> Evict(p.rec, taken),
       free |-> SubSeq(p.free, n + 1, Len(p.free))]
Hold(p, S) ==
  [p EXCEPT !.ref = [b \in Blocks |-> IF b \in S THEN @[b] + 1 ELSE @[b]],
            !.free = SelectSeq(@, LAMBDA b : b \notin S)]
(* One reference per entry; a block is queued when its last one goes.      *)
GiveBack(p, blocks) ==
  LET times(b) == Cardinality({i \in DOMAIN blocks : blocks[i] = b})
      left == [b \in Blocks |-> p.ref[b] - times(b)]
      last(i) == blocks[i] # Null /\ left[blocks[i]] = 0
                   /\ \A j \in DOMAIN blocks : blocks[j] = blocks[i] => j <= i
      gone == SelectSeq([i \in DOMAIN blocks |-> IF last(i) THEN blocks[i] ELSE Null],
                        LAMBDA b : b # Null)
  IN  [p EXCEPT !.ref = left, !.free = @ \o gone]

(* A lookup finds the oldest of several blocks with the same hash.         *)
Keys(entries) == {entries[i].key : i \in DOMAIN entries}
Cached(entries, r) == {n \in 1 .. req[r].tokens : Key(r, n) \in Keys(entries)}
BlockOf(entries, k) == SelectSeq(entries, LAMBDA e : e.key = k)[1].block

-----------------------------------------------------------------------------
(* _mamba_block_aligned_split with the stop at the prompt's last hash      *)
(* boundary.                                                               *)
LastHash(r) == Prompt[r] - (Prompt[r] % HashSize)
TailStop(r) == LastHash(r)

Split(r, start, n) ==
  LET prefillEnd == Larger(Prompt[r], req[r].tokens - 1)
      last    == Floor(req[r].tokens)
      aligned == Floor(start + n)
      end == IF /\ start + n < prefillEnd
                /\ aligned > start \/ BlockSize <= MaxBatched
               THEN aligned ELSE start + n
      stops == {s \in {IF start % BlockSize # 0 THEN Floor(start) + BlockSize ELSE 0, last,
                       IF last < TailStop(r) /\ TailStop(r) < Prompt[r] THEN TailStop(r) ELSE 0} :
                  start < s /\ s < end}
  IN  IF start >= prefillEnd THEN n
      ELSE Larger((IF stops = {} THEN end ELSE Min(stops)) - start, 0)

NewTokens(r) == Split(r, req[r].computed, Smaller(req[r].tokens - req[r].computed, budget))

-----------------------------------------------------------------------------
(* cache_blocks of both groups, for `n' tokens.                            *)

(* A group's entries once block blocks[i] got the keys new[i].             *)
WithKeys(entries, blocks, new) ==
  LET added == UNION {{Entry(k, blocks[i]) : k \in new[i]} : i \in DOMAIN new}
  IN  entries \o SetToSeq(added \ Range(entries))

(* The attention group: full blocks, and the prompt's tail once its last   *)
(* hash boundary is behind.                                                *)
AttnKeys(r, a, n) ==
  [i \in DOMAIN a.blocks |->
     {Key(r, i * BlockSize) : x \in {y \in {i} : y > a.cached /\ y * BlockSize <= n}}
       \union {Key(r, LastHash(r)) : x \in {y \in {LastHash(r)} :
                  y > 0 /\ y <= n /\ y % BlockSize # 0 /\ y \div BlockSize + 1 = i}}]

(* The recurrent group: the states at full blocks, and the one at the      *)
(* prompt's last hash boundary if the step ends exactly there.             *)
EndsInTail(r, n) == n % BlockSize # 0 /\ n = LastHash(r)
RecKeys(r, m, n) ==
  [i \in DOMAIN m.blocks |->
     IF m.blocks[i] = Null THEN {}
     ELSE {Key(r, i * BlockSize) : x \in {y \in {i} : y > m.cached /\ y * BlockSize <= n}}
            \union {Key(r, n) : x \in {y \in {n} : EndsInTail(r, y) /\ y \div BlockSize + 1 = i}}]

Registered(p, r, a, m, n) ==
  [ref |-> p.ref, free |-> p.free,
   attn |-> WithKeys(p.attn, a.blocks, AttnKeys(r, a, n)),
   rec |-> WithKeys(p.rec, m.blocks, RecKeys(r, m, n))]

(* A request that registered its tail is copied from in its next step.     *)
(* Mutant: it goes on in the block it registered.                          *)
NoTail(m, r, n) == Null
TailBlock(m, r, n) == IF EndsInTail(r, n) THEN m.blocks[n \div BlockSize + 1] ELSE Null
RecCached(r, m, n) ==
  [m EXCEPT !.tail = TailBlock(m, r, n),
            !.cached = IF EndsInTail(r, n) THEN n \div BlockSize ELSE Larger(@, n \div BlockSize)]
AttnCached(a, n) == [a EXCEPT !.cached = Larger(@, n \div BlockSize)]

-----------------------------------------------------------------------------
StartPass ==
  /\ phase = "idle" /\ \E r \in Requests : req[r].status \notin {"new", "finished"}
  /\ phase' = "running" /\ cursor' = 1 /\ budget' = MaxBatched /\ step' = <<>>
  /\ preempted' = FALSE /\ fresh' = {}
  /\ UNCHANGED <<pool, content, running, req, attn, rec, copies, zero>>

InLoop == phase = "running" /\ cursor <= Len(running) /\ budget > 0
Current == running[cursor]
Skip ==
  /\ InLoop /\ NewTokens(Current) = 0 /\ cursor' = cursor + 1
  /\ UNCHANGED <<pool, content, phase, running, budget, step, preempted, req, attn, rec, fresh,
                 copies, zero>>

(* allocate_slots of a running request: states no longer read are swept,   *)
(* the estimate of both groups is compared with the free blocks.           *)
SweptList(r) ==
  LET m == rec[r]
      gone == Swept(m.blocks, m.sweep, req[r].computed)
  IN  SelectSeq([i \in DOMAIN m.blocks |-> IF i \in gone THEN m.blocks[i] ELSE Null],
                LAMBDA b : b # Null)
SweptPool(r) == GiveBack(pool, SweptList(r))
SweptRec(r) ==
  LET m == rec[r]
  IN  [m EXCEPT !.blocks = NullOut(@, Swept(@, m.sweep, req[r].computed)),
                !.sweep = SweepEnd(m.blocks, @, req[r].computed)]

AttnNew(a, total) == Larger(Cdiv(total) - Len(a.blocks), 0)
RecNew(m, total) == Larger(NumNew(m.blocks, total, m.allocated), 0)

(* Mutant: the block for the copy is not counted.                          *)
NoCopyBlock(m, total) == Larger(Estimate(m.blocks, total, m.allocated), 0)
RecEstimate(m, total) ==
  IF m.tail # Null THEN 2 ELSE Larger(Estimate(m.blocks, total, m.allocated), 0)

Fits(p, n) == n <= Len(p.free)
CurrentFits ==
  LET r == Current
      total == req[r].computed + NewTokens(r)
  IN  Fits(SweptPool(r), AttnNew(attn[r], total) + RecEstimate(SweptRec(r), total))

(* The running request stays in the block it registered; the hash moves to *)
(* the copy (move_block_hashes).  Mutant: the hash stays.                  *)
HashStays(p, src, dst) == p
MovedHash(p, src, dst) ==
  [p EXCEPT !.rec = [i \in DOMAIN @ |-> IF @[i].block = src THEN Entry(@[i].key, dst) ELSE @[i]],
            !.ref = [@ EXCEPT ![src] = @ + 1]]

Grow ==
  /\ InLoop /\ NewTokens(Current) > 0 /\ CurrentFits
  /\ LET r == Current
         total == req[r].computed + NewTokens(r)
         n == Smaller(total, req[r].tokens)
         p0 == SweptPool(r)
         kA == AttnNew(attn[r], total)
         a == [attn[r] EXCEPT !.blocks = @ \o Taken(p0, kA)]
         p1 == TakeOut(p0, kA)
         m0 == SweptRec(r)
         k == IF m0.tail = Null THEN 0 ELSE 1
         new == Taken(p1, k + RecNew(m0, total))
         p2 == TakeOut(p1, Len(new))
         p3 == IF k = 0 THEN p2 ELSE MovedHash(p2, m0.tail, new[1])
         m == [m0 EXCEPT !.tail = Null, !.allocated = TRUE,
                         !.blocks = Allocated(@, total, TRUE, SubSeq(new, k + 1, Len(new)))]
     IN  /\ attn' = [attn EXCEPT ![r] = AttnCached(a, n)]
         /\ rec' = [rec EXCEPT ![r] = RecCached(r, m, n)]
         /\ pool' = Registered(p3, r, a, m, n)
         /\ fresh' = fresh \union UNION Range(RecKeys(r, m, n))
                       \union (IF k = 0 THEN {} ELSE {e.key : e \in {x \in Range(p3.rec) : x.block = new[1]}})
         /\ copies' = (IF k = 0 THEN copies ELSE Append(copies, <<m0.tail, new[1]>>))
         /\ zero' = zero \union ToSet(Taken(p0, kA))
         /\ step' = [s \in DOMAIN step \union {r} |-> IF s = r THEN NewTokens(r) ELSE step[s]]
  /\ budget' = budget - NewTokens(Current) /\ cursor' = cursor + 1
  /\ UNCHANGED <<content, phase, running, preempted, req>>

(* _preempt_request, _free_request_blocks: the tail's registration is      *)
(* forgotten, its hash is not.                                             *)
FreedPool(p, r, m) == GiveBack(p, Reverse(attn[r].blocks) \o Reverse(m.blocks))
PreemptLast ==
  /\ InLoop /\ NewTokens(Current) > 0 /\ ~CurrentFits
  /\ LET r == Current
         victim == running[Len(running)]
         m == IF victim = r THEN SweptRec(r) ELSE rec[victim]
     IN  /\ req[victim].preempts < MaxPreempt
         /\ pool' = FreedPool(SweptPool(r), victim, m)
         /\ rec' = [rec EXCEPT ![r] = SweptRec(r), ![victim] = NoRec]
         /\ attn' = [attn EXCEPT ![victim] = NoAttn]
         /\ req' = [req EXCEPT ![victim] =
                      [@ EXCEPT !.status = "preempted", !.computed = 0, !.preempts = @ + 1]]
  /\ running' = SubSeq(running, 1, Len(running) - 1) /\ preempted' = TRUE
  /\ UNCHANGED <<content, phase, cursor, budget, step, fresh, copies, zero>>

EndRunning ==
  /\ phase = "running" /\ ~InLoop
  /\ phase' = IF preempted THEN "dispatch" ELSE "waiting"
  /\ UNCHANGED <<pool, content, running, cursor, budget, step, preempted, req, attn, rec, fresh,
                 copies, zero>>

-----------------------------------------------------------------------------
(* Admission with the longest hit both groups have.                        *)
CommonHit(r) ==
  LET attnSet == Cached(pool.attn, r)
      recSet  == Cached(pool.rec, r)
      common[n \in 0 .. req[r].tokens] ==
        LET byAttn == Hits!FullHit(attnSet, n, HashSize, FALSE).length
            byRec  == Hits!MambaHit(recSet, byAttn, HashSize).length
        IN  IF byRec = n THEN n ELSE common[byRec]
  IN  common[req[r].tokens - 1]

(* The blocks of a hit of n tokens, the last one holding its tail.         *)
HitAttn(r, n) ==
  [i \in 1 .. Cdiv(n) |->
     LET end == IF i * BlockSize <= n THEN i * BlockSize ELSE n
     IN  BlockOf(pool.attn, Key(r, end))]
HitRec(r, n) == [i \in 1 .. Cdiv(n) |-> IF i = Cdiv(n) THEN BlockOf(pool.rec, Key(r, n)) ELSE Null]

(* A state cached in this pass is not there yet.  Mutant: it is used.      *)
AnyState(r, n) == TRUE
StateThere(r, n) == Key(r, n) \notin fresh

Copied(n) == n % BlockSize # 0
AdmitTokens(r, n) == Split(r, n, Smaller(req[r].tokens - n, budget))
Evictable(S) == Cardinality({b \in S : pool.ref[b] = 0})

(* Blocks the two groups ask for.                                          *)
AdmitEstimate(r, n) ==
  LET total == n + AdmitTokens(r, n)
      extra == IF Copied(n) THEN 1 ELSE 0
      hitA == ToSet(HitAttn(r, n))
      hitR == ToSet(HitRec(r, n)) \ {Null}
      recNew == Larger(Cdiv(total) - Cdiv(n), 0) + extra
  IN  Larger(Cdiv(total) - Cdiv(n), 0) + extra + Evictable(hitA)
        + (IF recNew > 0 THEN 1 + extra ELSE 0) + Evictable(hitR)

Admissible(r) ==
  LET n == CommonHit(r)
  IN  /\ req[r].status \in {"waiting", "preempted"} /\ budget > 0
      /\ StateThere(r, n) /\ AdmitTokens(r, n) > 0 /\ Fits(pool, AdmitEstimate(r, n))

(* The shared tail is exchanged for a private copy; both keep a reference  *)
(* until the pass is over (_apply_cow).  Mutant: only the source does.     *)
NotRetained(p, dst) == p
Redirected(p, dst) == [p EXCEPT !.ref = [@ EXCEPT ![dst] = @ + 1]]

(* The groups take the blocks of the hit, then new ones, in turn; each     *)
(* pool is bound, as every name of it is an evaluation.                    *)
AdmitHit(r, n0, total, hitA, hitR) ==
  \E p0 \in {Hold(Hold(pool, ToSet(hitA)), ToSet(hitR) \ {Null})} :
    LET at == Len(hitA)
        k == IF Copied(n0) THEN 1 ELSE 0
        n == Smaller(total, req[r].tokens)
        newA == Taken(p0, k + Larger(Cdiv(total) - at, 0))
        listA == IF k = 0 THEN hitA ELSE [hitA EXCEPT ![at] = newA[1]]
        a == [blocks |-> listA \o SubSeq(newA, k + 1, Len(newA)), cached |-> n0 \div BlockSize]
    IN  \E p1 \in {TakeOut(p0, Len(newA))} :
          LET newR == Taken(p1, k + NumNew(hitR, total, FALSE))
              listR == IF k = 0 THEN hitR ELSE [hitR EXCEPT ![at] = newR[1]]
              new == SubSeq(newR, k + 1, Len(newR))
              m == [NoRec EXCEPT !.blocks = Allocated(listR, total, FALSE, new),
                                 !.cached = n0 \div BlockSize, !.allocated = TRUE]
          IN  \E p2 \in {TakeOut(p1, Len(newR))} :
                LET p3 == IF k = 0 THEN p2 ELSE Redirected(Redirected(p2, newA[1]), newR[1])
                IN  /\ attn' = [attn EXCEPT ![r] = AttnCached(a, n)]
                    /\ rec' = [rec EXCEPT ![r] = RecCached(r, m, n)]
                    /\ pool' = Registered(p3, r, a, m, n)
                    /\ fresh' = fresh \union UNION Range(RecKeys(r, m, n))
                    /\ zero' = zero \union ToSet(newA)
                    /\ copies' = (IF k = 0 THEN copies
                                  ELSE copies \o <<<<hitA[at], newA[1]>>, <<hitR[at], newR[1]>>>>)

Admit(r) ==
  /\ phase = "waiting" /\ Admissible(r)
  /\ \E n0 \in {CommonHit(r)} : \E total \in {n0 + AdmitTokens(r, n0)} :
       /\ AdmitHit(r, n0, total, HitAttn(r, n0), HitRec(r, n0))
       /\ step' = [s \in DOMAIN step \union {r} |-> IF s = r THEN total - n0 ELSE step[s]]
       /\ budget' = budget - (total - n0)
       /\ req' = [req EXCEPT ![r].status = "running", ![r].computed = n0]
  /\ running' = Append(running, r)
  /\ UNCHANGED <<content, phase, cursor, preempted>>

(* End of the pass: the copies go to the worker, the blocks kept for them  *)
(* are given back.                                                         *)
EndPass ==
  /\ \/ phase = "dispatch"
     \/ phase = "waiting" /\ (running # <<>> \/ \A r \in Requests : ~Admissible(r))
  /\ pool' = GiveBack(GiveBack(pool, [i \in DOMAIN copies |-> copies[i][1]]),
                      [i \in DOMAIN copies |-> copies[i][2]])
  /\ phase' = "execute" /\ preempted' = FALSE
  /\ UNCHANGED <<content, running, cursor, budget, step, req, attn, rec, fresh, copies, zero>>

-----------------------------------------------------------------------------
(* The worker: new blocks are zeroed, then the copies made, then the       *)
(* forward runs (update_requests, execute_model).  Mutant: copies first.   *)
Zeroed(mem) == [b \in Blocks |-> IF b \in zero THEN Blank ELSE mem[b]]
Cloned(mem) ==
  [b \in Blocks |->
     IF \E i \in DOMAIN copies : copies[i][2] = b
       THEN mem[copies[CHOOSE i \in DOMAIN copies : copies[i][2] = b][1]]
     ELSE mem[b]]
CopiedFirst(mem) == Zeroed(Cloned(mem))
Prepared(mem) == Cloned(Zeroed(mem))

AttnReads(mem, r) ==
  \A t \in 1 .. req[r].computed :
    mem[attn[r].blocks[Cdiv(t)]].kv[Place(t)] = Key(r, t)
RecReads(mem, r) ==
  req[r].computed > 0 =>
    LET b == rec[r].blocks[Cdiv(req[r].computed)]
    IN  b # Null /\ mem[b].state = Key(r, req[r].computed)

Written(mem, r) ==
  LET end == req[r].computed + step[r]
      ts(b) == {t \in req[r].computed + 1 .. end : attn[r].blocks[Cdiv(t)] = b}
  IN  [b \in Blocks |->
         IF rec[r].blocks[Cdiv(end)] = b
           THEN [Blank EXCEPT !.state = IF RecReads(mem, r) THEN Key(r, end) ELSE Nothing]
         ELSE IF ts(b) # {}
           THEN [kv |-> [i \in 1 .. BlockSize |->
                           IF \E t \in ts(b) : Place(t) = i
                             THEN Key(r, CHOOSE t \in ts(b) : Place(t) = i)
                           ELSE mem[b].kv[i]],
                 state |-> Nothing]
         ELSE mem[b]]

Execute ==
  /\ phase = "execute"
  /\ LET mem == Prepared(content)
     IN  content' = [b \in Blocks |->
           IF \E r \in DOMAIN step : Written(mem, r)[b] # mem[b]
             THEN Written(mem, CHOOSE r \in DOMAIN step : Written(mem, r)[b] # mem[b])[b]
           ELSE mem[b]]
  /\ copies' = <<>> /\ zero' = {} /\ phase' = "update"
  /\ UNCHANGED <<pool, running, cursor, budget, step, preempted, req, attn, rec, fresh>>

(* update_from_output: a request past its known tokens got one more; one   *)
(* that has them all is finished.                                          *)
After(r) ==
  LET end == req[r].computed + step[r]
  IN  [req[r] EXCEPT !.computed = end, !.tokens = IF end = @ THEN @ + 1 ELSE @]
Finishes(r) == After(r).tokens = Prompt[r] + MaxNew
Update ==
  /\ phase = "update"
  /\ LET done == {r \in DOMAIN step : Finishes(r)}
         order == SelectSeq(running, LAMBDA r : r \in done)
         freed[i \in 0 .. Len(order)] ==
           IF i = 0 THEN pool ELSE FreedPool(freed[i - 1], order[i], rec[order[i]])
     IN  /\ pool' = freed[Len(order)]
         /\ req' = [r \in Requests |-> IF r \in done THEN [After(r) EXCEPT !.status = "finished"]
                                       ELSE IF r \in DOMAIN step THEN After(r) ELSE req[r]]
         /\ attn' = [r \in Requests |-> IF r \in done THEN NoAttn ELSE attn[r]]
         /\ rec' = [r \in Requests |-> IF r \in done THEN NoRec ELSE rec[r]]
         /\ running' = SelectSeq(running, LAMBDA r : r \notin done)
  /\ step' = <<>> /\ phase' = "idle"
  /\ UNCHANGED <<content, cursor, budget, preempted, fresh, copies, zero>>

Arrive(r) ==
  /\ phase = "idle" /\ req[r].status = "new"
  /\ req' = [req EXCEPT ![r].status = "waiting"]
  /\ UNCHANGED <<pool, content, passVars, attn, rec, fresh, copies, zero>>

Abort(r) ==
  /\ phase = "idle" /\ req[r].status \in {"waiting", "running", "preempted"}
  /\ pool' = FreedPool(pool, r, rec[r])
  /\ req' = [req EXCEPT ![r].status = "finished"]
  /\ attn' = [attn EXCEPT ![r] = NoAttn] /\ rec' = [rec EXCEPT ![r] = NoRec]
  /\ running' = SelectSeq(running, LAMBDA s : s # r)
  /\ UNCHANGED <<content, phase, cursor, budget, step, preempted, fresh, copies, zero>>

PartialNext ==
  \/ StartPass \/ Skip \/ Grow \/ PreemptLast \/ EndRunning \/ EndPass \/ Execute \/ Update
  \/ \E r \in Requests : Arrive(r) \/ Admit(r) \/ Abort(r)
PartialSpec == PartialInit /\ [][PartialNext]_partialVars

-----------------------------------------------------------------------------
(* References count the lists, and in a pass the queued copies, that hold  *)
(* a block; the free queue has exactly the others, none twice.             *)
Holds(b) ==
  Cardinality({<<r, i>> \in Requests \X (1 .. NumBlocks) :
                 i \in DOMAIN attn[r].blocks /\ attn[r].blocks[i] = b})
    + Cardinality({<<r, i>> \in Requests \X (1 .. NumBlocks) :
                     i \in DOMAIN rec[r].blocks /\ rec[r].blocks[i] = b})
    + (IF phase \in {"running", "waiting", "dispatch"}
         THEN Cardinality({<<i, j>> \in (DOMAIN copies) \X {1, 2} : copies[i][j] = b}) ELSE 0)
RefsExact ==
  /\ \A b \in Blocks : pool.ref[b] = Holds(b)
  /\ \A b \in Blocks : Cardinality({i \in DOMAIN pool.free : pool.free[i] = b})
                         = (IF pool.ref[b] = 0 THEN 1 ELSE 0)

(* After zeroing and copying, every request of the step finds its keys and *)
(* its state, in blocks of its own or shared ones                          *)
(* (update_requests: "after zeroing new blocks and before the forward").   *)
ReadsExact ==
  phase = "execute" =>
    LET mem == Prepared(content)
    IN  \A r \in DOMAIN step : AttnReads(mem, r) /\ RecReads(mem, r)

(* Between passes a hash finds the tokens, or the state, it stands for: no *)
(* request writes on in a block others may still hit                       *)
(* (_cache_partial_tail_block, allocate_new_blocks: "before forward        *)
(* overwrites source_block").                                              *)
KeyHolds(b, k) ==
  \A t \in ((k.at - 1) \div BlockSize) * BlockSize + 1 .. k.at :
    content[b].kv[Place(t)] = Key(k.of, t)
HashesExact ==
  phase = "idle" =>
    /\ \A i \in DOMAIN pool.attn : KeyHolds(pool.attn[i].block, pool.attn[i].key)
    /\ \A i \in DOMAIN pool.rec : content[pool.rec[i].block].state = pool.rec[i].key

(* Allocation gets the blocks the estimate reserved                        *)
(* (get_num_blocks_to_allocate: "Reserve the extra block").                *)
EstimateSuffices ==
  /\ InLoop /\ NewTokens(Current) > 0 =>
       LET r == Current
           total == req[r].computed + NewTokens(r)
           m == SweptRec(r)
       IN  (IF m.tail = Null THEN 0 ELSE 1) + RecNew(m, total) <= RecEstimate(m, total)
  /\ phase = "waiting" =>
       \A r \in {s \in Requests : req[s].status \in {"waiting", "preempted"}} :
         LET n == CommonHit(r)
             total == n + AdmitTokens(r, n)
             k == IF Copied(n) THEN 1 ELSE 0
         IN  AdmitTokens(r, n) > 0 =>
               2 * k + Larger(Cdiv(total) - Cdiv(n), 0) + NumNew(HitRec(r, n), total, FALSE)
                 + Evictable(ToSet(HitAttn(r, n)) \union (ToSet(HitRec(r, n)) \ {Null}))
                 <= AdmitEstimate(r, n)
=============================================================================
