---------------------------- MODULE WindowBlocks ----------------------------
(***************************************************************************)
(* The block lists of one request in the attention groups that give blocks *)
(* back while it runs: sliding window, chunked local attention, reference  *)
(* sliding window and the one-block ring, beside full attention            *)
(* (v1/core/single_type_kv_cache_manager.py).                              *)
(*                                                                         *)
(* Steps overlap and drafts of a step in flight may be rejected later, so  *)
(* the count the scheduler has reached runs ahead of what is processed.    *)
(* A list entry is 1 for a block and 0 for the null block; the pool is     *)
(* left open: an allocation that needs a block may fail, and the request   *)
(* be preempted.  Hits end on block boundaries; those that end inside a    *)
(* block, and the copies they take, are in PartialHits.                    *)
(***************************************************************************)
EXTENDS Integers, Sequences, FiniteSets, FiniteSetsExt, SequencesExt

CONSTANTS
  Groups,      \* kinds of the groups
  BlockSize, Window, Extra, ChunkSize, RswaWindow,
  Prompt, MaxLen, NumSpec, MaxBatched,
  Lookahead,   \* num_lookahead_tokens: slots for the drafter's tokens
  Depth,       \* steps in flight
  MaxInFlight, \* max_in_flight_tokens
  Hits         \* [local, external]: tokens found in the cache, by a connector

(* What the constants may be.                                              *)
WindowAssumption ==
  /\ Groups \subseteq {"full", "window", "chunk", "rswa", "ring"}
  /\ {BlockSize, ChunkSize, RswaWindow, Prompt, MaxBatched, Depth} \subseteq Nat \ {0}
  /\ Window > 1 /\ {Extra, NumSpec, Lookahead} \subseteq Nat /\ ChunkSize % BlockSize = 0
  /\ MaxLen > Prompt /\ MaxInFlight >= Depth * MaxBatched /\ MaxBatched > NumSpec
  /\ \A h \in Hits : h.local % BlockSize = 0 /\ h.local + h.external < Prompt

VARIABLES
  lists,    \* req_to_blocks of each group
  computed, \* num_computed_tokens
  steps,    \* [tokens, drafts] of each step in flight
  hit,      \* of the last admission
  reserved  \* what the last admission set aside for the prompt
windowVars == <<lists, computed, steps, hit, reserved>>

Cdiv(n) == (n + BlockSize - 1) \div BlockSize
Smaller(a, b) == IF a <= b THEN a ELSE b
Larger(a, b) == IF a >= b THEN a ELSE b
Count(list) == Cardinality({i \in DOMAIN list : list[i] = 1})
Entries(v, n) == [i \in 1 .. n |-> v]
NoHit == [local |-> -1, external |-> 0]
Waiting == hit = NoHit

WindowInit ==
  /\ lists = [g \in Groups |-> <<>>] /\ computed = 0 /\ steps = <<>>
  /\ hit = NoHit /\ reserved = [g \in Groups |-> 0]

InFlight == FoldSeq(LAMBDA s, n : s.tokens + n, 0, steps)
Processed == Larger(0, computed - InFlight)

-----------------------------------------------------------------------------
(* get_num_skipped_tokens: tokens the next one does not attend to.         *)
Skipped(g, n) ==
  CASE g = "window" -> Larger(0, n - Window + 1 - Extra)
    [] g = "chunk"  -> (n \div ChunkSize) * ChunkSize
    [] OTHER        -> 0

(* _remove_blocks_in_range: backwards up to the first null block.  Mutant: *)
(* forwards, so that the blocks nulled before stop the next sweep.         *)
NulledForward(list, first, last) ==
  [i \in DOMAIN list |->
     IF first < i /\ i <= last /\ \A j \in first + 1 .. i : list[j] = 1 THEN 0 ELSE list[i]]
Nulled(list, first, last) ==
  [i \in DOMAIN list |->
     IF /\ first < i /\ i <= last
        /\ \A j \in i .. Smaller(last, Len(list)) : list[j] = 1
       THEN 0 ELSE list[i]]

(* RSWAManager.remove_skipped_blocks: the gap between the prompt and the   *)
(* reference window is given back.                                         *)
GapReleased(list, n) ==
  Nulled(list, Cdiv(Prompt), Larger(Prompt, n - RswaWindow) \div BlockSize)

(* remove_skipped_blocks of the other managers.                            *)
Released(g, list, n) ==
  IF g = "rswa" THEN GapReleased(list, n)
  ELSE Nulled(list, 0, Smaller(Skipped(g, n) \div BlockSize, Len(list)))

(* Only what is processed is safe to free.  Mutant: what is scheduled.     *)
Reached == computed
Settled == Processed

(* Slots are needed for the tokens scheduled and the drafter's lookahead.  *)
Slots(tokens) == Smaller(tokens + Lookahead, MaxLen)

(* get_num_blocks_to_allocate of a request that has blocks: the length of  *)
(* the list counts, null entries included.                                 *)
Missing(g, list, tokens) ==
  IF g = "ring" THEN IF list = <<>> THEN 1 ELSE 0
  ELSE Larger(Cdiv(tokens) - Len(list), 0)

(* allocate_new_blocks.                                                    *)
Extended(g, list, tokens) == list \o Entries(1, Missing(g, list, tokens))

-----------------------------------------------------------------------------
(* Admission.  The blocks of a local hit: those the group attends to.      *)
Cache == INSTANCE PrefixHits
  WITH BlockSize <- BlockSize, Window <- Window, ChunkSize <- ChunkSize
KindOf(g) == IF g = "rswa" THEN "full" ELSE g
HitList(g, n) ==
  IF g = "ring" THEN <<>>
  ELSE [i \in 1 .. Cdiv(n) |-> IF i - 1 \in Cache!Needed(KindOf(g), n) THEN 1 ELSE 0]

(* add_local_computed_blocks, then allocate_external_computed_blocks.      *)
WithLocal(g, h) ==
  LET n == Skipped(g, h.local + h.external) \div BlockSize
  IN  IF g = "ring" THEN <<>>
      ELSE Entries(0, n) \o SubSeq(HitList(g, h.local), n + 1, Cdiv(h.local))
WithExternal(g, h) ==
  LET total == h.local + h.external
      wanted == Smaller(total - Skipped(g, total), h.external)
  IN  IF g = "ring" THEN <<1>>
      ELSE IF wanted <= 0 THEN WithLocal(g, h)
      ELSE Extended(g, WithLocal(g, h), total)
Admitted(g, h, tokens) == Extended(g, WithExternal(g, h), Slots(tokens))

(* The most a request holds at a time, by which the pool is sized          *)
(* (max_admission_blocks_per_request).                                     *)
Cap(g) ==
  CASE g = "window" -> Cdiv(Smaller(Window - 1 + Extra + MaxInFlight, MaxLen)) + 1
    [] g = "chunk"  -> Cdiv(Smaller(ChunkSize + MaxInFlight, MaxLen))
    [] OTHER        -> Cdiv(MaxLen)

(* get_num_blocks_to_allocate of a new request.  Mutant: the hit's blocks  *)
(* that are skipped count as taken.                                        *)
AllEvictable(g, h) == Count(HitList(g, h.local))
Evictable(g, h) ==
  Count(SubSeq(HitList(g, h.local), 1 + Skipped(g, h.local + h.external) \div BlockSize,
               Cdiv(h.local)))
Estimate(g, h, tokens, capped) ==
  LET required == IF capped THEN Smaller(Cdiv(tokens), Cap(g)) ELSE Cdiv(tokens)
      skipped == Skipped(g, h.local + h.external) \div BlockSize
  IN  IF g = "ring" THEN 1
      ELSE Larger(required - Larger(skipped, Cdiv(h.local)), 0) + Evictable(g, h)

Admit(h, n) ==
  /\ Waiting
  /\ LET total == h.local + h.external
     IN  /\ n <= Smaller(Prompt - total, MaxBatched)
         /\ lists' = [g \in Groups |-> Admitted(g, h, total + n)]
         /\ computed' = total + n
         /\ reserved' = [g \in Groups |-> Estimate(g, h, Prompt, TRUE)]
  /\ steps' = <<[tokens |-> n, drafts |-> 0]>>
  /\ hit' = h

(* The next step: a chunk of the prompt, or a token and its drafts, short  *)
(* of the model's length by the token that is sampled.  What is skipped is *)
(* freed first, and stays so when the allocation fails.                    *)
MayTake(n) ==
  /\ ~Waiting /\ Len(steps) < Depth
  /\ n <= Smaller(MaxBatched, MaxLen - computed - 1)
  /\ n <= IF computed < Prompt THEN Prompt - computed ELSE 1 + NumSpec
Swept == [g \in Groups |-> Released(g, lists[g], Settled)]

Schedule(n) ==
  /\ MayTake(n)
  /\ lists' = [g \in Groups |-> Extended(g, Swept[g], Slots(computed + n))]
  /\ computed' = computed + n
  /\ steps' = Append(steps, [tokens |-> n, drafts |-> IF computed < Prompt THEN 0 ELSE n - 1])
  /\ UNCHANGED <<hit, reserved>>

Fail(n) ==
  /\ MayTake(n)
  /\ \E g \in Groups : Missing(g, Swept[g], Slots(computed + n)) > 0
  /\ lists' = Swept
  /\ UNCHANGED <<computed, steps, hit, reserved>>

Process(rejected) ==
  /\ steps # <<>> /\ rejected <= Head(steps).drafts
  /\ computed' = computed - rejected /\ steps' = Tail(steps)
  /\ UNCHANGED <<lists, hit, reserved>>

(* Preempted, finished or aborted: every block goes back; the output of    *)
(* the steps in flight is stale and no longer moves the counter.           *)
Preempt ==
  /\ ~Waiting
  /\ lists' = [g \in Groups |-> <<>>] /\ computed' = 0 /\ hit' = NoHit
  /\ steps' = <<>> /\ reserved' = [g \in Groups |-> 0]

WindowNext ==
  \/ \E h \in Hits, n \in 1 .. MaxBatched : Admit(h, n)
  \/ \E n \in 1 .. MaxBatched : Schedule(n) \/ Fail(n)
  \/ \E k \in 0 .. NumSpec : Process(k)
  \/ Preempt
WindowSpec == WindowInit /\ [][WindowNext]_windowVars

-----------------------------------------------------------------------------
(* Where step i may start, if drafts before it are rejected.               *)
Starts(i) ==
  LET before == SubSeq(steps, 1, i - 1)
      sum == FoldSeq(LAMBDA s, n : s.tokens + n, 0, before)
      drafts == FoldSeq(LAMBDA s, n : s.drafts + n, 0, before)
  IN  Processed + sum - drafts .. Processed + sum

(* Tokens that position p attends to.                                      *)
Attended(g, p) ==
  CASE g = "full"   -> 0 .. p
    [] g = "window" -> Larger(0, p - Window + 1) .. p
    [] g = "chunk"  -> (p \div ChunkSize) * ChunkSize .. p
    [] g = "rswa"   -> (0 .. Smaller(Prompt - 1, p)) \union (Larger(0, p - RswaWindow + 1) .. p)
    [] g = "ring"   -> {0}

(* No step in flight attends to a token whose block was given back,        *)
(* whatever the outcome of the drafts before it (remove_skipped_blocks:    *)
(* "fully processed and committed tokens only (safe to free)").            *)
ReadsHeld ==
  \A g \in Groups, i \in DOMAIN steps :
    \A start \in Starts(i) : \A p \in {start, start + steps[i].tokens - 1} :
      \A t \in Attended(g, p) : lists[g][(t \div BlockSize) + 1] = 1

(* A group that recycles blocks never holds more than the pool was sized   *)
(* for and the slots of the lookahead ("per-request peak real-held blocks  *)
(* <= this cap"), the reference window not more than prompt, window and    *)
(* steps ("bounds per-request KV memory at O(prefix_len + rswa_window)"),  *)
(* the ring one.                                                           *)
HeldBounded ==
  \A g \in Groups :
    Count(lists[g]) <=
      CASE g = "ring" -> 1
        [] g = "rswa" -> Cdiv(Prompt) + Cdiv(RswaWindow + MaxInFlight + Lookahead) + 1
        [] OTHER      -> Cap(g) + Cdiv(Lookahead)

(* An admission takes exactly the blocks its estimate asks for, whatever   *)
(* was found in the cache and by the connector.                            *)
EstimateExact ==
  Waiting =>
    \A g \in Groups, h \in Hits : \A n \in 1 .. Prompt - h.local - h.external :
      LET total == h.local + h.external + n
      IN  Count(Admitted(g, h, total)) = Estimate(g, h, Slots(total), FALSE)

(* While the prompt is processed a request stays within what the check of  *)
(* its whole prompt set aside and the slots of the lookahead               *)
(* (get_num_blocks_to_allocate: the cap "keeps `sum(reservations) <=       *)
(* pool`").                                                                *)
PeakReserved ==
  computed <= Prompt =>
    \A g \in Groups : Count(lists[g]) <= reserved[g] + Cdiv(Lookahead)
=============================================================================
