------------------------------ MODULE QsaRing ------------------------------
(***************************************************************************)
(* The index keys of one request in a QSA layer (indexer_qsa.py,           *)
(* QSAIndexer.forward, its unfused path; the caches of qsa_cache.py).  Raw *)
(* keys live in a ring, one block of the request's; when a group of Ratio  *)
(* tokens is complete, its keys are pooled from the ring and from the rows *)
(* of the step and stored as one compressed key, in blocks that follow the *)
(* main KV cache.  A query scores the compressed keys it can see.          *)
(*                                                                         *)
(* Speculative rows are stored before it is known whether they are         *)
(* accepted.  With Drafter the layer is the draft model's: after each step *)
(* it runs on, one token at a time, behind the last accepted token.        *)
(*                                                                         *)
(* A key is the version of the token it belongs to: a position gets a      *)
(* fresh version whenever its token is replaced.  Preemption gives up the  *)
(* ring and, after a prefix hit, keeps the compressed keys of full blocks. *)
(* The fused operator that does the same in one launch is not part of the  *)
(* repository.                                                             *)
(***************************************************************************)
EXTENDS Integers, FiniteSets, FiniteSetsExt

CONSTANTS
  Ratio,          \* compress_ratio
  NumSpec,        \* num_speculative_tokens
  BlockSize,      \* attention block size: where prefix hits end
  Prompt, MaxLen, MaxChunk,   \* bounds: prompt, sequence, prefill chunk
  Versions,       \* bound on the tokens tried at a position
  MaxPreempt,
  Drafter         \* the layer of the draft model

CeilDiv(a, b) == (a + b - 1) \div b

(* QSAKeyStateCache.get_kv_cache_spec.  Mutant: one group.                 *)
OneGroup == Ratio
Capacity == Ratio * CeilDiv(Ratio + NumSpec, Ratio)

ASSUME QsaRingAssumption ==
  /\ {Ratio, BlockSize, Prompt, MaxLen, MaxChunk, Versions} \subseteq Nat \ {0}
  /\ {NumSpec, MaxPreempt} \subseteq Nat /\ Drafter \in BOOLEAN
  /\ BlockSize % Capacity = 0 /\ Prompt < MaxLen

VARIABLES
  text,      \* version of the token of each position, tried or accepted
  known,     \* accepted tokens
  computed,  \* num_computed_tokens
  phase,     \* "run": to be scheduled; "sampled": a step ran; "draft"
  rows,      \* positions of the last step, <<first, last>>
  drafted,   \* draft steps that ran since
  ring, packed,  \* raw and compressed keys
  preempted
qrvars == <<text, known, computed, phase, rows, drafted, ring, packed, preempted>>

Foreign == <<-1, -1>>   \* left by another request
Tentative == -1         \* version of a key of a draft step
Positions == 0 .. MaxLen - 1
Groups == 0 .. (MaxLen \div Ratio) - 1
First(g) == g * Ratio
End(g) == (g * Ratio) + Ratio - 1
Garbage == [j \in 0 .. Ratio - 1 |-> Foreign]

QsaRingInit ==
  /\ text = [p \in Positions |-> 0] /\ known = Prompt
  /\ computed = 0 /\ phase = "run" /\ rows = <<0, -1>> /\ drafted = 0
  /\ ring = [i \in 0 .. Capacity - 1 |-> Foreign]
  /\ packed = [g \in Groups |-> Garbage]
  /\ preempted = 0

-----------------------------------------------------------------------------
(* One forward of the layer over positions first .. last: the complete     *)
(* groups are pooled, then the rows are stored.                            *)

(* The ring keeps the last Capacity rows (circular_qsa_slot_mapping).      *)
Stored(first, last, keys) ==
  [i \in 0 .. Capacity - 1 |->
     LET here == {p \in first .. last : p % Capacity = i /\ p + Capacity > last}
     IN  IF here = {} THEN ring[i] ELSE <<Max(here), keys[Max(here)]>>]

(* A key of a group comes from this step's rows or from the ring.          *)
(* Mutant: the rows are stored first.                                      *)
StoredFirst(p, first, last, keys) ==
  IF p >= first THEN <<p, keys[p]>> ELSE Stored(first, last, keys)[p % Capacity]
Pooled(p, first, last, keys) ==
  IF p >= first THEN <<p, keys[p]>> ELSE ring[p % Capacity]

(* Mutant: a group is pooled when it starts in the step.                   *)
Starting(g, first, last) == First(g) \in first .. last
Ending(g, first, last) == End(g) \in first .. last
Compressed(first, last, keys) ==
  [g \in Groups |->
     IF Ending(g, first, last)
     THEN [j \in 0 .. Ratio - 1 |-> Pooled(First(g) + j, first, last, keys)]
     ELSE packed[g]]

Forward(first, last, keys) ==
  /\ packed' = Compressed(first, last, keys)
  /\ ring' = Stored(first, last, keys)

-----------------------------------------------------------------------------
(* A step over the next tokens: a chunk of known ones, or the last known   *)
(* one and the tokens drafted behind it.                                   *)
Step(last) ==
  /\ phase = "run" /\ phase' = "sampled"
  /\ Forward(computed, last, text) /\ rows' = <<computed, last>>
  /\ UNCHANGED <<text, known, computed, drafted, preempted>>
Prefill ==
  /\ computed < known - 1
  /\ \E n \in 1 .. MaxChunk : computed + n <= known /\ Step(computed + n - 1)
Decode ==
  /\ computed = known - 1
  /\ \E n \in 0 .. NumSpec : known + n <= MaxLen /\ Step(computed + n)

(* Sampling accepts the first drafts of a step; the next token takes the   *)
(* place of the first rejected one, and what is drafted behind it is new.  *)
(* Mutant: the rest of the sequence is.                                    *)
RestReplaced(from, to) == [p \in Positions |-> IF from <= p THEN text[p] + 1 ELSE text[p]]
Replaced(from, to) ==
  [p \in Positions |-> IF from <= p /\ p <= to THEN text[p] + 1 ELSE text[p]]
AfterStep == IF Drafter THEN "draft" ELSE "run"
ChunkDone ==
  /\ phase = "sampled" /\ rows[2] < known - 1
  /\ computed' = rows[2] + 1 /\ phase' = AfterStep /\ drafted' = 0
  /\ UNCHANGED <<text, known, rows, ring, packed, preempted>>
Sample ==
  /\ phase = "sampled" /\ rows[2] >= known - 1
  /\ \E next \in known .. rows[2] + 1 :
       /\ next < MaxLen
       /\ \A p \in next .. rows[2] : text[p] < Versions
       /\ computed' = next /\ known' = next + 1
       /\ text' = Replaced(next, rows[2])
  /\ phase' = AfterStep /\ drafted' = 0
  /\ UNCHANGED <<rows, ring, packed, preempted>>

(* The draft model runs on behind the last computed token, for a chunk of  *)
(* the prompt too, one position a step (skip_topk: the caches are updated, *)
(* nothing is selected).  Its first pass, over the rows of the target's    *)
(* step, is Step itself: the rows behind the accepted ones, which it has   *)
(* from the drafts, are stored again before anything reads them.           *)
DraftStep ==
  /\ phase = "draft" /\ drafted < NumSpec - 1
  /\ LET p == computed + drafted
     IN  p < MaxLen /\ Forward(p, p, [q \in Positions |-> IF q >= computed THEN Tentative ELSE text[q]])
  /\ drafted' = drafted + 1
  /\ UNCHANGED <<text, known, computed, phase, rows, preempted>>
DraftsDone ==
  /\ phase = "draft" /\ drafted >= Min({NumSpec - 1, MaxLen - computed})
  /\ phase' = "run"
  /\ UNCHANGED <<text, known, computed, rows, drafted, ring, packed, preempted>>

(* A preempted request starts over at a prefix hit, with another ring.     *)
Preempt ==
  /\ phase = "run" /\ computed > 0
  /\ preempted < MaxPreempt /\ preempted' = preempted + 1
  /\ \E hit \in {h \in 0 .. computed : h % BlockSize = 0} :
       /\ computed' = hit
       /\ packed' = [g \in Groups |-> IF End(g) < hit THEN packed[g] ELSE Garbage]
  /\ ring' = [i \in 0 .. Capacity - 1 |-> Foreign]
  /\ UNCHANGED <<text, known, phase, rows, drafted>>

QsaRingNext == Prefill \/ Decode \/ ChunkDone \/ Sample \/ DraftStep \/ DraftsDone \/ Preempt
QsaRingSpec == QsaRingInit /\ [][QsaRingNext]_qrvars

-----------------------------------------------------------------------------
QsaRingTypeOK ==
  /\ text \in [Positions -> 0 .. Versions] /\ known \in Prompt .. MaxLen
  /\ computed \in 0 .. known - 1 /\ phase \in {"run", "sampled", "draft"}
  /\ rows \in Positions \X (-1 .. MaxLen - 1) /\ drafted \in 0 .. NumSpec
  /\ ring \in [0 .. Capacity - 1 -> (-1 .. MaxLen - 1) \X (-1 .. Versions)]
  /\ packed \in [Groups -> [0 .. Ratio - 1 -> (-1 .. MaxLen - 1) \X (-1 .. Versions)]]
  /\ preempted \in 0 .. MaxPreempt

Current(g) == [j \in 0 .. Ratio - 1 |-> <<First(g) + j, text[First(g) + j]>>]

(* Between steps, the ring holds the keys of the accepted tokens of the    *)
(* open group: no row of a rejected draft, of a draft step or of an older  *)
(* chunk has taken the place of one the next step needs to close the group *)
(* (QSAKeyStateCache.get_kv_cache_spec).                                   *)
OpenGroupKept ==
  phase = "run" =>
    \A p \in Positions :
      ((computed \div Ratio) * Ratio <= p /\ p < computed) => ring[p % Capacity] = <<p, text[p]>>

(* Every compressed key a query of the step can see is pooled from the     *)
(* tokens of its group as they are in the query's own sequence: none of an *)
(* earlier rejected draft, of a preempted request's ring or of a draft     *)
(* step (QSAIndexer.forward: pool, store compressed, store raw, select).   *)
VisibleExact ==
  phase = "sampled" =>
    \A g \in Groups : End(g) <= rows[2] => packed[g] = Current(g)
=============================================================================
