----------------------------- MODULE PrefixHits -----------------------------
(***************************************************************************)
(* Prefix-cache lookup of the KV block managers, as operators              *)
(* (v1/core/single_type_kv_cache_manager.py).                              *)
(*                                                                         *)
(* A request's prefixes are named by their length in tokens.  `cached' is  *)
(* the set of prefixes whose hash is in the pool: multiples of BlockSize   *)
(* for full blocks, others for partial tails.  A hit is its length and the *)
(* blocks it returns that are not null; block i holds the tokens           *)
(* i*BlockSize .. (i+1)*BlockSize - 1.                                     *)
(***************************************************************************)
EXTENDS Integers, FiniteSets, FiniteSetsExt

CONSTANTS BlockSize, Window, ChunkSize

(* What the constants may be.                                              *)
HitAssumption ==
  /\ {BlockSize, ChunkSize} \subseteq Nat \ {0} /\ Window \in Nat \ {0, 1}
  /\ ChunkSize % BlockSize = 0

Cdiv(a, b) == (a + b - 1) \div b
RoundDown(n, unit) == n - (n % unit)
Whole(cached, i) == (i + 1) * BlockSize \in cached
Fine(align) == align < BlockSize /\ BlockSize % align = 0
Hit(n, blocks) == [length |-> n, blocks |-> blocks]
NoHit == Hit(0, {})

-----------------------------------------------------------------------------
(* FullAttentionManager.  Mutant: the tail that covers least is taken.     *)
Matched(cached, limit) ==
  Max({k \in 0 .. limit \div BlockSize : \A i \in 0 .. k - 1 : Whole(cached, i)})
ShortTail(cached, limit, align, m) ==
  LET tails == {n \in m * BlockSize + 1 .. (m + 1) * BlockSize - 1 :
                  n % align = 0 /\ n <= limit /\ n \in cached}
  IN  IF tails = {} THEN m * BlockSize ELSE Min(tails)
LongTail(cached, limit, align, m) ==
  LET tails == {n \in m * BlockSize + 1 .. (m + 1) * BlockSize - 1 :
                  n % align = 0 /\ n <= limit /\ n \in cached}
  IN  Max(tails \union {m * BlockSize})

(* The last matched unit is dropped for the drafter.                       *)
Dropped(n, align) == IF n > 0 THEN n - (IF align < BlockSize THEN align ELSE BlockSize) ELSE n

FullHit(cached, limit, align, drop) ==
  LET m == Matched(cached, limit)
      matched == IF Fine(align) THEN LongTail(cached, limit, align, m) ELSE m * BlockSize
      n == RoundDown(IF drop THEN Dropped(matched, align) ELSE matched, align)
  IN  Hit(n, 0 .. Cdiv(n, BlockSize) - 1)

-----------------------------------------------------------------------------
(* SlidingWindowManager.                                                   *)
(* Mutant: the block that is dropped is not looked for.                    *)
WindowOnly(drop) == Cdiv(Window - 1, BlockSize)
Contiguous(drop) == Cdiv(Window - 1, BlockSize) + (IF drop THEN 1 ELSE 0)

(* The scan from right to left counts contiguous cached blocks; the first  *)
(* of them must end, once one is dropped, on the alignment.                *)
Aligned(i, align, drop) ==
  BlockSize = align \/ ((IF drop THEN i ELSE i + 1) * BlockSize) % align = 0
Run(cached, limit, align, drop) ==
  LET blocks == limit \div BlockSize
      run[i \in 0 .. blocks] ==
        IF i = blocks \/ ~Whole(cached, i) THEN 0
        ELSE IF run[i + 1] = 0 /\ ~Aligned(i, align, drop) THEN 0
        ELSE run[i + 1] + 1
  IN  run

Realigned(k, align) ==
  IF BlockSize = align THEN k
  ELSE Max({j \in 0 .. k : (j * BlockSize) % align = 0})

WindowHit(cached, limit, align, drop) ==
  LET run  == Run(cached, limit, align, drop)
      ends == {i \in 0 .. limit \div BlockSize - 1 : run[i] >= Contiguous(drop) /\ run[i] > 0}
      last == Max(ends)
      found == ends # {}
      kept == IF found THEN last + run[last] ELSE Realigned(run[0], align)
      len  == IF drop /\ kept > 0 THEN Realigned(kept - 1, align) ELSE kept
  IN  Hit(len * BlockSize, (IF found THEN last ELSE 0) .. len - 1)

-----------------------------------------------------------------------------
(* ChunkedLocalAttentionManager: the blocks before the chunk of the next   *)
(* token count as computed.  Mutant: the chunk of the last token.          *)
LastChunk(limit) == RoundDown(limit - 1, ChunkSize) \div BlockSize
FirstLocal(limit) == RoundDown(limit, ChunkSize) \div BlockSize
ChunkHit(cached, limit) ==
  LET first == FirstLocal(limit)
      k == Max({j \in first .. limit \div BlockSize : \A i \in first .. j - 1 : Whole(cached, i)})
  IN  Hit(k * BlockSize, first .. k - 1)

-----------------------------------------------------------------------------
(* MambaManager: one state is enough.  Mutant: any state, aligned or not.  *)
AnyState(cached, limit, align) == {n \in cached : n <= limit /\ (Fine(align) \/ n % BlockSize = 0)}
States(cached, limit, align) ==
  {n \in cached : n <= limit /\ n % align = 0 /\ (Fine(align) \/ n % BlockSize = 0)}
MambaHit(cached, limit, align) ==
  LET states == States(cached, limit, align)
  IN  IF states = {} THEN NoHit
      ELSE Hit(Max(states), {(Max(states) - 1) \div BlockSize})

(* CircularBufferManager finds nothing.                                    *)
Lookup(kind, cached, limit, align, drop) ==
  CASE kind = "full"   -> FullHit(cached, limit, align, drop)
    [] kind = "window" -> WindowHit(cached, limit, align, drop)
    [] kind = "chunk"  -> ChunkHit(cached, limit)
    [] kind = "mamba"  -> MambaHit(cached, limit, align)
    [] kind = "ring"   -> NoHit

-----------------------------------------------------------------------------
(* Which full blocks of a prompt are put into the cache (cache_blocks,     *)
(* reachable_block_mask): all of them, or only those that can end a hit.   *)
(* A policy p is a manager's [kind, align, eagle, interval] with a prompt  *)
(* and its junction with an earlier one (0: none); interval Dense keeps    *)
(* every reachable block, 0 only the boundaries'.                          *)
Dense == -1

(* Blocks the mask of SlidingWindowManager keeps.  Mutant: the block that  *)
(* the drafter drops is taken for the boundary's last.                     *)
NoShift(p) == 0
Shift(p) == IF p.eagle THEN 1 ELSE 0
PerSegment(p) ==
  (IF p.interval = Dense THEN p.align ELSE p.interval) \div BlockSize

(* Boundaries whose tail is kept: the last position a replay of the prompt *)
(* may hit, and a junction with another prompt.  Mutant: the prompt's end. *)
PromptEnd(p) == {p.prompt} \union ({p.junction} \ {0})
Boundaries(p) == {p.prompt - 1} \union ({p.junction} \ {0})

WindowKeeps(p, blocks) ==
  LET need == Contiguous(p.eagle)
      segments == {i \in blocks : i >= Shift(p)
                     /\ (i - Shift(p)) % PerSegment(p) >= PerSegment(p) - need}
      tails == {i \in blocks : \E b \in Boundaries(p) :
                  LET end == RoundDown(b, p.align) \div BlockSize + Shift(p)
                  IN  end - need <= i /\ i < end}
  IN  IF p.interval = Dense THEN IF need >= PerSegment(p) THEN blocks ELSE segments
      ELSE IF p.interval = 0 THEN tails
      ELSE IF need >= PerSegment(p) THEN blocks
      ELSE segments \union tails

(* The mask of MambaManager: single states, counted from the first block   *)
(* of the call.  Mutant: from wherever the call starts.                    *)
FromStart(p, first) == first + PerSegment(p) - 1
FirstBoundary(p, first) == RoundDown(first + PerSegment(p), PerSegment(p)) - 1
MambaKeeps(p, first, blocks) ==
  LET segments == {i \in blocks : i >= FirstBoundary(p, first)
                     /\ (i - FirstBoundary(p, first)) % PerSegment(p) = 0}
      states == {i \in blocks : \E b \in Boundaries(p) : i = RoundDown(b, p.align) \div BlockSize - 1}
  IN  IF p.interval = Dense THEN blocks
      ELSE IF p.interval = 0 THEN states
      ELSE IF PerSegment(p) <= 1 THEN blocks
      ELSE segments \union states

Keeps(p, first, blocks) ==
  IF p.kind = "window" THEN WindowKeeps(p, blocks)
  ELSE IF p.kind = "mamba" THEN MambaKeeps(p, first, blocks)
  ELSE blocks

(* cache_blocks: the blocks that became full when the sequence grew from   *)
(* `computed' to `tokens'.                                                 *)
NewlyCached(p, computed, tokens) ==
  LET first == computed \div BlockSize
  IN  {(i + 1) * BlockSize : i \in Keeps(p, first, first .. (tokens \div BlockSize) - 1)}

-----------------------------------------------------------------------------
(* What a prefix of n tokens needs for the next token to be computed, from *)
(* the attention each manager serves.                                      *)
Needed(kind, n) ==
  CASE kind = "full"   -> 0 .. Cdiv(n, BlockSize) - 1
    [] kind = "window" -> {i \in 0 .. n \div BlockSize - 1 : (i + 1) * BlockSize > n - Window + 1}
    [] kind = "chunk"  -> {i \in 0 .. n \div BlockSize - 1 : i * BlockSize >= RoundDown(n, ChunkSize)}
    [] kind = "mamba"  -> IF n = 0 THEN {} ELSE {(n - 1) \div BlockSize}
    [] kind = "ring"   -> {}

(* The cache has the tokens of block i that a prefix of n has.             *)
Present(kind, cached, limit, n, i) ==
  LET end == IF (i + 1) * BlockSize <= n THEN (i + 1) * BlockSize ELSE n
  IN  IF kind = "mamba" THEN n \in cached
      ELSE \E c \in cached : c <= limit /\ c >= end /\ c <= (i + 1) * BlockSize

Usable(kind, cached, limit, align, n) ==
  /\ n <= limit /\ n % align = 0
  /\ \A i \in Needed(kind, n) : Present(kind, cached, limit, n, i)

(* With the drafter's recomputation the unit behind the prefix is there.   *)
UsableDropped(kind, cached, limit, align, n) ==
  LET unit == IF align < BlockSize THEN align ELSE BlockSize
  IN  /\ Usable(kind, cached, limit, align, n)
      /\ n > 0 => IF kind = "window" THEN Whole(cached, n \div BlockSize) /\ n + unit <= limit
                  ELSE Usable(kind, cached, limit, unit, n + unit)
=============================================================================
