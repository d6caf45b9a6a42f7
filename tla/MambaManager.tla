---------------------------- MODULE MambaManager ----------------------------
(***************************************************************************)
(* The align-mode block manager of recurrent (Mamba/GDN) layers            *)
(* (v1/core/single_type_kv_cache_manager.py, MambaManager), as operators   *)
(* on the block list of one request.                                       *)
(*                                                                         *)
(* A recurrent layer needs one state, not one entry per token: entry i of  *)
(* a request's list (0-based, as in the code) is meant for the state after *)
(* exactly (i+1)*BlockSize tokens and most entries are the null block.     *)
(* The last 1 + NumSpec entries hold the running state of the step being   *)
(* scheduled and one state per draft token.  Lists are TLA+ sequences, so  *)
(* entry i of the code is element i + 1 here.                              *)
(*                                                                         *)
(* Block hashes are taken per state block (the hash block is as large as   *)
(* the state block), so a hit ends at a block's end, _partial_hit_reqs is  *)
(* always empty and has_partial_hit false: the copy-on-write branches of   *)
(* these methods are in PartialHits.  What the methods need of the pool,   *)
(* the refusal of blocks cached in the same step and the count of hit      *)
(* blocks that are free, is in MambaServing (HitUsable and Admissible).    *)
(* last_state_block_idx is written and never read.                         *)
(***************************************************************************)
EXTENDS Integers, Sequences

CONSTANTS
  Null,       \* the null block
  BlockSize,  \* tokens per state block
  NumSpec     \* speculative (draft) tokens of a decode step

(* A decode step, with its drafts, fits in one block: it passes one block  *)
(* boundary at most (1600 tokens and 1 + 3 in the released configuration). *)
ASSUME ManagerAssumption ==
  /\ BlockSize \in Nat \ {0}
  /\ NumSpec \in Nat
  /\ NumSpec < BlockSize

Larger(a, b)  == IF a >= b THEN a ELSE b
Smaller(a, b) == IF a <= b THEN a ELSE b
Cdiv(n) == (n + BlockSize - 1) \div BlockSize
Floor(n) == n - (n % BlockSize)

(* The blocks a list holds.                                                *)
Held(blocks) == {blocks[i] : i \in DOMAIN blocks} \ {Null}

-----------------------------------------------------------------------------
(* remove_skipped_blocks.  States of blocks that lie wholly before the     *)
(* last processed token are no longer read.                                *)

(* The generic sweep walks down from the last skipped entry and stops at   *)
(* the first null one.                                                     *)
BaseSweep(blocks, processed) ==
  LET end == Smaller(Larger(processed - 1, 0) \div BlockSize, Len(blocks))
  IN  {i \in 1 .. end : \A j \in i .. end : blocks[j] # Null}

(* The align-mode sweep covers everything from the previous sweep's end.   *)
(* Mutants: the generic sweep alone (the base image); the entry of the     *)
(* last processed state is swept too.                                      *)
NoStateSweep(blocks, start, processed) == {}
SweepLastState(blocks, start, processed) ==
  {i \in start + 1 .. Smaller(Cdiv(processed), Len(blocks)) : blocks[i] # Null}
StateSweep(blocks, start, processed) ==
  {i \in start + 1 .. Smaller(Cdiv(processed) - 1, Len(blocks)) : blocks[i] # Null}

Swept(blocks, start, processed) ==
  BaseSweep(blocks, processed) \union StateSweep(blocks, start, processed)

SweepEnd(blocks, start, processed) ==
  IF blocks = <<>> THEN start
  ELSE Larger(start, Smaller(Cdiv(processed) - 1, Len(blocks)))

NullOut(blocks, indices) ==
  [i \in DOMAIN blocks |-> IF i \in indices THEN Null ELSE blocks[i]]

-----------------------------------------------------------------------------
(* allocate_new_blocks, for a list that shall cover `total' tokens of the  *)
(* main model; the drafter's lookahead takes no state.                     *)

Required(total) == Cdiv(total) + NumSpec

(* Entries before the running state's are filled with the null block.      *)
Skipped(total) == Required(total) - NumSpec - 1

(* Speculative blocks of the previous step that move behind the skipped    *)
(* entries; only a request that has been allocated before has them.        *)
NumMoved(blocks, total, allocated) ==
  IF allocated
    THEN Larger(0, Smaller(NumSpec, Skipped(total) - (Len(blocks) - NumSpec)))
    ELSE 0

(* The list before new blocks are appended.  Mutant: a moved block keeps   *)
(* its old entry too.                                                      *)
MovedTwice(blocks, total, allocated) ==
  blocks \o [i \in 1 .. Larger(0, Skipped(total) - Len(blocks)) |-> Null]
         \o SubSeq(blocks, Len(blocks) - NumSpec + 1,
                   Len(blocks) - NumSpec + NumMoved(blocks, total, allocated))
Shifted(blocks, total, allocated) ==
  LET first == Len(blocks) - NumSpec + 1
      last  == first + NumMoved(blocks, total, allocated) - 1
  IN  NullOut(blocks, first .. last)
        \o [i \in 1 .. Larger(0, Skipped(total) - Len(blocks)) |-> Null]
        \o SubSeq(blocks, first, last)

(* Nothing is allocated while the list, over-allocated for drafts that     *)
(* were rejected, is long enough.                                          *)
NumNew(blocks, total, allocated) ==
  IF Required(total) <= Len(blocks) THEN 0
  ELSE Required(total) - Len(Shifted(blocks, total, allocated))

Allocated(blocks, total, allocated, new) ==
  IF Required(total) <= Len(blocks) THEN blocks
  ELSE Shifted(blocks, total, allocated) \o new

(* get_num_blocks_to_allocate: the estimate allocation is admitted on.     *)
(* Mutant: the running state's block is forgotten.                         *)
SpecOnly(blocks, total, allocated) ==
  IF Required(total) - Len(blocks) <= 0 THEN Required(total) - Len(blocks)
  ELSE IF allocated THEN 1 ELSE NumSpec
Estimate(blocks, total, allocated) ==
  IF Required(total) - Len(blocks) <= 0 THEN Required(total) - Len(blocks)
  ELSE IF allocated THEN 1 ELSE 1 + NumSpec

-----------------------------------------------------------------------------
(* cache_blocks: the entries that become full when `tokens' tokens are     *)
(* cached, `cached' of them having been visited before.                    *)
Filled(blocks, cached, tokens) ==
  {i \in cached + 1 .. tokens \div BlockSize : blocks[i] # Null}
=============================================================================
