---------------------------- MODULE QsaMetadata ----------------------------
(***************************************************************************)
(* The metadata of a QSA side cache (common/qsa_cache.py): for every token *)
(* of a batch its request, its position and its cache slot, and the work   *)
(* items of the key compressor.  One kernel writes it, each of its         *)
(* programs one tile of tokens and one tile of work items, into buffers    *)
(* that live as long as the builder; a draft step writes it again in place *)
(* after the sequence lengths advanced.                                    *)
(*                                                                         *)
(* A batch is laid out by the model runner: requests of query_lens tokens, *)
(* the last ones empty when it is padded, then padding tokens.  Requests,  *)
(* tokens and blocks count from 0.                                         *)
(***************************************************************************)
EXTENDS Integers, FiniteSets, FiniteSetsExt

CONSTANTS
  MaxReqs, MaxQuery, MaxContext, MaxPadding,  \* bounds on a batch
  MaxMasked,                \* bound on its requests whose common slots are padding
  MaxDrafts,                \* draft steps after a build
  Circular,                 \* is_circular_buffer: the ring of raw keys
  Ring,                     \* its block_size
  Ratio, StorageBlock,      \* compress_ratio, storage_block_size
  Columns,                  \* columns of the block table
  TokenTile, WorkTile       \* TOKEN_BLOCK_SIZE, WORK_BLOCK_SIZE

(* What the constants may be.                                              *)
QsaMetadataAssumption ==
  /\ {MaxReqs, Ring, Ratio, StorageBlock, Columns, TokenTile, WorkTile} \subseteq Nat \ {0}
  /\ {MaxQuery, MaxContext, MaxPadding, MaxMasked, MaxDrafts} \subseteq Nat /\ Circular \in BOOLEAN

VARIABLES
  lens, seqs,     \* query and sequence length of each request
  masked,         \* requests whose common slots are padding
  padding,        \* tokens behind the requests'
  drafts,         \* draft steps left
  owner, position, slot,   \* token_to_req, logical_positions, slot_mapping
  work,           \* k_work_metadata: <<request, item>>
  running         \* programs of the launch that have not run
qmvars == <<lens, seqs, masked, padding, drafts, owner, position, slot, work, running>>

Stale == -7     \* whatever an earlier batch left in a buffer

NumReqs == Cardinality(DOMAIN lens)
SumUpTo(f, i) == FoldSet(LAMBDA r, n : f[r] + n, 0, {r \in DOMAIN f : r < i})
QueryStart(i) == SumUpTo(lens, i)     \* query_start_loc[i]
Mapped == QueryStart(NumReqs)         \* num_mapped_tokens
NumTokens == Mapped + padding         \* num_actual_tokens

(* The block table: a request's blocks are its own.                        *)
BlockOf(r, column) == (r * Columns) + column

(* Rows of the work buffer a batch takes (QSAMetadataBuilder.build).       *)
(* Mutant: without the rounding of each request.                           *)
WorkOfTokens == NumTokens \div Ratio
MaxWork == (NumTokens + ((Ratio - 1) * NumReqs)) \div Ratio
HasWork == ~Circular /\ Ratio # 1
WorkRows == IF HasWork THEN MaxWork ELSE 0

(* Programs of one launch: enough for the tokens and for the work items.   *)
(* Mutant: enough for the tokens.                                          *)
CeilDiv(a, b) == (a + b - 1) \div b
TokenPrograms == 0 .. Max({CeilDiv(NumTokens, TokenTile), 1}) - 1
Programs == 0 .. Max({CeilDiv(NumTokens, TokenTile), CeilDiv(WorkRows, WorkTile), 1}) - 1

-----------------------------------------------------------------------------
(* The last request that starts at or before x: steps that halve, from the *)
(* largest power of two below n.  Mutant: the number of steps rounded down. *)
StepsDown(n) == Max({k \in 0 .. n : 2 ^ k <= n})
SearchSteps(n) == Min({k \in 0 .. n : 2 ^ k >= n})
Search(start, n, x) ==
  LET f[k \in 0 .. SearchSteps(n)] ==
        IF k = 0 THEN 0
        ELSE LET candidate == f[k - 1] + 2 ^ (SearchSteps(n) - k)
             IN  IF candidate < n /\ start[candidate] <= x THEN candidate ELSE f[k - 1]
  IN  f[SearchSteps(n)]

OwnerOf(t) == Search([r \in 0 .. NumReqs - 1 |-> QueryStart(r)], NumReqs, Min({t, Mapped - 1}))
PositionOf(t) ==
  LET r == OwnerOf(t)
  IN  IF t < Mapped THEN seqs[r] - lens[r] + t - QueryStart(r) ELSE -1

(* Slot of a raw key: only a request's last Ring rows are stored, the      *)
(* others would share a slot with them.  Mutant: every row is.             *)
EveryRow(t) == TRUE
KeptRow(t) == t + Ring >= QueryStart(OwnerOf(t) + 1)
CircularSlot(t) ==
  IF t < Mapped /\ PositionOf(t) >= 0 /\ KeptRow(t)
  THEN (BlockOf(OwnerOf(t), 0) * Ring) + (PositionOf(t) % Ring)
  ELSE -1

(* Slot of a compressed key, of the last token of a group.  Mutant: common *)
(* slots that are padding are stored all the same.                         *)
AnyCommon(r) == TRUE
HasCommon(r) == r \notin masked
CompressedSlot(t) ==
  LET p == PositionOf(t)
      row == p \div Ratio
  IN  IF /\ t < Mapped /\ p >= 0 /\ (p + 1) % Ratio = 0
         /\ row \div StorageBlock < Columns /\ HasCommon(OwnerOf(t))
      THEN (BlockOf(OwnerOf(t), row \div StorageBlock) * StorageBlock) + (row % StorageBlock)
      ELSE -1
SlotOf(t) == IF Circular THEN CircularSlot(t) ELSE CompressedSlot(t)

(* Work items of a request: one a group it completes, and one in any case  *)
(* for its raw keys.  Mutant: one a group.                                 *)
Completed(r) == (seqs[r] \div Ratio) - ((seqs[r] - lens[r]) \div Ratio)
GroupsOnly(r) == IF lens[r] > 0 THEN Completed(r) ELSE 0
WorkCount(r) == IF lens[r] > 0 THEN Max({Completed(r), 1}) ELSE 0
WorkStart(i) == SumUpTo([r \in DOMAIN lens |-> WorkCount(r)], i)
WorkItem(w) ==
  IF w < WorkStart(NumReqs)
  THEN LET r == Search([q \in 0 .. NumReqs - 1 |-> WorkStart(q)], NumReqs, w) IN <<r, w - WorkStart(r)>>
  ELSE <<-1, -1>>

-----------------------------------------------------------------------------
Batches(n) ==
  {b \in [0 .. n - 1 -> (0 .. MaxQuery) \X (0 .. MaxContext)] :
     \A r \in 0 .. n - 1 : b[r][1] = 0 => (b[r][2] = 0 /\ \A s \in r .. n - 1 : b[s][1] = 0)}

QsaMetadataInit ==
  /\ \E n \in 1 .. MaxReqs : \E b \in Batches(n) :
       /\ lens = [r \in 0 .. n - 1 |-> b[r][1]]
       /\ seqs = [r \in 0 .. n - 1 |-> b[r][1] + b[r][2]]
       /\ masked \in {s \in SUBSET (0 .. n - 1) : Cardinality(s) <= MaxMasked}
  /\ padding \in 0 .. MaxPadding /\ drafts = MaxDrafts
  /\ owner = [t \in 0 .. NumTokens - 1 |-> Stale]
  /\ position = owner /\ slot = owner
  /\ work = [w \in 0 .. WorkRows - 1 |-> <<Stale, Stale>>]
  /\ running = Programs

(* One program of _build_qsa_metadata_kernel.                              *)
Tile(p, size, n) == {i \in 0 .. n - 1 : i \div size = p}
Program(p) ==
  /\ p \in running /\ running' = running \ {p}
  /\ LET tokens == Tile(p, TokenTile, NumTokens)
     IN  /\ owner' = [t \in DOMAIN owner |->
                        IF t \notin tokens THEN owner[t] ELSE IF t < Mapped THEN OwnerOf(t) ELSE 0]
         /\ position' = [t \in DOMAIN position |->
                           IF t \in tokens THEN PositionOf(t) ELSE position[t]]
         /\ slot' = [t \in DOMAIN slot |-> IF t \in tokens THEN SlotOf(t) ELSE slot[t]]
  /\ work' = [w \in DOMAIN work |->
                IF w \in Tile(p, WorkTile, WorkRows) THEN WorkItem(w) ELSE work[w]]
  /\ UNCHANGED <<lens, seqs, masked, padding, drafts>>

(* update_draft_decode_metadata: the same batch, one token further.        *)
DraftStep ==
  /\ running = {} /\ drafts > 0 /\ drafts' = drafts - 1
  /\ \A r \in DOMAIN lens : lens[r] <= 1
  /\ seqs' = [r \in DOMAIN seqs |-> seqs[r] + lens[r]]
  /\ running' = Programs
  /\ UNCHANGED <<lens, masked, padding, owner, position, slot, work>>

QsaMetadataNext == DraftStep \/ \E p \in Programs : Program(p)
QsaMetadataSpec == QsaMetadataInit /\ [][QsaMetadataNext]_qmvars

-----------------------------------------------------------------------------
(* What the metadata means, without the searches.                          *)
Written == running = {}
Rows(r) == {t \in 0 .. NumTokens - 1 :
              \E i \in 0 .. lens[r] - 1 : t = FoldSet(LAMBDA s, n : lens[s] + n, i, 0 .. r - 1)}
PositionsOf(r) == seqs[r] - lens[r] .. seqs[r] - 1

(* Once every program has run, the rows of a request carry its number and, *)
(* in order, the positions of its new tokens; padding carries position -1  *)
(* and no slot (the binary search over the query starts, with empty        *)
(* requests, and the stale buffers).                                       *)
RowsExact ==
  Written =>
    /\ \A r \in DOMAIN lens :
         /\ \A t \in Rows(r) : owner[t] = r
         /\ {position[t] : t \in Rows(r)} = PositionsOf(r)
         /\ \A t, u \in Rows(r) : t < u => position[t] < position[u]
    /\ \A t \in Mapped .. NumTokens - 1 : owner[t] = 0 /\ position[t] = -1 /\ slot[t] = -1

(* Two rows of a batch are never stored to the same slot, by kernels whose *)
(* programs run in no order (circular: a chunk longer than the ring).      *)
SlotsDistinct ==
  Written => \A t, u \in DOMAIN slot : (t # u /\ slot[t] # -1) => slot[t] # slot[u]

(* The newest keys are the ones kept in the ring, each at its position.    *)
RingHoldsNewest ==
  (Written /\ Circular) =>
    \A r \in DOMAIN lens : \A t \in Rows(r) :
      LET kept == position[t] > seqs[r] - 1 - Ring
      IN  IF kept THEN slot[t] \div Ring = BlockOf(r, 0) /\ slot[t] % Ring = position[t] % Ring
          ELSE slot[t] = -1

(* Exactly the last tokens of complete groups are given a compressed slot, *)
(* the group's row of the request's blocks; a request whose common slots   *)
(* are padding is given none.                                              *)
CompressedComplete ==
  (Written /\ ~Circular) =>
    \A r \in DOMAIN lens : \A t \in Rows(r) :
      LET g == position[t] \div Ratio
      IN  slot[t] = IF r \in masked \/ position[t] # (Ratio * g) + Ratio - 1
                       \/ g >= Columns * StorageBlock THEN -1
                    ELSE (r * Columns * StorageBlock) + g

(* The work items, in the rows the batch takes, are exactly the items of   *)
(* every request with tokens, each once: item zero, which also stores the  *)
(* raw keys, and one for every further group it completes.                 *)
Items == {<<r, i>> \in (DOMAIN lens) \X (0 .. MaxQuery) :
            /\ lens[r] > 0
            /\ i = 0 \/ i < Cardinality({p \in PositionsOf(r) : (p + 1) % Ratio = 0})}
WorkExact ==
  (Written /\ HasWork) =>
    LET active == {w \in DOMAIN work : work[w] # <<-1, -1>>}
    IN  {work[w] : w \in active} = Items /\ Cardinality(active) = Cardinality(Items)
=============================================================================
