----------------------------- MODULE QsaSelect -----------------------------
(***************************************************************************)
(* The tokens a QSA layer attends to (ops/qsa_special.py, select, its      *)
(* kernels in qsa_special_kernels.py, and top-k, expansion and attention   *)
(* of ops/qsa.py).  The rows of a batch are scored against the compressed  *)
(* keys of complete groups ("blocks" of Ratio tokens), in chunks of rows   *)
(* that fit the workspace; the best TopBlocks are expanded to tokens, the  *)
(* tokens of the open group are added, and the attention kernel splits the *)
(* list over its programs.                                                 *)
(*                                                                         *)
(* Score buffers are not cleared: what no program writes is Junk, above    *)
(* every score.  The top-k operators are external: they pick the best      *)
(* among the first visible columns, in any order, and leave the rest of    *)
(* their output as it is.  Pages outside of the cache, whose columns score *)
(* minus infinity, do not occur.  The tiles of a decode program are a      *)
(* constant here, 1, 2, 4 or 8 by the number of programs in the code.      *)
(***************************************************************************)
EXTENDS Integers, Sequences, FiniteSets, FiniteSetsExt

CONSTANTS
  MaxReqs, MaxQuery, MaxContext, MaxPadding,   \* bounds on a batch
  Ratio, TopBlocks,         \* compress_ratio, token_topk // ratio
  PageSize, Pages,          \* page_size, columns of the block table
  RowsPerChunk,             \* rows whose scores fit the workspace
  DecodeQuery,              \* longest query of the decode kernel
  MinRows,                  \* fewest rows of its products: 16 // padded heads
  BlockN, TilesPerProg,     \* columns of a tile, tiles of a program
  TileR, PrefillTiles,      \* rows of a prefill program, its tiles
  Mode,                     \* _QSA_TOPK_MODE
  Scores,                   \* score functions: score[row][block]
  SplitTile, TargetSplits   \* block_n, target_splits of the attention

(* What the constants may be.                                              *)
QsaSelectAssumption ==
  /\ {Ratio, TopBlocks, PageSize, Pages, RowsPerChunk, DecodeQuery, MinRows, BlockN,
      TilesPerProg, TileR, PrefillTiles, SplitTile, TargetSplits} \subseteq Nat \ {0}
  /\ Mode \in {"0", "fill", "1"}

VARIABLES
  lens, seqs,   \* query and sequence length of each request
  padding,      \* padding rows
  maxQuery,     \* max_query_len, as the batch or the captured graph has it
  score,        \* what the kernels compute
  start,        \* chunk of rows that is being selected
  written,      \* columns of its rows' scores that are written
  row,          \* row selected last, -1: none
  out           \* its token indices
qsvars == <<lens, seqs, padding, maxQuery, score, start, written, row, out>>

Junk == 9      \* uninitialised score
Hidden == -1   \* minus infinity

CeilDiv(a, b) == (a + b - 1) \div b

(* triton.next_power_of_2.                                                 *)
NextPowerOf2(n) == Min({m \in {2 ^ k : k \in 0 .. n} : m >= n})

Requests == DOMAIN lens
QueryStart(r) == FoldSet(LAMBDA s, n : lens[s] + n, 0, {s \in Requests : s < r})
Mapped == QueryStart(Cardinality(Requests))
NumRows == Mapped + padding
OwnerOf(t) == CHOOSE r \in Requests : QueryStart(r) <= t /\ t < QueryStart(r + 1)
PositionOf(t) == IF t < Mapped THEN seqs[OwnerOf(t)] - lens[OwnerOf(t)] + t - QueryStart(OwnerOf(t)) ELSE -1
SeqLen(t) == IF t < Mapped THEN seqs[OwnerOf(t)] ELSE seqs[0]
Columns == Pages * PageSize

(* _visible_kernel.                                                        *)
Visible(t) == Min({(PositionOf(t) + 1) \div Ratio, SeqLen(t) \div Ratio})

-----------------------------------------------------------------------------
(* Chunks of rows, and the kernel that scores them.                        *)
ChunkEnd(from) == Min({from + RowsPerChunk, NumRows})
Decode == maxQuery <= DecodeQuery /\ NumRows <= RowsPerChunk

(* Columns a program with so many tiles from its first one writes, given   *)
(* the most visible blocks of its rows.                                    *)
TileColumns(tile, tiles, most) ==
  {c \in 0 .. Columns - 1 :
     /\ tile * BlockN < most
     /\ tile <= c \div BlockN /\ c \div BlockN < Min({tile + tiles, CeilDiv(most, BlockN)})}

(* _qsa_mqa_paged_uniform_kernel: a program has all rows of a request.     *)
DecodeRows(r) == {t \in QueryStart(r) .. QueryStart(r + 1) - 1 :
                    t - QueryStart(r) < Max({NextPowerOf2(maxQuery), MinRows})}
DecodeColumns(t) ==
  UNION {LET most == Max({Visible(u) : u \in DecodeRows(r)})
         IN  {c \in TileColumns(p * TilesPerProg, TilesPerProg, most) : c < Visible(t)} :
           r \in {q \in Requests : t \in DecodeRows(q)},
           p \in 0 .. CeilDiv(Columns, BlockN * TilesPerProg) - 1}

(* _qsa_mqa_paged_prefill_kernel on the rows of a chunk: a program has a   *)
(* tile of a request's rows in the chunk.                                  *)
FirstRow(r, from) == Max({QueryStart(r), from})
PrefillRows(r, i, from, end) ==
  {t \in from .. end - 1 :
     LET first == FirstRow(r, from) + (i * TileR)
     IN  /\ first <= t /\ t < first + TileR
         /\ t < Min({QueryStart(r + 1), end})}
PrefillColumns(t, from, end) ==
  UNION {LET rows == PrefillRows(r, i, from, end)
             most == Max({0} \union {Visible(u) : u \in rows})
         IN  {c \in TileColumns(p * PrefillTiles, PrefillTiles, most) : t \in rows /\ c < Visible(t)} :
           r \in Requests,
           i \in 0 .. CeilDiv(Min({end - from, maxQuery}), TileR) - 1,
           p \in 0 .. CeilDiv(Columns, BlockN * PrefillTiles) - 1}

Scored(from) ==
  [t \in from .. ChunkEnd(from) - 1 |->
     IF Decode THEN DecodeColumns(t) ELSE PrefillColumns(t, from, ChunkEnd(from))]
Logit(t, c) == IF c \in written[t] THEN score[t][c] ELSE Junk

-----------------------------------------------------------------------------
(* Top-k: the possible contents of a row of the blocks buffer.  A column   *)
(* is 0 where nothing is written.                                          *)
Injections(n, s) ==
  {f \in [0 .. n - 1 -> s] : \A i, j \in 0 .. n - 1 : f[i] = f[j] => i = j}
Best(f, n, value, s) ==
  \A i \in 0 .. n - 1 : \A c \in s \ {f[j] : j \in 0 .. n - 1} : value[f[i]] >= value[c]

(* _qsa_mask_invisible_: the scores the top-k sees.                        *)
Values(t) ==
  [c \in 0 .. Columns - 1 |->
     IF Mode # "0" /\ c >= Visible(t) THEN Hidden ELSE Logit(t, c)]

(* _qsa_exact_topk: the masked columns are sorted.                         *)
Sorted(f, n, value) == \A i, j \in 0 .. n - 1 : i < j => value[f[i]] >= value[f[j]]
ExactTopk(t) ==
  LET k == Min({TopBlocks, Columns})
  IN  {[i \in 0 .. TopBlocks - 1 |-> IF i < k THEN f[i] ELSE -1] :
         f \in {g \in Injections(k, 0 .. Columns - 1) :
                  Sorted(g, k, Values(t)) /\ Best(g, k, Values(t), 0 .. Columns - 1)}}

(* The operators; 0 is what an earlier chunk may have left.                *)
OperatorTopk(t) ==
  LET k == Min({TopBlocks, Visible(t)})
  IN  {[i \in 0 .. TopBlocks - 1 |-> IF i < k THEN f[i] ELSE 0] :
         f \in {g \in Injections(k, 0 .. Visible(t) - 1) :
                  Best(g, k, Values(t), 0 .. Visible(t) - 1)}}

(* _expand_qsa_indices_kernel.                                             *)
Complete(t) == Min({(PositionOf(t) + 1) \div Ratio, SeqLen(t) \div Ratio, TopBlocks})
Expanded(t) == Complete(t) * Ratio
TailStart(t) == ((PositionOf(t) + 1) \div Ratio) * Ratio
TailCount(t) == PositionOf(t) + 1 - TailStart(t)
OutputWidth == (TopBlocks * Ratio) + Ratio - 1
Expansion(t, blocks) ==
  [c \in 0 .. OutputWidth - 1 |->
     LET inBlocks == c < Expanded(t)
         tail == c - Expanded(t)
         token == IF inBlocks THEN (blocks[c \div Ratio] * Ratio) + (c % Ratio) ELSE TailStart(t) + tail
     IN  IF /\ inBlocks \/ (tail >= 0 /\ tail < TailCount(t) /\ tail < Ratio - 1)
            /\ token >= 0 /\ token < SeqLen(t)
         THEN token ELSE -1]

-----------------------------------------------------------------------------
Batches(n) ==
  {b \in [0 .. n - 1 -> (0 .. MaxQuery) \X (0 .. MaxContext)] :
     \A r \in 0 .. n - 1 : b[r][1] = 0 => (b[r][2] = 0 /\ \A s \in r .. n - 1 : b[s][1] = 0)}

QsaSelectInit ==
  /\ \E n \in 1 .. MaxReqs : \E b \in Batches(n) :
       /\ lens = [r \in 0 .. n - 1 |-> b[r][1]]
       /\ seqs = [r \in 0 .. n - 1 |-> b[r][1] + b[r][2]]
  /\ padding \in 0 .. MaxPadding
  /\ maxQuery \in {m \in 1 .. MaxQuery : \A r \in Requests : lens[r] <= m}
  /\ score \in Scores
  /\ start = -RowsPerChunk /\ written = <<>> /\ row = -1 /\ out = <<>>

SelectRow ==
  /\ row + 1 \in DOMAIN written /\ row' = row + 1
  /\ \E blocks \in IF Mode = "1" THEN ExactTopk(row') ELSE OperatorTopk(row') :
       out' = Expansion(row', blocks)
  /\ UNCHANGED <<lens, seqs, padding, maxQuery, score, start, written>>
NextChunk ==
  /\ row + 1 \notin DOMAIN written /\ start + RowsPerChunk < NumRows
  /\ start' = start + RowsPerChunk /\ written' = Scored(start')
  /\ UNCHANGED <<lens, seqs, padding, maxQuery, score, row, out>>
QsaSelectNext == SelectRow \/ NextChunk
QsaSelectSpec == QsaSelectInit /\ [][QsaSelectNext]_qsvars

-----------------------------------------------------------------------------
(* The split attention kernel: columns each split reads.                   *)
Tiles == CeilDiv(OutputWidth, SplitTile)
Splits == Min({Max({2 ^ k : k \in {j \in 0 .. Tiles : 2 ^ j <= Tiles}}), TargetSplits})
SplitStart(i) == (i * Tiles) \div Splits
Attended(i) ==
  {c \in 0 .. OutputWidth - 1 :
     /\ SplitStart(i) <= c \div SplitTile /\ c \div SplitTile < SplitStart(i + 1)
     /\ out[c] >= 0 /\ out[c] \div (PageSize * Ratio) < Pages}

-----------------------------------------------------------------------------
Listed == {c \in DOMAIN out : out[c] # -1}
Blocks(t) == 0 .. ((PositionOf(t) + 1) \div Ratio) - 1
Open(t) == {p \in 0 .. PositionOf(t) : p \div Ratio \notin Blocks(t)}

(* A row's list holds, each token once, the tokens of the best blocks that *)
(* are complete up to the row's position, all of them when they are few,   *)
(* and the tokens of its open group up to itself: nothing behind the row,  *)
(* nothing of another request's score, nothing from a score that was never *)
(* written (select and the kernels it runs, over chunks and tiles).        *)
SelectedExact ==
  row >= 0 =>
    LET t == row
        chosen == {out[c] \div Ratio : c \in {d \in Listed : out[d] \div Ratio \in Blocks(t)}}
    IN  /\ Cardinality(Listed) = Cardinality({out[c] : c \in Listed})
        /\ Cardinality(chosen) = Min({TopBlocks, Cardinality(Blocks(t))})
        /\ {out[c] : c \in Listed} =
             {p \in 0 .. PositionOf(t) : p \div Ratio \in chosen} \union Open(t)
        /\ \A a \in chosen, b \in Blocks(t) \ chosen : score[t][a] >= score[t][b]

(* Every listed token is attended to by exactly one split.                 *)
AttendedOnce ==
  row >= 0 =>
    \A c \in Listed : Cardinality({i \in 0 .. Splits - 1 : c \in Attended(i)}) = 1
=============================================================================
