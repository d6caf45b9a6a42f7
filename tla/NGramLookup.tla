----------------------------- MODULE NGramLookup ----------------------------
(***************************************************************************)
(* The n-grams a PLE layer looks up (ple_layer.py,                         *)
(* Qwen3_8FlashNextNGramEmbedding.forward_impl; the context before a chunk *)
(* is gathered by model_state.py).  A chunk's tokens are packed one row a  *)
(* request behind the NGramSize - 1 tokens before it; the n-grams of a     *)
(* token end at it and do not reach over an end-of-sequence token.         *)
(*                                                                         *)
(* The same code runs in the CPU process, where it narrows its workspace   *)
(* to the longest chunk (Offload), and inside the CUDA graphs.  The hash   *)
(* of an n-gram is the n-gram.  The table the hashes are looked up in is   *)
(* modelled on its own behind them (TNext).                                *)
(***************************************************************************)
EXTENDS Integers, Sequences, FiniteSets, FiniteSetsExt, SequencesExt

CONSTANTS
  Requests,
  Tokens,      \* token ids, Eos one of them
  NGramSize,   \* ngram_size
  MaxLen,      \* bound on the tokens of a request
  MaxTokens,   \* widest batch (max_num_tokens)
  Offload,     \* is_offload_process()
  MaxRows,     \* of the table: bound on its rows
  MaxParts,    \* bound on split_ngram_parts
  Ranks,       \* tensor parallel ranks
  HeadDim,     \* bytes of a row
  Page,        \* bytes of a page
  Data,        \* offset of the first part in its file
  MaxIds       \* bound on the ids of a lookup

Eos == 0     \* eos_token_id

(* What the constants may be.                                              *)
NGramAssumption ==
  /\ Requests \subseteq Nat /\ IsFiniteSet(Requests) /\ Requests # {}
  /\ Eos \in Tokens /\ NGramSize \in Nat \ {0, 1}
  /\ {MaxLen, MaxTokens} \subseteq Nat \ {0} /\ Offload \in BOOLEAN
  /\ {MaxRows, MaxParts, Ranks, Page, MaxIds} \subseteq Nat \ {0} /\ Data \in Nat
  /\ HeadDim \in 1 .. Page

VARIABLES
  tokens,     \* all_token_ids, up to what is known of each request
  computed,   \* num_computed_tokens
  wrong       \* tokens of the last batch looked up with other n-grams
nvars == <<tokens, computed, wrong>>

Bound(x, low, high) == IF x < low THEN low ELSE IF x > high THEN high ELSE x
ContextLen == NGramSize - 1

-----------------------------------------------------------------------------
(* A batch: in order, the requests with the tokens of their chunks.        *)
Starts(b) == [i \in 0 .. Len(b) |-> FoldSeq(LAMBDA e, n : Len(e.chunk) + n, 0, SubSeq(b, 1, i))]
Total(b) == Starts(b)[Len(b)]
InputIds(b, padded, stale) ==
  FlattenSeq([i \in DOMAIN b |-> b[i].chunk]) \o [i \in 1 .. padded - Total(b) |-> stale]

(* Start of each request's tokens, for rows requests: those of padding are *)
(* empty.                                                                  *)
QueryStartLoc(b, rows) == [i \in 0 .. rows |-> IF i <= Len(b) THEN Starts(b)[i] ELSE Total(b)]

(* The tokens before the chunk.  Mutant: those before the last known one.  *)
ContextUpToKnown(r) == Len(tokens[r]) - 1
ContextEnd(r) == computed[r]
NGramContext(b, rows) ==
  [i \in 0 .. rows - 1 |-> [j \in 1 .. ContextLen |->
     LET p == ContextEnd(b[i + 1].req) - ContextLen + j
     IN  IF i < Len(b) /\ p > 0 THEN tokens[b[i + 1].req][p] ELSE Eos]]

-----------------------------------------------------------------------------
(* forward_impl.  Positions, rows and columns count from 0.                *)
RowOf(loc, rows, p) ==
  Bound(Cardinality({i \in 0 .. rows : loc[i] <= p}) - 1, 0, rows - 1)
Width(loc, rows) ==
  IF Offload THEN Max({1} \union {loc[i] - loc[i - 1] : i \in 1 .. rows}) ELSE MaxTokens
ColumnOf(loc, rows, p) == Bound(p - loc[RowOf(loc, rows, p)], 0, Width(loc, rows) - 1)

(* Tokens that are packed.  Mutant: padding is packed too.                 *)
WithPadding(loc, rows, padded) == padded
ValidTokens(loc, rows, padded) ==
  IF Offload /\ loc[rows] < padded THEN loc[rows] ELSE padded

Packed(loc, rows, ids) ==
  [i \in 0 .. rows - 1 |-> [c \in 0 .. Width(loc, rows) - 1 |->
     LET from == {p \in 0 .. ValidTokens(loc, rows, Len(ids)) - 1 :
                    RowOf(loc, rows, p) = i /\ ColumnOf(loc, rows, p) = c}
     IN  IF from = {} THEN Eos ELSE ids[Max(from) + 1]]]

(* Position of the last end of sequence before p, -1: none.  Mutant: at p  *)
(* or before.                                                              *)
EosUpTo(row, p) == Max({-1} \union {q \in 0 .. p : row[q] = Eos})
PreviousEos(row, p) == Max({-1} \union {q \in 0 .. p - 1 : row[q] = Eos})
InSegment(row, p) == p - PreviousEos(row, p) - 1

(* Mutant: whatever is shift tokens before.                                *)
AnySegment(row, p, shift) == p - shift >= 0
Reaches(row, p, shift) == p - shift >= 0 /\ InSegment(row, p) >= shift
Shifted(row, p, shift) == IF shift = 0 \/ Reaches(row, p, shift) THEN row[p - shift] ELSE Eos

Context(context, packed, i) ==
  [c \in 0 .. ContextLen + Cardinality(DOMAIN packed[i]) - 1 |->
     IF c < ContextLen THEN context[i][c + 1] ELSE packed[i][c - ContextLen]]

(* Of each token the n-grams of 2 .. NGramSize tokens, the last one first. *)
NGrams(loc, rows, ids, context) ==
  LET packed == Packed(loc, rows, ids)
  IN  [k \in DOMAIN ids |->
         LET i == RowOf(loc, rows, k - 1)
             row == Context(context, packed, i)
             p == ColumnOf(loc, rows, k - 1) + NGramSize - 1
         IN  [n \in 2 .. NGramSize |-> [s \in 0 .. n - 1 |-> Shifted(row, p, s)]]]

-----------------------------------------------------------------------------
(* The n-gram that ends at position p of a text.                           *)
TrueNGram(text, p, n) ==
  [s \in 0 .. n - 1 |->
     IF p - s >= 1 /\ \A q \in p - s .. p - 1 : text[q] # Eos THEN text[p - s] ELSE Eos]
TrueNGrams(e) ==
  LET text == SubSeq(tokens[e.req], 1, computed[e.req]) \o e.chunk
  IN  [j \in DOMAIN e.chunk |->
         [n \in 2 .. NGramSize |-> TrueNGram(text, computed[e.req] + j, n)]]

(* A chunk has known tokens only, or the last known one and drafts.        *)
Chunks(r) ==
  {SubSeq(tokens[r], computed[r] + 1, computed[r] + q) : q \in 1 .. Len(tokens[r]) - computed[r]}
    \union (IF computed[r] = Len(tokens[r]) - 1 /\ Len(tokens[r]) < MaxLen
              THEN {<<tokens[r][Len(tokens[r])], t>> : t \in Tokens} ELSE {})
Entries == UNION {{[req |-> r, chunk |-> c] : c \in Chunks(r)} : r \in Requests}
Batches ==
  {b \in UNION {[1 .. n -> Entries] : n \in 1 .. Cardinality(Requests)} :
     /\ \A i, j \in DOMAIN b : i # j => b[i].req # b[j].req
     /\ Total(b) <= MaxTokens}

NInit ==
  /\ tokens \in [Requests -> UNION {[1 .. n -> Tokens] : n \in 1 .. 2}]
  /\ computed = [r \in Requests |-> 0] /\ wrong = {}

(* The batch is padded to a graph's tokens and, outside the CPU process    *)
(* (the connector passes the requests there are), to its requests.         *)
Forward(b, padded, rows, stale) ==
  LET ids == InputIds(b, padded, stale)
      seen == NGrams(QueryStartLoc(b, rows), rows, ids, NGramContext(b, rows))
      true == FlattenSeq([i \in DOMAIN b |-> TrueNGrams(b[i])])
  IN  wrong' = {k \in DOMAIN true : seen[k] # true[k]}

(* Accepted drafts and sampled tokens are appended.                        *)
Accept(b) ==
  \E kept \in [DOMAIN b -> 1 .. MaxTokens], next \in Tokens :
    /\ \A i \in DOMAIN b :
         /\ kept[i] <= Len(b[i].chunk)
         /\ kept[i] # Len(b[i].chunk) => computed[b[i].req] + Len(b[i].chunk) > Len(tokens[b[i].req])
    /\ LET of(r) == {i \in DOMAIN b : b[i].req = r}
           done(r) == IF of(r) = {} THEN computed[r] ELSE computed[r] + kept[Max(of(r))]
           text(r) == SubSeq(tokens[r], 1, computed[r]) \o SubSeq(b[Max(of(r))].chunk, 1, kept[Max(of(r))])
       IN  /\ computed' = [r \in Requests |-> done(r)]
           /\ tokens' = [r \in Requests |->
                IF done(r) < Len(tokens[r]) THEN tokens[r]
                ELSE Append(text(r), next)]
           /\ \A r \in Requests : Len(tokens'[r]) <= MaxLen

NNext ==
  \E b \in Batches :
    /\ \E padded \in {Total(b), MaxTokens}, stale \in Tokens \ {Eos},
          rows \in (IF Offload THEN {Len(b)} ELSE Len(b) .. Cardinality(Requests)) :
         Forward(b, padded, rows, stale)
    /\ Accept(b)

NSpec == NInit /\ [][NNext]_nvars

-----------------------------------------------------------------------------
(* However a text is cut into chunks, batched, padded and speculated on,   *)
(* each token is looked up by the n-grams that end at it.                  *)
NGramsExact == wrong = {}

-----------------------------------------------------------------------------
(* The table a PLE layer looks its n-grams up in (ple_layer.py).  The      *)
(* checkpoint holds it as parts of equal size, the last ones shorter or    *)
(* empty; they arrive in any order and are copied into the ranks' rows, or *)
(* stay in the files and are read there (_PleMmapTable), with hints to the *)
(* kernel for the pages of a lookup.                                       *)
VARIABLES
  tabRows, parts,  \* org_vocab_size, split_ngram_parts
  mapped,       \* _ple_mmap_enabled()
  table,        \* of each rank: its rows, <<part, row of the part>> or Unset
  views,        \* parts that can be read in the files
  missing,      \* parts still to load
  asked, got,   \* ids of the last lookup and what it returned
  hinted, read  \* <<part, page>>: hints of the last lookup, pages it read
tvars == <<tabRows, parts, mapped, table, views, missing, asked, got, hinted, read>>

Unset == <<>>
CeilDiv(a, b) == (a + b - 1) \div b
Smaller(a, b) == IF a < b THEN a ELSE b

(* Rows of a part and the first of them.  Mutant: every part as long as    *)
(* this one.                                                               *)
ShardSize == CeilDiv(tabRows, parts)
ExpectedRows(part) ==
  IF tabRows < part * ShardSize THEN 0 ELSE Smaller(ShardSize, tabRows - (part * ShardSize))
StartOfEqual(part) == part * ExpectedRows(part)
CheckpointStart(part) == part * ShardSize

RankRows == tabRows \div Ranks

TInit ==
  /\ tabRows \in {n \in 1 .. MaxRows : n % Ranks = 0} /\ parts \in 1 .. MaxParts
  /\ mapped \in (IF Ranks = 1 THEN BOOLEAN ELSE {FALSE})
  /\ table = [k \in 0 .. Ranks - 1 |-> [i \in 0 .. (tabRows \div Ranks) - 1 |-> Unset]]
  /\ views = {} /\ missing = 0 .. parts - 1
  /\ asked = <<>> /\ got = <<>> /\ hinted = {} /\ read = {}

(* load_weights.  The first part opens the files of all.                   *)
LoadPart(part) ==
  /\ part \in missing /\ missing' = missing \ {part}
  /\ IF mapped
       THEN views' = 0 .. parts - 1 /\ table' = table
       ELSE /\ views' = views
            /\ table' = [k \in 0 .. Ranks - 1 |-> [i \in 0 .. RankRows - 1 |->
                 LET j == (k * RankRows) + i - CheckpointStart(part)
                 IN  IF j \in 0 .. ExpectedRows(part) - 1 THEN <<part, j>> ELSE table[k][i]]]
  /\ UNCHANGED <<tabRows, parts, mapped, asked, got, hinted, read>>

-----------------------------------------------------------------------------
(* Ids sorted by part, stably: ids are positions in the lookup.  Each part *)
(* puts its rows out where its ids were.                                   *)
PartOf(id) == id \div ShardSize
Order(ids) ==
  FlattenSeq([k \in 1 .. parts |-> SelectSeq([i \in DOMAIN ids |-> i], LAMBDA i : PartOf(ids[i]) = k - 1)])
LowerBound(ids, part) == Cardinality({i \in DOMAIN ids : PartOf(ids[i]) < part})

(* Mutant: where they come in the sorted list.                             *)
SortedPlace(order, k) == k
Place(order, k) == order[k]

Gather(ids) ==
  LET order == Order(ids)
  IN  [i \in DOMAIN ids |->
         LET from == {k \in DOMAIN order : Place(order, k) = i}
             k == Max(from)
             part == CHOOSE s \in 0 .. parts - 1 : LowerBound(ids, s) < k /\ k <= LowerBound(ids, s + 1)
         IN  IF from = {} THEN Unset ELSE <<part, ids[order[k]] - (part * ShardSize)>>]

(* Pages of the first and the last byte of each row; runs of adjacent      *)
(* pages, one hint each.  Mutant: a run ends at its last page.             *)
FirstByte(part, j) == Data + (CheckpointStart(part) + j) * HeadDim
EndPages(part, js) ==
  {FirstByte(part, j) \div Page : j \in js} \union {(FirstByte(part, j) + HeadDim - 1) \div Page : j \in js}
ShortRun(first, last) == first .. last - 1
Run(first, last) == first .. last
Hints(part, js) ==
  LET pages == EndPages(part, js)
  IN  UNION {Run(p, q) : <<p, q>> \in
        {x \in pages \X pages : /\ x[1] <= x[2] /\ x[1] - 1 \notin pages /\ x[2] + 1 \notin pages
                                /\ x[1] .. x[2] \subseteq pages}}
PagesOf(part, j) == {(FirstByte(part, j) + b) \div Page : b \in 0 .. HeadDim - 1}

(* VocabParallelEmbedding: the rank that has the row.                      *)
Embedded(id) == table[id \div RankRows][id % RankRows]

Lookup(ids) ==
  /\ missing = {} /\ asked' = ids
  /\ IF mapped
       THEN LET of(part) == {ids[i] - (part * ShardSize) : i \in {x \in DOMAIN ids : PartOf(ids[x]) = part}}
            IN  /\ got' = Gather(ids)
                /\ hinted' = UNION {{part} \X Hints(part, of(part)) : part \in {PartOf(ids[i]) : i \in DOMAIN ids}}
                /\ read' = UNION {{g[1]} \X PagesOf(g[1], g[2]) : g \in ToSet(got') \ {Unset}}
       ELSE /\ got' = [i \in DOMAIN ids |-> Embedded(ids[i])] /\ UNCHANGED <<hinted, read>>
  /\ UNCHANGED <<tabRows, parts, mapped, table, views, missing>>

TNext ==
  \/ \E part \in 0 .. MaxParts - 1 : LoadPart(part)
  \/ \E ids \in UNION {[1 .. n -> 0 .. tabRows - 1] : n \in 1 .. MaxIds} : Lookup(ids)

TSpec == TInit /\ [][TNext]_tvars

-----------------------------------------------------------------------------
(* Row id of the table is row id of the parts laid end to end, whatever    *)
(* their number, the order they were loaded in and the ranks.              *)
LookupExact ==
  LET laid == FlattenSeq([p \in 1 .. parts |-> [j \in 1 .. ExpectedRows(p - 1) |-> <<p - 1, j - 1>>]])
  IN  Len(laid) = tabRows /\ \A i \in DOMAIN asked : got[i] = laid[asked[i] + 1]

(* A lookup in the files faults on no page without a hint (ple_layer.py:   *)
(* "Lookups hint the kernel first").                                       *)
PagesHinted == read \subseteq hinted
=============================================================================
