------------------------------- MODULE MCModel ------------------------------
(***************************************************************************)
(* Model checking of the model's layers on the GPU: the raw and the packed *)
(* keys of sparse attention, its metadata and selection, short             *)
(* convolutions, gated delta nets, n-gram embeddings and the dispatch of   *)
(* captured graphs.                                                        *)
(*                                                                         *)
(* They do not interact in these models, so one behaviour runs one of      *)
(* them, `part'; the variables of the others are Off. QsaRing is extended, *)
(* and its variables rest in their initial state while another component   *)
(* runs.                                                                   *)
(***************************************************************************)
EXTENDS QsaRing, Sequences

VARIABLES
  part,  \* the component that runs
  \* QsaRing
  draftText, draftKnown, draftComputed, draftPhase, draftRows, draftDrafted,
  draftRing, draftPacked, draftPreempted,
  \* QsaMetadata
  lens, seqs, masked, padding, drafts, owner, position, slot, work, running,
  \* QsaSelect
  selLens, selSeqs, selPadding, maxQuery, score, start, written, row, out,
  \* ShortConv
  len, done, last, convSlot, restarts, mem, staged, wrong,
  \* GdnForward
  gdnLen, gdnDone, gdnLast, gdnSlot, gdnRestarts, conv, ssm, gdnWrong,
  \* NGramLookup
  tokens, idsComputed, idsWrong,
  tabRows, parts, mapped, table, views, missing, asked, got, hinted, read,
  \* GraphDispatch
  config, shapes, todo, graphs, captured, batch, desc

(* Score functions: every order of blocks in some row, ties.               *)
ScoresOf(n, width) ==
  {[t \in 0 .. n |-> [c \in 0 .. width - 1 |-> (t + c) % 3]],
   [t \in 0 .. n |-> [c \in 0 .. width - 1 |-> (5 * (t + 1) * (c + 2)) % 7]]}

GraphConfig(m, s, l, q, n, max, r, v) ==
  [mode |-> m, sizes |-> s, lens |-> l, q |-> q, maxReqs |-> n, maxSize |-> max,
   loras |-> r, varlen |-> v]
GraphModes == {"NONE", "PIECEWISE", "FULL", "FULL_DECODE_ONLY", "FULL_AND_PIECEWISE"}
GraphConfigs ==
  {GraphConfig(m, {2, 4, 6}, <<2>>, 2, 3, 6, {0}, FALSE) : m \in GraphModes}
    \union {GraphConfig(m, {1, 2, 3, 5}, <<3, 1>>, 3, 2, 5, {0, 2}, FALSE) : m \in GraphModes}
    \union {GraphConfig(m, {2, 3, 5}, <<2>>, 2, 3, 5, {0}, FALSE) : m \in GraphModes}
    \union {GraphConfig(m, {4, 7}, <<3, 2>>, 3, 3, 7, {0}, FALSE) : m \in GraphModes}
    \union {GraphConfig("FULL_AND_PIECEWISE", {1, 2, 4}, <<2>>, 2, 3, 4, {0}, TRUE)}

Off == "off"  \* value of the variables of components that do not run

(* The raw keys of the layer of the draft model.                           *)
DraftRing == INSTANCE QsaRing WITH Ratio <- 2, NumSpec <- 3, BlockSize <- 6,
  Prompt <- 3, MaxLen <- 11, MaxChunk <- 3, Versions <- 1, MaxPreempt <- 1,
  Drafter <- TRUE, text <- draftText, known <- draftKnown,
  computed <- draftComputed, phase <- draftPhase, rows <- draftRows,
  drafted <- draftDrafted, ring <- draftRing, packed <- draftPacked,
  preempted <- draftPreempted
draftVars == <<draftText, draftKnown, draftComputed, draftPhase, draftRows,
  draftDrafted, draftRing, draftPacked, draftPreempted>>
draftOff == draftText = Off /\ draftKnown = Off /\ draftComputed = Off
  /\ draftPhase = Off /\ draftRows = Off /\ draftDrafted = Off
  /\ draftRing = Off /\ draftPacked = Off /\ draftPreempted = Off

(* The metadata of the packed keys, of the ring, and of the packed keys of *)
(* more requests, whose search takes up to three steps.                    *)
Packed == INSTANCE QsaMetadata WITH MaxReqs <- 3, MaxQuery <- 3,
  MaxContext <- 2, MaxPadding <- 1, MaxMasked <- 1, MaxDrafts <- 2,
  Circular <- FALSE, Ring <- 2, Ratio <- 2, StorageBlock <- 2, Columns <- 1,
  TokenTile <- 5, WorkTile <- 4
RingSlots == INSTANCE QsaMetadata WITH MaxReqs <- 3, MaxQuery <- 4,
  MaxContext <- 2, MaxPadding <- 1, MaxMasked <- 0, MaxDrafts <- 2,
  Circular <- TRUE, Ring <- 2, Ratio <- 2, StorageBlock <- 2, Columns <- 1,
  TokenTile <- 5, WorkTile <- 2
Crowded == INSTANCE QsaMetadata WITH MaxReqs <- 5, MaxQuery <- 4,
  MaxContext <- 0, MaxPadding <- 0, MaxMasked <- 0, MaxDrafts <- 0,
  Circular <- FALSE, Ring <- 2, Ratio <- 2, StorageBlock <- 2, Columns <- 1,
  TokenTile <- 8, WorkTile <- 6
metaVars == <<lens, seqs, masked, padding, drafts, owner, position, slot, work,
  running>>
metaOff == lens = Off /\ seqs = Off /\ masked = Off /\ padding = Off
  /\ drafts = Off /\ owner = Off /\ position = Off /\ slot = Off /\ work = Off
  /\ running = Off

(* Selection of blocks by chunks of rows, and by the decode kernel.        *)
Chunks == INSTANCE QsaSelect WITH MaxReqs <- 2, MaxQuery <- 3, MaxContext <- 3,
  MaxPadding <- 1, Ratio <- 2, TopBlocks <- 2, PageSize <- 2, Pages <- 2,
  RowsPerChunk <- 3, DecodeQuery <- 2, MinRows <- 1, BlockN <- 2, TilesPerProg <- 1,
  TileR <- 2, PrefillTiles <- 2, Mode <- "0", Scores <- ScoresOf(7, 4),
  SplitTile <- 2, TargetSplits <- 2, lens <- selLens, seqs <- selSeqs,
  padding <- selPadding
Decoding == INSTANCE QsaSelect WITH MaxReqs <- 2, MaxQuery <- 3,
  MaxContext <- 2, MaxPadding <- 1, Ratio <- 2, TopBlocks <- 2, PageSize <- 2,
  Pages <- 2, RowsPerChunk <- 16, DecodeQuery <- 3, MinRows <- 2, BlockN <- 2,
  TilesPerProg <- 1, TileR <- 2, PrefillTiles <- 2, Mode <- "1",
  Scores <- ScoresOf(7, 4), SplitTile <- 1, TargetSplits <- 4, lens <- selLens,
  seqs <- selSeqs, padding <- selPadding
selVars == <<selLens, selSeqs, selPadding, maxQuery, score, start, written,
  row, out>>
selOff == selLens = Off /\ selSeqs = Off /\ selPadding = Off /\ maxQuery = Off
  /\ score = Off /\ start = Off /\ written = Off /\ row = Off /\ out = Off

(* Short convolutions with a draft, and without.                           *)
Conv == INSTANCE ShortConv WITH Requests <- {1, 2}, NumSlots <- 2,
  Prompt <- <<3, 1>>, MaxLen <- 4, MaxChunk <- 2, Restarts <- 0, Reach <- 2,
  NumSpec <- 1, MaxRows <- 2, Sizes <- {2}, slot <- convSlot
ConvPlain == INSTANCE ShortConv WITH Requests <- {1, 2}, NumSlots <- 2,
  Prompt <- <<3, 1>>, MaxLen <- 4, MaxChunk <- 2, Restarts <- 1, Reach <- 2,
  NumSpec <- 0, MaxRows <- 3, Sizes <- {2, 3}, slot <- convSlot
convVars == <<len, done, last, convSlot, restarts, mem, staged, wrong>>
convOff == len = Off /\ done = Off /\ last = Off /\ convSlot = Off
  /\ restarts = Off /\ mem = Off /\ staged = Off /\ wrong = Off

(* Gated delta nets with drafts, and three requests without.               *)
Gdn == INSTANCE GdnForward WITH Requests <- {1, 2}, NumSlots <- 2,
  Prompt <- <<2, 1>>, MaxLen <- 4, MaxChunk <- 2, Restarts <- 0, NumSpec <- 1,
  PackedDecode <- TRUE, FusedDecode <- TRUE, len <- gdnLen, done <- gdnDone,
  last <- gdnLast, slot <- gdnSlot, restarts <- gdnRestarts, wrong <- gdnWrong
GdnPlain == INSTANCE GdnForward WITH Requests <- 1 .. 3, NumSlots <- 3,
  Prompt <- <<2, 1, 1>>, MaxLen <- 3, MaxChunk <- 2, Restarts <- 0,
  NumSpec <- 0, PackedDecode <- FALSE, FusedDecode <- TRUE, len <- gdnLen,
  done <- gdnDone, last <- gdnLast, slot <- gdnSlot, restarts <- gdnRestarts,
  wrong <- gdnWrong
gdnVars == <<gdnLen, gdnDone, gdnLast, gdnSlot, gdnRestarts, conv, ssm,
  gdnWrong>>
gdnOff == gdnLen = Off /\ gdnDone = Off /\ gdnLast = Off /\ gdnSlot = Off
  /\ gdnRestarts = Off /\ conv = Off /\ ssm = Off /\ gdnWrong = Off

(* N-grams of the offload process with the table of one rank, and those of *)
(* the GPU with the table of two.                                          *)
OneRank == INSTANCE NGramLookup WITH Requests <- {1, 2}, Tokens <- {0, 1},
  NGramSize <- 3, MaxLen <- 3, MaxTokens <- 4, Offload <- TRUE, MaxRows <- 4,
  MaxParts <- 3, Ranks <- 1, HeadDim <- 3, Page <- 4, Data <- 1, MaxIds <- 2,
  computed <- idsComputed, wrong <- idsWrong
TwoRanks == INSTANCE NGramLookup WITH Requests <- {1, 2}, Tokens <- {0, 1},
  NGramSize <- 3, MaxLen <- 3, MaxTokens <- 4, Offload <- FALSE, MaxRows <- 6,
  MaxParts <- 3, Ranks <- 2, HeadDim <- 3, Page <- 4, Data <- 1, MaxIds <- 2,
  computed <- idsComputed, wrong <- idsWrong
idsVars == <<tokens, idsComputed, idsWrong>>
idsOff == tokens = Off /\ idsComputed = Off /\ idsWrong = Off
tabVars == <<tabRows, parts, mapped, table, views, missing, asked, got, hinted,
  read>>
tabOff == tabRows = Off /\ parts = Off /\ mapped = Off /\ table = Off
  /\ views = Off /\ missing = Off /\ asked = Off /\ got = Off /\ hinted = Off
  /\ read = Off

(* Configurations of the graphs: all modes, with and without draft         *)
(* lengths, LoRA counts and varlen; decode lengths that divide the sizes,  *)
(* and others, whose rounded counts lie between them.                      *)
Dispatch == INSTANCE GraphDispatch WITH Configs <- GraphConfigs, MaxTokens <- 7
graphVars == <<config, shapes, todo, graphs, captured, batch, desc>>
graphOff == config = Off /\ shapes = Off /\ todo = Off /\ graphs = Off
  /\ captured = Off /\ batch = Off /\ desc = Off

ASSUME Instances ==
  /\ Packed!QsaMetadataAssumption
  /\ RingSlots!QsaMetadataAssumption
  /\ Crowded!QsaMetadataAssumption
  /\ Chunks!QsaSelectAssumption
  /\ Decoding!QsaSelectAssumption
  /\ Conv!ConvAssumption
  /\ ConvPlain!ConvAssumption
  /\ Gdn!GdnAssumption
  /\ GdnPlain!GdnAssumption
  /\ OneRank!NGramAssumption
  /\ TwoRanks!NGramAssumption
  /\ Dispatch!ConfigAssumption

-----------------------------------------------------------------------------
Parts == {"ring", "drafter", "packed", "circular", "crowded", "chunks",
  "decode", "conv", "conv plain", "gdn", "gdn plain", "cpu ids", "gpu ids",
  "table", "ranks", "dispatch"}

SuiteInit ==
  /\ part \in Parts
  /\ QsaRingInit
  /\ IF part = "drafter" THEN DraftRing!QsaRingInit ELSE draftOff
  /\ CASE part = "packed" -> Packed!QsaMetadataInit
       [] part = "circular" -> RingSlots!QsaMetadataInit
       [] part = "crowded" -> Crowded!QsaMetadataInit
       [] OTHER -> metaOff
  /\ CASE part = "chunks" -> Chunks!QsaSelectInit
       [] part = "decode" -> Decoding!QsaSelectInit
       [] OTHER -> selOff
  /\ CASE part = "conv" -> Conv!ConvInit
       [] part = "conv plain" -> ConvPlain!ConvInit
       [] OTHER -> convOff
  /\ CASE part = "gdn" -> Gdn!GdnInit
       [] part = "gdn plain" -> GdnPlain!GdnInit
       [] OTHER -> gdnOff
  /\ CASE part = "cpu ids" -> OneRank!NInit
       [] part = "gpu ids" -> TwoRanks!NInit
       [] OTHER -> idsOff
  /\ CASE part = "table" -> OneRank!TInit
       [] part = "ranks" -> TwoRanks!TInit
       [] OTHER -> tabOff
  /\ IF part = "dispatch" THEN Dispatch!DispatchInit ELSE graphOff

SuiteNext ==
  /\ IF part = "ring" THEN QsaRingNext ELSE UNCHANGED qrvars
  /\ IF part = "drafter" THEN DraftRing!QsaRingNext ELSE UNCHANGED draftVars
  /\ CASE part = "packed" -> Packed!QsaMetadataNext
       [] part = "circular" -> RingSlots!QsaMetadataNext
       [] part = "crowded" -> Crowded!QsaMetadataNext
       [] OTHER -> UNCHANGED metaVars
  /\ CASE part = "chunks" -> Chunks!QsaSelectNext
       [] part = "decode" -> Decoding!QsaSelectNext
       [] OTHER -> UNCHANGED selVars
  /\ CASE part = "conv" -> Conv!ConvNext
       [] part = "conv plain" -> ConvPlain!ConvNext
       [] OTHER -> UNCHANGED convVars
  /\ CASE part = "gdn" -> Gdn!GdnNext
       [] part = "gdn plain" -> GdnPlain!GdnNext
       [] OTHER -> UNCHANGED gdnVars
  /\ CASE part = "cpu ids" -> OneRank!NNext
       [] part = "gpu ids" -> TwoRanks!NNext
       [] OTHER -> UNCHANGED idsVars
  /\ CASE part = "table" -> OneRank!TNext
       [] part = "ranks" -> TwoRanks!TNext
       [] OTHER -> UNCHANGED tabVars
  /\ IF part = "dispatch" THEN Dispatch!DispatchNext ELSE UNCHANGED graphVars
  /\ UNCHANGED part

suiteVars == <<part, qrvars, draftVars, metaVars, selVars, convVars, gdnVars,
  idsVars, tabVars, graphVars>>
SuiteSpec == SuiteInit /\ [][SuiteNext]_suiteVars

-----------------------------------------------------------------------------
(* Rows, slots and work items that the metadata kernels write are those of *)
(* the batch, each once, the newest keys stay in the ring; the selection   *)
(* attends to the best complete groups and the open one, each token once;  *)
(* and the draft model's ring and packed keys are exact like the target's  *)
(* (qsa_metadata.py, qsa_topk.py, qsa_indexer.py).                         *)
QsaExact ==
  /\ part = "packed" => Packed!RowsExact /\ Packed!CompressedComplete /\ Packed!WorkExact
  /\ part = "crowded" => Crowded!RowsExact /\ Crowded!CompressedComplete /\ Crowded!WorkExact
  /\ part = "circular" => RingSlots!RowsExact /\ RingSlots!SlotsDistinct /\ RingSlots!RingHoldsNewest
  /\ part = "chunks" => Chunks!SelectedExact /\ Chunks!AttendedOnce
  /\ part = "decode" => Decoding!SelectedExact /\ Decoding!AttendedOnce
  /\ part = "drafter" => DraftRing!OpenGroupKept /\ DraftRing!VisibleExact

(* The recurrent layers put out for every token that is kept what its      *)
(* request's own tokens give, and keep its state exact behind rollbacks,   *)
(* in whatever batch, chunk or graph a token comes (short_conv_attn.py,    *)
(* qwen_gdn_linear_attn.py).                                               *)
StatesExact ==
  /\ part = "conv" => Conv!WindowsExact /\ Conv!StateExact
  /\ part = "conv plain" => ConvPlain!WindowsExact /\ ConvPlain!StateExact
  /\ part = "gdn" => Gdn!OutputsExact /\ Gdn!StateExact
  /\ part = "gdn plain" => GdnPlain!OutputsExact /\ GdnPlain!StateExact

(* Tokens are looked up with the n-grams of their own request, and every   *)
(* id finds its own row, in memory or in the hinted pages of the           *)
(* checkpoint, whatever the parts and the ranks (ple_layer.py).            *)
LookupsExact ==
  /\ part = "cpu ids" => OneRank!NGramsExact
  /\ part = "gpu ids" => TwoRanks!NGramsExact
  /\ part = "table" => OneRank!LookupExact /\ OneRank!PagesHinted
  /\ part = "ranks" => TwoRanks!LookupExact

(* A batch is run with a graph that was captured, holds it, and pads it    *)
(* least.  It is run eagerly only where no graph holds it, or where every  *)
(* graph that does lies behind a token count captured for decode batches   *)
(* of another length alone (cudagraph_utils.py, _init_candidates,          *)
(* dispatch).                                                              *)
DispatchExact ==
  part = "dispatch" => /\ Dispatch!DispatchTypeOK /\ Dispatch!GraphHolds /\ Dispatch!LeastPadding
                       /\ Dispatch!EagerBetween /\ Dispatch!CapturedOnce
=============================================================================
