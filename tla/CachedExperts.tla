---------------------------- MODULE CachedExperts ----------------------------
(***************************************************************************)
(* A MoE layer whose experts live in mapped host memory and of which some  *)
(* are kept on the GPU (CompressedTensorsWNA16MoEMethod when not hot-only, *)
(* tiered_runtime.py, tiered_vmm.py).  How they are kept depends on the    *)
(* mode:                                                                   *)
(*   "none"    no cache;                                                   *)
(*   "static"  copies of the best ranked; hot and cold maps, two kernels;  *)
(*   "stage"   the same copies, gathered with cold rows before one kernel; *)
(*   "lru"     copies replaced as decode steps need them; large steps see  *)
(*             copies and sources as one table of rows (tiered);           *)
(*   "cpu"     copies, the others are computed by the CPU (one rank);      *)
(*   "mixed"   rows reordered so that the best ranked lie in GPU pages.    *)
(* apply chooses a path by mode and size.  A weight row is only right with *)
(* its scale row, which is found by the same index in another tensor.      *)
(*                                                                         *)
(* The choice of victims (LruMap) is left open.                            *)
(***************************************************************************)
EXTENDS Integers, Sequences, FiniteSets, SequencesExt

CONSTANTS
  NumExperts, NumRanks,
  Modes, Rankings,
  Capacity,       \* VLLM_WNA16_STATIC_HOT_CACHE_SIZE
  StageCapacity,  \* VLLM_WNA16_STATIC_STAGE_CAPACITY
  CacheMax,       \* VLLM_WNA16_STATIC_HOT_CACHE_MAX_TOKENS
  CpuMax,         \* tokens of the CPU path (4)
  TopK,
  MaxTokens,      \* bound on the tokens of a forward
  RowBytes, DeviceGrain, HostGrain   \* bytes of a row, granularities of pages

(* What the constants may be.                                              *)
CachedAssumption ==
  /\ {NumExperts, NumRanks, Capacity, TopK, RowBytes, DeviceGrain, HostGrain} \subseteq Nat \ {0}
  /\ {StageCapacity, CacheMax, CpuMax, MaxTokens} \subseteq Nat
  /\ NumExperts % NumRanks = 0
  /\ Modes \subseteq {"none", "static", "stage", "lru", "cpu", "mixed"}
  /\ "cpu" \in Modes => NumRanks = 1
  /\ Max({DeviceGrain, HostGrain}) % Min({DeviceGrain, HostGrain}) = 0

Experts == 0 .. NumExperts - 1
Ranks   == 0 .. NumRanks - 1
Local   == NumExperts \div NumRanks        \* experts of a rank
None    == -1
Tensors == {"weight", "scale"}

VARIABLES
  pc, mode, ranking,
  expertMap,   \* per rank: row of each expert, None if another rank's
  rows,        \* per rank and tensor: expert of each row (from 1)
  slotIds,     \* per rank: expert of each cached copy (from 1)
  copies,      \* per rank and tensor: expert of each cached row
  hotMap, coldMap,
  pages,       \* per rank: bytes of GPU rows, bytes of GPU pages, all bytes
  ids, added

load == <<mode, ranking, expertMap, rows, coldMap, pages>>
vars == <<pc, load, slotIds, copies, hotMap, ids, added>>

TokenOf(p) == (p - 1) \div TopK
Place(q, e) == SelectInSeq(q, LAMBDA x : x = e) - 1      \* -1: not there

-----------------------------------------------------------------------------
(* Loading.                                                                *)

OriginalMap(r) == [e \in Experts |-> IF e \div Local = r THEN e % Local ELSE None]
OriginalRows(r) == [i \in 1 .. Local |-> r * Local + i - 1]

(* The best ranked experts of a rank; for copies a repeated one counts     *)
(* again, for reordered rows it does not.                                  *)
RankedHere(q, r) == SelectSeq(q, LAMBDA e : e \in Experts /\ OriginalMap(r)[e] # None)
Cut(q)  == SubSeq(q, 1, Min({Capacity, Len(q)}))
Once(q) == FoldLeft(LAMBDA acc, e : IF e \in ToSet(acc) THEN acc ELSE Append(acc, e), <<>>, q)

Copied(q, r, m) == IF m \in {"static", "stage", "lru", "cpu"} THEN Cut(RankedHere(q, r)) ELSE <<>>

(* Hot rows first, then the others in order.  Mutant: as for copies.       *)
RepeatedFirst(q, r) == Cut(RankedHere(q, r)) \o SelectSeq(OriginalRows(r), LAMBDA e : e \notin ToSet(Cut(RankedHere(q, r))))
HotFirst(q, r) ==
  LET hot == Cut(Once(RankedHere(q, r)))
  IN  hot \o SelectSeq(OriginalRows(r), LAMBDA e : e \notin ToSet(hot))

(* Every expert-indexed tensor is reordered.  Mutant: all but the scales.  *)
WeightsOnly(t) == {"weight"}
Reordered(t) == Tensors

LastPlace(q, e) == Max({i \in 0 .. Len(q) : i = 0 \/ q[i] = e}) - 1

(* Bytes rounded up to pages.  Mutant: rounded down.                       *)
RoundDown(n, grain) == (n \div grain) * grain
Round(n, grain) == ((n + grain - 1) \div grain) * grain
Grain == Max({DeviceGrain, HostGrain})

Split(hot, all) ==
  [hot |-> hot * RowBytes, gpu |-> Min({Round(hot * RowBytes, Grain), Round(all * RowBytes, Grain)}),
   all |-> Round(all * RowBytes, Grain)]

(* tiered_runtime refuses a cache that holds an expert twice.              *)
Loadable(q, m) == m = "lru" => \A r \in Ranks : IsInjective(Copied(q, r, m))

Init ==
  /\ pc = "load" /\ mode \in Modes /\ ranking \in Rankings
  /\ expertMap = [r \in Ranks |-> OriginalMap(r)]
  /\ rows = [r \in Ranks |-> [t \in Tensors |-> OriginalRows(r)]]
  /\ slotIds = [r \in Ranks |-> <<>>] /\ copies = [r \in Ranks |-> [t \in Tensors |-> <<>>]]
  /\ hotMap = <<>> /\ coldMap = <<>> /\ pages = <<>>
  /\ ids = <<>> /\ added = <<>>

Load ==
  /\ pc = "load" /\ Loadable(ranking, mode)
  /\ pc' = "ready"
  /\ slotIds' = [r \in Ranks |-> Copied(ranking, r, mode)]
  /\ copies' = [r \in Ranks |-> [t \in Tensors |-> slotIds'[r]]]
  /\ hotMap' = [r \in Ranks |-> [e \in Experts |-> LastPlace(slotIds'[r], e)]]
  /\ IF mode = "mixed"
       THEN /\ expertMap' = [r \in Ranks |-> [e \in Experts |-> Place(HotFirst(ranking, r), e)]]
            /\ rows' = [r \in Ranks |-> [t \in Tensors |->
                 IF t \in Reordered(t) THEN HotFirst(ranking, r) ELSE OriginalRows(r)]]
       ELSE UNCHANGED <<expertMap, rows>>
  /\ coldMap' = [r \in Ranks |-> [e \in Experts |->
       IF mode # "lru" /\ hotMap'[r][e] # None THEN None ELSE expertMap'[r][e]]]
  /\ pages' = [r \in Ranks |->
       CASE mode = "mixed" -> Split(Len(Cut(Once(RankedHere(ranking, r)))), Local)
         [] mode = "lru"   -> Split(Len(slotIds'[r]), Local + Len(slotIds'[r]))
         [] OTHER          -> Split(0, Local)]
  /\ UNCHANGED <<mode, ranking, ids, added>>

Refuse ==
  /\ pc = "load" /\ ~Loadable(ranking, mode)
  /\ pc' = "refused"
  /\ UNCHANGED <<load, slotIds, copies, hotMap, ids, added>>

-----------------------------------------------------------------------------
(* Kernels: what a table of rows and a map add to each pair.               *)

Adds(r, engine, table, map, req) ==
  [p \in DOMAIN req |->
     IF req[p] = None \/ map[req[p]] = None THEN {}
     ELSE {<<r, engine, table["weight"][map[req[p]] + 1], table["scale"][map[req[p]] + 1], TokenOf(p)>>}]

Plain(r, req) == Adds(r, "layer", rows[r], expertMap[r], req)
Cold(r, req)  == Adds(r, "layer", rows[r], coldMap[r], req)
Hot(r, req)   == Adds(r, "cache", copies[r], hotMap[r], req)
CpuPart(r, req) ==
  [p \in DOMAIN req |-> IF req[p] = None \/ req[p] \in ToSet(slotIds[r]) THEN {}
                        ELSE {<<r, "cpu", req[p], req[p], TokenOf(p)>>}]

Sum(parts) == added' = [p \in DOMAIN ids' |-> UNION {parts[r][i][p] : r \in Ranks, i \in {1, 2}}]
Nothing(req) == [p \in DOMAIN req |-> {}]

HasCache(r) == slotIds[r] # <<>>
Large(n) == n > CacheMax

DistinctPerToken(req) ==
  \A p \in DOMAIN req, q \in DOMAIN req : p < q /\ TokenOf(p) = TokenOf(q) => req[p] # req[q]
Start(n) ==
  /\ pc = "ready" /\ ids = <<>>
  /\ \/ ids' \in {req \in [1 .. n * TopK -> Experts] : DistinctPerToken(req)}
     \/ ids' = [p \in 1 .. n * TopK |-> None]
  /\ UNCHANGED <<pc, load>>

(* A rank without copies of its own falls back to its full table; so does  *)
(* every rank for a step that is too large for its cache.                  *)
Uncached(n) ==
  /\ mode \in {"none", "mixed"}
  /\ Start(n)
  /\ Sum([r \in Ranks |-> <<Plain(r, ids'), Nothing(ids')>>])
  /\ UNCHANGED <<slotIds, copies, hotMap>>

TwoKernels(n) ==
  /\ mode = "static"
  /\ Start(n)
  /\ Sum([r \in Ranks |-> IF HasCache(r) /\ ~Large(n) THEN <<Cold(r, ids'), Hot(r, ids')>>
                                                      ELSE <<Plain(r, ids'), Nothing(ids')>>])
  /\ UNCHANGED <<slotIds, copies, hotMap>>

WithCpu(n) ==
  /\ mode = "cpu"
  /\ Start(n)
  /\ Sum([r \in Ranks |-> IF HasCache(r) /\ n <= CpuMax THEN <<CpuPart(r, ids'), Hot(r, ids')>>
                                                        ELSE <<Plain(r, ids'), Nothing(ids')>>])
  /\ UNCHANGED <<slotIds, copies, hotMap>>

(* The rows of a step are gathered, one per pair; of the pairs that name   *)
(* an expert, any may be the one its map keeps.                            *)
StagedRow(r, t, e) ==
  IF expertMap[r][e] = None THEN None
  ELSE IF hotMap[r][e] # None THEN copies[r][t][hotMap[r][e] + 1]
  ELSE rows[r][t][expertMap[r][e] + 1]

StageMaps(r, req) ==
  {map \in [Experts -> -1 .. Len(req) - 1] : \A e \in Experts :
     IF expertMap[r][e] # None /\ e \in ToSet(req) THEN map[e] # None /\ req[map[e] + 1] = e
                                                   ELSE map[e] = None}
StageTable(r, req) ==
  [t \in Tensors |-> [i \in DOMAIN req |-> IF req[i] = None THEN None ELSE StagedRow(r, t, req[i])]]

Staged(n) ==
  /\ mode = "stage"
  /\ Start(n)
  /\ \E map \in [Ranks -> UNION {StageMaps(r, ids') : r \in Ranks}] :
       /\ \A r \in Ranks : map[r] \in StageMaps(r, ids')
       /\ Sum([r \in Ranks |->
            IF HasCache(r) /\ ~Large(n) /\ n * TopK <= StageCapacity
              THEN <<Adds(r, "stage", StageTable(r, ids'), map[r], ids'), Nothing(ids')>>
              ELSE <<Plain(r, ids'), Nothing(ids')>>])
  /\ UNCHANGED <<slotIds, copies, hotMap>>

(* A decode step brings the experts it needs into the cache: hits stay,    *)
(* misses take slots of experts that are not needed (LruMap).              *)
Updated(r, req) ==
  LET needed == {e \in ToSet(req) : e # None /\ expertMap[r][e] # None}
  IN  {q \in [DOMAIN slotIds[r] -> Experts] :
         /\ IsInjective(q)
         /\ needed \subseteq ToSet(q) /\ ToSet(q) \subseteq ToSet(slotIds[r]) \union needed
         /\ \A s \in DOMAIN q : slotIds[r][s] \in ToSet(q) => q[s] = slotIds[r][s]}

Fits(r, n) == HasCache(r) /\ ~Large(n) /\ n * TopK <= Min({CacheMax * TopK, Len(slotIds[r])})

(* A large step: sources follow the copies in one table, and an expert     *)
(* with a copy is redirected to it.  Mutant: to the copies of the start.   *)
FirstIds(r) == Copied(ranking, r, mode)
CopyIds(r) == slotIds[r]
TieredMap(r) ==
  [e \in Experts |->
     IF expertMap[r][e] = None THEN None
     ELSE IF e \in ToSet(CopyIds(r)) THEN Place(CopyIds(r), e)
     ELSE Len(slotIds[r]) + expertMap[r][e]]
TieredTable(r) == [t \in Tensors |-> copies[r][t] \o rows[r][t]]

Replacing(n) ==
  /\ mode = "lru"
  /\ Start(n)
  /\ slotIds' \in [Ranks -> UNION {Updated(r, ids') \union {slotIds[r]} : r \in Ranks}]
  /\ \A r \in Ranks : IF Fits(r, n) THEN slotIds'[r] \in Updated(r, ids') ELSE slotIds'[r] = slotIds[r]
  /\ copies' = [r \in Ranks |-> [t \in Tensors |-> [s \in DOMAIN slotIds'[r] |->
       IF slotIds'[r][s] = slotIds[r][s] THEN copies[r][t][s]
       ELSE rows[r][t][expertMap[r][slotIds'[r][s]] + 1]]]]
  /\ hotMap' = [r \in Ranks |-> [e \in Experts |-> Place(slotIds'[r], e)]]
  /\ Sum([r \in Ranks |->
       IF Fits(r, n) THEN <<Adds(r, "cache", copies'[r], hotMap'[r], ids'), Nothing(ids')>>
       ELSE IF HasCache(r) /\ Large(n)
         THEN <<Adds(r, "tiered", TieredTable(r), TieredMap(r), ids'), Nothing(ids')>>
       ELSE <<Plain(r, ids'), Nothing(ids')>>])

EndForward ==
  /\ ids # <<>>
  /\ ids' = <<>> /\ added' = <<>>
  /\ UNCHANGED <<pc, load, slotIds, copies, hotMap>>

Next ==
  \/ Load \/ Refuse \/ EndForward
  \/ \E n \in 1 .. MaxTokens :
       Uncached(n) \/ TwoKernels(n) \/ WithCpu(n) \/ Staged(n) \/ Replacing(n)

Spec == Init /\ [][Next]_vars

-----------------------------------------------------------------------------
TypeOK ==
  /\ pc \in {"load", "ready", "refused"} /\ mode \in Modes /\ ranking \in Rankings
  /\ expertMap \in [Ranks -> [Experts -> -1 .. Local - 1]]
  /\ rows \in [Ranks -> [Tensors -> [1 .. Local -> Experts]]]
  /\ \A r \in Ranks : slotIds[r] \in Seq(Experts)

(* Every routed pair is added once over all ranks, with its own expert's   *)
(* weights and scales (apply; maybe_init_mixed_vmm_hot_cache: "Expert      *)
(* permutation is not bijective" is an error).                             *)
RoutedOnce ==
  \A p \in DOMAIN added :
    IF ids[p] = None THEN added[p] = {}
    ELSE /\ Cardinality(added[p]) = 1
         /\ \A c \in added[p] : c[3] = ids[p] /\ c[4] = ids[p] /\ c[5] = TokenOf(p)

(* Rows meant for the GPU lie in GPU pages, and both parts are whole pages *)
(* of either kind of memory.                                               *)
HotOnGpu ==
  pc = "ready" => \A r \in Ranks :
    /\ pages[r].hot <= pages[r].gpu /\ pages[r].gpu <= pages[r].all
    /\ \A g \in {DeviceGrain, HostGrain} : pages[r].gpu % g = 0 /\ (pages[r].all - pages[r].gpu) % g = 0
=============================================================================
