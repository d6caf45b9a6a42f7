------------------------------ MODULE MCExperts -----------------------------
(***************************************************************************)
(* Model checking of the experts' components: the CPU pool, the bridge     *)
(* between GPU and CPU, streamed and staged prefill, the expert cache, the *)
(* split of the routed pairs and the prefetching of weights.               *)
(*                                                                         *)
(* They do not interact in these models, so one behaviour runs one of      *)
(* them, `part'; the variables of the others are Off. CpuPool is extended, *)
(* and its variables rest in their initial state while another component   *)
(* runs.                                                                   *)
(***************************************************************************)
EXTENDS CpuPool, Sequences

VARIABLES
  part,  \* the component that runs
  \* CpuBridge
  gpc, kind, layer, forwards, counter, call, calls, result, reqSeq, reqCall,
  respSeq, respCall, spc, bridgeSeen, slot, answered, noted,
  \* StreamPrefill
  prefillPc, gen, at, group, asked, loaded, tailIssued, recorded, compute, copy, tail,
  prefillDone, raw, rawTail, bounce, mapHost, mapDev, owner, pending,
  doneEvent, queue, rpc, request, awaited, computed, weights, map,
  \* StreamStage
  stagePc, stageAt, steps, dirty, clobbered, built, stageLoaded, snapshot,
  gemms, copies, stageCompute, side, gemmDone, copyDone, ids, hot, stageSlot,
  \* LruCache
  st, misses, req, lruPc, lruSide, w13, w2, tied,
  \* ExpertSplit
  splitPc, ranking, splitHot, expertMap, cold, protected, slotOf, splitOwner,
  splitLayer, splitIds, added, shared,
  \* CachedExperts
  cachedPc, mode, cachedRanking, cachedExpertMap, rows, slotIds, cachedCopies,
  hotMap, coldMap, pages, cachedIds, cachedAdded,
  \* PrefetchRing
  ringPc, ringLayer, param, store, ringQueue, busy, graph, buf, ev, evValid,
  inCapture

(* Experts 0..7 of two ranks: a full ranking, one with repeats and an      *)
(* expert that does not exist, one that leaves the second rank short.      *)
SplitRankings == {<<6, 1, 0, 5, 2, 3, 7, 4>>, <<2, 2, 9, 5, 0>>, <<0, 1, 2>>}
ChunkRankings == {<<3, 0, 4, 1, 2>>, <<1, 1, 3>>}
(* Every list of up to three of experts 0..4 and one that does not exist.  *)
AnyRanking == UNION {[1 .. n -> 0 .. 5] : n \in 0 .. 3}

(* Experts 0..5: a ranking that interleaves the ranks, one with repeats    *)
(* and a stranger, one that names experts of the first rank only.          *)
CachedRankings == {<<4, 1, 0, 5, 2, 3>>, <<1, 1, 9, 5, 5>>, <<2, 0>>}
OneRankings == {<<3, 0, 2>>, <<1, 1, 0>>, <<2, 0>>, <<>>}

(* Shapes of the offloaded weights, by layer.                              *)
OneKey(l)  == 0
TwoKeys(l) == IF l = 2 THEN 1 ELSE 0

Off == "off"  \* value of the variables of components that do not run

(* Three layers in slots of two bits less: a step reuses them at once.     *)
Bridge == INSTANCE CpuBridge WITH NumLayers <- 3, LayerBits <- 4,
  MaxForwards <- 4, seen <- bridgeSeen
bridgeVars == <<gpc, kind, layer, forwards, counter, call, calls, result,
  reqSeq, reqCall, respSeq, respCall, spc, bridgeSeen, slot, answered, noted>>
bridgeOff == gpc = Off /\ kind = Off /\ layer = Off /\ forwards = Off
  /\ counter = Off /\ call = Off /\ calls = Off /\ result = Off /\ reqSeq = Off
  /\ reqCall = Off /\ respSeq = Off /\ respCall = Off /\ spc = Off
  /\ bridgeSeen = Off /\ slot = Off /\ answered = Off /\ noted = Off

(* Streamed prefill with a tail read from the checkpoint, and without.     *)
Prefill == INSTANCE StreamPrefill WITH NumLayers <- 3, PerLayer <- 2,
  HasTail <- TRUE, NumBounce <- 2, MaxSteps <- 4, pc <- prefillPc,
  done <- prefillDone
ArenaOnly == INSTANCE StreamPrefill WITH NumLayers <- 2, PerLayer <- 1,
  HasTail <- FALSE, NumBounce <- 2, MaxSteps <- 4, pc <- prefillPc,
  done <- prefillDone
prefillVars == <<prefillPc, gen, at, group, asked, loaded, tailIssued, recorded,
  compute, copy, tail, prefillDone, raw, rawTail, bounce, mapHost, mapDev,
  owner, pending, doneEvent, queue, rpc, request, awaited, computed, weights,
  map>>
prefillOff == prefillPc = Off /\ gen = Off /\ at = Off /\ group = Off
  /\ asked = Off /\ loaded = Off /\ tailIssued = Off /\ recorded = Off /\ compute = Off
  /\ copy = Off /\ tail = Off /\ prefillDone = Off /\ raw = Off
  /\ rawTail = Off /\ bounce = Off /\ mapHost = Off /\ mapDev = Off
  /\ owner = Off /\ pending = Off /\ doneEvent = Off /\ queue = Off
  /\ rpc = Off /\ request = Off /\ awaited = Off /\ computed = Off
  /\ weights = Off /\ map = Off

(* Staged prefill over two slots, with an even and an odd number of        *)
(* layers.                                                                 *)
Stage == INSTANCE StreamStage WITH NumLayers <- 4, PerSlot <- 1,
  Borrow <- TRUE, PrefetchNext <- TRUE, OffFlag <- FALSE, Async <- FALSE,
  HotSets <- {1, 2}, MaxSteps <- 4, pc <- stagePc, at <- stageAt,
  loaded <- stageLoaded, compute <- stageCompute, slot <- stageSlot
StageOdd == INSTANCE StreamStage WITH NumLayers <- 5, PerSlot <- 1,
  Borrow <- TRUE, PrefetchNext <- TRUE, OffFlag <- FALSE, Async <- TRUE,
  HotSets <- {1, 2}, MaxSteps <- 4, pc <- stagePc, at <- stageAt,
  loaded <- stageLoaded, compute <- stageCompute, slot <- stageSlot
stageVars == <<stagePc, stageAt, steps, dirty, clobbered, built, stageLoaded,
  snapshot, gemms, copies, stageCompute, side, gemmDone, copyDone, ids, hot,
  stageSlot>>
stageOff == stagePc = Off /\ stageAt = Off /\ steps = Off /\ dirty = Off
  /\ clobbered = Off /\ built = Off /\ stageLoaded = Off /\ snapshot = Off
  /\ gemms = Off /\ copies = Off /\ stageCompute = Off /\ side = Off
  /\ gemmDone = Off /\ copyDone = Off /\ ids = Off /\ hot = Off
  /\ stageSlot = Off

(* A cache of two slots whose ages wrap after four values, and the kernels *)
(* on every map state of three slots.                                      *)
Lru == INSTANCE LruCache WITH NumExperts <- 4, Local <- 0 .. 2, Capacity <- 2,
  Half <- 2, MaxIds <- 3, pc <- lruPc, side <- lruSide
Kernels == INSTANCE LruCache WITH NumExperts <- 5, Local <- 0 .. 3,
  Capacity <- 3, Half <- 2, MaxIds <- 3, pc <- lruPc, side <- lruSide
lruVars == <<st, misses, req, lruPc, lruSide, w13, w2, tied>>
lruOff == st = Off /\ misses = Off /\ req = Off /\ lruPc = Off /\ lruSide = Off
  /\ w13 = Off /\ w2 = Off /\ tied = Off

(* Two ranks with shares; a CPU prefill of one rank; every short ranking   *)
(* of five experts over two layers.                                        *)
Split == INSTANCE ExpertSplit WITH NumExperts <- 8, NumRanks <- 2,
  NumLayers <- 1, HotSize <- 1, ArenaSlots <- 2, Protect <- 2,
  Rankings <- SplitRankings, TopK <- 1, DecodeMax <- 3, ChunkMax <- 0,
  MaxTokens <- 4, KMax <- 2, FracNum <- 1, FracDen <- 2, Pass <- 2,
  GroupSize <- 1, pc <- splitPc, hot <- splitHot, owner <- splitOwner,
  layer <- splitLayer, ids <- splitIds
Chunk == INSTANCE ExpertSplit WITH NumExperts <- 5, NumRanks <- 1,
  NumLayers <- 1, HotSize <- 1, ArenaSlots <- 3, Protect <- 1,
  Rankings <- ChunkRankings, TopK <- 2, DecodeMax <- 1, ChunkMax <- 2,
  MaxTokens <- 2, KMax <- 1, FracNum <- 1, FracDen <- 3, Pass <- 2,
  GroupSize <- 2, pc <- splitPc, hot <- splitHot, owner <- splitOwner,
  layer <- splitLayer, ids <- splitIds
Place == INSTANCE ExpertSplit WITH NumExperts <- 5, NumRanks <- 1,
  NumLayers <- 2, HotSize <- 2, ArenaSlots <- 3, Protect <- 1,
  Rankings <- AnyRanking, TopK <- 1, DecodeMax <- 1, ChunkMax <- 0,
  MaxTokens <- 2, KMax <- 1, FracNum <- 0, FracDen <- 1, Pass <- 1,
  GroupSize <- 2, pc <- splitPc, hot <- splitHot, owner <- splitOwner,
  layer <- splitLayer, ids <- splitIds
splitVars == <<splitPc, ranking, splitHot, expertMap, cold, protected, slotOf,
  splitOwner, splitLayer, splitIds, added, shared>>
splitOff == splitPc = Off /\ ranking = Off /\ splitHot = Off /\ expertMap = Off
  /\ cold = Off /\ protected = Off /\ slotOf = Off /\ splitOwner = Off
  /\ splitLayer = Off /\ splitIds = Off /\ added = Off /\ shared = Off

(* All ways to keep quantised experts, on two ranks and on one.            *)
Cached == INSTANCE CachedExperts WITH NumExperts <- 6, NumRanks <- 2,
  Modes <- {"none", "static", "stage", "lru", "mixed"},
  Rankings <- CachedRankings, Capacity <- 2, StageCapacity <- 2, CacheMax <- 2,
  CpuMax <- 1, TopK <- 1, MaxTokens <- 3, RowBytes <- 3, DeviceGrain <- 4,
  HostGrain <- 2, pc <- cachedPc, ranking <- cachedRanking,
  expertMap <- cachedExpertMap, copies <- cachedCopies, ids <- cachedIds,
  added <- cachedAdded
CachedOne == INSTANCE CachedExperts WITH NumExperts <- 4, NumRanks <- 1,
  Modes <- {"static", "stage", "lru", "cpu"}, Rankings <- OneRankings,
  Capacity <- 3, StageCapacity <- 2, CacheMax <- 1, CpuMax <- 1, TopK <- 2,
  MaxTokens <- 2, RowBytes <- 2, DeviceGrain <- 1, HostGrain <- 4,
  pc <- cachedPc, ranking <- cachedRanking, expertMap <- cachedExpertMap,
  copies <- cachedCopies, ids <- cachedIds, added <- cachedAdded
cachedVars == <<cachedPc, mode, cachedRanking, cachedExpertMap, rows, slotIds,
  cachedCopies, hotMap, coldMap, pages, cachedIds, cachedAdded>>
cachedOff == cachedPc = Off /\ mode = Off /\ cachedRanking = Off
  /\ cachedExpertMap = Off /\ rows = Off /\ slotIds = Off /\ cachedCopies = Off
  /\ hotMap = Off /\ coldMap = Off /\ pages = Off /\ cachedIds = Off
  /\ cachedAdded = Off

(* Weight prefetching with a group in each direction, with a distance of   *)
(* three, and with two shapes of buffers.                                  *)
Ring == INSTANCE PrefetchRing WITH NumModules <- 4, GroupSize <- 2,
  NumInGroup <- 2, Step <- 2, KeyOf <- OneKey, MaxQueue <- 5, pc <- ringPc,
  layer <- ringLayer, queue <- ringQueue
Wide == INSTANCE PrefetchRing WITH NumModules <- 4, GroupSize <- 2,
  NumInGroup <- 1, Step <- 3, KeyOf <- OneKey, MaxQueue <- 3, pc <- ringPc,
  layer <- ringLayer, queue <- ringQueue
Keys == INSTANCE PrefetchRing WITH NumModules <- 6, GroupSize <- 2,
  NumInGroup <- 1, Step <- 2, KeyOf <- TwoKeys, MaxQueue <- 4, pc <- ringPc,
  layer <- ringLayer, queue <- ringQueue
ringVars == <<ringPc, ringLayer, param, store, ringQueue, busy, graph, buf, ev,
  evValid, inCapture>>
ringOff == ringPc = Off /\ ringLayer = Off /\ param = Off /\ store = Off
  /\ ringQueue = Off /\ busy = Off /\ graph = Off /\ buf = Off /\ ev = Off
  /\ evValid = Off /\ inCapture = Off

(* The kernels of the cache map on every state a map can be in: every      *)
(* combination of ages and clock, so every wrap and every tie, and every   *)
(* request.  Which experts are resident makes no difference to either      *)
(* kernel, so one set of them stands for all.                              *)
KernelsInit ==
  /\ st \in [map : {[g \in Kernels!Experts |->
                       IF \E s \in Kernels!Slots : Kernels!Ranked[s] = g
                         THEN CHOOSE s \in Kernels!Slots : Kernels!Ranked[s] = g ELSE Kernels!None]},
             ids : {Kernels!Ranked}, ages : [Kernels!Slots -> Kernels!Ages], clock : Kernels!Ages]
  /\ req \in {<<g>> : g \in Kernels!Experts \union {Kernels!None}}
  /\ misses = Off /\ lruPc = Off /\ lruSide = Off /\ w13 = Off /\ w2 = Off /\ tied = Off
KernelsRoute ==
  /\ Len(req) < 3
  /\ \E g \in Kernels!Experts \union {Kernels!None} : req' = Append(req, g)
  /\ UNCHANGED <<st, misses, lruPc, lruSide, w13, w2, tied>>

ASSUME Instances ==
  /\ Bridge!BridgeAssumption
  /\ Prefill!StreamAssumption
  /\ ArenaOnly!StreamAssumption
  /\ Stage!StageAssumption
  /\ StageOdd!StageAssumption
  /\ Lru!CacheAssumption
  /\ Kernels!CacheAssumption
  /\ Split!PlacementAssumption
  /\ Split!SplitAssumption
  /\ Chunk!PlacementAssumption
  /\ Chunk!SplitAssumption
  /\ Place!PlacementAssumption
  /\ Place!SplitAssumption
  /\ Cached!CachedAssumption
  /\ CachedOne!CachedAssumption
  /\ Ring!PrefetchAssumption
  /\ Wide!PrefetchAssumption
  /\ Keys!PrefetchAssumption

-----------------------------------------------------------------------------
Parts == {"pool", "bridge", "prefill", "arena only", "stage", "stage odd",
  "lru", "kernels", "split", "chunk", "place", "cached", "cached one", "ring",
  "wide", "keys"}

SuiteInit ==
  /\ part \in Parts
  /\ Init
  /\ IF part = "bridge" THEN Bridge!Init ELSE bridgeOff
  /\ CASE part = "prefill" -> Prefill!Init
       [] part = "arena only" -> ArenaOnly!Init
       [] OTHER -> prefillOff
  /\ CASE part = "stage" -> Stage!Init
       [] part = "stage odd" -> StageOdd!Init
       [] OTHER -> stageOff
  /\ CASE part = "lru" -> Lru!Init
       [] part = "kernels" -> KernelsInit
       [] OTHER -> lruOff
  /\ CASE part = "split" -> Split!Init
       [] part = "chunk" -> Chunk!Init
       [] part = "place" -> Place!Init
       [] OTHER -> splitOff
  /\ CASE part = "cached" -> Cached!Init
       [] part = "cached one" -> CachedOne!Init
       [] OTHER -> cachedOff
  /\ CASE part = "ring" -> Ring!Init
       [] part = "wide" -> Wide!Init
       [] part = "keys" -> Keys!Init
       [] OTHER -> ringOff

SuiteNext ==
  /\ IF part = "pool" THEN Next ELSE UNCHANGED vars
  /\ IF part = "bridge" THEN Bridge!Next ELSE UNCHANGED bridgeVars
  /\ CASE part = "prefill" -> Prefill!Next
       [] part = "arena only" -> ArenaOnly!Next
       [] OTHER -> UNCHANGED prefillVars
  /\ CASE part = "stage" -> Stage!Next
       [] part = "stage odd" -> StageOdd!Next
       [] OTHER -> UNCHANGED stageVars
  /\ CASE part = "lru" -> Lru!Next
       [] part = "kernels" -> KernelsRoute
       [] OTHER -> UNCHANGED lruVars
  /\ CASE part = "split" -> Split!Next
       [] part = "chunk" -> Chunk!Next
       [] part = "place" -> Place!Next
       [] OTHER -> UNCHANGED splitVars
  /\ CASE part = "cached" -> Cached!Next
       [] part = "cached one" -> CachedOne!Next
       [] OTHER -> UNCHANGED cachedVars
  /\ CASE part = "ring" -> Ring!Next
       [] part = "wide" -> Wide!Next
       [] part = "keys" -> Keys!Next
       [] OTHER -> UNCHANGED ringVars
  /\ UNCHANGED part

suiteVars == <<part, vars, bridgeVars, prefillVars, stageVars, lruVars,
  splitVars, cachedVars, ringVars>>
SuiteSpec == SuiteInit /\ [][SuiteNext]_suiteVars

-----------------------------------------------------------------------------
(* A layer that hands its experts to the CPU adds the answer to its own    *)
(* request, never an earlier layer's or step's that is still in the slot   *)
(* (wait_add_kernel, add_f32_kernel): the bridge implements ExpertCall.    *)
ImplementsExpertCall ==
  /\ part = "bridge" => Bridge!Call!Init
  /\ [][part = "bridge" => Bridge!Call!Call]_<<calls, result>>

(* Whatever the interleaving of the streams, the tail reader and a host    *)
(* that may be steps ahead, every group of a streamed prefill is computed  *)
(* with its own weights and its own step's map (stream_v2.py).             *)
ImplementsStreamForward ==
  /\ part = "prefill" => Prefill!Forward!Init
  /\ part = "arena only" => ArenaOnly!Forward!Init
  /\ [][/\ part = "prefill" => Prefill!Forward!Compute
        /\ part = "arena only" => ArenaOnly!Forward!Compute]_<<computed, weights, map>>

(* A layer whose weights come late runs on its own, complete: a staged     *)
(* layer finds them in its slot and a step that reads the hot caches finds *)
(* those that staging borrowed restored (staging_runtime.py); a prefetched *)
(* layer finds them in its buffer in eager forwards, captures and replays, *)
(* and no buffer is written by two copies at once (prefetch.py: "we could  *)
(* overwrite the buffer while it's being read").                           *)
BuffersExact ==
  /\ part = "stage" => Stage!TypeOK /\ Stage!StagedExact /\ Stage!HotExact
  /\ part = "stage odd" => StageOdd!TypeOK /\ StageOdd!StagedExact
  /\ part = "ring" => /\ Ring!TypeOK /\ Ring!RunsOnOwnWeights /\ Ring!OneWriter
                     /\ Ring!SourcesFinal /\ Ring!CaptureJoined
  /\ part = "wide" => Wide!RunsOnOwnWeights
  /\ part = "keys" => Keys!RunsOnOwnWeights /\ Keys!OneWriter

(* Both GEMMs of a cached layer find every routed expert in the map, with  *)
(* its own rows in its slot, whichever kernel updated the map, and the two *)
(* kernels agree whenever the parallel one does not fall back (lru_map.py).*)
LruExact ==
  /\ part = "lru" => Lru!TypeOK /\ Lru!RowsExact /\ Lru!CacheExact
  /\ part = "kernels" => Kernels!KernelsAgree

(* Every routed pair of a token and an expert is computed once, over all   *)
(* ranks and engines, with the weights of its own expert on its own token: *)
(* by a hot-only layer with its arena, shares and tail (gpu_share.py,      *)
(* stream_v2.py) and by a layer with cached, staged or permuted experts.   *)
EachPairOnce ==
  /\ part = "split" => Split!TypeOK /\ Split!EachPairOnce /\ Split!ShareBounded
  /\ part = "chunk" => Chunk!EachPairOnce
  /\ part = "place" => Place!EachPairOnce /\ Place!StoredOnce
  /\ part = "cached" => Cached!TypeOK /\ Cached!RoutedOnce /\ Cached!HotOnGpu
  /\ part = "cached one" => CachedOne!RoutedOnce
=============================================================================
