----------------------------- MODULE ExpertSplit -----------------------------
(***************************************************************************)
(* Who computes which expert (CompressedTensorsWNA16MoEMethod.apply on a   *)
(* hot-only layer).  A forward routes each token to TopK experts.  The     *)
(* work on a (token, k) pair is found independently by up to five engines  *)
(* per rank, each from a table of its own: the GPU from the expert map,    *)
(* the GPU's share from the addresses of protected slots, the CPU from the *)
(* request it is given and a skip mask, a streamed prefill from the maps   *)
(* of its groups and the slots it reads, the tail from the list of tail    *)
(* experts.  Nothing compares the tables.                                  *)
(*                                                                         *)
(* A contribution names the rank, the engine, the expert whose weights     *)
(* were used and the token whose activations were; pairs are numbered by   *)
(* token, then k.  Kernels appear with what they add, not how.             *)
(*                                                                         *)
(* Placement (hot_only.py, expert_store.py): each rank owns a contiguous   *)
(* share of the experts.  Per layer its best ranked ones are on its GPU    *)
(* (hot); of the others the best ranked have a slot of the host arena, the *)
(* rest (the tail) are read from the checkpoint.  A ranking is a list of   *)
(* experts, the hottest first; it may repeat an expert, name one that does *)
(* not exist and leave others out.                                         *)
(***************************************************************************)
EXTENDS Integers, Sequences, FiniteSets, Functions, SequencesExt

CONSTANTS
  NumExperts,
  NumRanks,
  NumLayers,
  HotSize,      \* QWEN38_HOT_ONLY
  ArenaSlots,   \* slots of a rank's arena, over all layers
  Protect,      \* best ranked cold experts of a layer that keep their slots
  Rankings,    \* rankings a model may come with
  TopK,
  DecodeMax,   \* tokens of the decode path (4)
  ChunkMax,    \* tokens the CPU takes at most (QWEN38_CPU_PREFILL_MAX)
  MaxTokens,   \* bound on the tokens of a forward
  KMax,        \* experts of a share
  FracNum, FracDen,   \* QWEN38_GPU_SHARE_FRAC; 0 switches the share off
  Pass,        \* tokens a CPU work item takes at a time (4)
  GroupSize    \* experts of a streamed group

(* What the constants may be.                                              *)
PlacementAssumption ==
  /\ {NumExperts, NumRanks, NumLayers, HotSize} \subseteq Nat \ {0}
  /\ NumExperts % NumRanks = 0
  /\ ArenaSlots \in 0 .. NumLayers * ((NumExperts \div NumRanks) - HotSize)
  /\ Protect \in Nat

(* What the constants may be.                                              *)
SplitAssumption ==
  /\ {TopK, DecodeMax, MaxTokens, FracDen, Pass, GroupSize} \subseteq Nat \ {0}
  /\ {ChunkMax, KMax, FracNum} \subseteq Nat
  /\ \A q \in Rankings : q \in Seq(Int)

-----------------------------------------------------------------------------
Experts == 0 .. NumExperts - 1
Ranks   == 0 .. NumRanks - 1
Layers  == 0 .. NumLayers - 1
None    == -1
Slots   == 0 .. ArenaSlots - 1

Owned(r) == {e \in Experts : (e * NumRanks) \div NumExperts = r}

Distinct(ids, allowed) ==
  FoldLeft(LAMBDA acc, e : IF e \in allowed \ ToSet(acc) THEN Append(acc, e) ELSE acc, <<>>, ids)

Index(q, e)  == SelectInSeq(q, LAMBDA x : x = e)     \* from 1; 0: not there
Prefix(q, n) == SubSeq(q, 1, IF n < Len(q) THEN n ELSE Len(q))
Ordered(set) == SetToSortSeq(set, <)

(* The first HotSize owned experts of the ranking; loading fails if it     *)
(* ranks fewer.  Mutant: a repeated expert is taken again.                 *)
RepeatedHot(ranking, r) ==
  Prefix(SelectSeq(ranking, LAMBDA e : e \in Owned(r)), HotSize)
HotIds(ranking, r) == Prefix(Distinct(ranking, Owned(r)), HotSize)
CanPlace(ranking) == \A r \in Ranks : Len(HotIds(ranking, r)) = HotSize

(* Global expert to local one.                                             *)
ExpertMap(ranking, r) ==
  LET hot == HotIds(ranking, r)
  IN  [e \in Experts |-> IF Contains(hot, e) THEN Index(hot, e) - 1 ELSE None]

RankedIds(ranking) ==
  Distinct(ranking, Experts) \o Ordered(Experts \ ToSet(ranking))

ColdAll(ranking, r) ==
  LET hot == ToSet(HotIds(ranking, r))
  IN  SelectSeq(RankedIds(ranking), LAMBDA e : e \in Owned(r) /\ e \notin hot)

(* Slots of a layer: an equal share, the remainder to the first layers.    *)
PerLayer(l) == (ArenaSlots \div NumLayers) + (IF l < ArenaSlots % NumLayers THEN 1 ELSE 0)

(* A layer's first slot.                                                   *)
FirstSlot[l \in 0 .. NumLayers] == IF l = 0 THEN 0 ELSE FirstSlot[l - 1] + PerLayer(l - 1)

(* The arena's experts of a layer, by number.  Mutant: all cold ones.      *)
AllCold(ranking, r, l) == Ordered(ToSet(ColdAll(ranking, r)))
Arena(ranking, r, l) == Ordered(ToSet(Prefix(ColdAll(ranking, r), PerLayer(l))))

SlotOf(ranking, r, l) ==
  LET arena == Arena(ranking, r, l)
  IN  [e \in Experts |-> IF Contains(arena, e) THEN FirstSlot[l] + Index(arena, e) - 1
                                               ELSE None]

(* Experts whose arena slots the GPU may read: their slots never change.   *)
Protected(ranking, r, l) ==
  {e \in ToSet(Arena(ranking, r, l)) : Index(ColdAll(ranking, r), e) <= Protect}

-----------------------------------------------------------------------------
VARIABLES
  pc,        \* "load", "ready", "refused"
  ranking,
  hot, expertMap, cold, protected,   \* per rank: hot experts, their places, the others
                                     \*   by rank, the protected ones of each layer
  slotOf,    \* arena slot of each expert, per rank and layer; None: not there
  owner,     \* expert in each arena slot, per rank
  layer, ids,          \* the last forward: its layer and routed experts,
  added, shared        \*   what was added to each pair, and each rank's share

tables == <<ranking, hot, expertMap, cold, protected>>
vars == <<pc, tables, slotOf, owner, layer, ids, added, shared>>

TokenOf(p) == (p - 1) \div TopK
TailOf(r, l) == {e \in ToSet(cold[r]) : slotOf[r][l][e] = None}

Init ==
  /\ pc = "load" /\ ranking \in Rankings
  /\ hot = <<>> /\ expertMap = <<>> /\ cold = <<>> /\ protected = <<>>
  /\ slotOf = <<>> /\ owner = <<>>
  /\ layer = 0 /\ ids = <<>> /\ added = <<>> /\ shared = <<>>

Load ==
  /\ pc = "load" /\ CanPlace(ranking)
  /\ pc' = "ready"
  /\ hot' = [r \in Ranks |-> HotIds(ranking, r)]
  /\ expertMap' = [r \in Ranks |-> ExpertMap(ranking, r)]
  /\ cold' = [r \in Ranks |-> ColdAll(ranking, r)]
  /\ protected' = [r \in Ranks |-> [l \in Layers |-> Protected(ranking, r, l)]]
  /\ slotOf' = [r \in Ranks |-> [l \in Layers |-> SlotOf(ranking, r, l)]]
  /\ owner' = [r \in Ranks |-> [s \in Slots |->
       CHOOSE e \in Experts : \E l \in Layers : SlotOf(ranking, r, l)[e] = s]]
  /\ UNCHANGED <<ranking, layer, ids, added, shared>>

Refuse ==
  /\ pc = "load" /\ ~CanPlace(ranking)
  /\ pc' = "refused"
  /\ UNCHANGED <<tables, slotOf, owner, layer, ids, added, shared>>

(* A promotion of ExpertArena, between forwards.                           *)
Promote(r, l) ==
  /\ pc = "ready" /\ ids = <<>>
  /\ \E e \in TailOf(r, l), out \in Experts :
       /\ slotOf[r][l][out] # None /\ out \notin protected[r][l]
       /\ slotOf' = [slotOf EXCEPT ![r][l][e] = slotOf[r][l][out], ![r][l][out] = None]
       /\ owner' = [owner EXCEPT ![r][slotOf[r][l][out]] = e]
  /\ UNCHANGED <<pc, tables, layer, ids, added, shared>>

-----------------------------------------------------------------------------
(* The GPU's own experts.                                                  *)

HotAdds(r, req) ==
  [p \in DOMAIN req |->
     IF req[p] # None /\ expertMap[r][req[p]] # None
       THEN {<<r, <<"hot", 0>>, hot[r][expertMap[r][req[p]] + 1], TokenOf(p)>>}
       ELSE {}]

-----------------------------------------------------------------------------
(* The GPU's share of a decode step (gpu_share.py).                        *)

(* To the selection an expert is cold if the map says so; another rank's   *)
(* are made to look hot.  Mutant: they are left as in the expert map.      *)
PlainMap(r) == expertMap[r]
ShareMap(r) == [e \in Experts |-> IF e \in Owned(r) THEN expertMap[r][e] ELSE 0]

ColdPairs(r, req) == {p \in DOMAIN req : req[p] # None /\ ShareMap(r)[req[p]] = None}
FirstPairs(r, req) ==
  {p \in ColdPairs(r, req) : ~\E q \in ColdPairs(r, req) : q < p /\ req[q] = req[p]}
Eligible(r, l, req) ==
  {p \in FirstPairs(r, req) : req[p] \in protected[r][l]}

(* int(n * FRAC + 0.999), at most KMax and the eligible ones.              *)
ShareSize(r, l, req) ==
  LET n == Cardinality(FirstPairs(r, req))
  IN  Min({(n * FracNum * 1000 + 999 * FracDen) \div (1000 * FracDen), KMax,
           Cardinality(Eligible(r, l, req))})

(* sel: the experts of the share.                                          *)
ShareSel(r, l, req) ==
  IF FracNum = 0 \/ KMax = 0 THEN <<>>
  ELSE [k \in 1 .. ShareSize(r, l, req) |-> req[Ordered(Eligible(r, l, req))[k]]]

(* mask: every pair of an expert of the share.  Mutant: only the pair at   *)
(* which it was selected.                                                  *)
FirstMask(r, l, req) ==
  {Ordered(Eligible(r, l, req))[k] : k \in DOMAIN ShareSel(r, l, req)}
ShareMask(r, l, req) ==
  {p \in ColdPairs(r, req) : req[p] \in ToSet(ShareSel(r, l, req))}

ShareAdds(r, l, req) ==
  [p \in DOMAIN req |->
     {<<r, <<"share", k>>, owner[r][slotOf[r][l][req[p]]], TokenOf(p)>> :
        k \in {k \in DOMAIN ShareSel(r, l, req) : ShareSel(r, l, req)[k] = req[p]}}]

-----------------------------------------------------------------------------
(* The CPU.  A request has no expert for masked pairs.                     *)

Request(r, l, req) == [p \in DOMAIN req |-> IF p \in ShareMask(r, l, req) THEN None ELSE req[p]]

(* Not the CPU's: hot on the GPU or another rank's.  Mutant: the hot ones. *)
HotOnly(r, e) == Contains(hot[r], e)
Skip(r, e) == Contains(hot[r], e) \/ e \notin Owned(r)

Weights(r, l, e) == IF slotOf[r][l][e] # None THEN owner[r][slotOf[r][l][e]] ELSE e

(* compute_layer: jobs by expert, each with the pairs that asked for it.   *)
CpuAdds(r, l, req) ==
  [p \in DOMAIN req |-> IF req[p] = None \/ Skip(r, req[p]) THEN {}
                        ELSE {<<r, <<"cpu", 0>>, Weights(r, l, req[p]), TokenOf(p)>>}]

(* compute_layer_big: pairs are sorted by expert into rows, each expert    *)
(* works on its rows a few at a time, and every pair then takes the row it *)
(* was given.                                                              *)
Row(r, req, p) ==
  Cardinality({q \in DOMAIN req : req[q] # None /\ ~Skip(r, req[q])
                 /\ (req[q] < req[p] \/ (req[q] = req[p] /\ q < p))})
Count(req, e) == Cardinality({p \in DOMAIN req : req[p] = e})

(* Rows of an expert that are computed.  Mutant: whole passes only.        *)
WholePasses(n) == {c + i : c \in {c \in 0 .. n - 1 : c % Pass = 0 /\ c + Pass <= n}, i \in 0 .. Pass - 1}
RowsDone(n) ==
  UNION {c .. c + Min({Pass, n - c}) - 1 : c \in {c \in 0 .. n - 1 : c % Pass = 0}}

BigAdds(r, l, req) ==
  [p \in DOMAIN req |->
     IF req[p] = None \/ Skip(r, req[p]) THEN {}
     ELSE {<<r, <<"cpu", 0>>, Weights(r, l, req[q]), TokenOf(q)>> :
             q \in {q \in DOMAIN req : /\ req[q] # None /\ ~Skip(r, req[q])
                                       /\ Row(r, req, q) = Row(r, req, p)
                                       /\ \E i \in RowsDone(Count(req, req[q])) :
                                            i = Cardinality({o \in 1 .. q - 1 : req[o] = req[q]})}}]

-----------------------------------------------------------------------------
(* A streamed prefill.                                                     *)

(* A layer's arena experts in slot order, cut into groups.                 *)
ArenaSlotsOf(r, l) ==
  Ordered({slotOf[r][l][e] : e \in {e \in ToSet(cold[r]) : slotOf[r][l][e] # None}})
NumGroups(r, l) == (Len(ArenaSlotsOf(r, l)) + GroupSize - 1) \div GroupSize
Group(r, l, g) ==
  SubSeq(ArenaSlotsOf(r, l), (g - 1) * GroupSize + 1,
         Min({g * GroupSize, Len(ArenaSlotsOf(r, l))}))

(* The DMAs of a group: runs of consecutive slots, one after the other.    *)
InRun(run, s) == run[1] + run[2] = s
Runs(slots) ==
  FoldLeft(LAMBDA out, s : IF out # <<>> /\ InRun(out[Len(out)], s)
                             THEN [out EXCEPT ![Len(out)] = <<@[1], @[2] + 1>>]
                             ELSE Append(out, <<s, 1>>), <<>>, slots)
Raw(slots) ==
  FlattenSeq([i \in DOMAIN Runs(slots) |->
                [j \in 1 .. Runs(slots)[i][2] |-> Runs(slots)[i][1] + j - 1]])

(* A group's map: the place in the raw buffer of each of its experts.      *)
GroupMap(r, l, g) ==
  [e \in Experts |->
     Index([i \in DOMAIN Group(r, l, g) |-> owner[r][Group(r, l, g)[i]]], e)]

(* Tail experts are read in the order of the ranking.  Mutant: those that  *)
(* were tail experts at the start (ExpertStore.tail_loc).                  *)
FirstTail(r, l) == SelectSeq(cold[r], LAMBDA e : Index(cold[r], e) > PerLayer(l))
TailList(r, l) == SelectSeq(cold[r], LAMBDA e : e \in TailOf(r, l))

StreamAdds(r, l, req) ==
  [p \in DOMAIN req |->
     IF req[p] = None THEN {}
     ELSE {<<r, <<"group", g>>, owner[r][Raw(Group(r, l, g))[GroupMap(r, l, g)[req[p]]]], TokenOf(p)>> :
             g \in {g \in 1 .. NumGroups(r, l) : GroupMap(r, l, g)[req[p]] # 0}}
          \union {<<r, <<"tail", 0>>, TailList(r, l)[i], TokenOf(p)>> :
                    i \in {i \in DOMAIN TailList(r, l) : TailList(r, l)[i] = req[p]}}]

-----------------------------------------------------------------------------
(* apply.  The output is the sum over the ranks.                           *)

DistinctPerToken(req) ==
  \A p \in DOMAIN req, q \in DOMAIN req :
    p < q /\ TokenOf(p) = TokenOf(q) => req[p] # req[q]
(* The router gives a token distinct experts; the profile run has none.    *)
Routed(n) ==
  {req \in [1 .. n * TopK -> Experts] : DistinctPerToken(req)} \union {[p \in 1 .. n * TopK |-> None]}

Together(parts) ==
  [p \in DOMAIN ids' |-> UNION {parts[r][i][p] : r \in Ranks, i \in {1, 2, 3}}]
Silent(req) == [p \in DOMAIN req |-> {}]

Start(l, n) ==
  /\ pc = "ready" /\ ids = <<>>
  /\ layer' = l /\ ids' \in Routed(n)
  /\ UNCHANGED <<pc, tables, slotOf, owner>>

Decode(l, n) ==
  /\ n <= DecodeMax
  /\ Start(l, n)
  /\ added' = Together([r \in Ranks |->
       <<HotAdds(r, ids'), ShareAdds(r, l, ids'), CpuAdds(r, l, Request(r, l, ids'))>>])
  /\ shared' = [r \in Ranks |-> ShareSel(r, l, ids')]

Chunk(l, n) ==
  /\ n > DecodeMax /\ n <= ChunkMax
  /\ Start(l, n)
  /\ added' = Together([r \in Ranks |->
       <<HotAdds(r, ids'), BigAdds(r, l, ids'), Silent(ids')>>])
  /\ shared' = [r \in Ranks |-> <<>>]

Stream(l, n) ==
  /\ n > DecodeMax /\ n > ChunkMax
  /\ Start(l, n)
  /\ added' = Together([r \in Ranks |->
       <<HotAdds(r, ids'), StreamAdds(r, l, ids'), Silent(ids')>>])
  /\ shared' = [r \in Ranks |-> <<>>]

EndForward ==
  /\ ids # <<>>
  /\ layer' = 0 /\ ids' = <<>> /\ added' = <<>> /\ shared' = <<>>
  /\ UNCHANGED <<pc, tables, slotOf, owner>>

Next ==
  \/ Load \/ Refuse
  \/ \E r \in Ranks, l \in Layers : Promote(r, l)
  \/ \E l \in Layers, n \in 1 .. MaxTokens : Decode(l, n) \/ Chunk(l, n) \/ Stream(l, n)
  \/ EndForward

Spec == Init /\ [][Next]_vars

-----------------------------------------------------------------------------
TypeOK ==
  /\ pc \in {"load", "ready", "refused"} /\ ranking \in Rankings /\ layer \in Layers
  /\ pc = "ready" =>
       /\ slotOf \in [Ranks -> [Layers -> [Experts -> Slots \union {None}]]]
       /\ owner \in [Ranks -> [Slots -> Experts]]
  /\ ids \in Seq(Experts \union {None})

(* Every routed pair gets one contribution over all ranks and engines, of  *)
(* the expert it was routed to on its own token (gpu_share.py: the CPU     *)
(* computes the rest; stream_v2.py: every group adds its experts).         *)
EachPairOnce ==
  \A p \in DOMAIN added :
    IF ids[p] = None THEN added[p] = {}
    ELSE /\ Cardinality(added[p]) = 1
         /\ \A c \in added[p] : c[3] = ids[p] /\ c[4] = TokenOf(p)

(* The share stays within its fraction of the rank's own cold experts      *)
(* (gpu_share.py: up to ceil(FRAC x n_cold) of the step's distinct cold    *)
(* experts).                                                               *)
ShareBounded ==
  \A r \in DOMAIN shared :
    LET own == {ids[p] : p \in DOMAIN ids} \intersect ToSet(cold[r])
    IN  Len(shared[r]) * FracDen <= Cardinality(own) * FracNum + FracDen - 1

(* Each rank keeps every expert it owns in one place and the arena is full *)
(* (hot_only.py: nothing is stored twice).                                 *)
StoredOnce ==
  pc = "ready" => \A r \in Ranks :
    /\ \A l \in Layers, e \in Experts :
         /\ slotOf[r][l][e] # None =>
              owner[r][slotOf[r][l][e]] = e /\ e \in Owned(r) /\ expertMap[r][e] = None
         /\ expertMap[r][e] # None => e \in Owned(r)
    /\ \A s \in Slots : \E l \in Layers : slotOf[r][l][owner[r][s]] = s
    /\ Cardinality({e \in Experts : expertMap[r][e] # None}) = HotSize
=============================================================================
