---------------------------- MODULE MambaProofs ----------------------------
(***************************************************************************)
(* Proofs about the block manager and about serving with it, for any block *)
(* size, any number of draft tokens, of requests and of steps in flight:   *)
(*   - an allocation never takes more blocks than the estimate it was      *)
(*     admitted on: arithmetic on lists, and the shape of the state;       *)
(*   - reference counts are those of the lists (References);               *)
(*   - scheduler and runner agree on the tokens of a request: what one is  *)
(*     ahead of the other is owed by the steps in flight (Counters).       *)
(***************************************************************************)
EXTENDS MambaServing, SequenceTheorems, FiniteSetTheorems, TLAPS

AllBlocks == Blocks \union {Null}

LEMMA CdivInt == ASSUME NEW n \in Int PROVE Cdiv(n) \in Int
  BY ManagerAssumption DEF Cdiv

LEMMA RequiredInt ==
  ASSUME NEW total \in Int
  PROVE  Required(total) \in Int /\ Skipped(total) = Cdiv(total) - 1 /\ Cdiv(total) \in Int
           /\ Required(total) = Cdiv(total) + NumSpec
  BY ManagerAssumption, CdivInt DEF Required, Skipped

LEMMA NullOutType ==
  ASSUME NEW blocks \in Seq(AllBlocks), NEW indices
  PROVE  NullOut(blocks, indices) \in Seq(AllBlocks)
           /\ Len(NullOut(blocks, indices)) = Len(blocks)
<1>1. DOMAIN blocks = 1 .. Len(blocks)
  OBVIOUS
<1>2. NullOut(blocks, indices) = [i \in 1 .. Len(blocks) |-> IF i \in indices THEN Null ELSE blocks[i]]
  BY <1>1 DEF NullOut
<1>3. \A i \in 1 .. Len(blocks) : blocks[i] \in AllBlocks
  BY ElementOfSeq
<1>4. \A i \in 1 .. Len(blocks) : (IF i \in indices THEN Null ELSE blocks[i]) \in AllBlocks
  BY <1>3 DEF AllBlocks
<1> QED
  BY <1>2, <1>4

LEMMA NullsType ==
  ASSUME NEW n \in Nat
  PROVE  [i \in 1 .. n |-> Null] \in Seq(AllBlocks) /\ Len([i \in 1 .. n |-> Null]) = n
  BY DEF AllBlocks

LEMMA MovedRange ==
  ASSUME NEW blocks \in Seq(AllBlocks), NEW total \in Int, NEW allocated \in BOOLEAN
  PROVE  NumMoved(blocks, total, allocated) \in 0 .. NumSpec
<1>1. Skipped(total) \in Int /\ Len(blocks) \in Nat /\ NumSpec \in Nat
  BY ManagerAssumption, RequiredInt, LenProperties
<1>2. Skipped(total) - (Len(blocks) - NumSpec) \in Int
  BY <1>1
<1> QED
  BY <1>1, <1>2 DEF NumMoved, Larger, Smaller

(* The list before new blocks are appended: its length, for a request that *)
(* has been allocated before only if it holds its speculative blocks.      *)
LEMMA ShiftedType ==
  ASSUME NEW blocks \in Seq(AllBlocks), NEW total \in Int, NEW allocated \in BOOLEAN,
         allocated => Len(blocks) >= NumSpec
  PROVE  /\ Shifted(blocks, total, allocated) \in Seq(AllBlocks)
         /\ Len(Shifted(blocks, total, allocated))
              = Len(blocks) + Larger(0, Skipped(total) - Len(blocks))
                  + NumMoved(blocks, total, allocated)
<1> DEFINE moved == NumMoved(blocks, total, allocated)
           first == Len(blocks) - NumSpec + 1
           last  == first + moved - 1
           pad   == Larger(0, Skipped(total) - Len(blocks))
           kept  == NullOut(blocks, first .. last)
           nulls == [i \in 1 .. pad |-> Null]
           tail  == SubSeq(blocks, first, last)
<1>1. Len(blocks) \in Nat /\ NumSpec \in Nat /\ Skipped(total) \in Int /\ moved \in 0 .. NumSpec
  <2>1. moved \in 0 .. NumSpec
    BY MovedRange
  <2>2. Len(blocks) \in Nat
    BY LenProperties
  <2>3. NumSpec \in Nat
    BY ManagerAssumption
  <2>4. Skipped(total) = Cdiv(total) - 1 /\ Cdiv(total) \in Int
    BY RequiredInt
  <2> QED
    BY <2>1, <2>2, <2>3, <2>4
<1>2. pad \in Nat
  BY <1>1 DEF Larger
<1>3. kept \in Seq(AllBlocks) /\ Len(kept) = Len(blocks)
  BY NullOutType
<1>4. nulls \in Seq(AllBlocks) /\ Len(nulls) = pad
  BY <1>2, NullsType
<1>5. \A i \in first .. last : blocks[i] \in AllBlocks
  <2> SUFFICES ASSUME NEW i \in first .. last PROVE blocks[i] \in AllBlocks
    OBVIOUS
  <2>1. moved >= 1
    BY <1>1
  <2>2. allocated
    BY <2>1 DEF NumMoved
  <2>3. Len(blocks) >= NumSpec
    BY <2>2
  <2>4. i \in 1 .. Len(blocks)
    BY <1>1, <2>3
  <2> QED
    BY <2>4, ElementOfSeq
<1>6. first \in Int /\ last \in Int /\ (IF first <= last THEN last - first + 1 ELSE 0) = moved
  BY <1>1
<1>7. tail \in Seq(AllBlocks) /\ Len(tail) = moved
  <2> HIDE DEF first, last
  <2> QED
    BY <1>5, <1>6, SubSeqProperties
<1>8. Shifted(blocks, total, allocated) = kept \o nulls \o tail
  BY DEF Shifted
<1>9. kept \o nulls \in Seq(AllBlocks) /\ Len(kept \o nulls) = Len(blocks) + pad
  <2> HIDE DEF kept, nulls, pad
  <2>1. kept \o nulls \in Seq(AllBlocks)
    BY <1>3, <1>4, ConcatProperties
  <2>2. Len(kept \o nulls) = Len(kept) + Len(nulls)
    BY <1>3, <1>4, ConcatProperties
  <2> QED
    BY <2>1, <2>2, <1>3, <1>4
<1>10. /\ kept \o nulls \o tail \in Seq(AllBlocks)
       /\ Len(kept \o nulls \o tail) = Len(blocks) + pad + moved
  <2> HIDE DEF kept, nulls, pad, tail, moved
  <2>1. kept \o nulls \o tail \in Seq(AllBlocks)
    BY <1>7, <1>9, ConcatProperties
  <2>2. Len(kept \o nulls \o tail) = Len(kept \o nulls) + Len(tail)
    BY <1>7, <1>9, ConcatProperties
  <2> QED
    BY <2>1, <2>2, <1>7, <1>9
<1> QED
  BY <1>8, <1>10

(* What allocate_new_blocks asserts: an old request takes one block, a new *)
(* one takes one and the speculative ones at most.                         *)
THEOREM AllocationBounded ==
  ASSUME NEW blocks \in Seq(AllBlocks), NEW total \in Int, NEW allocated \in BOOLEAN,
         allocated => Len(blocks) >= NumSpec
  PROVE  /\ NumNew(blocks, total, allocated) \in Nat
         /\ NumNew(blocks, total, allocated)
              <= Larger(0, Estimate(blocks, total, allocated))
<1> DEFINE L == Len(blocks)
           S == Skipped(total)
           R == Required(total)
<1>1. /\ L \in Nat /\ NumSpec \in Nat /\ S \in Int /\ R \in Int
      /\ S = R - NumSpec - 1
  <2>1. L \in Nat
    BY LenProperties
  <2>2. NumSpec \in Nat
    BY ManagerAssumption
  <2>3. /\ R \in Int /\ S = Cdiv(total) - 1 /\ Cdiv(total) \in Int
        /\ R = Cdiv(total) + NumSpec
    BY RequiredInt
  <2> QED
    BY <2>1, <2>2, <2>3
<1>2. CASE R <= L
  <2>1. NumNew(blocks, total, allocated) = 0
    BY <1>2 DEF NumNew
  <2>2. Estimate(blocks, total, allocated) \in Int
    BY <1>1, <1>2 DEF Estimate
  <2> QED
    BY <2>1, <2>2 DEF Larger
<1>3. CASE ~(R <= L)
  <2>1. NumNew(blocks, total, allocated)
          = R - (L + Larger(0, S - L) + NumMoved(blocks, total, allocated))
    BY <1>3, ShiftedType DEF NumNew
  <2>2. CASE allocated
    <3>1. NumMoved(blocks, total, allocated) = Larger(0, Smaller(NumSpec, S - (L - NumSpec)))
      BY <2>2 DEF NumMoved
    <3>2. NumNew(blocks, total, allocated) = 1
      BY <1>1, <1>3, <2>1, <3>1 DEF Larger, Smaller
    <3>3. Estimate(blocks, total, allocated) = 1
      BY <1>1, <1>3, <2>2 DEF Estimate
    <3> QED
      BY <3>2, <3>3 DEF Larger
  <2>3. CASE ~allocated
    <3>1. NumMoved(blocks, total, allocated) = 0
      BY <2>3 DEF NumMoved
    <3>2. NumNew(blocks, total, allocated) \in 1 .. 1 + NumSpec
      BY <1>1, <1>3, <2>1, <3>1 DEF Larger
    <3>3. Estimate(blocks, total, allocated) = 1 + NumSpec
      BY <1>1, <1>3, <2>3 DEF Estimate
    <3> QED
      BY <1>1, <3>2, <3>3 DEF Larger
  <2> QED
    BY <2>2, <2>3
<1> QED
  BY <1>2, <1>3

(* The list after the allocation reaches the speculative blocks.           *)
LEMMA AllocatedType ==
  ASSUME NEW blocks \in Seq(AllBlocks), NEW total \in Int, NEW allocated \in BOOLEAN,
         allocated => Len(blocks) >= NumSpec,
         NEW new \in [1 .. NumNew(blocks, total, allocated) -> Blocks]
  PROVE  /\ Allocated(blocks, total, allocated, new) \in Seq(AllBlocks)
         /\ Len(Allocated(blocks, total, allocated, new)) >= Required(total)
         /\ Len(Allocated(blocks, total, allocated, new)) >= Len(blocks)
<1>1. NumNew(blocks, total, allocated) \in Nat
  BY AllocationBounded
<1>2. new \in Seq(AllBlocks) /\ Len(new) = NumNew(blocks, total, allocated)
  BY <1>1 DEF AllBlocks
<1>3. Required(total) \in Int /\ Len(blocks) \in Nat
  BY RequiredInt, LenProperties
<1>4. CASE Required(total) <= Len(blocks)
  BY <1>3, <1>4 DEF Allocated
<1>5. CASE ~(Required(total) <= Len(blocks))
  <2>1. Len(Shifted(blocks, total, allocated)) \in Nat
    BY ShiftedType, LenProperties
  <2>2. Len(new) = Required(total) - Len(Shifted(blocks, total, allocated))
    BY <1>2, <1>5 DEF NumNew
  <2>3. Allocated(blocks, total, allocated, new) = Shifted(blocks, total, allocated) \o new
    BY <1>5 DEF Allocated
  <2>4. /\ Allocated(blocks, total, allocated, new) \in Seq(AllBlocks)
        /\ Len(Allocated(blocks, total, allocated, new)) = Required(total)
    BY <1>2, <1>3, <2>1, <2>2, <2>3, ShiftedType, ConcatProperties
  <2> QED
    BY <1>3, <1>5, <2>4
<1> QED
  BY <1>4, <1>5

-----------------------------------------------------------------------------
(* The shape of the state: what the counters and lists are, whatever their *)
(* values.                                                                 *)
Partial(S) == UNION {[D -> S] : D \in SUBSET Requests}
Entry  == [n : Int, drafts : Int, padded : BOOLEAN, admitted : BOOLEAN]
Output == [n : Int, rejected : Int, sampled : Int]

Shape ==
  /\ running \in Seq(Requests)
  /\ cursor \in Nat \ {0}
  /\ budget \in Int
  /\ step \in Partial(Entry)
  /\ flights \in Seq(Partial(Output))
  /\ req \in [Requests -> Req]
  /\ mgr \in [Requests -> Mgr]

ServingInv == Shape /\ RunningListed

LEMMA FloorInt == ASSUME NEW n \in Int PROVE Floor(n) \in Int
  BY ManagerAssumption DEF Floor

LEMMA DivNat == ASSUME NEW n \in Nat PROVE n \div BlockSize \in Nat
  BY ManagerAssumption

LEMMA CdivNat == ASSUME NEW n \in Nat PROVE Cdiv(n) \in Nat
<1>1. n + BlockSize - 1 \in Nat
  BY ManagerAssumption
<1> QED
  BY <1>1, DivNat DEF Cdiv

LEMMA WithoutType ==
  ASSUME NEW seq \in Seq(Requests), NEW r \in Requests, Distinct(seq)
  PROVE  /\ Without(seq, r) \in Seq(Requests)
         /\ Distinct(Without(seq, r))
         /\ \A x \in Requests : Listed(Without(seq, r), x) <=> Listed(seq, x) /\ x # r
<1>1. Len(seq) \in Nat /\ \A i \in 1 .. Len(seq) : seq[i] \in Requests
  BY ElementOfSeq, LenProperties
<1>2. CASE \A i \in 1 .. Len(seq) : seq[i] # r
  <2>1. Without(seq, r) = seq
    BY <1>2 DEF Without
  <2>2. \A x \in Requests : Listed(seq, x) => x # r
    BY <1>2 DEF Listed
  <2> QED
    BY <2>1, <2>2
<1>3. CASE \E i \in 1 .. Len(seq) : seq[i] = r
  <2> DEFINE at == CHOOSE i \in 1 .. Len(seq) : seq[i] = r
             rest == [i \in 1 .. Len(seq) - 1 |-> IF i < at THEN seq[i] ELSE seq[i + 1]]
  <2>1. at \in 1 .. Len(seq) /\ seq[at] = r
    BY <1>3
  <2>2. Without(seq, r) = rest
    BY <1>3 DEF Without
  <2> HIDE DEF at
  <2>3. Len(seq) - 1 \in Nat
    BY <1>1, <2>1
  <2>4. \A i \in 1 .. Len(seq) - 1 : rest[i] \in Requests
    BY <1>1, <2>1
  <2>5. rest \in Seq(Requests) /\ Len(rest) = Len(seq) - 1
    BY <2>3, <2>4
  <2>6. Distinct(rest)
    BY <1>1, <2>1, <2>5 DEF Distinct
  <2>7. ASSUME NEW x \in Requests, Listed(rest, x)
        PROVE  Listed(seq, x) /\ x # r
    <3>1. PICK i \in 1 .. Len(seq) - 1 : rest[i] = x
      BY <2>5, <2>7 DEF Listed
    <3>2. CASE i < at
      BY <1>1, <2>1, <3>1, <3>2 DEF Listed, Distinct
    <3>3. CASE ~(i < at)
      <4>1. x = seq[i + 1] /\ i + 1 \in 1 .. Len(seq) /\ i + 1 # at
        BY <1>1, <2>1, <3>1, <3>3
      <4> QED
        BY <2>1, <4>1 DEF Listed, Distinct
    <3> QED
      BY <3>2, <3>3
  <2>8. ASSUME NEW x \in Requests, Listed(seq, x), x # r
        PROVE  Listed(rest, x)
    <3>1. PICK i \in 1 .. Len(seq) : seq[i] = x
      BY <2>8 DEF Listed
    <3>2. i # at
      BY <2>1, <2>8, <3>1
    <3>3. CASE i < at
      <4>1. i \in 1 .. Len(seq) - 1 /\ rest[i] = x
        BY <1>1, <2>1, <3>1, <3>3
      <4> QED
        BY <2>5, <4>1 DEF Listed
    <3>4. CASE i > at
      <4>1. i - 1 \in 1 .. Len(seq) - 1 /\ rest[i - 1] = x
        BY <1>1, <2>1, <3>1, <3>4
      <4> QED
        BY <2>5, <4>1 DEF Listed
    <3> QED
      BY <1>1, <2>1, <3>2, <3>3, <3>4
  <2> QED
    BY <2>2, <2>5, <2>6, <2>7, <2>8
<1> QED
  BY <1>2, <1>3

LEMMA ReqFields ==
  ASSUME req \in [Requests -> Req], NEW r \in Requests
  PROVE  /\ req[r].tokens \in Int /\ req[r].computed \in Int /\ req[r].placeholders \in Int
         /\ req[r].spec \in Int /\ req[r].inflight \in Int /\ req[r].stale \in Int
         /\ req[r].chunk \in BOOLEAN /\ req[r].status \in Statuses
  BY DEF Req

LEMMA MgrFields ==
  ASSUME mgr \in [Requests -> Mgr], NEW r \in Requests
  PROVE  /\ mgr[r].blocks \in Seq(AllBlocks) /\ Len(mgr[r].blocks) \in Nat
         /\ mgr[r].sweep \in Int /\ mgr[r].cached \in Int
<1>1. mgr[r] \in Mgr
  OBVIOUS
<1>2. mgr[r].blocks \in Seq(AllBlocks) /\ mgr[r].sweep \in Int /\ mgr[r].cached \in Int
  BY <1>1 DEF Mgr, AllBlocks
<1> QED
  BY <1>2, LenProperties

(* The token counts of the two scheduling loops are integers: the split    *)
(* stops at the smaller of its stops.                                      *)
LEMMA SplitInt ==
  ASSUME req \in [Requests -> Req], NEW r \in Requests, NEW start \in Int, NEW n \in Int
  PROVE  AlignedSplit(r, start, n) \in Int
<1> DEFINE prefillEnd == Larger(Prompt[r], req[r].tokens - 1)
           lastCache  == Larger(Floor(req[r].tokens) - (IF NumSpec > 0 THEN BlockSize ELSE 0), 0)
           aligned    == Floor(start + n)
           end == IF /\ start + n < prefillEnd
                     /\ aligned > start \/ BlockSize <= MaxBatched
                    THEN aligned ELSE start + n
           next  == IF start % BlockSize # 0 THEN Floor(start) + BlockSize ELSE 0
           stops == {s \in {next, lastCache} : start < s /\ s < end}
           stop  == IF stops = {} THEN end
                    ELSE CHOOSE s \in stops : \A other \in stops : s <= other
<1>1. BlockSize \in Int /\ req[r].tokens \in Int
  BY ManagerAssumption, ReqFields
<1>2. aligned \in Int /\ start + n \in Int
  BY FloorInt
<1>3. end \in Int
  BY <1>2
<1>4. lastCache \in Int
  <2>1. Floor(req[r].tokens) \in Int
    BY <1>1, FloorInt
  <2> QED
    BY <1>1, <2>1 DEF Larger
<1>5. next \in Int
  <2>1. Floor(start) \in Int
    BY FloorInt
  <2> QED
    BY <1>1, <2>1
<1>6. stop \in Int
  <2> HIDE DEF next, lastCache, end
  <2>1. CASE stops = {}
    BY <1>3, <2>1
  <2>2. CASE stops # {}
    <3>1. \E s \in stops : \A other \in stops : s <= other
      BY <1>4, <1>5, <2>2
    <3>2. stops \subseteq Int
      BY <1>4, <1>5
    <3> HIDE DEF stops
    <3>3. (CHOOSE s \in stops : \A other \in stops : s <= other) \in stops
      BY <3>1
    <3> QED
      BY <2>2, <3>2, <3>3
  <2> QED
    BY <2>1, <2>2
<1>7. AlignedSplit(r, start, n) = IF start >= prefillEnd THEN n ELSE Larger(stop - start, 0)
  BY DEF AlignedSplit
<1> HIDE DEF stop, prefillEnd
<1> QED
  BY <1>6, <1>7 DEF Larger

LEMMA NewTokensInt ==
  ASSUME Shape, NEW r \in Requests
  PROVE  NewTokens(r) \in Int
<1>1. req \in [Requests -> Req] /\ budget \in Int
  BY DEF Shape
<1>2. req[r].tokens \in Int /\ req[r].computed \in Int /\ req[r].placeholders \in Int
      /\ req[r].spec \in Int
  BY <1>1, ReqFields
<1> DEFINE n == Smaller(req[r].tokens + req[r].spec + req[r].placeholders - req[r].computed,
                        budget)
<1>3. n \in Int
  BY <1>1, <1>2 DEF Smaller
<1>4. NewTokens(r) = IF SureToEnd(r) THEN 0 ELSE AlignedSplit(r, req[r].computed, n)
  BY DEF NewTokens
<1> HIDE DEF n
<1>5. AlignedSplit(r, req[r].computed, n) \in Int
  BY <1>1, <1>2, <1>3, SplitInt
<1> QED
  BY <1>4, <1>5

(* A prefix-cache hit is a list of null blocks that ends in a cached one.  *)
LEMMA HitsType ==
  ASSUME Shape, NEW r \in Requests, NEW found \in Hits(r)
  PROVE  found \in Seq(AllBlocks) /\ HitTokens(found) \in Nat
<1>1. req[r].tokens \in Int
  BY ReqFields DEF Shape
<1>2. found \in Seq(AllBlocks)
  <2>1. CASE found = <<>>
    BY <2>1
  <2>2. CASE found # <<>>
    <3>1. PICK k \in 1 .. (req[r].tokens - 1) \div BlockSize,
               b \in Blocks : found = [i \in 1 .. k |-> IF i = k THEN b ELSE Null]
      BY <2>2 DEF Hits
    <3>2. k \in Nat
      BY <3>1
    <3> QED
      BY <3>1, <3>2 DEF AllBlocks
  <2> QED
    BY <2>1, <2>2
<1>3. Len(found) \in Nat
  BY <1>2, LenProperties
<1>4. Len(found) * BlockSize \in Nat
  BY <1>3, ManagerAssumption
<1> QED
  BY <1>2, <1>4 DEF HitTokens

LEMMA AdmitTokensInt ==
  ASSUME Shape, NEW r \in Requests, NEW found \in Hits(r)
  PROVE  AdmitTokens(r, found) \in Int /\ AdmitTotal(r, found) \in Int
<1>1. req \in [Requests -> Req] /\ budget \in Int
  BY DEF Shape
<1>2. req[r].tokens \in Int /\ HitTokens(found) \in Int /\ NumSpec \in Int
  BY <1>1, ReqFields, HitsType, ManagerAssumption
<1> DEFINE joins == JoinsDecodes(r, found)
           asked == IF joins THEN 1 + NumSpec ELSE req[r].tokens - HitTokens(found)
           n == Smaller(asked, budget)
           split == AlignedSplit(r, HitTokens(found), n)
<1>3. n \in Int
  BY <1>1, <1>2 DEF Smaller
<1>4. split \in Int
  <2> HIDE DEF n
  <2> QED
    BY <1>1, <1>2, <1>3, SplitInt
<1>5. AdmitTokens(r, found) = IF joins /\ asked > budget THEN 0
                              ELSE IF joins /\ split \notin {0, asked} THEN 1
                              ELSE split
  BY DEF AdmitTokens
<1>6. AdmitTokens(r, found) \in Int
  <2> HIDE DEF joins, asked, split
  <2> QED
    BY <1>4, <1>5
<1> QED
  BY <1>2, <1>6 DEF AdmitTotal

LEMMA SweptType ==
  ASSUME Shape, NEW r \in Requests
  PROVE  /\ SweptMgr(r) \in Mgr
         /\ SweptMgr(r).blocks \in Seq(AllBlocks)
         /\ Len(SweptMgr(r).blocks) = Len(mgr[r].blocks)
         /\ SweptMgr(r).cached = mgr[r].cached
<1>1. mgr \in [Requests -> Mgr] /\ req \in [Requests -> Req]
  BY DEF Shape
<1>2. /\ mgr[r].blocks \in Seq(AllBlocks) /\ Len(mgr[r].blocks) \in Nat
      /\ mgr[r].sweep \in Int /\ mgr[r].cached \in Int
  BY <1>1, MgrFields
<1>3. Processed(r) \in Int
  <2>1. req[r].computed \in Int /\ req[r].inflight \in Int
    BY <1>1, ReqFields
  <2> QED
    BY <2>1 DEF Processed, Larger
<1>4. SweepEnd(mgr[r].blocks, mgr[r].sweep, Processed(r)) \in Int
  <2>1. Cdiv(Processed(r)) \in Int
    BY <1>3, CdivInt
  <2> QED
    BY <1>2, <2>1 DEF SweepEnd, Larger, Smaller
<1> DEFINE blocks == NullOut(mgr[r].blocks, SweptOf(r))
           sweep  == SweepEnd(mgr[r].blocks, mgr[r].sweep, Processed(r))
<1>5. blocks \in Seq(AllBlocks) /\ Len(blocks) = Len(mgr[r].blocks)
  BY <1>2, NullOutType
<1>6. mgr[r] \in Mgr
  BY <1>1
<1>7. SweptMgr(r) = [mgr[r] EXCEPT !.blocks = blocks, !.sweep = sweep]
  BY DEF SweptMgr
<1> HIDE DEF blocks, sweep
<1>8. sweep \in Int
  BY <1>4 DEF sweep
<1> QED
  BY <1>2, <1>5, <1>6, <1>7, <1>8 DEF Mgr, AllBlocks

LEMMA ScheduledType ==
  ASSUME step \in Partial(Entry), NEW r \in Requests, NEW entry \in Entry
  PROVE  Scheduled(r, entry) \in Partial(Entry)
<1>1. PICK D \in SUBSET Requests : step \in [D -> Entry]
  BY DEF Partial
<1>2. Scheduled(r, entry) \in [D \union {r} -> Entry]
  BY <1>1 DEF Scheduled
<1> QED
  BY <1>2 DEF Partial

(* RunningListed survives a step that changes neither the running list nor *)
(* who is running and shortens no running request's list.                  *)
LEMMA SameListed ==
  ASSUME ServingInv, running' = running,
         \A r \in Requests : req'[r].status = "running" <=> req[r].status = "running",
         \A r \in Requests : req[r].status = "running" => Len(mgr'[r].blocks) >= NumSpec
  PROVE  RunningListed'
  BY DEF ServingInv, RunningListed, Distinct, Listed

LEMMA NewReqType == NewReq \in Req /\ NewReq.status = "new"
  BY DEF NewReq, Req, Statuses

LEMMA InitServing == Init => ServingInv
<1> SUFFICES ASSUME Init PROVE ServingInv
  OBVIOUS
<1> USE ServingAssumption
<1>1. req \in [Requests -> Req] /\ \A r \in Requests : req[r].status = "new"
  <2>1. ASSUME NEW r \in Requests
        PROVE  [NewReq EXCEPT !.tokens = Prompt[r]] \in Req
               /\ [NewReq EXCEPT !.tokens = Prompt[r]].status = "new"
    BY NewReqType DEF Req
  <2> QED
    BY <2>1 DEF Init
<1>2. mgr \in [Requests -> Mgr]
  BY DEF Init, Mgr, NoBlocks
<1>3. step \in Partial(Entry)
  <2>1. step = <<>>
    BY DEF Init
  <2>2. step \in [{} -> Entry]
    BY <2>1
  <2> QED
    BY <2>2 DEF Partial
<1>4. running = <<>> /\ flights = <<>> /\ cursor = 1 /\ budget = MaxBatched
  BY DEF Init
<1>5. Shape
  BY <1>1, <1>2, <1>3, <1>4 DEF Shape
<1>6. \A r \in Requests : req[r].status = "new"
  BY <1>1
<1>7. Len(running) = 0
  BY <1>4
<1>8. RunningListed
  BY <1>6, <1>7 DEF RunningListed, Distinct, Listed
<1> QED
  BY <1>5, <1>8 DEF ServingInv

LEMMA ArriveServing ==
  ASSUME ServingInv, NEW r \in Requests, Arrive(r)
  PROVE  ServingInv'
<1>1. Shape
  BY DEF ServingInv
<1>2. req' \in [Requests -> Req]
  BY <1>1 DEF Arrive, Shape, Req, Statuses
<1>3. UNCHANGED <<running, cursor, budget, step, flights, mgr>>
  BY DEF Arrive, passVars
<1>4. Shape'
  BY <1>1, <1>2, <1>3 DEF Shape
<1>5. \A s \in Requests : req'[s].status = "running" <=> req[s].status = "running"
  BY <1>1 DEF Arrive, Shape, Req
<1>6. RunningListed'
  BY <1>3, <1>5, SameListed DEF ServingInv, RunningListed
<1> QED
  BY <1>4, <1>6 DEF ServingInv

(* A request that stops or is aborted leaves the running list.             *)
LEMMA Retired ==
  ASSUME ServingInv, NEW r \in Requests,
         req' = [req EXCEPT ![r] = [NewReq EXCEPT !.status = "finished"]],
         running' = Without(running, r),
         mgr' = [mgr EXCEPT ![r] = NoBlocks]
  PROVE  /\ RunningListed'
         /\ running' \in Seq(Requests)
         /\ req' \in [Requests -> Req]
         /\ mgr' \in [Requests -> Mgr]
<1>1. running \in Seq(Requests) /\ req \in [Requests -> Req] /\ mgr \in [Requests -> Mgr]
  BY DEF ServingInv, Shape
<1>2. Distinct(running)
  BY DEF ServingInv, RunningListed
<1>3. /\ running' \in Seq(Requests)
      /\ Distinct(running')
      /\ \A x \in Requests : Listed(running', x) <=> Listed(running, x) /\ x # r
  BY <1>1, <1>2, WithoutType
<1>4. [NewReq EXCEPT !.status = "finished"] \in Req
      /\ [NewReq EXCEPT !.status = "finished"].status = "finished"
  BY NewReqType DEF Req, Statuses
<1>5. NoBlocks \in Mgr
  BY DEF NoBlocks, Mgr
<1>6. req' \in [Requests -> Req] /\ req'[r].status = "finished"
      /\ \A x \in Requests : x # r => req'[x] = req[x]
  BY <1>1, <1>4
<1>7. mgr' \in [Requests -> Mgr] /\ \A x \in Requests : x # r => mgr'[x] = mgr[x]
  BY <1>1, <1>5
<1>8. RunningListed'
  BY <1>3, <1>6, <1>7 DEF ServingInv, RunningListed
<1> QED
  BY <1>3, <1>6, <1>7, <1>8

LEMMA AbortServing ==
  ASSUME ServingInv, NEW r \in Requests, Abort(r)
  PROVE  ServingInv'
<1>1. UNCHANGED <<cursor, budget, step, flights>>
  BY DEF Abort, passVars
<1>2. /\ RunningListed' /\ running' \in Seq(Requests)
      /\ req' \in [Requests -> Req] /\ mgr' \in [Requests -> Mgr]
  BY Retired DEF Abort
<1> QED
  BY <1>1, <1>2 DEF ServingInv, Shape

(* Steps of the loops that only move on.                                   *)
LEMMA MovingOn ==
  ASSUME ServingInv, StartPass \/ SkipRunning \/ EndRunning \/ EndAdmission
  PROVE  ServingInv'
<1>1. UNCHANGED <<running, budget, step, flights, req, mgr>>
  BY DEF StartPass, SkipRunning, EndRunning, EndAdmission, passVars
<1>2. cursor' \in Nat \ {0}
  BY DEF StartPass, SkipRunning, EndRunning, EndAdmission, passVars, ServingInv, Shape
<1>3. Shape'
  BY <1>1, <1>2 DEF ServingInv, Shape
<1>4. RunningListed'
  BY <1>1, SameListed DEF ServingInv, RunningListed
<1> QED
  BY <1>3, <1>4 DEF ServingInv

LEMMA CurrentRunning ==
  ASSUME ServingInv, InLoop
  PROVE  /\ Current \in Requests
         /\ req[Current].status = "running"
         /\ Len(mgr[Current].blocks) >= NumSpec
<1>1. running \in Seq(Requests) /\ cursor \in Nat \ {0}
  BY DEF ServingInv, Shape
<1>2. cursor \in 1 .. Len(running)
  BY <1>1, LenProperties DEF InLoop
<1>3. Current \in Requests
  BY <1>1, <1>2, ElementOfSeq DEF Current
<1>4. Listed(running, Current)
  BY <1>2 DEF Listed, Current
<1> QED
  BY <1>3, <1>4 DEF ServingInv, RunningListed

(* The allocation of a running request: types, and the bound it obeys.     *)
LEMMA GrowthType ==
  ASSUME ServingInv, InLoop
  PROVE  /\ NewTokens(Current) \in Int
         /\ req[Current].computed + NewTokens(Current) \in Int
         /\ SweptMgr(Current).blocks \in Seq(AllBlocks)
         /\ Len(SweptMgr(Current).blocks) >= NumSpec
<1>1. Current \in Requests /\ Len(mgr[Current].blocks) >= NumSpec
  BY CurrentRunning
<1>2. Shape
  BY DEF ServingInv
<1>3. NewTokens(Current) \in Int /\ req[Current].computed \in Int
  BY <1>1, <1>2, NewTokensInt, ReqFields DEF Shape
<1>4. SweptMgr(Current).blocks \in Seq(AllBlocks)
      /\ Len(SweptMgr(Current).blocks) = Len(mgr[Current].blocks)
  BY <1>1, <1>2, SweptType
<1> QED
  BY <1>1, <1>3, <1>4

LEMMA GrowServing ==
  ASSUME ServingInv, Grow
  PROVE  ServingInv'
<1> DEFINE r == Current
           n == NewTokens(r)
           q == req[r]
           m == SweptMgr(r)
           total == q.computed + n
           tokens == Smaller(total, q.tokens)
           drafts == IF q.spec = 0 THEN 0
                     ELSE Smaller(q.spec, Larger(0, total - q.tokens - q.placeholders))
           entry == [n |-> n, drafts |-> drafts, padded |-> FALSE, admitted |-> FALSE]
           cached == Larger(m.cached, tokens \div BlockSize)
<1>1. InLoop /\ Shape
  BY DEF Grow, ServingInv
<1>2. PICK new \in Picks(SweptPool(r), NumNew(m.blocks, total, TRUE)) :
        /\ mgr' = [mgr EXCEPT ![r] = [m EXCEPT !.blocks = Allocated(m.blocks, total, TRUE, new),
                                               !.cached = Larger(@, tokens \div BlockSize)]]
        /\ step' = Scheduled(r, entry)
        /\ req' = [req EXCEPT ![r].spec = 0]
        /\ budget' = budget - n
  BY DEF Grow
<1>3. cursor' = cursor + 1 /\ UNCHANGED <<running, flights>>
  BY DEF Grow
<1>4. r \in Requests /\ n \in Int /\ total \in Int /\ m.blocks \in Seq(AllBlocks)
      /\ Len(m.blocks) >= NumSpec
  BY <1>1, GrowthType, CurrentRunning
<1>5. q.computed \in Int /\ q.tokens \in Int /\ q.placeholders \in Int /\ q.spec \in Int
  BY <1>1, <1>4, ReqFields DEF Shape
<1>6. entry \in Entry /\ tokens \in Int
  <2> HIDE DEF n, q, r, total
  <2>1. total - q.tokens - q.placeholders \in Int
    BY <1>4, <1>5
  <2>2. drafts \in Int
    BY <1>5, <2>1 DEF Larger, Smaller
  <2>3. tokens \in Int
    BY <1>4, <1>5 DEF Smaller
  <2> QED
    BY <1>4, <2>2, <2>3 DEF Entry
<1> DEFINE blocks == Allocated(m.blocks, total, TRUE, new)
<1>7. blocks \in Seq(AllBlocks) /\ Len(blocks) >= NumSpec
  <2>1. new \in [1 .. NumNew(m.blocks, total, TRUE) -> Blocks]
    BY DEF Picks, FreeBlocks
  <2> HIDE DEF m, total
  <2>2. blocks \in Seq(AllBlocks) /\ Len(blocks) >= Len(m.blocks)
    BY <1>4, <2>1, AllocatedType
  <2>3. Len(blocks) \in Nat /\ Len(m.blocks) \in Nat /\ NumSpec \in Nat
    BY <1>4, <2>2, LenProperties, ManagerAssumption
  <2> HIDE DEF blocks
  <2>4. Len(blocks) >= NumSpec
    BY <1>4, <2>2, <2>3
  <2> QED
    BY <2>2, <2>4
<1>8. cached \in Int
  <2>1. m.cached \in Int
    BY <1>1, <1>4, SweptType, MgrFields DEF Shape
  <2>2. tokens \div BlockSize \in Int
    BY <1>6, ManagerAssumption
  <2> QED
    BY <2>1, <2>2 DEF Larger
<1>9. mgr' = [mgr EXCEPT ![r] = [m EXCEPT !.blocks = blocks, !.cached = cached]]
  BY <1>2
<1>10. m \in Mgr
  BY <1>1, <1>4, SweptType
<1>11. /\ mgr' \in [Requests -> Mgr] /\ mgr'[r].blocks = blocks
       /\ \A x \in Requests : x # r => mgr'[x] = mgr[x]
  <2> HIDE DEF m, blocks, cached, r
  <2>1. [m EXCEPT !.blocks = blocks, !.cached = cached] \in Mgr
        /\ [m EXCEPT !.blocks = blocks, !.cached = cached].blocks = blocks
    BY <1>7, <1>8, <1>10 DEF Mgr, AllBlocks
  <2> QED
    BY <1>1, <1>4, <1>9, <2>1 DEF Shape
<1>12. req' \in [Requests -> Req]
       /\ \A x \in Requests : req'[x].status = req[x].status
  <2>1. req \in [Requests -> Req] /\ req' = [req EXCEPT ![r].spec = 0]
    BY <1>1, <1>2 DEF Shape
  <2> HIDE DEF r
  <2>2. [req[r] EXCEPT !.spec = 0] \in Req
        /\ [req[r] EXCEPT !.spec = 0].status = req[r].status
    <3>1. req[r] \in Req
      BY <1>4, <2>1
    <3> QED
      BY <3>1 DEF Req
  <2>3. req' = [req EXCEPT ![r] = [req[r] EXCEPT !.spec = 0]]
    BY <2>1
  <2> QED
    BY <1>4, <2>1, <2>2, <2>3
<1>13. step' \in Partial(Entry)
  BY <1>1, <1>2, <1>4, <1>6, ScheduledType DEF Shape
<1>14. budget' \in Int /\ cursor' \in Nat \ {0}
  BY <1>1, <1>2, <1>3, <1>4 DEF Shape
<1>15. Shape'
  BY <1>1, <1>3, <1>11, <1>12, <1>13, <1>14 DEF Shape
<1>16. RunningListed'
  <2> HIDE DEF r, blocks
  <2>1. \A x \in Requests : req[x].status = "running" => Len(mgr'[x].blocks) >= NumSpec
    BY <1>7, <1>11 DEF ServingInv, RunningListed
  <2> QED
    BY <1>3, <1>12, <2>1, SameListed
<1> QED
  BY <1>15, <1>16 DEF ServingInv

LEMMA PreemptedType ==
  ASSUME NEW q \in Req
  PROVE  PreemptedReq(q) \in Req /\ PreemptedReq(q).status = "preempted"
<1> DEFINE p0 == [q EXCEPT !.status = "preempted"]
           p1 == [p0 EXCEPT !.computed = 0]
           p2 == [p1 EXCEPT !.spec = 0]
           p3 == [p2 EXCEPT !.placeholders = 0]
<1>0. p0 \in Req /\ p0.status = "preempted"
  BY DEF Req, Statuses
<1>2. PreemptedReq(q) = [p3 EXCEPT !.stale = q.inflight]
  BY DEF PreemptedReq, StaleShare
<1> HIDE DEF p0
<1>1. p1 \in Req /\ p1.status = "preempted"
  BY <1>0 DEF Req
<1> HIDE DEF p1
<1>3. p2 \in Req /\ p2.status = "preempted"
  BY <1>1 DEF Req
<1> HIDE DEF p2
<1>4. p3 \in Req /\ p3.status = "preempted"
  BY <1>3 DEF Req
<1> HIDE DEF p3
<1>5. q.inflight \in Int
  BY DEF Req
<1>6. [p3 EXCEPT !.stale = q.inflight] \in Req
  BY <1>4, <1>5 DEF Req
<1>7. [p3 EXCEPT !.stale = q.inflight].status = "preempted"
  BY <1>4 DEF Req
<1> QED
  BY <1>2, <1>6, <1>7

(* The victim is the last of the list, and nowhere else in it.             *)
LEMMA PreemptServing ==
  ASSUME ServingInv, PreemptLast
  PROVE  ServingInv'
<1> DEFINE r == Current
           victim == running[Len(running)]
           swept == [mgr EXCEPT ![r] = SweptMgr(r)]
<1>1. InLoop /\ Shape /\ RunningListed
  BY DEF PreemptLast, ServingInv
<1>2. r \in Requests
  BY <1>1, CurrentRunning
<1>3. running \in Seq(Requests) /\ Len(running) \in Nat /\ Len(running) >= 1
  BY <1>1, LenProperties DEF Shape, InLoop
<1>4. victim \in Requests
  BY <1>3, ElementOfSeq
<1>5. /\ mgr' = [swept EXCEPT ![victim] = NoBlocks]
      /\ req' = [req EXCEPT ![victim] = PreemptedReq(@)]
      /\ running' = SubSeq(running, 1, Len(running) - 1)
      /\ UNCHANGED <<cursor, budget, step, flights>>
  BY DEF PreemptLast
<1>6. /\ running' \in Seq(Requests) /\ Len(running') = Len(running) - 1
      /\ \A i \in 1 .. Len(running) - 1 : running'[i] = running[i]
  <2>1. \A i \in 1 .. Len(running) - 1 : running[i] \in Requests
    BY <1>3, ElementOfSeq
  <2> DEFINE last == Len(running) - 1
  <2>2. last \in Nat /\ 1 .. last = 1 .. Len(running) - 1
    BY <1>3
  <2>3. running' = SubSeq(running, 1, last)
    BY <1>5
  <2>4. \A i \in 1 .. last : running[i] \in Requests
    BY <2>1
  <2> HIDE DEF last
  <2>5. /\ SubSeq(running, 1, last) \in Seq(Requests)
        /\ Len(SubSeq(running, 1, last)) = (IF 1 <= last THEN last - 1 + 1 ELSE 0)
        /\ \A i \in 1 .. last - 1 + 1 : SubSeq(running, 1, last)[i] = running[1 + i - 1]
    BY <1>3, <2>2, <2>4, SubSeqProperties
  <2>6. running' \in Seq(Requests) /\ Len(running') = last
    BY <2>2, <2>3, <2>5
  <2>7. \A i \in 1 .. last : running'[i] = running[i]
    BY <2>2, <2>3, <2>5
  <2> QED
    BY <2>6, <2>7 DEF last
<1> HIDE DEF victim
<1>7. /\ req' \in [Requests -> Req] /\ req'[victim].status = "preempted"
      /\ \A x \in Requests : x # victim => req'[x] = req[x]
  <2>1. req \in [Requests -> Req]
    BY <1>1 DEF Shape
  <2>2. PreemptedReq(req[victim]) \in Req /\ PreemptedReq(req[victim]).status = "preempted"
    BY <1>4, <2>1, PreemptedType
  <2> QED
    BY <1>4, <1>5, <2>1, <2>2
<1>8. /\ mgr' \in [Requests -> Mgr]
      /\ \A x \in Requests : x # victim => Len(mgr'[x].blocks) = Len(mgr[x].blocks)
  <2>1. mgr \in [Requests -> Mgr] /\ NoBlocks \in Mgr
    BY <1>1 DEF Shape, NoBlocks, Mgr
  <2>2. SweptMgr(r) \in Mgr /\ Len(SweptMgr(r).blocks) = Len(mgr[r].blocks)
    BY <1>1, <1>2, SweptType
  <2> HIDE DEF r
  <2> QED
    BY <1>2, <1>4, <1>5, <2>1, <2>2
<1>9. Distinct(running')
  BY <1>1, <1>3, <1>6 DEF Distinct, RunningListed
<1>10. \A x \in Requests : Listed(running', x) <=> Listed(running, x) /\ x # victim
  <2>1. ASSUME NEW x \in Requests, Listed(running', x)
        PROVE  Listed(running, x) /\ x # victim
    <3>1. PICK i \in 1 .. Len(running) - 1 : running[i] = x
      BY <1>6, <2>1 DEF Listed
    <3>2. i \in 1 .. Len(running) /\ i # Len(running) /\ Len(running) \in 1 .. Len(running)
      BY <1>3, <3>1
    <3> QED
      BY <1>1, <3>1, <3>2 DEF Listed, RunningListed, Distinct, victim
  <2>2. ASSUME NEW x \in Requests, Listed(running, x), x # victim
        PROVE  Listed(running', x)
    <3>1. PICK i \in 1 .. Len(running) : running[i] = x
      BY <2>2 DEF Listed
    <3>2. i # Len(running)
      BY <2>2, <3>1 DEF victim
    <3>3. i \in 1 .. Len(running) - 1
      BY <1>3, <3>1, <3>2
    <3> QED
      BY <1>6, <3>1, <3>3 DEF Listed
  <2> QED
    BY <2>1, <2>2
<1>11. RunningListed'
  BY <1>1, <1>4, <1>7, <1>8, <1>9, <1>10 DEF RunningListed
<1>12. Shape'
  BY <1>1, <1>5, <1>6, <1>7, <1>8 DEF Shape
<1> QED
  BY <1>11, <1>12 DEF ServingInv

(* The allocation of a request that is admitted with a hit.                *)
LEMMA AdmitServing ==
  ASSUME ServingInv, NEW r \in Requests, Admit(r)
  PROVE  ServingInv'
<1>1. Shape /\ RunningListed
  BY DEF ServingInv
<1>2. PICK found \in Hits(r) :
        /\ Admissible(r, found)
        /\ \E new \in Picks(Touch(pool, Held(found)),
                            NumNew(found, AdmitTotal(r, found), FALSE)) :
             mgr' = [mgr EXCEPT ![r] =
                       [blocks |-> AdmittedBlocks(r, found, new), sweep |-> 0,
                        cached |-> Larger(Len(found),
                                     Smaller(AdmitTotal(r, found), req[r].tokens)
                                       \div BlockSize)]]
        /\ step' = Scheduled(r, [n |-> AdmitTokens(r, found),
                                 drafts |-> IF Padded(r, found) THEN NumSpec ELSE 0,
                                 padded |-> Padded(r, found), admitted |-> TRUE])
        /\ req' = [req EXCEPT ![r].status = "running", ![r].computed = HitTokens(found)]
        /\ budget' = budget - AdmitTokens(r, found)
  BY DEF Admit
<1>3. running' = Append(running, r) /\ UNCHANGED <<cursor, flights>>
  BY DEF Admit
<1> DEFINE total == AdmitTotal(r, found)
           cached == Larger(Len(found), Smaller(total, req[r].tokens) \div BlockSize)
           entry == [n |-> AdmitTokens(r, found),
                     drafts |-> IF Padded(r, found) THEN NumSpec ELSE 0,
                     padded |-> Padded(r, found), admitted |-> TRUE]
<1>4. /\ found \in Seq(AllBlocks) /\ Len(found) \in Nat /\ HitTokens(found) \in Nat
      /\ AdmitTokens(r, found) \in Int /\ total \in Int
  BY <1>1, HitsType, AdmitTokensInt, LenProperties
<1>5. total \in Nat
  <2>1. AdmitTokens(r, found) > 0
    BY <1>2 DEF Admissible
  <2>2. total = HitTokens(found) + AdmitTokens(r, found)
    BY DEF AdmitTotal
  <2> QED
    BY <1>4, <2>1, <2>2
<1>6. PICK new \in Picks(Touch(pool, Held(found)), NumNew(found, total, FALSE)) :
        mgr' = [mgr EXCEPT ![r] = [blocks |-> AdmittedBlocks(r, found, new), sweep |-> 0,
                                   cached |-> cached]]
  BY <1>2
<1> DEFINE blocks == AdmittedBlocks(r, found, new)
<1>7. blocks \in Seq(AllBlocks) /\ Len(blocks) >= NumSpec
  <2>1. new \in [1 .. NumNew(found, total, FALSE) -> Blocks]
    BY DEF Picks, FreeBlocks
  <2>2. blocks = Allocated(found, total, FALSE, new)
    BY DEF AdmittedBlocks
  <2>3. Cdiv(total) \in Nat /\ Required(total) = Cdiv(total) + NumSpec
    BY <1>4, <1>5, CdivNat, RequiredInt
  <2> HIDE DEF blocks, total
  <2>4. blocks \in Seq(AllBlocks) /\ Len(blocks) >= Required(total)
    BY <1>4, <2>1, <2>2, AllocatedType
  <2>5. Len(blocks) \in Nat /\ NumSpec \in Nat
    BY <2>4, LenProperties, ManagerAssumption
  <2>6. Len(blocks) >= NumSpec
    BY <2>3, <2>4, <2>5
  <2> QED
    BY <2>4, <2>6
<1>8. cached \in Int
  <2>1. req[r].tokens \in Int
    BY <1>1, ReqFields DEF Shape
  <2>2. Smaller(total, req[r].tokens) \in Int
    BY <1>4, <2>1 DEF Smaller
  <2>3. Smaller(total, req[r].tokens) \div BlockSize \in Int
    BY <2>2, ManagerAssumption
  <2> HIDE DEF total
  <2> QED
    BY <1>4, <2>3 DEF Larger
<1> HIDE DEF blocks, cached, total
<1>9. /\ mgr' \in [Requests -> Mgr] /\ mgr'[r].blocks = blocks
      /\ \A x \in Requests : x # r => mgr'[x] = mgr[x]
  <2>1. [blocks |-> blocks, sweep |-> 0, cached |-> cached] \in Mgr
    BY <1>7, <1>8 DEF Mgr, AllBlocks
  <2>2. mgr' = [mgr EXCEPT ![r] = [blocks |-> blocks, sweep |-> 0, cached |-> cached]]
    BY <1>6 DEF blocks
  <2> QED
    BY <1>1, <2>1, <2>2 DEF Shape
<1>10. /\ req' \in [Requests -> Req] /\ req'[r].status = "running"
       /\ \A x \in Requests : x # r => req'[x] = req[x]
  <2>1. req \in [Requests -> Req]
    BY <1>1 DEF Shape
  <2>2. HitTokens(found) \in Int
    BY <1>4
  <2>3. req' = [req EXCEPT ![r] = [req[r] EXCEPT !.status = "running",
                                                 !.computed = HitTokens(found)]]
    BY <1>2, <2>1
  <2>4. /\ [req[r] EXCEPT !.status = "running", !.computed = HitTokens(found)] \in Req
        /\ [req[r] EXCEPT !.status = "running", !.computed = HitTokens(found)].status
             = "running"
    <3>1. req[r] \in Req
      BY <2>1
    <3> QED
      BY <2>2, <3>1 DEF Req, Statuses
  <2> QED
    BY <2>1, <2>3, <2>4
<1>11. step' \in Partial(Entry)
  <2>1. entry \in Entry
    BY <1>4, ManagerAssumption DEF Entry, Padded, JoinsDecodes
  <2>2. step' = Scheduled(r, entry)
    BY <1>2
  <2> QED
    BY <1>1, <2>1, <2>2, ScheduledType DEF Shape
<1>12. budget' \in Int
  BY <1>1, <1>2, <1>4 DEF Shape
<1>13. ~Listed(running, r)
  <2>1. req[r].status # "running"
    BY <1>2 DEF Admissible, MayResume
  <2> QED
    BY <1>1, <2>1 DEF RunningListed
<1>14. /\ running' \in Seq(Requests) /\ Len(running') = Len(running) + 1
       /\ running'[Len(running) + 1] = r /\ Len(running) \in Nat
       /\ \A i \in 1 .. Len(running) : running'[i] = running[i]
  BY <1>1, <1>3, AppendProperties, LenProperties DEF Shape
<1>15. Distinct(running') /\ \A x \in Requests : Listed(running', x) <=> Listed(running, x) \/ x = r
  BY <1>1, <1>13, <1>14 DEF Distinct, Listed, RunningListed
<1>16. RunningListed'
  BY <1>1, <1>7, <1>9, <1>10, <1>15 DEF RunningListed
<1>17. Shape'
  BY <1>1, <1>3, <1>9, <1>10, <1>11, <1>12, <1>14 DEF Shape
<1> QED
  BY <1>16, <1>17 DEF ServingInv

LEMMA StepFields ==
  ASSUME step \in Partial(Entry)
  PROVE  /\ DOMAIN step \subseteq Requests
         /\ \A r \in DOMAIN step : step[r].n \in Int /\ step[r].drafts \in Int
  BY DEF Partial, Entry

LEMMA AdvancedType ==
  ASSUME Shape, NEW r \in DOMAIN step
  PROVE  AdvancedReq(r) \in Req /\ AdvancedReq(r).status = req[r].status
<1> DEFINE q0 == [req[r] EXCEPT !.computed = @ + step[r].n]
           q1 == [q0 EXCEPT !.inflight = req[r].inflight + step[r].n]
           q2 == [q1 EXCEPT !.chunk = IsChunk(r)]
           q3 == [q2 EXCEPT !.placeholders = req[r].placeholders + 1 + step[r].drafts]
           q4 == [q3 EXCEPT !.spec = NumSpec]
<1>1. r \in Requests /\ step[r].n \in Int /\ step[r].drafts \in Int
  BY StepFields DEF Shape
<1>2. req[r] \in Req
  BY <1>1 DEF Shape
<1>3. req[r].computed \in Int /\ req[r].inflight \in Int /\ req[r].placeholders \in Int
  BY <1>2 DEF Req
<1>4. NumSpec \in Int /\ IsChunk(r) \in BOOLEAN
  BY ManagerAssumption DEF IsChunk
<1>5. AdvancedReq(r) = IF IsChunk(r) THEN q2 ELSE q4
  <2>1. q2 = [req[r] EXCEPT !.computed = @ + step[r].n, !.inflight = @ + step[r].n,
                            !.chunk = IsChunk(r)]
    BY <1>2 DEF Req
  <2>2. q2.placeholders = req[r].placeholders
    BY <1>2 DEF Req
  <2> HIDE DEF q2
  <2> QED
    BY <2>1, <2>2 DEF AdvancedReq
<1>6. q0 \in Req /\ q0.status = req[r].status
  <2>1. req[r].computed + step[r].n \in Int
    BY <1>1, <1>3
  <2> QED
    BY <1>2, <2>1 DEF Req
<1> HIDE DEF q0
<1>7. q1 \in Req /\ q1.status = req[r].status
  <2>1. req[r].inflight + step[r].n \in Int
    BY <1>1, <1>3
  <2> QED
    BY <1>6, <2>1 DEF Req
<1> HIDE DEF q1
<1>8. q2 \in Req /\ q2.status = req[r].status
  BY <1>4, <1>7 DEF Req
<1> HIDE DEF q2
<1>9. q3 \in Req /\ q3.status = req[r].status
  <2>1. req[r].placeholders + 1 + step[r].drafts \in Int
    BY <1>1, <1>3
  <2> QED
    BY <1>8, <2>1 DEF Req
<1> HIDE DEF q3
<1>10. q4 \in Req /\ q4.status = req[r].status
  BY <1>4, <1>9 DEF Req
<1> HIDE DEF q4
<1> QED
  BY <1>5, <1>8, <1>10

LEMMA EmptyStep == <<>> \in Partial(Entry)
<1>1. <<>> \in [{} -> Entry]
  OBVIOUS
<1> QED
  BY <1>1 DEF Partial

LEMMA DispatchServing ==
  ASSUME ServingInv, Dispatch
  PROVE  ServingInv'
<1>1. Shape /\ RunningListed
  BY DEF ServingInv
<1>2. PICK accepted \in Acceptances :
        flights' =
          Append(flights,
                 [r \in DOMAIN step |->
                    [n |-> step[r].n, rejected |-> step[r].drafts - accepted[r],
                     sampled |-> IF IsChunk(r) THEN 0 ELSE 1 + accepted[r]]])
  BY DEF Dispatch
<1>3. /\ req' = [r \in Requests |-> IF r \in DOMAIN step THEN AdvancedReq(r) ELSE req[r]]
      /\ cursor' = 1 /\ budget' = MaxBatched /\ step' = <<>>
      /\ UNCHANGED <<running, mgr>>
  BY DEF Dispatch, ResetPass
<1> DEFINE out == [r \in DOMAIN step |->
                     [n |-> step[r].n, rejected |-> step[r].drafts - accepted[r],
                      sampled |-> IF IsChunk(r) THEN 0 ELSE 1 + accepted[r]]]
<1>4. out \in Partial(Output)
  <2>1. ASSUME NEW r \in DOMAIN step
        PROVE  [n |-> step[r].n, rejected |-> step[r].drafts - accepted[r],
                sampled |-> IF IsChunk(r) THEN 0 ELSE 1 + accepted[r]] \in Output
    <3>1. step[r].n \in Int /\ step[r].drafts \in Int
      BY <1>1, StepFields DEF Shape
    <3>2. accepted[r] \in Int
      BY DEF Acceptances
    <3> QED
      BY <3>1, <3>2 DEF Output
  <2>2. out \in [DOMAIN step -> Output]
    BY <2>1
  <2>3. DOMAIN step \in SUBSET Requests
    BY <1>1, StepFields DEF Shape
  <2> HIDE DEF out
  <2> QED
    BY <2>2, <2>3 DEF Partial
<1>5. flights' \in Seq(Partial(Output))
  <2> HIDE DEF out
  <2>1. flights' = Append(flights, out)
    BY <1>2 DEF out
  <2> QED
    BY <1>1, <1>4, <2>1, AppendProperties DEF Shape
<1>6. req' \in [Requests -> Req] /\ \A r \in Requests : req'[r].status = req[r].status
  <2>1. req \in [Requests -> Req]
    BY <1>1 DEF Shape
  <2>2. \A r \in DOMAIN step : AdvancedReq(r) \in Req /\ AdvancedReq(r).status = req[r].status
    BY <1>1, AdvancedType
  <2> QED
    BY <1>3, <2>1, <2>2
<1>7. Shape'
  BY <1>1, <1>3, <1>5, <1>6, EmptyStep, ServingAssumption DEF Shape
<1>8. RunningListed'
  BY <1>1, <1>3, <1>6, SameListed DEF RunningListed
<1> QED
  BY <1>7, <1>8 DEF ServingInv

LEMMA DispatchNothingServing ==
  ASSUME ServingInv, DispatchNothing
  PROVE  ServingInv'
<1>1. /\ cursor' = 1 /\ budget' = MaxBatched /\ step' = <<>>
      /\ UNCHANGED <<running, flights, req, mgr>>
  BY DEF DispatchNothing, ResetPass
<1>2. Shape'
  BY <1>1, EmptyStep, ServingAssumption DEF ServingInv, Shape
<1>3. RunningListed'
  BY <1>1, SameListed DEF ServingInv, RunningListed
<1> QED
  BY <1>2, <1>3 DEF ServingInv

(* The rest of a step's outputs, and what is taken from them.              *)
LEMMA OutputType ==
  ASSUME Shape, NEW r \in Requests, NextOutput(r)
  PROVE  flights' \in Seq(Partial(Output)) /\ Head(flights)[r] \in Output
<1>1. flights \in Seq(Partial(Output)) /\ flights # <<>> /\ r \in DOMAIN Head(flights)
  BY DEF Shape, NextOutput
<1>2. Head(flights) \in Partial(Output) /\ Tail(flights) \in Seq(Partial(Output))
  BY <1>1, HeadTailProperties
<1>3. PICK D \in SUBSET Requests : Head(flights) \in [D -> Output]
  BY <1>2 DEF Partial
<1>4. RestOfStep(r) \in Partial(Output)
  <2>1. RestOfStep(r) \in [D \ {r} -> Output]
    BY <1>3 DEF RestOfStep
  <2> QED
    BY <2>1 DEF Partial
<1>5. <<RestOfStep(r)>> \o Tail(flights) \in Seq(Partial(Output))
  <2>1. <<RestOfStep(r)>> \in Seq(Partial(Output))
    BY <1>4
  <2> QED
    BY <1>2, <2>1, ConcatProperties
<1>6. flights' = Tail(flights) \/ flights' = <<RestOfStep(r)>> \o Tail(flights)
  BY DEF NextOutput
<1> QED
  BY <1>1, <1>2, <1>3, <1>5, <1>6

LEMMA DrainedType ==
  ASSUME NEW q \in Req, NEW out \in Output
  PROVE  DrainedReq(q, out) \in Req /\ DrainedReq(q, out).status = q.status
<1> DEFINE stale == IF q.stale > 0 THEN q.stale - out.n ELSE 0
           d0 == [q EXCEPT !.inflight = @ - out.n]
           d1 == [d0 EXCEPT !.stale = stale]
           computed == IF d1.computed > 0 THEN d1.computed - out.rejected ELSE d1.computed
           d2 == [d1 EXCEPT !.computed = computed]
           placeholders == IF d1.placeholders > 0 THEN d1.placeholders - out.rejected
                           ELSE d1.placeholders
           d3 == [d2 EXCEPT !.placeholders = placeholders]
<1>1. /\ q.inflight \in Int /\ q.stale \in Int /\ out.n \in Int /\ out.rejected \in Int
  BY DEF Req, Output
<1>2. d0 \in Req /\ d0.status = q.status
  <2>1. q.inflight - out.n \in Int
    BY <1>1
  <2> QED
    BY <2>1 DEF Req
<1>3. stale \in Int
  BY <1>1
<1>4. d1 = [q EXCEPT !.inflight = @ - out.n, !.stale = IF @ > 0 THEN @ - out.n ELSE 0]
  BY DEF Req
<1> HIDE DEF d0, stale
<1>5. d1 \in Req /\ d1.status = q.status
  BY <1>2, <1>3 DEF Req
<1>6. DrainedReq(q, out) = IF ~RollBack(q) THEN d1 ELSE d3
  <2>1. d3 = [d1 EXCEPT !.computed = IF @ > 0 THEN @ - out.rejected ELSE @,
                        !.placeholders = IF @ > 0 THEN @ - out.rejected ELSE @]
    <3> HIDE DEF d1
    <3> QED
      BY <1>5 DEF Req
  <2> HIDE DEF d3, d1
  <2> QED
    BY <1>4, <2>1 DEF DrainedReq
<1> HIDE DEF d1
<1>7. computed \in Int /\ placeholders \in Int
  BY <1>1, <1>5 DEF Req
<1> HIDE DEF computed, placeholders
<1>8. d2 \in Req /\ d2.status = q.status
  BY <1>5, <1>7 DEF Req
<1> HIDE DEF d2
<1>9. d3 \in Req /\ d3.status = q.status
  BY <1>7, <1>8 DEF Req
<1> HIDE DEF d3
<1> QED
  BY <1>5, <1>6, <1>9

LEMMA UpdateGoneServing ==
  ASSUME ServingInv, NEW r \in Requests, UpdateGone(r)
  PROVE  ServingInv'
<1>1. UNCHANGED <<running, cursor, budget, step, req, mgr>> /\ NextOutput(r)
  BY DEF UpdateGone, passVars
<1>2. Shape'
  BY <1>1, OutputType DEF ServingInv, Shape
<1>3. RunningListed'
  BY <1>1, SameListed DEF ServingInv, RunningListed
<1> QED
  BY <1>2, <1>3 DEF ServingInv

LEMMA UpdateChunkServing ==
  ASSUME ServingInv, NEW r \in Requests, UpdateChunk(r)
  PROVE  ServingInv'
<1>1. /\ UNCHANGED <<running, cursor, budget, step, mgr>> /\ NextOutput(r)
      /\ req' = [req EXCEPT ![r] = DrainedReq(@, Head(flights)[r])]
  BY DEF UpdateChunk, passVars
<1>2. Shape /\ flights' \in Seq(Partial(Output)) /\ Head(flights)[r] \in Output
  BY <1>1, OutputType DEF ServingInv
<1>3. req' \in [Requests -> Req] /\ \A x \in Requests : req'[x].status = req[x].status
  <2>1. req \in [Requests -> Req]
    BY <1>2 DEF Shape
  <2>2. /\ DrainedReq(req[r], Head(flights)[r]) \in Req
        /\ DrainedReq(req[r], Head(flights)[r]).status = req[r].status
    BY <1>2, <2>1, DrainedType
  <2> QED
    BY <1>1, <2>1, <2>2
<1>4. Shape'
  BY <1>1, <1>2, <1>3 DEF Shape
<1>5. RunningListed'
  BY <1>1, <1>3, SameListed DEF ServingInv, RunningListed
<1> QED
  BY <1>4, <1>5 DEF ServingInv

LEMMA UpdateTokensServing ==
  ASSUME ServingInv, NEW r \in Requests, UpdateTokens(r)
  PROVE  ServingInv'
<1> DEFINE out == Head(flights)[r]
           d == DrainedReq(req[r], out)
           room == Prompt[r] + MaxNew - req[r].tokens
           after(k) == [d EXCEPT !.tokens = @ + k,
                                 !.placeholders = IF req[r].stale > 0 THEN @ ELSE @ - k]
           tokens(k) == IF after(k).status = "running"
                          THEN after(k).computed - after(k).placeholders ELSE 0
<1>1. UNCHANGED <<cursor, budget, step>> /\ NextOutput(r)
  BY DEF UpdateTokens, passVars
<1>2. Shape /\ flights' \in Seq(Partial(Output)) /\ out \in Output
  BY <1>1, OutputType DEF ServingInv
<1>3. PICK k \in 1 .. Smaller(out.sampled, room) :
        \/ /\ req' = [req EXCEPT ![r] = [NewReq EXCEPT !.status = "finished"]]
           /\ running' = Without(running, r)
           /\ mgr' = [mgr EXCEPT ![r] = NoBlocks]
        \/ /\ req' = [req EXCEPT ![r] = after(k)]
           /\ mgr' = [mgr EXCEPT ![r].cached = Larger(@, tokens(k) \div BlockSize)]
           /\ UNCHANGED running
  BY DEF UpdateTokens
<1>4. CASE /\ req' = [req EXCEPT ![r] = [NewReq EXCEPT !.status = "finished"]]
           /\ running' = Without(running, r)
           /\ mgr' = [mgr EXCEPT ![r] = NoBlocks]
  <2>1. /\ RunningListed' /\ running' \in Seq(Requests)
        /\ req' \in [Requests -> Req] /\ mgr' \in [Requests -> Mgr]
    BY <1>4, Retired
  <2> QED
    BY <1>1, <1>2, <2>1 DEF ServingInv, Shape
<1>5. CASE /\ req' = [req EXCEPT ![r] = after(k)]
           /\ mgr' = [mgr EXCEPT ![r].cached = Larger(@, tokens(k) \div BlockSize)]
           /\ UNCHANGED running
  <2>1. req \in [Requests -> Req] /\ mgr \in [Requests -> Mgr] /\ k \in Int
    BY <1>2 DEF Shape
  <2>2. d \in Req /\ d.status = req[r].status
    BY <1>2, <2>1, DrainedType
  <2> HIDE DEF d
  <2>3. d.tokens + k \in Int
        /\ (IF req[r].stale > 0 THEN d.placeholders ELSE d.placeholders - k) \in Int
    <3>1. d.tokens \in Int /\ d.placeholders \in Int
      BY <2>2 DEF Req
    <3> QED
      BY <2>1, <3>1
  <2>4. after(k) \in Req /\ after(k).status = req[r].status
    BY <2>2, <2>3 DEF Req
  <2> HIDE DEF after
  <2>5. req' \in [Requests -> Req] /\ \A x \in Requests : req'[x].status = req[x].status
    BY <1>5, <2>1, <2>4
  <2>6. Larger(mgr[r].cached, tokens(k) \div BlockSize) \in Int
    <3>1. tokens(k) \in Int
      BY <2>4 DEF Req
    <3>2. tokens(k) \div BlockSize \in Int
      BY <3>1, ManagerAssumption
    <3>3. mgr[r].cached \in Int
      BY <2>1, MgrFields
    <3> QED
      BY <3>2, <3>3 DEF Larger
  <2> DEFINE cached == Larger(mgr[r].cached, tokens(k) \div BlockSize)
  <2>7. mgr' = [mgr EXCEPT ![r] = [mgr[r] EXCEPT !.cached = cached]]
    BY <1>5, <2>1
  <2> HIDE DEF cached
  <2>8. mgr' \in [Requests -> Mgr] /\ \A x \in Requests : mgr'[x].blocks = mgr[x].blocks
    <3>1. cached \in Int
      BY <2>6 DEF cached
    <3>2. [mgr[r] EXCEPT !.cached = cached] \in Mgr
          /\ [mgr[r] EXCEPT !.cached = cached].blocks = mgr[r].blocks
      BY <2>1, <3>1 DEF Mgr
    <3> QED
      BY <2>1, <2>7, <3>2
  <2>9. Shape'
    BY <1>1, <1>2, <1>5, <2>5, <2>8 DEF Shape
  <2>10. RunningListed'
    BY <1>5, <2>5, <2>8, SameListed DEF ServingInv, RunningListed
  <2> QED
    BY <2>9, <2>10 DEF ServingInv
<1> QED
  BY <1>3, <1>4, <1>5

-----------------------------------------------------------------------------
LEMMA StepServing ==
  ASSUME ServingInv, [Next]_vars
  PROVE  ServingInv'
<1>1. CASE UNCHANGED vars
  <2>1. UNCHANGED <<running, cursor, budget, step, flights, req, mgr>>
    BY <1>1 DEF vars, passVars
  <2> QED
    BY <2>1 DEF ServingInv, Shape, RunningListed, Distinct, Listed
<1>2. CASE AllDone
  BY <1>1, <1>2 DEF AllDone
<1>3. CASE Pass
  BY <1>3, MovingOn, GrowServing, PreemptServing, AdmitServing, DispatchServing,
     DispatchNothingServing DEF Pass
<1>4. ASSUME NEW r \in Requests, Arrive(r) \/ Abort(r) \/ Update(r)
      PROVE  ServingInv'
  BY <1>4, ArriveServing, AbortServing, UpdateGoneServing, UpdateChunkServing,
     UpdateTokensServing DEF Update
<1> QED
  BY <1>1, <1>2, <1>3, <1>4 DEF Next

(* In every reachable state the running list and the requests' statuses    *)
(* agree and running requests hold their speculative blocks, whatever      *)
(* order passes, outputs, preemptions and aborts come in.                  *)
THEOREM ListedInvariant == Spec => [](Shape /\ RunningListed)
<1>1. Init => ServingInv
  BY InitServing
<1>2. ServingInv /\ [Next]_vars => ServingInv'
  BY StepServing
<1>3. ServingInv => Shape /\ RunningListed
  BY DEF ServingInv
<1> QED
  BY <1>1, <1>2, <1>3, PTL DEF Spec

(* No allocation the scheduler admits takes more blocks than it was        *)
(* admitted on: of a running request that grows and of a waiting one with  *)
(* any prefix-cache hit.                                                   *)
THEOREM EstimateSafe == Spec => []EstimateCovers
<1>1. ServingInv => EstimateCovers
  <2> SUFFICES ASSUME ServingInv PROVE EstimateCovers
    OBVIOUS
  <2>1. ASSUME InLoop PROVE GrowthCovered(Current)
    <3> DEFINE blocks == SweptMgr(Current).blocks
               total == req[Current].computed + NewTokens(Current)
    <3>1. total \in Int /\ blocks \in Seq(AllBlocks) /\ Len(blocks) >= NumSpec
      BY <2>1, GrowthType
    <3>2. NumNew(blocks, total, TRUE) <= Larger(0, Estimate(blocks, total, TRUE))
      <4> HIDE DEF blocks, total
      <4> QED
        BY <3>1, AllocationBounded
    <3> QED
      BY <3>2 DEF GrowthCovered
  <2>2. ASSUME NEW r \in Requests, NEW found \in Hits(r)
        PROVE  AdmissionCovered(r, found)
    <3>1. Shape
      BY DEF ServingInv
    <3>2. found \in Seq(AllBlocks) /\ AdmitTotal(r, found) \in Int
      BY <3>1, HitsType, AdmitTokensInt
    <3> QED
      BY <3>2, AllocationBounded DEF AdmissionCovered
  <2> QED
    BY <2>1, <2>2 DEF EstimateCovers
<1>2. Init => ServingInv
  BY InitServing
<1>3. ServingInv /\ [Next]_vars => ServingInv'
  BY StepServing
<1> QED
  BY <1>1, <1>2, <1>3, PTL DEF Spec

-----------------------------------------------------------------------------
(* References.  A block's reference count is the number of requests that   *)
(* hold it, and no request holds it twice, over allocation, sweep,         *)
(* caching, hits, preemption, aborts and ends of requests.  The pool knows *)
(* nothing of the lists, so the proof relates it to what each request      *)
(* holds: a function H from requests to sets of blocks.                    *)

HoldersIn(H, b) == {r \in Requests : b \in H[r]}
Counted(p, H) == \A b \in Blocks : p[b].ref = Cardinality(HoldersIn(H, b))
PoolEntry == [ref : Int, hash : States]
Gains(H, r, S) == [H EXCEPT ![r] = @ \union S]
Loses(H, r, S) == [H EXCEPT ![r] = @ \ S]
HeldByAll(m) == [r \in Requests |-> Held(m[r].blocks)]

(* No block is twice in a list; the null block may be.                     *)
NoneTwice(blocks) ==
  \A i, j \in DOMAIN blocks : i # j /\ blocks[i] = blocks[j] => blocks[i] = Null

-----------------------------------------------------------------------------
(* One request more, or one less, holds a block.                           *)
LEMMA HoldersFinite ==
  ASSUME NEW H, NEW b
  PROVE  IsFiniteSet(HoldersIn(H, b)) /\ Cardinality(HoldersIn(H, b)) \in Nat
<1>1. IsFiniteSet(HoldersIn(H, b))
  BY ServingAssumption, FS_Subset DEF HoldersIn
<1> QED
  BY <1>1, FS_CardinalityType

LEMMA OneMoreHolder ==
  ASSUME NEW H \in [Requests -> SUBSET Blocks], NEW r \in Requests, NEW S \in SUBSET Blocks,
         NEW b \in S, b \notin H[r]
  PROVE  Cardinality(HoldersIn(Gains(H, r, S), b))
           = Cardinality(HoldersIn(H, b)) + 1
<1> DEFINE Q == HoldersIn(H, b)
<1>1. HoldersIn(Gains(H, r, S), b) = Q \union {r}
  BY DEF HoldersIn, Gains
<1>2. r \notin Q /\ IsFiniteSet(Q)
  BY HoldersFinite DEF HoldersIn
<1> HIDE DEF Q
<1>3. Cardinality(Q \union {r}) = Cardinality(Q) + 1
  BY <1>2, FS_AddElement
<1> QED
  BY <1>1, <1>3 DEF Q

LEMMA OneLessHolder ==
  ASSUME NEW H \in [Requests -> SUBSET Blocks], NEW r \in Requests, NEW S \in SUBSET Blocks,
         NEW b \in S, b \in H[r]
  PROVE  Cardinality(HoldersIn(Loses(H, r, S), b))
           = Cardinality(HoldersIn(H, b)) - 1
<1> DEFINE Q == HoldersIn(H, b)
<1>1. HoldersIn(Loses(H, r, S), b) = Q \ {r}
  BY DEF HoldersIn, Loses
<1>2. r \in Q /\ IsFiniteSet(Q)
  BY HoldersFinite DEF HoldersIn
<1> HIDE DEF Q
<1>3. Cardinality(Q \ {r}) = Cardinality(Q) - 1
  BY <1>2, FS_RemoveElement
<1> QED
  BY <1>1, <1>3 DEF Q

LEMMA SameHolders ==
  ASSUME NEW H \in [Requests -> SUBSET Blocks], NEW r \in Requests, NEW S, NEW b, b \notin S
  PROVE  /\ HoldersIn(Gains(H, r, S), b) = HoldersIn(H, b)
         /\ HoldersIn(Loses(H, r, S), b) = HoldersIn(H, b)
  BY DEF HoldersIn, Gains, Loses

(* What the operations of the pool do to exact counts: a request gives     *)
(* back blocks it holds, shares blocks it does not hold, takes free ones.  *)
LEMMA ReleaseCounted ==
  ASSUME NEW H \in [Requests -> SUBSET Blocks], NEW r \in Requests, NEW S \in SUBSET H[r],
         NEW p \in [Blocks -> PoolEntry], Counted(p, H)
  PROVE  /\ Release(p, S) \in [Blocks -> PoolEntry]
         /\ Counted(Release(p, S), Loses(H, r, S))
         /\ Loses(H, r, S) \in [Requests -> SUBSET Blocks]
<1>0. S \in SUBSET Blocks
  OBVIOUS
<1>1. ASSUME NEW b \in Blocks
      PROVE  /\ [p[b] EXCEPT !.ref = @ - 1] \in PoolEntry
             /\ [p[b] EXCEPT !.ref = @ - 1].ref = p[b].ref - 1
  BY DEF PoolEntry
<1>2. Release(p, S) \in [Blocks -> PoolEntry]
  BY <1>1 DEF Release
<1>3. ASSUME NEW b \in Blocks
      PROVE  Release(p, S)[b].ref = Cardinality(HoldersIn(Loses(H, r, S), b))
  <2>1. p[b].ref = Cardinality(HoldersIn(H, b))
    BY DEF Counted
  <2>2. CASE b \in S
    <3>1. Release(p, S)[b].ref = p[b].ref - 1
      BY <1>1, <2>2 DEF Release
    <3>2. b \in H[r]
      BY <2>2
    <3>3. Cardinality(HoldersIn(Loses(H, r, S), b))
            = Cardinality(HoldersIn(H, b)) - 1
      BY <1>0, <2>2, <3>2, OneLessHolder
    <3> QED
      BY <2>1, <3>1, <3>3
  <2>3. CASE b \notin S
    <3>1. Release(p, S)[b] = p[b]
      BY <2>3 DEF Release
    <3>2. HoldersIn(Loses(H, r, S), b) = HoldersIn(H, b)
      BY <1>0, <2>3, SameHolders
    <3> QED
      BY <2>1, <3>1, <3>2
  <2> QED
    BY <2>2, <2>3
<1> QED
  BY <1>2, <1>3 DEF Counted, Gains, Loses

LEMMA TouchCounted ==
  ASSUME NEW H \in [Requests -> SUBSET Blocks], NEW r \in Requests, NEW S \in SUBSET Blocks,
         S \intersect H[r] = {}, NEW p \in [Blocks -> PoolEntry], Counted(p, H)
  PROVE  /\ Touch(p, S) \in [Blocks -> PoolEntry]
         /\ Counted(Touch(p, S), Gains(H, r, S))
         /\ Gains(H, r, S) \in [Requests -> SUBSET Blocks]
<1>1. ASSUME NEW b \in Blocks
      PROVE  /\ [p[b] EXCEPT !.ref = @ + 1] \in PoolEntry
             /\ [p[b] EXCEPT !.ref = @ + 1].ref = p[b].ref + 1
  BY DEF PoolEntry
<1>2. Touch(p, S) \in [Blocks -> PoolEntry]
  BY <1>1 DEF Touch
<1>3. ASSUME NEW b \in Blocks
      PROVE  Touch(p, S)[b].ref = Cardinality(HoldersIn(Gains(H, r, S), b))
  <2>1. p[b].ref = Cardinality(HoldersIn(H, b))
    BY DEF Counted
  <2>2. CASE b \in S
    <3>1. Touch(p, S)[b].ref = p[b].ref + 1
      BY <1>1, <2>2 DEF Touch
    <3>2. b \notin H[r]
      BY <2>2
    <3>3. Cardinality(HoldersIn(Gains(H, r, S), b))
            = Cardinality(HoldersIn(H, b)) + 1
      BY <2>2, <3>2, OneMoreHolder
    <3> QED
      BY <2>1, <3>1, <3>3
  <2>3. CASE b \notin S
    <3>1. Touch(p, S)[b] = p[b]
      BY <2>3 DEF Touch
    <3>2. HoldersIn(Gains(H, r, S), b) = HoldersIn(H, b)
      BY <2>3, SameHolders
    <3> QED
      BY <2>1, <3>1, <3>2
  <2> QED
    BY <2>2, <2>3
<1> QED
  BY <1>2, <1>3 DEF Counted, Gains, Loses

LEMMA FreeUnheld ==
  ASSUME NEW H \in [Requests -> SUBSET Blocks], NEW p \in [Blocks -> PoolEntry], Counted(p, H),
         NEW b \in FreeBlocks(p), NEW r \in Requests
  PROVE  b \in Blocks /\ b \notin H[r]
<1>1. b \in Blocks /\ p[b].ref = 0
  BY DEF FreeBlocks
<1>2. IsFiniteSet(HoldersIn(H, b)) /\ Cardinality(HoldersIn(H, b)) = 0
  BY <1>1, HoldersFinite DEF Counted
<1>3. HoldersIn(H, b) = {}
  BY <1>2, FS_EmptySet
<1> QED
  BY <1>1, <1>3 DEF HoldersIn

LEMMA TakeCounted ==
  ASSUME NEW H \in [Requests -> SUBSET Blocks], NEW r \in Requests,
         NEW p \in [Blocks -> PoolEntry], Counted(p, H), NEW S \in SUBSET FreeBlocks(p)
  PROVE  /\ Take(p, S) \in [Blocks -> PoolEntry]
         /\ Counted(Take(p, S), Gains(H, r, S))
         /\ Gains(H, r, S) \in [Requests -> SUBSET Blocks]
         /\ S \subseteq Blocks /\ \A s \in Requests : S \intersect H[s] = {}
<1>1. S \subseteq Blocks /\ \A s \in Requests : S \intersect H[s] = {}
  BY FreeUnheld
<1>2. [ref |-> 1, hash |-> Nothing] \in PoolEntry
  BY DEF PoolEntry, States, Nothing
<1>3. Take(p, S) \in [Blocks -> PoolEntry]
  BY <1>2 DEF Take
<1>4. ASSUME NEW b \in Blocks
      PROVE  Take(p, S)[b].ref = Cardinality(HoldersIn(Gains(H, r, S), b))
  <2>1. p[b].ref = Cardinality(HoldersIn(H, b))
    BY DEF Counted
  <2>2. CASE b \in S
    <3>1. Take(p, S)[b].ref = 1 /\ p[b].ref = 0
      BY <2>2 DEF Take, FreeBlocks
    <3>2. b \notin H[r]
      BY <1>1, <2>2
    <3>3. S \in SUBSET Blocks
      BY <1>1
    <3>4. Cardinality(HoldersIn(Gains(H, r, S), b)) = Cardinality(HoldersIn(H, b)) + 1
      BY <2>2, <3>2, <3>3, OneMoreHolder
    <3> QED
      <4>1. Cardinality(HoldersIn(H, b)) = 0
        BY <2>1, <3>1
      <4>2. Cardinality(HoldersIn(Gains(H, r, S), b)) = 1
        BY <3>4, <4>1
      <4> QED
        BY <3>1, <4>2
  <2>3. CASE b \notin S
    <3>1. Take(p, S)[b] = p[b]
      BY <2>3 DEF Take
    <3>2. HoldersIn(Gains(H, r, S), b) = HoldersIn(H, b)
      BY <1>1, <2>3, SameHolders
    <3> QED
      BY <2>1, <3>1, <3>2
  <2> QED
    BY <2>2, <2>3
<1> QED
  BY <1>1, <1>3, <1>4 DEF Counted, Gains

(* Hashing a block does not touch its count.                               *)
LEMMA HashedCounted ==
  ASSUME NEW p \in [Blocks -> PoolEntry], NEW H, Counted(p, H), NEW r \in Requests,
         NEW blocks, NEW cached \in Int, NEW tokens \in Int
  PROVE  /\ Hashed(p, r, blocks, cached, tokens) \in [Blocks -> PoolEntry]
         /\ Counted(Hashed(p, r, blocks, cached, tokens), H)
<1> DEFINE filled == Filled(blocks, cached, tokens)
           at(b) == CHOOSE i \in filled : blocks[i] = b
           hash(b) == After(r, BlockSize * at(b))
<1>1. BlockSize \in Int /\ tokens \div BlockSize \in Int
  BY ManagerAssumption
<1>2. filled \subseteq Int
  BY <1>1 DEF Filled
<1>3. ASSUME NEW b \in Blocks, \E i \in filled : blocks[i] = b
      PROVE  /\ [p[b] EXCEPT !.hash = hash(b)] \in PoolEntry
             /\ [p[b] EXCEPT !.hash = hash(b)].ref = p[b].ref
  <2>1. at(b) \in Int
    <3> HIDE DEF filled
    <3> QED
      BY <1>2, <1>3
  <2>2. BlockSize * at(b) \in Int
    <3> HIDE DEF at
    <3> QED
      BY <1>1, <2>1
  <2>3. hash(b) \in States
    <3> HIDE DEF at
    <3> QED
      BY <2>2 DEF After, States
  <2> HIDE DEF hash
  <2> QED
    BY <2>3 DEF PoolEntry
<1>4. Hashed(p, r, blocks, cached, tokens)
        = [b \in Blocks |-> IF \E i \in filled : blocks[i] = b
                            THEN [p[b] EXCEPT !.hash = hash(b)] ELSE p[b]]
  BY DEF Hashed
<1> HIDE DEF filled, hash
<1>5. Hashed(p, r, blocks, cached, tokens) \in [Blocks -> PoolEntry]
  BY <1>3, <1>4
<1>6. \A b \in Blocks : Hashed(p, r, blocks, cached, tokens)[b].ref = p[b].ref
  BY <1>3, <1>4
<1> QED
  BY <1>5, <1>6 DEF Counted
-----------------------------------------------------------------------------
(* The lists.                                                              *)
LEMMA HeldInBlocks ==
  ASSUME NEW blocks \in Seq(AllBlocks)
  PROVE  /\ Held(blocks) \subseteq Blocks
         /\ DOMAIN blocks = 1 .. Len(blocks) /\ Len(blocks) \in Nat
<1>1. DOMAIN blocks = 1 .. Len(blocks) /\ Len(blocks) \in Nat
  BY LenProperties
<1>2. \A i \in 1 .. Len(blocks) : blocks[i] \in AllBlocks
  BY ElementOfSeq
<1> QED
  BY <1>1, <1>2 DEF Held, AllBlocks

(* Entries that are set to null give up their blocks, and only those.      *)
LEMMA NullOutHeld ==
  ASSUME NEW blocks \in Seq(AllBlocks), NoneTwice(blocks),
         NEW I, \A i \in I : i \in DOMAIN blocks /\ blocks[i] # Null
  PROVE  /\ {blocks[i] : i \in I} \subseteq Held(blocks)
         /\ Held(NullOut(blocks, I)) = Held(blocks) \ {blocks[i] : i \in I}
         /\ NoneTwice(NullOut(blocks, I))
<1>1. DOMAIN NullOut(blocks, I) = DOMAIN blocks
      /\ \A i \in DOMAIN blocks : NullOut(blocks, I)[i] = IF i \in I THEN Null ELSE blocks[i]
  BY DEF NullOut
<1>2. {blocks[i] : i \in I} \subseteq Held(blocks)
  BY DEF Held
<1>3. ASSUME NEW b \in Held(NullOut(blocks, I))
      PROVE  b \in Held(blocks) /\ b \notin {blocks[i] : i \in I}
  <2>1. PICK j \in DOMAIN blocks : j \notin I /\ b = blocks[j] /\ b # Null
    BY <1>1, <1>3 DEF Held
  <2> QED
    BY <2>1 DEF Held, NoneTwice
<1>4. ASSUME NEW b \in Held(blocks), b \notin {blocks[i] : i \in I}
      PROVE  b \in Held(NullOut(blocks, I))
  <2>1. PICK j \in DOMAIN blocks : b = blocks[j] /\ b # Null
    BY DEF Held
  <2>2. j \notin I
    BY <1>4, <2>1
  <2> QED
    BY <1>1, <2>1, <2>2 DEF Held
<1>5. NoneTwice(NullOut(blocks, I))
  BY <1>1 DEF NoneTwice
<1> QED
  BY <1>2, <1>3, <1>4, <1>5

(* The sweep gives up blocks, never null entries and never entries outside *)
(* of the list.                                                            *)
LEMMA SweptInside ==
  ASSUME NEW blocks \in Seq(AllBlocks), NEW start \in Nat, NEW processed \in Int,
         NEW i \in Swept(blocks, start, processed)
  PROVE  i \in DOMAIN blocks /\ blocks[i] # Null
<1>1. DOMAIN blocks = 1 .. Len(blocks) /\ Len(blocks) \in Nat
  BY HeldInBlocks
<1>2. CASE i \in BaseSweep(blocks, processed)
  <2> DEFINE skipped == Larger(processed - 1, 0) \div BlockSize
             end == Smaller(skipped, Len(blocks))
  <2>1. skipped \in Int
    BY ManagerAssumption DEF Larger
  <2>2. end \in Int /\ end <= Len(blocks)
    <3> HIDE DEF skipped
    <3> QED
      BY <1>1, <2>1 DEF Smaller
  <2>3. i \in 1 .. end /\ \A j \in i .. end : blocks[j] # Null
    BY <1>2 DEF BaseSweep
  <2> HIDE DEF end
  <2> QED
    BY <1>1, <2>2, <2>3
<1>3. CASE i \in StateSweep(blocks, start, processed)
  <2> DEFINE end == Smaller(Cdiv(processed) - 1, Len(blocks))
  <2>1. Cdiv(processed) \in Int
    BY CdivInt
  <2>2. end \in Int /\ end <= Len(blocks)
    BY <1>1, <2>1 DEF Smaller
  <2>3. i \in start + 1 .. end /\ blocks[i] # Null
    BY <1>3 DEF StateSweep
  <2> HIDE DEF end
  <2> QED
    BY <1>1, <2>2, <2>3
<1> QED
  BY <1>2, <1>3 DEF Swept

LEMMA SweepEndNat ==
  ASSUME NEW blocks \in Seq(AllBlocks), NEW start \in Nat, NEW processed \in Int
  PROVE  SweepEnd(blocks, start, processed) \in Nat
<1>1. Len(blocks) \in Nat /\ Cdiv(processed) \in Int
  BY HeldInBlocks, CdivInt
<1> QED
  BY <1>1 DEF SweepEnd, Larger, Smaller

(* What is where when `moved' entries from `first' on, the speculative     *)
(* blocks, have moved behind `pad' null entries.                           *)
Moves(blocks, s, moved, pad, first) ==
  LET L == Len(blocks)
  IN  /\ moved \in Nat /\ pad \in Nat /\ first \in Int
      /\ moved > 0 => first >= 1 /\ first + moved - 1 <= L
      /\ s \in Seq(AllBlocks) /\ Len(s) = L + pad + moved
      /\ \A i \in 1 .. L :
           s[i] = IF i \in first .. first + moved - 1 THEN Null ELSE blocks[i]
      /\ \A i \in L + 1 .. L + pad : s[i] = Null
      /\ \A i \in L + pad + 1 .. L + pad + moved : s[i] = blocks[first + (i - L - pad) - 1]

LEMMA ShiftedMoves ==
  ASSUME NEW blocks \in Seq(AllBlocks), NEW total \in Int, NEW allocated \in BOOLEAN,
         allocated => Len(blocks) >= NumSpec
  PROVE  Moves(blocks, Shifted(blocks, total, allocated), NumMoved(blocks, total, allocated),
               Larger(0, Skipped(total) - Len(blocks)), Len(blocks) - NumSpec + 1)
<1> DEFINE L == Len(blocks)
           moved == NumMoved(blocks, total, allocated)
           pad == Larger(0, Skipped(total) - L)
           first == L - NumSpec + 1
           s == Shifted(blocks, total, allocated)
           last  == first + moved - 1
           kept  == NullOut(blocks, first .. last)
           nulls == [i \in 1 .. pad |-> Null]
           tail  == SubSeq(blocks, first, last)
<1>1. L \in Nat /\ NumSpec \in Nat /\ Skipped(total) \in Int /\ moved \in 0 .. NumSpec
  <2>1. moved \in 0 .. NumSpec
    BY MovedRange
  <2>2. L \in Nat
    BY LenProperties
  <2>3. NumSpec \in Nat
    BY ManagerAssumption
  <2>4. Skipped(total) = Cdiv(total) - 1 /\ Cdiv(total) \in Int
    BY RequiredInt
  <2> QED
    BY <2>1, <2>2, <2>3, <2>4
<1>2. pad \in Nat
  BY <1>1 DEF Larger
<1>3. moved > 0 => first >= 1 /\ last <= L
  <2>1. ASSUME moved > 0 PROVE first >= 1 /\ last <= L
    <3>1. allocated
      BY <2>1 DEF NumMoved
    <3>2. L >= NumSpec
      BY <3>1
    <3> QED
      BY <1>1, <3>2
  <2> QED
    BY <2>1
<1>4. first \in Int /\ last \in Int
  BY <1>1
<1>5. \A i \in first .. last : i \in 1 .. L /\ blocks[i] \in AllBlocks
  <2> SUFFICES ASSUME NEW i \in first .. last PROVE i \in 1 .. L /\ blocks[i] \in AllBlocks
    OBVIOUS
  <2>1. i \in 1 .. L
    BY <1>1, <1>3, <1>4
  <2> QED
    BY <2>1, ElementOfSeq
<1>6. /\ kept \in Seq(AllBlocks) /\ Len(kept) = L
      /\ \A i \in 1 .. L : kept[i] = IF i \in first .. last THEN Null ELSE blocks[i]
  <2>1. kept \in Seq(AllBlocks) /\ Len(kept) = L
    BY NullOutType
  <2>2. DOMAIN blocks = 1 .. L
    BY HeldInBlocks
  <2> QED
    BY <2>1, <2>2 DEF NullOut
<1>7. nulls \in Seq(AllBlocks) /\ Len(nulls) = pad /\ \A i \in 1 .. pad : nulls[i] = Null
  BY <1>2, NullsType
<1>8. /\ tail \in Seq(AllBlocks) /\ Len(tail) = moved
      /\ \A i \in 1 .. moved : tail[i] = blocks[first + i - 1]
  <2>1. /\ tail \in Seq(AllBlocks)
        /\ Len(tail) = (IF first <= last THEN last - first + 1 ELSE 0)
        /\ \A i \in 1 .. last - first + 1 : tail[i] = blocks[first + i - 1]
    <3> HIDE DEF last
    <3> QED
      BY <1>4, <1>5, SubSeqProperties
  <2>2. last - first + 1 = moved
    BY <1>1, <1>4
  <2> HIDE DEF tail
  <2> QED
    BY <1>1, <1>4, <2>1, <2>2
<1>9. s = kept \o nulls \o tail
  BY DEF Shifted
<1> DEFINE front == kept \o nulls
<1>10. /\ front \in Seq(AllBlocks) /\ Len(front) = L + pad
       /\ \A i \in 1 .. L + pad : front[i] = IF i <= L THEN kept[i] ELSE nulls[i - L]
  <2>1. front = kept \o nulls
    OBVIOUS
  <2> HIDE DEF front, kept, nulls, L, pad
  <2>2. front \in Seq(AllBlocks) /\ Len(front) = Len(kept) + Len(nulls)
    BY <1>6, <1>7, <2>1, ConcatProperties
  <2>3. \A i \in 1 .. Len(kept) + Len(nulls) :
          front[i] = IF i <= Len(kept) THEN kept[i] ELSE nulls[i - Len(kept)]
    BY <1>6, <1>7, <2>1, ConcatProperties
  <2> QED
    BY <1>6, <1>7, <2>2, <2>3
<1>11. /\ s \in Seq(AllBlocks) /\ Len(s) = L + pad + moved
       /\ \A i \in 1 .. L + pad + moved :
            s[i] = IF i <= L + pad THEN front[i] ELSE tail[i - (L + pad)]
  <2>1. s = front \o tail
    BY <1>9
  <2> HIDE DEF front, tail, s, L, pad, moved
  <2>2. s \in Seq(AllBlocks) /\ Len(s) = Len(front) + Len(tail)
    BY <1>8, <1>10, <2>1, ConcatProperties
  <2>3. \A i \in 1 .. Len(front) + Len(tail) :
          s[i] = IF i <= Len(front) THEN front[i] ELSE tail[i - Len(front)]
    BY <1>8, <1>10, <2>1, ConcatProperties
  <2> QED
    BY <1>8, <1>10, <2>2, <2>3
<1> HIDE DEF kept, nulls, tail, front, s, L, pad, moved, last, first
<1>0. L \in Nat /\ pad \in Nat /\ moved \in Nat
  BY <1>1, <1>2
<1>12. ASSUME NEW i \in 1 .. L
       PROVE  s[i] = IF i \in first .. last THEN Null ELSE blocks[i]
  <2>1. i \in 1 .. L + pad + moved /\ i \in 1 .. L + pad /\ i <= L + pad /\ i <= L
    BY <1>0
  <2> QED
    BY <1>6, <1>10, <1>11, <2>1
<1>13. ASSUME NEW i \in L + 1 .. L + pad PROVE s[i] = Null
  <2>1. /\ i \in 1 .. L + pad + moved /\ i \in 1 .. L + pad /\ i <= L + pad /\ ~(i <= L)
        /\ i - L \in 1 .. pad
    BY <1>0
  <2> QED
    BY <1>7, <1>10, <1>11, <2>1
<1>14. ASSUME NEW i \in L + pad + 1 .. L + pad + moved
       PROVE  s[i] = blocks[first + (i - L - pad) - 1]
  <2>1. /\ i \in 1 .. L + pad + moved /\ ~(i <= L + pad)
        /\ i - (L + pad) \in 1 .. moved /\ i - (L + pad) = i - L - pad
    BY <1>0
  <2> QED
    BY <1>8, <1>11, <2>1
<1> QED
  BY <1>0, <1>3, <1>4, <1>11, <1>12, <1>13, <1>14 DEF Moves, last, L, moved, pad, first, s

(* Moving blocks so neither loses one nor doubles one.                     *)
LEMMA MovedHeld ==
  ASSUME NEW blocks \in Seq(AllBlocks), NoneTwice(blocks),
         NEW s, NEW moved, NEW pad, NEW first, Moves(blocks, s, moved, pad, first)
  PROVE  Held(s) = Held(blocks) /\ NoneTwice(s)
<1> DEFINE L == Len(blocks)
           from(i) == IF i <= L THEN i ELSE first + (i - L - pad) - 1
<1>1. /\ L \in Nat /\ moved \in Nat /\ pad \in Nat /\ first \in Int
      /\ moved > 0 => first >= 1 /\ first + moved - 1 <= L
      /\ s \in Seq(AllBlocks) /\ Len(s) = L + pad + moved
      /\ \A i \in 1 .. L :
           s[i] = IF i \in first .. first + moved - 1 THEN Null ELSE blocks[i]
      /\ \A i \in L + 1 .. L + pad : s[i] = Null
      /\ \A i \in L + pad + 1 .. L + pad + moved : s[i] = blocks[first + (i - L - pad) - 1]
  BY HeldInBlocks DEF Moves
<1>0. L \in Nat /\ moved \in Nat /\ pad \in Nat /\ first \in Int
      /\ (moved > 0 => first >= 1 /\ first + moved - 1 <= L)
  BY <1>1
<1>2. DOMAIN blocks = 1 .. L /\ DOMAIN s = 1 .. L + pad + moved
  BY <1>1, HeldInBlocks
<1> HIDE DEF L
(* An entry that is not null comes from one of the list, each from its own.*)
<1>3. ASSUME NEW i \in DOMAIN s, s[i] # Null
      PROVE  from(i) \in DOMAIN blocks /\ s[i] = blocks[from(i)]
  <2>1. i \in 1 .. L + pad + moved
    BY <1>2
  <2>2. CASE i \in 1 .. L
    BY <1>1, <1>2, <1>3, <2>2
  <2>3. CASE i \in L + pad + 1 .. L + pad + moved
    <3>1. moved > 0 /\ ~(i <= L) /\ i - L - pad \in 1 .. moved
      BY <1>0, <2>3
    <3>2. first + (i - L - pad) - 1 \in 1 .. L
      BY <1>0, <3>1
    <3>3. s[i] = blocks[first + (i - L - pad) - 1]
      BY <1>1, <2>3
    <3> QED
      BY <1>2, <3>1, <3>2, <3>3
  <2>4. i \notin L + 1 .. L + pad
    BY <1>1, <1>3
  <2> QED
    BY <1>1, <2>1, <2>2, <2>3, <2>4
<1>4. ASSUME NEW i \in DOMAIN s, NEW j \in DOMAIN s, i # j, s[i] # Null, s[j] # Null
      PROVE  from(i) # from(j)
  <2>1. i \in 1 .. L + pad + moved /\ j \in 1 .. L + pad + moved
        /\ i \notin L + 1 .. L + pad /\ j \notin L + 1 .. L + pad
    BY <1>1, <1>2, <1>4
  <2>2. \A k \in 1 .. L : k \in first .. first + moved - 1 => s[k] = Null
    BY <1>1
  <2>3. (i \in 1 .. L \/ i \in L + pad + 1 .. L + pad + moved)
        /\ (j \in 1 .. L \/ j \in L + pad + 1 .. L + pad + moved)
    BY <1>0, <2>1
  <2>4. /\ i \in 1 .. L => i \notin first .. first + moved - 1
        /\ j \in 1 .. L => j \notin first .. first + moved - 1
    BY <1>4, <2>2
  <2>5. CASE i \in 1 .. L /\ j \in 1 .. L
    BY <1>0, <1>4, <2>5
  <2>6. CASE i \in 1 .. L /\ j \in L + pad + 1 .. L + pad + moved
    BY <1>0, <2>4, <2>6
  <2>7. CASE i \in L + pad + 1 .. L + pad + moved /\ j \in 1 .. L
    BY <1>0, <2>4, <2>7
  <2>8. CASE i \in L + pad + 1 .. L + pad + moved /\ j \in L + pad + 1 .. L + pad + moved
    BY <1>0, <1>4, <2>8
  <2> QED
    BY <2>3, <2>5, <2>6, <2>7, <2>8
<1>5. ASSUME NEW b \in Held(s) PROVE b \in Held(blocks)
  BY <1>3, <1>5 DEF Held
<1>6. ASSUME NEW b \in Held(blocks) PROVE b \in Held(s)
  <2>1. PICK k \in 1 .. L : b = blocks[k] /\ b # Null
    BY <1>2 DEF Held
  <2>2. CASE k \in first .. first + moved - 1
    <3>1. k - first + 1 + L + pad \in L + pad + 1 .. L + pad + moved
          /\ first + ((k - first + 1 + L + pad) - L - pad) - 1 = k
      BY <1>0, <2>2
    <3>2. s[k - first + 1 + L + pad] = b
      BY <1>1, <2>1, <3>1
    <3>3. k - first + 1 + L + pad \in DOMAIN s
      BY <1>0, <1>2, <3>1
    <3> QED
      BY <2>1, <3>2, <3>3 DEF Held
  <2>3. CASE k \notin first .. first + moved - 1
    <3>1. s[k] = b /\ k \in DOMAIN s
      BY <1>1, <1>2, <2>1, <2>3
    <3> QED
      BY <2>1, <3>1 DEF Held
  <2> QED
    BY <2>2, <2>3
<1>7. NoneTwice(s)
  <2> SUFFICES ASSUME NEW i \in DOMAIN s, NEW j \in DOMAIN s, i # j, s[i] = s[j], s[i] # Null
               PROVE  FALSE
    BY DEF NoneTwice
  <2>1. from(i) # from(j)
    BY <1>4
  <2>2. /\ from(i) \in DOMAIN blocks /\ s[i] = blocks[from(i)]
        /\ from(j) \in DOMAIN blocks /\ s[j] = blocks[from(j)]
    BY <1>3
  <2> QED
    BY <2>1, <2>2 DEF NoneTwice
<1>8. Held(s) = Held(blocks)
  BY <1>5, <1>6
<1> QED
  BY <1>7, <1>8

LEMMA ShiftedHeld ==
  ASSUME NEW blocks \in Seq(AllBlocks), NEW total \in Int, NEW allocated \in BOOLEAN,
         allocated => Len(blocks) >= NumSpec, NoneTwice(blocks)
  PROVE  /\ Held(Shifted(blocks, total, allocated)) = Held(blocks)
         /\ NoneTwice(Shifted(blocks, total, allocated))
  BY ShiftedMoves, MovedHeld

(* An allocation adds its new blocks to those the request held.            *)
LEMMA AllocatedHeld ==
  ASSUME NEW blocks \in Seq(AllBlocks), NEW total \in Int, NEW allocated \in BOOLEAN,
         allocated => Len(blocks) >= NumSpec, NoneTwice(blocks),
         NEW F \in SUBSET Blocks, F \intersect Held(blocks) = {},
         NEW new \in [1 .. NumNew(blocks, total, allocated) -> F],
         \A i, j \in 1 .. NumNew(blocks, total, allocated) : i # j => new[i] # new[j]
  PROVE  /\ Held(new) \subseteq F
         /\ Held(Allocated(blocks, total, allocated, new)) = Held(blocks) \union Held(new)
         /\ NoneTwice(Allocated(blocks, total, allocated, new))
<1> DEFINE n == NumNew(blocks, total, allocated)
           s == Shifted(blocks, total, allocated)
           a == Allocated(blocks, total, allocated, new)
<1>1. n \in Nat
  BY AllocationBounded
<1>2. DOMAIN new = 1 .. n /\ \A i \in 1 .. n : new[i] \in F /\ new[i] # Null
  BY ServingAssumption
<1>3. Held(new) \subseteq F
  BY <1>2 DEF Held
<1>4. CASE Required(total) <= Len(blocks)
  <2>1. a = blocks /\ n = 0
    BY <1>4 DEF Allocated, NumNew
  <2>2. Held(new) = {}
    <3> HIDE DEF n
    <3> QED
      BY <1>2, <2>1 DEF Held
  <2> QED
    BY <1>3, <2>1, <2>2
<1>5. CASE ~(Required(total) <= Len(blocks))
  <2>1. a = s \o new
    BY <1>5 DEF Allocated
  <2>2. s \in Seq(AllBlocks) /\ Len(s) \in Nat /\ DOMAIN s = 1 .. Len(s)
    BY ShiftedType, HeldInBlocks
  <2>3. Held(s) = Held(blocks) /\ NoneTwice(s)
    BY ShiftedHeld
  <2>4. new \in Seq(AllBlocks) /\ Len(new) = n
    BY <1>1, <1>2 DEF AllBlocks
  <2> HIDE DEF s, n, a
  <2>5. /\ a \in Seq(AllBlocks) /\ Len(a) = Len(s) + n
        /\ \A i \in 1 .. Len(s) + n : a[i] = IF i <= Len(s) THEN s[i] ELSE new[i - Len(s)]
    BY <2>1, <2>2, <2>4, ConcatProperties
  <2>6. DOMAIN a = 1 .. Len(s) + n
    BY <2>5, HeldInBlocks
  <2>7. ASSUME NEW i \in DOMAIN a
        PROVE  \/ i \in 1 .. Len(s) /\ a[i] = s[i]
               \/ ~(i <= Len(s)) /\ i - Len(s) \in 1 .. n /\ a[i] = new[i - Len(s)]
    BY <1>1, <2>2, <2>5, <2>6
  <2>8. ASSUME NEW b \in Held(a) PROVE b \in Held(s) \union Held(new)
    BY <1>2, <2>2, <2>7, <2>8 DEF Held
  <2>9. ASSUME NEW b \in Held(s) PROVE b \in Held(a)
    <3>1. PICK i \in 1 .. Len(s) : b = s[i] /\ b # Null
      BY <2>2, <2>9 DEF Held
    <3>2. i \in 1 .. Len(s) + n /\ i <= Len(s)
      BY <1>1, <2>2
    <3>3. a[i] = b /\ i \in DOMAIN a
      BY <2>5, <2>6, <3>1, <3>2
    <3> QED
      BY <3>1, <3>3 DEF Held
  <2>10. ASSUME NEW b \in Held(new) PROVE b \in Held(a)
    <3>1. PICK i \in 1 .. n : b = new[i] /\ b # Null
      BY <1>2, <2>10 DEF Held
    <3>2. i + Len(s) \in 1 .. Len(s) + n /\ ~(i + Len(s) <= Len(s)) /\ (i + Len(s)) - Len(s) = i
      BY <1>1, <2>2
    <3>3. a[i + Len(s)] = b /\ i + Len(s) \in DOMAIN a
      BY <2>5, <2>6, <3>1, <3>2
    <3> QED
      BY <3>1, <3>3 DEF Held
  <2>11. NoneTwice(a)
    <3> SUFFICES ASSUME NEW i \in DOMAIN a, NEW j \in DOMAIN a, i # j, a[i] = a[j], a[i] # Null
                 PROVE  FALSE
      BY DEF NoneTwice
    <3>1. CASE i \in 1 .. Len(s) /\ a[i] = s[i]
      <4>1. a[i] \in Held(s)
        BY <2>2, <3>1 DEF Held
      <4>2. CASE j \in 1 .. Len(s) /\ a[j] = s[j]
        BY <2>2, <2>3, <3>1, <4>2 DEF NoneTwice
      <4>3. CASE j - Len(s) \in 1 .. n /\ a[j] = new[j - Len(s)]
        BY <1>2, <2>3, <4>1, <4>3
      <4> QED
        BY <2>7, <4>2, <4>3
    <3>2. CASE ~(i <= Len(s)) /\ i - Len(s) \in 1 .. n /\ a[i] = new[i - Len(s)]
      <4>1. a[i] \in F
        BY <1>2, <3>2
      <4>2. CASE j \in 1 .. Len(s) /\ a[j] = s[j]
        <5>1. a[j] \in Held(s)
          BY <2>2, <4>2 DEF Held
        <5> QED
          BY <2>3, <4>1, <5>1
      <4>3. CASE ~(j <= Len(s)) /\ j - Len(s) \in 1 .. n /\ a[j] = new[j - Len(s)]
        <5>1. i \in Int /\ j \in Int
          BY <1>1, <2>2, <2>6
        <5>2. i - Len(s) # j - Len(s)
          BY <2>2, <5>1
        <5> QED
          BY <3>2, <4>3, <5>2 DEF n
      <4> QED
        BY <2>7, <4>2, <4>3
    <3> QED
      BY <2>7, <3>1, <3>2
  <2>12. Held(a) = Held(blocks) \union Held(new)
    BY <2>3, <2>8, <2>9, <2>10
  <2> QED
    BY <1>3, <2>11, <2>12 DEF a
<1> QED
  BY <1>4, <1>5

-----------------------------------------------------------------------------
(* The inductive invariant: counts are those of the lists, no block is     *)
(* twice in a list, and requests that do not run hold nothing, so that     *)
(* admission overwrites no list.                                           *)
References ==
  /\ pool \in [Blocks -> PoolEntry]
  /\ Counted(pool, HeldByAll(mgr))
  /\ \A r \in Requests : NoneTwice(mgr[r].blocks) /\ mgr[r].sweep \in Nat
  /\ \A r \in Requests : req[r].status # "running" => mgr[r].blocks = <<>>

RefInv == ServingInv /\ References

SweptBlocks(r) == {mgr[r].blocks[i] : i \in SweptOf(r)}

LEMMA EmptyList == NoneTwice(<<>>) /\ Held(<<>>) = {} /\ NoBlocks.blocks = <<>> /\ NoBlocks.sweep = 0
  BY DEF NoneTwice, Held, NoBlocks

LEMMA ReferencesImply == RefInv => RefCounts
  BY DEF RefInv, References, Counted, HoldersIn, HeldByAll, RefCounts, Holders, NoneTwice

LEMMA HeldByAllType ==
  ASSUME Shape
  PROVE  /\ HeldByAll(mgr) \in [Requests -> SUBSET Blocks]
         /\ \A r \in Requests : HeldByAll(mgr)[r] = Held(mgr[r].blocks)
<1>1. \A r \in Requests : Held(mgr[r].blocks) \subseteq Blocks
  BY MgrFields, HeldInBlocks DEF Shape
<1> QED
  BY <1>1 DEF HeldByAll

LEMMA InitReferences == Init => References
<1> SUFFICES ASSUME Init PROVE References
  OBVIOUS
<1>1. pool = [b \in Blocks |-> [ref |-> 0, hash |-> Nothing]] /\ mgr = [r \in Requests |-> NoBlocks]
  BY DEF Init
<1>2. pool \in [Blocks -> PoolEntry]
  BY <1>1 DEF PoolEntry, States, Nothing
<1>3. ASSUME NEW b \in Blocks PROVE pool[b].ref = Cardinality(HoldersIn(HeldByAll(mgr), b))
  <2>1. HoldersIn(HeldByAll(mgr), b) = {}
    BY <1>1, EmptyList DEF HoldersIn, HeldByAll
  <2>2. Cardinality({}) = 0
    BY FS_EmptySet
  <2> QED
    BY <1>1, <2>1, <2>2
<1>4. \A r \in Requests : mgr[r].blocks = <<>> /\ mgr[r].sweep = 0
  BY <1>1, EmptyList
<1> QED
  BY <1>2, <1>3, <1>4, EmptyList DEF References, Counted

(* Steps that touch neither the pool nor a list and stop nobody.           *)
LEMMA SameReferences ==
  ASSUME References, pool' = pool, mgr' = mgr,
         \A r \in Requests : req[r].status = "running" => req'[r].status = "running"
  PROVE  References'
  BY DEF References, Counted, HoldersIn, HeldByAll

(* The sweep before an allocation.                                         *)
LEMMA SweepReferences ==
  ASSUME RefInv, NEW r \in Requests
  PROVE  /\ SweptPool(r) \in [Blocks -> PoolEntry]
         /\ Loses(HeldByAll(mgr), r, SweptBlocks(r)) \in [Requests -> SUBSET Blocks]
         /\ Counted(SweptPool(r), Loses(HeldByAll(mgr), r, SweptBlocks(r)))
         /\ Held(SweptMgr(r).blocks) = Loses(HeldByAll(mgr), r, SweptBlocks(r))[r]
         /\ NoneTwice(SweptMgr(r).blocks)
         /\ SweptMgr(r).sweep \in Nat
<1> DEFINE blocks == mgr[r].blocks
           H == HeldByAll(mgr)
<1>1. Shape /\ References
  BY DEF RefInv, ServingInv
<1>2. /\ blocks \in Seq(AllBlocks) /\ mgr[r] \in Mgr /\ mgr[r].sweep \in Nat /\ NoneTwice(blocks)
      /\ Processed(r) \in Int
  <2>1. req[r].computed \in Int /\ req[r].inflight \in Int
    BY <1>1, ReqFields DEF Shape
  <2>2. Processed(r) \in Int
    BY <2>1 DEF Processed, Larger
  <2>3. mgr[r] \in Mgr
    BY <1>1 DEF Shape
  <2>4. mgr[r].sweep \in Nat /\ NoneTwice(blocks)
    BY <1>1 DEF References
  <2> QED
    BY <1>1, <2>2, <2>3, <2>4, MgrFields DEF Shape
<1>3. \A i \in SweptOf(r) : i \in DOMAIN blocks /\ blocks[i] # Null
  BY <1>2, SweptInside DEF SweptOf
<1>4. /\ SweptBlocks(r) \subseteq Held(blocks)
      /\ Held(NullOut(blocks, SweptOf(r))) = Held(blocks) \ SweptBlocks(r)
      /\ NoneTwice(NullOut(blocks, SweptOf(r)))
  <2> HIDE DEF blocks
  <2>1. /\ {blocks[i] : i \in SweptOf(r)} \subseteq Held(blocks)
        /\ Held(NullOut(blocks, SweptOf(r))) = Held(blocks) \ {blocks[i] : i \in SweptOf(r)}
        /\ NoneTwice(NullOut(blocks, SweptOf(r)))
    BY <1>2, <1>3, NullOutHeld
  <2> QED
    BY <2>1 DEF SweptBlocks, blocks
<1>5. /\ SweptMgr(r).blocks = NullOut(blocks, SweptOf(r))
      /\ SweptMgr(r).sweep = SweepEnd(blocks, mgr[r].sweep, Processed(r))
  BY <1>2 DEF SweptMgr, Mgr
<1>6. SweptMgr(r).sweep \in Nat
  BY <1>2, <1>5, SweepEndNat
<1>7. H \in [Requests -> SUBSET Blocks] /\ H[r] = Held(blocks)
  BY <1>1, HeldByAllType
<1>8. pool \in [Blocks -> PoolEntry] /\ Counted(pool, H)
  BY <1>1 DEF References
<1>9. SweptPool(r) = Release(pool, SweptBlocks(r))
  BY DEF SweptPool, SweptBlocks
<1> HIDE DEF H, blocks
<1>10. SweptBlocks(r) \in SUBSET H[r]
  BY <1>4, <1>7
<1>11. /\ SweptPool(r) \in [Blocks -> PoolEntry]
       /\ Counted(SweptPool(r), Loses(H, r, SweptBlocks(r)))
       /\ Loses(H, r, SweptBlocks(r)) \in [Requests -> SUBSET Blocks]
  <2> DEFINE S == SweptBlocks(r)
  <2> HIDE DEF S
  <2>1. S \in SUBSET H[r]
    BY <1>10 DEF S
  <2>2. /\ Release(pool, S) \in [Blocks -> PoolEntry]
        /\ Counted(Release(pool, S), Loses(H, r, S))
        /\ Loses(H, r, S) \in [Requests -> SUBSET Blocks]
    BY <1>7, <1>8, <2>1, ReleaseCounted
  <2> QED
    BY <1>9, <2>2 DEF S
<1>12. Loses(H, r, SweptBlocks(r))[r] = H[r] \ SweptBlocks(r)
  BY <1>7 DEF Loses
<1> QED
  BY <1>4, <1>5, <1>6, <1>7, <1>11, <1>12 DEF H

(* A request whose list is replaced, all others keeping theirs.            *)
LEMMA Relisted ==
  ASSUME RefInv, ServingInv', NEW r \in Requests,
         \A x \in Requests : x # r => mgr'[x] = mgr[x] /\ req'[x].status = req[x].status,
         NEW G \in [Requests -> SUBSET Blocks], Counted(pool', G),
         pool' \in [Blocks -> PoolEntry],
         \A x \in Requests : x # r => G[x] = Held(mgr[x].blocks),
         G[r] = Held(mgr'[r].blocks), NoneTwice(mgr'[r].blocks), mgr'[r].sweep \in Nat,
         req'[r].status = "running" \/ mgr'[r].blocks = <<>>
  PROVE  References'
<1>1. HeldByAll(mgr') = G
  <2>1. \A x \in Requests : G[x] = Held(mgr'[x].blocks)
    OBVIOUS
  <2>2. G = [x \in Requests |-> G[x]]
    OBVIOUS
  <2> QED
    BY <2>1, <2>2 DEF HeldByAll
<1>2. Counted(pool', HeldByAll(mgr'))
  BY <1>1
<1>3. \A x \in Requests : NoneTwice(mgr'[x].blocks) /\ mgr'[x].sweep \in Nat
  BY DEF RefInv, References
<1>4. \A x \in Requests : req'[x].status # "running" => mgr'[x].blocks = <<>>
  BY DEF RefInv, References
<1> QED
  BY <1>2, <1>3, <1>4 DEF References, Counted, HoldersIn, HeldByAll

LEMMA GrowReferences ==
  ASSUME RefInv, ServingInv', Grow
  PROVE  References'
<1> DEFINE r == Current
           m == SweptMgr(r)
           n == NewTokens(r)
           total == req[r].computed + n
           tokens == Smaller(total, req[r].tokens)
           H == Loses(HeldByAll(mgr), r, SweptBlocks(r))
           p == SweptPool(r)
           number == NumNew(m.blocks, total, TRUE)
<1>1. InLoop /\ Shape /\ ServingInv
  BY DEF Grow, RefInv, ServingInv
<1>2. /\ r \in Requests /\ req[r].status = "running" /\ total \in Int
      /\ m.blocks \in Seq(AllBlocks) /\ Len(m.blocks) >= NumSpec
  BY <1>1, CurrentRunning, GrowthType
<1>3. m.cached \in Int /\ tokens \in Int /\ m \in Mgr
  <2>1. req[r].tokens \in Int
    BY <1>1, <1>2, ReqFields DEF Shape
  <2>2. m.cached \in Int /\ m \in Mgr
    BY <1>1, <1>2, SweptType, MgrFields DEF Shape
  <2> HIDE DEF total
  <2> QED
    BY <1>2, <2>1, <2>2 DEF Smaller
<1>4. PICK new \in Picks(p, number) :
        /\ pool' = Hashed(Take(p, Held(new)), r, Allocated(m.blocks, total, TRUE, new),
                          m.cached, tokens)
        /\ mgr' = [mgr EXCEPT ![r] =
                     [m EXCEPT !.blocks = Allocated(m.blocks, total, TRUE, new),
                               !.cached = Larger(@, tokens \div BlockSize)]]
        /\ req' = [req EXCEPT ![r].spec = 0]
  BY DEF Grow
<1> DEFINE blocks == Allocated(m.blocks, total, TRUE, new)
<1>5. /\ p \in [Blocks -> PoolEntry] /\ H \in [Requests -> SUBSET Blocks] /\ Counted(p, H)
      /\ H[r] = Held(m.blocks) /\ NoneTwice(m.blocks) /\ m.sweep \in Nat
  BY <1>2, SweepReferences
<1>6. /\ new \in [1 .. number -> FreeBlocks(p)]
      /\ \A i, j \in 1 .. number : i # j => new[i] # new[j]
  BY DEF Picks
<1>7. mgr \in [Requests -> Mgr] /\ req \in [Requests -> Req]
  BY <1>1 DEF Shape
<1>8. /\ \A x \in Requests : x # r => mgr'[x] = mgr[x]
      /\ mgr'[r].blocks = blocks /\ mgr'[r].sweep = m.sweep
      /\ \A x \in Requests : req'[x].status = req[x].status
  <2> HIDE DEF m, blocks, tokens, r
  <2>1. mgr'[r] = [m EXCEPT !.blocks = blocks, !.cached = Larger(@, tokens \div BlockSize)]
        /\ \A x \in Requests : x # r => mgr'[x] = mgr[x]
    BY <1>2, <1>4, <1>7 DEF blocks
  <2>2. mgr'[r].blocks = blocks /\ mgr'[r].sweep = m.sweep
    BY <1>3, <2>1 DEF Mgr
  <2>3. \A x \in Requests : req'[x].status = req[x].status
    BY <1>4, <1>7 DEF Req
  <2> QED
    BY <2>1, <2>2, <2>3
<1>9. \A x \in Requests : x # r => H[x] = Held(mgr[x].blocks)
  BY <1>1, <1>2, HeldByAllType DEF Loses
<1> HIDE DEF p, H, m, total, tokens, r, number
<1>10. FreeBlocks(p) \subseteq Blocks /\ FreeBlocks(p) \intersect Held(m.blocks) = {}
  BY <1>2, <1>5, FreeUnheld
<1>11. /\ Held(new) \subseteq FreeBlocks(p)
       /\ Held(blocks) = Held(m.blocks) \union Held(new)
       /\ NoneTwice(blocks)
  BY <1>2, <1>5, <1>6, <1>10, AllocatedHeld DEF number, blocks
<1> HIDE DEF blocks
<1> DEFINE taken == Take(p, Held(new))
           G == Gains(H, r, Held(new))
<1>12. taken \in [Blocks -> PoolEntry] /\ Counted(taken, G) /\ G \in [Requests -> SUBSET Blocks]
  BY <1>2, <1>5, <1>11, TakeCounted
<1>13. G[r] = Held(blocks) /\ \A x \in Requests : x # r => G[x] = H[x]
  BY <1>2, <1>5, <1>11 DEF Gains
<1>14. pool' = Hashed(taken, r, blocks, m.cached, tokens)
  BY <1>4 DEF blocks
<1> HIDE DEF taken, G
<1>15. pool' \in [Blocks -> PoolEntry] /\ Counted(pool', G)
  BY <1>2, <1>3, <1>12, <1>14, HashedCounted
<1>16. /\ \A x \in Requests : x # r => G[x] = Held(mgr[x].blocks)
       /\ G[r] = Held(mgr'[r].blocks) /\ NoneTwice(mgr'[r].blocks) /\ mgr'[r].sweep \in Nat
       /\ req'[r].status = "running"
  BY <1>2, <1>5, <1>8, <1>9, <1>11, <1>13
<1>17. \A x \in Requests : x # r => mgr'[x] = mgr[x] /\ req'[x].status = req[x].status
  BY <1>8
<1> QED
  BY <1>2, <1>12, <1>15, <1>16, <1>17, Relisted

LEMMA PreemptReferences ==
  ASSUME RefInv, ServingInv', PreemptLast
  PROVE  References'
<1> DEFINE r == Current
           victim == running[Len(running)]
           m == SweptMgr(r)
           H == Loses(HeldByAll(mgr), r, SweptBlocks(r))
           p == SweptPool(r)
           swept == [mgr EXCEPT ![r] = m]
           G == Loses(H, victim, H[victim])
<1>1. InLoop /\ Shape /\ ServingInv
  BY DEF PreemptLast, RefInv, ServingInv
<1>2. r \in Requests /\ req[r].status = "running"
  BY <1>1, CurrentRunning
<1>3. victim \in Requests
  <2>1. running \in Seq(Requests) /\ Len(running) \in Nat /\ Len(running) >= 1
    BY <1>1, LenProperties DEF Shape, InLoop
  <2> QED
    BY <2>1, ElementOfSeq
<1>4. /\ pool' = Release(p, Held(swept[victim].blocks))
      /\ mgr' = [swept EXCEPT ![victim] = NoBlocks]
      /\ req' = [req EXCEPT ![victim] = PreemptedReq(@)]
  BY DEF PreemptLast
<1>5. /\ p \in [Blocks -> PoolEntry] /\ H \in [Requests -> SUBSET Blocks] /\ Counted(p, H)
      /\ H[r] = Held(m.blocks) /\ NoneTwice(m.blocks) /\ m.sweep \in Nat
  BY <1>2, SweepReferences
<1>6. mgr \in [Requests -> Mgr] /\ req \in [Requests -> Req]
  BY <1>1 DEF Shape
<1>7. \A x \in Requests : x # r => H[x] = Held(mgr[x].blocks)
  BY <1>1, <1>2, HeldByAllType DEF Loses
<1>8. \A x \in Requests : NoneTwice(mgr[x].blocks) /\ mgr[x].sweep \in Nat
                          /\ (req[x].status # "running" => mgr[x].blocks = <<>>)
  BY DEF RefInv, References
<1> HIDE DEF victim, r, m, p, H
<1>9. /\ swept[r] = m /\ \A x \in Requests : x # r => swept[x] = mgr[x]
      /\ \A x \in Requests : H[x] = Held(swept[x].blocks)
  BY <1>2, <1>5, <1>6, <1>7
<1>10. mgr'[victim] = NoBlocks /\ \A x \in Requests : x # victim => mgr'[x] = swept[x]
  BY <1>3, <1>4, <1>6
<1> HIDE DEF swept
<1>11. /\ pool' \in [Blocks -> PoolEntry] /\ Counted(pool', G)
       /\ G \in [Requests -> SUBSET Blocks]
  <2>1. pool' = Release(p, H[victim])
    BY <1>3, <1>4, <1>9
  <2> QED
    BY <1>3, <1>5, <2>1, ReleaseCounted
<1>12. \A x \in Requests : G[x] = Held(mgr'[x].blocks)
  <2>1. G[victim] = {}
    BY <1>3, <1>5 DEF Loses
  <2>2. Held(mgr'[victim].blocks) = {}
    BY <1>10, EmptyList
  <2>3. \A x \in Requests : x # victim => G[x] = H[x]
    BY <1>5 DEF Loses
  <2> HIDE DEF G
  <2> QED
    BY <1>9, <1>10, <2>1, <2>2, <2>3
<1> HIDE DEF G
<1>13. G = HeldByAll(mgr')
  <2>1. G = [x \in Requests |-> G[x]]
    BY <1>11
  <2> QED
    BY <1>12, <2>1 DEF HeldByAll
<1>14. \A x \in Requests : NoneTwice(mgr'[x].blocks) /\ mgr'[x].sweep \in Nat
  BY <1>5, <1>8, <1>9, <1>10, EmptyList
<1>15. \A x \in Requests : req'[x].status # "running" => mgr'[x].blocks = <<>>
  <2> SUFFICES ASSUME NEW x \in Requests, req'[x].status # "running"
               PROVE  mgr'[x].blocks = <<>>
    OBVIOUS
  <2>1. CASE x = victim
    BY <1>10, <2>1, EmptyList
  <2>2. CASE x # victim
    <3>1. req'[x] = req[x]
      BY <1>4, <1>6, <2>2
    <3>2. x # r
      BY <1>2, <3>1
    <3> QED
      BY <1>8, <1>9, <1>10, <2>2, <3>1, <3>2
  <2> QED
    BY <2>1, <2>2
<1> QED
  BY <1>11, <1>13, <1>14, <1>15 DEF References, Counted, HoldersIn, HeldByAll

(* A hit's list holds one block, its last.                                 *)
LEMMA HitsHeld ==
  ASSUME Shape, NEW r \in Requests, NEW found \in Hits(r)
  PROVE  NoneTwice(found)
<1>1. CASE found = <<>>
  BY <1>1, EmptyList
<1>2. CASE found # <<>>
  <2>1. PICK k \in 1 .. (req[r].tokens - 1) \div BlockSize,
             b \in Blocks : found = [i \in 1 .. k |-> IF i = k THEN b ELSE Null]
    BY <1>2 DEF Hits
  <2> QED
    BY <2>1 DEF NoneTwice
<1> QED
  BY <1>1, <1>2

LEMMA AdmitReferences ==
  ASSUME RefInv, ServingInv', NEW r \in Requests, Admit(r)
  PROVE  References'
<1>1. Shape /\ References
  BY DEF RefInv, ServingInv
<1>2. PICK found \in Hits(r) :
        /\ Admissible(r, found)
        /\ \E new \in Picks(Touch(pool, Held(found)),
                            NumNew(found, AdmitTotal(r, found), FALSE)) :
             LET tokens == Smaller(AdmitTotal(r, found), req[r].tokens)
                 blocks == AdmittedBlocks(r, found, new)
             IN  /\ pool' = Hashed(Take(Touch(pool, Held(found)), Held(new)), r, blocks,
                                   Len(found), tokens)
                 /\ mgr' = [mgr EXCEPT ![r] =
                              [blocks |-> blocks, sweep |-> 0,
                               cached |-> Larger(Len(found), tokens \div BlockSize)]]
        /\ req' = [req EXCEPT ![r].status = "running", ![r].computed = HitTokens(found)]
  BY DEF Admit
<1> DEFINE total == AdmitTotal(r, found)
           tokens == Smaller(total, req[r].tokens)
           held == Touch(pool, Held(found))
           number == NumNew(found, total, FALSE)
           H == HeldByAll(mgr)
           H1 == Gains(H, r, Held(found))
<1>3. PICK new \in Picks(held, number) :
        /\ pool' = Hashed(Take(held, Held(new)), r, AdmittedBlocks(r, found, new),
                          Len(found), tokens)
        /\ mgr' = [mgr EXCEPT ![r] =
                     [blocks |-> AdmittedBlocks(r, found, new), sweep |-> 0,
                      cached |-> Larger(Len(found), tokens \div BlockSize)]]
  BY <1>2
<1> DEFINE blocks == Allocated(found, total, FALSE, new)
<1>4. mgr \in [Requests -> Mgr] /\ req \in [Requests -> Req]
  BY <1>1 DEF Shape
<1>5. /\ found \in Seq(AllBlocks) /\ Len(found) \in Nat /\ NoneTwice(found)
      /\ Held(found) \subseteq Blocks /\ total \in Int
  BY <1>1, HitsType, HitsHeld, HeldInBlocks, AdmitTokensInt
<1>6. tokens \in Int
  <2>1. req[r].tokens \in Int
    BY <1>4, ReqFields
  <2> HIDE DEF total
  <2> QED
    BY <1>5, <2>1 DEF Smaller
<1>7. H[r] = {} /\ H \in [Requests -> SUBSET Blocks]
      /\ \A x \in Requests : H[x] = Held(mgr[x].blocks)
  <2>1. req[r].status # "running"
    BY <1>2 DEF Admissible, MayResume
  <2>2. mgr[r].blocks = <<>>
    BY <1>1, <2>1 DEF References
  <2>3. Held(mgr[r].blocks) = {}
    BY <2>2, EmptyList
  <2> QED
    BY <1>1, <2>3, HeldByAllType
<1>8. pool \in [Blocks -> PoolEntry] /\ Counted(pool, H)
  BY <1>1 DEF References
<1>9. AdmittedBlocks(r, found, new) = blocks
  BY DEF AdmittedBlocks
<1>10. /\ mgr'[r].blocks = blocks /\ mgr'[r].sweep = 0
       /\ \A x \in Requests : x # r => mgr'[x] = mgr[x]
  <2> HIDE DEF blocks, tokens
  <2> QED
    BY <1>3, <1>4, <1>9
<1>11. /\ req'[r].status = "running"
       /\ \A x \in Requests : x # r => req'[x].status = req[x].status
  BY <1>2, <1>4 DEF Req
<1> HIDE DEF H
<1>12. held \in [Blocks -> PoolEntry] /\ Counted(held, H1) /\ H1 \in [Requests -> SUBSET Blocks]
  <2> DEFINE S == Held(found)
  <2>1. S \in SUBSET Blocks
    BY <1>5
  <2> HIDE DEF S
  <2>2. S \intersect H[r] = {}
    BY <1>7
  <2>3. /\ Touch(pool, S) \in [Blocks -> PoolEntry]
        /\ Counted(Touch(pool, S), Gains(H, r, S))
        /\ Gains(H, r, S) \in [Requests -> SUBSET Blocks]
    BY <1>7, <1>8, <2>1, <2>2, TouchCounted
  <2> QED
    BY <2>3 DEF S
<1>13. H1[r] = Held(found) /\ \A x \in Requests : x # r => H1[x] = H[x]
  BY <1>7 DEF Gains
<1>14. /\ new \in [1 .. number -> FreeBlocks(held)]
       /\ \A i, j \in 1 .. number : i # j => new[i] # new[j]
  BY DEF Picks
<1> HIDE DEF held, H1, tokens, total, number
<1>15. FreeBlocks(held) \subseteq Blocks /\ FreeBlocks(held) \intersect Held(found) = {}
  BY <1>12, <1>13, FreeUnheld
<1>16. /\ Held(new) \subseteq FreeBlocks(held)
       /\ Held(blocks) = Held(found) \union Held(new)
       /\ NoneTwice(blocks)
  BY <1>5, <1>14, <1>15, AllocatedHeld DEF number, blocks
<1> HIDE DEF blocks
<1> DEFINE taken == Take(held, Held(new))
           G == Gains(H1, r, Held(new))
<1>17. taken \in [Blocks -> PoolEntry] /\ Counted(taken, G) /\ G \in [Requests -> SUBSET Blocks]
  BY <1>12, <1>16, TakeCounted
<1>18. G[r] = Held(blocks) /\ \A x \in Requests : x # r => G[x] = H1[x]
  BY <1>12, <1>13, <1>16 DEF Gains
<1>19. pool' = Hashed(taken, r, blocks, Len(found), tokens)
  BY <1>3, <1>9 DEF held
<1> HIDE DEF taken, G
<1>20. pool' \in [Blocks -> PoolEntry] /\ Counted(pool', G)
  <2> DEFINE cached == Len(found)
  <2>1. cached \in Int
    BY <1>5
  <2> HIDE DEF cached
  <2>2. pool' = Hashed(taken, r, blocks, cached, tokens)
    BY <1>19 DEF cached
  <2> QED
    BY <1>6, <1>17, <2>1, <2>2, HashedCounted
<1>21. \A x \in Requests : x # r => G[x] = Held(mgr[x].blocks)
  BY <1>7, <1>13, <1>18
<1>22. \A x \in Requests : x # r => mgr'[x] = mgr[x] /\ req'[x].status = req[x].status
  BY <1>10, <1>11
<1>23. /\ G[r] = Held(mgr'[r].blocks) /\ NoneTwice(mgr'[r].blocks) /\ mgr'[r].sweep \in Nat
       /\ req'[r].status = "running"
  BY <1>10, <1>11, <1>16, <1>18
<1> QED
  BY <1>17, <1>20, <1>21, <1>22, <1>23, Relisted

(* A request that stops or is aborted gives all its blocks back.           *)
LEMMA RetiredReferences ==
  ASSUME RefInv, ServingInv', NEW r \in Requests,
         NEW p \in [Blocks -> PoolEntry], Counted(p, HeldByAll(mgr)),
         pool' = Release(p, Held(mgr[r].blocks)),
         mgr' = [mgr EXCEPT ![r] = NoBlocks],
         \A x \in Requests : x # r => req'[x].status = req[x].status
  PROVE  References'
<1> DEFINE H == HeldByAll(mgr)
           G == Loses(H, r, H[r])
<1>1. Shape /\ References
  BY DEF RefInv, ServingInv
<1>2. H \in [Requests -> SUBSET Blocks] /\ \A x \in Requests : H[x] = Held(mgr[x].blocks)
  BY <1>1, HeldByAllType
<1>3. mgr'[r] = NoBlocks /\ \A x \in Requests : x # r => mgr'[x] = mgr[x]
  BY <1>1 DEF Shape
<1>4. pool' = Release(p, H[r])
  BY <1>2
<1>5. Counted(p, H)
  OBVIOUS
<1> HIDE DEF H
<1>6. pool' \in [Blocks -> PoolEntry] /\ Counted(pool', G) /\ G \in [Requests -> SUBSET Blocks]
  <2> DEFINE S == H[r]
  <2>1. S \in SUBSET H[r]
    OBVIOUS
  <2> HIDE DEF S
  <2>2. /\ Release(p, S) \in [Blocks -> PoolEntry]
        /\ Counted(Release(p, S), Loses(H, r, S))
        /\ Loses(H, r, S) \in [Requests -> SUBSET Blocks]
    BY <1>2, <1>5, <2>1, ReleaseCounted
  <2> QED
    BY <1>4, <2>2 DEF S
<1>7. G[r] = {} /\ \A x \in Requests : x # r => G[x] = H[x]
  BY <1>2 DEF Loses
<1> HIDE DEF G
<1>8. /\ Held(mgr'[r].blocks) = {} /\ NoneTwice(mgr'[r].blocks) /\ mgr'[r].sweep \in Nat
      /\ mgr'[r].blocks = <<>>
  BY <1>3, EmptyList
<1>9. \A x \in Requests : x # r => mgr'[x] = mgr[x] /\ req'[x].status = req[x].status
  BY <1>3
<1>10. G[r] = Held(mgr'[r].blocks) /\ \A x \in Requests : x # r => G[x] = Held(mgr[x].blocks)
  BY <1>2, <1>7, <1>8
<1> QED
  BY <1>6, <1>8, <1>9, <1>10, Relisted

LEMMA AbortReferences ==
  ASSUME RefInv, ServingInv', NEW r \in Requests, Abort(r)
  PROVE  References'
<1>1. /\ pool \in [Blocks -> PoolEntry] /\ Counted(pool, HeldByAll(mgr))
      /\ req \in [Requests -> Req]
  BY DEF RefInv, ServingInv, References, Shape
<1>2. /\ pool' = Release(pool, Held(mgr[r].blocks))
      /\ mgr' = [mgr EXCEPT ![r] = NoBlocks]
      /\ \A x \in Requests : x # r => req'[x].status = req[x].status
  BY <1>1 DEF Abort
<1> QED
  BY <1>1, <1>2, RetiredReferences

(* Sampled tokens: the blocks they fill are hashed; a request they stop    *)
(* gives its blocks back.                                                  *)
LEMMA UpdateTokensReferences ==
  ASSUME RefInv, ServingInv', NEW r \in Requests, UpdateTokens(r)
  PROVE  References'
<1> DEFINE out == Head(flights)[r]
           d == DrainedReq(req[r], out)
           room == Prompt[r] + MaxNew - req[r].tokens
           after(k) == [d EXCEPT !.tokens = @ + k,
                                 !.placeholders = IF req[r].stale > 0 THEN @ ELSE @ - k]
           tokens(k) == IF after(k).status = "running"
                          THEN after(k).computed - after(k).placeholders ELSE 0
           p(k) == Hashed(pool, r, mgr[r].blocks, mgr[r].cached, tokens(k))
<1>1. NextOutput(r)
  BY DEF UpdateTokens
<1>2. Shape /\ References /\ out \in Output
  BY <1>1, OutputType DEF RefInv, ServingInv
<1>3. PICK k \in 1 .. Smaller(out.sampled, room) :
        \/ /\ req' = [req EXCEPT ![r] = [NewReq EXCEPT !.status = "finished"]]
           /\ mgr' = [mgr EXCEPT ![r] = NoBlocks]
           /\ pool' = Release(p(k), Held(mgr[r].blocks))
        \/ /\ req' = [req EXCEPT ![r] = after(k)]
           /\ mgr' = [mgr EXCEPT ![r].cached = Larger(@, tokens(k) \div BlockSize)]
           /\ pool' = p(k)
  BY DEF UpdateTokens
<1>4. /\ req \in [Requests -> Req] /\ mgr \in [Requests -> Mgr] /\ mgr[r].cached \in Int
      /\ k \in Int
  BY <1>2, MgrFields DEF Shape
<1>5. d \in Req /\ d.status = req[r].status
  BY <1>2, <1>4, DrainedType
<1> HIDE DEF d
<1>6. d.tokens + k \in Int
      /\ (IF req[r].stale > 0 THEN d.placeholders ELSE d.placeholders - k) \in Int
  <2>1. d.tokens \in Int /\ d.placeholders \in Int
    BY <1>5 DEF Req
  <2> QED
    BY <1>4, <2>1
<1>7. after(k) \in Req /\ after(k).status = req[r].status
  BY <1>5, <1>6 DEF Req
<1> HIDE DEF after
<1>8. tokens(k) \in Int
  BY <1>7 DEF Req
<1> HIDE DEF tokens
<1>9. p(k) \in [Blocks -> PoolEntry] /\ Counted(p(k), HeldByAll(mgr))
  <2> DEFINE t == tokens(k)
             H == HeldByAll(mgr)
             c == mgr[r].cached
             bs == mgr[r].blocks
  <2>1. pool \in [Blocks -> PoolEntry] /\ Counted(pool, H) /\ t \in Int /\ c \in Int
    BY <1>2, <1>4, <1>8 DEF References
  <2> HIDE DEF t, H, c, bs
  <2>2. /\ Hashed(pool, r, bs, c, t) \in [Blocks -> PoolEntry]
        /\ Counted(Hashed(pool, r, bs, c, t), H)
    BY <2>1, HashedCounted
  <2> QED
    BY <2>2 DEF t, H, c, bs
<1> HIDE DEF p
<1>10. CASE /\ req' = [req EXCEPT ![r] = [NewReq EXCEPT !.status = "finished"]]
            /\ mgr' = [mgr EXCEPT ![r] = NoBlocks]
            /\ pool' = Release(p(k), Held(mgr[r].blocks))
  <2>1. \A x \in Requests : x # r => req'[x].status = req[x].status
    BY <1>4, <1>10
  <2> DEFINE q == p(k)
  <2>2. q \in [Blocks -> PoolEntry] /\ Counted(q, HeldByAll(mgr))
        /\ pool' = Release(q, Held(mgr[r].blocks))
    BY <1>9, <1>10
  <2> HIDE DEF q
  <2> QED
    BY <1>10, <2>1, <2>2, RetiredReferences
<1>11. CASE /\ req' = [req EXCEPT ![r] = after(k)]
            /\ mgr' = [mgr EXCEPT ![r].cached = Larger(@, tokens(k) \div BlockSize)]
            /\ pool' = p(k)
  <2>1. \A x \in Requests : req'[x].status = req[x].status
    BY <1>4, <1>7, <1>11
  <2>2. \A x \in Requests : mgr'[x].blocks = mgr[x].blocks /\ mgr'[x].sweep = mgr[x].sweep
    <3> DEFINE cached == Larger(mgr[r].cached, tokens(k) \div BlockSize)
    <3>1. mgr' = [mgr EXCEPT ![r] = [mgr[r] EXCEPT !.cached = cached]]
      BY <1>4, <1>11
    <3> HIDE DEF cached
    <3>2. /\ [mgr[r] EXCEPT !.cached = cached].blocks = mgr[r].blocks
          /\ [mgr[r] EXCEPT !.cached = cached].sweep = mgr[r].sweep
      BY <1>4 DEF Mgr
    <3> QED
      BY <1>4, <3>1, <3>2
  <2>3. HeldByAll(mgr') = HeldByAll(mgr)
    BY <2>2 DEF HeldByAll
  <2>4. pool' \in [Blocks -> PoolEntry] /\ Counted(pool', HeldByAll(mgr'))
    BY <1>9, <1>11, <2>3
  <2>5. \A x \in Requests : NoneTwice(mgr'[x].blocks) /\ mgr'[x].sweep \in Nat
    BY <1>2, <2>2 DEF References
  <2>6. \A x \in Requests : req'[x].status # "running" => mgr'[x].blocks = <<>>
    BY <1>2, <2>1, <2>2 DEF References
  <2> QED
    BY <2>4, <2>5, <2>6 DEF References, Counted, HoldersIn, HeldByAll
<1> QED
  BY <1>3, <1>10, <1>11

(* Steps of the scheduler's and the runner's that only move on.            *)
LEMMA QuietReferences ==
  ASSUME RefInv,
         \/ StartPass \/ SkipRunning \/ EndRunning \/ EndAdmission \/ DispatchNothing
         \/ AllDone \/ UNCHANGED vars
         \/ \E r \in Requests : UpdateGone(r)
  PROVE  References'
<1>1. pool' = pool /\ mgr' = mgr /\ req' = req
  BY DEF StartPass, SkipRunning, EndRunning, EndAdmission, DispatchNothing, AllDone,
     UpdateGone, vars
<1> QED
  BY <1>1, SameReferences DEF RefInv

LEMMA DispatchReferences ==
  ASSUME RefInv, Dispatch
  PROVE  References'
<1>1. Shape /\ References
  BY DEF RefInv, ServingInv
<1>2. /\ pool' = pool /\ mgr' = mgr
      /\ req' = [r \in Requests |-> IF r \in DOMAIN step THEN AdvancedReq(r) ELSE req[r]]
  BY DEF Dispatch
<1>3. \A r \in Requests : req'[r].status = req[r].status
  BY <1>1, <1>2, AdvancedType
<1> QED
  BY <1>1, <1>2, <1>3, SameReferences

LEMMA CounterReferences ==
  ASSUME RefInv, NEW r \in Requests, Arrive(r) \/ UpdateChunk(r)
  PROVE  References'
<1>1. Shape /\ References /\ req \in [Requests -> Req]
  BY DEF RefInv, ServingInv, Shape
<1>2. pool' = pool /\ mgr' = mgr
  BY DEF Arrive, UpdateChunk
<1>3. \A x \in Requests : req[x].status = "running" => req'[x].status = "running"
  <2>1. CASE Arrive(r)
    BY <1>1, <2>1 DEF Arrive, Req
  <2>2. CASE UpdateChunk(r)
    <3>1. NextOutput(r) /\ req' = [req EXCEPT ![r] = DrainedReq(@, Head(flights)[r])]
      BY <2>2 DEF UpdateChunk
    <3>2. Head(flights)[r] \in Output
      BY <1>1, <3>1, OutputType
    <3>3. DrainedReq(req[r], Head(flights)[r]).status = req[r].status
      BY <1>1, <3>2, DrainedType
    <3> QED
      BY <1>1, <3>1, <3>3
  <2> QED
    BY <2>1, <2>2
<1> QED
  BY <1>1, <1>2, <1>3, SameReferences

LEMMA StepReferences ==
  ASSUME RefInv, ServingInv', [Next]_vars
  PROVE  References'
<1>1. CASE Pass
  BY <1>1, GrowReferences, PreemptReferences, AdmitReferences, QuietReferences,
     DispatchReferences DEF Pass
<1>2. ASSUME NEW r \in Requests, Arrive(r) \/ Abort(r) \/ Update(r)
      PROVE  References'
  BY <1>2, CounterReferences, AbortReferences, QuietReferences, UpdateTokensReferences
     DEF Update
<1> QED
  BY <1>1, <1>2, QuietReferences DEF Next

(* In every reachable state a block's reference count is the number of     *)
(* requests whose list it is in, and no list has it twice: the sweep, the  *)
(* shift of speculative blocks, prefix hits, preemption, aborts and the    *)
(* end of a request neither leak a block nor free one twice.               *)
THEOREM ReferencesExact == Spec => []RefCounts
<1>1. Init => RefInv
  BY InitServing, InitReferences DEF RefInv
<1>2. RefInv /\ [Next]_vars => RefInv'
  <2>1. ServingInv /\ [Next]_vars => ServingInv'
    BY StepServing
  <2>2. RefInv /\ ServingInv' /\ [Next]_vars => References'
    BY StepReferences
  <2> QED
    BY <2>1, <2>2 DEF RefInv
<1>3. RefInv => RefCounts
  BY ReferencesImply
<1> QED
  BY <1>1, <1>2, <1>3, PTL DEF Spec

-----------------------------------------------------------------------------
(* Counters.  What the scheduler has counted ahead for a request is owed   *)
(* by the steps in flight: the tokens they kept, the drafts they rejected, *)
(* the tokens they sampled.  The amounts owed are the last entry of an     *)
(* account that adds up the steps in the order they were dispatched.       *)
Amount == [kept : Nat, rejected : Nat, sampled : Nat]
Nil == [kept |-> 0, rejected |-> 0, sampled |-> 0]
Plus(a, b) == [kept |-> a.kept + b.kept, rejected |-> a.rejected + b.rejected,
               sampled |-> a.sampled + b.sampled]
Minus(a, b) == [kept |-> a.kept - b.kept, rejected |-> a.rejected - b.rejected,
                sampled |-> a.sampled - b.sampled]

Share(f, r) ==
  IF r \in DOMAIN f
    THEN [kept |-> f[r].n - f[r].rejected, rejected |-> f[r].rejected,
          sampled |-> f[r].sampled]
    ELSE Nil

(* An output keeps a token at least, and rejects drafts only when it       *)
(* samples.                                                                *)
Proper(f) ==
  \A r \in DOMAIN f :
    /\ f[r].n \in Nat /\ f[r].rejected \in Nat /\ f[r].sampled \in Nat
    /\ f[r].rejected < f[r].n
    /\ f[r].sampled = 0 => f[r].rejected = 0

AtMost(a, b) ==
  /\ a.kept <= b.kept /\ a.rejected <= b.rejected /\ a.sampled <= b.sampled
  /\ a.kept = b.kept => a = b
Account(fs, r, A) ==
  /\ A \in [0 .. Len(fs) -> Amount] /\ A[0] = Nil
  /\ \A i \in 1 .. Len(fs) :
       Share(fs[i], r) \in Amount /\ A[i] = Plus(A[i - 1], Share(fs[i], r))
  /\ \A i, j \in 0 .. Len(fs) : i <= j => AtMost(A[i], A[j])
Owed(fs, r, t) == \E A : Account(fs, r, A) /\ t = A[Len(fs)]

LEMMA AmountsEqual ==
  ASSUME NEW a \in Amount, NEW b \in Amount,
         a.kept = b.kept, a.rejected = b.rejected, a.sampled = b.sampled
  PROVE  a = b
  BY DEF Amount

LEMMA PlusAmount ==
  ASSUME NEW a \in Amount, NEW b \in Amount
  PROVE  /\ Plus(a, b) \in Amount
         /\ Plus(a, b).kept = a.kept + b.kept /\ Plus(a, b).rejected = a.rejected + b.rejected
         /\ Plus(a, b).sampled = a.sampled + b.sampled
  BY DEF Plus, Amount

LEMMA MinusAmount ==
  ASSUME NEW a \in Amount, NEW b \in Amount, AtMost(b, a)
  PROVE  /\ Minus(a, b) \in Amount
         /\ Minus(a, b).kept = a.kept - b.kept /\ Minus(a, b).rejected = a.rejected - b.rejected
         /\ Minus(a, b).sampled = a.sampled - b.sampled
  BY DEF Minus, AtMost, Amount

LEMMA NilAmount == Nil \in Amount /\ Nil.kept = 0 /\ Nil.rejected = 0 /\ Nil.sampled = 0
  BY DEF Nil, Amount

LEMMA PlusAssociative ==
  ASSUME NEW a \in Amount, NEW b \in Amount, NEW c \in Amount
  PROVE  Plus(a, Plus(b, c)) = Plus(Plus(a, b), c)
<1>1. /\ Plus(b, c) \in Amount /\ Plus(a, b) \in Amount
      /\ Plus(b, c).kept = b.kept + c.kept /\ Plus(b, c).rejected = b.rejected + c.rejected
      /\ Plus(b, c).sampled = b.sampled + c.sampled
      /\ Plus(a, b).kept = a.kept + b.kept /\ Plus(a, b).rejected = a.rejected + b.rejected
      /\ Plus(a, b).sampled = a.sampled + b.sampled
  BY PlusAmount
<1> DEFINE x == Plus(b, c)
           y == Plus(a, b)
<1> HIDE DEF x, y
<1>2. /\ Plus(a, x) \in Amount /\ Plus(y, c) \in Amount
      /\ Plus(a, x).kept = a.kept + x.kept /\ Plus(a, x).rejected = a.rejected + x.rejected
      /\ Plus(a, x).sampled = a.sampled + x.sampled
      /\ Plus(y, c).kept = y.kept + c.kept /\ Plus(y, c).rejected = y.rejected + c.rejected
      /\ Plus(y, c).sampled = y.sampled + c.sampled
  BY <1>1, PlusAmount DEF x, y
<1>3. /\ a.kept \in Nat /\ a.rejected \in Nat /\ a.sampled \in Nat
      /\ b.kept \in Nat /\ b.rejected \in Nat /\ b.sampled \in Nat
      /\ c.kept \in Nat /\ c.rejected \in Nat /\ c.sampled \in Nat
  BY DEF Amount
<1>4. /\ Plus(a, x).kept = Plus(y, c).kept /\ Plus(a, x).rejected = Plus(y, c).rejected
      /\ Plus(a, x).sampled = Plus(y, c).sampled
  BY <1>1, <1>2, <1>3 DEF x, y
<1> QED
  BY <1>2, <1>4, AmountsEqual DEF x, y

LEMMA MinusOfPlus ==
  ASSUME NEW a \in Amount, NEW x \in Amount, NEW s \in Amount, AtMost(s, a)
  PROVE  Minus(Plus(a, x), s) = Plus(Minus(a, s), x)
  BY DEF Minus, Plus, AtMost, Amount

LEMMA ShareAmount ==
  ASSUME NEW f, NEW r, Proper(f)
  PROVE  Share(f, r) \in Amount /\ (Share(f, r).kept = 0 => Share(f, r) = Nil)
<1>1. CASE r \in DOMAIN f
  <2>1. /\ f[r].n \in Nat /\ f[r].rejected \in Nat /\ f[r].sampled \in Nat
        /\ f[r].rejected < f[r].n
    BY <1>1 DEF Proper
  <2> DEFINE kept == f[r].n - f[r].rejected
  <2>2. kept \in Nat /\ kept # 0
    BY <2>1
  <2>3. Share(f, r) = [kept |-> kept, rejected |-> f[r].rejected, sampled |-> f[r].sampled]
    BY <1>1 DEF Share
  <2> HIDE DEF kept
  <2> QED
    BY <2>1, <2>2, <2>3 DEF Amount
<1>2. CASE r \notin DOMAIN f
  BY <1>2, NilAmount DEF Share
<1> QED
  BY <1>1, <1>2

LEMMA OwedType ==
  ASSUME NEW fs, Len(fs) \in Nat, NEW r, NEW t, Owed(fs, r, t)
  PROVE  t \in Amount /\ (t.kept = 0 => t = Nil)
<1>1. PICK A : Account(fs, r, A) /\ t = A[Len(fs)]
  BY DEF Owed
<1>2. Len(fs) \in 0 .. Len(fs) /\ 0 \in 0 .. Len(fs) /\ 0 <= Len(fs)
  OBVIOUS
<1>3. AtMost(A[0], t) /\ t \in Amount /\ A[0] = Nil
  BY <1>1, <1>2 DEF Account
<1> QED
  BY <1>3, NilAmount DEF AtMost

LEMMA OwedNothing == ASSUME NEW r PROVE Owed(<<>>, r, Nil)
<1> DEFINE A == [i \in 0 .. 0 |-> Nil]
<1>1. Len(<<>>) = 0
  OBVIOUS
<1>2. A \in [0 .. 0 -> Amount] /\ A[0] = Nil
  BY NilAmount
<1>3. \A i, j \in 0 .. 0 : AtMost(A[i], A[j])
  BY NilAmount DEF AtMost
<1> HIDE DEF A
<1>4. Account(<<>>, r, A)
  BY <1>1, <1>2, <1>3 DEF Account
<1> QED
  BY <1>1, <1>2, <1>4 DEF Owed

(* A share on top of an amount adds to it.                                 *)
LEMMA PlusAtMost ==
  ASSUME NEW a \in Amount, NEW s \in Amount, s.kept = 0 => s = Nil
  PROVE  AtMost(a, Plus(a, s))
<1>1. /\ a.kept \in Nat /\ a.rejected \in Nat /\ a.sampled \in Nat
      /\ s.kept \in Nat /\ s.rejected \in Nat /\ s.sampled \in Nat
  BY DEF Amount
<1>2. /\ Plus(a, s) \in Amount
      /\ Plus(a, s).kept = a.kept + s.kept /\ Plus(a, s).rejected = a.rejected + s.rejected
      /\ Plus(a, s).sampled = a.sampled + s.sampled
  BY PlusAmount
<1>3. ASSUME a.kept = Plus(a, s).kept PROVE a = Plus(a, s)
  <2>1. s = Nil
    BY <1>1, <1>2, <1>3
  <2> QED
    BY <1>1, <1>2, <2>1, NilAmount, AmountsEqual
<1> QED
  BY <1>1, <1>2, <1>3 DEF AtMost

LEMMA AtMostTransitive ==
  ASSUME NEW a \in Amount, NEW b \in Amount, NEW c \in Amount, AtMost(a, b), AtMost(b, c)
  PROVE  AtMost(a, c)
  BY DEF AtMost, Amount

LEMMA AtMostShift ==
  ASSUME NEW a \in Amount, NEW b \in Amount, NEW s \in Amount, AtMost(a, b)
  PROVE  AtMost(Plus(s, a), Plus(s, b))
<1>1. /\ a.kept \in Nat /\ a.rejected \in Nat /\ a.sampled \in Nat
      /\ b.kept \in Nat /\ b.rejected \in Nat /\ b.sampled \in Nat
      /\ s.kept \in Nat /\ s.rejected \in Nat /\ s.sampled \in Nat
  BY DEF Amount
<1>2. /\ Plus(s, a).kept = s.kept + a.kept /\ Plus(s, a).rejected = s.rejected + a.rejected
      /\ Plus(s, a).sampled = s.sampled + a.sampled
      /\ Plus(s, b).kept = s.kept + b.kept /\ Plus(s, b).rejected = s.rejected + b.rejected
      /\ Plus(s, b).sampled = s.sampled + b.sampled
  BY PlusAmount
<1>3. /\ Plus(s, a).kept <= Plus(s, b).kept /\ Plus(s, a).rejected <= Plus(s, b).rejected
      /\ Plus(s, a).sampled <= Plus(s, b).sampled
      /\ Plus(s, a).kept = Plus(s, b).kept => a = b
  BY <1>1, <1>2 DEF AtMost
<1>4. a = b => Plus(s, a) = Plus(s, b)
  OBVIOUS
<1> QED
  BY <1>3, <1>4 DEF AtMost

LEMMA AtMostUnshift ==
  ASSUME NEW a \in Amount, NEW b \in Amount, NEW s \in Amount,
         AtMost(s, a), AtMost(s, b), AtMost(a, b)
  PROVE  AtMost(Minus(a, s), Minus(b, s))
<1>1. /\ a.kept \in Nat /\ a.rejected \in Nat /\ a.sampled \in Nat
      /\ b.kept \in Nat /\ b.rejected \in Nat /\ b.sampled \in Nat
      /\ s.kept \in Nat /\ s.rejected \in Nat /\ s.sampled \in Nat
  BY DEF Amount
<1>2. /\ Minus(a, s).kept = a.kept - s.kept /\ Minus(a, s).rejected = a.rejected - s.rejected
      /\ Minus(a, s).sampled = a.sampled - s.sampled
      /\ Minus(b, s).kept = b.kept - s.kept /\ Minus(b, s).rejected = b.rejected - s.rejected
      /\ Minus(b, s).sampled = b.sampled - s.sampled
  BY MinusAmount
<1> QED
  BY <1>1, <1>2 DEF AtMost

(* A step that is dispatched.                                              *)
LEMMA OwedMore ==
  ASSUME NEW T, NEW fs \in Seq(T), NEW f \in T, NEW r, NEW t, Owed(fs, r, t), Proper(f)
  PROVE  Owed(Append(fs, f), r, Plus(t, Share(f, r)))
<1> DEFINE len == Len(fs)
           s == Share(f, r)
<1>1. len \in Nat
  BY LenProperties
<1>2. /\ Len(Append(fs, f)) = len + 1 /\ Append(fs, f)[len + 1] = f
      /\ \A i \in 1 .. len : Append(fs, f)[i] = fs[i]
  BY AppendProperties
<1>3. PICK A : Account(fs, r, A) /\ t = A[len]
  BY DEF Owed
<1>4. s \in Amount /\ (s.kept = 0 => s = Nil)
  BY ShareAmount
<1>5. t \in Amount
  BY <1>1, OwedType
<1> DEFINE B == [i \in 0 .. len + 1 |-> IF i <= len THEN A[i] ELSE Plus(t, s)]
<1>6. Plus(t, s) \in Amount /\ AtMost(t, Plus(t, s)) /\ AtMost(Plus(t, s), Plus(t, s))
  <2>1. Plus(t, s) \in Amount /\ AtMost(t, Plus(t, s))
    BY <1>4, <1>5, PlusAmount, PlusAtMost
  <2> QED
    BY <2>1 DEF AtMost, Amount
<1> HIDE DEF len, s
<1>7. /\ A \in [0 .. len -> Amount] /\ A[0] = Nil
      /\ \A i \in 1 .. len :
           Share(fs[i], r) \in Amount /\ A[i] = Plus(A[i - 1], Share(fs[i], r))
      /\ \A i, j \in 0 .. len : i <= j => AtMost(A[i], A[j])
  BY <1>3 DEF Account, len
<1>8. B \in [0 .. len + 1 -> Amount] /\ B[0] = Nil /\ B[len + 1] = Plus(t, s)
      /\ \A i \in 0 .. len : B[i] = A[i]
  BY <1>1, <1>6, <1>7
<1> HIDE DEF B
<1>9. \A i \in 1 .. len + 1 : /\ Share(Append(fs, f)[i], r) \in Amount
                              /\ B[i] = Plus(B[i - 1], Share(Append(fs, f)[i], r))
  <2> SUFFICES ASSUME NEW i \in 1 .. len + 1
               PROVE  /\ Share(Append(fs, f)[i], r) \in Amount
                      /\ B[i] = Plus(B[i - 1], Share(Append(fs, f)[i], r))
    OBVIOUS
  <2>1. CASE i = len + 1
    <3>1. i - 1 = len /\ len \in 0 .. len
      BY <1>1, <2>1
    <3>2. B[i - 1] = t /\ Append(fs, f)[i] = f
      BY <1>2, <1>3, <1>8, <2>1, <3>1 DEF len
    <3> QED
      BY <1>4, <1>8, <2>1, <3>2 DEF s
  <2>2. CASE i # len + 1
    <3>1. i \in 1 .. len /\ i \in 0 .. len /\ i - 1 \in 0 .. len
      BY <1>1, <2>2
    <3> QED
      BY <1>2, <1>7, <1>8, <3>1 DEF len
  <2> QED
    BY <2>1, <2>2
<1>10. \A i, j \in 0 .. len + 1 : i <= j => AtMost(B[i], B[j])
  <2> SUFFICES ASSUME NEW i \in 0 .. len + 1, NEW j \in 0 .. len + 1, i <= j
               PROVE  AtMost(B[i], B[j])
    OBVIOUS
  <2>1. CASE j <= len
    <3>1. i \in 0 .. len /\ j \in 0 .. len
      BY <1>1, <2>1
    <3> QED
      BY <1>7, <1>8, <3>1
  <2>2. CASE j = len + 1 /\ i = len + 1
    BY <1>6, <1>8, <2>2
  <2>3. CASE j = len + 1 /\ i # len + 1
    <3>1. i \in 0 .. len /\ len \in 0 .. len /\ i <= len
      BY <1>1, <2>3
    <3>2. AtMost(A[i], t) /\ A[i] \in Amount
      BY <1>3, <1>7, <3>1 DEF len
    <3> QED
      BY <1>5, <1>6, <1>8, <2>3, <3>1, <3>2, AtMostTransitive
  <2> QED
    BY <1>1, <2>1, <2>2, <2>3
<1>11. Account(Append(fs, f), r, B)
  BY <1>2, <1>8, <1>9, <1>10 DEF Account, len
<1>12. Plus(t, Share(f, r)) = B[Len(Append(fs, f))]
  BY <1>2, <1>8 DEF s, len
<1> QED
  BY <1>11, <1>12 DEF Owed

(* The oldest step is done with.                                           *)
LEMMA OwedRest ==
  ASSUME NEW T, NEW fs \in Seq(T), fs # <<>>, NEW r, NEW t, Owed(fs, r, t)
  PROVE  /\ AtMost(Share(Head(fs), r), t)
         /\ Owed(Tail(fs), r, Minus(t, Share(Head(fs), r)))
<1> DEFINE len == Len(fs)
           s == Share(Head(fs), r)
<1>1. len \in Nat \ {0}
  BY LenProperties, EmptySeq
<1>2. /\ Len(Tail(fs)) = len - 1 /\ Head(fs) = fs[1]
      /\ \A i \in 1 .. len - 1 : Tail(fs)[i] = fs[i + 1]
  BY HeadTailProperties
<1>3. PICK A : Account(fs, r, A) /\ t = A[len]
  BY DEF Owed
<1>4. s \in Amount
  BY <1>1, <1>2, <1>3 DEF Account
<1> HIDE DEF len, s
<1>5. /\ A \in [0 .. len -> Amount] /\ A[0] = Nil
      /\ \A i \in 1 .. len :
           Share(fs[i], r) \in Amount /\ A[i] = Plus(A[i - 1], Share(fs[i], r))
      /\ \A i, j \in 0 .. len : i <= j => AtMost(A[i], A[j])
  BY <1>3 DEF Account, len
<1>6. A[1] = s
  <2>1. 1 \in 1 .. len /\ 1 - 1 = 0
    BY <1>1
  <2>2. A[1] = Plus(Nil, s)
    BY <1>2, <1>5, <2>1 DEF s
  <2>3. /\ Plus(Nil, s) \in Amount
        /\ Plus(Nil, s).kept = 0 + s.kept /\ Plus(Nil, s).rejected = 0 + s.rejected
        /\ Plus(Nil, s).sampled = 0 + s.sampled
    BY <1>4, NilAmount, PlusAmount
  <2>4. s.kept \in Nat /\ s.rejected \in Nat /\ s.sampled \in Nat
    BY <1>4 DEF Amount
  <2> QED
    BY <1>4, <2>2, <2>3, <2>4, AmountsEqual
<1>7. \A i \in 1 .. len : AtMost(s, A[i]) /\ A[i] \in Amount
  <2>1. \A i \in 1 .. len : i \in 0 .. len /\ 1 \in 0 .. len /\ 1 <= i
    BY <1>1
  <2> QED
    BY <1>5, <1>6, <2>1
<1> DEFINE B == [i \in 0 .. len - 1 |-> Minus(A[i + 1], s)]
<1>8. \A i \in 0 .. len - 1 : i + 1 \in 1 .. len
  BY <1>1
<1>9. B \in [0 .. len - 1 -> Amount]
  BY <1>4, <1>7, <1>8, MinusAmount
<1>10. B[0] = Nil
  <2>1. B[0] = Minus(s, s) /\ AtMost(s, s)
    BY <1>1, <1>6, <1>7
  <2>2. /\ Minus(s, s) \in Amount /\ Minus(s, s).kept = s.kept - s.kept
        /\ Minus(s, s).rejected = s.rejected - s.rejected /\ Minus(s, s).sampled = s.sampled - s.sampled
    BY <1>4, <2>1, MinusAmount
  <2>3. s.kept \in Nat /\ s.rejected \in Nat /\ s.sampled \in Nat
    BY <1>4 DEF Amount
  <2> HIDE DEF B
  <2> QED
    BY <2>1, <2>2, <2>3, NilAmount, AmountsEqual
<1>11. \A i \in 1 .. len - 1 : /\ Share(Tail(fs)[i], r) \in Amount
                               /\ B[i] = Plus(B[i - 1], Share(Tail(fs)[i], r))
  <2> SUFFICES ASSUME NEW i \in 1 .. len - 1
               PROVE  /\ Share(Tail(fs)[i], r) \in Amount
                      /\ B[i] = Plus(B[i - 1], Share(Tail(fs)[i], r))
    OBVIOUS
  <2> DEFINE x == Share(fs[i + 1], r)
  <2>1. i \in 1 .. len /\ i + 1 \in 1 .. len /\ i \in 0 .. len - 1 /\ i - 1 \in 0 .. len - 1
        /\ (i + 1) - 1 = i /\ (i - 1) + 1 = i
    BY <1>1
  <2>2. x \in Amount /\ A[i + 1] = Plus(A[i], x) /\ Tail(fs)[i] = fs[i + 1]
    BY <1>2, <1>5, <2>1 DEF len
  <2>3. B[i] = Minus(A[i + 1], s) /\ B[i - 1] = Minus(A[i], s)
    BY <2>1
  <2>4. A[i] \in Amount /\ AtMost(s, A[i])
    BY <1>7, <2>1
  <2> HIDE DEF B, x
  <2>5. B[i] = Plus(B[i - 1], x)
    BY <1>4, <2>2, <2>3, <2>4, MinusOfPlus
  <2> QED
    BY <2>2, <2>5 DEF x
<1>12. \A i, j \in 0 .. len - 1 : i <= j => AtMost(B[i], B[j])
  <2> SUFFICES ASSUME NEW i \in 0 .. len - 1, NEW j \in 0 .. len - 1, i <= j
               PROVE  AtMost(B[i], B[j])
    OBVIOUS
  <2>1. /\ i + 1 \in 1 .. len /\ j + 1 \in 1 .. len /\ i + 1 <= j + 1
        /\ i + 1 \in 0 .. len /\ j + 1 \in 0 .. len
    BY <1>1
  <2>2. AtMost(A[i + 1], A[j + 1])
    BY <1>5, <2>1
  <2> QED
    BY <1>4, <1>7, <2>1, <2>2, AtMostUnshift
<1>13. len \in 1 .. len /\ len - 1 \in 0 .. len - 1 /\ (len - 1) + 1 = len
  BY <1>1
<1>14. Minus(t, s) = B[len - 1]
  BY <1>3, <1>13 DEF len
<1> HIDE DEF B
<1>15. Account(Tail(fs), r, B)
  BY <1>2, <1>9, <1>10, <1>11, <1>12 DEF Account, len
<1>16. Owed(Tail(fs), r, Minus(t, s))
  BY <1>2, <1>14, <1>15 DEF Owed, len
<1> QED
  BY <1>3, <1>7, <1>13, <1>16 DEF len, s

(* What is left of the oldest step.                                        *)
LEMMA OwedFirst ==
  ASSUME NEW T, NEW fs \in Seq(T), NEW f \in T, NEW r, NEW t, Owed(fs, r, t), Proper(f)
  PROVE  Owed(<<f>> \o fs, r, Plus(Share(f, r), t))
<1> DEFINE len == Len(fs)
           s == Share(f, r)
           gs == <<f>> \o fs
<1>1. len \in Nat
  BY LenProperties
<1>2. Len(gs) = len + 1 /\ gs[1] = f /\ \A i \in 2 .. len + 1 : gs[i] = fs[i - 1]
  OBVIOUS
<1>3. PICK A : Account(fs, r, A) /\ t = A[len]
  BY DEF Owed
<1>4. s \in Amount /\ (s.kept = 0 => s = Nil)
  BY ShareAmount
<1> HIDE DEF len, s, gs
<1>5. /\ A \in [0 .. len -> Amount] /\ A[0] = Nil
      /\ \A i \in 1 .. len :
           Share(fs[i], r) \in Amount /\ A[i] = Plus(A[i - 1], Share(fs[i], r))
      /\ \A i, j \in 0 .. len : i <= j => AtMost(A[i], A[j])
  BY <1>3 DEF Account, len
<1> DEFINE B == [i \in 0 .. len + 1 |-> IF i = 0 THEN Nil ELSE Plus(s, A[i - 1])]
<1>6. \A i \in 1 .. len + 1 : i - 1 \in 0 .. len /\ i \in 0 .. len + 1 /\ i # 0
  BY <1>1
<1>7. \A i \in 1 .. len + 1 : B[i] = Plus(s, A[i - 1]) /\ A[i - 1] \in Amount
  BY <1>5, <1>6
<1>8. B[0] = Nil
  BY <1>1
<1>9. \A i \in 1 .. len + 1 : B[i] \in Amount
  BY <1>4, <1>7, PlusAmount
<1>10. B \in [0 .. len + 1 -> Amount]
  <2>1. \A i \in 0 .. len + 1 : i = 0 \/ i \in 1 .. len + 1
    BY <1>1
  <2>2. \A i \in 0 .. len + 1 : B[i] \in Amount
    BY <1>8, <1>9, <2>1, NilAmount
  <2> QED
    BY <2>2
<1> HIDE DEF B
<1>11. B[1] = s
  <2>1. 1 \in 1 .. len + 1 /\ 1 - 1 = 0
    BY <1>1
  <2>2. B[1] = Plus(s, Nil)
    BY <1>5, <1>7, <2>1
  <2>3. /\ Plus(s, Nil) \in Amount
        /\ Plus(s, Nil).kept = s.kept + 0 /\ Plus(s, Nil).rejected = s.rejected + 0
        /\ Plus(s, Nil).sampled = s.sampled + 0
    BY <1>4, NilAmount, PlusAmount
  <2>4. s.kept \in Nat /\ s.rejected \in Nat /\ s.sampled \in Nat
    BY <1>4 DEF Amount
  <2> QED
    BY <1>4, <2>2, <2>3, <2>4, AmountsEqual
<1>12. \A i \in 1 .. len + 1 : /\ Share(gs[i], r) \in Amount
                               /\ B[i] = Plus(B[i - 1], Share(gs[i], r))
  <2> SUFFICES ASSUME NEW i \in 1 .. len + 1
               PROVE  Share(gs[i], r) \in Amount /\ B[i] = Plus(B[i - 1], Share(gs[i], r))
    OBVIOUS
  <2>1. CASE i = 1
    <3>1. gs[i] = f /\ B[i - 1] = Nil
      BY <1>2, <1>8, <2>1
    <3>2. /\ Plus(Nil, s) \in Amount
          /\ Plus(Nil, s).kept = 0 + s.kept /\ Plus(Nil, s).rejected = 0 + s.rejected
          /\ Plus(Nil, s).sampled = 0 + s.sampled
      BY <1>4, NilAmount, PlusAmount
    <3>3. s.kept \in Nat /\ s.rejected \in Nat /\ s.sampled \in Nat
      BY <1>4 DEF Amount
    <3>4. Plus(Nil, s) = s
      BY <1>4, <3>2, <3>3, AmountsEqual
    <3> QED
      BY <1>4, <1>11, <2>1, <3>1, <3>4 DEF s
  <2>2. CASE i # 1
    <3>1. /\ i \in 2 .. len + 1 /\ i - 1 \in 1 .. len /\ i - 1 \in 1 .. len + 1
          /\ i - 1 \in 0 .. len /\ (i - 1) - 1 \in 0 .. len
      BY <1>1, <2>2
    <3> DEFINE a == A[(i - 1) - 1]
               x == Share(fs[i - 1], r)
    <3>2. gs[i] = fs[i - 1]
      BY <1>2, <3>1 DEF len
    <3>3. A[i - 1] = Plus(a, x) /\ x \in Amount
      BY <1>5, <3>1
    <3>4. B[i] = Plus(s, A[i - 1]) /\ B[i - 1] = Plus(s, a)
      BY <1>7, <3>1
    <3>5. a \in Amount /\ A[i - 1] \in Amount
      BY <1>5, <3>1
    <3> HIDE DEF a, x
    <3>6. B[i] = Plus(B[i - 1], x)
      BY <1>4, <3>3, <3>4, <3>5, PlusAssociative
    <3> QED
      BY <3>2, <3>3, <3>6 DEF x
  <2> QED
    BY <2>1, <2>2
<1>13. \A i, j \in 0 .. len + 1 : i <= j => AtMost(B[i], B[j])
  <2> SUFFICES ASSUME NEW i \in 0 .. len + 1, NEW j \in 0 .. len + 1, i <= j
               PROVE  AtMost(B[i], B[j])
    OBVIOUS
  <2>1. CASE i = 0
    <3>1. B[j] \in Amount
      BY <1>10
    <3>2. B[j].kept = 0 => B[j] = Nil
      <4>1. CASE j = 0
        BY <1>8, <4>1
      <4>2. CASE j # 0
        <5>1. j \in 1 .. len + 1
          BY <1>1, <4>2
        <5>2. B[j] = Plus(s, A[j - 1]) /\ A[j - 1] \in Amount /\ AtMost(Nil, A[j - 1])
          <6>1. j - 1 \in 0 .. len /\ 0 \in 0 .. len /\ 0 <= j - 1
            BY <1>1, <5>1
          <6>2. AtMost(A[0], A[j - 1])
            BY <1>5, <6>1
          <6> QED
            BY <1>5, <1>7, <5>1, <6>2
        <5>3. /\ B[j].kept = s.kept + A[j - 1].kept /\ B[j].rejected = s.rejected + A[j - 1].rejected
              /\ B[j].sampled = s.sampled + A[j - 1].sampled
          BY <1>4, <5>2, PlusAmount
        <5>4. s.kept \in Nat /\ A[j - 1].kept \in Nat
          BY <1>4, <5>2 DEF Amount
        <5>5. ASSUME B[j].kept = 0 PROVE s = Nil /\ A[j - 1] = Nil
          <6>1. s.kept = 0 /\ A[j - 1].kept = 0
            <7> DEFINE m == A[j - 1].kept
            <7>1. m \in Nat /\ s.kept \in Nat /\ s.kept + m = 0
              BY <5>3, <5>4, <5>5
            <7> HIDE DEF m
            <7>2. s.kept = 0 /\ m = 0
              BY <7>1
            <7> QED
              BY <7>2 DEF m
          <6> QED
            BY <1>4, <5>2, <6>1, NilAmount DEF AtMost
        <5> QED
          BY <3>1, <5>3, <5>5, NilAmount, AmountsEqual
      <4> QED
        BY <4>1, <4>2
    <3>3. B[j].kept \in Nat /\ B[j].rejected \in Nat /\ B[j].sampled \in Nat
      BY <3>1 DEF Amount
    <3> QED
      BY <1>8, <2>1, <3>2, <3>3, NilAmount DEF AtMost
  <2>2. CASE i # 0
    <3>1. /\ i \in 1 .. len + 1 /\ j \in 1 .. len + 1
          /\ i - 1 \in 0 .. len /\ j - 1 \in 0 .. len /\ i - 1 <= j - 1
      BY <1>1, <2>2
    <3>2. AtMost(A[i - 1], A[j - 1])
      BY <1>5, <3>1
    <3> QED
      BY <1>4, <1>7, <3>1, <3>2, AtMostShift
  <2> QED
    BY <2>1, <2>2
<1>14. Account(gs, r, B)
  BY <1>2, <1>8, <1>10, <1>12, <1>13 DEF Account
<1>15. Plus(s, t) = B[Len(gs)]
  <2>1. len + 1 \in 1 .. len + 1 /\ (len + 1) - 1 = len
    BY <1>1
  <2> QED
    BY <1>2, <1>3, <1>7, <2>1 DEF len
<1> QED
  BY <1>14, <1>15 DEF Owed, s, gs

-----------------------------------------------------------------------------
(* The tokens a request lacks, drafts aside: the next one to come at least *)
(* and, while nothing is sampled and nothing drafted, the rest of its      *)
(* prompt.                                                                 *)
Lag(q) == q.tokens + q.placeholders - q.computed

(* What the counters of a request stand for, given what is owed to it.     *)
Ahead(q, pos, t) ==
  /\ q.spec >= 0 /\ q.spec <= NumSpec /\ q.inflight = t.kept + t.rejected
  /\ q.status \in {"new", "waiting"} => q.inflight = 0 /\ q.stale = 0
  /\ q.status # "running" => q.placeholders = 0 /\ q.computed = 0 /\ q.spec = 0
  /\ q.status = "preempted" => q.stale = q.inflight
  /\ q.status = "running" =>
       /\ q.stale = 0 /\ pos >= 0
       /\ t.rejected = q.computed - pos /\ q.placeholders = t.sampled + t.rejected
       /\ Lag(q) >= 1 /\ (Lag(q) > 1 => q.placeholders = 0 /\ q.spec = 0)
Balanced(fs, q, pos, r) ==
  q.status # "finished" => \E t \in Amount : Owed(fs, r, t) /\ Ahead(q, pos, t)

(* A scheduled request is still running, has drafts only behind all its    *)
(* known tokens, and is not taken further than its drafts reach.           *)
Planned(q, e) ==
  /\ q.status = "running" /\ e.n >= 1 /\ e.drafts >= 0 /\ e.drafts <= NumSpec
  /\ e.n <= Lag(q) + e.drafts /\ (e.drafts > 0 => e.n = Lag(q) + e.drafts /\ Lag(q) = 1)
InPass ==
  /\ DOMAIN step # {} => phase \in {"running", "waiting", "dispatch"}
  /\ \A r \in DOMAIN step : Planned(req[r], step[r])
  /\ phase = "running" =>
       \A r \in DOMAIN step : \E i \in 1 .. Len(running) : i < cursor /\ running[i] = r

Rows == worker = [r \in Requests |-> worker[r]] /\ \A r \in Requests : worker[r].pos \in Int
Counters ==
  /\ Rows /\ InPass
  /\ \A i \in 1 .. Len(flights) : Proper(flights[i])
  /\ \A r \in Requests : Balanced(flights, req[r], worker[r].pos, r)
CounterInv == ServingInv /\ Counters

LEMMA FloorAtMost == ASSUME NEW n \in Int PROVE Floor(n) <= n
<1>1. n % BlockSize >= 0 /\ n % BlockSize \in Int
  BY ManagerAssumption
<1> QED
  BY <1>1 DEF Floor

(* The split never asks for more tokens than there are.                    *)
LEMMA SplitAtMost ==
  ASSUME req \in [Requests -> Req], NEW r \in Requests, NEW start \in Int, NEW n \in Int,
         AlignedSplit(r, start, n) > 0
  PROVE  AlignedSplit(r, start, n) <= n
<1> DEFINE prefillEnd == Larger(Prompt[r], req[r].tokens - 1)
           lastCache  == Larger(Floor(req[r].tokens) - (IF NumSpec > 0 THEN BlockSize ELSE 0), 0)
           aligned    == Floor(start + n)
           end == IF /\ start + n < prefillEnd
                     /\ aligned > start \/ BlockSize <= MaxBatched
                    THEN aligned ELSE start + n
           next  == IF start % BlockSize # 0 THEN Floor(start) + BlockSize ELSE 0
           stops == {s \in {next, lastCache} : start < s /\ s < end}
           stop  == IF stops = {} THEN end
                    ELSE CHOOSE s \in stops : \A other \in stops : s <= other
<1>1. BlockSize \in Int /\ req[r].tokens \in Int
  BY ManagerAssumption, ReqFields
<1>2. aligned \in Int /\ start + n \in Int /\ aligned <= start + n
  BY FloorInt, FloorAtMost
<1>3. end \in Int /\ end <= start + n
  BY <1>2
<1>4. lastCache \in Int
  <2>1. Floor(req[r].tokens) \in Int
    BY <1>1, FloorInt
  <2> QED
    BY <1>1, <2>1 DEF Larger
<1>5. next \in Int
  <2>1. Floor(start) \in Int
    BY FloorInt
  <2> QED
    BY <1>1, <2>1
<1>6. stop \in Int /\ stop <= end
  <2> HIDE DEF next, lastCache, end
  <2>1. CASE stops = {}
    BY <1>3, <2>1
  <2>2. CASE stops # {}
    <3>1. \E s \in stops : \A other \in stops : s <= other
      BY <1>4, <1>5, <2>2
    <3>2. \A s \in stops : s \in Int /\ s < end
      BY <1>4, <1>5
    <3> HIDE DEF stops
    <3>3. (CHOOSE s \in stops : \A other \in stops : s <= other) \in stops
      BY <3>1
    <3> QED
      BY <1>3, <2>2, <3>2, <3>3
  <2> QED
    BY <2>1, <2>2
<1>7. AlignedSplit(r, start, n) = IF start >= prefillEnd THEN n ELSE Larger(stop - start, 0)
  BY DEF AlignedSplit
<1> HIDE DEF stop, prefillEnd, end
<1> QED
  BY <1>3, <1>6, <1>7 DEF Larger

LEMMA InitCounters == Init => Counters
<1> SUFFICES ASSUME Init PROVE Counters
  OBVIOUS
<1>1. /\ req = [r \in Requests |-> [NewReq EXCEPT !.tokens = Prompt[r]]]
      /\ worker = [r \in Requests |-> NoRow] /\ flights = <<>> /\ step = <<>>
  BY DEF Init
<1>2. Rows
  BY <1>1 DEF Rows, NoRow
<1>3. InPass
  BY <1>1 DEF InPass
<1>4. Len(flights) = 0
  BY <1>1
<1>5. ASSUME NEW r \in Requests PROVE Balanced(flights, req[r], worker[r].pos, r)
  <2>1. /\ req[r].status = "new" /\ req[r].computed = 0 /\ req[r].placeholders = 0
        /\ req[r].spec = 0 /\ req[r].inflight = 0 /\ req[r].stale = 0
    BY <1>1 DEF NewReq
  <2>2. Owed(flights, r, Nil)
    BY <1>1, OwedNothing
  <2> QED
    BY <2>1, <2>2, NilAmount, ManagerAssumption DEF Balanced, Ahead
<1> QED
  BY <1>2, <1>3, <1>4, <1>5 DEF Counters

(* Nothing changes but one request, and nothing is dispatched or returned. *)
LEMMA OthersBalanced ==
  ASSUME CounterInv, flights' = flights, Rows', InPass', NEW r \in Requests,
         \A x \in Requests : x # r => req'[x] = req[x] /\ worker'[x] = worker[x],
         Balanced(flights, req'[r], worker'[r].pos, r)
  PROVE  Counters'
<1>1. \A x \in Requests : Balanced(flights, req'[x], worker'[x].pos, x)
  BY DEF CounterInv, Counters
<1>2. \A x \in Requests : Balanced(flights', req'[x], worker'[x].pos, x)
  BY <1>1
<1>3. \A i \in 1 .. Len(flights') : Proper(flights'[i])
  BY DEF CounterInv, Counters
<1> QED
  BY <1>2, <1>3 DEF Counters

LEMMA QuietCounters ==
  ASSUME CounterInv,
         \/ StartPass \/ SkipRunning \/ EndRunning \/ EndAdmission \/ DispatchNothing
         \/ AllDone \/ UNCHANGED vars
  PROVE  Counters'
<1>1. req' = req /\ worker' = worker /\ flights' = flights
  BY DEF StartPass, SkipRunning, EndRunning, EndAdmission, DispatchNothing, AllDone, vars
<1>2. InPass
  BY DEF CounterInv, Counters
<1>3. InPass'
  <2>1. CASE DispatchNothing
    <3>1. step' = <<>>
      BY <2>1 DEF DispatchNothing, ResetPass
    <3> QED
      BY <3>1 DEF InPass
  <2>2. CASE StartPass
    <3>1. step' = step /\ DOMAIN step = {}
      BY <1>2, <2>2 DEF StartPass, InPass, passVars
    <3> QED
      BY <3>1 DEF InPass
  <2>3. CASE SkipRunning
    <3>1. step' = step /\ running' = running /\ cursor' = cursor + 1 /\ phase' = phase
      BY <2>3 DEF SkipRunning
    <3>2. cursor \in Nat
      BY DEF CounterInv, ServingInv, Shape
    <3> QED
      BY <1>1, <1>2, <3>1, <3>2 DEF InPass
  <2>4. CASE EndRunning \/ EndAdmission
    <3>1. step' = step /\ phase' \in {"waiting", "dispatch"}
      BY <2>4 DEF EndRunning, EndAdmission, passVars
    <3> QED
      BY <1>1, <1>2, <3>1 DEF InPass
  <2>5. CASE AllDone \/ UNCHANGED vars
    <3>1. step' = step /\ phase' = phase /\ running' = running /\ cursor' = cursor
      BY <2>5 DEF AllDone, vars, passVars
    <3> QED
      BY <1>1, <1>2, <3>1 DEF InPass
  <2> QED
    BY <2>1, <2>2, <2>3, <2>4, <2>5
<1> QED
  BY <1>1, <1>3 DEF CounterInv, Counters, Rows

LEMMA ArriveCounters ==
  ASSUME CounterInv, NEW r \in Requests, Arrive(r)
  PROVE  Counters'
<1>1. /\ req' = [req EXCEPT ![r] = [req[r] EXCEPT !.status = "waiting"]]
      /\ phase = "idle" /\ phase' = phase /\ req[r].status = "new"
      /\ step' = step /\ flights' = flights /\ worker' = worker
  BY DEF Arrive, passVars
<1>2. req \in [Requests -> Req]
  BY DEF CounterInv, ServingInv, Shape
<1>3. /\ req'[r] = [req[r] EXCEPT !.status = "waiting"]
      /\ \A x \in Requests : x # r => req'[x] = req[x]
  BY <1>1, <1>2
<1>4. /\ req'[r].status = "waiting" /\ req'[r].computed = req[r].computed
      /\ req'[r].placeholders = req[r].placeholders /\ req'[r].spec = req[r].spec
      /\ req'[r].inflight = req[r].inflight /\ req'[r].stale = req[r].stale
  BY <1>2, <1>3 DEF Req
<1>5. Balanced(flights, req[r], worker[r].pos, r)
  BY DEF CounterInv, Counters
<1>6. Balanced(flights, req'[r], worker'[r].pos, r)
  BY <1>1, <1>4, <1>5 DEF Balanced, Ahead
<1>7. InPass' /\ Rows'
  BY <1>1 DEF CounterInv, Counters, InPass, Rows
<1> QED
  BY <1>1, <1>3, <1>6, <1>7, OthersBalanced

LEMMA AbortCounters ==
  ASSUME CounterInv, NEW r \in Requests, Abort(r)
  PROVE  Counters'
<1>1. /\ req' = [req EXCEPT ![r] = [NewReq EXCEPT !.status = "finished"]]
      /\ worker' = [worker EXCEPT ![r] = NoRow]
      /\ phase = "idle" /\ step' = step /\ flights' = flights
  BY DEF Abort, passVars
<1>2. req \in [Requests -> Req] /\ Rows
  BY DEF CounterInv, Counters, ServingInv, Shape
<1>3. /\ req'[r].status = "finished"
      /\ \A x \in Requests : x # r => req'[x] = req[x] /\ worker'[x] = worker[x]
  BY <1>1, <1>2 DEF NewReq, Rows
<1>4. Rows'
  BY <1>1, <1>2 DEF Rows, NoRow
<1>5. DOMAIN step' = {}
  BY <1>1 DEF CounterInv, Counters, InPass
<1> QED
  BY <1>1, <1>3, <1>4, <1>5, OthersBalanced DEF Balanced, InPass

(* A growing request gets at most the tokens it lacks, within the budget.  *)
LEMMA GrowthAtMost ==
  ASSUME Shape, NEW r \in Requests, NewTokens(r) > 0
  PROVE  /\ NewTokens(r) \in Int /\ NewTokens(r) <= budget
         /\ NewTokens(r) <= req[r].tokens + req[r].spec + req[r].placeholders - req[r].computed
<1>1. req \in [Requests -> Req] /\ budget \in Int /\ NewTokens(r) \in Int
  BY NewTokensInt DEF Shape
<1>2. /\ req[r].tokens \in Int /\ req[r].computed \in Int /\ req[r].placeholders \in Int
      /\ req[r].spec \in Int
  BY <1>1, ReqFields
<1> DEFINE lacks == req[r].tokens + req[r].spec + req[r].placeholders - req[r].computed
           n == Smaller(lacks, budget)
<1>3. lacks \in Int /\ n \in Int /\ n <= lacks /\ n <= budget
  BY <1>1, <1>2 DEF Smaller
<1>4. NewTokens(r) = IF SureToEnd(r) THEN 0 ELSE AlignedSplit(r, req[r].computed, n)
  BY DEF NewTokens
<1> HIDE DEF n, lacks
<1>5. NewTokens(r) <= n
  BY <1>1, <1>2, <1>3, <1>4, SplitAtMost
<1>6. NewTokens(r) <= lacks /\ NewTokens(r) <= budget
  BY <1>1, <1>3, <1>5
<1> QED
  BY <1>1, <1>6 DEF lacks

LEMMA GrowCounters ==
  ASSUME CounterInv, Grow
  PROVE  Counters'
<1> DEFINE r == Current
           n == NewTokens(r)
           q == req[r]
           total == q.computed + n
           drafts == IF q.spec = 0 THEN 0
                     ELSE Smaller(q.spec, Larger(0, total - q.tokens - q.placeholders))
           entry == [n |-> n, drafts |-> drafts, padded |-> FALSE, admitted |-> FALSE]
<1>1. /\ InLoop /\ n > 0 /\ step' = Scheduled(r, entry)
      /\ req' = [req EXCEPT ![r].spec = 0] /\ cursor' = cursor + 1
      /\ phase' = phase /\ running' = running /\ flights' = flights /\ worker' = worker
  BY DEF Grow
<1>2. Shape /\ InPass /\ Rows /\ ServingInv /\ Balanced(flights, req[r], worker[r].pos, r)
  BY <1>1, CurrentRunning DEF CounterInv, Counters, ServingInv
<1>3. r \in Requests /\ q.status = "running"
  BY <1>1, <1>2, CurrentRunning
<1>4. /\ n \in Int /\ q.computed \in Int /\ q.tokens \in Int /\ q.placeholders \in Int
      /\ q.spec \in Int /\ n <= q.tokens + q.spec + q.placeholders - q.computed
  BY <1>1, <1>2, <1>3, GrowthAtMost, ReqFields DEF Shape
<1>5. PICK t \in Amount : Owed(flights, r, t) /\ Ahead(q, worker[r].pos, t)
  BY <1>2, <1>3 DEF Balanced
<1>6. /\ q.spec >= 0 /\ q.spec <= NumSpec /\ NumSpec \in Nat
      /\ q.tokens + q.placeholders - q.computed >= 1
      /\ q.tokens + q.placeholders - q.computed > 1 => q.placeholders = 0 /\ q.spec = 0
  BY <1>3, <1>5, ManagerAssumption DEF Ahead, Lag
<1>7. /\ req'[r] = [q EXCEPT !.spec = 0]
      /\ \A x \in Requests : x # r => req'[x] = req[x]
  <2> HIDE DEF r, n
  <2> QED
    BY <1>1, <1>2, <1>3 DEF Shape
<1>8. /\ req'[r].status = q.status /\ req'[r].computed = q.computed /\ req'[r].tokens = q.tokens
      /\ req'[r].placeholders = q.placeholders /\ req'[r].spec = 0
      /\ req'[r].inflight = q.inflight /\ req'[r].stale = q.stale
  <2>1. q \in Req
    BY <1>2, <1>3 DEF Shape
  <2> QED
    BY <1>7, <2>1 DEF Req
<1>9. Balanced(flights, req'[r], worker'[r].pos, r)
  <2> HIDE DEF q, r
  <2>1. /\ Lag(req'[r]) = Lag(q) /\ 0 <= req'[r].spec /\ req'[r].spec <= NumSpec
    BY <1>6, <1>8 DEF Lag
  <2>2. Ahead(req'[r], worker[r].pos, t)
    BY <1>5, <1>8, <2>1 DEF Ahead
  <2>3. Balanced(flights, req'[r], worker[r].pos, r)
    BY <1>5, <2>2 DEF Balanced
  <2> QED
    BY <1>1, <2>3
<1>10. Planned(req'[r], entry)
  <2> HIDE DEF n, q, r
  <2>1. /\ drafts \in Int /\ drafts >= 0 /\ drafts <= NumSpec
        /\ n <= q.tokens + q.placeholders - q.computed + drafts
        /\ drafts > 0 => /\ n = q.tokens + q.placeholders - q.computed + drafts
                         /\ q.tokens + q.placeholders - q.computed = 1
    <3>1. CASE q.spec = 0
      BY <1>1, <1>4, <1>6, <3>1
    <3>2. CASE q.spec # 0
      <4>1. q.tokens + q.placeholders - q.computed = 1
        BY <1>4, <1>6, <3>2
      <4> QED
        BY <1>1, <1>4, <1>6, <3>2, <4>1 DEF Larger, Smaller
    <3> QED
      BY <3>1, <3>2
  <2> HIDE DEF drafts
  <2>2. Lag(req'[r]) = q.tokens + q.placeholders - q.computed
    BY <1>8 DEF Lag
  <2>3. entry.n = n /\ entry.drafts = drafts
    OBVIOUS
  <2> HIDE DEF entry
  <2> QED
    BY <1>1, <1>3, <1>4, <1>8, <2>1, <2>2, <2>3 DEF Planned
<1> HIDE DEF entry, q
<1>11. /\ DOMAIN step' = DOMAIN step \union {r} /\ step'[r] = entry
       /\ \A x \in DOMAIN step : x # r => step'[x] = step[x]
  BY <1>1 DEF Scheduled
<1>12. \A x \in DOMAIN step' : Planned(req'[x], step'[x])
  <2>1. DOMAIN step \subseteq Requests
    BY <1>2, StepFields DEF Shape
  <2>2. \A x \in DOMAIN step : x # r => Planned(req'[x], step'[x])
    BY <1>2, <1>7, <1>11, <2>1 DEF InPass
  <2> QED
    BY <1>10, <1>11, <2>2
<1>13. \A x \in DOMAIN step' : \E i \in 1 .. Len(running') : i < cursor' /\ running'[i] = x
  <2>1. cursor \in Nat /\ phase = "running" /\ cursor \in 1 .. Len(running) /\ running[cursor] = r
    BY <1>1, <1>2 DEF InLoop, Shape, Current
  <2>2. \A x \in DOMAIN step : \E i \in 1 .. Len(running) : i < cursor /\ running[i] = x
    BY <1>2, <2>1 DEF InPass
  <2> QED
    BY <1>1, <1>11, <2>1, <2>2
<1>14. InPass' /\ Rows'
  BY <1>1, <1>2, <1>12, <1>13 DEF InPass, Rows, InLoop
<1> QED
  BY <1>1, <1>3, <1>7, <1>9, <1>14, OthersBalanced

LEMMA ButLast ==
  ASSUME NEW s \in Seq(Requests), Len(s) >= 1
  PROVE  /\ Len(SubSeq(s, 1, Len(s) - 1)) = Len(s) - 1
         /\ \A i \in 1 .. Len(s) - 1 : SubSeq(s, 1, Len(s) - 1)[i] = s[i]
<1>1. Len(s) \in Nat
  BY LenProperties
<1> DEFINE last == Len(s) - 1
<1>2. last \in Nat /\ 1 .. last = 1 .. Len(s) - 1
  BY <1>1
<1>3. \A i \in 1 .. last : s[i] \in Requests
  BY <1>1, ElementOfSeq
<1> HIDE DEF last
<1>4. /\ Len(SubSeq(s, 1, last)) = (IF 1 <= last THEN last - 1 + 1 ELSE 0)
      /\ \A i \in 1 .. last - 1 + 1 : SubSeq(s, 1, last)[i] = s[1 + i - 1]
  BY <1>2, <1>3, SubSeqProperties
<1>5. Len(SubSeq(s, 1, last)) = last /\ \A i \in 1 .. last : SubSeq(s, 1, last)[i] = s[i]
  BY <1>2, <1>4
<1> QED
  BY <1>2, <1>5 DEF last

(* The victim's counters start again; what is in flight becomes stale.  It *)
(* is behind the cursor of no scheduled request.                           *)
LEMMA PreemptCounters ==
  ASSUME CounterInv, PreemptLast
  PROVE  Counters'
<1> DEFINE victim == running[Len(running)]
<1>1. /\ InLoop /\ req' = [req EXCEPT ![victim] = PreemptedReq(@)]
      /\ worker' = [worker EXCEPT ![victim] = NoRow]
      /\ running' = SubSeq(running, 1, Len(running) - 1)
      /\ phase' = phase /\ cursor' = cursor /\ step' = step /\ flights' = flights
  BY DEF PreemptLast
<1>2. Shape /\ RunningListed /\ InPass /\ Rows
  BY DEF CounterInv, Counters, ServingInv
<1>3. /\ running \in Seq(Requests) /\ Len(running) \in Nat /\ cursor \in Nat
      /\ cursor \in 1 .. Len(running) /\ phase = "running"
  BY <1>1, <1>2, LenProperties DEF Shape, InLoop
<1>4. victim \in Requests /\ Listed(running, victim)
  <2>1. Len(running) \in 1 .. Len(running)
    BY <1>3
  <2> QED
    BY <1>3, <2>1, ElementOfSeq DEF Listed
<1>5. req[victim].status = "running" /\ req[victim] \in Req
  BY <1>2, <1>4 DEF RunningListed, Shape
<1>6. /\ req'[victim] = PreemptedReq(req[victim]) /\ worker'[victim] = NoRow
      /\ \A x \in Requests : x # victim => req'[x] = req[x] /\ worker'[x] = worker[x]
  <2> HIDE DEF victim
  <2> QED
    BY <1>1, <1>2, <1>4 DEF Shape, Rows
<1>7. /\ req'[victim].status = "preempted" /\ req'[victim].computed = 0
      /\ req'[victim].placeholders = 0 /\ req'[victim].spec = 0
      /\ req'[victim].inflight = req[victim].inflight
      /\ req'[victim].stale = req[victim].inflight
  <2> HIDE DEF victim
  <2> QED
    BY <1>5, <1>6 DEF PreemptedReq, StaleShare, Req
<1>8. Balanced(flights, req'[victim], worker'[victim].pos, victim)
  <2> HIDE DEF victim
  <2>1. Balanced(flights, req[victim], worker[victim].pos, victim)
    BY <1>4 DEF CounterInv, Counters
  <2>2. PICK t \in Amount :
          Owed(flights, victim, t) /\ req[victim].inflight = t.kept + t.rejected
    BY <1>5, <2>1 DEF Balanced, Ahead
  <2>3. Ahead(req'[victim], worker'[victim].pos, t)
    BY <1>7, <2>2, ManagerAssumption DEF Ahead
  <2> QED
    BY <1>7, <2>2, <2>3 DEF Balanced
<1>9. Len(running') = Len(running) - 1 /\ \A i \in 1 .. Len(running) - 1 : running'[i] = running[i]
  BY <1>1, <1>3, ButLast
<1>10. ASSUME NEW x \in DOMAIN step
       PROVE  x # victim /\ \E i \in 1 .. Len(running') : i < cursor' /\ running'[i] = x
  <2>1. PICK i \in 1 .. Len(running) : i < cursor /\ running[i] = x
    BY <1>2, <1>3 DEF InPass
  <2>2. i \in 1 .. Len(running) - 1 /\ i # Len(running) /\ Len(running) \in 1 .. Len(running)
    BY <1>3, <2>1
  <2>3. x # victim
    BY <1>2, <2>1, <2>2 DEF RunningListed, Distinct
  <2> QED
    BY <1>1, <1>9, <2>1, <2>2, <2>3
<1>11. InPass'
  <2> HIDE DEF victim
  <2>1. DOMAIN step \subseteq Requests
    BY <1>2, StepFields DEF Shape
  <2>2. \A x \in DOMAIN step : Planned(req'[x], step[x])
    BY <1>2, <1>6, <1>10, <2>1 DEF InPass
  <2> QED
    BY <1>1, <1>3, <1>10, <2>2 DEF InPass
<1>12. Rows'
  <2> HIDE DEF victim
  <2> QED
    BY <1>1, <1>2, <1>4 DEF Rows, NoRow
<1> HIDE DEF victim
<1> QED
  BY <1>1, <1>4, <1>6, <1>8, <1>11, <1>12, OthersBalanced

(* What an admitted request is given: the tokens behind its hit, or those  *)
(* of a decode padded with drafts.                                         *)
LEMMA AdmissionAtMost ==
  ASSUME Shape, NEW r \in Requests, NEW found \in Hits(r), Admissible(r, found)
  PROVE  LET drafts == IF Padded(r, found) THEN NumSpec ELSE 0
         IN  /\ AdmitTokens(r, found) \in Int /\ AdmitTokens(r, found) >= 1
             /\ AdmitTokens(r, found) <= budget
             /\ AdmitTokens(r, found) <= req[r].tokens - HitTokens(found) + drafts
             /\ Padded(r, found) =>
                  /\ AdmitTokens(r, found) = 1 + NumSpec
                  /\ req[r].tokens - HitTokens(found) = 1
<1>1. req \in [Requests -> Req] /\ budget \in Int /\ budget > 0
  BY DEF Shape, Admissible
<1>2. req[r].tokens \in Int /\ HitTokens(found) \in Int /\ NumSpec \in Nat
  BY <1>1, ReqFields, HitsType, ManagerAssumption
<1> DEFINE joins == JoinsDecodes(r, found)
           lacks == req[r].tokens - HitTokens(found)
           asked == IF joins THEN 1 + NumSpec ELSE lacks
           n == Smaller(asked, budget)
           split == AlignedSplit(r, HitTokens(found), n)
<1>3. n \in Int /\ n <= asked /\ n <= budget /\ asked \in Int
  BY <1>1, <1>2 DEF Smaller
<1>4. split \in Int /\ (split > 0 => split <= n)
  <2> HIDE DEF n
  <2> QED
    BY <1>1, <1>2, <1>3, SplitInt, SplitAtMost
<1>5. AdmitTokens(r, found) = IF joins /\ asked > budget THEN 0
                              ELSE IF joins /\ split \notin {0, asked} THEN 1
                              ELSE split
  BY DEF AdmitTokens
<1>6. AdmitTokens(r, found) \in Int /\ AdmitTokens(r, found) > 0
  BY AdmitTokensInt DEF Admissible
<1>7. joins => lacks = 1
  BY DEF JoinsDecodes
<1>8. Padded(r, found) <=> joins /\ AdmitTokens(r, found) = 1 + NumSpec
  BY DEF Padded
<1> DEFINE a == AdmitTokens(r, found)
           drafts == IF Padded(r, found) THEN NumSpec ELSE 0
<1>9. a \in Int /\ a >= 1 /\ a <= budget /\ a <= lacks + drafts
  <2> HIDE DEF split, n, joins, a
  <2>1. a \in Int /\ a >= 1
    BY <1>6 DEF a
  <2>2. CASE joins /\ split \notin {0, asked}
    <3>1. a = 1
      BY <1>5, <1>6, <2>2 DEF a
    <3> QED
      BY <1>1, <1>2, <1>7, <2>2, <3>1
  <2>3. CASE joins /\ split \in {0, asked}
    <3>1. a = split /\ split = asked /\ asked = 1 + NumSpec
      BY <1>5, <1>6, <2>3 DEF a
    <3>2. Padded(r, found)
      BY <1>8, <2>3, <3>1 DEF a
    <3> QED
      BY <1>1, <1>2, <1>3, <1>4, <1>7, <2>1, <2>3, <3>1, <3>2
  <2>4. CASE ~joins
    <3>1. a = split /\ asked = lacks /\ ~Padded(r, found)
      BY <1>5, <1>8, <2>4 DEF a
    <3> QED
      BY <1>1, <1>2, <1>3, <1>4, <2>1, <3>1
  <2> QED
    BY <2>2, <2>3, <2>4
<1> QED
  BY <1>7, <1>8, <1>9

LEMMA AdmitCounters ==
  ASSUME CounterInv, NEW r \in Requests, Admit(r)
  PROVE  Counters'
<1>1. PICK found \in Hits(r) :
        /\ Admissible(r, found)
        /\ step' = Scheduled(r, [n |-> AdmitTokens(r, found),
                                 drafts |-> IF Padded(r, found) THEN NumSpec ELSE 0,
                                 padded |-> Padded(r, found), admitted |-> TRUE])
        /\ req' = [req EXCEPT ![r].status = "running", ![r].computed = HitTokens(found)]
        /\ worker' = [worker EXCEPT ![r] =
                        [NoRow EXCEPT !.pos = HitTokens(found), !.index = Len(found)]]
  BY DEF Admit
<1> DEFINE hit == HitTokens(found)
           drafts == IF Padded(r, found) THEN NumSpec ELSE 0
           a == AdmitTokens(r, found)
           entry == [n |-> a, drafts |-> drafts, padded |-> Padded(r, found), admitted |-> TRUE]
<1>2. phase = "waiting" /\ phase' = phase /\ flights' = flights
  BY DEF Admit
<1>3. Shape /\ InPass /\ Rows /\ Balanced(flights, req[r], worker[r].pos, r)
  BY DEF CounterInv, Counters, ServingInv
<1>4. req[r] \in Req /\ hit \in Nat /\ NumSpec \in Nat /\ flights \in Seq(Partial(Output))
  BY <1>3, HitsType, ManagerAssumption DEF Shape
<1>5. req[r].status \in {"waiting", "preempted"} /\ req[r].stale = 0
  BY <1>1 DEF Admissible, MayResume
<1>6. PICK t \in Amount : Owed(flights, r, t) /\ Ahead(req[r], worker[r].pos, t)
  BY <1>3, <1>5 DEF Balanced
<1>7. t.kept = 0 /\ req[r].inflight = 0 /\ req[r].placeholders = 0 /\ req[r].spec = 0
  <2>1. /\ req[r].inflight = 0 /\ req[r].inflight = t.kept + t.rejected
        /\ req[r].placeholders = 0 /\ req[r].spec = 0
    BY <1>5, <1>6 DEF Ahead
  <2>2. t.kept \in Nat /\ t.rejected \in Nat
    BY <1>6 DEF Amount
  <2> QED
    BY <2>1, <2>2
<1>8. t = Nil
  BY <1>4, <1>6, <1>7, OwedType, LenProperties
<1>9. /\ a \in Int /\ a >= 1 /\ a <= req[r].tokens - hit + drafts
      /\ Padded(r, found) => a = 1 + NumSpec /\ req[r].tokens - hit = 1
  BY <1>1, <1>3, AdmissionAtMost
<1> HIDE DEF hit, a
<1>10. /\ req'[r] = [req[r] EXCEPT !.status = "running", !.computed = hit]
       /\ \A x \in Requests : x # r => req'[x] = req[x]
  BY <1>1, <1>3 DEF Shape, hit
<1>11. /\ worker'[r].pos = hit /\ \A x \in Requests : x # r => worker'[x] = worker[x]
       /\ Rows'
  <2>1. [NoRow EXCEPT !.pos = HitTokens(found), !.index = Len(found)].pos = hit
    BY DEF NoRow, hit
  <2> DEFINE row == [NoRow EXCEPT !.pos = HitTokens(found), !.index = Len(found)]
  <2>2. worker' = [worker EXCEPT ![r] = row] /\ row.pos = hit
    BY <1>1, <2>1
  <2> HIDE DEF row
  <2> QED
    BY <1>3, <1>4, <2>2 DEF Rows
<1>12. /\ req'[r].status = "running" /\ req'[r].computed = hit
       /\ req'[r].tokens = req[r].tokens /\ req'[r].placeholders = 0
       /\ req'[r].spec = 0 /\ req'[r].inflight = 0 /\ req'[r].stale = 0
  BY <1>4, <1>5, <1>7, <1>10 DEF Req
<1>13. req[r].tokens \in Int /\ drafts \in Nat
  BY <1>4 DEF Req
<1>14. req[r].tokens - hit >= 1 /\ Lag(req'[r]) = req[r].tokens - hit
  <2>1. req[r].tokens - hit >= 1
    BY <1>4, <1>9, <1>13
  <2> QED
    BY <1>4, <1>12, <1>13, <2>1 DEF Lag
<1>15. Balanced(flights, req'[r], worker'[r].pos, r)
  <2>1. Ahead(req'[r], worker'[r].pos, Nil)
    <3>1. hit - hit = 0 /\ 0 + 0 = 0 /\ hit >= 0 /\ 0 <= NumSpec
      BY <1>4
    <3> QED
      BY <1>11, <1>12, <1>14, <3>1, NilAmount DEF Ahead
  <2> QED
    BY <1>6, <1>8, <2>1, NilAmount DEF Balanced
<1>16. Planned(req'[r], entry)
  <2>1. /\ drafts <= NumSpec /\ drafts >= 0 /\ a <= (req[r].tokens - hit) + drafts
        /\ drafts > 0 => a = (req[r].tokens - hit) + drafts /\ req[r].tokens - hit = 1
    BY <1>4, <1>9, <1>13
  <2>2. entry.n = a /\ entry.drafts = drafts
    OBVIOUS
  <2> HIDE DEF drafts, entry
  <2> QED
    BY <1>9, <1>12, <1>14, <2>1, <2>2 DEF Planned
<1> HIDE DEF drafts
<1>17. /\ DOMAIN step' = DOMAIN step \union {r} /\ step'[r] = entry
       /\ \A x \in DOMAIN step : x # r => step'[x] = step[x]
  <2>1. step' = Scheduled(r, entry)
    BY <1>1 DEF drafts, a
  <2> HIDE DEF entry
  <2> QED
    BY <2>1 DEF Scheduled
<1> HIDE DEF entry
<1>18. InPass'
  <2>1. DOMAIN step \subseteq Requests
    BY <1>3, StepFields DEF Shape
  <2>2. \A x \in DOMAIN step : x # r => Planned(req'[x], step'[x])
    BY <1>3, <1>10, <1>17, <2>1 DEF InPass
  <2> QED
    BY <1>2, <1>16, <1>17, <2>2 DEF InPass
<1> QED
  BY <1>2, <1>10, <1>11, <1>15, <1>18, OthersBalanced

LEMMA AdvancedFields ==
  ASSUME Shape, NEW r \in DOMAIN step
  PROVE  /\ AdvancedReq(r).status = req[r].status /\ AdvancedReq(r).tokens = req[r].tokens
         /\ AdvancedReq(r).stale = req[r].stale
         /\ AdvancedReq(r).computed = req[r].computed + step[r].n
         /\ AdvancedReq(r).inflight = req[r].inflight + step[r].n
         /\ AdvancedReq(r).placeholders =
              IF IsChunk(r) THEN req[r].placeholders
              ELSE req[r].placeholders + 1 + step[r].drafts
         /\ AdvancedReq(r).spec = IF IsChunk(r) THEN req[r].spec ELSE NumSpec
<1> DEFINE q == [req[r] EXCEPT !.computed = @ + step[r].n, !.inflight = @ + step[r].n,
                               !.chunk = IsChunk(r)]
<1>1. req[r] \in Req
  BY StepFields DEF Shape
<1>2. /\ q.status = req[r].status /\ q.tokens = req[r].tokens /\ q.stale = req[r].stale
      /\ q.computed = req[r].computed + step[r].n
      /\ q.inflight = req[r].inflight + step[r].n
      /\ q.placeholders = req[r].placeholders /\ q.spec = req[r].spec
  BY <1>1 DEF Req
<1>3. DOMAIN q = DOMAIN req[r]
  OBVIOUS
<1>4. DOMAIN req[r] = {"status", "tokens", "computed", "placeholders", "spec", "inflight",
                       "stale", "chunk"}
  BY <1>1 DEF Req
<1>5. AdvancedReq(r) = IF IsChunk(r) THEN q
                       ELSE [q EXCEPT !.placeholders = @ + 1 + step[r].drafts, !.spec = NumSpec]
  BY DEF AdvancedReq
<1> HIDE DEF q
<1>6. CASE IsChunk(r)
  BY <1>2, <1>5, <1>6
<1>7. CASE ~IsChunk(r)
  BY <1>2, <1>3, <1>4, <1>5, <1>7
<1> QED
  BY <1>6, <1>7

(* The outputs of a dispatched step are proper, and its counters are ahead *)
(* of the runner's by what it may yet return.                              *)
LEMMA DispatchCounters ==
  ASSUME CounterInv, Dispatch
  PROVE  Counters'
<1>1. Shape /\ InPass /\ Rows /\ flights \in Seq(Partial(Output)) /\ DOMAIN step \subseteq Requests
  BY StepFields DEF CounterInv, Counters, ServingInv, Shape
<1>2. PICK accepted \in Acceptances :
        /\ worker' = [r \in Requests |-> IF r \in DOMAIN step THEN NextRow(r, accepted[r])
                                         ELSE worker[r]]
        /\ flights' =
             Append(flights,
                    [r \in DOMAIN step |->
                       [n |-> step[r].n, rejected |-> step[r].drafts - accepted[r],
                        sampled |-> IF IsChunk(r) THEN 0 ELSE 1 + accepted[r]]])
  BY DEF Dispatch
<1>3. /\ req' = [r \in Requests |-> IF r \in DOMAIN step THEN AdvancedReq(r) ELSE req[r]]
      /\ step' = <<>>
  BY DEF Dispatch, ResetPass
<1> DEFINE out == [r \in DOMAIN step |->
                     [n |-> step[r].n, rejected |-> step[r].drafts - accepted[r],
                      sampled |-> IF IsChunk(r) THEN 0 ELSE 1 + accepted[r]]]
<1>4. ASSUME NEW r \in DOMAIN step
      PROVE  /\ step[r].n \in Nat /\ step[r].drafts \in Nat /\ step[r].drafts < step[r].n
             /\ accepted[r] \in Nat /\ accepted[r] <= step[r].drafts
             /\ req[r].status = "running"
             /\ IF IsChunk(r) THEN step[r].drafts = 0 /\ step[r].n < Lag(req[r])
                ELSE step[r].n = Lag(req[r]) + step[r].drafts
  <2>1. step[r].n \in Int /\ step[r].drafts \in Int /\ Planned(req[r], step[r])
    BY <1>1, StepFields DEF Shape, InPass
  <2>2. accepted[r] \in 0 .. NumSpec
        /\ accepted[r] <= IF step[r].padded THEN 0 ELSE step[r].drafts
    BY DEF Acceptances
  <2>3. NumSpec \in Nat
    BY ManagerAssumption
  <2>4. r \in Requests
    BY <1>1
  <2>5. req[r].computed \in Int /\ req[r].tokens \in Int /\ req[r].placeholders \in Int
    BY <1>1, <2>4, ReqFields DEF Shape
  <2>6. /\ step[r].drafts >= 0 /\ step[r].n >= 1 /\ step[r].n <= Lag(req[r]) + step[r].drafts
        /\ step[r].drafts > 0 => step[r].n = Lag(req[r]) + step[r].drafts /\ Lag(req[r]) = 1
    BY <2>1 DEF Planned
  <2>7. Lag(req[r]) \in Int /\ (IsChunk(r) <=> step[r].n < Lag(req[r]))
    BY <2>1, <2>5 DEF Lag, IsChunk
  <2>8. /\ step[r].n \in Nat /\ step[r].drafts \in Nat /\ step[r].drafts < step[r].n
        /\ IF IsChunk(r) THEN step[r].drafts = 0 /\ step[r].n < Lag(req[r])
           ELSE step[r].n = Lag(req[r]) + step[r].drafts
    BY <2>1, <2>6, <2>7
  <2>9. accepted[r] \in Nat /\ accepted[r] <= step[r].drafts
    BY <2>2, <2>3, <2>8
  <2> QED
    BY <2>1, <2>8, <2>9 DEF Planned
<1>5. /\ Proper(out)
      /\ \A r \in DOMAIN step :
           Share(out, r) = [kept |-> step[r].n - (step[r].drafts - accepted[r]),
                            rejected |-> step[r].drafts - accepted[r],
                            sampled |-> IF IsChunk(r) THEN 0 ELSE 1 + accepted[r]]
      /\ \A r \in Requests \ DOMAIN step : Share(out, r) = Nil
  <2>1. /\ DOMAIN out = DOMAIN step
        /\ \A r \in DOMAIN step :
             /\ out[r].n = step[r].n /\ out[r].rejected = step[r].drafts - accepted[r]
             /\ out[r].sampled = IF IsChunk(r) THEN 0 ELSE 1 + accepted[r]
    OBVIOUS
  <2> HIDE DEF out
  <2>2. Proper(out)
    BY <1>4, <2>1 DEF Proper
  <2>3. \A r \in DOMAIN step :
          Share(out, r) = [kept |-> step[r].n - (step[r].drafts - accepted[r]),
                           rejected |-> step[r].drafts - accepted[r],
                           sampled |-> IF IsChunk(r) THEN 0 ELSE 1 + accepted[r]]
    BY <2>1 DEF Share
  <2> QED
    BY <2>1, <2>2, <2>3 DEF Share
<1>6. out \in Partial(Output)
  <2>1. \A r \in DOMAIN step :
          /\ step[r].n \in Int /\ step[r].drafts - accepted[r] \in Int
          /\ (IF IsChunk(r) THEN 0 ELSE 1 + accepted[r]) \in Int
    BY <1>4
  <2>2. out \in [DOMAIN step -> Output]
    BY <2>1 DEF Output
  <2> HIDE DEF out
  <2> QED
    BY <1>1, <2>2 DEF Partial
<1>7. flights' = Append(flights, out)
  BY <1>2
<1> HIDE DEF out
<1>8. \A i \in 1 .. Len(flights') : Proper(flights'[i])
  <2>1. /\ Len(flights) \in Nat /\ Len(flights') = Len(flights) + 1
        /\ flights'[Len(flights) + 1] = out
        /\ \A i \in 1 .. Len(flights) : flights'[i] = flights[i]
    BY <1>1, <1>6, <1>7, AppendProperties, LenProperties
  <2>2. \A i \in 1 .. Len(flights) : Proper(flights[i])
    BY DEF CounterInv, Counters
  <2>3. \A i \in 1 .. Len(flights) + 1 : i = Len(flights) + 1 \/ i \in 1 .. Len(flights)
    BY <2>1
  <2> QED
    BY <1>5, <2>1, <2>2, <2>3
<1>9. ASSUME NEW r \in DOMAIN step
      PROVE  worker'[r].pos = worker[r].pos + step[r].n - step[r].drafts + accepted[r]
  <2>1. r \in Requests /\ worker'[r] = NextRow(r, accepted[r])
    BY <1>1, <1>2
  <2> QED
    BY <2>1 DEF NextRow, Sure
<1>10. ASSUME NEW r \in Requests
       PROVE  Balanced(flights', req'[r], worker'[r].pos, r)
  <2>1. Balanced(flights, req[r], worker[r].pos, r)
    BY DEF CounterInv, Counters
  <2>2. \A t : Owed(flights, r, t) => Owed(flights', r, Plus(t, Share(out, r)))
    BY <1>1, <1>5, <1>6, <1>7, OwedMore
  <2>3. CASE r \notin DOMAIN step
    <3>1. req'[r] = req[r] /\ worker'[r] = worker[r] /\ Share(out, r) = Nil
      BY <1>2, <1>3, <1>5, <2>3
    <3>2. ASSUME NEW t \in Amount PROVE Plus(t, Nil) = t
      <4>1. t.kept \in Nat /\ t.rejected \in Nat /\ t.sampled \in Nat
        BY <3>2 DEF Amount
      <4>2. /\ Plus(t, Nil) \in Amount /\ Plus(t, Nil).kept = t.kept + 0
            /\ Plus(t, Nil).rejected = t.rejected + 0 /\ Plus(t, Nil).sampled = t.sampled + 0
        BY <3>2, NilAmount, PlusAmount
      <4> QED
        BY <3>2, <4>1, <4>2, AmountsEqual
    <3> QED
      BY <2>1, <2>2, <3>1, <3>2 DEF Balanced
  <2>4. CASE r \in DOMAIN step
    <3> DEFINE s == Share(out, r)
               q == AdvancedReq(r)
               a == accepted[r]
    <3>1. req[r].status = "running" /\ req'[r] = q
      BY <1>3, <1>4, <2>4
    <3>2. PICK t \in Amount : Owed(flights, r, t) /\ Ahead(req[r], worker[r].pos, t)
      BY <2>1, <3>1 DEF Balanced
    <3>3. Share(out, r) \in Amount
      BY <1>5, ShareAmount
    <3>4. /\ Plus(t, s) \in Amount
          /\ Plus(t, s).kept = t.kept + (step[r].n - (step[r].drafts - a))
          /\ Plus(t, s).rejected = t.rejected + (step[r].drafts - a)
          /\ Plus(t, s).sampled = t.sampled + (IF IsChunk(r) THEN 0 ELSE 1 + a)
      BY <1>5, <2>4, <3>2, <3>3, PlusAmount
    <3>5. /\ q.status = req[r].status /\ q.tokens = req[r].tokens /\ q.stale = req[r].stale
          /\ q.computed = req[r].computed + step[r].n
          /\ q.inflight = req[r].inflight + step[r].n
          /\ q.placeholders = IF IsChunk(r) THEN req[r].placeholders
                              ELSE req[r].placeholders + 1 + step[r].drafts
          /\ q.spec = IF IsChunk(r) THEN req[r].spec ELSE NumSpec
      BY <1>1, <2>4, AdvancedFields
    <3>6. /\ req[r].computed \in Int /\ req[r].tokens \in Int /\ req[r].placeholders \in Int
          /\ req[r].inflight \in Int /\ worker[r].pos \in Int /\ NumSpec \in Nat
      BY <1>1, ReqFields, ManagerAssumption DEF Shape, Rows
    <3>7. /\ req[r].spec >= 0 /\ req[r].spec <= NumSpec /\ req[r].stale = 0
          /\ req[r].inflight = t.kept + t.rejected
          /\ worker[r].pos >= 0 /\ t.rejected = req[r].computed - worker[r].pos
          /\ req[r].placeholders = t.sampled + t.rejected
          /\ Lag(req[r]) > 1 => req[r].placeholders = 0 /\ req[r].spec = 0
      BY <3>1, <3>2 DEF Ahead
    <3>8. t.kept \in Nat /\ t.rejected \in Nat /\ t.sampled \in Nat
      BY <3>2 DEF Amount
    <3> DEFINE p == worker'[r].pos
    <3>9. p = worker[r].pos + step[r].n - step[r].drafts + a
      BY <1>9, <2>4
    <3> HIDE DEF q, s, a, p
    <3>10. a \in Nat /\ a <= step[r].drafts
      BY <1>4, <2>4 DEF a
    <3>11. Plus(t, s).rejected = q.computed - p /\ p >= 0
      <4>1. /\ step[r].n \in Int /\ step[r].drafts \in Int /\ a \in Int
            /\ step[r].n >= step[r].drafts /\ a >= 0
        BY <1>4, <2>4, <3>10
      <4>2. p >= 0
        BY <3>6, <3>7, <3>9, <4>1
      <4>3. Plus(t, s).rejected = (req[r].computed - worker[r].pos) + (step[r].drafts - a)
        BY <3>4, <3>7
      <4>4. q.computed - p
              = (req[r].computed + step[r].n) - (worker[r].pos + step[r].n - step[r].drafts + a)
        BY <3>5, <3>9
      <4> QED
        BY <3>6, <4>1, <4>2, <4>3, <4>4
    <3>12. /\ q.inflight = Plus(t, s).kept + Plus(t, s).rejected
           /\ q.placeholders = Plus(t, s).sampled + Plus(t, s).rejected
           /\ q.spec >= 0 /\ q.spec <= NumSpec
      <4>1. q.inflight = Plus(t, s).kept + Plus(t, s).rejected
        <5>1. step[r].n \in Int /\ step[r].drafts \in Int
          BY <1>4, <2>4
        <5>2. q.inflight = (t.kept + t.rejected) + step[r].n
          BY <3>5, <3>7
        <5>3. Plus(t, s).kept + Plus(t, s).rejected
                = (t.kept + (step[r].n - (step[r].drafts - a))) + (t.rejected + (step[r].drafts - a))
          BY <3>4
        <5> QED
          BY <3>8, <3>10, <5>1, <5>2, <5>3
      <4>2. q.placeholders = Plus(t, s).sampled + Plus(t, s).rejected
        <5>1. CASE IsChunk(r)
          BY <1>4, <2>4, <3>4, <3>5, <3>7, <3>8, <3>10, <5>1
        <5>2. CASE ~IsChunk(r)
          BY <1>4, <2>4, <3>4, <3>5, <3>7, <3>8, <3>10, <5>2
        <5> QED
          BY <5>1, <5>2
      <4> QED
        BY <3>5, <3>6, <3>7, <4>1, <4>2
    <3>13. Lag(q) >= 1 /\ (Lag(q) > 1 => q.placeholders = 0 /\ q.spec = 0)
      <4>1. Lag(req[r]) \in Int /\ Lag(q) \in Int
            /\ Lag(q) = (Lag(req[r]) - step[r].n) + (IF IsChunk(r) THEN 0 ELSE 1 + step[r].drafts)
        BY <1>4, <2>4, <3>5, <3>6 DEF Lag
      <4>2. CASE IsChunk(r)
        <5>1. Lag(req[r]) > 1 /\ Lag(q) >= 1
          BY <1>4, <2>4, <4>1, <4>2
        <5> QED
          BY <3>5, <3>7, <4>2, <5>1
      <4>3. CASE ~IsChunk(r)
        <5>1. Lag(q) = 1
          BY <1>4, <2>4, <4>1, <4>3
        <5> QED
          BY <5>1
      <4> QED
        BY <4>2, <4>3
    <3>14. q.status = "running" /\ q.stale = 0
      BY <3>1, <3>5, <3>7
    <3>15. Ahead(q, p, Plus(t, s))
      BY <3>11, <3>12, <3>13, <3>14 DEF Ahead
    <3> QED
      BY <2>2, <3>1, <3>2, <3>4, <3>15 DEF Balanced, s, p
  <2> QED
    BY <2>3, <2>4
<1>11. Rows'
  <2>1. ASSUME NEW r \in DOMAIN step PROVE worker'[r].pos \in Int
    <3>1. worker[r].pos \in Int
      BY <1>1 DEF Rows
    <3> QED
      BY <1>4, <1>9, <3>1
  <2>2. worker' = [r \in Requests |-> worker'[r]]
    BY <1>2
  <2>3. \A r \in Requests : r \notin DOMAIN step => worker'[r] = worker[r]
    BY <1>2
  <2> QED
    BY <1>1, <2>1, <2>2, <2>3 DEF Rows
<1>12. InPass'
  BY <1>3 DEF InPass
<1> QED
  BY <1>8, <1>10, <1>11, <1>12 DEF Counters

-----------------------------------------------------------------------------
(* One request's output is taken out of the oldest step: what it owed to   *)
(* that request is paid, what it owes to others stays.                     *)
LEMMA OutputPaid ==
  ASSUME Shape, NEW r \in Requests, NextOutput(r),
         \A i \in 1 .. Len(flights) : Proper(flights[i])
  PROVE  /\ \A i \in 1 .. Len(flights') : Proper(flights'[i])
         /\ Proper(Head(flights)) /\ Share(Head(flights), r) \in Amount
         /\ \A t \in Amount : Owed(flights, r, t) =>
              /\ AtMost(Share(Head(flights), r), t)
              /\ Owed(flights', r, Minus(t, Share(Head(flights), r)))
         /\ \A x \in Requests \ {r} : \A t \in Amount :
              Owed(flights, x, t) => Owed(flights', x, t)
<1> DEFINE f == Head(flights)
           gs == Tail(flights)
           rest == RestOfStep(r)
<1>1. flights \in Seq(Partial(Output)) /\ flights # <<>> /\ r \in DOMAIN f
  BY DEF Shape, NextOutput
<1>2. /\ f \in Partial(Output) /\ gs \in Seq(Partial(Output)) /\ f = flights[1]
      /\ Len(flights) \in Nat \ {0} /\ Len(gs) = Len(flights) - 1
      /\ \A i \in 1 .. Len(flights) - 1 : gs[i] = flights[i + 1]
  BY <1>1, HeadTailProperties, LenProperties, EmptySeq
<1>3. Proper(f) /\ \A i \in 1 .. Len(gs) : Proper(gs[i])
  <2>1. \A i \in 1 .. Len(gs) : i + 1 \in 1 .. Len(flights)
    BY <1>2
  <2>2. 1 \in 1 .. Len(flights)
    BY <1>2
  <2> QED
    BY <1>2, <2>1, <2>2
<1>4. /\ DOMAIN rest = DOMAIN f \ {r} /\ \A x \in DOMAIN f \ {r} : rest[x] = f[x]
  BY DEF RestOfStep
<1>5. rest \in Partial(Output)
  <2>1. PICK D \in SUBSET Requests : f \in [D -> Output]
    BY <1>2 DEF Partial
  <2>2. rest \in [D \ {r} -> Output]
    BY <2>1 DEF RestOfStep
  <2> QED
    BY <2>2 DEF Partial
<1>6. \/ DOMAIN rest = {} /\ flights' = gs
      \/ DOMAIN rest # {} /\ flights' = <<rest>> \o gs
  BY DEF NextOutput
<1> HIDE DEF f, gs, rest
<1>7. Proper(rest) /\ Share(rest, r) = Nil /\ \A x \in Requests \ {r} : Share(rest, x) = Share(f, x)
  BY <1>3, <1>4 DEF Proper, Share
<1>8. \A x : Share(f, x) \in Amount
  BY <1>3, ShareAmount
<1>9. \A i \in 1 .. Len(flights') : Proper(flights'[i])
  <2>1. CASE flights' = gs
    BY <1>3, <2>1
  <2>2. CASE flights' = <<rest>> \o gs
    <3>1. /\ Len(flights') = Len(gs) + 1 /\ flights'[1] = rest /\ Len(gs) \in Nat
          /\ \A i \in 2 .. Len(gs) + 1 : flights'[i] = gs[i - 1]
      BY <1>2, <1>5, <2>2
    <3>2. \A i \in 2 .. Len(gs) + 1 : i - 1 \in 1 .. Len(gs)
      BY <3>1
    <3>3. \A i \in 1 .. Len(gs) + 1 : i = 1 \/ i \in 2 .. Len(gs) + 1
      BY <3>1
    <3> QED
      BY <1>3, <1>7, <3>1, <3>2, <3>3
  <2> QED
    BY <1>6, <2>1, <2>2
<1>10. ASSUME NEW x \in Requests, NEW t \in Amount, Owed(flights, x, t)
       PROVE  /\ AtMost(Share(f, x), t) /\ Minus(t, Share(f, x)) \in Amount
              /\ Owed(gs, x, Minus(t, Share(f, x)))
              /\ Owed(<<rest>> \o gs, x, Plus(Share(rest, x), Minus(t, Share(f, x))))
  <2>1. AtMost(Share(f, x), t) /\ Owed(gs, x, Minus(t, Share(f, x)))
    BY <1>1, <1>10, OwedRest DEF f, gs
  <2>2. Minus(t, Share(f, x)) \in Amount
    BY <1>8, <1>10, <2>1, MinusAmount
  <2> QED
    BY <1>2, <1>5, <1>7, <2>1, <2>2, OwedFirst
<1>11. ASSUME NEW t \in Amount, NEW s \in Amount, AtMost(s, t)
       PROVE  /\ Plus(Nil, Minus(t, s)) = Minus(t, s) /\ Plus(s, Minus(t, s)) = t
              /\ Minus(t, Nil) = t
  <2>1. /\ t.kept \in Nat /\ t.rejected \in Nat /\ t.sampled \in Nat
        /\ s.kept \in Nat /\ s.rejected \in Nat /\ s.sampled \in Nat
    BY <1>11 DEF Amount
  <2>2. t = [kept |-> t.kept, rejected |-> t.rejected, sampled |-> t.sampled]
    BY <1>11 DEF Amount
  <2> QED
    BY <2>1, <2>2 DEF Plus, Minus, Nil
<1>12. ASSUME NEW t \in Amount, Owed(flights, r, t)
       PROVE  AtMost(Share(f, r), t) /\ Owed(flights', r, Minus(t, Share(f, r)))
  <2>1. CASE flights' = gs
    BY <1>10, <1>12, <2>1
  <2>2. CASE flights' = <<rest>> \o gs
    <3>1. Owed(flights', r, Plus(Nil, Minus(t, Share(f, r)))) /\ AtMost(Share(f, r), t)
      BY <1>7, <1>10, <1>12, <2>2
    <3> QED
      BY <1>8, <1>11, <3>1
  <2> QED
    BY <1>6, <2>1, <2>2
<1>13. ASSUME NEW x \in Requests \ {r}, NEW t \in Amount, Owed(flights, x, t)
       PROVE  Owed(flights', x, t)
  <2>1. /\ AtMost(Share(f, x), t) /\ Owed(gs, x, Minus(t, Share(f, x)))
        /\ Owed(<<rest>> \o gs, x, Plus(Share(rest, x), Minus(t, Share(f, x))))
    BY <1>10, <1>13
  <2>2. Minus(t, Nil) = t /\ Plus(Share(f, x), Minus(t, Share(f, x))) = t
    BY <1>8, <1>11, <2>1
  <2>3. CASE DOMAIN rest = {} /\ flights' = gs
    <3>1. Share(f, x) = Nil
      BY <1>4, <1>13, <2>3 DEF Share
    <3> QED
      BY <2>1, <2>2, <2>3, <3>1
  <2>4. CASE flights' = <<rest>> \o gs
    BY <1>7, <1>13, <2>1, <2>2, <2>4
  <2> QED
    BY <1>6, <2>3, <2>4
<1> QED
  BY <1>3, <1>8, <1>9, <1>12, <1>13 DEF f

LEMMA DrainedFields ==
  ASSUME NEW q \in Req, NEW out
  PROVE  /\ DrainedReq(q, out).status = q.status /\ DrainedReq(q, out).tokens = q.tokens
         /\ DrainedReq(q, out).spec = q.spec
         /\ DrainedReq(q, out).inflight = q.inflight - out.n
         /\ DrainedReq(q, out).stale = (IF q.stale > 0 THEN q.stale - out.n ELSE 0)
         /\ DrainedReq(q, out).computed =
              (IF q.stale = 0 /\ q.computed > 0 THEN q.computed - out.rejected ELSE q.computed)
         /\ DrainedReq(q, out).placeholders =
              (IF q.stale = 0 /\ q.placeholders > 0 THEN q.placeholders - out.rejected
               ELSE q.placeholders)
         /\ DOMAIN DrainedReq(q, out) = DOMAIN q
<1> DEFINE d == [q EXCEPT !.inflight = @ - out.n, !.stale = IF @ > 0 THEN @ - out.n ELSE 0]
           e == [d EXCEPT !.computed = IF @ > 0 THEN @ - out.rejected ELSE @,
                          !.placeholders = IF @ > 0 THEN @ - out.rejected ELSE @]
<1>1. /\ d.status = q.status /\ d.tokens = q.tokens /\ d.spec = q.spec
      /\ d.inflight = q.inflight - out.n
      /\ d.stale = (IF q.stale > 0 THEN q.stale - out.n ELSE 0)
      /\ d.computed = q.computed /\ d.placeholders = q.placeholders /\ DOMAIN d = DOMAIN q
  BY DEF Req
<1>2. DOMAIN q = {"status", "tokens", "computed", "placeholders", "spec", "inflight", "stale",
                  "chunk"}
  BY DEF Req
<1>3. DrainedReq(q, out) = IF ~RollBack(q) THEN d ELSE e
  BY DEF DrainedReq
<1> HIDE DEF d
<1>4. /\ e.status = d.status /\ e.tokens = d.tokens /\ e.spec = d.spec
      /\ e.inflight = d.inflight /\ e.stale = d.stale
      /\ e.computed = (IF d.computed > 0 THEN d.computed - out.rejected ELSE d.computed)
      /\ e.placeholders = (IF d.placeholders > 0 THEN d.placeholders - out.rejected
                           ELSE d.placeholders)
      /\ DOMAIN e = DOMAIN d
  BY <1>1, <1>2
<1> HIDE DEF e
<1>5. CASE RollBack(q)
  BY <1>1, <1>3, <1>4, <1>5 DEF RollBack
<1>6. CASE ~RollBack(q)
  BY <1>1, <1>3, <1>6 DEF RollBack
<1> QED
  BY <1>5, <1>6

(* A request's output, taken from its counters: the drafts it rejected are *)
(* taken back of a running request and of no preempted one, whose output   *)
(* is stale.                                                               *)
LEMMA OutputAhead ==
  ASSUME NEW q \in Req, q.status # "finished", NEW f, NEW r \in DOMAIN f, Proper(f),
         NEW pos \in Int, NEW t \in Amount, Ahead(q, pos, t), AtMost(Share(f, r), t),
         NEW d \in Req, NEW k \in Nat,
         d.status = q.status, d.spec = q.spec, d.tokens = DrainedReq(q, f[r]).tokens + k,
         d.inflight = DrainedReq(q, f[r]).inflight, d.stale = DrainedReq(q, f[r]).stale,
         d.computed = DrainedReq(q, f[r]).computed,
         d.placeholders = DrainedReq(q, f[r]).placeholders - (IF q.stale > 0 THEN 0 ELSE k),
         q.stale = 0 => k = f[r].sampled
  PROVE  Ahead(d, pos, Minus(t, Share(f, r)))
<1> DEFINE s == Share(f, r)
           out == f[r]
<1>1. /\ out.n \in Nat /\ out.rejected \in Nat /\ out.sampled \in Nat /\ out.rejected < out.n
      /\ out.sampled = 0 => out.rejected = 0
  BY DEF Proper
<1>2. s = [kept |-> out.n - out.rejected, rejected |-> out.rejected, sampled |-> out.sampled]
  BY DEF Share
<1>3. /\ s \in Amount /\ s.kept = out.n - out.rejected /\ s.rejected = out.rejected
      /\ s.sampled = out.sampled
  BY ShareAmount, <1>2
<1>4. /\ Minus(t, s).kept = t.kept - (out.n - out.rejected)
      /\ Minus(t, s).rejected = t.rejected - out.rejected
      /\ Minus(t, s).sampled = t.sampled - out.sampled
      /\ out.n - out.rejected <= t.kept /\ out.rejected <= t.rejected /\ out.sampled <= t.sampled
  BY <1>3, MinusAmount DEF AtMost
<1>5. t.kept \in Nat /\ t.rejected \in Nat /\ t.sampled \in Nat
  BY DEF Amount
<1>6. /\ q.tokens \in Int /\ q.computed \in Int /\ q.placeholders \in Int /\ q.spec \in Int
      /\ q.inflight \in Int /\ q.stale \in Int /\ q.status \in Statuses
  BY DEF Req
<1>7. /\ DrainedReq(q, out).tokens = q.tokens
      /\ DrainedReq(q, out).inflight = q.inflight - out.n
      /\ DrainedReq(q, out).stale = (IF q.stale > 0 THEN q.stale - out.n ELSE 0)
      /\ DrainedReq(q, out).computed =
           (IF q.stale = 0 /\ q.computed > 0 THEN q.computed - out.rejected ELSE q.computed)
      /\ DrainedReq(q, out).placeholders =
           (IF q.stale = 0 /\ q.placeholders > 0 THEN q.placeholders - out.rejected
            ELSE q.placeholders)
  BY DrainedFields
<1> HIDE DEF s, out
<1>8. /\ d.status = q.status /\ d.spec = q.spec /\ d.tokens = q.tokens + k
      /\ d.inflight = q.inflight - out.n
      /\ d.stale = (IF q.stale > 0 THEN q.stale - out.n ELSE 0)
      /\ d.computed =
           (IF q.stale = 0 /\ q.computed > 0 THEN q.computed - out.rejected ELSE q.computed)
      /\ d.placeholders =
           (IF q.stale = 0 /\ q.placeholders > 0 THEN q.placeholders - out.rejected
            ELSE q.placeholders) - (IF q.stale > 0 THEN 0 ELSE k)
      /\ q.stale = 0 => k = out.sampled
  BY <1>7 DEF out
<1>9. q.spec >= 0 /\ q.spec <= NumSpec /\ q.inflight = t.kept + t.rejected
  BY DEF Ahead
<1>10. /\ q.status \notin {"new", "waiting"} /\ q.inflight > 0
       /\ d.inflight = Minus(t, s).kept + Minus(t, s).rejected
  <2>1. q.inflight > 0 /\ d.inflight = Minus(t, s).kept + Minus(t, s).rejected
    BY <1>1, <1>4, <1>5, <1>8, <1>9
  <2> QED
    BY <2>1 DEF Ahead
<1>11. CASE q.status = "running"
  <2>1. /\ q.stale = 0 /\ pos >= 0
        /\ t.rejected = q.computed - pos /\ q.placeholders = t.sampled + t.rejected
        /\ Lag(q) >= 1 /\ (Lag(q) > 1 => q.placeholders = 0 /\ q.spec = 0)
    BY <1>11 DEF Ahead
  <2>2. d.computed = q.computed - out.rejected
    BY <1>1, <1>4, <1>5, <1>6, <1>8, <2>1
  <2>3. d.placeholders = q.placeholders - out.rejected - k /\ k = out.sampled
    BY <1>1, <1>4, <1>5, <1>6, <1>8, <2>1
  <2>4. d.stale = 0
    BY <1>8, <2>1
  <2>5. /\ Minus(t, s).rejected = d.computed - pos
        /\ d.placeholders = Minus(t, s).sampled + Minus(t, s).rejected
    BY <1>1, <1>4, <1>5, <1>6, <2>1, <2>2, <2>3
  <2>6. Lag(d) = Lag(q)
    BY <1>1, <1>6, <1>8, <2>2, <2>3 DEF Lag
  <2>7. q.placeholders = 0 => d.placeholders = 0
    <3> SUFFICES ASSUME q.placeholders = 0 PROVE d.placeholders = 0
      OBVIOUS
    <3>1. t.sampled = 0 /\ t.rejected = 0
      BY <1>5, <2>1
    <3>2. out.rejected = 0 /\ out.sampled = 0
      BY <1>1, <1>4, <3>1
    <3>3. k = 0
      BY <2>3, <3>2
    <3>4. \A x, y, z \in Int : x = 0 /\ y = 0 /\ z = 0 => x - y - z = 0
      OBVIOUS
    <3>5. q.placeholders - out.rejected - k = 0
      BY <1>1, <1>6, <3>2, <3>3, <3>4
    <3> QED
      BY <2>3, <3>5
  <2> QED
    BY <1>8, <1>9, <1>10, <1>11, <2>1, <2>4, <2>5, <2>6, <2>7 DEF Ahead, s
<1>12. CASE q.status = "preempted"
  <2>1. q.placeholders = 0 /\ q.computed = 0 /\ q.spec = 0 /\ q.stale = q.inflight
    BY <1>12 DEF Ahead
  <2>2. q.stale > 0
    BY <1>10, <2>1
  <2>3. d.stale = q.stale - out.n /\ d.computed = 0 /\ d.placeholders = 0
    BY <1>6, <1>8, <2>1, <2>2
  <2>4. d.stale = d.inflight
    BY <1>8, <2>1, <2>3
  <2> QED
    BY <1>8, <1>9, <1>10, <1>12, <2>1, <2>3, <2>4 DEF Ahead, s
<1> QED
  BY <1>6, <1>10, <1>11, <1>12 DEF Statuses

(* The others keep what they are owed; so the one whose output is taken    *)
(* decides.                                                                *)
LEMMA OutputCounters ==
  ASSUME CounterInv, NEW r \in Requests, NextOutput(r), UNCHANGED step, Rows',
         \A x \in Requests : x # r => req'[x] = req[x] /\ worker'[x] = worker[x],
         Balanced(flights', req'[r], worker'[r].pos, r)
  PROVE  Counters'
<1>1. Shape /\ \A i \in 1 .. Len(flights) : Proper(flights[i])
  BY DEF CounterInv, Counters, ServingInv
<1>2. /\ \A i \in 1 .. Len(flights') : Proper(flights'[i])
      /\ \A x \in Requests \ {r} : \A t \in Amount : Owed(flights, x, t) => Owed(flights', x, t)
  BY <1>1, OutputPaid
<1>3. \A x \in Requests : Balanced(flights, req[x], worker[x].pos, x)
  BY DEF CounterInv, Counters
<1>4. ASSUME NEW x \in Requests PROVE Balanced(flights', req'[x], worker'[x].pos, x)
  BY <1>2, <1>3 DEF Balanced
<1>5. InPass'
  <2>1. DOMAIN step = {}
    BY DEF NextOutput, CounterInv, Counters, InPass
  <2> QED
    BY <2>1 DEF InPass
<1> QED
  BY <1>2, <1>4, <1>5 DEF Counters

LEMMA UpdateGoneCounters ==
  ASSUME CounterInv, NEW r \in Requests, UpdateGone(r)
  PROVE  Counters'
<1>1. NextOutput(r) /\ req' = req /\ worker' = worker /\ step' = step /\ req[r].status = "finished"
  BY DEF UpdateGone, passVars
<1>2. Balanced(flights', req'[r], worker'[r].pos, r)
  BY <1>1 DEF Balanced
<1>3. Rows'
  BY <1>1 DEF CounterInv, Counters, Rows
<1> QED
  BY <1>1, <1>2, <1>3, OutputCounters

LEMMA UpdateChunkCounters ==
  ASSUME CounterInv, NEW r \in Requests, UpdateChunk(r)
  PROVE  Counters'
<1> DEFINE f == Head(flights)
           d == DrainedReq(req[r], f[r])
<1>1. /\ NextOutput(r) /\ req' = [req EXCEPT ![r] = DrainedReq(@, f[r])]
      /\ worker' = worker /\ step' = step
      /\ req[r].status # "finished" /\ f[r].sampled = 0 /\ r \in DOMAIN f
  BY DEF UpdateChunk, passVars, NextOutput
<1>2. /\ Shape /\ req \in [Requests -> Req] /\ req[r] \in Req /\ worker[r].pos \in Int
      /\ Balanced(flights, req[r], worker[r].pos, r)
      /\ \A i \in 1 .. Len(flights) : Proper(flights[i])
  BY DEF CounterInv, Counters, ServingInv, Shape, Rows
<1>3. req'[r] = d /\ \A x \in Requests : x # r => req'[x] = req[x]
  BY <1>1, <1>2
<1>4. Proper(f) /\ \A t \in Amount : Owed(flights, r, t) =>
                      AtMost(Share(f, r), t) /\ Owed(flights', r, Minus(t, Share(f, r)))
                        /\ Share(f, r) \in Amount
  BY <1>1, <1>2, OutputPaid
<1>5. PICK t \in Amount : Owed(flights, r, t) /\ Ahead(req[r], worker[r].pos, t)
  BY <1>1, <1>2 DEF Balanced
<1>6. d \in Req /\ d.status = req[r].status /\ d.spec = req[r].spec
  BY <1>1, <1>2, OutputType, DrainedType, DrainedFields
<1>7. d.tokens \in Int /\ d.placeholders \in Int
  BY <1>6 DEF Req
<1>8. Minus(t, Share(f, r)) \in Amount
  BY <1>4, <1>5, MinusAmount
<1>9. Ahead(d, worker[r].pos, Minus(t, Share(f, r)))
  <2> DEFINE k == 0
  <2>1. /\ d.tokens = d.tokens + k /\ k \in Nat
        /\ d.placeholders = d.placeholders - (IF req[r].stale > 0 THEN 0 ELSE k)
        /\ req[r].stale = 0 => k = f[r].sampled
    BY <1>1, <1>7
  <2> HIDE DEF k, f
  <2> QED
    BY <1>1, <1>2, <1>4, <1>5, <1>6, <2>1, OutputAhead
<1>10. Balanced(flights', req'[r], worker'[r].pos, r)
  BY <1>1, <1>3, <1>4, <1>5, <1>8, <1>9 DEF Balanced
<1>11. Rows'
  BY <1>1 DEF CounterInv, Counters, Rows
<1> QED
  BY <1>1, <1>3, <1>10, <1>11, OutputCounters

LEMMA UpdateTokensCounters ==
  ASSUME CounterInv, NEW r \in Requests, UpdateTokens(r)
  PROVE  Counters'
<1> DEFINE f == Head(flights)
           d == DrainedReq(req[r], f[r])
           room == Prompt[r] + MaxNew - req[r].tokens
           after(k) == [d EXCEPT !.tokens = @ + k,
                                 !.placeholders = IF req[r].stale > 0 THEN @ ELSE @ - k]
<1>1. /\ NextOutput(r) /\ step' = step
      /\ req[r].status # "finished" /\ f[r].sampled > 0 /\ r \in DOMAIN f
  BY DEF UpdateTokens, passVars, NextOutput
<1>2. PICK k \in 1 .. Smaller(f[r].sampled, room), eos \in BOOLEAN :
        /\ k < Smaller(f[r].sampled, room) => eos
        /\ IF eos \/ k = room
             THEN /\ req' = [req EXCEPT ![r] = [NewReq EXCEPT !.status = "finished"]]
                  /\ worker' = [worker EXCEPT ![r] = NoRow]
             ELSE req' = [req EXCEPT ![r] = after(k)] /\ worker' = worker
  BY DEF UpdateTokens
<1>3. /\ Shape /\ Rows /\ req \in [Requests -> Req] /\ req[r] \in Req /\ worker[r].pos \in Int
      /\ Balanced(flights, req[r], worker[r].pos, r)
      /\ \A i \in 1 .. Len(flights) : Proper(flights[i])
  BY DEF CounterInv, Counters, ServingInv, Shape, Rows
<1>4. Proper(f) /\ \A t \in Amount : Owed(flights, r, t) =>
                      AtMost(Share(f, r), t) /\ Owed(flights', r, Minus(t, Share(f, r)))
                        /\ Share(f, r) \in Amount
  BY <1>1, <1>3, OutputPaid
<1>5. CASE eos \/ k = room
  <2>1. /\ req'[r].status = "finished"
        /\ \A x \in Requests : x # r => req'[x] = req[x] /\ worker'[x] = worker[x]
    BY <1>2, <1>3, <1>5 DEF NewReq, Rows
  <2>2. Rows'
    BY <1>2, <1>3, <1>5 DEF Rows, NoRow
  <2> QED
    BY <1>1, <2>1, <2>2, OutputCounters DEF Balanced
<1>6. CASE ~(eos \/ k = room)
  <2>1. PICK t \in Amount : Owed(flights, r, t) /\ Ahead(req[r], worker[r].pos, t)
    BY <1>1, <1>3 DEF Balanced
  <2>2. /\ d \in Req /\ d.status = req[r].status /\ d.spec = req[r].spec
        /\ d.tokens \in Int /\ d.placeholders \in Int
    <3>1. d \in Req /\ d.status = req[r].status /\ d.spec = req[r].spec
      BY <1>1, <1>3, OutputType, DrainedType, DrainedFields
    <3> QED
      BY <3>1 DEF Req
  <2>3. f[r].sampled \in Nat /\ room \in Int /\ k \in Nat /\ k = f[r].sampled
    <3>1. f[r].sampled \in Nat
      BY <1>1, <1>4 DEF Proper
    <3>2. Prompt[r] \in Int /\ MaxNew \in Int /\ req[r].tokens \in Int
      BY <1>3, ServingAssumption DEF Req
    <3>3. room \in Int
      BY <3>2
    <3> HIDE DEF f, room
    <3> QED
      BY <1>2, <1>6, <3>1, <3>3 DEF Smaller
  <2>4. req' = [req EXCEPT ![r] = after(k)] /\ worker' = worker
    BY <1>2, <1>6
  <2> DEFINE p == IF req[r].stale > 0 THEN d.placeholders ELSE d.placeholders - k
             q1 == [d EXCEPT !.tokens = d.tokens + k]
             q == [q1 EXCEPT !.placeholders = p]
  <2>5. after(k) = q
    <3> HIDE DEF d
    <3> QED
      BY <2>2 DEF Req
  <2> HIDE DEF d, after
  <2>6. q1 \in Req /\ q1.tokens = d.tokens + k
        /\ q1.status = d.status /\ q1.spec = d.spec /\ q1.inflight = d.inflight
        /\ q1.stale = d.stale /\ q1.computed = d.computed
    BY <2>2, <2>3 DEF Req
  <2> HIDE DEF q1
  <2>7. /\ q \in Req /\ q.tokens = d.tokens + k /\ q.placeholders = p
        /\ q.status = d.status /\ q.spec = d.spec /\ q.inflight = d.inflight
        /\ q.stale = d.stale /\ q.computed = d.computed
    BY <2>2, <2>3, <2>6 DEF Req
  <2>8. p = d.placeholders - (IF req[r].stale > 0 THEN 0 ELSE k)
    BY <2>2, <2>3
  <2> HIDE DEF q, p
  <2>9. Ahead(q, worker[r].pos, Minus(t, Share(f, r)))
    <3> HIDE DEF f
    <3> QED
      BY <1>1, <1>3, <1>4, <2>1, <2>2, <2>3, <2>7, <2>8, OutputAhead DEF d
  <2>10. Minus(t, Share(f, r)) \in Amount
    BY <1>4, <2>1, MinusAmount
  <2>11. req'[r] = q /\ \A x \in Requests : x # r => req'[x] = req[x]
    BY <1>3, <2>4, <2>5
  <2>12. Balanced(flights', req'[r], worker'[r].pos, r)
    BY <1>4, <2>1, <2>4, <2>9, <2>10, <2>11 DEF Balanced
  <2>13. Rows'
    BY <1>3, <2>4 DEF Rows
  <2> QED
    BY <1>1, <2>4, <2>11, <2>12, <2>13, OutputCounters
<1> QED
  BY <1>5, <1>6

LEMMA StepCounters ==
  ASSUME CounterInv, [Next]_vars
  PROVE  Counters'
<1>1. CASE Pass
  BY <1>1, QuietCounters, GrowCounters, PreemptCounters, AdmitCounters, DispatchCounters
     DEF Pass
<1>2. ASSUME NEW r \in Requests, Arrive(r) \/ Abort(r) \/ Update(r)
      PROVE  Counters'
  BY <1>2, ArriveCounters, AbortCounters, UpdateGoneCounters, UpdateChunkCounters,
     UpdateTokensCounters DEF Update
<1> QED
  BY <1>1, <1>2, QuietCounters DEF Next

LEMMA CountersInvariant == Spec => []CounterInv
<1>1. Init => CounterInv
  BY InitServing, InitCounters DEF CounterInv
<1>2. CounterInv /\ [Next]_vars => CounterInv'
  BY StepServing, StepCounters DEF CounterInv
<1> QED
  BY <1>1, <1>2, PTL DEF Spec

(* However drafts are rejected, steps overlap, and requests are preempted  *)
(* with output in flight and resumed: when nothing of a running request is *)
(* in flight, the scheduler has counted what the runner has computed, and  *)
(* waits for no sampled token.                                             *)
THEOREM CountersAlwaysAgree == Spec => []CountersAgree
<1>1. ASSUME CounterInv PROVE CountersAgree
  <2> SUFFICES ASSUME NEW r \in Requests, req[r].status = "running", req[r].inflight = 0
               PROVE  worker[r].pos = req[r].computed /\ req[r].placeholders = 0
    BY DEF CountersAgree
  <2>1. Balanced(flights, req[r], worker[r].pos, r)
    BY <1>1 DEF CounterInv, Counters
  <2>2. PICK t \in Amount : Owed(flights, r, t) /\ Ahead(req[r], worker[r].pos, t)
    BY <2>1 DEF Balanced
  <2>3. Len(flights) \in Nat
    BY <1>1, LenProperties DEF CounterInv, ServingInv, Shape
  <2>4. t = Nil
    <3>1. t.kept \in Nat /\ t.rejected \in Nat /\ t.kept + t.rejected = 0
      BY <2>2 DEF Ahead, Amount
    <3>2. t.kept = 0
      BY <3>1
    <3> QED
      BY <2>2, <2>3, <3>2, OwedType
  <2>5. req[r].computed \in Int /\ worker[r].pos \in Int
    BY <1>1, ReqFields DEF CounterInv, Counters, Rows, ServingInv, Shape
  <2> QED
    BY <2>2, <2>4, <2>5, NilAmount DEF Ahead
<1> QED
  BY <1>1, CountersInvariant, PTL
=============================================================================
