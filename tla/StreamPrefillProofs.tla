------------------------- MODULE StreamPrefillProofs -------------------------
(***************************************************************************)
(* Proofs about streamed prefill (stream_v2.py): it implements             *)
(* StreamForward, and the tail reader never overwrites a bounce buffer     *)
(* that a DMA is still to read, for any number of layers, arena groups of  *)
(* a layer, bounce buffers and steps, with or without tail experts.        *)
(*                                                                         *)
(* Each part of the invariant is about one of the things that must agree:  *)
(*   Streams      the queues of the streams and the event counters;        *)
(*   Sequenced    the compute stream: its groups follow each other, each   *)
(*                under the map of its own step, which its host buffer     *)
(*                still holds;                                             *)
(*   ArenaFilled  the raw buffers: a group's copy is on its way to the     *)
(*                buffer or was the last one made to it;                   *)
(*   TailsFilled  the same of the raw tail buffer;                         *)
(*   Requested    the reader: what it has been asked for and has read,     *)
(*                in the order of the layers (with NotYet);                *)
(*   Bounced      the bounce buffers: each holds its owner's layer, and    *)
(*                the DMA out of it is one the reader waits for.           *)
(***************************************************************************)
EXTENDS StreamPrefill, TLAPS

(* Operations as the host builds them.                                     *)
Kinds == {"map", "group", "tailGroup", "fill", "tail"}
Ops == [kind : Kinds, buf : Nat, key : Int, after : Events, until : Nat,
        signal : Events, nth : Nat]
MapOp(o) ==
  /\ o.kind = "map" /\ o.buf \in {0, 1} /\ o.buf = o.key % 2 /\ o.key \in Nat
  /\ o.after = <<"map", 0>> /\ o.until = 0
  /\ o.signal = <<"map", o.buf>> /\ o.nth = o.key
GroupOp(o) ==
  /\ o.kind = "group" /\ o.buf \in {0, 1}
  /\ o.after = <<"copied", o.buf>> /\ o.signal = <<"free", o.buf>>
TailGroupOp(o) ==
  /\ o.kind = "tailGroup"
  /\ o.after = <<"tail", 0>> /\ o.signal = <<"tailFree", 0>>
FillOp(o) ==
  /\ o.kind = "fill" /\ o.buf \in {0, 1}
  /\ o.after = <<"free", o.buf>> /\ o.signal = <<"copied", o.buf>>
TailDma(o) ==
  /\ o.kind = "tail" /\ o.buf \in Bounces
  /\ o.after = <<"tailFree", 0>> /\ o.signal = <<"tail", 0>>
ComputeOps == {o \in Ops : MapOp(o) \/ GroupOp(o) \/ TailGroupOp(o)}
CopyOps == {o \in Ops : FillOp(o)}
TailOps == {o \in Ops : TailDma(o)}

-----------------------------------------------------------------------------
(* Arithmetic of the numbering.                                            *)

LEMMA Sizes ==
  ASSUME StreamAssumption
  PROVE
  /\ NumLayers \in Nat /\ NumLayers >= 1 /\ PerLayer \in Nat /\ PerLayer >= 1
  /\ NumBounce \in Nat /\ NumBounce >= 2 /\ MaxSteps \in Nat /\ HasTail \in BOOLEAN
  /\ Items \in Nat /\ Items >= 1 /\ Groups \in Nat /\ Groups >= 1
  /\ OfLayer \in Nat /\ OfLayer >= PerLayer
  /\ HasTail => OfLayer = PerLayer + 1
  /\ ~HasTail => OfLayer = PerLayer
<1>1. /\ NumLayers \in Nat /\ NumLayers >= 1 /\ PerLayer \in Nat /\ PerLayer >= 1
      /\ NumBounce \in Nat /\ NumBounce >= 2 /\ MaxSteps \in Nat /\ HasTail \in BOOLEAN
  BY DEF StreamAssumption
<1>2. /\ OfLayer \in Nat /\ OfLayer >= PerLayer
      /\ HasTail => OfLayer = PerLayer + 1
      /\ ~HasTail => OfLayer = PerLayer
  BY <1>1 DEF OfLayer
<1>3. \A m, n \in Nat \ {0} : m * n \in Nat /\ m * n >= 1
  OBVIOUS
<1>4. Items \in Nat /\ Items >= 1 /\ Groups \in Nat /\ Groups >= 1
  BY <1>1, <1>2, <1>3 DEF Items, Groups
<1> QED  BY <1>1, <1>2, <1>4

LEMMA Remainder ==
  ASSUME NEW n \in Nat, n >= 1, NEW a \in Nat
  PROVE  a % n \in 0 .. n - 1 /\ a \div n \in Nat /\ a = (n * (a \div n)) + (a % n)
<1>1. n \in Nat \ {0}
  OBVIOUS
<1> QED  BY <1>1

(* Two numbers with the same remainder are at least the divisor apart.     *)
LEMMA SameRemainder ==
  ASSUME NEW n \in Nat, n >= 1, NEW a \in Nat, NEW b \in Nat, a % n = b % n, a < b
  PROVE  a + n <= b
<1>1. PICK p \in Int, q \in Int, m \in Int : a = (n * p) + m /\ b = (n * q) + m
  <2>1. a % n \in Int /\ a \div n \in Int /\ a = (n * (a \div n)) + (a % n)
    BY Remainder
  <2>2. b \div n \in Int /\ b = (n * (b \div n)) + (b % n)
    BY Remainder
  <2> QED  BY <2>1, <2>2
<1>2. q - p >= 1
  <2>1. SUFFICES ASSUME q - p <= 0 PROVE FALSE
    BY Z3
  <2>2. n * (p - q) >= 0
    BY <2>1
  <2>3. n * (p - q) = a - b
    BY <1>1
  <2> QED  BY <2>2, <2>3
<1>3. n * (q - p - 1) >= 0
  BY <1>2
<1>4. n * (q - p - 1) = b - a - n
  BY <1>1
<1> QED  BY <1>3, <1>4

LEMMA Quotient ==
  ASSUME NEW n \in Nat, n >= 1, NEW a \in Nat, NEW r \in Nat, r < n
  PROVE  ((a * n) + r) \div n = a /\ ((a * n) + r) % n = r
<1>1. PICK x \in Nat : x = (a * n) + r
  OBVIOUS
<1>2. /\ x % n \in 0 .. n - 1 /\ x \div n \in Nat /\ x = (n * (x \div n)) + (x % n)
  BY Remainder
<1>3. PICK q \in Nat, m \in 0 .. n - 1 : q = x \div n /\ m = x % n
  BY <1>2
<1>4. (n * q) + m = (n * a) + r
  BY <1>1, <1>2, <1>3
<1>5. n * (q - a) = r - m
  BY <1>4
<1>6. CASE q - a >= 1
  <2>1. n * (q - a - 1) >= 0
    BY <1>6
  <2>2. n * (q - a - 1) = (n * (q - a)) - n
    OBVIOUS
  <2> QED  BY <1>5, <2>1, <2>2
<1>7. CASE a - q >= 1
  <2>1. n * (a - q - 1) >= 0
    BY <1>7
  <2>2. n * (a - q - 1) = (0 - (n * (q - a))) - n
    OBVIOUS
  <2> QED  BY <1>5, <2>1, <2>2
<1>8. CASE q = a
  BY <1>1, <1>3, <1>4, <1>8
<1> QED  BY <1>6, <1>7, <1>8

(* The number of the next group.                                           *)
LEMMA GroupNumber ==
  ASSUME StreamAssumption, gen \in Nat, at \in Nat, group \in Nat
  PROVE  /\ Position \in Nat
         /\ group < PerLayer =>
              ArenaGroup(Position) = (gen - 1) * Groups + at * OfLayer + group + 1
         /\ at < NumLayers /\ group < PerLayer => Position < Items
         /\ (at + 1) * PerLayer = at * PerLayer + PerLayer
         /\ TailGroup(gen, at) = (gen - 1) * Groups + at * OfLayer + OfLayer
<1>1. Position \in Nat
  BY Sizes, Z3 DEF Position
<1>2. ASSUME group < PerLayer
      PROVE  ArenaGroup(Position) = (gen - 1) * Groups + at * OfLayer + group + 1
  <2>1. Position \div PerLayer = at /\ Position % PerLayer = group
    BY <1>2, Sizes, Quotient DEF Position
  <2> QED  BY <2>1 DEF ArenaGroup
<1>3. ASSUME at < NumLayers, group < PerLayer PROVE Position < Items
  <2>1. at + 1 <= NumLayers
    BY <1>3, Sizes
  <2>2. (at + 1) * PerLayer <= NumLayers * PerLayer
    BY <2>1, Sizes, Z3
  <2> QED  BY <1>3, <2>2, Sizes, Z3 DEF Position, Items
<1>4. (at + 1) * PerLayer = at * PerLayer + PerLayer
  BY Sizes, Z3
<1>5. TailGroup(gen, at) = (gen - 1) * Groups + at * OfLayer + OfLayer
  <2>1. (at + 1) * OfLayer = at * OfLayer + OfLayer
    BY Sizes, Z3
  <2> QED  BY <2>1, Sizes, Z3 DEF TailGroup
<1> QED  BY <1>1, <1>2, <1>3, <1>4, <1>5

-----------------------------------------------------------------------------
(* Functions and queues.                                                   *)

LEMMA Updated ==
  ASSUME NEW S, NEW T, NEW f \in [S -> T], NEW e \in S, NEW v \in T
  PROVE  [f EXCEPT ![e] = v] \in [S -> T]
  OBVIOUS

Grown(q, op, r) ==
  /\ DOMAIN q = 1 .. Len(q) /\ DOMAIN r = 1 .. Len(q) + 1 /\ Len(r) = Len(q) + 1
  /\ \A i \in 1 .. Len(q) : r[i] = q[i]
  /\ r[Len(q) + 1] = op /\ Len(q) \in Nat
Shrunk(q, r) ==
  /\ DOMAIN q = 1 .. Len(q) /\ DOMAIN r = 1 .. Len(q) - 1 /\ Len(r) = Len(q) - 1
  /\ \A i \in 1 .. Len(q) - 1 : r[i] = q[i + 1]
  /\ Len(q) \in Nat /\ Len(q) >= 1

LEMMA Grows ==
  ASSUME NEW S, NEW q \in Seq(S), NEW op \in S
  PROVE  Append(q, op) \in Seq(S) /\ Grown(q, op, Append(q, op))
  BY DEF Grown

LEMMA Shrinks ==
  ASSUME NEW S, NEW q \in Seq(S), q # <<>>
  PROVE  Head(q) \in S /\ Head(q) = q[1] /\ Tail(q) \in Seq(S) /\ Shrunk(q, Tail(q))
  BY DEF Shrunk

Ordered(q) ==
  \A i, j \in DOMAIN q : i < j /\ q[i].signal = q[j].signal => q[i].nth < q[j].nth
Waiting(q, d, rec) ==
  \A i \in DOMAIN q : d[q[i].signal] < q[i].nth /\ q[i].nth <= rec[q[i].signal]

(* Of two event counters the second is as far, everywhere.                 *)
Later(rec, rec2) == \A e \in Events : rec[e] <= rec2[e]

LEMMA Numbered ==
  ASSUME NEW q \in Seq(Ops), NEW i \in DOMAIN q
  PROVE  q[i] \in Ops /\ q[i].signal \in Events /\ q[i].nth \in Nat
<1>1. q[i] \in Ops
  OBVIOUS
<1> QED  BY <1>1 DEF Ops

LEMMA GrownOrdered ==
  ASSUME NEW q \in Seq(Ops), NEW op \in Ops, NEW r, Grown(q, op, r),
         NEW d \in [Events -> Nat], NEW rec \in [Events -> Nat], NEW rec2 \in [Events -> Nat],
         Ordered(q), Waiting(q, d, rec), Later(rec, rec2), Later(d, rec),
         rec[op.signal] < op.nth, op.nth <= rec2[op.signal]
  PROVE  Ordered(r) /\ Waiting(r, d, rec2)
<1>1. op.signal \in Events /\ op.nth \in Nat
  BY DEF Ops
<1>2. \A i \in 1 .. Len(q) : q[i].signal \in Events /\ q[i].nth \in Nat
  BY Numbered DEF Grown
<1>3. ASSUME NEW i \in DOMAIN r, NEW j \in DOMAIN r, i < j, r[i].signal = r[j].signal
      PROVE  r[i].nth < r[j].nth
  <2>1. i \in 1 .. Len(q)
    BY <1>3 DEF Grown
  <2>2. CASE j \in 1 .. Len(q)
    BY <1>3, <2>1, <2>2 DEF Grown, Ordered
  <2>3. CASE j = Len(q) + 1
    <3>1. r[i] = q[i] /\ r[j] = op
      BY <2>1, <2>3 DEF Grown
    <3>2. q[i].nth <= rec[q[i].signal]
      BY <2>1 DEF Grown, Waiting
    <3> QED  BY <1>1, <1>2, <1>3, <2>1, <3>1, <3>2
  <2> QED  BY <1>3, <2>2, <2>3 DEF Grown
<1>4. ASSUME NEW i \in DOMAIN r
      PROVE  d[r[i].signal] < r[i].nth /\ r[i].nth <= rec2[r[i].signal]
  <2>1. CASE i \in 1 .. Len(q)
    <3>1. r[i] = q[i] /\ d[q[i].signal] < q[i].nth /\ q[i].nth <= rec[q[i].signal]
      BY <2>1 DEF Grown, Waiting
    <3> QED  BY <1>2, <2>1, <3>1 DEF Later
  <2>2. CASE i = Len(q) + 1
    BY <1>1, <2>2 DEF Grown, Later
  <2> QED  BY <1>4, <2>1, <2>2 DEF Grown
<1> QED  BY <1>3, <1>4 DEF Ordered, Waiting

LEMMA ShrunkOrdered ==
  ASSUME NEW q \in Seq(Ops), NEW r, Shrunk(q, r),
         NEW d \in [Events -> Nat], NEW rec \in [Events -> Nat], NEW d2,
         d2 \in [Events -> Nat], Ordered(q), Waiting(q, d, rec), Later(d, rec),
         d2[q[1].signal] = q[1].nth, \A e \in Events : e # q[1].signal => d2[e] = d[e]
  PROVE  Ordered(r) /\ Waiting(r, d2, rec) /\ Later(d, d2) /\ Later(d2, rec)
<1>1. \A i \in 1 .. Len(q) : q[i].signal \in Events /\ q[i].nth \in Nat
  BY Numbered DEF Shrunk
<1>2. d[q[1].signal] < q[1].nth /\ q[1].nth <= rec[q[1].signal]
  BY DEF Shrunk, Waiting
<1>3. Later(d, d2) /\ Later(d2, rec)
  <2> SUFFICES ASSUME NEW e \in Events PROVE d[e] <= d2[e] /\ d2[e] <= rec[e]
    BY DEF Later
  <2>1. d[e] \in Nat /\ rec[e] \in Nat /\ d2[e] \in Nat /\ d[e] <= rec[e]
    BY DEF Later
  <2>2. CASE e = q[1].signal
    <3>1. q[1].nth \in Nat
      BY <1>1 DEF Shrunk
    <3> QED  BY <1>2, <2>1, <2>2, <3>1
  <2>3. CASE e # q[1].signal
    BY <2>1, <2>3
  <2> QED  BY <2>2, <2>3
<1>4. ASSUME NEW i \in DOMAIN r, NEW j \in DOMAIN r, i < j, r[i].signal = r[j].signal
      PROVE  r[i].nth < r[j].nth
  <2>1. i + 1 \in DOMAIN q /\ j + 1 \in DOMAIN q /\ i + 1 < j + 1
    BY <1>4 DEF Shrunk
  <2>2. r[i] = q[i + 1] /\ r[j] = q[j + 1]
    BY <1>4 DEF Shrunk
  <2> QED  BY <1>4, <2>1, <2>2 DEF Ordered
<1>5. ASSUME NEW i \in DOMAIN r
      PROVE  d2[r[i].signal] < r[i].nth /\ r[i].nth <= rec[r[i].signal]
  <2>1. i \in 1 .. Len(q) - 1 /\ i + 1 \in DOMAIN q /\ 1 \in DOMAIN q /\ 1 < i + 1
    BY <1>5 DEF Shrunk
  <2>2. r[i] = q[i + 1]
    BY <2>1 DEF Shrunk
  <2>3. d[q[i + 1].signal] < q[i + 1].nth /\ q[i + 1].nth <= rec[q[i + 1].signal]
    BY <2>1 DEF Waiting
  <2>4. q[1].signal = q[i + 1].signal => q[1].nth < q[i + 1].nth
    BY <2>1 DEF Ordered
  <2> QED  BY <1>1, <2>1, <2>2, <2>3, <2>4 DEF Shrunk
<1> QED  BY <1>3, <1>4, <1>5 DEF Ordered, Waiting

LEMMA OthersWaiting ==
  ASSUME NEW q \in Seq(Ops), NEW d \in [Events -> Nat], NEW rec \in [Events -> Nat],
         NEW d2 \in [Events -> Nat], NEW rec2 \in [Events -> Nat],
         Waiting(q, d, rec), Later(rec, rec2), \A i \in DOMAIN q : d2[q[i].signal] = d[q[i].signal]
  PROVE  Waiting(q, d2, rec2)
<1>1. \A i \in DOMAIN q : q[i].signal \in Events /\ q[i].nth \in Nat
  BY Numbered
<1> QED  BY <1>1 DEF Waiting, Later

-----------------------------------------------------------------------------
(* Types, and what the handlers enqueue.                                   *)

Pcs == {"idle", "first", "second", "ask", "early", "groups", "convert", "tailGroup", "nextTail"}
Types ==
  /\ pc \in Pcs /\ gen \in 0 .. MaxSteps /\ at \in 0 .. NumLayers - 1 /\ group \in 0 .. PerLayer
  /\ asked \in Nat /\ loaded \in [{0, 1} -> Int] /\ tailIssued \in Int
  /\ recorded \in [Events -> Nat] /\ done \in [Events -> Nat]
  /\ compute \in Seq(ComputeOps) /\ copy \in Seq(CopyOps) /\ tail \in Seq(TailOps)
  /\ raw \in [{0, 1} -> Int] /\ rawTail \in Int /\ bounce \in [Bounces -> Int]
  /\ mapHost \in [{0, 1} -> Nat] /\ mapDev \in Nat
  /\ owner \in [Bounces -> Keys] /\ pending \in [Bounces -> Keys]
  /\ doneEvent \in [Bounces -> Nat] /\ queue \in Seq(Keys)
  /\ rpc \in {"get", "wait", "read"} /\ request \in Keys /\ awaited \in Nat
  /\ computed \in Nat /\ weights \in Int /\ map \in Nat
Control ==
  /\ pc # "idle" => gen >= 1
  /\ pc \in {"idle", "first", "second", "ask", "early"} => group = 0
  /\ pc = "ask" => HasTail /\ at <= asked /\ asked < at + NumBounce
  /\ pc = "convert" => group < PerLayer
  /\ pc \in {"tailGroup", "nextTail"} => group = PerLayer /\ HasTail

LEMMA EventNames ==
  /\ \A b \in {0, 1} : <<"copied", b>> \in Events /\ <<"free", b>> \in Events
                       /\ <<"map", b>> \in Events
  /\ <<"tail", 0>> \in Events /\ <<"tailFree", 0>> \in Events
  BY DEF Events

LEMMA ArenaGroupInt ==
  ASSUME StreamAssumption, gen \in Nat, NEW pos \in Nat PROVE ArenaGroup(pos) \in Int
<1>1. pos \div PerLayer \in Int /\ pos % PerLayer \in Int
  <2>1. PerLayer \in Nat /\ PerLayer >= 1
    BY Sizes
  <2> QED  BY <2>1, Remainder
<1> QED  BY <1>1, Sizes DEF ArenaGroup

LEMMA TailGroupInt ==
  ASSUME StreamAssumption, NEW g \in Int, NEW l \in Int PROVE TailGroup(g, l) \in Int
  BY Sizes DEF TailGroup

LEMMA InBounces == ASSUME StreamAssumption, NEW l \in Nat PROVE l % NumBounce \in Bounces
<1>1. NumBounce \in Nat /\ NumBounce >= 1
  BY Sizes
<1> QED  BY <1>1, Remainder DEF Bounces

LEMMA Parity == ASSUME NEW n \in Nat PROVE n % 2 \in {0, 1}
  OBVIOUS

(* What _issue does: nothing, or a copy enqueued behind the others.        *)
Copied(pos, rec) ==
  \E op \in CopyOps :
    /\ op.buf = pos % 2 /\ op.key = ArenaGroup(pos)
    /\ op.until = rec[<<"free", pos % 2>>] /\ op.nth = rec[<<"copied", pos % 2>>] + 1
    /\ copy' \in Seq(CopyOps) /\ Grown(copy, op, copy')
    /\ recorded' = [rec EXCEPT ![<<"copied", pos % 2>>] = rec[<<"copied", pos % 2>>] + 1]
    /\ loaded' = [loaded EXCEPT ![pos % 2] = pos]
Issued(pos, rec) ==
  IF pos < Items /\ loaded[pos % 2] # pos
    THEN Copied(pos, rec)
    ELSE copy' = copy /\ recorded' = rec /\ loaded' = loaded

LEMMA IssueEffect ==
  ASSUME StreamAssumption, Types, NEW pos \in Nat, NEW rec \in [Events -> Nat], Issue(pos, rec)
  PROVE  Issued(pos, rec)
<1>1. CASE pos < Items /\ loaded[pos % 2] # pos
  <2> DEFINE b == pos % 2
             n == rec[<<"copied", b>>] + 1
             op == Fill(b, pos, rec[<<"free", b>>], n)
  <2>1. b \in {0, 1}
    BY Parity
  <2>2. rec[<<"copied", b>>] \in Nat /\ rec[<<"free", b>>] \in Nat
    BY <2>1, EventNames
  <2>3. ArenaGroup(pos) \in Int
    BY ArenaGroupInt DEF Types
  <2>4. op \in CopyOps /\ op.buf = b /\ op.key = ArenaGroup(pos)
        /\ op.until = rec[<<"free", b>>] /\ op.nth = n
    BY <2>1, <2>2, <2>3, EventNames DEF CopyOps, FillOp, Fill, Op, Ops, Kinds
  <2>5. copy' = Append(copy, op) /\ recorded' = [rec EXCEPT ![<<"copied", b>>] = n]
        /\ loaded' = [loaded EXCEPT ![b] = pos]
    BY <1>1 DEF Issue
  <2>6. copy' \in Seq(CopyOps) /\ Grown(copy, op, copy')
    BY <2>4, <2>5, Grows DEF Types
  <2> HIDE DEF op
  <2> QED  BY <1>1, <2>4, <2>5, <2>6 DEF Issued, Copied
<1>2. CASE ~(pos < Items /\ loaded[pos % 2] # pos)
  BY <1>2 DEF Issue, Issued
<1> QED  BY <1>1, <1>2

LEMMA IssuedTypes ==
  ASSUME Types, NEW pos \in Nat, NEW rec \in [Events -> Nat], Issued(pos, rec)
  PROVE  /\ copy' \in Seq(CopyOps) /\ recorded' \in [Events -> Nat]
         /\ loaded' \in [{0, 1} -> Int]
<1>1. CASE pos < Items /\ loaded[pos % 2] # pos
  <2>1. pos % 2 \in {0, 1}
    BY Parity
  <2>2. rec[<<"copied", pos % 2>>] \in Nat
    BY <2>1, EventNames
  <2>3. Copied(pos, rec)
    BY <1>1 DEF Issued
  <2>4. /\ copy' \in Seq(CopyOps)
        /\ recorded' = [rec EXCEPT ![<<"copied", pos % 2>>] = rec[<<"copied", pos % 2>>] + 1]
        /\ loaded' = [loaded EXCEPT ![pos % 2] = pos]
    BY <2>3 DEF Copied
  <2>5. <<"copied", pos % 2>> \in Events
    BY <2>1, EventNames
  <2>6. recorded' \in [Events -> Nat]
    <3>1. rec[<<"copied", pos % 2>>] + 1 \in Nat
      BY <2>2
    <3> QED  BY <2>4, <2>5, <3>1, Updated
  <2>7. loaded' \in [{0, 1} -> Int]
    BY <2>1, <2>4, Updated DEF Types
  <2> QED  BY <2>4, <2>6, <2>7
<1>2. CASE ~(pos < Items /\ loaded[pos % 2] # pos)
  BY <1>2 DEF Issued, Types
<1> QED  BY <1>1, <1>2

(* What issue_tail does: nothing, or a copy enqueued behind the others.    *)
TailCopied(l) ==
  \E op \in TailOps :
    /\ op.buf = l % NumBounce /\ op.key = TailGroup(gen, l)
    /\ op.until = recorded[<<"tailFree", 0>>] /\ op.nth = recorded[<<"tail", 0>>] + 1
    /\ tail' \in Seq(TailOps) /\ Grown(tail, op, tail')
    /\ recorded' = [recorded EXCEPT ![<<"tail", 0>>] = recorded[<<"tail", 0>>] + 1]
    /\ doneEvent' = [doneEvent EXCEPT ![l % NumBounce] = recorded[<<"tail", 0>>] + 1]
    /\ tailIssued' = l
TailTried(l) ==
  IF HasTail /\ tailIssued # l /\ owner[l % NumBounce] = <<gen, l>>
    THEN TailCopied(l)
    ELSE tail' = tail /\ recorded' = recorded /\ doneEvent' = doneEvent /\ tailIssued' = tailIssued

LEMMA TryEffect ==
  ASSUME StreamAssumption, Types, NEW l \in Nat, TryTail(l)
  PROVE  TailTried(l)
<1>1. CASE HasTail /\ tailIssued # l /\ owner[l % NumBounce] = <<gen, l>>
  <2> DEFINE b == l % NumBounce
             n == recorded[<<"tail", 0>>] + 1
             op == TailOp(l, n, recorded[<<"tailFree", 0>>])
  <2>1. b \in Bounces
    BY InBounces
  <2>2. recorded[<<"tail", 0>>] \in Nat /\ recorded[<<"tailFree", 0>>] \in Nat
    BY EventNames DEF Types
  <2>3. TailGroup(gen, l) \in Int
    BY TailGroupInt DEF Types
  <2>4. b \in Nat
    BY <2>1 DEF Bounces
  <2>5. op \in TailOps /\ op.buf = b /\ op.key = TailGroup(gen, l)
        /\ op.until = recorded[<<"tailFree", 0>>] /\ op.nth = n
    BY <2>1, <2>2, <2>3, <2>4, EventNames DEF TailOps, TailDma, TailOp, Op, Ops, Kinds
  <2>6. /\ tail' = Append(tail, op) /\ recorded' = [recorded EXCEPT ![<<"tail", 0>>] = n]
        /\ doneEvent' = [doneEvent EXCEPT ![b] = n] /\ tailIssued' = l
    BY <1>1 DEF TryTail, TailReady, IssueTail
  <2>7. tail' \in Seq(TailOps) /\ Grown(tail, op, tail')
    BY <2>5, <2>6, Grows DEF Types
  <2> HIDE DEF op
  <2> QED  BY <1>1, <2>5, <2>6, <2>7 DEF TailTried, TailCopied
<1>2. CASE ~(HasTail /\ tailIssued # l /\ owner[l % NumBounce] = <<gen, l>>)
  BY <1>2 DEF TryTail, TailReady, TailTried
<1> QED  BY <1>1, <1>2

LEMMA TriedTypes ==
  ASSUME StreamAssumption, Types, NEW l \in Nat, TailTried(l)
  PROVE  /\ tail' \in Seq(TailOps) /\ recorded' \in [Events -> Nat]
         /\ doneEvent' \in [Bounces -> Nat] /\ tailIssued' \in Int
<1>1. l % NumBounce \in Bounces
  BY InBounces
<1>2. recorded[<<"tail", 0>>] \in Nat
  BY EventNames DEF Types
<1>3. CASE TailCopied(l)
  <2>1. /\ tail' \in Seq(TailOps)
        /\ recorded' = [recorded EXCEPT ![<<"tail", 0>>] = recorded[<<"tail", 0>>] + 1]
        /\ doneEvent' = [doneEvent EXCEPT ![l % NumBounce] = recorded[<<"tail", 0>>] + 1]
        /\ tailIssued' = l
    BY <1>3 DEF TailCopied
  <2>2. recorded[<<"tail", 0>>] + 1 \in Nat
    BY <1>2
  <2>3. recorded' \in [Events -> Nat]
    BY <2>1, <2>2, EventNames, Updated DEF Types
  <2>4. doneEvent' \in [Bounces -> Nat]
    BY <1>1, <2>1, <2>2, Updated DEF Types
  <2> QED  BY <2>1, <2>3, <2>4
<1> QED  BY <1>3 DEF TailTried, Types

(* The forward puts its work on the compute stream.                        *)
Enqueues(kind, buf, key, until, nth) ==
  \E op \in ComputeOps :
    /\ op.kind = kind /\ op.buf = buf /\ op.key = key /\ op.until = until /\ op.nth = nth
    /\ compute' \in Seq(ComputeOps) /\ Grown(compute, op, compute')

LEMMA PlanEnqueues ==
  ASSUME StreamAssumption, Types, Plan
  PROVE  Enqueues("map", gen' % 2, gen', 0, gen')
<1>1. PICK g \in Nat, b \in {0, 1} : g = gen' /\ b = g % 2
  BY Parity DEF Plan, Types
<1> DEFINE op == Op("map", b, g, <<"map", 0>>, 0, <<"map", b>>, g)
<1>2. op \in ComputeOps /\ op.kind = "map" /\ op.buf = b /\ op.key = g /\ op.until = 0
      /\ op.nth = g
  <2>1. op \in Ops
    BY EventNames DEF Op, Ops, Kinds
  <2>2. MapOp(op)
    BY <1>1 DEF MapOp, Op
  <2> QED  BY <2>1, <2>2 DEF ComputeOps, Op
<1>3. compute' = Append(compute, op)
  BY <1>1 DEF Plan
<1>4. compute' \in Seq(ComputeOps) /\ Grown(compute, op, compute')
  BY <1>2, <1>3, Grows DEF Types
<1> HIDE DEF op
<1> QED  BY <1>1, <1>2, <1>4 DEF Enqueues

LEMMA GroupEnqueues ==
  ASSUME StreamAssumption, Types, ComputeGroup, NEW b \in {0, 1}, b = Position % 2
  PROVE  /\ Enqueues("group", b, ArenaGroup(Position), recorded[<<"copied", b>>],
                     recorded[<<"free", b>>] + 1)
         /\ Position \in Nat
<1>1. Position \in Nat
  BY GroupNumber DEF Types
<1>2. recorded[<<"copied", b>>] \in Nat /\ recorded[<<"free", b>>] \in Nat
  BY EventNames DEF Types
<1>3. ArenaGroup(Position) \in Int
  BY <1>1, ArenaGroupInt DEF Types
<1> DEFINE op == Op("group", b, ArenaGroup(Position), <<"copied", b>>, recorded[<<"copied", b>>],
                    <<"free", b>>, recorded[<<"free", b>>] + 1)
<1>4. op \in ComputeOps /\ op.kind = "group" /\ op.buf = b /\ op.key = ArenaGroup(Position)
      /\ op.until = recorded[<<"copied", b>>] /\ op.nth = recorded[<<"free", b>>] + 1
  BY <1>2, <1>3, EventNames DEF ComputeOps, GroupOp, Op, Ops, Kinds
<1>5. compute' = Append(compute, op)
  BY DEF ComputeGroup
<1>6. compute' \in Seq(ComputeOps) /\ Grown(compute, op, compute')
  BY <1>4, <1>5, Grows DEF Types
<1> HIDE DEF op
<1> QED  BY <1>1, <1>4, <1>6 DEF Enqueues

LEMMA TailEnqueues ==
  ASSUME StreamAssumption, Types, ComputeTail
  PROVE  Enqueues("tailGroup", 0, TailGroup(gen, at), recorded[<<"tail", 0>>],
                  recorded[<<"tailFree", 0>>] + 1)
<1>1. recorded[<<"tail", 0>>] \in Nat /\ recorded[<<"tailFree", 0>>] \in Nat
  BY EventNames DEF Types
<1>2. TailGroup(gen, at) \in Int
  BY TailGroupInt DEF Types
<1> DEFINE op == Op("tailGroup", 0, TailGroup(gen, at), <<"tail", 0>>, recorded[<<"tail", 0>>],
                    <<"tailFree", 0>>, recorded[<<"tailFree", 0>>] + 1)
<1>3. op \in ComputeOps /\ op.kind = "tailGroup" /\ op.buf = 0 /\ op.key = TailGroup(gen, at)
      /\ op.until = recorded[<<"tail", 0>>] /\ op.nth = recorded[<<"tailFree", 0>>] + 1
  BY <1>1, <1>2, EventNames DEF ComputeOps, TailGroupOp, Op, Ops, Kinds
<1>4. compute' = Append(compute, op)
  BY DEF ComputeTail
<1>5. compute' \in Seq(ComputeOps) /\ Grown(compute, op, compute')
  BY <1>3, <1>4, Grows DEF Types
<1> HIDE DEF op
<1> QED  BY <1>3, <1>5 DEF Enqueues

-----------------------------------------------------------------------------
(* The types are kept.                                                     *)

Typed == Types /\ Control

LEMMA Counters ==
  ASSUME StreamAssumption, Typed
  PROVE  /\ gen \in Nat /\ gen <= MaxSteps /\ at \in Nat /\ at < NumLayers
         /\ group \in Nat /\ group <= PerLayer /\ asked \in Nat
         /\ recorded \in [Events -> Nat] /\ done \in [Events -> Nat] /\ pc \in Pcs
<1>1. NumLayers \in Nat /\ PerLayer \in Nat /\ MaxSteps \in Nat
  BY Sizes
<1> QED  BY <1>1 DEF Typed, Types

LEMMA HeadOps ==
  ASSUME Types
  PROVE  /\ copy # <<>> => Head(copy) \in CopyOps /\ Head(copy) = copy[1]
                           /\ Tail(copy) \in Seq(CopyOps) /\ Shrunk(copy, Tail(copy))
         /\ tail # <<>> => Head(tail) \in TailOps /\ Head(tail) = tail[1]
                           /\ Tail(tail) \in Seq(TailOps) /\ Shrunk(tail, Tail(tail))
         /\ compute # <<>> => Head(compute) \in ComputeOps /\ Head(compute) = compute[1]
                           /\ Tail(compute) \in Seq(ComputeOps) /\ Shrunk(compute, Tail(compute))
<1>1. copy \in Seq(CopyOps) /\ tail \in Seq(TailOps) /\ compute \in Seq(ComputeOps)
  BY DEF Types
<1> QED  BY <1>1, Shrinks

LEMMA SignalTypes ==
  ASSUME Types, NEW op \in Ops, Signal(op) PROVE done' \in [Events -> Nat]
<1>1. op.signal \in Events /\ op.nth \in Nat
  BY DEF Ops
<1>2. PICK n \in Nat : done' = [done EXCEPT ![op.signal] = n]
  BY <1>1 DEF Signal, Types
<1> QED  BY <1>1, <1>2, Updated DEF Types

LEMMA PlanTypes == ASSUME StreamAssumption, Typed, Plan PROVE Typed'
<1>1. compute' \in Seq(ComputeOps)
  BY PlanEnqueues DEF Typed, Enqueues
<1>2. PICK g \in 1 .. MaxSteps, b \in {0, 1} : g = gen' /\ b = g % 2
  <2>1. gen' \in 1 .. MaxSteps
    <3>1. gen' = gen + 1 /\ gen < MaxSteps
      BY DEF Plan
    <3>2. gen \in Nat /\ MaxSteps \in Nat
      BY Sizes, Counters
    <3> QED  BY <3>1, <3>2
  <2>2. gen' \in Nat
    BY <2>1, Sizes
  <2>3. gen' % 2 \in {0, 1}
    BY <2>2, Parity
  <2> QED  BY <2>1, <2>3
<1>3. recorded' \in [Events -> Nat]
  <2>1. recorded' = [recorded EXCEPT ![<<"map", b>>] = g]
    BY <1>2 DEF Plan
  <2>2. <<"map", b>> \in Events /\ g \in Nat /\ recorded \in [Events -> Nat]
    BY <1>2, EventNames, Counters, Sizes
  <2> QED  BY <2>1, <2>2, Updated
<1>4. mapHost' \in [{0, 1} -> Nat]
  <2>1. mapHost' = [mapHost EXCEPT ![b] = g]
    BY <1>2 DEF Plan
  <2> QED  BY <2>1, Updated DEF Typed, Types
<1>5. 0 \in 0 .. NumLayers - 1 /\ 0 \in 0 .. PerLayer /\ NumLayers \in Nat
  BY Sizes
<1>6. Types'
  <2>1. pc' \in Pcs /\ gen' \in 0 .. MaxSteps /\ at' \in 0 .. NumLayers - 1
        /\ group' \in 0 .. PerLayer /\ tailIssued' \in Int
    BY <1>2, <1>5 DEF Plan, Pcs
  <2>2. loaded' \in [{0, 1} -> Int]
    BY DEF Plan
  <2> QED  BY <1>1, <1>3, <1>4, <2>1, <2>2 DEF Plan, Typed, Types, readerVars, resultVars
<1>7. Control'
  BY <1>2 DEF Plan, Control
<1> QED  BY <1>6, <1>7 DEF Typed

LEMMA IssueTypes ==
  ASSUME StreamAssumption, Typed,
         \/ IssueFirst /\ Issued(Position, recorded)
         \/ IssueSecond /\ Issued(Position + 1, recorded)
         \/ IssueGroup /\ Issued(Position, recorded)
  PROVE  Typed'
<1>1. Position \in Nat /\ recorded \in [Events -> Nat]
  BY GroupNumber DEF Typed, Types
<1>2. PICK p \in Nat, q \in Nat : p = Position /\ q = p + 1
  BY <1>1
<1>3. copy' \in Seq(CopyOps) /\ recorded' \in [Events -> Nat] /\ loaded' \in [{0, 1} -> Int]
  <2>1. CASE Issued(Position, recorded)
    BY <1>1, <1>2, <2>1, IssuedTypes DEF Typed
  <2>2. CASE Issued(Position + 1, recorded)
    BY <1>1, <1>2, <2>2, IssuedTypes DEF Typed
  <2> QED  BY <2>1, <2>2
<1>4. pc' \in Pcs /\ asked' \in Nat
  BY DEF IssueFirst, IssueSecond, IssueGroup, Typed, Types, Pcs
<1>5. Types'
  BY <1>3, <1>4 DEF IssueFirst, IssueSecond, IssueGroup, Typed, Types, memVars, readerVars, resultVars
<1>6. Control'
  BY Sizes, Counters DEF IssueFirst, IssueSecond, IssueGroup, Typed, Control
<1> QED  BY <1>5, <1>6 DEF Typed

LEMMA RequestTypes == ASSUME StreamAssumption, Typed, RequestTail PROVE Typed'
<1>1. asked \in Nat /\ gen \in 0 .. MaxSteps /\ pending \in [Bounces -> Keys] /\ queue \in Seq(Keys)
  BY DEF Typed, Types
<1>2. queue' \in Seq(Keys) /\ pending' \in [Bounces -> Keys]
  <2>1. CASE asked < NumLayers
    <3>1. <<gen, asked>> \in Keys
      BY <1>1, <2>1, Sizes DEF Keys
    <3>2. Append(queue, <<gen, asked>>) \in Seq(Keys)
      BY <1>1, <3>1, Grows
    <3>3. [pending EXCEPT ![asked % NumBounce] = <<gen, asked>>] \in [Bounces -> Keys]
      BY <1>1, <3>1, InBounces, Updated
    <3> QED  BY <1>1, <3>2, <3>3 DEF RequestTail
  <2>2. CASE ~(asked < NumLayers)
    BY <1>1, <2>2 DEF RequestTail
  <2> QED  BY <2>1, <2>2
<1>3. asked' \in Nat /\ pc' \in Pcs
  BY <1>1 DEF RequestTail, Pcs
<1>4. Types'
  BY <1>2, <1>3 DEF RequestTail, Typed, Types, streamVars, memVars, resultVars
<1>5. Control'
  BY Sizes, Counters DEF RequestTail, Typed, Control
<1> QED  BY <1>4, <1>5 DEF Typed

LEMMA TryTypes ==
  ASSUME StreamAssumption, Typed,
         \/ EarlyTail /\ TailTried(at)
         \/ AwaitTail /\ TailTried(at)
         \/ EndLayer /\ at + 1 < NumLayers /\ TailTried(at + 1)
         \/ EndLayer /\ ~(at + 1 < NumLayers)
  PROVE  Typed'
<1>1. PICK a \in Nat, l \in Nat : a = at /\ l = a + 1
  BY DEF Typed, Types
<1>2. /\ tail' \in Seq(TailOps) /\ recorded' \in [Events -> Nat]
      /\ doneEvent' \in [Bounces -> Nat] /\ tailIssued' \in Int
  <2>1. CASE TailTried(at)
    BY <1>1, <2>1, TriedTypes DEF Typed
  <2>2. CASE TailTried(at + 1)
    BY <1>1, <2>2, TriedTypes DEF Typed
  <2>3. CASE EndLayer /\ ~(at + 1 < NumLayers)
    BY <2>3 DEF EndLayer, Typed, Types
  <2> QED  BY <2>1, <2>2, <2>3
<1>3. pc' \in Pcs /\ at' \in 0 .. NumLayers - 1 /\ group' \in 0 .. PerLayer
  BY Sizes, Counters DEF EarlyTail, AwaitTail, EndLayer, Pcs
<1>4. Types'
  BY <1>2, <1>3 DEF EarlyTail, AwaitTail, EndLayer, Typed, Types, memVars, resultVars
<1>5. Control'
  BY Sizes DEF EarlyTail, AwaitTail, EndLayer, Typed, Types, Control
<1> QED  BY <1>4, <1>5 DEF Typed

LEMMA GroupTypes ==
  ASSUME StreamAssumption, Typed, ComputeGroup, NEW b \in {0, 1}, b = Position % 2,
         NEW rec \in [Events -> Nat],
         Issued(Position + 2, rec)
  PROVE  Typed'
<1>1. PICK q \in Nat : q = Position + 2
  BY GroupNumber DEF Typed, Types
<1>2. copy' \in Seq(CopyOps) /\ recorded' \in [Events -> Nat] /\ loaded' \in [{0, 1} -> Int]
  BY <1>1, IssuedTypes DEF Typed
<1>3. compute' \in Seq(ComputeOps)
  BY GroupEnqueues DEF Typed, Enqueues
<1>4. group' \in 0 .. PerLayer /\ pc' \in Pcs
  <2>1. group' = group + 1 /\ pc' = "groups" /\ pc = "convert"
    BY DEF ComputeGroup
  <2>2. group < PerLayer
    BY <2>1 DEF Typed, Control
  <2>3. group \in Nat /\ PerLayer \in Nat
    BY Sizes, Counters
  <2> QED  BY <2>1, <2>2, <2>3 DEF Pcs
<1>5. Types'
  BY <1>2, <1>3, <1>4 DEF ComputeGroup, Typed, Types, memVars, readerVars, resultVars
<1>6. Control'
  BY DEF ComputeGroup, Typed, Control
<1> QED  BY <1>5, <1>6 DEF Typed

LEMMA TailGroupTypes == ASSUME StreamAssumption, Typed, ComputeTail PROVE Typed'
<1>1. compute' \in Seq(ComputeOps)
  BY TailEnqueues DEF Typed, Enqueues
<1>2. recorded' \in [Events -> Nat]
  <2>1. recorded[<<"tailFree", 0>>] + 1 \in Nat
    BY EventNames, Counters
  <2>2. recorded' = [recorded EXCEPT ![<<"tailFree", 0>>] = recorded[<<"tailFree", 0>>] + 1]
    BY DEF ComputeTail
  <2> QED  BY <2>1, <2>2, EventNames, Updated DEF Typed, Types
<1>3. pc' \in Pcs /\ tailIssued' \in Int
  BY DEF ComputeTail, Pcs
<1>4. Types'
  BY <1>1, <1>2, <1>3 DEF ComputeTail, Typed, Types, memVars, readerVars, resultVars
<1>5. Control'
  BY DEF ComputeTail, Typed, Control
<1> QED  BY <1>4, <1>5 DEF Typed

LEMMA StreamTypes ==
  ASSUME StreamAssumption, Typed, RunCopy \/ RunTail \/ RunMap \/ RunGroup
  PROVE  Typed'
<1>1. CASE RunCopy
  <2>1. PICK op \in CopyOps : op = Head(copy)
    BY <1>1, HeadOps DEF RunCopy, Runs, Typed
  <2>2. op \in Ops /\ op.buf \in {0, 1} /\ op.key \in Int
    BY DEF CopyOps, FillOp, Ops
  <2>3. raw' \in [{0, 1} -> Int]
    BY <1>1, <2>1, <2>2, Updated DEF RunCopy, Typed, Types
  <2>4. done' \in [Events -> Nat]
    BY <1>1, <2>1, <2>2, SignalTypes DEF RunCopy, Typed
  <2>5. copy' \in Seq(CopyOps)
    BY <1>1, HeadOps DEF RunCopy, Runs, Typed
  <2> QED  BY <1>1, <2>3, <2>4, <2>5
           DEF RunCopy, Typed, Types, Control, hostVars, readerVars, resultVars
<1>2. CASE RunTail
  <2>1. PICK op \in TailOps : op = Head(tail)
    BY <1>2, HeadOps DEF RunTail, Runs, Typed
  <2>2. op \in Ops /\ op.buf \in Bounces
    BY DEF TailOps, TailDma
  <2>3. rawTail' \in Int
    BY <1>2, <2>1, <2>2 DEF RunTail, Typed, Types
  <2>4. done' \in [Events -> Nat]
    BY <1>2, <2>1, <2>2, SignalTypes DEF RunTail, Typed
  <2>5. tail' \in Seq(TailOps)
    BY <1>2, HeadOps DEF RunTail, Runs, Typed
  <2> QED  BY <1>2, <2>3, <2>4, <2>5
           DEF RunTail, Typed, Types, Control, hostVars, readerVars, resultVars
<1>3. CASE RunMap
  <2>1. PICK op \in ComputeOps : op = Head(compute)
    BY <1>3, HeadOps DEF RunMap, Runs, Typed
  <2>2. op \in Ops /\ op.kind = "map"
    BY <1>3, <2>1 DEF ComputeOps, RunMap
  <2>3. op.buf \in {0, 1}
    BY <2>2 DEF ComputeOps, MapOp, GroupOp, TailGroupOp
  <2>4. mapDev' \in Nat
    BY <1>3, <2>1, <2>3 DEF RunMap, Typed, Types
  <2>5. done' \in [Events -> Nat]
    BY <1>3, <2>1, <2>2, SignalTypes DEF RunMap, Typed
  <2>6. compute' \in Seq(ComputeOps)
    BY <1>3, HeadOps DEF RunMap, Runs, Typed
  <2> QED  BY <1>3, <2>4, <2>5, <2>6
           DEF RunMap, Typed, Types, Control, hostVars, readerVars, resultVars
<1>4. CASE RunGroup
  <2>1. PICK op \in ComputeOps : op = Head(compute)
    BY <1>4, HeadOps DEF RunGroup, Runs, Typed
  <2>2. op \in Ops
    BY DEF ComputeOps
  <2>3. op.kind = "group" => op.buf \in {0, 1}
    BY DEF ComputeOps, MapOp, GroupOp, TailGroupOp
  <2>4. computed' \in Nat /\ weights' \in Int /\ map' \in Nat
    BY <1>4, <2>1, <2>3 DEF RunGroup, Typed, Types
  <2>5. done' \in [Events -> Nat]
    BY <1>4, <2>1, <2>2, SignalTypes DEF RunGroup, Typed
  <2>6. compute' \in Seq(ComputeOps)
    BY <1>4, HeadOps DEF RunGroup, Runs, Typed
  <2> QED  BY <1>4, <2>4, <2>5, <2>6
           DEF RunGroup, Typed, Types, Control, hostVars, memVars, readerVars
<1> QED  BY <1>1, <1>2, <1>3, <1>4

LEMMA ReaderTypes ==
  ASSUME StreamAssumption, Typed, ReaderGet \/ StartRead \/ EndRead
  PROVE  Typed'
<1>1. request \in Keys /\ \A k \in Keys : k[2] % NumBounce \in Bounces
  <2>1. \A k \in Keys : k[2] \in Nat
    BY Sizes DEF Keys
  <2> QED  BY <2>1, InBounces DEF Typed, Types
<1>2. CASE ReaderGet
  <2>1. request' \in Keys /\ queue' \in Seq(Keys)
    BY <1>2, Shrinks DEF ReaderGet, Typed, Types
  <2>2. awaited' \in Nat
    BY <1>1, <1>2, <2>1 DEF ReaderGet, Typed, Types
  <2> QED  BY <1>2, <2>1, <2>2
           DEF ReaderGet, Typed, Types, Control, hostVars, streamVars, memVars, resultVars
<1>3. CASE StartRead
  <2>1. bounce' \in [Bounces -> Int]
    <3>1. bounce' = [bounce EXCEPT ![request[2] % NumBounce] = 0]
      BY <1>3 DEF StartRead, Buffer, Nothing
    <3>2. bounce \in [Bounces -> Int] /\ 0 \in Int
      BY DEF Typed, Types
    <3> QED  BY <1>1, <3>1, <3>2, Updated
  <2> QED  BY <1>3, <2>1
           DEF StartRead, Typed, Types, Control, hostVars, streamVars, memVars, resultVars
<1>4. CASE EndRead
  <2>1. TailGroup(request[1], request[2]) \in Int
    <3>1. request[1] \in Int /\ request[2] \in Int
      BY <1>1, Sizes DEF Keys
    <3> QED  BY <3>1, TailGroupInt
  <2>2. bounce' \in [Bounces -> Int] /\ owner' \in [Bounces -> Keys]
    BY <1>1, <1>4, <2>1, Updated DEF EndRead, Buffer, Typed, Types
  <2>3. NoKey \in Keys
    BY Sizes DEF NoKey, Keys
  <2>4. pending' \in [Bounces -> Keys]
    <3>1. PICK k \in Keys : pending' = [pending EXCEPT ![Buffer] = k]
      BY <1>1, <1>4, <2>3 DEF EndRead, Buffer, Typed, Types
    <3> QED  BY <1>1, <3>1, Updated DEF Buffer, Typed, Types
  <2> QED  BY <1>4, <2>2, <2>4
           DEF EndRead, Typed, Types, Control, hostVars, streamVars, memVars, resultVars
<1> QED  BY <1>2, <1>3, <1>4

-----------------------------------------------------------------------------
(* Streams: the event counters, recorded and done.                         *)

Good(q, d, rec) == Ordered(q) /\ Waiting(q, d, rec)
Streams ==
  /\ Good(compute, done, recorded) /\ Good(copy, done, recorded) /\ Good(tail, done, recorded)
  /\ Later(done, recorded)
  /\ \A b \in {0, 1} : recorded[<<"map", b>>] <= gen

LEMMA AreOps ==
  ASSUME Types PROVE compute \in Seq(Ops) /\ copy \in Seq(Ops) /\ tail \in Seq(Ops)
<1>1. ComputeOps \subseteq Ops /\ CopyOps \subseteq Ops /\ TailOps \subseteq Ops
  BY DEF ComputeOps, CopyOps, TailOps
<1>2. ASSUME NEW S, S \subseteq Ops, NEW q \in Seq(S) PROVE q \in Seq(Ops)
  BY <1>2
<1>3. compute \in Seq(ComputeOps) /\ copy \in Seq(CopyOps) /\ tail \in Seq(TailOps)
  BY DEF Types
<1> QED  BY <1>1, <1>2, <1>3

LEMMA Shapes ==
  ASSUME Types
  PROVE  /\ \A i \in DOMAIN compute : compute[i] \in ComputeOps
         /\ \A i \in DOMAIN copy : copy[i] \in CopyOps
         /\ \A i \in DOMAIN tail : tail[i] \in TailOps
<1>1. compute \in Seq(ComputeOps) /\ copy \in Seq(CopyOps) /\ tail \in Seq(TailOps)
  BY DEF Types
<1> QED  BY <1>1

LEMMA Bumped ==
  ASSUME NEW rec \in [Events -> Nat], NEW e \in Events, NEW n \in Nat, rec[e] <= n
  PROVE  /\ [rec EXCEPT ![e] = n] \in [Events -> Nat]
         /\ Later(rec, [rec EXCEPT ![e] = n])
         /\ [rec EXCEPT ![e] = n][e] = n
         /\ \A f \in Events : f # e => [rec EXCEPT ![e] = n][f] = rec[f]
  BY DEF Later

LEMMA LaterStill ==
  ASSUME NEW a \in [Events -> Nat], NEW b \in [Events -> Nat], NEW c \in [Events -> Nat],
         Later(a, b), Later(b, c)
  PROVE  Later(a, c)
<1> SUFFICES ASSUME NEW e \in Events PROVE a[e] <= c[e]
  BY DEF Later
<1>1. a[e] <= b[e] /\ b[e] <= c[e] /\ a[e] \in Nat /\ b[e] \in Nat /\ c[e] \in Nat
  BY DEF Later
<1> QED  BY <1>1

LEMMA GrownGood ==
  ASSUME NEW q \in Seq(Ops), NEW op \in Ops, NEW r, Grown(q, op, r),
         NEW d \in [Events -> Nat], NEW rec \in [Events -> Nat], NEW rec2 \in [Events -> Nat],
         Good(q, d, rec), Later(rec, rec2), Later(d, rec),
         rec[op.signal] < op.nth, op.nth <= rec2[op.signal]
  PROVE  Good(r, d, rec2)
  BY GrownOrdered DEF Good

LEMMA StillGood ==
  ASSUME NEW q \in Seq(Ops), NEW d \in [Events -> Nat], NEW rec \in [Events -> Nat],
         NEW rec2 \in [Events -> Nat], Good(q, d, rec), Later(rec, rec2)
  PROVE  Good(q, d, rec2)
  BY OthersWaiting DEF Good

(* An operation of queue q is signalled to event e and no other queue's.   *)
LEMMA PlanStreams == ASSUME StreamAssumption, Typed, Streams, Plan PROVE Streams'
<1>1. PICK g \in Nat, b \in {0, 1} : g = gen' /\ b = g % 2 /\ g = gen + 1
  <2>1. gen \in Nat /\ gen' = gen + 1
    BY Counters DEF Plan
  <2>2. gen + 1 \in Nat
    BY <2>1
  <2>3. (gen + 1) % 2 \in {0, 1}
    BY <2>2, Parity
  <2> QED  BY <2>1, <2>2, <2>3
<1>2. PICK op \in ComputeOps : op.kind = "map" /\ op.key = g /\ op.nth = g /\ Grown(compute, op, compute')
  BY <1>1, PlanEnqueues DEF Typed, Enqueues
<1>3. op \in Ops /\ op.signal = <<"map", b>>
  BY <1>1, <1>2 DEF ComputeOps, MapOp, GroupOp, TailGroupOp
<1>4. recorded \in [Events -> Nat] /\ done \in [Events -> Nat] /\ <<"map", b>> \in Events
  BY Counters, EventNames
<1>5. recorded' = [recorded EXCEPT ![<<"map", b>>] = g] /\ recorded[<<"map", b>>] < g
  <2>1. recorded[<<"map", b>>] <= gen /\ recorded[<<"map", b>>] \in Nat /\ gen \in Nat
    BY <1>4, Counters DEF Streams
  <2> QED  BY <1>1, <2>1 DEF Plan
<1>6. /\ recorded' \in [Events -> Nat] /\ Later(recorded, recorded') /\ recorded'[<<"map", b>>] = g
      /\ \A f \in Events : f # <<"map", b>> => recorded'[f] = recorded[f]
  <2>1. recorded[<<"map", b>>] <= g
    BY <1>4, <1>5
  <2> QED  BY <1>4, <1>5, <2>1, Bumped
<1>7. compute \in Seq(Ops) /\ copy \in Seq(Ops) /\ tail \in Seq(Ops)
  BY AreOps DEF Typed
<1>8. Good(compute', done, recorded')
  <2>1. recorded[op.signal] < op.nth /\ op.nth <= recorded'[op.signal]
    BY <1>2, <1>3, <1>5, <1>6
  <2>2. Good(compute, done, recorded) /\ Later(done, recorded)
    BY DEF Streams
  <2> QED  BY <1>2, <1>3, <1>4, <1>6, <1>7, <2>1, <2>2, GrownGood
<1>9. Good(copy, done, recorded') /\ Good(tail, done, recorded')
  BY <1>4, <1>6, <1>7, StillGood DEF Streams
<1>10. Later(done, recorded')
  BY <1>4, <1>6, LaterStill DEF Streams
<1>11. \A c \in {0, 1} : recorded'[<<"map", c>>] <= gen'
  <2> SUFFICES ASSUME NEW c \in {0, 1} PROVE recorded'[<<"map", c>>] <= gen'
    OBVIOUS
  <2>1. <<"map", c>> \in Events /\ recorded[<<"map", c>>] <= gen /\ recorded[<<"map", c>>] \in Nat
    BY <1>4, EventNames DEF Streams
  <2>2. recorded'[<<"map", c>>] = g \/ recorded'[<<"map", c>>] = recorded[<<"map", c>>]
    BY <1>6, <2>1
  <2>3. gen \in Nat
    BY Counters
  <2> QED  BY <1>1, <2>1, <2>2, <2>3
<1>12. copy' = copy /\ tail' = tail /\ done' = done
  BY DEF Plan
<1> QED  BY <1>8, <1>9, <1>10, <1>11, <1>12 DEF Streams

(* The streams once a copy has been enqueued, or none.                     *)
LEMMA IssuedGood ==
  ASSUME Types, NEW pos \in Nat, NEW rec \in [Events -> Nat], Issued(pos, rec),
         Good(copy, done, rec), Later(done, rec)
  PROVE  /\ Good(copy', done, recorded') /\ Later(rec, recorded') /\ Later(done, recorded')
         /\ recorded' \in [Events -> Nat]
         /\ \A b \in {0, 1} : recorded'[<<"map", b>>] = rec[<<"map", b>>]
<1> DEFINE e == <<"copied", pos % 2>>
<1>1. pos % 2 \in {0, 1} /\ e \in Events
  BY Parity, EventNames
<1>2. done \in [Events -> Nat] /\ rec[e] \in Nat /\ copy \in Seq(Ops)
  BY <1>1, AreOps DEF Types
<1> HIDE DEF e
<1>3. CASE Copied(pos, rec)
  <2>1. PICK op \in CopyOps : op.buf = pos % 2 /\ op.nth = rec[e] + 1 /\ Grown(copy, op, copy')
                              /\ recorded' = [rec EXCEPT ![e] = rec[e] + 1]
    BY <1>3 DEF Copied, e
  <2>2. op \in Ops /\ op.signal = e
    BY <2>1 DEF CopyOps, FillOp, e
  <2>3. PICK n \in Nat : n = rec[e] + 1 /\ rec[e] <= n /\ rec[e] < n
    <3>1. PICK m \in Nat : m = rec[e]
      BY <1>2
    <3>2. m + 1 \in Nat /\ m <= m + 1 /\ m < m + 1
      OBVIOUS
    <3> QED  BY <3>1, <3>2
  <2>4. /\ recorded' \in [Events -> Nat] /\ Later(rec, recorded') /\ recorded'[e] = n
        /\ \A f \in Events : f # e => recorded'[f] = rec[f]
    BY <1>1, <2>1, <2>3, Bumped
  <2>5. Good(copy', done, recorded')
    <3>1. rec[op.signal] < op.nth /\ op.nth <= recorded'[op.signal]
      BY <2>1, <2>2, <2>3, <2>4
    <3>2. op \in Ops /\ Grown(copy, op, copy') /\ recorded' \in [Events -> Nat] /\ Later(rec, recorded')
      BY <2>1, <2>2, <2>4
    <3>3. Good(copy, done, rec) /\ Later(done, rec)
      OBVIOUS
    <3> QED  BY <1>2, <3>1, <3>2, <3>3, GrownGood
  <2>6. Later(done, recorded')
    BY <1>2, <2>4, LaterStill
  <2>7. \A b \in {0, 1} : <<"map", b>> \in Events /\ <<"map", b>> # e
    BY EventNames DEF e
  <2> QED  BY <2>4, <2>5, <2>6, <2>7
<1>4. CASE copy' = copy /\ recorded' = rec
  BY <1>4 DEF Later
<1> QED  BY <1>3, <1>4 DEF Issued

LEMMA IssueStreams ==
  ASSUME Typed, Streams, NEW pos \in Nat, Issued(pos, recorded),
         compute' = compute, tail' = tail, done' = done, gen' = gen
  PROVE  Streams'
<1>1. recorded \in [Events -> Nat] /\ done \in [Events -> Nat]
  BY DEF Typed, Types
<1>2. /\ Good(copy', done, recorded') /\ Later(recorded, recorded') /\ Later(done, recorded')
      /\ recorded' \in [Events -> Nat]
      /\ \A b \in {0, 1} : recorded'[<<"map", b>>] = recorded[<<"map", b>>]
  BY <1>1, IssuedGood DEF Typed, Streams
<1>3. Good(compute, done, recorded') /\ Good(tail, done, recorded')
  BY <1>1, <1>2, AreOps, StillGood DEF Typed, Streams
<1> QED  BY <1>2, <1>3 DEF Streams

LEMMA TailStreams ==
  ASSUME StreamAssumption, Typed, Streams, NEW l \in Nat, TailTried(l),
         compute' = compute, copy' = copy, done' = done, gen' = gen
  PROVE  Streams'
<1> DEFINE e == <<"tail", 0>>
<1>1. recorded \in [Events -> Nat] /\ done \in [Events -> Nat] /\ e \in Events
      /\ recorded[e] \in Nat
      /\ compute \in Seq(Ops) /\ copy \in Seq(Ops) /\ tail \in Seq(Ops)
  BY EventNames, AreOps DEF Typed, Types
<1> HIDE DEF e
<1>2. CASE TailCopied(l)
  <2>1. PICK op \in TailOps : op.nth = recorded[e] + 1 /\ Grown(tail, op, tail')
                              /\ recorded' = [recorded EXCEPT ![e] = recorded[e] + 1]
    BY <1>2 DEF TailCopied, e
  <2>2. op \in Ops /\ op.signal = e
    BY <2>1 DEF TailOps, TailDma, e
  <2>3. PICK n \in Nat : n = recorded[e] + 1 /\ recorded[e] <= n /\ recorded[e] < n
    <3>1. PICK m \in Nat : m = recorded[e]
      BY <1>1
    <3>2. m + 1 \in Nat /\ m <= m + 1 /\ m < m + 1
      OBVIOUS
    <3> QED  BY <3>1, <3>2
  <2>4. /\ recorded' \in [Events -> Nat] /\ Later(recorded, recorded') /\ recorded'[e] = n
        /\ \A f \in Events : f # e => recorded'[f] = recorded[f]
    BY <1>1, <2>1, <2>3, Bumped
  <2>5. Good(tail', done, recorded')
    <3>1. recorded[op.signal] < op.nth /\ op.nth <= recorded'[op.signal]
      BY <2>1, <2>2, <2>3, <2>4
    <3>2. Good(tail, done, recorded) /\ Later(done, recorded)
      BY DEF Streams
    <3>3. op \in Ops /\ Grown(tail, op, tail') /\ recorded' \in [Events -> Nat] /\ Later(recorded, recorded')
      BY <2>1, <2>2, <2>4
    <3> QED  BY <1>1, <3>1, <3>2, <3>3, GrownGood
  <2>6. Good(compute, done, recorded') /\ Good(copy, done, recorded')
    BY <1>1, <2>4, StillGood DEF Streams
  <2>7. Later(done, recorded')
    BY <1>1, <2>4, LaterStill DEF Streams
  <2>8. \A b \in {0, 1} : <<"map", b>> \in Events /\ <<"map", b>> # e
    BY EventNames DEF e
  <2> QED  BY <2>4, <2>5, <2>6, <2>7, <2>8 DEF Streams
<1>3. CASE tail' = tail /\ recorded' = recorded
  BY <1>3 DEF Streams
<1> QED  BY <1>2, <1>3 DEF TailTried

Given(rec, e) == rec = [recorded EXCEPT ![e] = recorded[e] + 1]

LEMMA GroupStreams ==
  ASSUME StreamAssumption, Typed, Streams, ComputeGroup, NEW b \in {0, 1}, b = Position % 2,
         NEW rec \in [Events -> Nat],
         Given(rec, <<"free", b>>), NEW pos \in Nat, Issued(pos, rec)
  PROVE  Streams'
<1> DEFINE e == <<"free", b>>
<1>1. recorded \in [Events -> Nat] /\ done \in [Events -> Nat] /\ e \in Events
      /\ recorded[e] \in Nat
      /\ compute \in Seq(Ops) /\ copy \in Seq(Ops) /\ tail \in Seq(Ops)
  BY EventNames, AreOps DEF Typed, Types
<1> HIDE DEF e
<1>2. PICK op \in ComputeOps : op.kind = "group" /\ op.buf = b /\ op.nth = recorded[e] + 1
                               /\ Grown(compute, op, compute')
  BY GroupEnqueues DEF Typed, Enqueues, e
<1>3. op \in Ops /\ op.signal = e
  BY <1>2 DEF ComputeOps, MapOp, GroupOp, TailGroupOp, e
<1>4. PICK n \in Nat : n = recorded[e] + 1 /\ recorded[e] <= n /\ recorded[e] < n
  <2>1. PICK m \in Nat : m = recorded[e]
    BY <1>1
  <2>2. m + 1 \in Nat /\ m <= m + 1 /\ m < m + 1
    OBVIOUS
  <2> QED  BY <2>1, <2>2
<1>5. /\ Later(recorded, rec) /\ rec[e] = n
      /\ \A f \in Events : f # e => rec[f] = recorded[f]
  BY <1>1, <1>4, Bumped DEF e, Given
<1>6. Good(compute', done, rec)
  <2>1. recorded[op.signal] < op.nth /\ op.nth <= rec[op.signal]
    BY <1>2, <1>3, <1>4, <1>5
  <2>2. Good(compute, done, recorded) /\ Later(done, recorded)
    BY DEF Streams
  <2> QED  BY <1>1, <1>2, <1>3, <1>5, <2>1, <2>2, GrownGood
<1>7. Good(copy, done, rec) /\ Good(tail, done, rec)
  <2>1. Good(copy, done, recorded) /\ Good(tail, done, recorded)
    BY DEF Streams
  <2> QED  BY <1>1, <1>5, <2>1, StillGood
<1>8. Later(done, rec)
  BY <1>1, <1>5, LaterStill DEF Streams
<1>9. /\ Good(copy', done, recorded') /\ Later(rec, recorded') /\ Later(done, recorded')
      /\ recorded' \in [Events -> Nat]
      /\ \A c \in {0, 1} : recorded'[<<"map", c>>] = rec[<<"map", c>>]
  BY <1>7, <1>8, IssuedGood DEF Typed
<1>10. compute' \in Seq(Ops)
  <2>1. compute' \in Seq(ComputeOps) /\ ComputeOps \subseteq Ops
    BY GroupEnqueues DEF Typed, Enqueues, ComputeOps
  <2> QED  BY <2>1
<1>11. Good(compute', done, recorded') /\ Good(tail, done, recorded')
  BY <1>1, <1>6, <1>7, <1>9, <1>10, StillGood
<1>12. \A c \in {0, 1} : recorded'[<<"map", c>>] <= gen
  <2> SUFFICES ASSUME NEW c \in {0, 1} PROVE recorded'[<<"map", c>>] <= gen
    OBVIOUS
  <2>1. <<"map", c>> \in Events /\ <<"map", c>> # e
    BY EventNames DEF e
  <2>2. recorded[<<"map", c>>] <= gen
    BY DEF Streams
  <2> QED  BY <1>5, <1>9, <2>1, <2>2
<1>13. tail' = tail /\ done' = done /\ gen' = gen
  BY DEF ComputeGroup
<1> QED  BY <1>9, <1>11, <1>12, <1>13 DEF Streams

LEMMA TailGroupStreams == ASSUME StreamAssumption, Typed, Streams, ComputeTail PROVE Streams'
<1> DEFINE e == <<"tailFree", 0>>
<1>1. recorded \in [Events -> Nat] /\ done \in [Events -> Nat] /\ e \in Events
      /\ recorded[e] \in Nat
      /\ compute \in Seq(Ops) /\ copy \in Seq(Ops) /\ tail \in Seq(Ops)
  BY EventNames, AreOps DEF Typed, Types
<1> HIDE DEF e
<1>2. PICK op \in ComputeOps : op.kind = "tailGroup" /\ op.nth = recorded[e] + 1
                               /\ Grown(compute, op, compute')
  BY TailEnqueues DEF Typed, Enqueues, e
<1>3. op \in Ops /\ op.signal = e
  BY <1>2 DEF ComputeOps, MapOp, GroupOp, TailGroupOp, e
<1>4. PICK n \in Nat : n = recorded[e] + 1 /\ recorded[e] <= n /\ recorded[e] < n
  <2>1. PICK m \in Nat : m = recorded[e]
    BY <1>1
  <2>2. m + 1 \in Nat /\ m <= m + 1 /\ m < m + 1
    OBVIOUS
  <2> QED  BY <2>1, <2>2
<1>5. recorded' = [recorded EXCEPT ![e] = n]
  BY <1>4 DEF ComputeTail, e
<1>6. /\ recorded' \in [Events -> Nat] /\ Later(recorded, recorded') /\ recorded'[e] = n
      /\ \A f \in Events : f # e => recorded'[f] = recorded[f]
  BY <1>1, <1>4, <1>5, Bumped
<1>7. Good(compute', done, recorded')
  <2>1. recorded[op.signal] < op.nth /\ op.nth <= recorded'[op.signal]
    BY <1>2, <1>3, <1>4, <1>6
  <2>2. Good(compute, done, recorded) /\ Later(done, recorded)
    BY DEF Streams
  <2> QED  BY <1>1, <1>2, <1>3, <1>6, <2>1, <2>2, GrownGood
<1>8. Good(copy, done, recorded') /\ Good(tail, done, recorded')
  BY <1>1, <1>6, StillGood DEF Streams
<1>9. Later(done, recorded')
  BY <1>1, <1>6, LaterStill DEF Streams
<1>10. \A b \in {0, 1} : <<"map", b>> \in Events /\ <<"map", b>> # e
  BY EventNames DEF e
<1>11. copy' = copy /\ tail' = tail /\ done' = done /\ gen' = gen
  BY DEF ComputeTail
<1> QED  BY <1>6, <1>7, <1>8, <1>9, <1>10, <1>11 DEF Streams

(* The first operation of a queue runs.                                    *)
LEMMA RanGood ==
  ASSUME NEW q \in Seq(Ops), NEW r, Shrunk(q, r), done \in [Events -> Nat],
         recorded \in [Events -> Nat], Good(q, done, recorded), Later(done, recorded), Signal(q[1])
  PROVE  /\ Good(r, done', recorded) /\ Later(done', recorded) /\ Later(done, done')
         /\ done' \in [Events -> Nat]
         /\ done'[q[1].signal] = q[1].nth
         /\ \A e \in Events : e # q[1].signal => done'[e] = done[e]
<1>1. q[1] \in Ops /\ q[1].signal \in Events /\ q[1].nth \in Nat
  BY Numbered DEF Shrunk
<1>2. done[q[1].signal] < q[1].nth
  BY DEF Good, Waiting, Shrunk
<1>3. done' = [done EXCEPT ![q[1].signal] = q[1].nth]
  BY <1>1, <1>2 DEF Signal
<1>4. Good(r, done', recorded) /\ Later(done', recorded) /\ Later(done, done')
  <2>1. Ordered(q) /\ Waiting(q, done, recorded)
    BY DEF Good
  <2>2. /\ done' \in [Events -> Nat] /\ done'[q[1].signal] = q[1].nth
        /\ \A e \in Events : e # q[1].signal => done'[e] = done[e]
    BY <1>1, <1>3, Updated
  <2>3. /\ Ordered(r) /\ Waiting(r, done', recorded)
        /\ Later(done, done') /\ Later(done', recorded)
    <3>1. PICK d \in [Events -> Nat] : d = done
      OBVIOUS
    <3>2. PICK d2 \in [Events -> Nat] : d2 = done'
      BY <2>2
    <3>3. PICK rec \in [Events -> Nat] : rec = recorded
      OBVIOUS
    <3>4. Ordered(q) /\ Waiting(q, d, rec) /\ Later(d, rec) /\ Shrunk(q, r)
      BY <2>1, <3>1, <3>3
    <3>5. d2[q[1].signal] = q[1].nth /\ \A e \in Events : e # q[1].signal => d2[e] = d[e]
      BY <2>2, <3>1, <3>2
    <3>6. Ordered(r) /\ Waiting(r, d2, rec) /\ Later(d, d2) /\ Later(d2, rec)
      BY <3>4, <3>5, ShrunkOrdered
    <3> QED  BY <3>1, <3>2, <3>3, <3>6
  <2> QED  BY <2>3 DEF Good
<1> QED  BY <1>1, <1>3, <1>4, Updated

LEMMA OtherGood ==
  ASSUME NEW q \in Seq(Ops), NEW e \in Events, NEW d \in [Events -> Nat],
         done \in [Events -> Nat], recorded \in [Events -> Nat], Good(q, done, recorded),
         \A f \in Events : f # e => d[f] = done[f],
         \A i \in DOMAIN q : q[i].signal # e
  PROVE  Good(q, d, recorded)
<1>1. \A i \in DOMAIN q : d[q[i].signal] = done[q[i].signal]
  BY Numbered
<1>2. Later(recorded, recorded)
  BY DEF Later
<1> QED  BY <1>1, <1>2, OthersWaiting DEF Good

LEMMA RunStreams ==
  ASSUME StreamAssumption, Typed, Streams, RunCopy \/ RunTail \/ RunMap \/ RunGroup
  PROVE  Streams'
<1>1. recorded \in [Events -> Nat] /\ done \in [Events -> Nat]
      /\ compute \in Seq(Ops) /\ copy \in Seq(Ops) /\ tail \in Seq(Ops)
  BY AreOps DEF Typed, Types
<1>2. /\ \A i \in DOMAIN compute : compute[i].signal[1] \in {"map", "free", "tailFree"}
      /\ \A i \in DOMAIN copy : copy[i].signal[1] = "copied"
      /\ \A i \in DOMAIN tail : tail[i].signal[1] = "tail"
  BY Shapes DEF Typed, ComputeOps, CopyOps, TailOps, MapOp, GroupOp, TailGroupOp, FillOp, TailDma
<1>3. CASE RunCopy
  <2>1. Head(copy) = copy[1] /\ Shrunk(copy, copy') /\ Signal(Head(copy))
    BY <1>3, HeadOps DEF RunCopy, Runs, Typed
  <2>2. /\ Good(copy', done', recorded) /\ Later(done', recorded)
        /\ done' \in [Events -> Nat]
        /\ \A e \in Events : e # copy[1].signal => done'[e] = done[e]
    BY <1>1, <2>1, RanGood DEF Streams
  <2>3. copy[1].signal \in Events /\ copy[1].signal[1] = "copied"
    BY <1>1, <1>2, <2>1, Numbered DEF Shrunk
  <2>4. Good(compute, done', recorded)
    BY <1>1, <1>2, <2>2, <2>3, OtherGood DEF Streams
  <2>5. Good(tail, done', recorded)
    BY <1>1, <1>2, <2>2, <2>3, OtherGood DEF Streams
  <2> QED  BY <1>3, <2>2, <2>4, <2>5 DEF RunCopy, Streams, hostVars
<1>4. CASE RunTail
  <2>1. Head(tail) = tail[1] /\ Shrunk(tail, tail') /\ Signal(Head(tail))
    BY <1>4, HeadOps DEF RunTail, Runs, Typed
  <2>2. /\ Good(tail', done', recorded) /\ Later(done', recorded)
        /\ done' \in [Events -> Nat]
        /\ \A e \in Events : e # tail[1].signal => done'[e] = done[e]
    BY <1>1, <2>1, RanGood DEF Streams
  <2>3. tail[1].signal \in Events /\ tail[1].signal[1] = "tail"
    BY <1>1, <1>2, <2>1, Numbered DEF Shrunk
  <2>4. Good(compute, done', recorded)
    BY <1>1, <1>2, <2>2, <2>3, OtherGood DEF Streams
  <2>5. Good(copy, done', recorded)
    BY <1>1, <1>2, <2>2, <2>3, OtherGood DEF Streams
  <2> QED  BY <1>4, <2>2, <2>4, <2>5 DEF RunTail, Streams, hostVars
<1>5. CASE RunMap \/ RunGroup
  <2>1. Head(compute) = compute[1] /\ Shrunk(compute, compute') /\ Signal(Head(compute))
    BY <1>5, HeadOps DEF RunMap, RunGroup, Runs, Typed
  <2>2. /\ Good(compute', done', recorded) /\ Later(done', recorded)
        /\ done' \in [Events -> Nat]
        /\ \A e \in Events : e # compute[1].signal => done'[e] = done[e]
    BY <1>1, <2>1, RanGood DEF Streams
  <2>3. compute[1].signal \in Events /\ compute[1].signal[1] \in {"map", "free", "tailFree"}
    <3>1. 1 \in DOMAIN compute
      BY <2>1 DEF Shrunk
    <3>2. compute[1].signal[1] \in {"map", "free", "tailFree"}
      BY <1>2, <3>1
    <3>3. compute[1].signal \in Events
      BY <1>1, <3>1, Numbered
    <3> QED  BY <3>2, <3>3
  <2>4. Good(copy, done', recorded)
    BY <1>1, <1>2, <2>2, <2>3, OtherGood DEF Streams
  <2>5. Good(tail, done', recorded)
    BY <1>1, <1>2, <2>2, <2>3, OtherGood DEF Streams
  <2> QED  BY <1>5, <2>2, <2>4, <2>5 DEF RunMap, RunGroup, Streams, hostVars, memVars
<1> QED  BY <1>3, <1>4, <1>5

-----------------------------------------------------------------------------
(* Sequenced: the order of the compute stream.                             *)

(* Groups computed before an operation of the compute stream and after it, *)
(* and the step whose map it leaves behind or needs.                       *)
Before(o) == IF o.kind = "map" THEN (o.key - 1) * Groups ELSE o.key - 1
After(o)  == IF o.kind = "map" THEN (o.key - 1) * Groups ELSE o.key
StepOf(o) == IF o.kind = "map" THEN o.key ELSE ((o.key - 1) \div Groups) + 1
Reached(q, c, i) == IF i = 1 THEN c ELSE After(q[i - 1])
MapAt(q, m, i)   == IF i = 1 THEN m ELSE StepOf(q[i - 1])
Chained(q, c, m, e, g) ==
  /\ \A i \in DOMAIN q :
       /\ Before(q[i]) = Reached(q, c, i)
       /\ q[i].kind # "map" => StepOf(q[i]) = MapAt(q, m, i)
  /\ Reached(q, c, Len(q) + 1) = e
  /\ MapAt(q, m, Len(q) + 1) = g

(* Groups enqueued so far.                                                 *)
Enqueued ==
  IF pc = "idle" THEN gen * Groups
    ELSE (gen - 1) * Groups + at * OfLayer + group + (IF pc = "nextTail" THEN 1 ELSE 0)
Chain == Chained(compute, computed, mapDev, Enqueued, gen)
MapsKept ==
  \A i \in DOMAIN compute :
    compute[i].kind = "map" => mapHost[compute[i].buf] = compute[i].key
Sequenced == Chain /\ MapsKept

LEMMA ChainGrown ==
  ASSUME NEW q, NEW op, NEW r, Grown(q, op, r), NEW c, NEW m, NEW e, NEW g,
         Chained(q, c, m, e, g), Before(op) = e, op.kind # "map" => StepOf(op) = g
  PROVE  Chained(r, c, m, After(op), StepOf(op))
<1>1. Len(q) \in Nat /\ DOMAIN q = 1 .. Len(q) /\ DOMAIN r = 1 .. Len(q) + 1
      /\ Len(r) = Len(q) + 1 /\ r[Len(q) + 1] = op /\ \A i \in 1 .. Len(q) : r[i] = q[i]
  BY DEF Grown
<1>2. ASSUME NEW i \in 1 .. Len(q) + 1
      PROVE  Reached(r, c, i) = Reached(q, c, i) /\ MapAt(r, m, i) = MapAt(q, m, i)
  <2>1. i # 1 => i - 1 \in 1 .. Len(q)
    BY <1>1
  <2>2. i # 1 => r[i - 1] = q[i - 1]
    BY <1>1, <2>1
  <2> QED  BY <2>2 DEF Reached, MapAt
<1>3. ASSUME NEW i \in DOMAIN r
      PROVE  /\ Before(r[i]) = Reached(r, c, i)
             /\ r[i].kind # "map" => StepOf(r[i]) = MapAt(r, m, i)
  <2>1. CASE i \in 1 .. Len(q)
    <3>1. r[i] = q[i] /\ i \in DOMAIN q /\ i \in 1 .. Len(q) + 1
      BY <1>1, <2>1
    <3>2. Before(q[i]) = Reached(q, c, i) /\ (q[i].kind # "map" => StepOf(q[i]) = MapAt(q, m, i))
      BY <3>1 DEF Chained
    <3> QED  BY <1>2, <3>1, <3>2
  <2>2. CASE i = Len(q) + 1
    <3>1. r[i] = op /\ i \in 1 .. Len(q) + 1
      BY <1>1, <2>2
    <3>2. Reached(q, c, i) = e /\ MapAt(q, m, i) = g
      BY <2>2 DEF Chained
    <3> QED  BY <1>2, <3>1, <3>2
  <2> QED  BY <1>1, <1>3, <2>1, <2>2
<1>4. Len(r) + 1 # 1 /\ (Len(r) + 1) - 1 = Len(q) + 1
  BY <1>1
<1>5. Reached(r, c, Len(r) + 1) = After(op) /\ MapAt(r, m, Len(r) + 1) = StepOf(op)
  BY <1>1, <1>4 DEF Reached, MapAt
<1> QED  BY <1>3, <1>5 DEF Chained

LEMMA ChainShrunk ==
  ASSUME NEW q, NEW r, Shrunk(q, r), NEW c, NEW m, NEW e, NEW g, Chained(q, c, m, e, g)
  PROVE  /\ Before(q[1]) = c /\ (q[1].kind # "map" => StepOf(q[1]) = m)
         /\ Chained(r, After(q[1]), StepOf(q[1]), e, g)
<1>1. Len(q) \in Nat /\ Len(q) >= 1 /\ DOMAIN q = 1 .. Len(q) /\ DOMAIN r = 1 .. Len(q) - 1
      /\ Len(r) = Len(q) - 1 /\ \A i \in 1 .. Len(q) - 1 : r[i] = q[i + 1]
  BY DEF Shrunk
<1>2. Before(q[1]) = c /\ (q[1].kind # "map" => StepOf(q[1]) = m)
  <2>1. 1 \in DOMAIN q
    BY <1>1
  <2> QED  BY <2>1 DEF Chained, Reached, MapAt
<1>3. ASSUME NEW i \in 1 .. Len(q)
      PROVE  /\ Reached(r, After(q[1]), i) = Reached(q, c, i + 1)
             /\ MapAt(r, StepOf(q[1]), i) = MapAt(q, m, i + 1)
  <2>1. i + 1 # 1 /\ (i + 1) - 1 = i
    OBVIOUS
  <2>2. CASE i = 1
    BY <2>1, <2>2 DEF Reached, MapAt
  <2>3. CASE i # 1
    <3>1. i - 1 \in 1 .. Len(q) - 1 /\ (i - 1) + 1 = i
      BY <1>1, <2>3
    <3>2. r[i - 1] = q[i]
      BY <1>1, <3>1
    <3> QED  BY <2>1, <2>3, <3>2 DEF Reached, MapAt
  <2> QED  BY <2>2, <2>3
<1>4. ASSUME NEW i \in DOMAIN r
      PROVE  /\ Before(r[i]) = Reached(r, After(q[1]), i)
             /\ r[i].kind # "map" => StepOf(r[i]) = MapAt(r, StepOf(q[1]), i)
  <2>1. i + 1 \in DOMAIN q /\ r[i] = q[i + 1] /\ i \in 1 .. Len(q)
    BY <1>1
  <2>2. Before(q[i + 1]) = Reached(q, c, i + 1)
        /\ (q[i + 1].kind # "map" => StepOf(q[i + 1]) = MapAt(q, m, i + 1))
    BY <2>1 DEF Chained
  <2> QED  BY <1>3, <2>1, <2>2
<1>5. /\ Reached(r, After(q[1]), Len(r) + 1) = e
      /\ MapAt(r, StepOf(q[1]), Len(r) + 1) = g
  <2>1. Len(r) + 1 = Len(q) /\ Len(q) \in 1 .. Len(q)
    BY <1>1
  <2>2. Reached(q, c, Len(q) + 1) = e /\ MapAt(q, m, Len(q) + 1) = g
    BY DEF Chained
  <2>3. /\ Reached(r, After(q[1]), Len(q)) = Reached(q, c, Len(q) + 1)
        /\ MapAt(r, StepOf(q[1]), Len(q)) = MapAt(q, m, Len(q) + 1)
    BY <1>3, <2>1
  <2> QED  BY <2>1, <2>2, <2>3
<1> QED  BY <1>2, <1>4, <1>5 DEF Chained

LEMMA PlanSequenced ==
  ASSUME StreamAssumption, Typed, Streams, Sequenced, Plan PROVE Sequenced'
<1>1. PICK g \in Nat, b \in {0, 1} : g = gen' /\ b = g % 2 /\ g = gen + 1
  <2>1. gen \in Nat /\ gen' = gen + 1
    BY Counters DEF Plan
  <2>2. gen + 1 \in Nat
    BY <2>1
  <2>3. (gen + 1) % 2 \in {0, 1}
    BY <2>2, Parity
  <2> QED  BY <2>1, <2>2, <2>3
<1>2. PICK op \in ComputeOps : op.kind = "map" /\ op.buf = b /\ op.key = g /\ Grown(compute, op, compute')
  BY <1>1, PlanEnqueues DEF Typed, Enqueues
<1>3. gen \in Nat /\ Groups \in Nat /\ OfLayer \in Nat
  BY Sizes, Counters
<1>4. Enqueued = gen * Groups /\ Enqueued' = gen * Groups
  <2>1. Enqueued = gen * Groups
    BY DEF Plan, Enqueued
  <2>2. Enqueued' = (g - 1) * Groups + 0 * OfLayer + 0 + 0
    BY <1>1 DEF Plan, Enqueued
  <2>3. g - 1 = gen /\ 0 * OfLayer = 0 /\ gen * Groups \in Int
    BY <1>1, <1>3
  <2> QED  BY <2>1, <2>2, <2>3
<1>5. Before(op) = gen * Groups /\ After(op) = gen * Groups /\ StepOf(op) = g
  <2>1. g - 1 = gen
    BY <1>1, <1>3
  <2> QED  BY <1>2, <2>1 DEF Before, After, StepOf
<1>6. Chained(compute', computed, mapDev, gen * Groups, g)
  <2>1. Chained(compute, computed, mapDev, gen * Groups, gen)
    BY <1>4 DEF Sequenced, Chain
  <2> QED  BY <1>2, <1>5, <2>1, ChainGrown
<1>7. Chain'
  <2>1. computed' = computed /\ mapDev' = mapDev
    BY DEF Plan, resultVars
  <2> QED  BY <1>1, <1>4, <1>6, <2>1 DEF Chain
<1>8. MapsKept'
  <2> SUFFICES ASSUME NEW i \in DOMAIN compute', compute'[i].kind = "map"
               PROVE  mapHost'[compute'[i].buf] = compute'[i].key
    BY DEF MapsKept
  <2>1. mapHost' = [mapHost EXCEPT ![b] = g] /\ mapHost \in [{0, 1} -> Nat]
    BY <1>1 DEF Plan, Typed, Types
  <2>2. CASE i = Len(compute) + 1
    <3>1. compute'[i] = op
      BY <1>2, <2>2 DEF Grown
    <3> QED  BY <1>2, <2>1, <3>1
  <2>3. CASE i \in 1 .. Len(compute)
    <3>1. i \in DOMAIN compute /\ compute'[i] = compute[i]
      BY <1>2, <2>3 DEF Grown
    <3>2. mapHost[compute[i].buf] = compute[i].key
      BY <2>2, <3>1 DEF Sequenced, MapsKept
    <3>3. compute[i] \in Ops /\ MapOp(compute[i])
      BY <3>1, Shapes DEF Typed, ComputeOps, GroupOp, TailGroupOp
    <3>4. compute[i].buf \in {0, 1} /\ compute[i].signal = <<"map", compute[i].buf>>
      BY <3>3 DEF MapOp
    <3>5. compute[i].buf # b
      <4>1. SUFFICES ASSUME compute[i].buf = b PROVE FALSE
        OBVIOUS
      <4>2. done[<<"map", b>>] < compute[i].nth /\ compute[i].nth <= recorded[<<"map", b>>]
        BY <3>1, <3>4, <4>1 DEF Streams, Good, Waiting
      <4>3. done[<<"map", b>>] >= recorded[<<"map", b>>]
        BY <1>1 DEF Plan
      <4>4. done[<<"map", b>>] \in Nat /\ recorded[<<"map", b>>] \in Nat /\ compute[i].nth \in Nat
        BY <3>3, Counters, EventNames DEF Ops
      <4> QED  BY <4>2, <4>3, <4>4
    <3> QED  BY <2>1, <3>1, <3>2, <3>4, <3>5
  <2> QED  BY <1>2, <2>2, <2>3 DEF Grown
<1> QED  BY <1>7, <1>8 DEF Sequenced

(* A group enqueued behind the others.                                     *)
LEMMA GroupChained ==
  ASSUME Typed, Sequenced, NEW op \in ComputeOps, op.kind # "map",
         Grown(compute, op, compute'), Before(op) = Enqueued, StepOf(op) = gen,
         Enqueued' = op.key, UNCHANGED <<gen, computed, mapDev, mapHost>>
  PROVE  Sequenced'
<1>1. Chained(compute, computed, mapDev, Enqueued, gen)
  BY DEF Sequenced, Chain
<1>2. Chained(compute', computed, mapDev, op.key, gen)
  <2>1. Chained(compute', computed, mapDev, After(op), StepOf(op))
    BY <1>1, ChainGrown
  <2> QED  BY <2>1 DEF After
<1>3. Chain'
  BY <1>2 DEF Chain
<1>4. MapsKept'
  <2> SUFFICES ASSUME NEW i \in DOMAIN compute', compute'[i].kind = "map"
               PROVE  mapHost[compute'[i].buf] = compute'[i].key
    BY DEF MapsKept
  <2>1. i \in DOMAIN compute /\ compute'[i] = compute[i]
    BY DEF Grown
  <2> QED  BY <2>1 DEF Sequenced, MapsKept
<1> QED  BY <1>3, <1>4 DEF Sequenced

(* A step, and its part of the numbering.                                  *)
LEMMA NumberedStep ==
  ASSUME StreamAssumption, Typed, pc # "idle", NEW k \in Nat, k < OfLayer
  PROVE  (((gen - 1) * Groups + at * OfLayer + k) \div Groups) + 1 = gen
<1>1. PICK G \in Nat, P \in Nat, s \in Nat, a \in Nat, L \in Nat :
        G = Groups /\ P = OfLayer /\ s = gen - 1 /\ a = at /\ L = NumLayers
  <2>1. gen \in Nat /\ gen >= 1 /\ at \in Nat
    BY Counters DEF Typed, Control
  <2>2. gen - 1 \in Nat
    BY <2>1
  <2> QED  BY <2>1, <2>2, Sizes
<1>2. a + 1 <= L /\ G = L * P /\ G >= 1 /\ k < P
  BY <1>1, Sizes, Counters DEF Groups
<1>3. (a + 1) * P <= L * P
  BY <1>2, Z3
<1>4. (a + 1) * P = a * P + P /\ a * P \in Nat
  BY Z3
<1>5. PICK r \in Nat : r = a * P + k
  BY <1>4
<1>6. r < G
  <2>1. PICK x \in Nat : x = a * P
    BY <1>4
  <2> QED  BY <1>2, <1>3, <1>4, <1>5, <2>1
<1>7. ((s * G) + r) \div G = s
  BY <1>2, <1>6, Quotient
<1>8. (gen - 1) * Groups + at * OfLayer + k = (s * G) + r
  <2>1. PICK x \in Nat : x = a * P
    BY <1>4
  <2>2. PICK y \in Int : y = s * G
    OBVIOUS
  <2>3. (gen - 1) * Groups + at * OfLayer + k = (y + x) + k
    BY <1>1, <2>1, <2>2
  <2>4. r = x + k
    BY <1>5, <2>1
  <2> QED  BY <2>2, <2>3, <2>4
<1>9. gen = s + 1
  <2>1. gen \in Nat /\ s = gen - 1
    BY <1>1, Counters
  <2> QED  BY <2>1
<1> QED  BY <1>1, <1>7, <1>8, <1>9

LEMMA EnqueuedInt ==
  ASSUME StreamAssumption, Typed
  PROVE  /\ (gen - 1) * Groups + at * OfLayer \in Int /\ gen * Groups \in Int
         /\ gen * Groups = (gen - 1) * Groups + Groups
<1>1. gen \in Nat /\ at \in Nat /\ Groups \in Nat /\ OfLayer \in Nat
  BY Sizes, Counters
<1> QED  BY <1>1, Z3

LEMMA GroupSequenced ==
  ASSUME StreamAssumption, Typed, Sequenced, ComputeGroup PROVE Sequenced'
<1>1. PICK b \in {0, 1} : b = Position % 2
  <2>1. Position \in Nat
    BY Counters, GroupNumber
  <2> QED  BY <2>1, Parity
<1>2. PICK op \in ComputeOps : op.kind = "group" /\ op.key = ArenaGroup(Position)
                               /\ Grown(compute, op, compute')
  BY <1>1, GroupEnqueues DEF Typed, Enqueues
<1>3. gen \in Nat /\ at \in Nat /\ group \in Nat /\ group < PerLayer /\ pc = "convert"
  BY Counters DEF ComputeGroup, Typed, Control
<1>4. PICK z \in Int : z = (gen - 1) * Groups + at * OfLayer
  BY EnqueuedInt
<1>5. op.key = (z + group) + 1
  <2>1. ArenaGroup(Position) = (gen - 1) * Groups + at * OfLayer + group + 1
    BY <1>3, GroupNumber
  <2> QED  BY <1>2, <1>4, <2>1
<1>6. op.key - 1 = z + group
  BY <1>3, <1>5
<1>7. Before(op) = Enqueued
  <2>1. Enqueued = (gen - 1) * Groups + at * OfLayer + group + 0
    BY <1>3 DEF Enqueued
  <2>2. z + group + 0 = z + group
    BY <1>3
  <2> QED  BY <1>2, <1>4, <1>6, <2>1, <2>2 DEF Before
<1>8. StepOf(op) = gen
  <2>1. group < OfLayer
    BY <1>3, Sizes
  <2>2. ((z + group) \div Groups) + 1 = gen
    BY <1>3, <1>4, <2>1, NumberedStep
  <2> QED  BY <1>2, <1>6, <2>2 DEF StepOf
<1>9. Enqueued' = op.key
  <2>1. gen' = gen /\ at' = at /\ group' = group + 1 /\ pc' = "groups"
    BY DEF ComputeGroup
  <2>2. Enqueued' = (gen - 1) * Groups + at * OfLayer + (group + 1) + 0
    BY <2>1 DEF Enqueued
  <2>3. z + (group + 1) + 0 = (z + group) + 1
    BY <1>3
  <2> QED  BY <1>4, <1>5, <2>2, <2>3
<1>10. UNCHANGED <<gen, computed, mapDev, mapHost>>
  BY DEF ComputeGroup, memVars, resultVars
<1> QED  BY <1>2, <1>7, <1>8, <1>9, <1>10, GroupChained

LEMMA TailGroupSequenced ==
  ASSUME StreamAssumption, Typed, Sequenced, ComputeTail PROVE Sequenced'
<1>1. PICK op \in ComputeOps : op.kind = "tailGroup" /\ op.key = TailGroup(gen, at)
                               /\ Grown(compute, op, compute')
  BY TailEnqueues DEF Typed, Enqueues
<1>2. /\ gen \in Nat /\ at \in Nat /\ group \in Nat /\ group = PerLayer /\ pc = "tailGroup"
      /\ PerLayer \in Nat /\ OfLayer = PerLayer + 1
  BY Counters, Sizes DEF ComputeTail, Typed, Control
<1>3. PICK z \in Int : z = (gen - 1) * Groups + at * OfLayer
  BY EnqueuedInt
<1>4. op.key = (z + group) + 1
  <2>1. TailGroup(gen, at) = (gen - 1) * Groups + at * OfLayer + OfLayer
    BY <1>2, GroupNumber
  <2> QED  BY <1>1, <1>2, <1>3, <2>1
<1>5. op.key - 1 = z + group
  BY <1>2, <1>4
<1>6. Before(op) = Enqueued
  <2>1. Enqueued = (gen - 1) * Groups + at * OfLayer + group + 0
    BY <1>2 DEF Enqueued
  <2>2. z + group + 0 = z + group
    BY <1>2
  <2> QED  BY <1>1, <1>3, <1>5, <2>1, <2>2 DEF Before
<1>7. StepOf(op) = gen
  <2>1. group < OfLayer
    BY <1>2
  <2>2. ((z + group) \div Groups) + 1 = gen
    BY <1>2, <1>3, <2>1, NumberedStep
  <2> QED  BY <1>1, <1>5, <2>2 DEF StepOf
<1>8. Enqueued' = op.key
  <2>1. gen' = gen /\ at' = at /\ group' = group /\ pc' = "nextTail"
    BY DEF ComputeTail
  <2>2. Enqueued' = (gen - 1) * Groups + at * OfLayer + group + 1
    BY <2>1 DEF Enqueued
  <2> QED  BY <1>3, <1>4, <2>2
<1>9. UNCHANGED <<gen, computed, mapDev, mapHost>>
  BY DEF ComputeTail, memVars, resultVars
<1> QED  BY <1>1, <1>6, <1>7, <1>8, <1>9, GroupChained

(* Nothing enqueued and nothing run.                                       *)
LEMMA StillSequenced ==
  ASSUME Sequenced, Enqueued' = Enqueued, UNCHANGED <<gen, compute, computed, mapDev, mapHost>>
  PROVE  Sequenced'
  BY DEF Sequenced, Chain, MapsKept

LEMMA EndLayerSequenced ==
  ASSUME StreamAssumption, Typed, Sequenced, EndLayer PROVE Sequenced'
<1>1. /\ gen \in Nat /\ at \in Nat /\ group \in Nat /\ group = PerLayer /\ PerLayer \in Nat
      /\ OfLayer \in Nat /\ at < NumLayers /\ NumLayers \in Nat
  BY Counters, Sizes DEF EndLayer, Typed, Control
<1>2. PICK y \in Int, x \in Int : y = (gen - 1) * Groups /\ x = at * OfLayer
  <2>1. (gen - 1) \in Int /\ Groups \in Nat
    BY <1>1, Sizes
  <2>2. (gen - 1) * Groups \in Int /\ at * OfLayer \in Int
    BY <1>1, <2>1
  <2> QED  BY <2>2
<1>3. Enqueued = (y + x) + OfLayer
  <2>1. CASE HasTail
    <3>1. pc = "nextTail" /\ OfLayer = PerLayer + 1
      BY <2>1, Sizes DEF EndLayer
    <3>2. Enqueued = (gen - 1) * Groups + at * OfLayer + group + 1
      BY <3>1 DEF Enqueued
    <3>3. (y + x) + group + 1 = (y + x) + OfLayer
      BY <1>1, <3>1
    <3> QED  BY <1>2, <3>2, <3>3
  <2>2. CASE ~HasTail
    <3>1. pc = "groups" /\ OfLayer = PerLayer
      BY <2>2, Sizes DEF EndLayer
    <3>2. Enqueued = (gen - 1) * Groups + at * OfLayer + group + 0
      BY <3>1 DEF Enqueued
    <3>3. (y + x) + group + 0 = (y + x) + OfLayer
      BY <1>1, <3>1
    <3> QED  BY <1>2, <3>2, <3>3
  <2> QED  BY <2>1, <2>2
<1>4. (at + 1) * OfLayer = x + OfLayer
  BY <1>1, <1>2, Z3
<1>5. gen' = gen
  BY DEF EndLayer
<1>6. CASE at + 1 < NumLayers
  <2>1. at' = at + 1 /\ pc' = "first" /\ group' = 0
    BY <1>6 DEF EndLayer
  <2>2. Enqueued' = (gen - 1) * Groups + (at + 1) * OfLayer + 0 + 0
    BY <1>5, <2>1 DEF Enqueued
  <2>3. y + (x + OfLayer) + 0 + 0 = (y + x) + OfLayer
    BY <1>1
  <2>4. Enqueued' = Enqueued
    BY <1>2, <1>3, <1>4, <2>2, <2>3
  <2> QED  BY <2>4, StillSequenced DEF EndLayer, memVars, resultVars
<1>7. CASE ~(at + 1 < NumLayers)
  <2>1. at + 1 = NumLayers /\ pc' = "idle"
    BY <1>1, <1>7 DEF EndLayer
  <2>2. Enqueued' = gen * Groups
    BY <1>5, <2>1 DEF Enqueued
  <2>3. Groups = x + OfLayer
    BY <1>4, <2>1 DEF Groups
  <2>4. gen * Groups = y + Groups
    BY <1>2, EnqueuedInt
  <2>5. Enqueued' = Enqueued
    <3>1. y + (x + OfLayer) = (y + x) + OfLayer
      BY <1>1
    <3> QED  BY <1>3, <2>2, <2>3, <2>4, <3>1
  <2> QED  BY <2>5, StillSequenced DEF EndLayer, memVars, resultVars
<1> QED  BY <1>6, <1>7

(* The rest of the host and the reader.                                    *)
LEMMA RestSequenced ==
  ASSUME Sequenced, \/ IssueFirst \/ IssueSecond \/ RequestTail \/ EarlyTail \/ IssueGroup
                    \/ AwaitTail \/ Reader \/ RunCopy \/ RunTail
  PROVE  Sequenced'
<1>1. UNCHANGED <<gen, compute, computed, mapDev, mapHost, at, group>>
  BY DEF IssueFirst, IssueSecond, RequestTail, EarlyTail, IssueGroup, AwaitTail, Reader,
         ReaderGet, StartRead, EndRead, RunCopy, RunTail, hostVars, streamVars, memVars, resultVars
<1>2. (pc' = "idle" <=> pc = "idle") /\ (pc' = "nextTail" <=> pc = "nextTail")
  BY DEF IssueFirst, IssueSecond, RequestTail, EarlyTail, IssueGroup, AwaitTail, Reader,
         ReaderGet, StartRead, EndRead, RunCopy, RunTail, hostVars
<1>3. Enqueued' = Enqueued
  BY <1>1, <1>2 DEF Enqueued
<1> QED  BY <1>1, <1>3, StillSequenced

(* What the compute stream's next operation is: the next group, or a map.  *)
LEMMA HeadSequenced ==
  ASSUME Typed, Sequenced, compute # <<>>
  PROVE  /\ Head(compute) = compute[1] /\ compute[1] \in ComputeOps
         /\ Shrunk(compute, Tail(compute))
         /\ Before(compute[1]) = computed
         /\ compute[1].kind # "map" => StepOf(compute[1]) = mapDev
         /\ compute[1].kind = "map" => mapHost[compute[1].buf] = compute[1].key
         /\ Chained(Tail(compute), After(compute[1]), StepOf(compute[1]), Enqueued, gen)
<1>1. Head(compute) = compute[1] /\ compute[1] \in ComputeOps /\ Shrunk(compute, Tail(compute))
  BY HeadOps DEF Typed
<1>2. 1 \in DOMAIN compute
  BY <1>1 DEF Shrunk
<1>3. compute[1].kind = "map" => mapHost[compute[1].buf] = compute[1].key
  BY <1>2 DEF Sequenced, MapsKept
<1>4. Chained(compute, computed, mapDev, Enqueued, gen)
  BY DEF Sequenced, Chain
<1> QED  BY <1>1, <1>3, <1>4, ChainShrunk

LEMMA ShrunkMaps ==
  ASSUME MapsKept, Shrunk(compute, compute'), mapHost' = mapHost PROVE MapsKept'
<1> SUFFICES ASSUME NEW i \in DOMAIN compute', compute'[i].kind = "map"
             PROVE  mapHost[compute'[i].buf] = compute'[i].key
  BY DEF MapsKept
<1>1. i + 1 \in DOMAIN compute /\ compute'[i] = compute[i + 1]
  BY DEF Shrunk
<1> QED  BY <1>1 DEF MapsKept

LEMMA RunSequenced ==
  ASSUME StreamAssumption, Typed, Sequenced, RunMap \/ RunGroup PROVE Sequenced'
<1>1. compute # <<>> /\ compute' = Tail(compute) /\ mapHost' = mapHost
  BY DEF RunMap, RunGroup, Runs, memVars
<1>2. /\ Head(compute) = compute[1] /\ compute[1] \in ComputeOps
      /\ Shrunk(compute, compute') /\ Before(compute[1]) = computed
      /\ compute[1].kind # "map" => StepOf(compute[1]) = mapDev
      /\ compute[1].kind = "map" => mapHost[compute[1].buf] = compute[1].key
      /\ Chained(compute', After(compute[1]), StepOf(compute[1]), Enqueued, gen)
  BY <1>1, HeadSequenced
<1>3. Enqueued' = Enqueued /\ gen' = gen
  BY DEF RunMap, RunGroup, hostVars, Enqueued
<1>4. computed' = After(compute[1]) /\ mapDev' = StepOf(compute[1])
  <2>1. CASE RunMap
    <3>1. compute[1].kind = "map" /\ computed' = computed /\ mapDev' = mapHost[compute[1].buf]
      BY <1>2, <2>1 DEF RunMap, resultVars
    <3> QED  BY <1>2, <3>1 DEF Before, After, StepOf
  <2>2. CASE RunGroup
    <3>1. compute[1].kind # "map" /\ computed' = computed + 1 /\ mapDev' = mapDev
      BY <1>2, <2>2 DEF RunGroup, memVars
    <3>2. computed = compute[1].key - 1 /\ compute[1].key \in Int
      BY <1>2, <3>1 DEF Before, ComputeOps, Ops
    <3>3. computed + 1 = compute[1].key
      BY <3>2
    <3> QED  BY <1>2, <3>1, <3>3 DEF After
  <2> QED  BY <2>1, <2>2
<1>5. MapsKept'
  BY <1>1, <1>2, ShrunkMaps DEF Sequenced
<1>6. Chain'
  BY <1>2, <1>3, <1>4 DEF Chain
<1> QED  BY <1>5, <1>6 DEF Sequenced

-----------------------------------------------------------------------------
(* ArenaFilled: the two raw buffers.                                       *)

(* The raw buffer b holds group k once its nth copy has been made: the     *)
(* copy is on its way or was the last one.                                 *)
Filled(q, d, w, b, n, k) ==
  \/ \E i \in DOMAIN q : q[i].buf = b /\ q[i].nth = n /\ q[i].key = k
  \/ d[<<"copied", b>>] = n /\ w[b] = k
Number(g, pos) == (g - 1) * Groups + (pos \div PerLayer) * OfLayer + (pos % PerLayer) + 1

(* Groups of the step converted, or about to be.                           *)
Reaching == IF pc = "idle" THEN Items ELSE Position
GroupsFilled ==
  \A i \in DOMAIN compute : compute[i].kind = "group" =>
    /\ compute[i].until = compute[i].nth
    /\ Filled(copy, done, raw, compute[i].buf, compute[i].nth, compute[i].key)
FillsFollow == \A i \in DOMAIN copy : copy[i].nth = copy[i].until + 1
InStep(b, R) ==
  loaded[b] # -1 => loaded[b] \in 0 .. Items - 1 /\ loaded[b] % 2 = b /\ loaded[b] <= R + 1
Ahead(b, rec, R) ==
  loaded[b] >= R =>
    /\ rec[<<"copied", b>>] = rec[<<"free", b>>] + 1
    /\ Filled(copy, done, raw, b, rec[<<"copied", b>>], Number(gen, loaded[b]))
Behind(b, rec, R) == loaded[b] < R => rec[<<"copied", b>>] = rec[<<"free", b>>]
BufferGood(b, rec, R) == InStep(b, R) /\ Ahead(b, rec, R) /\ Behind(b, rec, R)
Converting == pc = "convert" => loaded[Position % 2] = Position
ArenaFilled ==
  /\ Converting /\ GroupsFilled /\ FillsFollow
  /\ \A b \in {0, 1} : BufferGood(b, recorded, Reaching)

LEMMA FilledGrown ==
  ASSUME NEW q, NEW op, NEW r, Grown(q, op, r), NEW d, NEW w, NEW b, NEW n, NEW k,
         Filled(q, d, w, b, n, k)
  PROVE  Filled(r, d, w, b, n, k)
<1>1. ASSUME NEW i \in DOMAIN q PROVE i \in DOMAIN r /\ r[i] = q[i]
  BY DEF Grown
<1> QED  BY <1>1 DEF Filled

LEMMA FilledNew ==
  ASSUME NEW q, NEW op, NEW r, Grown(q, op, r), NEW d, NEW w
  PROVE  Filled(r, d, w, op.buf, op.nth, op.key)
<1>1. Len(q) + 1 \in DOMAIN r /\ r[Len(q) + 1] = op
  BY DEF Grown
<1> QED  BY <1>1 DEF Filled

LEMMA FilledShrunk ==
  ASSUME NEW q, NEW r, Shrunk(q, r), NEW d, NEW d2, NEW w, NEW w2, NEW b, NEW n, NEW k,
         Filled(q, d, w, b, n, k),
         q[1].buf = b => d[<<"copied", b>>] # n /\ d2[<<"copied", b>>] = q[1].nth /\ w2[b] = q[1].key,
         q[1].buf # b => d2[<<"copied", b>>] = d[<<"copied", b>>] /\ w2[b] = w[b]
  PROVE  Filled(r, d2, w2, b, n, k)
<1>1. CASE d[<<"copied", b>>] = n /\ w[b] = k
  BY <1>1 DEF Filled
<1>2. CASE \E i \in DOMAIN q : q[i].buf = b /\ q[i].nth = n /\ q[i].key = k
  <2>1. PICK i \in DOMAIN q : q[i].buf = b /\ q[i].nth = n /\ q[i].key = k
    BY <1>2
  <2>2. CASE i = 1
    BY <2>1, <2>2 DEF Filled
  <2>3. CASE i # 1
    <3>1. i - 1 \in DOMAIN r /\ r[i - 1] = q[i]
      <4>1. i \in 1 .. Len(q) /\ Len(q) \in Nat /\ DOMAIN r = 1 .. Len(q) - 1
        BY DEF Shrunk
      <4>2. i - 1 \in 1 .. Len(q) - 1 /\ (i - 1) + 1 = i
        BY <2>3, <4>1
      <4> QED  BY <4>1, <4>2 DEF Shrunk
    <3> QED  BY <2>1, <3>1 DEF Filled
  <2> QED  BY <2>2, <2>3
<1> QED  BY <1>1, <1>2 DEF Filled

LEMMA SameFilled ==
  ASSUME NEW q, NEW d, NEW d2, NEW w, NEW b, NEW n, NEW k, Filled(q, d, w, b, n, k),
         d2[<<"copied", b>>] = d[<<"copied", b>>]
  PROVE  Filled(q, d2, w, b, n, k)
  BY DEF Filled

(* Steps that touch no copy and no raw buffer.                             *)
ArenaSame ==
  /\ UNCHANGED <<loaded, copy, raw, gen>> /\ Reaching' = Reaching
  /\ pc' = "convert" => pc = "convert" /\ Position' = Position
  /\ \A b \in {0, 1} : /\ recorded'[<<"copied", b>>] = recorded[<<"copied", b>>]
                       /\ recorded'[<<"free", b>>] = recorded[<<"free", b>>]
                       /\ done'[<<"copied", b>>] = done[<<"copied", b>>]
  /\ \A i \in DOMAIN compute' : compute'[i].kind = "group" =>
       \E j \in DOMAIN compute : compute'[i] = compute[j]

LEMMA ArenaStill ==
  ASSUME Typed, ArenaFilled, ArenaSame PROVE ArenaFilled'
<1>1. \A b \in {0, 1} : done'[<<"copied", b>>] = done[<<"copied", b>>]
  BY DEF ArenaSame
<1>2. Converting'
  BY DEF ArenaSame, ArenaFilled, Converting
<1>3. GroupsFilled'
  <2> SUFFICES ASSUME NEW i \in DOMAIN compute', compute'[i].kind = "group"
               PROVE  /\ compute'[i].until = compute'[i].nth
                      /\ Filled(copy', done', raw', compute'[i].buf, compute'[i].nth, compute'[i].key)
    BY DEF GroupsFilled
  <2>1. PICK j \in DOMAIN compute : compute'[i] = compute[j]
    BY DEF ArenaSame
  <2>2. /\ compute[j].until = compute[j].nth
        /\ Filled(copy, done, raw, compute[j].buf, compute[j].nth, compute[j].key)
    BY <2>1 DEF ArenaFilled, GroupsFilled
  <2>3. compute[j].buf \in {0, 1}
    BY <2>1, Shapes DEF Typed, ComputeOps, MapOp, GroupOp, TailGroupOp
  <2>4. copy' = copy /\ raw' = raw
    BY DEF ArenaSame
  <2>5. Filled(copy, done', raw, compute[j].buf, compute[j].nth, compute[j].key)
    BY <1>1, <2>2, <2>3, SameFilled
  <2> QED  BY <2>1, <2>2, <2>4, <2>5
<1>4. FillsFollow'
  BY DEF ArenaSame, ArenaFilled, FillsFollow
<1>5. ASSUME NEW b \in {0, 1} PROVE BufferGood(b, recorded, Reaching)'
  <2>1. InStep(b, Reaching) /\ Ahead(b, recorded, Reaching) /\ Behind(b, recorded, Reaching)
    BY DEF ArenaFilled, BufferGood
  <2>2. /\ loaded' = loaded /\ Reaching' = Reaching /\ gen' = gen /\ copy' = copy /\ raw' = raw
        /\ recorded'[<<"copied", b>>] = recorded[<<"copied", b>>]
        /\ recorded'[<<"free", b>>] = recorded[<<"free", b>>]
    BY DEF ArenaSame
  <2>3. InStep(b, Reaching)' /\ Behind(b, recorded, Reaching)'
    BY <2>1, <2>2 DEF InStep, Behind
  <2>4. Ahead(b, recorded, Reaching)'
    BY <1>1, <2>1, <2>2, SameFilled DEF Ahead
  <2> QED  BY <2>3, <2>4 DEF BufferGood
<1> QED  BY <1>2, <1>3, <1>4, <1>5 DEF ArenaFilled

LEMMA PlanArena ==
  ASSUME StreamAssumption, Typed, ArenaFilled, Plan PROVE ArenaFilled'
<1>1. /\ copy' = copy /\ done' = done /\ raw' = raw /\ loaded' = [b \in {0, 1} |-> -1]
      /\ pc' = "first" /\ at' = 0 /\ group' = 0 /\ pc = "idle"
  BY DEF Plan
<1>2. Reaching' = 0 /\ Reaching = Items
  <2>1. Reaching' = 0 * PerLayer + 0
    BY <1>1 DEF Reaching, Position
  <2>2. 0 * PerLayer + 0 = 0
    BY Sizes
  <2> QED  BY <1>1, <2>1, <2>2 DEF Reaching
<1>3. PICK op \in ComputeOps : op.kind = "map" /\ Grown(compute, op, compute')
  BY PlanEnqueues DEF Typed, Enqueues
<1>4. GroupsFilled'
  <2> SUFFICES ASSUME NEW i \in DOMAIN compute', compute'[i].kind = "group"
               PROVE  /\ compute'[i].until = compute'[i].nth
                      /\ Filled(copy', done', raw', compute'[i].buf, compute'[i].nth, compute'[i].key)
    BY DEF GroupsFilled
  <2>1. i \in DOMAIN compute /\ compute'[i] = compute[i]
    BY <1>3 DEF Grown
  <2> QED  BY <1>1, <2>1 DEF ArenaFilled, GroupsFilled
<1>5. Converting' /\ FillsFollow'
  BY <1>1 DEF ArenaFilled, Converting, FillsFollow
<1>6. ASSUME NEW b \in {0, 1} PROVE BufferGood(b, recorded, Reaching)'
  <2>1. loaded'[b] = -1
    BY <1>1
  <2>2. InStep(b, Reaching)' /\ Ahead(b, recorded, Reaching)'
    BY <1>2, <2>1 DEF InStep, Ahead
  <2>3. recorded[<<"copied", b>>] = recorded[<<"free", b>>]
    <3>1. InStep(b, Reaching) /\ Behind(b, recorded, Reaching)
      BY DEF ArenaFilled, BufferGood
    <3>2. loaded[b] < Items
      BY <3>1, Sizes DEF InStep
    <3> QED  BY <1>2, <3>1, <3>2 DEF Behind
  <2>4. /\ recorded'[<<"copied", b>>] = recorded[<<"copied", b>>]
        /\ recorded'[<<"free", b>>] = recorded[<<"free", b>>]
    <3>1. recorded' = [recorded EXCEPT ![<<"map", gen' % 2>>] = gen']
      BY DEF Plan
    <3>2. recorded \in [Events -> Nat] /\ <<"copied", b>> \in Events /\ <<"free", b>> \in Events
      BY Counters, EventNames
    <3> QED  BY <3>1, <3>2
  <2> QED  BY <2>2, <2>3, <2>4 DEF BufferGood, Behind
<1> QED  BY <1>4, <1>5, <1>6 DEF ArenaFilled

LEMMA ReachingNat ==
  ASSUME StreamAssumption, Typed PROVE Reaching \in Nat /\ Position \in Nat
<1>1. Position \in Nat /\ Items \in Nat
  BY Counters, GroupNumber, Sizes
<1> QED  BY <1>1 DEF Reaching

LEMMA ArenaNumber == ASSUME NEW pos PROVE ArenaGroup(pos) = Number(gen, pos)
  BY DEF ArenaGroup, Number

(* _issue keeps the buffers as they should be: it fills the one whose last *)
(* group has been converted.                                               *)
LEMMA IssuedArena ==
  ASSUME StreamAssumption, Typed, NEW pos \in Nat, NEW rec \in [Events -> Nat], NEW R \in Nat,
         pos = R \/ pos = R + 1, Issued(pos, rec), FillsFollow,
         \A b \in {0, 1} : BufferGood(b, rec, R), UNCHANGED <<done, raw, gen>>, Reaching' = R
  PROVE  /\ FillsFollow' /\ \A b \in {0, 1} : BufferGood(b, recorded, Reaching)'
         /\ pos < Items => loaded'[pos % 2] = pos
         /\ \A b, n, k : Filled(copy, done, raw, b, n, k) => Filled(copy', done', raw', b, n, k)
<1> DEFINE b == pos % 2
<1>1. b \in {0, 1} /\ <<"copied", b>> \in Events /\ <<"free", b>> \in Events
  BY Parity, EventNames
<1>2. loaded \in [{0, 1} -> Int] /\ loaded[b] \in Int
  BY <1>1 DEF Typed, Types
<1> HIDE DEF b
<1>3. CASE pos < Items /\ loaded[b] # pos
  <2>1. PICK op \in CopyOps :
          /\ op.buf = b /\ op.key = ArenaGroup(pos) /\ op.until = rec[<<"free", b>>]
          /\ op.nth = rec[<<"copied", b>>] + 1 /\ Grown(copy, op, copy')
          /\ recorded' = [rec EXCEPT ![<<"copied", b>>] = rec[<<"copied", b>>] + 1]
          /\ loaded' = [loaded EXCEPT ![b] = pos]
    BY <1>3 DEF Issued, Copied, b
  <2>2. loaded[b] < R
    <3>1. loaded[b] # -1 => loaded[b] \in Nat /\ loaded[b] % 2 = pos % 2 /\ loaded[b] <= R + 1
      BY <1>1, Sizes DEF BufferGood, InStep, b
    <3>2. CASE loaded[b] = -1
      BY <3>2
    <3>3. CASE loaded[b] # -1
      <4>1. PICK x \in Nat : x = loaded[b] /\ x % 2 = pos % 2 /\ x <= R + 1 /\ x # pos
        BY <1>3, <3>1, <3>3
      <4>2. ~(x = R + 1 /\ pos = R) /\ ~(x = R /\ pos = R + 1)
        BY <4>1
      <4> QED  BY <4>1, <4>2
    <3> QED  BY <3>2, <3>3
  <2>3. rec[<<"copied", b>>] = rec[<<"free", b>>]
    BY <1>1, <2>2 DEF BufferGood, Behind
  <2>4. PICK m \in Nat : m = rec[<<"copied", b>>] /\ m = rec[<<"free", b>>]
    BY <1>1, <2>3
  <2>5. /\ recorded'[<<"copied", b>>] = m + 1 /\ recorded'[<<"free", b>>] = m
        /\ \A c \in {0, 1} : c # b => /\ recorded'[<<"copied", c>>] = rec[<<"copied", c>>]
                                      /\ recorded'[<<"free", c>>] = rec[<<"free", c>>]
    BY <1>1, <2>1, <2>4, EventNames
  <2>6. loaded'[b] = pos /\ \A c \in {0, 1} : c # b => loaded'[c] = loaded[c]
    BY <1>1, <1>2, <2>1
  <2>7. \A c, n, k : Filled(copy, done, raw, c, n, k) => Filled(copy', done', raw', c, n, k)
    BY <2>1, FilledGrown
  <2>8. FillsFollow'
    <3>1. \A i \in DOMAIN copy' : copy'[i] = op \/ (i \in DOMAIN copy /\ copy'[i] = copy[i])
      BY <2>1 DEF Grown
    <3>2. op.nth = op.until + 1
      BY <2>1, <2>4
    <3> QED  BY <3>1, <3>2 DEF FillsFollow
  <2>9. BufferGood(b, recorded, Reaching)'
    <3>1. InStep(b, Reaching)'
      <4>1. pos \in 0 .. Items - 1 /\ pos <= R + 1
        BY <1>3, Sizes
      <4> QED  BY <2>6, <4>1 DEF InStep, b
    <3>2. Ahead(b, recorded, Reaching)'
      <4>1. Filled(copy', done', raw', b, m + 1, Number(gen, pos))
        <5>1. op.nth = m + 1 /\ op.key = Number(gen, pos) /\ op.buf = b
          BY <2>1, <2>4, ArenaNumber
        <5> QED  BY <2>1, <5>1, FilledNew
      <4> QED  BY <2>5, <2>6, <4>1 DEF Ahead
    <3>3. Behind(b, recorded, Reaching)'
      BY <2>6 DEF Behind
    <3> QED  BY <3>1, <3>2, <3>3 DEF BufferGood
  <2>10. ASSUME NEW c \in {0, 1}, c # b PROVE BufferGood(c, recorded, Reaching)'
    <3>1. InStep(c, R) /\ Ahead(c, rec, R) /\ Behind(c, rec, R)
      BY DEF BufferGood
    <3>2. /\ loaded'[c] = loaded[c] /\ recorded'[<<"copied", c>>] = rec[<<"copied", c>>]
          /\ recorded'[<<"free", c>>] = rec[<<"free", c>>]
      BY <2>5, <2>6, <2>10
    <3>3. InStep(c, Reaching)' /\ Behind(c, recorded, Reaching)'
      BY <3>1, <3>2 DEF InStep, Behind
    <3>4. Ahead(c, recorded, Reaching)'
      BY <2>7, <3>1, <3>2 DEF Ahead
    <3> QED  BY <3>3, <3>4 DEF BufferGood
  <2> QED  BY <2>6, <2>7, <2>8, <2>9, <2>10 DEF b
<1>4. CASE ~(pos < Items /\ loaded[b] # pos)
  <2>1. copy' = copy /\ recorded' = rec /\ loaded' = loaded
    BY <1>4 DEF Issued, b
  <2>2. FillsFollow'
    BY <2>1 DEF FillsFollow
  <2>3. ASSUME NEW c \in {0, 1} PROVE BufferGood(c, recorded, Reaching)'
    <3>1. InStep(c, R) /\ Ahead(c, rec, R) /\ Behind(c, rec, R)
      BY DEF BufferGood
    <3>2. InStep(c, Reaching)' /\ Behind(c, recorded, Reaching)' /\ Ahead(c, recorded, Reaching)'
      BY <2>1, <3>1 DEF InStep, Behind, Ahead
    <3> QED  BY <3>2 DEF BufferGood
  <2> QED  BY <1>4, <2>1, <2>2, <2>3 DEF b
<1> QED  BY <1>3, <1>4

(* The compute stream's operations keep their copies, and no new group.    *)
LEMMA GroupsStill ==
  ASSUME GroupsFilled, compute' = compute,
         \A b, n, k : Filled(copy, done, raw, b, n, k) => Filled(copy', done', raw', b, n, k)
  PROVE  GroupsFilled'
  BY DEF GroupsFilled

LEMMA IssueArena ==
  ASSUME StreamAssumption, Typed, ArenaFilled, IssueFirst \/ IssueSecond \/ IssueGroup
  PROVE  ArenaFilled'
<1>1. Position \in Nat /\ Position + 1 \in Nat /\ Reaching = Position
  <2>1. pc # "idle"
    BY DEF IssueFirst, IssueSecond, IssueGroup
  <2>2. Position \in Nat
    BY ReachingNat
  <2> QED  BY <2>1, <2>2 DEF Reaching
<1>2. recorded \in [Events -> Nat]
  BY Counters
<1>3. UNCHANGED <<done, raw, gen, compute, at, group>> /\ pc' # "idle"
  BY DEF IssueFirst, IssueSecond, IssueGroup, memVars
<1>4. Position' = Position /\ Reaching' = Position
  BY <1>3 DEF Position, Reaching
<1>5. PICK pos \in Nat : (pos = Position \/ pos = Position + 1) /\ Issue(pos, recorded)
                         /\ (pc' = "convert" => pos = Position /\ group < PerLayer)
  <2>1. CASE IssueFirst
    BY <1>1, <2>1 DEF IssueFirst
  <2>2. CASE IssueSecond
    BY <1>1, <2>2 DEF IssueSecond
  <2>3. CASE IssueGroup
    BY <1>1, <2>3 DEF IssueGroup
  <2> QED  BY <2>1, <2>2, <2>3
<1>6. Issued(pos, recorded)
  BY <1>2, <1>5, IssueEffect DEF Typed
<1>7. \A b \in {0, 1} : BufferGood(b, recorded, Position)
  BY <1>1 DEF ArenaFilled
<1>8. FillsFollow /\ GroupsFilled
  BY DEF ArenaFilled
<1>9. /\ FillsFollow' /\ \A b \in {0, 1} : BufferGood(b, recorded, Reaching)'
      /\ pos < Items => loaded'[pos % 2] = pos
      /\ \A b, n, k : Filled(copy, done, raw, b, n, k) => Filled(copy', done', raw', b, n, k)
  <2>1. PICK R \in Nat : R = Position
    BY <1>1
  <2> QED  BY <1>2, <1>3, <1>4, <1>5, <1>6, <1>7, <1>8, <2>1, IssuedArena
<1>10. GroupsFilled'
  BY <1>3, <1>8, <1>9, GroupsStill
<1>11. Converting'
  <2> SUFFICES ASSUME pc' = "convert" PROVE loaded'[Position' % 2] = Position'
    BY DEF Converting
  <2>1. pos = Position /\ group < PerLayer
    BY <1>5
  <2>2. Position < Items
    BY <2>1, Counters, GroupNumber
  <2> QED  BY <1>4, <1>9, <2>1, <2>2
<1> QED  BY <1>9, <1>10, <1>11 DEF ArenaFilled

LEMMA GroupArena ==
  ASSUME StreamAssumption, Typed, ArenaFilled, ComputeGroup PROVE ArenaFilled'
<1>1. PICK P \in Nat, b \in {0, 1} : P = Position /\ b = P % 2
  <2>1. Position \in Nat
    BY ReachingNat
  <2> QED  BY <2>1, Parity
<1>2. pc = "convert" /\ Reaching = P /\ loaded[b] = P
  <2>1. pc = "convert"
    BY DEF ComputeGroup
  <2> QED  BY <1>1, <2>1 DEF Reaching, ArenaFilled, Converting
<1>3. recorded \in [Events -> Nat] /\ loaded \in [{0, 1} -> Int] /\ group \in Nat /\ at \in Nat
      /\ <<"copied", b>> \in Events /\ <<"free", b>> \in Events
  BY Counters, EventNames DEF Typed, Types
<1>4. PICK m \in Nat : m = recorded[<<"free", b>>] /\ recorded[<<"copied", b>>] = m + 1
  <2>1. Ahead(b, recorded, P)
    BY <1>2 DEF ArenaFilled, BufferGood
  <2>2. recorded[<<"copied", b>>] = recorded[<<"free", b>>] + 1
    BY <1>2, <2>1 DEF Ahead
  <2> QED  BY <1>3, <2>2
<1>5. Filled(copy, done, raw, b, m + 1, ArenaGroup(P))
  <2>1. Ahead(b, recorded, P)
    BY <1>2 DEF ArenaFilled, BufferGood
  <2> QED  BY <1>2, <1>4, <2>1, ArenaNumber DEF Ahead
<1>6. PICK op \in ComputeOps :
        /\ op.kind = "group" /\ op.buf = b /\ op.key = ArenaGroup(P) /\ op.until = m + 1
        /\ op.nth = m + 1 /\ Grown(compute, op, compute')
  <2>1. Enqueues("group", b, ArenaGroup(Position), recorded[<<"copied", b>>],
                 recorded[<<"free", b>>] + 1)
    BY <1>1, GroupEnqueues DEF Typed
  <2> QED  BY <1>1, <1>4, <2>1 DEF Enqueues
<1>7. PICK rec \in [Events -> Nat] : rec = [recorded EXCEPT ![<<"free", b>>] = m + 1]
  <2>1. m + 1 \in Nat
    OBVIOUS
  <2>2. [recorded EXCEPT ![<<"free", b>>] = m + 1] \in [Events -> Nat]
    BY <1>3, <2>1, Updated
  <2> QED  BY <2>2, Zenon
<1>8. Issued(P + 2, rec) /\ P + 2 \in Nat
  <2>1. Issue(P + 2, rec)
    BY <1>1, <1>4, <1>7 DEF ComputeGroup
  <2> QED  BY <2>1, IssueEffect DEF Typed
<1>9. /\ rec[<<"copied", b>>] = m + 1 /\ rec[<<"free", b>>] = m + 1
      /\ \A c \in {0, 1} : c # b => /\ rec[<<"copied", c>>] = recorded[<<"copied", c>>]
                                    /\ rec[<<"free", c>>] = recorded[<<"free", c>>]
  BY <1>3, <1>4, <1>7, EventNames
<1>10. UNCHANGED <<done, raw, gen, at>> /\ group' = group + 1 /\ pc' = "groups"
  BY DEF ComputeGroup, memVars
<1>11. Reaching' = P + 1
  <2>1. Reaching' = at * PerLayer + (group + 1)
    BY <1>10 DEF Reaching, Position
  <2>2. at * PerLayer \in Nat
    BY <1>3, Sizes
  <2> QED  BY <1>1, <1>3, <2>1, <2>2 DEF Position
<1>12. ASSUME NEW c \in {0, 1} PROVE BufferGood(c, rec, P + 1)
  <2>1. InStep(c, P) /\ Ahead(c, recorded, P) /\ Behind(c, recorded, P)
    BY <1>2 DEF ArenaFilled, BufferGood
  <2>2. CASE c = b
    <3>1. InStep(c, P + 1)
      BY <1>2, <2>1, <2>2 DEF InStep
    <3>2. Ahead(c, rec, P + 1) /\ Behind(c, rec, P + 1)
      BY <1>2, <1>9, <2>2 DEF Ahead, Behind
    <3> QED  BY <3>1, <3>2 DEF BufferGood
  <2>3. CASE c # b
    <3>1. loaded[c] \in Int /\ loaded[c] # P
      <4>1. loaded[c] # -1 => loaded[c] % 2 = c
        BY <2>1 DEF InStep
      <4> QED  BY <1>1, <1>3, <2>3, <4>1
    <3>2. InStep(c, P + 1)
      BY <2>1, <3>1 DEF InStep
    <3>3. rec[<<"copied", c>>] = recorded[<<"copied", c>>]
          /\ rec[<<"free", c>>] = recorded[<<"free", c>>]
      BY <1>9, <2>3
    <3>4. Ahead(c, rec, P + 1)
      <4>1. loaded[c] >= P + 1 => loaded[c] >= P
        BY <3>1
      <4> QED  BY <2>1, <3>3, <4>1 DEF Ahead
    <3>5. Behind(c, rec, P + 1)
      <4>1. loaded[c] < P + 1 => loaded[c] < P
        BY <3>1
      <4> QED  BY <2>1, <3>3, <4>1 DEF Behind
    <3> QED  BY <3>2, <3>4, <3>5 DEF BufferGood
  <2> QED  BY <2>2, <2>3
<1>13. FillsFollow /\ GroupsFilled
  BY DEF ArenaFilled
<1>14. /\ FillsFollow' /\ \A c \in {0, 1} : BufferGood(c, recorded, Reaching)'
       /\ \A c, n, k : Filled(copy, done, raw, c, n, k) => Filled(copy', done', raw', c, n, k)
  <2>1. PICK R \in Nat : R = P + 1
    OBVIOUS
  <2>2. PICK pos \in Nat : pos = P + 2
    OBVIOUS
  <2>3. pos = R + 1
    BY <2>1, <2>2
  <2>4. Issued(pos, rec) /\ \A c \in {0, 1} : BufferGood(c, rec, R)
    BY <1>8, <1>12, <2>1, <2>2
  <2> QED  BY <1>10, <1>11, <1>13, <2>1, <2>3, <2>4, IssuedArena
<1>15. GroupsFilled'
  <2> SUFFICES ASSUME NEW i \in DOMAIN compute', compute'[i].kind = "group"
               PROVE  /\ compute'[i].until = compute'[i].nth
                      /\ Filled(copy', done', raw', compute'[i].buf, compute'[i].nth, compute'[i].key)
    BY DEF GroupsFilled
  <2>1. CASE i = Len(compute) + 1
    <3>1. compute'[i] = op
      BY <1>6, <2>1 DEF Grown
    <3>2. Filled(copy', done', raw', b, m + 1, ArenaGroup(P))
      BY <1>5, <1>14
    <3> QED  BY <1>6, <3>1, <3>2
  <2>2. CASE i \in 1 .. Len(compute)
    <3>1. i \in DOMAIN compute /\ compute'[i] = compute[i]
      BY <1>6, <2>2 DEF Grown
    <3> QED  BY <1>13, <1>14, <3>1 DEF GroupsFilled
  <2> QED  BY <1>6, <2>1, <2>2 DEF Grown
<1>16. Converting'
  BY <1>10 DEF Converting
<1> QED  BY <1>14, <1>15, <1>16 DEF ArenaFilled

(* A copy made: no group still to be converted needs what it overwrites,   *)
(* since the copy waited for the conversion of the one before it.          *)
LEMMA CopyArena ==
  ASSUME StreamAssumption, Typed, Streams, ArenaFilled, RunCopy PROVE ArenaFilled'
<1>1. /\ copy # <<>> /\ copy' = Tail(copy) /\ Signal(Head(copy))
      /\ done[Head(copy).after] >= Head(copy).until
      /\ raw' = [raw EXCEPT ![Head(copy).buf] = Head(copy).key]
      /\ UNCHANGED <<pc, gen, at, group, loaded, recorded, compute>>
  BY DEF RunCopy, Runs, hostVars
<1>2. Head(copy) = copy[1] /\ copy[1] \in CopyOps /\ Shrunk(copy, copy')
  BY <1>1, HeadOps DEF Typed
<1>3. PICK op \in CopyOps, h \in {0, 1}, n \in Nat :
        op = copy[1] /\ h = op.buf /\ n = op.nth
  BY <1>2 DEF CopyOps, FillOp, Ops
<1>4. /\ op \in Ops /\ op.after = <<"free", h>> /\ op.signal = <<"copied", h>>
      /\ <<"free", h>> \in Events /\ <<"copied", h>> \in Events
  BY <1>3, EventNames DEF CopyOps, FillOp
<1>5. /\ recorded \in [Events -> Nat] /\ done \in [Events -> Nat] /\ raw \in [{0, 1} -> Int]
      /\ copy \in Seq(Ops)
  BY Counters, AreOps DEF Typed, Types
<1>6. 1 \in DOMAIN copy
  BY <1>2 DEF Shrunk
<1>7. n <= done[<<"free", h>>] + 1
  <2>1. op.nth = op.until + 1
    BY <1>3, <1>6 DEF ArenaFilled, FillsFollow
  <2>2. done[<<"free", h>>] >= op.until
    BY <1>1, <1>2, <1>3, <1>4
  <2>3. op.until \in Nat /\ done[<<"free", h>>] \in Nat
    BY <1>4, <1>5 DEF Ops
  <2> QED  BY <1>3, <2>1, <2>2, <2>3
<1>8. done[<<"copied", h>>] < n /\ n <= recorded[<<"copied", h>>]
  BY <1>3, <1>4, <1>6 DEF Streams, Good, Waiting
<1>9. /\ done'[<<"copied", h>>] = n
      /\ \A e \in Events : e # <<"copied", h>> => done'[e] = done[e]
  <2>1. /\ done'[copy[1].signal] = copy[1].nth
        /\ \A e \in Events : e # copy[1].signal => done'[e] = done[e]
    BY <1>1, <1>2, <1>5, RanGood DEF Streams
  <2> QED  BY <1>3, <1>4, <2>1
<1>10. raw'[h] = op.key /\ \A b \in {0, 1} : b # h => raw'[b] = raw[b]
  BY <1>1, <1>2, <1>3, <1>5
<1>11. ASSUME NEW b \in {0, 1}, NEW x \in Nat, NEW k, Filled(copy, done, raw, b, x, k),
              \/ recorded[<<"copied", b>>] <= x
              \/ done[<<"free", b>>] < x
       PROVE  Filled(copy', done', raw', b, x, k)
  <2>1. CASE b = h
    <3>1. done[<<"copied", b>>] # x
      <4>1. done[<<"copied", h>>] \in Nat /\ recorded[<<"copied", h>>] \in Nat
            /\ done[<<"free", h>>] \in Nat
        BY <1>4, <1>5
      <4> QED  BY <1>7, <1>8, <1>11, <2>1, <4>1
    <3>2. copy[1].buf = b /\ done'[<<"copied", b>>] = copy[1].nth /\ raw'[b] = copy[1].key
      BY <1>3, <1>9, <1>10, <2>1
    <3> QED  BY <1>2, <1>11, <3>1, <3>2, FilledShrunk
  <2>2. CASE b # h
    <3>1. copy[1].buf # b
      BY <1>3, <2>2
    <3>2. done'[<<"copied", b>>] = done[<<"copied", b>>] /\ raw'[b] = raw[b]
      BY <1>9, <1>10, <2>2, EventNames
    <3> QED  BY <1>2, <1>11, <3>1, <3>2, FilledShrunk
  <2> QED  BY <2>1, <2>2
<1>12. GroupsFilled'
  <2> SUFFICES ASSUME NEW i \in DOMAIN compute, compute[i].kind = "group"
               PROVE  /\ compute[i].until = compute[i].nth
                      /\ Filled(copy', done', raw', compute[i].buf, compute[i].nth, compute[i].key)
    BY <1>1 DEF GroupsFilled
  <2>1. /\ compute[i].until = compute[i].nth
        /\ Filled(copy, done, raw, compute[i].buf, compute[i].nth, compute[i].key)
    BY DEF ArenaFilled, GroupsFilled
  <2>2. /\ compute[i].buf \in {0, 1} /\ compute[i].nth \in Nat
        /\ compute[i].signal = <<"free", compute[i].buf>>
    BY Shapes DEF Typed, ComputeOps, Ops, MapOp, GroupOp, TailGroupOp
  <2>3. done[<<"free", compute[i].buf>>] < compute[i].nth
    BY <2>2 DEF Streams, Good, Waiting
  <2> QED  BY <1>11, <2>1, <2>2, <2>3
<1>13. FillsFollow'
  <2> SUFFICES ASSUME NEW i \in DOMAIN copy' PROVE copy'[i].nth = copy'[i].until + 1
    BY DEF FillsFollow
  <2>1. i + 1 \in DOMAIN copy /\ copy'[i] = copy[i + 1]
    BY <1>2 DEF Shrunk
  <2> QED  BY <2>1 DEF ArenaFilled, FillsFollow
<1>14. Reaching' = Reaching /\ Position' = Position
  BY <1>1 DEF Reaching, Position
<1>15. ASSUME NEW b \in {0, 1} PROVE BufferGood(b, recorded, Reaching)'
  <2>1. InStep(b, Reaching) /\ Ahead(b, recorded, Reaching) /\ Behind(b, recorded, Reaching)
    BY DEF ArenaFilled, BufferGood
  <2>2. InStep(b, Reaching)' /\ Behind(b, recorded, Reaching)'
    BY <1>1, <1>14, <2>1 DEF InStep, Behind
  <2>3. Ahead(b, recorded, Reaching)'
    <3>1. PICK x \in Nat : x = recorded[<<"copied", b>>]
      BY <1>5, EventNames
    <3>2. recorded[<<"copied", b>>] <= x
      BY <3>1
    <3>3. \A k : Filled(copy, done, raw, b, x, k) => Filled(copy', done', raw', b, x, k)
      BY <1>11, <3>2
    <3> QED  BY <1>1, <1>14, <2>1, <3>1, <3>3 DEF Ahead
  <2> QED  BY <2>2, <2>3 DEF BufferGood
<1>16. Converting'
  BY <1>1, <1>14 DEF ArenaFilled, Converting
<1> QED  BY <1>12, <1>13, <1>15, <1>16 DEF ArenaFilled

(* Steps of the host that enqueue no copy of an arena group, of the other  *)
(* streams and of the reader.                                              *)
LEMMA RestArena ==
  ASSUME StreamAssumption, Typed, ArenaFilled,
         \/ RequestTail \/ EarlyTail \/ AwaitTail \/ ComputeTail \/ EndLayer
         \/ RunTail \/ RunMap \/ RunGroup \/ Reader
  PROVE  ArenaFilled'
<1>1. UNCHANGED <<loaded, copy, raw, gen>>
  BY DEF RequestTail, EarlyTail, AwaitTail, ComputeTail, EndLayer, RunTail, RunMap, RunGroup,
         Reader, ReaderGet, StartRead, EndRead, hostVars, streamVars, memVars
<1>2. Reaching' = Reaching /\ (pc' = "convert" => pc = "convert" /\ Position' = Position)
  <2>1. CASE EndLayer
    <3>1. /\ group = PerLayer /\ at \in Nat /\ at < NumLayers /\ PerLayer \in Nat
          /\ NumLayers \in Nat /\ pc # "idle"
      BY <2>1, Counters, Sizes DEF EndLayer, Typed, Control
    <3>2. (at + 1) * PerLayer = at * PerLayer + PerLayer /\ at * PerLayer \in Nat
      BY <3>1, Z3
    <3>3. Reaching = at * PerLayer + PerLayer
      BY <3>1 DEF Reaching, Position
    <3>4. CASE at + 1 < NumLayers
      <4>1. at' = at + 1 /\ group' = 0 /\ pc' = "first"
        BY <2>1, <3>4 DEF EndLayer
      <4>2. Reaching' = (at + 1) * PerLayer + 0
        BY <4>1 DEF Reaching, Position
      <4> QED  BY <3>1, <3>2, <3>3, <4>1, <4>2
    <3>5. CASE ~(at + 1 < NumLayers)
      <4>1. at + 1 = NumLayers /\ pc' = "idle"
        BY <2>1, <3>1, <3>5 DEF EndLayer
      <4>2. Reaching' = NumLayers * PerLayer
        BY <4>1 DEF Reaching, Items
      <4> QED  BY <3>2, <3>3, <4>1, <4>2
    <3> QED  BY <3>4, <3>5
  <2>2. CASE RequestTail \/ EarlyTail \/ AwaitTail \/ ComputeTail
    <3>1. at' = at /\ group' = group /\ pc # "idle" /\ pc' # "idle" /\ pc' # "convert"
      BY <2>2 DEF RequestTail, EarlyTail, AwaitTail, ComputeTail
    <3> QED  BY <3>1 DEF Reaching, Position
  <2>3. CASE RunTail \/ RunMap \/ RunGroup \/ Reader
    <3>1. at' = at /\ group' = group /\ pc' = pc
      BY <2>3 DEF RunTail, RunMap, RunGroup, Reader, ReaderGet, StartRead, EndRead, hostVars
    <3> QED  BY <3>1 DEF Reaching, Position
  <2> QED  BY <2>1, <2>2, <2>3
<1>3. /\ recorded \in [Events -> Nat] /\ done \in [Events -> Nat]
      /\ \A b \in {0, 1} : <<"copied", b>> \in Events /\ <<"free", b>> \in Events
  BY Counters, EventNames
<1>4. ASSUME NEW b \in {0, 1}
      PROVE  /\ recorded'[<<"copied", b>>] = recorded[<<"copied", b>>]
             /\ recorded'[<<"free", b>>] = recorded[<<"free", b>>]
  <2>1. CASE EarlyTail \/ AwaitTail \/ EndLayer
    <3>1. recorded' = recorded \/ \E n : recorded' = [recorded EXCEPT ![<<"tail", 0>>] = n]
      BY <2>1 DEF EarlyTail, AwaitTail, EndLayer, TryTail, IssueTail
    <3> QED  BY <1>3, <3>1
  <2>2. CASE ComputeTail
    BY <1>3, <2>2 DEF ComputeTail
  <2>3. CASE RequestTail \/ RunTail \/ RunMap \/ RunGroup \/ Reader
    <3>1. recorded' = recorded
      BY <2>3 DEF RequestTail, RunTail, RunMap, RunGroup, Reader, ReaderGet, StartRead, EndRead,
                  streamVars
    <3> QED  BY <3>1
  <2> QED  BY <2>1, <2>2, <2>3
<1>5. ASSUME NEW b \in {0, 1} PROVE done'[<<"copied", b>>] = done[<<"copied", b>>]
  <2>1. CASE RunTail \/ RunMap \/ RunGroup
    <3>1. PICK op : Signal(op) /\ op \in Ops /\ op.signal # <<"copied", b>>
      <4>1. CASE RunTail
        <5>1. Head(tail) \in TailOps
          BY <4>1, HeadOps DEF RunTail, Runs, Typed
        <5> QED  BY <4>1, <5>1 DEF RunTail, TailOps, TailDma
      <4>2. CASE RunMap \/ RunGroup
        <5>1. Head(compute) \in ComputeOps
          BY <4>2, HeadOps DEF RunMap, RunGroup, Runs, Typed
        <5>2. Signal(Head(compute)) /\ Head(compute) \in Ops
          BY <4>2, <5>1 DEF RunMap, RunGroup, ComputeOps
        <5>3. Head(compute).signal # <<"copied", b>>
          BY <5>1 DEF ComputeOps, MapOp, GroupOp, TailGroupOp
        <5> QED  BY <5>2, <5>3
      <4> QED  BY <2>1, <4>1, <4>2
    <3> QED  BY <1>3, <3>1 DEF Signal
  <2>2. CASE RequestTail \/ EarlyTail \/ AwaitTail \/ ComputeTail \/ EndLayer \/ Reader
    <3>1. done' = done
      BY <2>2 DEF RequestTail, EarlyTail, AwaitTail, ComputeTail, EndLayer, Reader, ReaderGet,
                  StartRead, EndRead, streamVars
    <3> QED  BY <3>1
  <2> QED  BY <2>1, <2>2
<1>6. ASSUME NEW i \in DOMAIN compute', compute'[i].kind = "group"
      PROVE  \E j \in DOMAIN compute : compute'[i] = compute[j]
  <2>1. CASE ComputeTail
    <3>1. PICK op \in ComputeOps : op.kind = "tailGroup" /\ Grown(compute, op, compute')
      BY <2>1, TailEnqueues DEF Typed, Enqueues
    <3>2. i \in DOMAIN compute /\ compute'[i] = compute[i]
      BY <1>6, <3>1 DEF Grown
    <3> QED  BY <3>2
  <2>2. CASE RunMap \/ RunGroup
    <3>1. compute # <<>> /\ compute' = Tail(compute)
      BY <2>2 DEF RunMap, RunGroup, Runs
    <3>2. Shrunk(compute, compute')
      BY <3>1, HeadOps DEF Typed
    <3>3. i + 1 \in DOMAIN compute /\ compute'[i] = compute[i + 1]
      BY <3>2 DEF Shrunk
    <3> QED  BY <3>3
  <2>3. CASE RequestTail \/ EarlyTail \/ AwaitTail \/ EndLayer \/ RunTail \/ Reader
    <3>1. compute' = compute
      BY <2>3 DEF RequestTail, EarlyTail, AwaitTail, EndLayer, RunTail, Reader, ReaderGet,
                  StartRead, EndRead, streamVars
    <3> QED  BY <3>1
  <2> QED  BY <2>1, <2>2, <2>3
<1>7. ArenaSame
  BY <1>1, <1>2, <1>4, <1>5, <1>6 DEF ArenaSame
<1> QED  BY <1>7, ArenaStill

-----------------------------------------------------------------------------
(* TailsFilled: the raw tail buffer.                                       *)

(* The raw tail buffer holds group k once the nth tail copy has been made. *)
TailFilled(q, d, w, n, k) ==
  \/ \E i \in DOMAIN q : q[i].nth = n /\ q[i].key = k
  \/ d[<<"tail", 0>>] = n /\ w = k
TailGroupsFilled ==
  \A i \in DOMAIN compute : compute[i].kind = "tailGroup" =>
    /\ compute[i].until = compute[i].nth
    /\ TailFilled(tail, done, rawTail, compute[i].nth, compute[i].key)
TailsFollow == \A i \in DOMAIN tail : tail[i].nth = tail[i].until + 1
TailAhead ==
  /\ tailIssued = -1 => recorded[<<"tail", 0>>] = recorded[<<"tailFree", 0>>]
  /\ tailIssued # -1 =>
       /\ tailIssued = at /\ HasTail
       /\ recorded[<<"tail", 0>>] = recorded[<<"tailFree", 0>>] + 1
       /\ TailFilled(tail, done, rawTail, recorded[<<"tail", 0>>], TailGroup(gen, at))
TailControl ==
  /\ pc = "tailGroup" => tailIssued = at
  /\ pc \in {"idle", "nextTail"} => tailIssued = -1
TailsFilled == TailGroupsFilled /\ TailsFollow /\ TailAhead /\ TailControl

LEMMA TailFilledGrown ==
  ASSUME NEW q, NEW op, NEW r, Grown(q, op, r), NEW d, NEW w, NEW n, NEW k,
         TailFilled(q, d, w, n, k)
  PROVE  TailFilled(r, d, w, n, k)
<1>1. ASSUME NEW i \in DOMAIN q PROVE i \in DOMAIN r /\ r[i] = q[i]
  BY DEF Grown
<1> QED  BY <1>1 DEF TailFilled

LEMMA TailFilledNew ==
  ASSUME NEW q, NEW op, NEW r, Grown(q, op, r), NEW d, NEW w
  PROVE  TailFilled(r, d, w, op.nth, op.key)
<1>1. Len(q) + 1 \in DOMAIN r /\ r[Len(q) + 1] = op
  BY DEF Grown
<1> QED  BY <1>1 DEF TailFilled

LEMMA TailFilledShrunk ==
  ASSUME NEW q, NEW r, Shrunk(q, r), NEW d, NEW d2, NEW w, NEW w2, NEW n, NEW k,
         TailFilled(q, d, w, n, k), d[<<"tail", 0>>] # n,
         d2[<<"tail", 0>>] = q[1].nth, w2 = q[1].key
  PROVE  TailFilled(r, d2, w2, n, k)
<1>1. PICK i \in DOMAIN q : q[i].nth = n /\ q[i].key = k
  BY DEF TailFilled
<1>2. CASE i = 1
  BY <1>1, <1>2 DEF TailFilled
<1>3. CASE i # 1
  <2>1. i - 1 \in DOMAIN r /\ r[i - 1] = q[i]
    <3>1. i \in 1 .. Len(q) /\ Len(q) \in Nat /\ DOMAIN r = 1 .. Len(q) - 1
      BY DEF Shrunk
    <3>2. i - 1 \in 1 .. Len(q) - 1 /\ (i - 1) + 1 = i
      BY <1>3, <3>1
    <3> QED  BY <3>1, <3>2 DEF Shrunk
  <2> QED  BY <1>1, <2>1 DEF TailFilled
<1> QED  BY <1>2, <1>3

(* Steps that touch neither the tail stream nor the raw tail buffer.       *)
TailSame ==
  /\ UNCHANGED <<tailIssued, tail, rawTail>>
  /\ tailIssued # -1 => gen' = gen /\ at' = at
  /\ pc' = "tailGroup" => pc = "tailGroup" /\ at' = at
  /\ pc' \in {"idle", "nextTail"} => tailIssued = -1
  /\ recorded'[<<"tail", 0>>] = recorded[<<"tail", 0>>]
  /\ recorded'[<<"tailFree", 0>>] = recorded[<<"tailFree", 0>>]
  /\ done'[<<"tail", 0>>] = done[<<"tail", 0>>]
  /\ \A i \in DOMAIN compute' : compute'[i].kind = "tailGroup" =>
       \E j \in DOMAIN compute : compute'[i] = compute[j]

LEMMA SameTail ==
  ASSUME NEW n, NEW k, TailFilled(tail, done, rawTail, n, k), tail' = tail, rawTail' = rawTail,
         done'[<<"tail", 0>>] = done[<<"tail", 0>>]
  PROVE  TailFilled(tail', done', rawTail', n, k)
  BY DEF TailFilled

LEMMA TailStill ==
  ASSUME TailsFilled, TailSame PROVE TailsFilled'
<1>1. tail' = tail /\ rawTail' = rawTail /\ done'[<<"tail", 0>>] = done[<<"tail", 0>>]
  BY DEF TailSame
<1>2. TailGroupsFilled'
  <2> SUFFICES ASSUME NEW i \in DOMAIN compute', compute'[i].kind = "tailGroup"
               PROVE  /\ compute'[i].until = compute'[i].nth
                      /\ TailFilled(tail', done', rawTail', compute'[i].nth, compute'[i].key)
    BY DEF TailGroupsFilled
  <2>1. PICK j \in DOMAIN compute : compute'[i] = compute[j]
    BY DEF TailSame
  <2> QED  BY <1>1, <2>1, SameTail DEF TailsFilled, TailGroupsFilled
<1>3. TailsFollow'
  BY DEF TailSame, TailsFilled, TailsFollow
<1>4. TailAhead'
  <2>1. CASE tailIssued = -1
    BY <2>1 DEF TailSame, TailsFilled, TailAhead
  <2>2. CASE tailIssued # -1
    <3>1. gen' = gen /\ at' = at /\ tailIssued' = tailIssued
      BY <2>2 DEF TailSame
    <3>2. TailGroup(gen, at)' = TailGroup(gen, at)
      BY <3>1 DEF TailGroup
    <3>3. TailFilled(tail', done', rawTail', recorded[<<"tail", 0>>], TailGroup(gen, at))
      BY <1>1, <2>2, SameTail DEF TailsFilled, TailAhead
    <3> QED  BY <2>2, <3>1, <3>2, <3>3 DEF TailSame, TailsFilled, TailAhead
  <2> QED  BY <2>1, <2>2
<1>5. TailControl'
  BY DEF TailSame, TailsFilled, TailControl
<1> QED  BY <1>2, <1>3, <1>4, <1>5 DEF TailsFilled

(* The layer's tail copy enqueued, or not.                                 *)
LEMMA TriedTails ==
  ASSUME StreamAssumption, Typed, TailsFilled, NEW l \in Nat, TailTried(l),
         tailIssued = -1 \/ (tailIssued = at /\ l = at),
         UNCHANGED <<compute, done, rawTail, gen>>, at' = l
  PROVE  TailGroupsFilled' /\ TailsFollow' /\ TailAhead'
<1>1. CASE TailCopied(l) /\ tailIssued # l /\ HasTail
  <2>1. PICK op \in TailOps :
          /\ op.key = TailGroup(gen, l) /\ op.until = recorded[<<"tailFree", 0>>]
          /\ op.nth = recorded[<<"tail", 0>>] + 1 /\ Grown(tail, op, tail')
          /\ recorded' = [recorded EXCEPT ![<<"tail", 0>>] = recorded[<<"tail", 0>>] + 1]
          /\ tailIssued' = l
    BY <1>1 DEF TailCopied
  <2>2. PICK m \in Nat : m = recorded[<<"tail", 0>>] /\ m = recorded[<<"tailFree", 0>>]
    <3>1. tailIssued = -1
      BY <1>1
    <3>2. recorded[<<"tail", 0>>] \in Nat
      BY Counters, EventNames
    <3> QED  BY <3>1, <3>2 DEF TailsFilled, TailAhead
  <2>3. recorded'[<<"tail", 0>>] = m + 1 /\ recorded'[<<"tailFree", 0>>] = m
    <3>1. recorded \in [Events -> Nat]
      BY Counters
    <3> QED  BY <2>1, <2>2, <3>1, EventNames
  <2>4. \A n, k : TailFilled(tail, done, rawTail, n, k) => TailFilled(tail', done', rawTail', n, k)
    BY <2>1, TailFilledGrown
  <2>5. TailGroupsFilled'
    BY <2>4 DEF TailsFilled, TailGroupsFilled
  <2>6. TailsFollow'
    <3>1. \A i \in DOMAIN tail' : tail'[i] = op \/ (i \in DOMAIN tail /\ tail'[i] = tail[i])
      BY <2>1 DEF Grown
    <3>2. op.nth = op.until + 1
      BY <2>1, <2>2
    <3> QED  BY <3>1, <3>2 DEF TailsFilled, TailsFollow
  <2>7. TailAhead'
    <3>1. TailGroup(gen, at)' = TailGroup(gen, l)
      BY DEF TailGroup
    <3>2. TailFilled(tail', done', rawTail', m + 1, TailGroup(gen, l))
      BY <2>1, <2>2, TailFilledNew
    <3>3. tailIssued' # -1
      BY <2>1
    <3> QED  BY <1>1, <2>1, <2>3, <3>1, <3>2, <3>3 DEF TailAhead
  <2> QED  BY <2>5, <2>6, <2>7
<1>2. CASE tail' = tail /\ recorded' = recorded /\ tailIssued' = tailIssued
  <2>1. TailGroupsFilled' /\ TailsFollow'
    BY <1>2 DEF TailsFilled, TailGroupsFilled, TailsFollow
  <2>2. CASE tailIssued = -1
    BY <1>2, <2>1, <2>2 DEF TailsFilled, TailAhead
  <2>3. CASE tailIssued = at /\ l = at
    <3>1. TailGroup(gen, at)' = TailGroup(gen, at)
      BY <2>3 DEF TailGroup
    <3> QED  BY <1>2, <2>1, <2>3, <3>1 DEF TailsFilled, TailAhead
  <2> QED  BY <2>2, <2>3
<1> QED  BY <1>1, <1>2 DEF TailTried

LEMMA EarlyTails ==
  ASSUME StreamAssumption, Typed, TailsFilled, EarlyTail \/ AwaitTail \/ EndLayer
  PROVE  TailsFilled'
<1>1. /\ at \in Nat /\ UNCHANGED <<compute, done, rawTail, gen>>
      /\ tailIssued = -1 \/ tailIssued = at
  <2>1. at \in Nat
    BY Counters
  <2>2. UNCHANGED <<compute, done, rawTail, gen>>
    BY DEF EarlyTail, AwaitTail, EndLayer, memVars
  <2> QED  BY <2>1, <2>2 DEF TailsFilled, TailAhead
<1>2. CASE EarlyTail
  <2>1. TryTail(at) /\ at' = at /\ pc' = "groups"
    BY <1>2 DEF EarlyTail
  <2>2. TailTried(at)
    BY <1>1, <2>1, TryEffect DEF Typed
  <2>3. TailGroupsFilled' /\ TailsFollow' /\ TailAhead'
    BY <1>1, <2>1, <2>2, TriedTails
  <2>4. TailControl'
    BY <2>1 DEF TailControl
  <2> QED  BY <2>3, <2>4 DEF TailsFilled
<1>3. CASE AwaitTail
  <2>1. TryTail(at) /\ at' = at /\ pc' = "tailGroup" /\ HasTail /\ (tailIssued = at \/ TailReady(at))
    BY <1>3 DEF AwaitTail
  <2>2. TailTried(at)
    BY <1>1, <2>1, TryEffect DEF Typed
  <2>3. TailGroupsFilled' /\ TailsFollow' /\ TailAhead'
    BY <1>1, <2>1, <2>2, TriedTails
  <2>4. tailIssued' = at
    BY <2>1, <2>2 DEF TailTried, TailCopied, TailReady
  <2>5. TailControl'
    BY <2>1, <2>4 DEF TailControl
  <2> QED  BY <2>3, <2>5 DEF TailsFilled
<1>4. CASE EndLayer
  <2>1. tailIssued = -1
    <3>1. HasTail => pc = "nextTail"
      BY <1>4 DEF EndLayer
    <3> QED  BY <3>1 DEF TailsFilled, TailControl, TailAhead
  <2>2. CASE at + 1 < NumLayers
    <3>1. TryTail(at + 1) /\ at' = at + 1 /\ pc' = "first"
      BY <1>4, <2>2 DEF EndLayer
    <3>2. TailTried(at + 1) /\ at + 1 \in Nat
      BY <1>1, <3>1, TryEffect DEF Typed
    <3>3. TailGroupsFilled' /\ TailsFollow' /\ TailAhead'
      <4>1. PICK l \in Nat : l = at + 1
        BY <3>2
      <4> QED  BY <1>1, <2>1, <3>1, <3>2, <4>1, TriedTails
    <3>4. TailControl'
      BY <3>1 DEF TailControl
    <3> QED  BY <3>3, <3>4 DEF TailsFilled
  <2>3. CASE ~(at + 1 < NumLayers)
    <3>1. pc' = "idle" /\ UNCHANGED <<at, tail, recorded, tailIssued>>
      BY <1>4, <2>3 DEF EndLayer
    <3>2. TailSame
      BY <1>1, <2>1, <3>1 DEF TailSame
    <3> QED  BY <3>2, TailStill
  <2> QED  BY <2>2, <2>3
<1> QED  BY <1>2, <1>3, <1>4

LEMMA GroupTails ==
  ASSUME StreamAssumption, Typed, TailsFilled, ComputeTail PROVE TailsFilled'
<1>1. /\ pc = "tailGroup" /\ tailIssued = at /\ tailIssued # -1
      /\ UNCHANGED <<tail, done, rawTail, gen>> /\ tailIssued' = -1 /\ pc' = "nextTail"
  <2>1. at \in Nat
    BY Counters
  <2> QED  BY <2>1 DEF ComputeTail, TailsFilled, TailControl, memVars
<1>2. PICK m \in Nat : m = recorded[<<"tailFree", 0>>] /\ recorded[<<"tail", 0>>] = m + 1
  <2>1. recorded[<<"tailFree", 0>>] \in Nat
    BY Counters, EventNames
  <2> QED  BY <1>1, <2>1 DEF TailsFilled, TailAhead
<1>3. TailFilled(tail', done', rawTail', m + 1, TailGroup(gen, at))
  BY <1>1, <1>2 DEF TailsFilled, TailAhead
<1>4. PICK op \in ComputeOps :
        /\ op.kind = "tailGroup" /\ op.key = TailGroup(gen, at) /\ op.until = m + 1
        /\ op.nth = m + 1 /\ Grown(compute, op, compute')
  BY <1>2, TailEnqueues DEF Typed, Enqueues
<1>5. TailGroupsFilled'
  <2> SUFFICES ASSUME NEW i \in DOMAIN compute', compute'[i].kind = "tailGroup"
               PROVE  /\ compute'[i].until = compute'[i].nth
                      /\ TailFilled(tail', done', rawTail', compute'[i].nth, compute'[i].key)
    BY DEF TailGroupsFilled
  <2>1. compute'[i] = op \/ (i \in DOMAIN compute /\ compute'[i] = compute[i])
    BY <1>4 DEF Grown
  <2> QED  BY <1>1, <1>3, <1>4, <2>1 DEF TailsFilled, TailGroupsFilled
<1>6. TailsFollow' /\ TailControl'
  BY <1>1 DEF TailsFilled, TailsFollow, TailControl
<1>7. TailAhead'
  <2>1. recorded'[<<"tail", 0>>] = m + 1 /\ recorded'[<<"tailFree", 0>>] = m + 1
    <3>1. recorded \in [Events -> Nat] /\ recorded' = [recorded EXCEPT ![<<"tailFree", 0>>] = m + 1]
      BY <1>2, Counters DEF ComputeTail
    <3> QED  BY <1>2, <3>1, EventNames
  <2> QED  BY <1>1, <2>1 DEF TailAhead
<1> QED  BY <1>5, <1>6, <1>7 DEF TailsFilled

(* A tail copy made: the bounce buffer held the layer's tail, and no group *)
(* still needs what the copy overwrites.                                   *)
LEMMA RunTails ==
  ASSUME StreamAssumption, Typed, Streams, BounceKept, TailsFilled, RunTail PROVE TailsFilled'
<1>1. /\ tail # <<>> /\ tail' = Tail(tail) /\ Signal(Head(tail))
      /\ done[Head(tail).after] >= Head(tail).until
      /\ rawTail' = bounce[Head(tail).buf]
      /\ UNCHANGED <<pc, gen, at, tailIssued, recorded, compute>>
  BY DEF RunTail, Runs, hostVars
<1>2. Head(tail) = tail[1] /\ tail[1] \in TailOps /\ Shrunk(tail, tail')
  BY <1>1, HeadOps DEF Typed
<1>3. PICK op \in TailOps, n \in Nat : op = tail[1] /\ n = op.nth
  BY <1>2 DEF TailOps, Ops
<1>4. /\ op \in Ops /\ op.after = <<"tailFree", 0>> /\ op.signal = <<"tail", 0>>
      /\ <<"tailFree", 0>> \in Events /\ <<"tail", 0>> \in Events
  BY <1>3, EventNames DEF TailOps, TailDma
<1>5. recorded \in [Events -> Nat] /\ done \in [Events -> Nat] /\ tail \in Seq(Ops)
  BY Counters, AreOps DEF Typed
<1>6. 1 \in DOMAIN tail
  BY <1>2 DEF Shrunk
<1>7. n <= done[<<"tailFree", 0>>] + 1
  <2>1. op.nth = op.until + 1
    BY <1>3, <1>6 DEF TailsFilled, TailsFollow
  <2>2. done[<<"tailFree", 0>>] >= op.until
    BY <1>1, <1>2, <1>3, <1>4
  <2>3. op.until \in Nat /\ done[<<"tailFree", 0>>] \in Nat
    BY <1>4, <1>5 DEF Ops
  <2> QED  BY <1>3, <2>1, <2>2, <2>3
<1>8. done[<<"tail", 0>>] < n /\ n <= recorded[<<"tail", 0>>]
  BY <1>3, <1>4, <1>6 DEF Streams, Good, Waiting
<1>9. done'[<<"tail", 0>>] = tail[1].nth
  <2>1. done'[tail[1].signal] = tail[1].nth
    BY <1>1, <1>2, <1>5, RanGood DEF Streams
  <2> QED  BY <1>3, <1>4, <2>1
<1>10. rawTail' = tail[1].key
  BY <1>1, <1>2, <1>6 DEF BounceKept
<1>11. ASSUME NEW x \in Nat, NEW k, TailFilled(tail, done, rawTail, x, k),
              \/ recorded[<<"tail", 0>>] <= x
              \/ done[<<"tailFree", 0>>] < x
       PROVE  TailFilled(tail', done', rawTail', x, k)
  <2>1. done[<<"tail", 0>>] # x
    <3>1. done[<<"tail", 0>>] \in Nat /\ recorded[<<"tail", 0>>] \in Nat
          /\ done[<<"tailFree", 0>>] \in Nat
      BY <1>4, <1>5
    <3> QED  BY <1>7, <1>8, <1>11, <3>1
  <2> QED  BY <1>2, <1>9, <1>10, <1>11, <2>1, TailFilledShrunk
<1>12. TailGroupsFilled'
  <2> SUFFICES ASSUME NEW i \in DOMAIN compute, compute[i].kind = "tailGroup"
               PROVE  /\ compute[i].until = compute[i].nth
                      /\ TailFilled(tail', done', rawTail', compute[i].nth, compute[i].key)
    BY <1>1 DEF TailGroupsFilled
  <2>1. /\ compute[i].until = compute[i].nth
        /\ TailFilled(tail, done, rawTail, compute[i].nth, compute[i].key)
    BY DEF TailsFilled, TailGroupsFilled
  <2>2. compute[i].nth \in Nat /\ compute[i].signal = <<"tailFree", 0>>
    BY Shapes DEF Typed, ComputeOps, Ops, MapOp, GroupOp, TailGroupOp
  <2>3. done[<<"tailFree", 0>>] < compute[i].nth
    BY <2>2 DEF Streams, Good, Waiting
  <2> QED  BY <1>11, <2>1, <2>2, <2>3
<1>13. TailsFollow'
  <2> SUFFICES ASSUME NEW i \in DOMAIN tail' PROVE tail'[i].nth = tail'[i].until + 1
    BY DEF TailsFollow
  <2>1. i + 1 \in DOMAIN tail /\ tail'[i] = tail[i + 1]
    BY <1>2 DEF Shrunk
  <2> QED  BY <2>1 DEF TailsFilled, TailsFollow
<1>14. TailAhead'
  <2>1. PICK x \in Nat : x = recorded[<<"tail", 0>>]
    BY <1>4, <1>5
  <2>2. recorded[<<"tail", 0>>] <= x
    BY <2>1
  <2>3. \A k : TailFilled(tail, done, rawTail, x, k) => TailFilled(tail', done', rawTail', x, k)
    BY <1>11, <2>2
  <2>4. TailGroup(gen, at)' = TailGroup(gen, at)
    BY <1>1 DEF TailGroup
  <2> QED  BY <1>1, <2>1, <2>3, <2>4 DEF TailsFilled, TailAhead
<1>15. TailControl'
  BY <1>1 DEF TailsFilled, TailControl
<1> QED  BY <1>12, <1>13, <1>14, <1>15 DEF TailsFilled

(* Issuing arena copies records no event of the tail.                      *)
LEMMA IssueRecords ==
  ASSUME NEW pos \in Nat, NEW rec \in [Events -> Nat], Issued(pos, rec)
  PROVE  /\ recorded'[<<"tail", 0>>] = rec[<<"tail", 0>>]
         /\ recorded'[<<"tailFree", 0>>] = rec[<<"tailFree", 0>>]
<1>1. recorded' = rec \/ \E n : recorded' = [rec EXCEPT ![<<"copied", pos % 2>>] = n]
  BY DEF Issued, Copied
<1> QED  BY <1>1, EventNames

LEMMA PlanTails ==
  ASSUME StreamAssumption, Typed, TailsFilled, Plan PROVE TailsFilled'
<1>1. /\ tailIssued = -1 /\ UNCHANGED <<tailIssued, tail, rawTail, done>> /\ pc' = "first"
  BY DEF Plan, TailsFilled, TailControl
<1>2. PICK op \in ComputeOps : op.kind = "map" /\ Grown(compute, op, compute')
  BY PlanEnqueues DEF Typed, Enqueues
<1>3. ASSUME NEW i \in DOMAIN compute', compute'[i].kind = "tailGroup"
      PROVE  \E j \in DOMAIN compute : compute'[i] = compute[j]
  <2>1. i \in DOMAIN compute /\ compute'[i] = compute[i]
    BY <1>2, <1>3 DEF Grown
  <2> QED  BY <2>1
<1>4. /\ recorded'[<<"tail", 0>>] = recorded[<<"tail", 0>>]
      /\ recorded'[<<"tailFree", 0>>] = recorded[<<"tailFree", 0>>]
  <2>1. recorded' = [recorded EXCEPT ![<<"map", gen' % 2>>] = gen'] /\ recorded \in [Events -> Nat]
    BY Counters DEF Plan
  <2> QED  BY <2>1, EventNames
<1>5. TailSame
  BY <1>1, <1>3, <1>4 DEF TailSame
<1> QED  BY <1>5, TailStill

LEMMA IssueTails ==
  ASSUME StreamAssumption, Typed, TailsFilled, IssueFirst \/ IssueSecond \/ IssueGroup
  PROVE  TailsFilled'
<1>1. /\ UNCHANGED <<tailIssued, tail, rawTail, done, gen, at, compute>>
      /\ pc' \notin {"tailGroup", "idle", "nextTail"}
  BY DEF IssueFirst, IssueSecond, IssueGroup, memVars
<1>2. Position \in Nat /\ recorded \in [Events -> Nat]
  BY ReachingNat, Counters
<1>3. PICK pos \in Nat : Issue(pos, recorded)
  <2>1. Position + 1 \in Nat
    BY <1>2
  <2> QED  BY <1>2, <2>1 DEF IssueFirst, IssueSecond, IssueGroup
<1>4. Issued(pos, recorded)
  BY <1>2, <1>3, IssueEffect DEF Typed
<1>5. TailSame
  BY <1>1, <1>2, <1>4, IssueRecords DEF TailSame
<1> QED  BY <1>5, TailStill

LEMMA ComputeTails ==
  ASSUME StreamAssumption, Typed, TailsFilled, ComputeGroup PROVE TailsFilled'
<1>1. /\ UNCHANGED <<tailIssued, tail, rawTail, done, gen, at>>
      /\ pc' \notin {"tailGroup", "idle", "nextTail"}
  BY DEF ComputeGroup, memVars
<1>2. PICK P \in Nat, b \in {0, 1} : P = Position /\ b = P % 2
  <2>1. Position \in Nat
    BY ReachingNat
  <2> QED  BY <2>1, Parity
<1>3. recorded \in [Events -> Nat] /\ <<"free", b>> \in Events
  BY Counters, EventNames
<1>4. PICK m \in Nat : m = recorded[<<"free", b>>] + 1
  <2>1. recorded[<<"free", b>>] \in Nat
    BY <1>3
  <2>2. recorded[<<"free", b>>] + 1 \in Nat
    BY <2>1
  <2> QED  BY <2>2
<1>5. PICK rec \in [Events -> Nat] : rec = [recorded EXCEPT ![<<"free", b>>] = m]
  <2>1. [recorded EXCEPT ![<<"free", b>>] = m] \in [Events -> Nat]
    BY <1>3, Updated
  <2> QED  BY <2>1, Zenon
<1>6. Issued(P + 2, rec) /\ P + 2 \in Nat
  <2>1. Issue(P + 2, rec)
    BY <1>2, <1>4, <1>5 DEF ComputeGroup
  <2> QED  BY <2>1, IssueEffect DEF Typed
<1>7. /\ recorded'[<<"tail", 0>>] = recorded[<<"tail", 0>>]
      /\ recorded'[<<"tailFree", 0>>] = recorded[<<"tailFree", 0>>]
  <2>1. /\ rec[<<"tail", 0>>] = recorded[<<"tail", 0>>]
        /\ rec[<<"tailFree", 0>>] = recorded[<<"tailFree", 0>>]
    BY <1>3, <1>5, EventNames
  <2>2. /\ recorded'[<<"tail", 0>>] = rec[<<"tail", 0>>]
        /\ recorded'[<<"tailFree", 0>>] = rec[<<"tailFree", 0>>]
    BY <1>6, IssueRecords
  <2> QED  BY <2>1, <2>2
<1>8. PICK op \in ComputeOps : op.kind = "group" /\ Grown(compute, op, compute')
  BY <1>2, GroupEnqueues DEF Typed, Enqueues
<1>9. ASSUME NEW i \in DOMAIN compute', compute'[i].kind = "tailGroup"
      PROVE  \E j \in DOMAIN compute : compute'[i] = compute[j]
  <2>1. i \in DOMAIN compute /\ compute'[i] = compute[i]
    BY <1>8, <1>9 DEF Grown
  <2> QED  BY <2>1
<1>10. TailSame
  BY <1>1, <1>7, <1>9 DEF TailSame
<1> QED  BY <1>10, TailStill

LEMMA RestTails ==
  ASSUME StreamAssumption, Typed, TailsFilled,
         RequestTail \/ RunCopy \/ RunMap \/ RunGroup \/ Reader
  PROVE  TailsFilled'
<1>1. UNCHANGED <<tailIssued, tail, rawTail, gen, at, recorded>>
  BY DEF RequestTail, RunCopy, RunMap, RunGroup, Reader, ReaderGet, StartRead, EndRead,
         hostVars, streamVars, memVars
<1>2. /\ pc' = "tailGroup" => pc = "tailGroup"
      /\ pc' \in {"idle", "nextTail"} => tailIssued = -1
  BY DEF RequestTail, RunCopy, RunMap, RunGroup, Reader, ReaderGet, StartRead, EndRead,
         hostVars, TailsFilled, TailControl
<1>3. done \in [Events -> Nat] /\ <<"tail", 0>> \in Events
  BY Counters, EventNames
<1>4. done'[<<"tail", 0>>] = done[<<"tail", 0>>]
  <2>1. CASE RunCopy \/ RunMap \/ RunGroup
    <3>1. PICK op : Signal(op) /\ op \in Ops /\ op.signal # <<"tail", 0>>
      <4>1. CASE RunCopy
        <5>1. Head(copy) \in CopyOps
          BY <4>1, HeadOps DEF RunCopy, Runs, Typed
        <5> QED  BY <4>1, <5>1 DEF RunCopy, CopyOps, FillOp
      <4>2. CASE RunMap \/ RunGroup
        <5>1. Head(compute) \in ComputeOps
          BY <4>2, HeadOps DEF RunMap, RunGroup, Runs, Typed
        <5>2. Signal(Head(compute)) /\ Head(compute) \in Ops
          BY <4>2, <5>1 DEF RunMap, RunGroup, ComputeOps
        <5>3. Head(compute).signal # <<"tail", 0>>
          BY <5>1 DEF ComputeOps, MapOp, GroupOp, TailGroupOp
        <5> QED  BY <5>2, <5>3
      <4> QED  BY <2>1, <4>1, <4>2
    <3> QED  BY <1>3, <3>1 DEF Signal
  <2>2. CASE RequestTail \/ Reader
    <3>1. done' = done
      BY <2>2 DEF RequestTail, Reader, ReaderGet, StartRead, EndRead, streamVars
    <3> QED  BY <3>1
  <2> QED  BY <2>1, <2>2
<1>5. ASSUME NEW i \in DOMAIN compute', compute'[i].kind = "tailGroup"
      PROVE  \E j \in DOMAIN compute : compute'[i] = compute[j]
  <2>1. CASE RunMap \/ RunGroup
    <3>1. compute # <<>> /\ compute' = Tail(compute)
      BY <2>1 DEF RunMap, RunGroup, Runs
    <3>2. Shrunk(compute, compute')
      BY <3>1, HeadOps DEF Typed
    <3>3. i + 1 \in DOMAIN compute /\ compute'[i] = compute[i + 1]
      BY <3>2 DEF Shrunk
    <3> QED  BY <3>3
  <2>2. CASE RequestTail \/ RunCopy \/ Reader
    <3>1. compute' = compute
      BY <2>2 DEF RequestTail, RunCopy, Reader, ReaderGet, StartRead, EndRead, streamVars
    <3> QED  BY <3>1
  <2> QED  BY <2>1, <2>2
<1>6. TailSame
  BY <1>1, <1>2, <1>4, <1>5 DEF TailSame
<1> QED  BY <1>6, TailStill

-----------------------------------------------------------------------------
(* Requested: the tail reader and what it has been asked for.              *)

(* How far the host has asked the reader, and where its requests still     *)
(* matter: from the layer whose tail has not been issued.                  *)
Cap(n) == IF n < NumLayers THEN n ELSE NumLayers
Asked ==
  IF ~HasTail THEN 0
    ELSE IF pc = "idle" THEN NumLayers
    ELSE IF pc \in {"first", "second", "ask"}
      THEN IF at = 0 THEN (IF pc = "ask" THEN Cap(asked) ELSE 0) ELSE Cap(at + NumBounce - 1)
      ELSE Cap(at + NumBounce)
Low == IF tailIssued = at \/ pc = "nextTail" THEN at + 1 ELSE at
Outstanding(k) == k[1] = gen /\ pc # "idle" /\ Low <= k[2] /\ k[2] < Asked

Queued ==
  /\ \A i \in DOMAIN queue : Outstanding(queue[i])
  /\ \A i, j \in DOMAIN queue : i < j => queue[i][2] < queue[j][2]
Reading == rpc # "get" => Outstanding(request) /\ \A i \in DOMAIN queue : request[2] < queue[i][2]
Earlier(b) ==
  /\ owner[b][2] < Asked
  /\ rpc # "get" => owner[b][2] < request[2]
  /\ \A i \in DOMAIN queue : owner[b][2] < queue[i][2]
Owned ==
  \A b \in Bounces : owner[b] # NoKey =>
    owner[b][1] <= gen /\ owner[b][2] % NumBounce = b /\ (owner[b][1] = gen => Earlier(b))
Here(l) == pending[l % NumBounce] = <<gen, l>> \/ owner[l % NumBounce] = <<gen, l>>
Covered == pc # "idle" => \A l \in Nat : at <= l /\ l < Asked => Here(l)
Requested == Queued /\ Reading /\ Owned /\ Covered

LEMMA KeyParts ==
  ASSUME StreamAssumption, NEW k \in Keys
  PROVE  k = <<k[1], k[2]>> /\ k[1] \in Nat /\ k[2] \in Nat /\ k[2] < NumLayers
<1>1. NumLayers \in Nat /\ MaxSteps \in Nat
  BY Sizes
<1> QED  BY <1>1 DEF Keys

LEMMA RequestKeys ==
  ASSUME StreamAssumption, Typed
  PROVE  /\ request \in Keys /\ queue \in Seq(Keys) /\ owner \in [Bounces -> Keys]
         /\ pending \in [Bounces -> Keys] /\ rpc \in {"get", "wait", "read"}
         /\ \A i \in DOMAIN queue : queue[i] \in Keys
<1>1. queue \in Seq(Keys)
  BY DEF Typed, Types
<1>2. \A i \in DOMAIN queue : queue[i] \in Keys
  BY <1>1
<1> QED  BY <1>1, <1>2 DEF Typed, Types

LEMMA AskedRange ==
  ASSUME StreamAssumption, Typed
  PROVE  /\ Asked \in Nat /\ Asked <= NumLayers /\ Low \in Nat /\ at <= Low
         /\ pc # "idle" => Asked <= at + NumBounce
<1>1. at \in Nat /\ asked \in Nat /\ NumLayers \in Nat /\ NumLayers >= 1
      /\ NumBounce \in Nat /\ NumBounce >= 2
  BY Counters, Sizes
<1>2. pc = "ask" => asked < at + NumBounce
  BY DEF Typed, Control
<1>3. \A n \in Nat : Cap(n) \in Nat /\ Cap(n) <= NumLayers /\ Cap(n) <= n
  BY <1>1 DEF Cap
<1>4. at + NumBounce \in Nat /\ at + NumBounce - 1 \in Nat /\ at + NumBounce - 1 <= at + NumBounce
  BY <1>1
<1>5. Asked \in Nat /\ Asked <= NumLayers
  BY <1>1, <1>3, <1>4 DEF Asked
<1>6. ASSUME pc # "idle" PROVE Asked <= at + NumBounce
  <2>1. PICK t \in Nat : t = at + NumBounce /\ (pc = "ask" => asked < t)
    BY <1>2, <1>4
  <2>2. Cap(t) <= t /\ Cap(t - 1) <= t /\ (pc = "ask" => Cap(asked) <= t) /\ 0 <= t
    <3>1. t - 1 \in Nat /\ t - 1 <= t
      BY <1>1, <2>1
    <3>2. Cap(t - 1) <= t - 1 /\ Cap(t - 1) \in Nat
      BY <1>3, <3>1
    <3>3. Cap(asked) <= asked /\ Cap(asked) \in Nat
      BY <1>1, <1>3
    <3> QED  BY <1>1, <1>3, <2>1, <3>1, <3>2, <3>3
  <2>3. Asked = 0 \/ Asked = Cap(t) \/ Asked = Cap(t - 1) \/ (pc = "ask" /\ Asked = Cap(asked))
    <3>1. at + NumBounce - 1 = t - 1
      BY <1>1, <2>1
    <3> QED  BY <1>6, <2>1, <3>1 DEF Asked
  <2> QED  BY <2>1, <2>2, <2>3
<1>7. Low \in Nat /\ at <= Low
  BY <1>1 DEF Low
<1> QED  BY <1>5, <1>6, <1>7

(* Steps that neither ask the reader nor run it.  The layer whose tail has *)
(* been issued meanwhile was in its buffer, so nothing asked is as old.    *)
LEMMA RequestsStill ==
  ASSUME StreamAssumption, Typed, Requested,
         UNCHANGED <<gen, queue, pending, owner, rpc, request>>, Asked' = Asked,
         pc # "idle" => pc' # "idle" /\ at <= at' /\ at' \in Nat,
         pc = "idle" => pc' = "idle",
         \/ Low' = Low
         \/ \E l \in Nat : l + 1 = Low' /\ owner[l % NumBounce] = <<gen, l>> /\ gen >= 1
  PROVE  Requested'
<1>1. ASSUME NEW k \in Keys, Outstanding(k), \A b \in Bounces :
               owner[b] # NoKey /\ owner[b][1] = gen => owner[b][2] < k[2]
      PROVE  Outstanding(k)'
  <2>1. k[1] = gen /\ pc # "idle" /\ Low <= k[2] /\ k[2] < Asked
    BY <1>1 DEF Outstanding
  <2>2. Low' <= k[2]
    <3>1. CASE Low' = Low
      BY <2>1, <3>1
    <3>2. CASE \E l \in Nat : l + 1 = Low' /\ owner[l % NumBounce] = <<gen, l>> /\ gen >= 1
      <4>1. PICK l \in Nat : l + 1 = Low' /\ owner[l % NumBounce] = <<gen, l>> /\ gen >= 1
        BY <3>2
      <4>2. l % NumBounce \in Bounces
        BY InBounces
      <4>3. owner[l % NumBounce] # NoKey /\ owner[l % NumBounce][1] = gen
            /\ owner[l % NumBounce][2] = l
        <5>1. gen # 0
          BY <4>1, Counters
        <5> QED  BY <4>1, <5>1 DEF NoKey
      <4>4. l < k[2] /\ k[2] \in Nat
        BY <1>1, <4>2, <4>3, KeyParts
      <4> QED  BY <4>1, <4>4
    <3> QED  BY <3>1, <3>2
  <2> QED  BY <2>1, <2>2 DEF Outstanding
<1>2. \A i \in DOMAIN queue : queue[i] \in Keys
  BY RequestKeys
<1>3. \A b \in Bounces : owner[b] # NoKey /\ owner[b][1] = gen => Earlier(b)
  BY DEF Requested, Owned
<1>4. Queued'
  <2>1. \A i \in DOMAIN queue : Outstanding(queue[i])'
    BY <1>1, <1>2, <1>3 DEF Requested, Queued, Earlier
  <2> QED  BY <2>1 DEF Requested, Queued
<1>5. Reading'
  <2> SUFFICES ASSUME rpc # "get"
               PROVE  Outstanding(request)' /\ \A i \in DOMAIN queue : request[2] < queue[i][2]
    BY DEF Reading
  <2>1. Outstanding(request) /\ request \in Keys
    BY RequestKeys DEF Requested, Reading
  <2>2. \A b \in Bounces : owner[b] # NoKey /\ owner[b][1] = gen => owner[b][2] < request[2]
    BY <1>3 DEF Earlier
  <2>3. Outstanding(request)'
    <3>1. PICK k \in Keys : k = request /\ k = request'
      BY <2>1
    <3>2. Outstanding(k)
      BY <2>1, <3>1
    <3>3. Outstanding(k)'
      BY <1>1, <2>2, <3>1, <3>2
    <3> QED  BY <3>1, <3>3
  <2> QED  BY <2>3 DEF Requested, Reading
<1>6. Owned'
  BY DEF Requested, Owned, Earlier
<1>7. Covered'
  <2> SUFFICES ASSUME pc' # "idle", NEW l \in Nat, at' <= l, l < Asked' PROVE Here(l)'
    BY DEF Covered
  <2>1. at <= l
    BY Counters
  <2>2. Here(l)
    BY <2>1 DEF Requested, Covered
  <2> QED  BY <2>2 DEF Here
<1> QED  BY <1>4, <1>5, <1>6, <1>7 DEF Requested

(* Nothing asked for: between two steps, and when there is no tail.        *)
LEMMA NoneOutstanding ==
  ASSUME StreamAssumption, Typed, Requested, \A k \in Keys : ~Outstanding(k)
  PROVE  rpc = "get" /\ DOMAIN queue = {}
<1>1. rpc = "get"
  BY RequestKeys DEF Requested, Reading
<1>2. ASSUME NEW i \in DOMAIN queue PROVE FALSE
  BY RequestKeys DEF Requested, Queued
<1> QED  BY <1>1, <1>2

LEMMA PlanRequests ==
  ASSUME StreamAssumption, Typed, Requested, Plan PROVE Requested'
<1>1. pc = "idle" /\ pc' = "first" /\ at' = 0 /\ gen' = gen + 1
      /\ UNCHANGED <<queue, pending, owner, rpc, request>>
  BY DEF Plan, readerVars
<1>2. rpc = "get" /\ DOMAIN queue = {}
  <2>1. \A k \in Keys : ~Outstanding(k)
    BY <1>1 DEF Outstanding
  <2> QED  BY <2>1, NoneOutstanding
<1>3. Asked' = 0
  BY <1>1 DEF Asked
<1>4. Owned'
  <2> SUFFICES ASSUME NEW b \in Bounces, owner[b] # NoKey
               PROVE  owner[b][1] <= gen' /\ owner[b][2] % NumBounce = b /\ owner[b][1] # gen'
    BY <1>1 DEF Owned
  <2>1. owner[b][1] <= gen /\ owner[b][2] % NumBounce = b
    BY DEF Requested, Owned
  <2>2. owner[b][1] \in Nat /\ gen \in Nat
    BY RequestKeys, KeyParts, Counters
  <2> QED  BY <1>1, <2>1, <2>2
<1>5. Covered'
  BY <1>3 DEF Covered
<1> QED  BY <1>1, <1>2, <1>4, <1>5 DEF Requested, Queued, Reading

(* The first layer's tail is issued only after it has been asked for.      *)
NotYet == at = 0 /\ pc \in {"first", "second", "ask"} => tailIssued = -1

LEMMA NotYetKept ==
  ASSUME StreamAssumption, Typed, NotYet, Next PROVE NotYet'
<1>1. at \in Nat
  BY Counters
<1>2. CASE Plan \/ IssueFirst \/ IssueSecond \/ RequestTail \/ EarlyTail
  BY <1>2 DEF Plan, IssueFirst, IssueSecond, RequestTail, EarlyTail, NotYet
<1>3. CASE IssueGroup \/ ComputeGroup \/ AwaitTail \/ ComputeTail
  BY <1>3 DEF IssueGroup, ComputeGroup, AwaitTail, ComputeTail, NotYet
<1>4. CASE EndLayer
  <2>1. pc' = "idle" \/ at' = at + 1
    BY <1>4 DEF EndLayer
  <2> QED  BY <1>1, <2>1 DEF NotYet
<1>5. CASE RunCopy \/ RunTail \/ Compute \/ Reader
  <2>1. UNCHANGED <<pc, at, tailIssued>>
    BY <1>5 DEF RunCopy, RunTail, Compute, RunMap, RunGroup, Reader, ReaderGet, StartRead,
                EndRead, hostVars
  <2> QED  BY <2>1 DEF NotYet
<1> QED  BY <1>2, <1>3, <1>4, <1>5 DEF Next, Host

(* One layer asked for, unless it has been.                                *)
LEMMA AskedNext ==
  ASSUME StreamAssumption, Typed, RequestTail
  PROVE  /\ asked \in Nat /\ at <= asked /\ asked < at + NumBounce
         /\ \/ /\ Asked = Cap(asked) /\ Asked' = Cap(asked + 1)
               /\ asked = at => at = 0
            \/ Asked' = Asked /\ (asked < NumLayers => asked < Asked)
<1>1. /\ pc = "ask" /\ at' = at /\ asked' = asked + 1
      /\ pc' = IF asked + 1 = at + NumBounce THEN "early" ELSE "ask"
  BY DEF RequestTail
<1>2. /\ HasTail /\ at <= asked /\ asked < at + NumBounce /\ asked \in Nat /\ at \in Nat
      /\ NumBounce \in Nat /\ NumBounce >= 2 /\ NumLayers \in Nat
  BY <1>1, Counters, Sizes DEF Typed, Control
<1>3. Asked = IF at = 0 THEN Cap(asked) ELSE Cap(at + NumBounce - 1)
  BY <1>1, <1>2 DEF Asked
<1>4. CASE asked + 1 = at + NumBounce
  <2>1. Asked' = Cap(asked + 1)
    <3>1. pc' = "early"
      BY <1>1, <1>4
    <3>2. Asked' = Cap(at + NumBounce)
      BY <1>1, <1>2, <3>1 DEF Asked
    <3> QED  BY <1>4, <3>2
  <2>2. at + NumBounce - 1 = asked /\ asked # at
    BY <1>2, <1>4
  <2> QED  BY <1>2, <1>3, <2>1, <2>2
<1>5. CASE asked + 1 # at + NumBounce
  <2>1. Asked' = IF at = 0 THEN Cap(asked + 1) ELSE Cap(at + NumBounce - 1)
    BY <1>1, <1>2, <1>5 DEF Asked
  <2>2. CASE at = 0
    BY <1>2, <1>3, <2>1, <2>2
  <2>3. CASE at # 0
    <3>1. asked < at + NumBounce - 1
      BY <1>2, <1>5
    <3>2. asked < NumLayers => asked < Cap(at + NumBounce - 1)
      BY <3>1 DEF Cap
    <3> QED  BY <1>2, <1>3, <2>1, <2>3, <3>2
  <2> QED  BY <2>2, <2>3
<1> QED  BY <1>4, <1>5

LEMMA AskRequests ==
  ASSUME StreamAssumption, Typed, Requested, NotYet, RequestTail PROVE Requested'
<1>1. PICK a \in Nat, N \in Nat : a = asked /\ N = NumLayers
  BY Counters, Sizes
<1>2. /\ pc = "ask" /\ pc' # "idle" /\ at' = at /\ gen' = gen /\ tailIssued' = tailIssued
      /\ UNCHANGED <<owner, rpc, request>>
      /\ pc' # "nextTail"
  BY DEF RequestTail
<1>3. /\ at <= a /\ a < at + NumBounce /\ at \in Nat /\ NumBounce \in Nat /\ NumBounce >= 1
      /\ gen \in Nat /\ gen >= 1
  BY <1>1, <1>2, AskedNext, Counters, Sizes DEF Typed, Control
<1>4. \/ /\ Asked = Cap(a) /\ Asked' = Cap(a + 1)
         /\ a = at => at = 0
      \/ Asked' = Asked /\ (a < N => a < Asked)
  BY <1>1, AskedNext
<1>5. Asked \in Nat /\ Asked' \in Nat /\ Asked <= Asked' /\ Asked' <= N
      /\ \A l \in Nat : l < Asked' => l < Asked \/ l = a
  <2>1. Asked \in Nat /\ Asked <= N
    BY <1>1, AskedRange
  <2>2. Cap(a) = (IF a < N THEN a ELSE N) /\ Cap(a + 1) = (IF a + 1 < N THEN a + 1 ELSE N)
    BY <1>1 DEF Cap
  <2> QED  BY <1>1, <1>4, <2>1, <2>2
<1>6. Low' = Low
  BY <1>2 DEF Low
<1>7. ASSUME NEW k, Outstanding(k), k[2] \in Nat PROVE Outstanding(k)'
  <2>1. k[1] = gen /\ Low <= k[2] /\ k[2] < Asked
    BY <1>7 DEF Outstanding
  <2>2. k[2] < Asked'
    BY <1>5, <1>7, <2>1
  <2> QED  BY <1>2, <1>6, <2>1, <2>2 DEF Outstanding
<1>8. request \in Keys /\ queue \in Seq(Keys) /\ owner \in [Bounces -> Keys]
      /\ pending \in [Bounces -> Keys] /\ \A i \in DOMAIN queue : queue[i] \in Keys
  BY RequestKeys
<1>9. Outstanding(request) => Outstanding(request)'
  <2>1. PICK k \in Keys : k = request /\ k = request'
    BY <1>2, <1>8
  <2>2. k[2] \in Nat
    BY KeyParts
  <2>3. Outstanding(k) => Outstanding(k)'
    BY <1>7, <2>2
  <2> QED  BY <2>1, <2>3
<1>10. PICK key : key = <<gen, a>> /\ key[1] = gen /\ key[2] = a
  <2>1. PICK k : k = <<gen, a>>
    OBVIOUS
  <2>2. k[1] = gen /\ k[2] = a
    BY <2>1
  <2> QED  BY <2>1, <2>2
<1>11. PICK b \in Bounces : b = a % NumBounce
  BY InBounces
<1>12. CASE a < N /\ pending[b] # key /\ owner[b] # key
  <2>1. queue' = Append(queue, key) /\ pending' = [pending EXCEPT ![b] = key]
    BY <1>1, <1>10, <1>11, <1>12 DEF RequestTail
  <2>2. key \in Keys
    <3>1. gen \in 0 .. MaxSteps /\ a \in 0 .. NumLayers - 1
      BY <1>1, <1>12, Sizes DEF Typed, Types
    <3> QED  BY <1>10, <1>11, <3>1 DEF Keys
  <2>3. Grown(queue, key, queue')
    BY <1>8, <2>1, <2>2, Grows
  <2>4. Asked = a /\ (a = at => at = 0)
    <3>1. ~(a < Asked)
      <4>1. SUFFICES ASSUME a < Asked PROVE FALSE
        OBVIOUS
      <4>2. Here(a)
        BY <1>2, <1>3, <4>1 DEF Requested, Covered
      <4> QED  BY <1>10, <1>11, <1>12, <4>2 DEF Here
    <3> QED  BY <1>1, <1>4, <1>12, <3>1 DEF Cap
  <2>5. Asked' = a + 1
    <3>1. Cap(a + 1) = a + 1
      BY <1>1, <1>12 DEF Cap
    <3> QED  BY <1>1, <1>4, <1>12, <2>4, <3>1
  <2>6. Outstanding(key)'
    <3>1. Low <= a
      <4>1. CASE a = at
        BY <1>2, <2>4, <4>1 DEF NotYet, Low
      <4>2. CASE a # at
        BY <1>3, <4>2 DEF Low
      <4> QED  BY <4>1, <4>2
    <3>2. a < Asked'
      BY <2>5
    <3> QED  BY <1>2, <1>6, <1>10, <1>11, <3>1, <3>2 DEF Outstanding
  <2>7. \A i \in DOMAIN queue' : queue'[i] = key \/ (i \in DOMAIN queue /\ queue'[i] = queue[i])
    BY <2>3 DEF Grown
  <2>8. Queued'
    <3>1. ASSUME NEW i \in DOMAIN queue' PROVE Outstanding(queue[i])'
      <4>1. CASE queue'[i] = key
        BY <2>6, <4>1 DEF Outstanding
      <4>2. CASE i \in DOMAIN queue /\ queue'[i] = queue[i]
        <5>1. PICK k \in Keys : k = queue[i] /\ k = queue'[i]
          BY <1>8, <4>2
        <5>2. Outstanding(k) /\ k[2] \in Nat
          BY <4>2, <5>1, KeyParts DEF Requested, Queued
        <5>3. Outstanding(k)'
          BY <1>7, <5>2
        <5> QED  BY <5>1, <5>3 DEF Outstanding
      <4> QED  BY <2>7, <4>1, <4>2
    <3>2. ASSUME NEW i \in DOMAIN queue', NEW j \in DOMAIN queue', i < j
          PROVE  queue'[i][2] < queue'[j][2]
      <4>1. i \in 1 .. Len(queue) /\ i \in DOMAIN queue /\ queue'[i] = queue[i]
        BY <2>3, <3>2 DEF Grown
      <4>2. CASE j \in 1 .. Len(queue)
        BY <2>3, <3>2, <4>1, <4>2 DEF Grown, Requested, Queued
      <4>3. CASE j = Len(queue) + 1
        <5>1. queue'[j] = key
          BY <2>3, <4>3 DEF Grown
        <5>2. queue[i][2] < Asked
          BY <4>1 DEF Requested, Queued, Outstanding
        <5> QED  BY <1>10, <1>11, <2>4, <4>1, <5>1, <5>2
      <4> QED  BY <2>3, <3>2, <4>2, <4>3 DEF Grown
    <3> QED  BY <3>1, <3>2 DEF Queued
  <2>9. Reading'
    <3> SUFFICES ASSUME rpc # "get"
                 PROVE  Outstanding(request)' /\ \A i \in DOMAIN queue' : request[2] < queue'[i][2]
      BY <1>2 DEF Reading
    <3>1. Outstanding(request) /\ \A i \in DOMAIN queue : request[2] < queue[i][2]
      BY DEF Requested, Reading
    <3>2. request[2] < a
      BY <2>4, <3>1 DEF Outstanding
    <3> QED  BY <1>9, <1>10, <1>11, <2>7, <3>1, <3>2
  <2>10. Owned'
    <3> SUFFICES ASSUME NEW c \in Bounces, owner[c] # NoKey
                 PROVE  /\ owner[c][1] <= gen /\ owner[c][2] % NumBounce = c
                        /\ owner[c][1] = gen => Earlier(c)'
      BY <1>2 DEF Owned
    <3>1. /\ owner[c][1] <= gen /\ owner[c][2] % NumBounce = c
          /\ owner[c][1] = gen => Earlier(c)
      BY DEF Requested, Owned
    <3>2. owner[c][2] \in Nat
      BY <1>8, KeyParts
    <3>3. ASSUME Earlier(c) PROVE Earlier(c)'
      <4>1. /\ owner[c][2] < Asked /\ (rpc # "get" => owner[c][2] < request[2])
            /\ \A i \in DOMAIN queue : owner[c][2] < queue[i][2]
        BY <3>3 DEF Earlier
      <4>2. owner[c][2] < Asked'
        BY <1>5, <3>2, <4>1
      <4>3. \A i \in DOMAIN queue' : owner[c][2] < queue'[i][2]
        BY <1>10, <1>11, <2>4, <2>7, <4>1
      <4> QED  BY <1>2, <4>1, <4>2, <4>3 DEF Earlier
    <3> QED  BY <3>1, <3>3
  <2>11. Covered'
    <3> SUFFICES ASSUME NEW l \in Nat, at <= l, l < Asked' PROVE Here(l)'
      BY <1>2 DEF Covered
    <3>1. l % NumBounce \in Bounces
      BY InBounces
    <3>2. CASE l = a
      BY <1>2, <1>8, <1>10, <1>11, <2>1, <3>1, <3>2 DEF Here
    <3>3. CASE l # a
      <4>1. l < a /\ Here(l)
        BY <1>2, <1>5, <2>4, <3>3 DEF Requested, Covered
      <4>2. l % NumBounce # b
        <5>1. l % NumBounce = a % NumBounce => l + NumBounce <= a
          BY <1>3, <4>1, SameRemainder
        <5> QED  BY <1>3, <1>10, <1>11, <5>1
      <4>3. pending'[l % NumBounce] = pending[l % NumBounce]
        BY <1>8, <2>1, <3>1, <4>2
      <4> QED  BY <1>2, <4>1, <4>3 DEF Here
    <3> QED  BY <3>2, <3>3
  <2> QED  BY <2>8, <2>9, <2>10, <2>11 DEF Requested
<1>13. CASE ~(a < N /\ pending[b] # key /\ owner[b] # key)
  <2>1. UNCHANGED <<queue, pending>>
    BY <1>1, <1>10, <1>11, <1>13 DEF RequestTail
  <2>2. Queued'
    <3>1. ASSUME NEW i \in DOMAIN queue PROVE Outstanding(queue[i])'
      <4>1. PICK k \in Keys : k = queue[i] /\ k = queue'[i]
        BY <1>8, <2>1
      <4>2. Outstanding(k) /\ k[2] \in Nat
        BY <4>1, KeyParts DEF Requested, Queued
      <4>3. Outstanding(k)'
        BY <1>7, <4>2
      <4> QED  BY <4>1, <4>3
    <3> QED  BY <2>1, <3>1 DEF Requested, Queued
  <2>3. Reading'
    BY <1>2, <1>9, <2>1 DEF Requested, Reading
  <2>4. Owned'
    <3> SUFFICES ASSUME NEW c \in Bounces, owner[c] # NoKey
                 PROVE  /\ owner[c][1] <= gen /\ owner[c][2] % NumBounce = c
                        /\ owner[c][1] = gen => Earlier(c)'
      BY <1>2 DEF Owned
    <3>1. /\ owner[c][1] <= gen /\ owner[c][2] % NumBounce = c
          /\ owner[c][1] = gen => Earlier(c)
      BY DEF Requested, Owned
    <3>2. owner[c][2] \in Nat
      BY <1>8, KeyParts
    <3>3. owner[c][2] < Asked => owner[c][2] < Asked'
      BY <1>5, <3>2
    <3> QED  BY <1>2, <2>1, <3>1, <3>3 DEF Earlier
  <2>5. Covered'
    <3> SUFFICES ASSUME NEW l \in Nat, at <= l, l < Asked' PROVE Here(l)'
      BY <1>2 DEF Covered
    <3>1. Here(l)
      <4>1. CASE l = a
        <5>1. a < N
          BY <1>1, <1>5, <4>1
        <5> QED  BY <1>10, <1>11, <1>13, <4>1, <5>1 DEF Here
      <4>2. CASE l # a
        BY <1>2, <1>5, <4>2 DEF Requested, Covered
      <4> QED  BY <4>1, <4>2
    <3> QED  BY <1>2, <2>1, <3>1 DEF Here
  <2> QED  BY <2>2, <2>3, <2>4, <2>5 DEF Requested
<1> QED  BY <1>12, <1>13

LEMMA ReaderUnchanged ==
  ASSUME Reader
  PROVE  /\ UNCHANGED <<pc, gen, at, tailIssued, asked>>
         /\ Asked' = Asked /\ Low' = Low /\ \A k : Outstanding(k) => Outstanding(k)'
<1>1. UNCHANGED <<pc, gen, at, tailIssued, asked>>
  BY DEF Reader, ReaderGet, StartRead, EndRead, hostVars
<1>2. Asked' = Asked /\ Low' = Low
  BY <1>1 DEF Asked, Low
<1>3. ASSUME NEW k, Outstanding(k) PROVE Outstanding(k)'
  BY <1>1, <1>2, <1>3 DEF Outstanding
<1> QED  BY <1>1, <1>2, <1>3

LEMMA GetRequests ==
  ASSUME StreamAssumption, Typed, Requested, ReaderGet PROVE Requested'
<1>1. /\ rpc = "get" /\ queue # <<>> /\ rpc' = "wait" /\ request' = Head(queue)
      /\ queue' = Tail(queue) /\ UNCHANGED <<owner, pending>>
  BY DEF ReaderGet
<1>2. /\ UNCHANGED <<pc, gen, at>> /\ Asked' = Asked
      /\ \A k : Outstanding(k) => Outstanding(k)'
  BY ReaderUnchanged DEF Reader
<1>3. queue \in Seq(Keys) /\ \A i \in DOMAIN queue : queue[i] \in Keys
  BY RequestKeys
<1>4. Head(queue) = queue[1] /\ Shrunk(queue, queue')
  BY <1>1, <1>3, Shrinks
<1>5. 1 \in DOMAIN queue /\ \A i \in DOMAIN queue' : i + 1 \in DOMAIN queue /\ 1 < i + 1
                                                     /\ queue'[i] = queue[i + 1]
  BY <1>4 DEF Shrunk
<1>6. \A i \in DOMAIN queue : Outstanding(queue[i])
  BY DEF Requested, Queued
<1>7. Queued'
  <2>1. ASSUME NEW i \in DOMAIN queue' PROVE Outstanding(queue[i])'
    <3>1. PICK k : k = queue'[i] /\ k = queue[i + 1]
      BY <1>5
    <3>2. Outstanding(k)'
      BY <1>2, <1>5, <1>6, <3>1
    <3> QED  BY <3>1, <3>2 DEF Outstanding
  <2>2. ASSUME NEW i \in DOMAIN queue', NEW j \in DOMAIN queue', i < j
        PROVE  queue'[i][2] < queue'[j][2]
    <3>1. i + 1 < j + 1
      BY <1>4, <2>2 DEF Shrunk
    <3> QED  BY <1>5, <3>1 DEF Requested, Queued
  <2> QED  BY <2>1, <2>2 DEF Queued
<1>8. Reading'
  <2>1. PICK k : k = queue[1] /\ k = request'
    BY <1>1, <1>4
  <2>2. Outstanding(k)'
    BY <1>2, <1>5, <1>6, <2>1
  <2>3. Outstanding(request)'
    BY <2>1, <2>2 DEF Outstanding
  <2>4. \A i \in DOMAIN queue' : request'[2] < queue'[i][2]
    BY <1>5, <2>1 DEF Requested, Queued
  <2> QED  BY <2>3, <2>4 DEF Reading
<1>9. Owned'
  BY <1>1, <1>2, <1>4, <1>5 DEF Requested, Owned, Earlier
<1>10. Covered'
  BY <1>1, <1>2 DEF Requested, Covered, Here
<1> QED  BY <1>7, <1>8, <1>9, <1>10 DEF Requested

LEMMA StartRequests ==
  ASSUME StreamAssumption, Typed, Requested, StartRead PROVE Requested'
<1>1. rpc = "wait" /\ rpc' = "read" /\ UNCHANGED <<owner, pending, queue, request>>
  BY DEF StartRead
<1>2. /\ UNCHANGED <<pc, gen, at>> /\ Asked' = Asked
      /\ \A k : Outstanding(k) => Outstanding(k)'
  BY ReaderUnchanged DEF Reader
<1>3. Queued'
  <2>1. ASSUME NEW i \in DOMAIN queue PROVE Outstanding(queue[i])'
    <3>1. PICK k : k = queue[i] /\ k = queue'[i]
      BY <1>1
    <3>2. Outstanding(k)'
      BY <1>2, <3>1 DEF Requested, Queued
    <3> QED  BY <3>1, <3>2 DEF Outstanding
  <2> QED  BY <1>1, <2>1 DEF Requested, Queued
<1>4. Reading'
  <2>1. PICK k : k = request /\ k = request'
    BY <1>1
  <2>2. Outstanding(k)'
    BY <1>1, <1>2, <2>1 DEF Requested, Reading
  <2>3. Outstanding(request)'
    BY <2>1, <2>2 DEF Outstanding
  <2> QED  BY <1>1, <2>3 DEF Requested, Reading
<1>5. Owned'
  BY <1>1, <1>2 DEF Requested, Owned, Earlier
<1>6. Covered'
  BY <1>1, <1>2 DEF Requested, Covered, Here
<1> QED  BY <1>3, <1>4, <1>5, <1>6 DEF Requested

(* A tail read: nothing the host still needs was in its buffer.            *)
LEMMA EndRequests ==
  ASSUME StreamAssumption, Typed, Requested, EndRead PROVE Requested'
<1>1. PICK k \in Keys : k = request
  BY RequestKeys
<1>2. PICK b \in Bounces : b = Buffer /\ b = k[2] % NumBounce
  BY <1>1, InBounces, KeyParts DEF Buffer
<1>3. /\ rpc = "read" /\ rpc' = "get" /\ UNCHANGED <<queue, request>>
      /\ owner' = [owner EXCEPT ![b] = k]
      /\ pending' = [pending EXCEPT ![b] = IF @ = k THEN NoKey ELSE @]
  BY <1>1, <1>2 DEF EndRead
<1>4. /\ UNCHANGED <<pc, gen, at>> /\ Asked' = Asked
      /\ \A x : Outstanding(x) => Outstanding(x)'
  BY ReaderUnchanged DEF Reader
<1>5. owner \in [Bounces -> Keys] /\ pending \in [Bounces -> Keys]
  BY RequestKeys
<1>6. Outstanding(k) /\ \A i \in DOMAIN queue : k[2] < queue[i][2]
  BY <1>1, <1>3 DEF Requested, Reading
<1>7. Queued'
  <2>1. ASSUME NEW i \in DOMAIN queue PROVE Outstanding(queue[i])'
    <3>1. PICK x : x = queue[i] /\ x = queue'[i]
      BY <1>3
    <3>2. Outstanding(x)'
      BY <1>4, <3>1 DEF Requested, Queued
    <3> QED  BY <3>1, <3>2 DEF Outstanding
  <2> QED  BY <1>3, <2>1 DEF Requested, Queued
<1>8. Reading'
  BY <1>3 DEF Reading
<1>9. Owned'
  <2> SUFFICES ASSUME NEW c \in Bounces, owner'[c] # NoKey
               PROVE  /\ owner'[c][1] <= gen /\ owner'[c][2] % NumBounce = c
                      /\ owner'[c][1] = gen => Earlier(c)'
    BY <1>4 DEF Owned
  <2>1. CASE c = b
    <3>1. owner'[c] = k
      BY <1>3, <1>5, <2>1
    <3>2. k[1] = gen /\ k[2] < Asked
      BY <1>6 DEF Outstanding
    <3>3. Earlier(c)'
      BY <1>3, <1>4, <1>6, <3>1, <3>2 DEF Earlier
    <3>4. gen <= gen
      BY Counters
    <3> QED  BY <1>2, <2>1, <3>1, <3>2, <3>3, <3>4
  <2>2. CASE c # b
    <3>1. owner'[c] = owner[c]
      BY <1>3, <1>5, <2>2
    <3>2. /\ owner[c][1] <= gen /\ owner[c][2] % NumBounce = c
          /\ owner[c][1] = gen => Earlier(c)
      BY <3>1 DEF Requested, Owned
    <3>3. Earlier(c) => Earlier(c)'
      BY <1>3, <1>4, <3>1 DEF Earlier
    <3> QED  BY <3>1, <3>2, <3>3
  <2> QED  BY <2>1, <2>2
<1>10. Covered'
  <2> SUFFICES ASSUME pc # "idle", NEW l \in Nat, at <= l, l < Asked PROVE Here(l)'
    BY <1>4 DEF Covered
  <2>1. Here(l)
    BY DEF Requested, Covered
  <2>2. PICK c \in Bounces : c = l % NumBounce
    BY InBounces
  <2>3. CASE c # b
    <3>1. owner'[c] = owner[c] /\ pending'[c] = pending[c]
      BY <1>3, <1>5, <2>3
    <3> QED  BY <1>4, <2>1, <2>2, <3>1 DEF Here
  <2>4. CASE c = b
    <3>1. CASE pending[c] = <<gen, l>>
      <4>1. CASE pending[c] = k
        <5>1. owner'[c] = <<gen, l>>
          BY <1>3, <1>5, <2>4, <3>1, <4>1
        <5> QED  BY <1>4, <2>2, <5>1 DEF Here
      <4>2. CASE pending[c] # k
        <5>1. pending'[c] = <<gen, l>>
          BY <1>3, <1>5, <2>4, <3>1, <4>2
        <5> QED  BY <1>4, <2>2, <5>1 DEF Here
      <4> QED  BY <4>1, <4>2
    <3>2. CASE owner[c] = <<gen, l>>
      <4>1. gen \in Nat /\ gen >= 1
        BY Counters DEF Typed, Control
      <4>2. owner[c] # NoKey /\ owner[c][1] = gen /\ owner[c][2] = l
        BY <3>2, <4>1 DEF NoKey
      <4>3. l < k[2]
        BY <1>1, <1>3, <4>2 DEF Requested, Owned, Earlier
      <4>4. k[2] \in Nat /\ NumBounce \in Nat /\ NumBounce >= 1 /\ at \in Nat
            /\ Asked \in Nat /\ Asked <= at + NumBounce
        BY KeyParts, Sizes, Counters, AskedRange
      <4>5. l + NumBounce <= k[2]
        <5>1. l % NumBounce = k[2] % NumBounce
          BY <1>2, <2>2, <2>4
        <5> QED  BY <4>3, <4>4, <5>1, SameRemainder
      <4>6. k[2] < Asked
        BY <1>6 DEF Outstanding
      <4> QED  BY <4>4, <4>5, <4>6
    <3> QED  BY <2>1, <2>2, <3>1, <3>2 DEF Here
  <2> QED  BY <2>3, <2>4
<1> QED  BY <1>7, <1>8, <1>9, <1>10 DEF Requested

(* The layer's tail is issued out of its buffer.                           *)
LEMMA TriedLow ==
  ASSUME StreamAssumption, Typed, NEW l \in Nat, TailTried(l)
  PROVE  tailIssued' = tailIssued \/ (tailIssued' = l /\ owner[l % NumBounce] = <<gen, l>> /\ HasTail)
  BY DEF TailTried, TailCopied

LEMMA LayerRequests ==
  ASSUME StreamAssumption, Typed, Requested, TailsFilled, EarlyTail \/ AwaitTail \/ EndLayer
  PROVE  Requested'
<1>1. UNCHANGED <<gen, queue, pending, owner, rpc, request>>
  BY DEF EarlyTail, AwaitTail, EndLayer
<1>2. /\ gen \in Nat /\ at \in Nat /\ at < NumLayers /\ NumLayers \in Nat /\ pc # "idle" /\ gen >= 1
      /\ NumBounce \in Nat /\ NumBounce >= 2
  BY Counters, Sizes DEF EarlyTail, AwaitTail, EndLayer, Typed, Control
<1>3. CASE EarlyTail \/ AwaitTail
  <2>1. /\ TryTail(at) /\ at' = at /\ pc' \in {"groups", "tailGroup"}
        /\ pc \in {"early", "groups"}
    BY <1>3 DEF EarlyTail, AwaitTail
  <2>2. TailTried(at)
    BY <1>2, <2>1, TryEffect DEF Typed
  <2>3. Asked' = Asked
    BY <2>1 DEF Asked
  <2>4. tailIssued' = tailIssued \/ (tailIssued' = at /\ owner[at % NumBounce] = <<gen, at>>)
    BY <1>2, <2>2, TriedLow
  <2>5. \/ Low' = Low
        \/ \E l \in Nat : l + 1 = Low' /\ owner[l % NumBounce] = <<gen, l>> /\ gen >= 1
    <3>1. CASE tailIssued' = tailIssued
      BY <2>1, <3>1 DEF Low
    <3>2. CASE tailIssued' = at /\ owner[at % NumBounce] = <<gen, at>>
      <4>1. Low' = at + 1
        BY <2>1, <3>2 DEF Low
      <4> QED  BY <1>2, <3>2, <4>1
    <3> QED  BY <2>4, <3>1, <3>2
  <2>6. pc' # "idle" /\ at <= at' /\ at' \in Nat
    BY <1>2, <2>1
  <2> QED  BY <1>1, <1>2, <2>3, <2>5, <2>6, RequestsStill
<1>4. CASE EndLayer /\ at + 1 < NumLayers
  <2>1. /\ TryTail(at + 1) /\ at' = at + 1 /\ pc' = "first"
        /\ IF HasTail THEN pc = "nextTail" ELSE pc = "groups"
    BY <1>4 DEF EndLayer
  <2>2. PICK l \in Nat : l = at + 1
    BY <1>2
  <2>3. TailTried(l)
    BY <2>1, <2>2, TryEffect DEF Typed
  <2>4. tailIssued = -1
    BY <2>1 DEF TailsFilled, TailControl, TailAhead
  <2>5. Asked' = Asked
    <3>1. CASE HasTail
      <4>1. Asked = Cap(at + NumBounce)
        BY <2>1, <3>1 DEF Asked
      <4>2. at' # 0 /\ at' + NumBounce - 1 = at + NumBounce
        BY <1>2, <2>1
      <4>3. Asked' = Cap(at' + NumBounce - 1)
        BY <2>1, <3>1, <4>2 DEF Asked
      <4> QED  BY <4>1, <4>2, <4>3
    <3>2. CASE ~HasTail
      BY <3>2 DEF Asked
    <3> QED  BY <3>1, <3>2
  <2>6. CASE HasTail
    <3>1. Low = l
      BY <2>1, <2>2, <2>6 DEF Low
    <3>2. CASE tailIssued' = tailIssued
      <4>1. Low' = Low
        BY <2>1, <2>2, <2>4, <3>1, <3>2 DEF Low
      <4> QED  BY <1>1, <1>2, <2>1, <2>2, <2>5, <4>1, RequestsStill
    <3>3. CASE tailIssued' = l /\ owner[l % NumBounce] = <<gen, l>>
      <4>1. Low' = l + 1
        BY <2>1, <2>2, <3>3 DEF Low
      <4> QED  BY <1>1, <1>2, <2>1, <2>2, <2>5, <3>3, <4>1, RequestsStill
    <3> QED  BY <2>3, <3>2, <3>3, TriedLow
  <2>7. CASE ~HasTail
    <3>1. Asked = 0 /\ Asked' = 0
      BY <2>7 DEF Asked
    <3>2. rpc = "get" /\ DOMAIN queue = {}
      <4>1. \A k \in Keys : ~Outstanding(k)
        BY <3>1, KeyParts DEF Outstanding
      <4> QED  BY <4>1, NoneOutstanding
    <3>3. Queued' /\ Reading'
      BY <1>1, <3>2 DEF Queued, Reading
    <3>4. Owned'
      BY <1>1, <2>5 DEF Requested, Owned, Earlier
    <3>5. Covered'
      BY <3>1 DEF Covered
    <3> QED  BY <3>3, <3>4, <3>5 DEF Requested
  <2> QED  BY <2>6, <2>7
<1>5. CASE EndLayer /\ ~(at + 1 < NumLayers)
  <2>1. /\ pc' = "idle" /\ at + 1 = NumLayers
        /\ IF HasTail THEN pc = "nextTail" ELSE pc = "groups"
    BY <1>2, <1>5 DEF EndLayer
  <2>2. Asked' = Asked
    <3>1. CASE HasTail
      <4>1. Asked = Cap(at + NumBounce)
        BY <2>1, <3>1 DEF Asked
      <4>2. Cap(at + NumBounce) = NumLayers
        BY <1>2, <2>1 DEF Cap
      <4>3. Asked' = NumLayers
        BY <2>1, <3>1 DEF Asked
      <4> QED  BY <4>1, <4>2, <4>3
    <3>2. CASE ~HasTail
      BY <3>2 DEF Asked
    <3> QED  BY <3>1, <3>2
  <2>3. rpc = "get" /\ DOMAIN queue = {}
    <3>1. ASSUME NEW k \in Keys PROVE ~Outstanding(k)
      <4>1. k[2] \in Nat /\ k[2] < NumLayers /\ Asked <= NumLayers /\ Asked \in Nat
        BY KeyParts, AskedRange
      <4>2. CASE HasTail
        <5>1. Low = NumLayers
          BY <2>1, <4>2 DEF Low
        <5> QED  BY <1>2, <4>1, <5>1 DEF Outstanding
      <4>3. CASE ~HasTail
        <5>1. Asked = 0
          BY <4>3 DEF Asked
        <5> QED  BY <4>1, <5>1 DEF Outstanding
      <4> QED  BY <4>2, <4>3
    <3> QED  BY <3>1, NoneOutstanding
  <2>4. Queued' /\ Reading'
    BY <1>1, <2>3 DEF Queued, Reading
  <2>5. Owned'
    BY <1>1, <2>2 DEF Requested, Owned, Earlier
  <2>6. Covered'
    BY <2>1 DEF Covered
  <2> QED  BY <2>4, <2>5, <2>6 DEF Requested
<1> QED  BY <1>3, <1>4, <1>5

LEMMA RestRequests ==
  ASSUME StreamAssumption, Typed, Requested, TailsFilled,
         \/ IssueFirst \/ IssueSecond \/ IssueGroup \/ ComputeGroup \/ ComputeTail
         \/ RunCopy \/ RunTail \/ RunMap \/ RunGroup
  PROVE  Requested'
<1>1. UNCHANGED <<gen, queue, pending, owner, rpc, request, at>>
  BY DEF IssueFirst, IssueSecond, IssueGroup, ComputeGroup, ComputeTail, RunCopy, RunTail,
         RunMap, RunGroup, hostVars, readerVars
<1>2. at \in Nat /\ at <= at /\ NumLayers \in Nat /\ NumLayers >= 1
  BY Counters, Sizes
<1>3. CASE IssueFirst \/ IssueSecond \/ IssueGroup \/ ComputeGroup
  <2>1. /\ tailIssued' = tailIssued /\ pc # "nextTail" /\ pc' # "nextTail"
        /\ pc # "idle" /\ pc' # "idle"
    BY <1>3 DEF IssueFirst, IssueSecond, IssueGroup, ComputeGroup
  <2>2. Low' = Low
    BY <1>1, <2>1 DEF Low
  <2>3. Asked' = Asked
    <3>1. CASE IssueFirst
      <4>1. pc = "first" /\ pc' = "second"
        BY <3>1 DEF IssueFirst
      <4> QED  BY <1>1, <4>1 DEF Asked
    <3>2. CASE IssueSecond
      <4>1. pc = "second" /\ IF HasTail THEN pc' = "ask" /\ asked' = at ELSE pc' = "groups"
        BY <3>2 DEF IssueSecond
      <4>2. at = 0 => Cap(at) = 0
        BY <1>2 DEF Cap
      <4> QED  BY <1>1, <4>1, <4>2 DEF Asked
    <3>3. CASE IssueGroup
      <4>1. pc = "groups" /\ pc' = "convert"
        BY <3>3 DEF IssueGroup
      <4> QED  BY <1>1, <4>1 DEF Asked
    <3>4. CASE ComputeGroup
      <4>1. pc = "convert" /\ pc' = "groups"
        BY <3>4 DEF ComputeGroup
      <4> QED  BY <1>1, <4>1 DEF Asked
    <3> QED  BY <1>3, <3>1, <3>2, <3>3, <3>4
  <2> QED  BY <1>1, <1>2, <2>1, <2>2, <2>3, RequestsStill
<1>4. CASE ComputeTail
  <2>1. pc = "tailGroup" /\ pc' = "nextTail" /\ tailIssued' = -1 /\ tailIssued = at
    BY <1>4 DEF ComputeTail, TailsFilled, TailControl
  <2>2. Low' = Low
    BY <1>1, <2>1 DEF Low
  <2>3. Asked' = Asked
    BY <1>1, <2>1 DEF Asked
  <2> QED  BY <1>1, <1>2, <2>1, <2>2, <2>3, RequestsStill
<1>5. CASE RunCopy \/ RunTail \/ RunMap \/ RunGroup
  <2>1. UNCHANGED <<pc, tailIssued, asked>>
    BY <1>5 DEF RunCopy, RunTail, RunMap, RunGroup, hostVars
  <2>2. Low' = Low /\ Asked' = Asked
    BY <1>1, <2>1 DEF Low, Asked
  <2> QED  BY <1>1, <1>2, <2>1, <2>2, RequestsStill
<1> QED  BY <1>3, <1>4, <1>5

-----------------------------------------------------------------------------
(* Bounced: the bounce buffers.                                            *)

(* A buffer the reader is not filling holds the layer it belongs to; a DMA *)
(* out of it is one the reader has waited for, or is to wait for.          *)
Held == \A b \in Bounces : owner[b] # NoKey /\ ~(rpc = "read" /\ b = Buffer) =>
          bounce[b] = TailGroup(owner[b][1], owner[b][2])
Dma(i) ==
  /\ bounce[tail[i].buf] = tail[i].key
  /\ tail[i].nth <= doneEvent[tail[i].buf]
  /\ rpc = "wait" /\ tail[i].buf = Buffer => tail[i].nth <= awaited
  /\ rpc = "read" => tail[i].buf # Buffer
Recorded == \A b \in Bounces : doneEvent[b] <= recorded[<<"tail", 0>>]
Bounced == Held /\ (\A i \in DOMAIN tail : Dma(i)) /\ Recorded

(* Nothing of the reader and no DMA, but those that ran.                   *)
LEMMA BouncedStill ==
  ASSUME Bounced, UNCHANGED <<owner, rpc, request, bounce, doneEvent, awaited>>,
         recorded'[<<"tail", 0>>] = recorded[<<"tail", 0>>],
         \A i \in DOMAIN tail' : \E j \in DOMAIN tail : tail'[i] = tail[j]
  PROVE  Bounced'
<1>1. Buffer' = Buffer
  BY DEF Buffer
<1>2. Held'
  BY <1>1 DEF Bounced, Held, TailGroup
<1>3. ASSUME NEW i \in DOMAIN tail' PROVE Dma(i)'
  <2>1. PICK j \in DOMAIN tail : tail'[i] = tail[j]
    OBVIOUS
  <2>2. Dma(j)
    BY DEF Bounced
  <2> QED  BY <1>1, <2>1, <2>2 DEF Dma
<1>4. Recorded'
  BY DEF Bounced, Recorded
<1> QED  BY <1>2, <1>3, <1>4 DEF Bounced

LEMMA HostBounced ==
  ASSUME StreamAssumption, Typed, Bounced,
         \/ Plan \/ IssueFirst \/ IssueSecond \/ RequestTail \/ IssueGroup \/ ComputeGroup
         \/ ComputeTail \/ RunCopy \/ RunTail \/ RunMap \/ RunGroup
  PROVE  Bounced'
<1>1. UNCHANGED <<owner, rpc, request, bounce, doneEvent, awaited>>
  BY DEF Plan, IssueFirst, IssueSecond, RequestTail, IssueGroup, ComputeGroup, ComputeTail,
         RunCopy, RunTail, RunMap, RunGroup, memVars, readerVars
<1>2. recorded \in [Events -> Nat]
  BY Counters
<1>3. recorded'[<<"tail", 0>>] = recorded[<<"tail", 0>>]
  <2>1. CASE Plan
    <3>1. recorded' = [recorded EXCEPT ![<<"map", gen' % 2>>] = gen']
      BY <2>1 DEF Plan
    <3> QED  BY <1>2, <3>1, EventNames
  <2>2. CASE ComputeTail
    <3>1. PICK n : recorded' = [recorded EXCEPT ![<<"tailFree", 0>>] = n]
      BY <2>2 DEF ComputeTail
    <3> QED  BY <1>2, <3>1, EventNames
  <2>3. CASE IssueFirst \/ IssueSecond \/ IssueGroup \/ ComputeGroup
    <3>1. PICK pos, rec : /\ Issue(pos, rec)
                          /\ rec = recorded \/ \E e \in {0, 1} : \E n :
                                                 rec = [recorded EXCEPT ![<<"free", e>>] = n]
      <4>1. Position % 2 \in {0, 1}
        BY ReachingNat, Parity
      <4> QED  BY <2>3, <4>1 DEF IssueFirst, IssueSecond, IssueGroup, ComputeGroup
    <3>2. rec[<<"tail", 0>>] = recorded[<<"tail", 0>>] /\ DOMAIN rec = Events
      BY <1>2, <3>1, EventNames
    <3>3. recorded' = rec \/ \E e, n : recorded' = [rec EXCEPT ![<<"copied", e>>] = n]
      BY <3>1 DEF Issue
    <3> QED  BY <3>2, <3>3, EventNames
  <2>4. CASE RequestTail \/ RunCopy \/ RunTail \/ RunMap \/ RunGroup
    <3>1. recorded' = recorded
      BY <2>4 DEF RequestTail, RunCopy, RunTail, RunMap, RunGroup, streamVars
    <3> QED  BY <3>1
  <2> QED  BY <2>1, <2>2, <2>3, <2>4
<1>4. ASSUME NEW i \in DOMAIN tail' PROVE \E j \in DOMAIN tail : tail'[i] = tail[j]
  <2>1. CASE RunTail
    <3>1. tail # <<>> /\ tail' = Tail(tail)
      BY <2>1 DEF RunTail, Runs
    <3>2. Shrunk(tail, tail')
      BY <3>1, HeadOps DEF Typed
    <3>3. i + 1 \in DOMAIN tail /\ tail'[i] = tail[i + 1]
      BY <3>2 DEF Shrunk
    <3> QED  BY <3>3
  <2>2. CASE ~RunTail
    <3>1. tail' = tail
      BY <2>2 DEF Plan, IssueFirst, IssueSecond, RequestTail, IssueGroup, ComputeGroup,
                  ComputeTail, RunCopy, RunMap, RunGroup, streamVars
    <3> QED  BY <3>1
  <2> QED  BY <2>1, <2>2
<1> QED  BY <1>1, <1>3, <1>4, BouncedStill

(* A DMA enqueued: the reader is not at its buffer, for what it reads is   *)
(* for one of the next layers, fewer ahead than there are buffers.         *)
LEMMA TriedBounced ==
  ASSUME StreamAssumption, Typed, Streams, Requested, Bounced, pc # "idle",
         NEW l \in Nat, at <= l, TailTried(l),
         UNCHANGED <<owner, rpc, request, bounce, awaited>>
  PROVE  Bounced'
<1>1. PICK b \in Bounces : b = l % NumBounce
  BY InBounces
<1>2. CASE TailCopied(l) /\ owner[b] = <<gen, l>>
  <2>1. PICK op \in TailOps :
          /\ op.buf = b /\ op.key = TailGroup(gen, l) /\ op.nth = recorded[<<"tail", 0>>] + 1
          /\ Grown(tail, op, tail')
          /\ recorded' = [recorded EXCEPT ![<<"tail", 0>>] = recorded[<<"tail", 0>>] + 1]
          /\ doneEvent' = [doneEvent EXCEPT ![b] = recorded[<<"tail", 0>>] + 1]
    BY <1>1, <1>2 DEF TailCopied
  <2>2. PICK m \in Nat : m = recorded[<<"tail", 0>>]
    BY Counters, EventNames
  <2>3. recorded'[<<"tail", 0>>] = m + 1
    BY <2>1, <2>2, Counters, EventNames
  <2>4. doneEvent \in [Bounces -> Nat]
    BY DEF Typed, Types
  <2>5. doneEvent'[b] = m + 1 /\ \A c \in Bounces : c # b => doneEvent'[c] = doneEvent[c]
    BY <2>1, <2>2, <2>4
  <2>6. gen \in Nat /\ gen >= 1
    BY Counters DEF Typed, Control
  <2>7. owner[b] # NoKey /\ owner[b][1] = gen /\ owner[b][2] = l
    BY <1>2, <2>6 DEF NoKey
  <2>8. ASSUME rpc # "get" PROVE Buffer # b
    <3>1. request \in Keys /\ Outstanding(request) /\ l < request[2]
      BY <2>7, <2>8, RequestKeys DEF Requested, Reading, Owned, Earlier
    <3>2. request[2] \in Nat /\ NumBounce \in Nat /\ NumBounce >= 1 /\ at \in Nat
          /\ Asked \in Nat /\ Asked <= at + NumBounce
      BY <3>1, KeyParts, Sizes, Counters, AskedRange
    <3>3. SUFFICES ASSUME Buffer = b PROVE FALSE
      OBVIOUS
    <3>4. l + NumBounce <= request[2]
      <4>1. l % NumBounce = request[2] % NumBounce
        BY <1>1, <3>3 DEF Buffer
      <4>2. PICK x \in Nat : x = request[2]
        BY <3>2
      <4> QED  BY <3>1, <3>2, <4>1, <4>2, SameRemainder
    <3>5. request[2] < Asked
      BY <3>1 DEF Outstanding
    <3> QED  BY <3>2, <3>4, <3>5
  <2>9. Buffer' = Buffer
    BY DEF Buffer
  <2>10. bounce[b] = TailGroup(gen, l)
    BY <2>7, <2>8 DEF Bounced, Held
  <2>11. Held'
    BY <2>9 DEF Bounced, Held, TailGroup
  <2>12. ASSUME NEW i \in DOMAIN tail' PROVE Dma(i)'
    <3>1. CASE tail'[i] = op
      <4>1. bounce[b] = op.key /\ op.nth <= doneEvent'[b]
        BY <2>1, <2>2, <2>5, <2>10
      <4> QED  BY <2>1, <2>8, <2>9, <3>1, <4>1 DEF Dma
    <3>2. CASE i \in DOMAIN tail /\ tail'[i] = tail[i]
      <4>1. Dma(i)
        BY <3>2 DEF Bounced
      <4>2. tail[i].buf \in Bounces /\ tail[i].nth \in Nat
        BY <3>2, Shapes DEF Typed, TailOps, TailDma, Ops
      <4>3. tail[i].nth <= doneEvent'[tail[i].buf]
        <5>1. CASE tail[i].buf = b
          <6>1. doneEvent[b] \in Nat /\ doneEvent[b] <= m /\ tail[i].nth <= doneEvent[b]
            BY <2>2, <2>4, <4>1, <5>1 DEF Dma, Bounced, Recorded
          <6> QED  BY <2>5, <4>2, <5>1, <6>1
        <5>2. CASE tail[i].buf # b
          BY <2>5, <4>1, <4>2, <5>2 DEF Dma
        <5> QED  BY <5>1, <5>2
      <4> QED  BY <2>9, <3>2, <4>1, <4>3 DEF Dma
    <3> QED  BY <2>1, <3>1, <3>2 DEF Grown
  <2>13. Recorded'
    <3> SUFFICES ASSUME NEW c \in Bounces PROVE doneEvent'[c] <= m + 1
      BY <2>3 DEF Recorded
    <3>1. doneEvent[c] \in Nat /\ doneEvent[c] <= m
      BY <2>2, <2>4 DEF Bounced, Recorded
    <3> QED  BY <2>5, <3>1
  <2> QED  BY <2>11, <2>12, <2>13 DEF Bounced
<1>3. CASE tail' = tail /\ recorded' = recorded /\ doneEvent' = doneEvent
  BY <1>3, BouncedStill
<1> QED  BY <1>1, <1>2, <1>3 DEF TailTried

LEMMA LayerBounced ==
  ASSUME StreamAssumption, Typed, Streams, Requested, Bounced, EarlyTail \/ AwaitTail \/ EndLayer
  PROVE  Bounced'
<1>1. UNCHANGED <<owner, rpc, request, bounce, awaited>> /\ pc # "idle"
  BY DEF EarlyTail, AwaitTail, EndLayer, memVars
<1>2. at \in Nat /\ at <= at
  BY Counters
<1>3. CASE EarlyTail \/ AwaitTail
  <2>1. TryTail(at)
    BY <1>3 DEF EarlyTail, AwaitTail
  <2>2. TailTried(at)
    BY <1>2, <2>1, TryEffect DEF Typed
  <2> QED  BY <1>1, <1>2, <2>2, TriedBounced
<1>4. CASE EndLayer /\ at + 1 < NumLayers
  <2>1. PICK l \in Nat : l = at + 1 /\ at <= l
    BY <1>2
  <2>2. TryTail(l)
    BY <1>4, <2>1 DEF EndLayer
  <2>3. TailTried(l)
    BY <2>2, TryEffect DEF Typed
  <2> QED  BY <1>1, <2>1, <2>3, TriedBounced
<1>5. CASE EndLayer /\ ~(at + 1 < NumLayers)
  <2>1. UNCHANGED <<tail, recorded, doneEvent>>
    BY <1>5 DEF EndLayer
  <2> QED  BY <1>1, <2>1, BouncedStill
<1> QED  BY <1>3, <1>4, <1>5

LEMMA ReaderBounced ==
  ASSUME StreamAssumption, Typed, Streams, Bounced, Reader PROVE Bounced'
<1>1. /\ request \in Keys /\ queue \in Seq(Keys) /\ owner \in [Bounces -> Keys]
      /\ bounce \in [Bounces -> Int]
  BY RequestKeys DEF Typed, Types
<1>2. UNCHANGED <<tail, recorded, doneEvent, done>>
  BY DEF Reader, ReaderGet, StartRead, EndRead, streamVars
<1>3. Recorded'
  BY <1>2 DEF Bounced, Recorded
<1>4. PICK b \in Bounces : b = Buffer
  BY <1>1, KeyParts, InBounces DEF Buffer
<1>5. CASE ReaderGet
  <2>1. /\ rpc = "get" /\ rpc' = "wait" /\ UNCHANGED <<owner, bounce>>
        /\ awaited' = doneEvent[Buffer']
    BY <1>5 DEF ReaderGet, memVars, Buffer
  <2>2. Held'
    BY <2>1 DEF Bounced, Held, TailGroup
  <2>3. ASSUME NEW i \in DOMAIN tail' PROVE Dma(i)'
    <3>1. Dma(i)
      BY <1>2 DEF Bounced
    <3> QED  BY <1>2, <2>1, <3>1 DEF Dma
  <2> QED  BY <1>3, <2>2, <2>3 DEF Bounced
<1>6. CASE StartRead
  <2>1. /\ rpc = "wait" /\ rpc' = "read" /\ UNCHANGED <<owner, request, awaited>>
        /\ bounce' = [bounce EXCEPT ![b] = Nothing] /\ done[<<"tail", 0>>] >= awaited
    BY <1>4, <1>6 DEF StartRead
  <2>2. Buffer' = b
    BY <1>4, <2>1 DEF Buffer
  <2>3. Held'
    <3> SUFFICES ASSUME NEW c \in Bounces, owner[c] # NoKey, c # b
                 PROVE  bounce'[c] = TailGroup(owner[c][1], owner[c][2])
      BY <2>1, <2>2 DEF Held, TailGroup
    <3>1. bounce'[c] = bounce[c]
      BY <1>1, <2>1
    <3>2. bounce[c] = TailGroup(owner[c][1], owner[c][2])
      BY <2>1 DEF Bounced, Held
    <3> QED  BY <3>1, <3>2
  <2>4. ASSUME NEW i \in DOMAIN tail PROVE Dma(i)'
    <3>1. Dma(i) /\ tail[i].buf \in Bounces /\ tail[i].nth \in Nat
          /\ tail[i].signal = <<"tail", 0>>
      BY Shapes DEF Bounced, Typed, TailOps, TailDma, Ops
    <3>2. tail[i].buf # b
      <4>1. SUFFICES ASSUME tail[i].buf = b PROVE FALSE
        OBVIOUS
      <4>2. tail[i].nth <= awaited
        BY <1>4, <2>1, <3>1, <4>1 DEF Dma
      <4>3. done[<<"tail", 0>>] < tail[i].nth
        BY <3>1 DEF Streams, Good, Waiting
      <4>4. awaited \in Nat /\ done[<<"tail", 0>>] \in Nat
        BY Counters, EventNames DEF Typed, Types
      <4> QED  BY <2>1, <3>1, <4>2, <4>3, <4>4
    <3>3. bounce'[tail[i].buf] = bounce[tail[i].buf]
      BY <1>1, <2>1, <3>1, <3>2
    <3> QED  BY <1>2, <2>1, <2>2, <3>1, <3>2, <3>3 DEF Dma
  <2> QED  BY <1>2, <1>3, <2>3, <2>4 DEF Bounced
<1>7. CASE EndRead
  <2>1. /\ rpc = "read" /\ rpc' = "get" /\ request' = request
        /\ bounce' = [bounce EXCEPT ![b] = TailGroup(request[1], request[2])]
        /\ owner' = [owner EXCEPT ![b] = request]
    BY <1>4, <1>7 DEF EndRead
  <2>2. Held'
    <3> SUFFICES ASSUME NEW c \in Bounces, owner'[c] # NoKey
                 PROVE  bounce'[c] = TailGroup(owner'[c][1], owner'[c][2])
      BY DEF Held, TailGroup
    <3>1. CASE c = b
      BY <1>1, <2>1, <3>1
    <3>2. CASE c # b
      <4>1. owner'[c] = owner[c] /\ bounce'[c] = bounce[c]
        BY <1>1, <2>1, <3>2
      <4>2. bounce[c] = TailGroup(owner[c][1], owner[c][2])
        BY <1>4, <3>2, <4>1 DEF Bounced, Held
      <4> QED  BY <4>1, <4>2
    <3> QED  BY <3>1, <3>2
  <2>3. ASSUME NEW i \in DOMAIN tail PROVE Dma(i)'
    <3>1. Dma(i) /\ tail[i].buf \in Bounces
      BY Shapes DEF Bounced, Typed, TailOps, TailDma
    <3>2. tail[i].buf # b
      BY <1>4, <2>1, <3>1 DEF Dma
    <3>3. bounce'[tail[i].buf] = bounce[tail[i].buf]
      BY <1>1, <2>1, <3>1, <3>2
    <3> QED  BY <1>2, <2>1, <3>1, <3>3 DEF Dma
  <2> QED  BY <1>2, <1>3, <2>2, <2>3 DEF Bounced
<1> QED  BY <1>5, <1>6, <1>7 DEF Reader

-----------------------------------------------------------------------------
(* The invariant.                                                          *)

IInv ==
  /\ Typed /\ Streams /\ Sequenced /\ ArenaFilled /\ TailsFilled
  /\ NotYet /\ Requested /\ Bounced

LEMMA HostTyped ==
  ASSUME StreamAssumption, Typed, Streams, Host PROVE Typed' /\ Streams'
<1>1. CASE Plan
  BY <1>1, PlanTypes, PlanStreams
<1>2. CASE IssueFirst \/ IssueSecond \/ IssueGroup
  <2>1. Position \in Nat /\ Position + 1 \in Nat /\ recorded \in [Events -> Nat]
    BY ReachingNat, Counters
  <2>2. PICK p \in Nat, q \in Nat : p = Position /\ q = Position + 1
    BY <2>1
  <2>3. /\ IssueFirst => Issued(Position, recorded)
        /\ IssueSecond => Issued(Position + 1, recorded)
        /\ IssueGroup => Issued(Position, recorded)
    BY <2>1, <2>2, IssueEffect DEF Typed, IssueFirst, IssueSecond, IssueGroup
  <2>4. Typed'
    BY <1>2, <2>3, IssueTypes
  <2>5. compute' = compute /\ tail' = tail /\ done' = done /\ gen' = gen
    BY <1>2 DEF IssueFirst, IssueSecond, IssueGroup
  <2>6. Streams'
    BY <1>2, <2>2, <2>3, <2>5, IssueStreams
  <2> QED  BY <2>4, <2>6
<1>3. CASE RequestTail
  <2>1. UNCHANGED <<streamVars, gen>>
    BY <1>3 DEF RequestTail
  <2>2. Streams'
    BY <2>1 DEF Streams, streamVars, Good, Ordered, Waiting, Later
  <2> QED  BY <1>3, <2>2, RequestTypes
<1>4. CASE EarlyTail \/ AwaitTail \/ EndLayer
  <2>1. at \in Nat /\ at + 1 \in Nat
    <3>1. at \in Nat
      BY Counters
    <3> QED  BY <3>1
  <2>2. PICK a \in Nat, l \in Nat : a = at /\ l = at + 1
    BY <2>1
  <2>3. UNCHANGED <<compute, copy, done, gen>>
    BY <1>4 DEF EarlyTail, AwaitTail, EndLayer
  <2>4. CASE EarlyTail \/ AwaitTail
    <3>1. TailTried(a)
      BY <2>2, <2>4, TryEffect DEF EarlyTail, AwaitTail, Typed
    <3>2. Typed'
      BY <2>2, <2>4, <3>1, TryTypes
    <3> QED  BY <2>3, <3>1, <3>2, TailStreams
  <2>5. CASE EndLayer /\ at + 1 < NumLayers
    <3>1. TailTried(l)
      BY <2>2, <2>5, TryEffect DEF EndLayer, Typed
    <3>2. Typed'
      BY <2>2, <2>5, <3>1, TryTypes
    <3> QED  BY <2>3, <3>1, <3>2, TailStreams
  <2>6. CASE EndLayer /\ ~(at + 1 < NumLayers)
    <3>1. UNCHANGED <<tail, recorded>>
      BY <2>6 DEF EndLayer
    <3>2. Streams'
      BY <2>3, <3>1 DEF Streams, Good, Ordered, Waiting, Later
    <3> QED  BY <2>6, <3>2, TryTypes
  <2> QED  BY <1>4, <2>4, <2>5, <2>6
<1>5. CASE ComputeGroup
  <2>1. PICK P \in Nat, b \in {0, 1} : P = Position /\ b = P % 2
    <3>1. Position \in Nat
      BY ReachingNat
    <3> QED  BY <3>1, Parity
  <2>2. recorded \in [Events -> Nat] /\ <<"free", b>> \in Events
    BY Counters, EventNames
  <2>3. PICK m \in Nat : m = recorded[<<"free", b>>] + 1
    <3>1. recorded[<<"free", b>>] \in Nat
      BY <2>2
    <3>2. recorded[<<"free", b>>] + 1 \in Nat
      BY <3>1
    <3> QED  BY <3>2
  <2>4. PICK rec \in [Events -> Nat] : rec = [recorded EXCEPT ![<<"free", b>>] = m]
    <3>1. [recorded EXCEPT ![<<"free", b>>] = m] \in [Events -> Nat]
      BY <2>2, Updated
    <3> QED  BY <3>1, Zenon
  <2>5. PICK pos \in Nat : pos = P + 2
    OBVIOUS
  <2>6. Issued(pos, rec)
    <3>1. Issue(pos, rec)
      BY <1>5, <2>1, <2>3, <2>4, <2>5 DEF ComputeGroup
    <3> QED  BY <3>1, IssueEffect DEF Typed
  <2>7. Given(rec, <<"free", b>>)
    BY <2>3, <2>4 DEF Given
  <2>8. Typed'
    BY <1>5, <2>1, <2>5, <2>6, GroupTypes
  <2>9. Streams'
    BY <1>5, <2>1, <2>6, <2>7, GroupStreams
  <2> QED  BY <2>8, <2>9
<1>6. CASE ComputeTail
  BY <1>6, TailGroupTypes, TailGroupStreams
<1> QED  BY <1>1, <1>2, <1>3, <1>4, <1>5, <1>6 DEF Host

LEMMA InitInvariant == ASSUME StreamAssumption, Init PROVE IInv
<1>1. Typed
  <2>1. 0 \in 0 .. MaxSteps /\ 0 \in 0 .. NumLayers - 1 /\ 0 \in 0 .. PerLayer
    BY Sizes
  <2>2. NoKey \in Keys
    BY <2>1 DEF NoKey, Keys
  <2>3. recorded \in [Events -> Nat] /\ done \in [Events -> Nat]
    BY DEF Init
  <2>4. compute \in Seq(ComputeOps) /\ copy \in Seq(CopyOps) /\ tail \in Seq(TailOps)
        /\ queue \in Seq(Keys)
    BY DEF Init
  <2>5. Types
    BY <2>1, <2>2, <2>3, <2>4 DEF Init, Types, Pcs, Nothing
  <2>6. Control
    BY DEF Init, Control
  <2> QED  BY <2>5, <2>6 DEF Typed
<1>2. compute = <<>> /\ copy = <<>> /\ tail = <<>> /\ queue = <<>> /\ pc = "idle" /\ gen = 0
      /\ computed = 0 /\ mapDev = 0 /\ rpc = "get" /\ tailIssued = -1
      /\ recorded = [e \in Events |-> 0] /\ done = [e \in Events |-> 0]
      /\ loaded = [b \in {0, 1} |-> -1]
  BY DEF Init
<1>3. DOMAIN compute = {} /\ DOMAIN copy = {} /\ DOMAIN tail = {} /\ DOMAIN queue = {}
      /\ Len(compute) = 0
  BY <1>2
<1>4. Streams
  BY <1>2, <1>3, EventNames DEF Streams, Good, Ordered, Waiting, Later
<1>5. Sequenced
  <2>1. Enqueued = 0
    <3>1. 0 * Groups = 0
      BY Sizes
    <3> QED  BY <1>2, <3>1 DEF Enqueued
  <2>2. Chained(compute, computed, mapDev, Enqueued, gen)
    BY <1>2, <1>3, <2>1 DEF Chained, Reached, MapAt
  <2> QED  BY <1>3, <2>2 DEF Sequenced, Chain, MapsKept
<1>6. ArenaFilled
  <2>1. ASSUME NEW b \in {0, 1} PROVE BufferGood(b, recorded, Reaching)
    <3>1. loaded[b] = -1 /\ recorded[<<"copied", b>>] = 0 /\ recorded[<<"free", b>>] = 0
      BY <1>2, EventNames
    <3>2. Reaching \in Nat
      BY <1>1, ReachingNat
    <3> QED  BY <3>1, <3>2 DEF BufferGood, InStep, Ahead, Behind
  <2> QED  BY <1>2, <1>3, <2>1 DEF ArenaFilled, Converting, GroupsFilled, FillsFollow
<1>7. TailsFilled
  BY <1>2, <1>3, EventNames
     DEF TailsFilled, TailGroupsFilled, TailsFollow, TailAhead, TailControl
<1>8. NotYet
  BY <1>2 DEF NotYet
<1>9. Requested
  <2>1. \A b \in Bounces : owner[b] = NoKey
    BY DEF Init
  <2> QED  BY <1>2, <1>3, <2>1 DEF Requested, Queued, Reading, Owned, Covered
<1>10. Bounced
  <2>1. \A b \in Bounces : owner[b] = NoKey /\ doneEvent[b] = 0
    BY DEF Init
  <2> QED  BY <1>2, <1>3, <2>1, EventNames DEF Bounced, Held, Recorded
<1> QED  BY <1>1, <1>4, <1>5, <1>6, <1>7, <1>8, <1>9, <1>10 DEF IInv

LEMMA KeptBounces == ASSUME Bounced PROVE BounceKept
  BY DEF Bounced, Dma, BounceKept

LEMMA HostKeeps == ASSUME StreamAssumption, IInv, Host PROVE IInv'
<1>1. /\ Typed /\ Streams /\ Sequenced /\ ArenaFilled /\ TailsFilled
      /\ NotYet /\ Requested /\ Bounced
  BY DEF IInv
<1>2. Typed' /\ Streams'
  BY <1>1, HostTyped
<1>3. NotYet'
  BY <1>1, NotYetKept DEF Next
<1>4. CASE Plan
  <2>1. Sequenced' /\ ArenaFilled' /\ TailsFilled' /\ Requested' /\ Bounced'
    BY <1>1, <1>4, PlanSequenced, PlanArena, PlanTails, PlanRequests, HostBounced
  <2> QED  BY <1>2, <1>3, <2>1 DEF IInv
<1>5. CASE IssueFirst \/ IssueSecond \/ IssueGroup
  <2>1. Sequenced' /\ ArenaFilled' /\ TailsFilled'
    BY <1>1, <1>5, RestSequenced, IssueArena, IssueTails
  <2>2. Requested' /\ Bounced'
    BY <1>1, <1>5, RestRequests, HostBounced
  <2> QED  BY <1>2, <1>3, <2>1, <2>2 DEF IInv
<1>6. CASE RequestTail
  <2>1. Sequenced' /\ ArenaFilled' /\ TailsFilled'
    BY <1>1, <1>6, RestSequenced, RestArena, RestTails
  <2>2. Requested' /\ Bounced'
    BY <1>1, <1>6, AskRequests, HostBounced
  <2> QED  BY <1>2, <1>3, <2>1, <2>2 DEF IInv
<1>7. CASE EarlyTail \/ AwaitTail \/ EndLayer
  <2>1. Sequenced'
    BY <1>1, <1>7, RestSequenced, EndLayerSequenced
  <2>2. ArenaFilled' /\ TailsFilled'
    BY <1>1, <1>7, RestArena, EarlyTails
  <2>3. Requested' /\ Bounced'
    BY <1>1, <1>7, LayerRequests, LayerBounced
  <2> QED  BY <1>2, <1>3, <2>1, <2>2, <2>3 DEF IInv
<1>8. CASE ComputeGroup
  <2>1. Sequenced' /\ ArenaFilled' /\ TailsFilled'
    BY <1>1, <1>8, GroupSequenced, GroupArena, ComputeTails
  <2>2. Requested' /\ Bounced'
    BY <1>1, <1>8, RestRequests, HostBounced
  <2> QED  BY <1>2, <1>3, <2>1, <2>2 DEF IInv
<1>9. CASE ComputeTail
  <2>1. Sequenced' /\ ArenaFilled' /\ TailsFilled'
    BY <1>1, <1>9, TailGroupSequenced, RestArena, GroupTails
  <2>2. Requested' /\ Bounced'
    BY <1>1, <1>9, RestRequests, HostBounced
  <2> QED  BY <1>2, <1>3, <2>1, <2>2 DEF IInv
<1> QED  BY <1>4, <1>5, <1>6, <1>7, <1>8, <1>9 DEF Host

LEMMA StreamsKeep ==
  ASSUME StreamAssumption, IInv, RunCopy \/ RunTail \/ RunMap \/ RunGroup PROVE IInv'
<1>1. /\ Typed /\ Streams /\ Sequenced /\ ArenaFilled /\ TailsFilled
      /\ NotYet /\ Requested /\ Bounced
  BY DEF IInv
<1>2. Typed' /\ Streams'
  BY <1>1, StreamTypes, RunStreams
<1>3. NotYet'
  BY <1>1, NotYetKept DEF Next, Compute
<1>4. Requested' /\ Bounced'
  BY <1>1, RestRequests, HostBounced
<1>5. Sequenced'
  BY <1>1, RestSequenced, RunSequenced
<1>6. ArenaFilled'
  BY <1>1, CopyArena, RestArena
<1>7. TailsFilled'
  BY <1>1, KeptBounces, RestTails, RunTails
<1> QED  BY <1>2, <1>3, <1>4, <1>5, <1>6, <1>7 DEF IInv

LEMMA ReaderKeeps == ASSUME StreamAssumption, IInv, Reader PROVE IInv'
<1>1. /\ Typed /\ Streams /\ Sequenced /\ ArenaFilled /\ TailsFilled
      /\ NotYet /\ Requested /\ Bounced
  BY DEF IInv
<1>2. Typed'
  BY <1>1, ReaderTypes DEF Reader
<1>3. Streams'
  <2>1. UNCHANGED <<streamVars, gen>>
    BY DEF Reader, ReaderGet, StartRead, EndRead, hostVars
  <2> QED  BY <1>1, <2>1 DEF Streams, streamVars, Good, Ordered, Waiting, Later
<1>4. NotYet'
  BY <1>1, NotYetKept DEF Next
<1>5. Sequenced' /\ ArenaFilled' /\ TailsFilled'
  BY <1>1, RestSequenced, RestArena, RestTails
<1>6. Requested'
  BY <1>1, GetRequests, StartRequests, EndRequests DEF Reader
<1>7. Bounced'
  BY <1>1, ReaderBounced
<1> QED  BY <1>2, <1>3, <1>4, <1>5, <1>6, <1>7 DEF IInv

LEMMA Stutters == ASSUME IInv, UNCHANGED vars PROVE IInv'
<1>1. /\ UNCHANGED <<pc, gen, at, group, asked, loaded, tailIssued>>
      /\ UNCHANGED <<compute, copy, tail, done, recorded>>
      /\ UNCHANGED <<raw, rawTail, bounce, mapHost, mapDev>>
      /\ UNCHANGED <<owner, pending, doneEvent, queue, rpc, request, awaited>>
      /\ UNCHANGED <<computed, weights, map>>
  BY DEF vars, hostVars, streamVars, memVars, readerVars, resultVars
<1>2. Typed' /\ Streams'
  BY <1>1 DEF IInv, Typed, Types, Control, Streams, Good, Ordered, Waiting, Later
<1>3. Sequenced'
  BY <1>1 DEF IInv, Sequenced, Chain, MapsKept, Enqueued
<1>4. ArenaFilled'
  BY <1>1 DEF IInv, ArenaFilled, Converting, GroupsFilled, FillsFollow, BufferGood, InStep,
              Ahead, Behind, Reaching, Position
<1>5. TailsFilled' /\ NotYet'
  BY <1>1 DEF IInv, TailsFilled, TailGroupsFilled, TailsFollow, TailAhead, TailControl, NotYet,
              TailGroup
<1>6. Requested'
  BY <1>1 DEF IInv, Requested, Queued, Reading, Owned, Earlier, Covered, Here, Outstanding, Asked,
              Low
<1>7. Bounced'
  BY <1>1 DEF IInv, Bounced, Held, Dma, Recorded, Buffer, TailGroup
<1> QED  BY <1>2, <1>3, <1>4, <1>5, <1>6, <1>7 DEF IInv

LEMMA StepInvariant == ASSUME StreamAssumption, IInv, [Next]_vars PROVE IInv'
<1>1. CASE Host
  BY <1>1, HostKeeps
<1>2. CASE RunCopy \/ RunTail \/ Compute
  BY <1>2, StreamsKeep DEF Compute
<1>3. CASE Reader
  BY <1>3, ReaderKeeps
<1>4. CASE UNCHANGED vars
  BY <1>4, Stutters
<1> QED  BY <1>1, <1>2, <1>3, <1>4 DEF Next

(* Every reachable state of Spec satisfies the invariant, whatever the     *)
(* interleaving of the host, the streams and the reader.                   *)
THEOREM InvariantHolds == ASSUME StreamAssumption PROVE Spec => []IInv
  BY InitInvariant, StepInvariant, PTL DEF Spec

-----------------------------------------------------------------------------
(* Theorems.                                                               *)

(* What IInv says of the next operation of the compute stream and of what  *)
(* it waits for.                                                           *)
LEMMA CopiesPending ==
  ASSUME StreamAssumption, IInv
  PROVE  /\ \A i \in DOMAIN copy :
              LET e == <<"copied", copy[i].buf>>
              IN  e \in Events /\ done[e] < copy[i].nth /\ copy[i].nth <= recorded[e]
         /\ \A i \in DOMAIN tail :
              LET e == <<"tail", 0>>
              IN  e \in Events /\ done[e] < tail[i].nth /\ tail[i].nth <= recorded[e]
<1>1. /\ \A i \in DOMAIN copy : copy[i] \in CopyOps
      /\ \A i \in DOMAIN tail : tail[i] \in TailOps
  BY Shapes DEF IInv, Typed
<1>2. Waiting(copy, done, recorded) /\ Waiting(tail, done, recorded)
  BY DEF IInv, Streams, Good
<1>3. /\ \A i \in DOMAIN copy : copy[i].signal = <<"copied", copy[i].buf>>
                                /\ copy[i].buf \in {0, 1}
      /\ \A i \in DOMAIN tail : tail[i].signal = <<"tail", 0>>
  BY <1>1 DEF CopyOps, FillOp, TailOps, TailDma
<1> QED  BY <1>2, <1>3, EventNames DEF Waiting

LEMMA Awaited ==
  ASSUME StreamAssumption, IInv, NEW i \in DOMAIN compute
  PROVE  compute[i].until <= recorded[compute[i].after]
<1>1. compute[i] \in ComputeOps
  BY Shapes DEF IInv, Typed
<1>2. recorded \in [Events -> Nat] /\ done \in [Events -> Nat]
  BY Counters DEF IInv
<1>3. compute[i].after \in Events /\ compute[i].nth \in Nat
  BY <1>1 DEF ComputeOps, Ops
<1>4. Later(done, recorded)
  BY DEF IInv, Streams
<1>5. CASE compute[i].kind = "map"
  <2>1. compute[i].until = 0
    BY <1>1, <1>5 DEF ComputeOps, MapOp, GroupOp, TailGroupOp
  <2>2. recorded[compute[i].after] \in Nat
    BY <1>2, <1>3
  <2> QED  BY <2>1, <2>2
<1>6. CASE compute[i].kind = "group"
  <2>1. compute[i].after = <<"copied", compute[i].buf>>
    BY <1>1, <1>6 DEF ComputeOps, MapOp, GroupOp, TailGroupOp
  <2>2. /\ compute[i].until = compute[i].nth
        /\ Filled(copy, done, raw, compute[i].buf, compute[i].nth, compute[i].key)
    BY <1>6 DEF IInv, ArenaFilled, GroupsFilled
  <2>3. CASE \E j \in DOMAIN copy : copy[j].buf = compute[i].buf /\ copy[j].nth = compute[i].nth
    BY <2>1, <2>2, <2>3, CopiesPending
  <2>4. CASE done[<<"copied", compute[i].buf>>] = compute[i].nth
    BY <1>3, <1>4, <2>1, <2>2, <2>4 DEF Later
  <2> QED  BY <2>2, <2>3, <2>4 DEF Filled
<1>7. CASE compute[i].kind = "tailGroup"
  <2>1. compute[i].after = <<"tail", 0>>
    BY <1>1, <1>7 DEF ComputeOps, MapOp, GroupOp, TailGroupOp
  <2>2. /\ compute[i].until = compute[i].nth
        /\ TailFilled(tail, done, rawTail, compute[i].nth, compute[i].key)
    BY <1>7 DEF IInv, TailsFilled, TailGroupsFilled
  <2>3. CASE \E j \in DOMAIN tail : tail[j].nth = compute[i].nth
    BY <2>1, <2>2, <2>3, CopiesPending
  <2>4. CASE done[<<"tail", 0>>] = compute[i].nth
    BY <1>3, <1>4, <2>1, <2>2, <2>4 DEF Later
  <2> QED  BY <2>2, <2>3, <2>4 DEF TailFilled
<1> QED  BY <1>1, <1>5, <1>6, <1>7 DEF ComputeOps, MapOp, GroupOp, TailGroupOp

LEMMA TypesHold == ASSUME StreamAssumption, IInv PROVE TypeOK
<1>1. /\ pc \in Pcs /\ gen \in 0 .. MaxSteps /\ at \in 0 .. NumLayers - 1
      /\ group \in 0 .. PerLayer
      /\ owner \in [Bounces -> Keys] /\ pending \in [Bounces -> Keys]
      /\ rpc \in {"get", "wait", "read"} /\ request \in Keys
  BY DEF IInv, Typed, Types
<1>2. \A e \in Events : done[e] <= recorded[e]
  BY DEF IInv, Streams, Later
<1>3. \A i \in DOMAIN compute : compute[i].until <= recorded[compute[i].after]
  BY Awaited
<1>4. ASSUME NEW i \in DOMAIN queue, NEW j \in DOMAIN queue, queue[i] = queue[j] PROVE i = j
  <2>1. \A m, n \in DOMAIN queue : m < n => queue[m][2] < queue[n][2]
    BY DEF IInv, Requested, Queued
  <2>2. queue \in Seq(Keys)
    BY DEF IInv, Typed, Types
  <2>3. queue[i] \in Keys /\ i \in Int /\ j \in Int
    BY <2>2
  <2>4. queue[i][2] \in Nat
    BY <2>3, KeyParts
  <2>5. ~(i < j) /\ ~(j < i)
    BY <1>4, <2>1, <2>4
  <2> QED  BY <2>3, <2>5
<1> QED  BY <1>1, <1>2, <1>3, <1>4 DEF TypeOK, Pcs

(* No event is waited for, or done, before the host has recorded it, and   *)
(* no layer's tail is asked for twice (request_tail, issue_tail, forward). *)
THEOREM TypeCorrect == ASSUME StreamAssumption PROVE Spec => []TypeOK
<1>1. IInv => TypeOK
  BY TypesHold
<1> QED  BY <1>1, InvariantHolds, PTL

(* The reader never overwrites a bounce buffer that a DMA on the tail      *)
(* stream is still to read (_TailReader._run, done_ev).                    *)
THEOREM BounceAlwaysKept == ASSUME StreamAssumption PROVE Spec => []BounceKept
<1>1. IInv => BounceKept
  BY KeptBounces DEF IInv
<1> QED  BY <1>1, InvariantHolds, PTL

LEMMA GroupComputes ==
  ASSUME StreamAssumption, IInv, RunGroup
  PROVE  computed' = computed + 1 /\ weights' = computed + 1 /\ map' = (computed \div Groups) + 1
<1> DEFINE op == compute[1]
<1>1. /\ compute # <<>> /\ done[Head(compute).after] >= Head(compute).until
      /\ Head(compute).kind \in {"group", "tailGroup"}
  BY DEF RunGroup, Runs
<1>2. /\ Head(compute) = op /\ op \in ComputeOps /\ Shrunk(compute, Tail(compute))
      /\ Before(op) = computed /\ (op.kind # "map" => StepOf(op) = mapDev)
  BY <1>1, HeadSequenced DEF IInv
<1>3. 1 \in DOMAIN compute
  BY <1>2 DEF Shrunk
<1>4. op.kind \in {"group", "tailGroup"} /\ op.kind # "map" /\ done[op.after] >= op.until
  BY <1>1, <1>2
<1>5. op.key \in Int /\ op.nth \in Nat /\ computed \in Nat
  BY <1>2 DEF ComputeOps, Ops, IInv, Typed, Types
<1>6. op.key - 1 = computed /\ ((op.key - 1) \div Groups) + 1 = mapDev
  BY <1>2, <1>4 DEF Before, StepOf
<1>7. op.key = computed + 1 /\ mapDev = (computed \div Groups) + 1
  BY <1>5, <1>6
<1>8. done \in [Events -> Nat]
  BY Counters DEF IInv
<1>9. CASE op.kind = "group"
  <2>1. op.after = <<"copied", op.buf>> /\ op.after \in Events
    BY <1>2, <1>9 DEF ComputeOps, Ops, MapOp, GroupOp, TailGroupOp
  <2>2. op.until = op.nth /\ Filled(copy, done, raw, op.buf, op.nth, op.key)
    BY <1>3, <1>9 DEF IInv, ArenaFilled, GroupsFilled
  <2>3. ~ \E j \in DOMAIN copy : copy[j].buf = op.buf /\ copy[j].nth = op.nth
    <3> SUFFICES ASSUME NEW j \in DOMAIN copy, copy[j].buf = op.buf, copy[j].nth = op.nth
                 PROVE  FALSE
      OBVIOUS
    <3>1. done[op.after] < op.nth
      BY <2>1, CopiesPending
    <3> QED  BY <1>4, <1>5, <1>8, <2>1, <2>2, <3>1
  <2>4. raw[op.buf] = op.key
    BY <2>2, <2>3 DEF Filled
  <2>5. weights' = raw[op.buf]
    BY <1>2, <1>9 DEF RunGroup
  <2> QED  BY <1>7, <2>4, <2>5 DEF RunGroup
<1>10. CASE op.kind = "tailGroup"
  <2>1. op.after = <<"tail", 0>> /\ op.after \in Events
    BY <1>2, <1>10 DEF ComputeOps, Ops, MapOp, GroupOp, TailGroupOp
  <2>2. op.until = op.nth /\ TailFilled(tail, done, rawTail, op.nth, op.key)
    BY <1>3, <1>10 DEF IInv, TailsFilled, TailGroupsFilled
  <2>3. ~ \E j \in DOMAIN tail : tail[j].nth = op.nth
    <3> SUFFICES ASSUME NEW j \in DOMAIN tail, tail[j].nth = op.nth PROVE FALSE
      OBVIOUS
    <3>1. done[op.after] < op.nth
      BY <2>1, CopiesPending
    <3> QED  BY <1>4, <1>5, <1>8, <2>1, <2>2, <3>1
  <2>4. rawTail = op.key
    BY <2>2, <2>3 DEF TailFilled
  <2>5. weights' = rawTail
    BY <1>2, <1>10 DEF RunGroup
  <2> QED  BY <1>7, <2>4, <2>5 DEF RunGroup
<1> QED  BY <1>4, <1>9, <1>10

(* Every group of experts is computed, in turn, with its own weights and   *)
(* under the map of its own step: streaming implements StreamForward       *)
(* (forward, _issue, issue_tail, plan).                                    *)
THEOREM StreamsImplement == ASSUME StreamAssumption PROVE Spec => ImplementsStreamForward
<1>1. Init => Forward!Init
  BY DEF Init, Nothing, Forward!Init
<1>2. ASSUME IInv, [Next]_vars PROVE [Forward!Compute]_<<computed, weights, map>>
  <2>1. CASE RunGroup
    BY <1>2, <2>1, GroupComputes DEF Forward!Compute
  <2>2. CASE ~RunGroup
    <3>1. UNCHANGED resultVars
      BY <1>2, <2>2 DEF Next, Host, Compute, Reader, vars,
         Plan, IssueFirst, IssueSecond, RequestTail, EarlyTail, IssueGroup, ComputeGroup, AwaitTail,
         ComputeTail, EndLayer, RunCopy, RunTail, RunMap, ReaderGet, StartRead, EndRead
    <3> QED  BY <3>1 DEF resultVars
  <2> QED  BY <2>1, <2>2
<1> QED  BY <1>1, <1>2, InvariantHolds, PTL DEF Spec, ImplementsStreamForward, Forward!Spec
=============================================================================
