---------------------------- MODULE QsaRingProofs ----------------------------
(***************************************************************************)
(* Proofs about the raw and the compressed index keys of a QSA layer, for  *)
(* any group size, number of drafts, prefix-block size, prompt, chunk and  *)
(* length, for the target's layers and for the draft model's.              *)
(*                                                                         *)
(* The ring has room for the open group and the drafts of one step, in     *)
(* whole groups.  That this is enough is arithmetic of remainders: two     *)
(* positions less than Capacity apart never share a place.                 *)
(***************************************************************************)
EXTENDS QsaRing, TLAPS

(* First position of the group that n falls into.                          *)
OpenFrom(n) == (n \div Ratio) * Ratio

(* Behind the last position whose keys are those of its sequence.          *)
Top == IF phase = "sampled" THEN rows[2] + 1 ELSE computed

(* A step starts where the last one ended and drafts at most NumSpec       *)
(* tokens behind the last known one.                                       *)
StepShape ==
  phase = "sampled" => computed <= rows[2] /\ rows[2] < known + NumSpec

(* The ring holds the newest keys from the start of the open group on, as  *)
(* many as it has room for.                                                *)
RingKept ==
  \A p \in Positions :
    (OpenFrom(computed) <= p /\ p < Top /\ Top <= p + Capacity) => ring[p % Capacity] = <<p, text[p]>>

(* All complete groups are pooled from the sequence.                       *)
PackedKept == \A g \in Groups : End(g) < Top => packed[g] = Current(g)

RingInv == QsaRingTypeOK /\ StepShape /\ RingKept /\ PackedKept

-----------------------------------------------------------------------------
(* Arithmetic of groups and places.                                        *)

LEMMA Remainder ==
  ASSUME NEW c \in Nat \ {0}, NEW p \in Nat
  PROVE  /\ p % c \in 0 .. c - 1
         /\ p \div c \in Nat
         /\ p = (c * (p \div c)) + (p % c)
  OBVIOUS

LEMMA Multiples ==
  ASSUME NEW c \in Nat \ {0}, NEW a \in Int, NEW b \in Int, a < b
  PROVE  (c * a) + c <= c * b
<1>1. b - a - 1 >= 0
  OBVIOUS
<1>2. c * (b - a - 1) >= 0
  BY <1>1
<1>3. c * (b - a - 1) = (c * b) - (c * a) - c
  OBVIOUS
<1> QED
  BY <1>2, <1>3

(* Positions less than c apart have different places.                      *)
LEMMA SamePlace ==
  ASSUME NEW c \in Nat \ {0}, NEW p \in Nat, NEW q \in Nat, p % c = q % c, p < q + c, q < p + c
  PROVE  p = q
<1> DEFINE i == p \div c
           j == q \div c
<1>1. i \in Nat /\ j \in Nat /\ p = (c * i) + (p % c) /\ q = (c * j) + (p % c) /\ p % c \in Int
  <2>1. i \in Nat /\ p = (c * i) + (p % c) /\ p % c \in 0 .. c - 1
    BY Remainder
  <2>2. j \in Nat /\ q = (c * j) + (q % c)
    BY Remainder
  <2>3. p % c \in Int
    BY <2>1
  <2> QED
    BY <2>1, <2>2, <2>3
<1>2. c * i \in Int /\ c * j \in Int
  BY <1>1
<1> HIDE DEF i, j
<1>3. CASE i < j
  <2>1. (c * i) + c <= c * j
    BY <1>1, <1>3, Multiples
  <2> QED
    BY <2>1, <1>1, <1>2
<1>4. CASE j < i
  <2>1. (c * j) + c <= c * i
    BY <1>1, <1>4, Multiples
  <2> QED
    BY <2>1, <1>1, <1>2
<1>5. CASE i = j
  BY <1>1, <1>5
<1> QED
  BY <1>1, <1>3, <1>4, <1>5

LEMMA GroupOf ==
  ASSUME NEW r \in Nat \ {0}, NEW n \in Nat
  PROVE  (n \div r) * r \in Nat /\ (n \div r) * r <= n /\ n < (n \div r) * r + r
<1>1. n \div r \in Nat /\ n % r \in 0 .. r - 1 /\ n = (r * (n \div r)) + (n % r)
  BY Remainder
<1>2. (n \div r) * r = r * (n \div r) /\ r * (n \div r) \in Nat
  BY <1>1
<1> QED
  BY <1>1, <1>2

(* A group that ends at n or later starts with n's group or later.         *)
LEMMA LaterGroup ==
  ASSUME NEW r \in Nat \ {0}, NEW n \in Nat, NEW g \in Nat, n <= (g * r) + r - 1
  PROVE  (n \div r) * r <= g * r
<1> DEFINE m == n \div r
<1>1. m \in Nat /\ m * r <= n
  BY GroupOf, Remainder
<1>2. r * m = m * r /\ r * g = g * r /\ g * r \in Nat /\ m * r \in Nat
  BY <1>1
<1> HIDE DEF m
<1>3. m * r <= g * r
  <2>1. CASE g < m
    <3>1. (r * g) + r <= r * m
      BY <1>1, <2>1, Multiples
    <3> QED
      BY <3>1, <1>1, <1>2
  <2>2. CASE m = g
    BY <2>2, <1>2
  <2>3. CASE m < g
    <3>1. (r * m) + r <= r * g
      BY <1>1, <2>3, Multiples
    <3> QED
      BY <3>1, <1>2
  <2> QED
    BY <2>1, <2>2, <2>3, <1>1
<1> QED
  BY <1>3 DEF m

LEMMA GroupsGrow ==
  ASSUME NEW r \in Nat \ {0}, NEW m \in Nat, NEW n \in Nat, m <= n
  PROVE  (m \div r) * r <= (n \div r) * r
<1>1. n < (n \div r) * r + r /\ (n \div r) * r \in Nat /\ n \div r \in Nat
  BY GroupOf, Remainder
<1> DEFINE g == n \div r
<1> HIDE DEF g
<1>2. m <= (g * r) + r - 1
  BY <1>1 DEF g
<1> QED
  BY <1>1, <1>2, LaterGroup DEF g

(* A multiple of a multiple of r starts a group.                           *)
LEMMA StartsGroup ==
  ASSUME NEW r \in Nat \ {0}, NEW k \in Nat \ {0}, NEW b \in Nat \ {0}, NEW h \in Nat,
         b % (r * k) = 0, h % b = 0
  PROVE  (h \div r) * r = h
<1> DEFINE c == r * k
           i == b \div c
           j == h \div b
           m == k * (i * j)
<1>1. c \in Nat \ {0} /\ b % c = 0 /\ c = r * k
  OBVIOUS
<1> HIDE DEF c
<1>2. i \in Nat /\ b = c * i
  <2>1. i \in Nat /\ b = (c * i) + (b % c)
    BY <1>1, Remainder
  <2> QED
    BY <2>1, <1>1
<1>3. j \in Nat /\ h = b * j
  <2>1. j \in Nat /\ h = (b * j) + (h % b)
    BY Remainder
  <2> QED
    BY <2>1
<1> HIDE DEF i, j
<1>4. m \in Nat /\ h = r * m
  BY <1>1, <1>2, <1>3
<1> HIDE DEF m
<1>5. r * m = m * r /\ m * r \in Nat
  BY <1>4
<1>6. (h \div r) * r <= h /\ (h \div r) * r \in Nat
  BY GroupOf
<1>7. CASE h \div r < m
  <2>1. h \div r \in Nat /\ h < (h \div r) * r + r
    BY GroupOf, Remainder
  <2>2. (r * (h \div r)) + r <= r * m
    BY <1>4, <1>7, <2>1, Multiples
  <2>3. r * (h \div r) = (h \div r) * r
    BY <2>1
  <2> QED
    BY <2>1, <2>2, <2>3, <1>4, <1>6
<1>8. CASE m <= h \div r
  <2>1. h \div r \in Nat
    BY Remainder
  <2>2. m = h \div r \/ (r * m) + r <= r * (h \div r)
    BY <1>4, <1>8, <2>1, Multiples
  <2>3. r * (h \div r) = (h \div r) * r
    BY <2>1
  <2> QED
    BY <2>2, <2>3, <1>4, <1>5, <1>6
<1> QED
  BY <1>4, <1>7, <1>8, Remainder

LEMMA CapacityFits ==
  /\ Capacity \in Nat \ {0}
  /\ Ratio \in Nat \ {0} /\ NumSpec \in Nat
  /\ Capacity >= Ratio + NumSpec
  /\ \E k \in Nat \ {0} : Capacity = Ratio * k
<1>1. Ratio \in Nat \ {0} /\ NumSpec \in Nat
  BY QsaRingAssumption DEF QsaRingAssumption
<1> DEFINE n == Ratio + NumSpec + Ratio - 1
           k == n \div Ratio
<1>2. n \in Nat
  BY <1>1
<1>3. k \in Nat /\ n = (Ratio * k) + (n % Ratio) /\ n % Ratio \in 0 .. Ratio - 1
  BY <1>1, <1>2, Remainder
<1>4. Capacity = Ratio * k
  BY <1>1 DEF Capacity, CeilDiv
<1> HIDE DEF k
<1>5. Ratio * k \in Nat /\ Ratio * k >= Ratio + NumSpec
  BY <1>1, <1>3
<1>6. k # 0
  BY <1>1, <1>5
<1> QED
  BY <1>1, <1>3, <1>4, <1>5, <1>6

-----------------------------------------------------------------------------
(* What one forward leaves in the ring and pools.                          *)

LEMMA Place ==
  ASSUME NEW p \in Nat
  PROVE  p % Capacity \in 0 .. Capacity - 1
<1>1. Capacity \in Nat \ {0}
  BY CapacityFits
<1> QED
  BY <1>1, Remainder

LEMMA StoredNew ==
  ASSUME NEW first \in Nat, NEW last \in Nat, NEW keys,
         NEW p \in first .. last, last < p + Capacity
  PROVE  Stored(first, last, keys)[p % Capacity] = <<p, keys[p]>>
<1> DEFINE here == {q \in first .. last : q % Capacity = p % Capacity /\ q + Capacity > last}
<1>1. Capacity \in Nat \ {0} /\ p \in Nat
  BY CapacityFits
<1>2. \A q \in here : q = p
  <2> TAKE q \in here
  <2>1. q \in Nat /\ q <= last /\ q % Capacity = p % Capacity /\ last < q + Capacity
    BY <1>1
  <2>2. q < p + Capacity /\ p < q + Capacity
    BY <1>1, <2>1
  <2> QED
    BY <1>1, <2>1, <2>2, SamePlace
<1>3. p \in here
  BY <1>1
<1>4. here = {p}
  BY <1>2, <1>3
<1> HIDE DEF here
<1>5. Max(here) = p
  <2>1. \A y \in {p} : p >= y
    BY <1>1
  <2> QED
    BY <1>4, <2>1 DEF Max
<1>6. Stored(first, last, keys)[p % Capacity] = IF here = {} THEN ring[p % Capacity] ELSE <<Max(here), keys[Max(here)]>>
  BY <1>1, Place DEF Stored, here
<1> QED
  BY <1>4, <1>5, <1>6

LEMMA StoredOld ==
  ASSUME NEW first \in Nat, NEW last \in Nat, NEW keys,
         NEW p \in Nat, p < first, last < p + Capacity
  PROVE  Stored(first, last, keys)[p % Capacity] = ring[p % Capacity]
<1> DEFINE here == {q \in first .. last : q % Capacity = p % Capacity /\ q + Capacity > last}
<1>1. Capacity \in Nat \ {0}
  BY CapacityFits
<1>2. ASSUME NEW q \in here PROVE FALSE
  <2>1. q \in Nat /\ first <= q /\ q <= last /\ q % Capacity = p % Capacity
    BY <1>1, <1>2
  <2>2. q < p + Capacity /\ p < q + Capacity
    BY <1>1, <2>1
  <2>3. q = p
    BY <1>1, <2>1, <2>2, SamePlace
  <2> QED
    BY <2>1, <2>3
<1>3. here = {}
  BY <1>2
<1> HIDE DEF here
<1>4. Stored(first, last, keys)[p % Capacity] = IF here = {} THEN ring[p % Capacity] ELSE <<Max(here), keys[Max(here)]>>
  BY <1>1, Place DEF Stored, here
<1> QED
  BY <1>3, <1>4

(* A step over positions first .. last behind the exact keys leaves the    *)
(* newest keys in the ring and pools the groups it completes.              *)
LEMMA ForwardExact ==
  ASSUME NEW first \in Nat, NEW last \in Nat, first <= last, NEW keys,
         \A p \in Nat : (OpenFrom(first) <= p /\ p < first /\ first <= p + Capacity)
                           => ring[p % Capacity] = <<p, keys[p]>>
  PROVE  /\ \A p \in Nat : (OpenFrom(first) <= p /\ p <= last /\ last < p + Capacity)
                => Stored(first, last, keys)[p % Capacity] = <<p, keys[p]>>
         /\ \A g \in Groups : (first <= End(g) /\ End(g) <= last)
                => Compressed(first, last, keys)[g] = [j \in 0 .. Ratio - 1 |-> <<First(g) + j, keys[First(g) + j]>>]
<1>1. Capacity \in Nat \ {0} /\ Ratio \in Nat \ {0} /\ Ratio <= Capacity
  BY CapacityFits
<1>2. OpenFrom(first) \in Nat /\ OpenFrom(first) <= first /\ first < OpenFrom(first) + Ratio
  BY <1>1, GroupOf DEF OpenFrom
<1>3. ASSUME NEW p \in Nat, OpenFrom(first) <= p, p <= last, last < p + Capacity
      PROVE  Stored(first, last, keys)[p % Capacity] = <<p, keys[p]>>
  <2>1. CASE first <= p
    <3>1. p \in first .. last
      BY <1>3, <2>1
    <3> QED
      BY <3>1, <1>3, StoredNew
  <2>2. CASE p < first
    <3>1. first <= p + Capacity
      BY <1>1, <1>3
    <3>2. ring[p % Capacity] = <<p, keys[p]>>
      BY <1>3, <2>2, <3>1
    <3> QED
      BY <1>3, <2>2, <3>2, StoredOld
  <2> QED
    BY <2>1, <2>2
<1>4. ASSUME NEW g \in Groups, first <= End(g), End(g) <= last
      PROVE  Compressed(first, last, keys)[g] = [j \in 0 .. Ratio - 1 |-> <<First(g) + j, keys[First(g) + j]>>]
  <2>1. g \in Nat /\ First(g) \in Nat /\ End(g) = First(g) + Ratio - 1
    BY <1>1 DEF Groups, First, End
  <2>2. OpenFrom(first) <= First(g)
    BY <1>1, <1>4, <2>1, LaterGroup DEF OpenFrom, First, End
  <2>3. Ending(g, first, last)
    BY <1>4, <2>1, <1>1 DEF Ending
  <2>4. ASSUME NEW j \in 0 .. Ratio - 1
        PROVE  Pooled(First(g) + j, first, last, keys) = <<First(g) + j, keys[First(g) + j]>>
    <3>1. First(g) + j \in Nat
      BY <2>1, <1>1
    <3>2. CASE First(g) + j >= first
      BY <3>2 DEF Pooled
    <3>3. CASE First(g) + j < first
      <4>1. OpenFrom(first) <= First(g) + j /\ first <= First(g) + j + Capacity
        BY <1>1, <1>2, <2>1, <2>2
      <4>2. ring[(First(g) + j) % Capacity] = <<First(g) + j, keys[First(g) + j]>>
        BY <3>1, <3>3, <4>1
      <4> QED
        BY <3>1, <3>3, <4>2 DEF Pooled
    <3> QED
      BY <3>1, <3>2, <3>3
  <2>5. Compressed(first, last, keys)[g] = [j \in 0 .. Ratio - 1 |-> Pooled(First(g) + j, first, last, keys)]
    BY <2>3 DEF Compressed
  <2> QED
    BY <2>4, <2>5
<1> QED
  BY <1>3, <1>4

LEMMA ConstantTypes ==
  /\ Ratio \in Nat \ {0} /\ BlockSize \in Nat \ {0} /\ Prompt \in Nat \ {0}
  /\ MaxLen \in Nat \ {0} /\ MaxChunk \in Nat \ {0} /\ Versions \in Nat \ {0}
  /\ NumSpec \in Nat /\ MaxPreempt \in Nat /\ Prompt < MaxLen
  BY QsaRingAssumption DEF QsaRingAssumption

Keys == (-1 .. MaxLen - 1) \X (-1 .. Versions)

LEMMA ForwardTyped ==
  ASSUME QsaRingTypeOK, NEW first \in Nat, NEW last \in Nat, last < MaxLen,
         NEW keys \in [Positions -> -1 .. Versions]
  PROVE  /\ Stored(first, last, keys) \in [0 .. Capacity - 1 -> Keys]
         /\ Compressed(first, last, keys) \in [Groups -> [0 .. Ratio - 1 -> Keys]]
<1>1. /\ ring \in [0 .. Capacity - 1 -> Keys]
      /\ packed \in [Groups -> [0 .. Ratio - 1 -> Keys]]
  BY DEF QsaRingTypeOK, Keys
<1>2. Capacity \in Nat \ {0} /\ Ratio \in Nat \ {0} /\ MaxLen \in Nat \ {0}
  BY CapacityFits, ConstantTypes
<1>3. ASSUME NEW p \in Nat, p <= last PROVE <<p, keys[p]>> \in Keys
  <2>1. p \in Positions /\ p \in -1 .. MaxLen - 1
    BY <1>2, <1>3 DEF Positions
  <2> QED
    BY <2>1 DEF Keys
<1>4. ASSUME NEW i \in 0 .. Capacity - 1 PROVE Stored(first, last, keys)[i] \in Keys
  <2> DEFINE here == {q \in first .. last : q % Capacity = i /\ q + Capacity > last}
  <2>1. CASE here = {}
    <3>1. Stored(first, last, keys)[i] = ring[i]
      BY <2>1 DEF Stored
    <3> QED
      BY <3>1, <1>1
  <2>2. CASE here # {}
    <3>1. PICK q \in first .. last : q % Capacity = i /\ q + Capacity > last
      BY <2>2
    <3>2. q \in Nat /\ q <= last /\ last < q + Capacity
      BY <3>1, <1>2
    <3>3. Stored(first, last, keys)[q % Capacity] = <<q, keys[q]>>
      BY <3>1, <3>2, StoredNew
    <3> QED
      BY <3>1, <3>2, <3>3, <1>3
  <2> QED
    BY <2>1, <2>2
<1>5. ASSUME NEW g \in Groups PROVE Compressed(first, last, keys)[g] \in [0 .. Ratio - 1 -> Keys]
  <2>1. CASE Ending(g, first, last)
    <3>1. g \in Nat /\ First(g) \in Nat /\ End(g) = First(g) + Ratio - 1 /\ End(g) <= last
      BY <2>1, <1>2 DEF Groups, First, End, Ending
    <3>2. ASSUME NEW j \in 0 .. Ratio - 1 PROVE Pooled(First(g) + j, first, last, keys) \in Keys
      <4>1. First(g) + j \in Nat /\ First(g) + j <= last
        BY <3>1, <1>2
      <4>2. (First(g) + j) % Capacity \in 0 .. Capacity - 1
        BY <4>1, Place
      <4>3. ring[(First(g) + j) % Capacity] \in Keys
        BY <4>2, <1>1
      <4> QED
        BY <4>1, <4>3, <1>3 DEF Pooled
    <3>3. Compressed(first, last, keys)[g] = [j \in 0 .. Ratio - 1 |-> Pooled(First(g) + j, first, last, keys)]
      BY <2>1 DEF Compressed
    <3> QED
      BY <3>2, <3>3
  <2>2. CASE ~Ending(g, first, last)
    <3>1. Compressed(first, last, keys)[g] = packed[g]
      BY <2>2 DEF Compressed
    <3> QED
      BY <3>1, <1>1
  <2> QED
    BY <2>1, <2>2
<1> QED
  BY <1>4, <1>5 DEF Stored, Compressed

-----------------------------------------------------------------------------
(* The steps of the layer.                                                 *)

LEMMA InitKeeps == QsaRingInit => RingInv
<1> SUFFICES ASSUME QsaRingInit PROVE RingInv
  OBVIOUS
<1>0. Capacity \in Nat \ {0}
  BY CapacityFits
<1>1. QsaRingTypeOK
  <2>1. Foreign \in Keys
    BY ConstantTypes DEF Foreign, Keys
  <2>2. ring \in [0 .. Capacity - 1 -> Keys] /\ packed \in [Groups -> [0 .. Ratio - 1 -> Keys]]
    BY <2>1 DEF QsaRingInit, Garbage
  <2>3. rows \in Positions \X (-1 .. MaxLen - 1)
    BY ConstantTypes DEF QsaRingInit, Positions
  <2>4. text \in [Positions -> 0 .. Versions]
    BY ConstantTypes DEF QsaRingInit, Positions
  <2> QED
    BY <2>2, <2>3, <2>4, ConstantTypes DEF QsaRingInit, QsaRingTypeOK, Keys
<1>2. StepShape /\ Top = 0
  BY DEF QsaRingInit, StepShape, Top
<1>3. RingKept
  BY <1>2 DEF RingKept, Positions
<1>4. PackedKept
  <2>1. \A g \in Groups : End(g) \in Nat
    BY ConstantTypes DEF Groups, End
  <2> QED
    BY <1>2, <2>1 DEF PackedKept
<1> QED
  BY <1>1, <1>2, <1>3, <1>4 DEF RingInv

(* A step over known tokens or drafts.                                     *)
LEMMA StepKeeps ==
  ASSUME RingInv, NEW last \in Nat, computed <= last, last < MaxLen, last < known + NumSpec,
         Step(last)
  PROVE  RingInv'
<1>1. /\ phase = "run" /\ phase' = "sampled" /\ rows' = <<computed, last>>
      /\ packed' = Compressed(computed, last, text) /\ ring' = Stored(computed, last, text)
      /\ UNCHANGED <<text, known, computed, drafted, preempted>>
  BY DEF Step, Forward
<1>2. computed \in Nat /\ known \in Nat /\ computed \in Positions /\ text \in [Positions -> 0 .. Versions]
  BY ConstantTypes DEF RingInv, QsaRingTypeOK, Positions
<1>3. Capacity \in Nat \ {0} /\ Ratio \in Nat \ {0} /\ Ratio <= Capacity
  BY CapacityFits
<1>4. QsaRingTypeOK'
  <2>1. text \in [Positions -> -1 .. Versions]
    BY <1>2, ConstantTypes
  <2>2. ring' \in [0 .. Capacity - 1 -> Keys] /\ packed' \in [Groups -> [0 .. Ratio - 1 -> Keys]]
    BY <1>1, <1>2, <2>1, ForwardTyped DEF RingInv
  <2>3. rows' \in Positions \X (-1 .. MaxLen - 1)
    BY <1>1, <1>2, ConstantTypes
  <2> QED
    BY <1>1, <2>2, <2>3 DEF RingInv, QsaRingTypeOK, Keys
<1>5. StepShape'
  BY <1>1 DEF StepShape
<1>6. Top = computed /\ Top' = last + 1
  BY <1>1 DEF Top
<1>7. \A p \in Nat : (OpenFrom(computed) <= p /\ p < computed /\ computed <= p + Capacity)
        => ring[p % Capacity] = <<p, text[p]>>
  <2> TAKE p \in Nat
  <2> HAVE OpenFrom(computed) <= p /\ p < computed /\ computed <= p + Capacity
  <2>1. p \in Positions
    BY <1>2, ConstantTypes DEF Positions
  <2> QED
    BY <2>1, <1>6 DEF RingInv, RingKept
<1>8. /\ \A p \in Nat : (OpenFrom(computed) <= p /\ p <= last /\ last < p + Capacity)
           => Stored(computed, last, text)[p % Capacity] = <<p, text[p]>>
      /\ \A g \in Groups : (computed <= End(g) /\ End(g) <= last)
           => Compressed(computed, last, text)[g] = [j \in 0 .. Ratio - 1 |-> <<First(g) + j, text[First(g) + j]>>]
  BY <1>2, <1>7, ForwardExact
<1>9. RingKept'
  <2> SUFFICES ASSUME NEW p \in Positions, OpenFrom(computed) <= p, p < last + 1, last + 1 <= p + Capacity
               PROVE  Stored(computed, last, text)[p % Capacity] = <<p, text[p]>>
    BY <1>1, <1>6 DEF RingKept, OpenFrom
  <2>1. p \in Nat /\ p <= last /\ last < p + Capacity
    BY <1>3, ConstantTypes DEF Positions
  <2> QED
    BY <2>1, <1>8
<1>10. PackedKept'
  <2> SUFFICES ASSUME NEW g \in Groups, End(g) < last + 1
               PROVE  Compressed(computed, last, text)[g] = Current(g)
    BY <1>1, <1>6 DEF PackedKept, Current
  <2>1. End(g) \in Nat
    BY ConstantTypes DEF Groups, End
  <2>2. CASE computed <= End(g)
    BY <2>1, <2>2, <1>8 DEF Current
  <2>3. CASE End(g) < computed
    <3>1. packed[g] = Current(g)
      BY <2>3, <1>6 DEF RingInv, PackedKept
    <3>2. ~Ending(g, computed, last)
      BY <2>1, <2>3, <1>2 DEF Ending
    <3> QED
      BY <3>1, <3>2 DEF Compressed
  <2> QED
    BY <2>1, <2>2, <2>3, <1>2
<1> QED
  BY <1>4, <1>5, <1>9, <1>10 DEF RingInv

LEMMA PrefillKeeps == RingInv /\ Prefill => RingInv'
<1> SUFFICES ASSUME RingInv, Prefill PROVE RingInv'
  OBVIOUS
<1>1. PICK n \in 1 .. MaxChunk : computed + n <= known /\ Step(computed + n - 1)
  BY DEF Prefill
<1>2. computed \in Nat /\ known \in Nat /\ known <= MaxLen
  BY ConstantTypes DEF RingInv, QsaRingTypeOK
<1>3. /\ computed + n - 1 \in Nat /\ computed <= computed + n - 1
      /\ computed + n - 1 < MaxLen /\ computed + n - 1 < known + NumSpec
  BY <1>1, <1>2, ConstantTypes
<1> QED
  BY <1>1, <1>3, StepKeeps

LEMMA DecodeKeeps == RingInv /\ Decode => RingInv'
<1> SUFFICES ASSUME RingInv, Decode PROVE RingInv'
  OBVIOUS
<1>1. PICK n \in 0 .. NumSpec : known + n <= MaxLen /\ Step(computed + n)
  BY DEF Decode
<1>2. computed \in Nat /\ known \in Nat /\ computed = known - 1
  BY ConstantTypes DEF RingInv, QsaRingTypeOK, Decode
<1>3. /\ computed + n \in Nat /\ computed <= computed + n
      /\ computed + n < MaxLen /\ computed + n < known + NumSpec
  BY <1>1, <1>2, ConstantTypes
<1> QED
  BY <1>1, <1>3, StepKeeps

LEMMA ChunkDoneKeeps == RingInv /\ ChunkDone => RingInv'
<1> SUFFICES ASSUME RingInv, ChunkDone PROVE RingInv'
  OBVIOUS
<1>1. /\ phase = "sampled" /\ rows[2] < known - 1
      /\ computed' = rows[2] + 1 /\ phase' \in {"run", "draft"} /\ drafted' = 0
      /\ UNCHANGED <<text, known, rows, ring, packed, preempted>>
  BY DEF ChunkDone, AfterStep
<1>2. computed \in Nat /\ known \in Nat /\ rows[2] \in Int /\ computed <= rows[2]
  BY <1>1, ConstantTypes DEF RingInv, QsaRingTypeOK, StepShape
<1>3. QsaRingTypeOK'
  <2>1. computed' \in 0 .. known - 1 /\ drafted' \in 0 .. NumSpec
    BY <1>1, <1>2, ConstantTypes
  <2> QED
    BY <1>1, <2>1 DEF RingInv, QsaRingTypeOK
<1>4. Top' = Top /\ Top = rows[2] + 1
  BY <1>1 DEF Top
<1>5. OpenFrom(computed) \in Nat /\ OpenFrom(computed)' \in Nat /\ OpenFrom(computed) <= OpenFrom(computed)'
  <2> DEFINE m == rows[2] + 1
  <2>1. computed' = m /\ m \in Nat /\ computed <= m
    BY <1>1, <1>2
  <2> HIDE DEF m
  <2>2. (computed \div Ratio) * Ratio \in Nat /\ (m \div Ratio) * Ratio \in Nat
    BY <1>2, <2>1, GroupOf, ConstantTypes
  <2>3. (computed \div Ratio) * Ratio <= (m \div Ratio) * Ratio
    BY <1>2, <2>1, GroupsGrow, ConstantTypes
  <2> QED
    BY <2>1, <2>2, <2>3 DEF OpenFrom
<1>6. RingKept'
  <2> SUFFICES ASSUME NEW p \in Positions, OpenFrom(computed)' <= p, p < Top, Top <= p + Capacity
               PROVE  ring[p % Capacity] = <<p, text[p]>>
    BY <1>1, <1>4 DEF RingKept
  <2>1. OpenFrom(computed) <= p
    BY <1>5, ConstantTypes DEF Positions
  <2> QED
    BY <2>1 DEF RingInv, RingKept
<1>7. PackedKept'
  BY <1>1, <1>4 DEF RingInv, PackedKept, Current
<1> QED
  BY <1>1, <1>3, <1>6, <1>7 DEF RingInv, StepShape

LEMMA SampleKeeps == RingInv /\ Sample => RingInv'
<1> SUFFICES ASSUME RingInv, Sample PROVE RingInv'
  OBVIOUS
<1>1. /\ phase = "sampled" /\ rows[2] >= known - 1
      /\ phase' \in {"run", "draft"} /\ drafted' = 0
      /\ UNCHANGED <<rows, ring, packed, preempted>>
  BY DEF Sample, AfterStep
<1>2. PICK next \in known .. rows[2] + 1 :
       /\ next < MaxLen
       /\ \A p \in next .. rows[2] : text[p] < Versions
       /\ computed' = next /\ known' = next + 1
       /\ text' = Replaced(next, rows[2])
  BY DEF Sample
<1>3. /\ computed \in Nat /\ known \in Nat /\ rows[2] \in Int /\ computed <= rows[2]
      /\ rows[2] < known + NumSpec /\ text \in [Positions -> 0 .. Versions]
      /\ computed < known /\ Prompt <= known
  BY <1>1, ConstantTypes DEF RingInv, QsaRingTypeOK, StepShape
<1>4. next \in Nat /\ known <= next /\ next <= rows[2] + 1 /\ computed <= next
  BY <1>2, <1>3
<1>5. Top' = next /\ Top = rows[2] + 1
  BY <1>1, <1>2 DEF Top
<1>6. \A p \in Positions : p < next => text'[p] = text[p]
  BY <1>2, <1>4, ConstantTypes DEF Replaced, Positions
<1>7. QsaRingTypeOK'
  <2>1. text' \in [Positions -> 0 .. Versions]
    <3>1. ASSUME NEW p \in Positions
          PROVE  (IF next <= p /\ p <= rows[2] THEN text[p] + 1 ELSE text[p]) \in 0 .. Versions
      <4>1. text[p] \in 0 .. Versions /\ p \in Nat
        BY <1>3, ConstantTypes DEF Positions
      <4>2. (next <= p /\ p <= rows[2]) => text[p] < Versions
        BY <1>2, <1>3, <1>4, <4>1
      <4> QED
        BY <4>1, <4>2, ConstantTypes
    <3> QED
      BY <1>2, <3>1 DEF Replaced
  <2>2. computed' \in 0 .. known' - 1 /\ drafted' \in 0 .. NumSpec /\ known' \in Prompt .. MaxLen
    BY <1>1, <1>2, <1>3, <1>4, ConstantTypes
  <2> QED
    BY <1>1, <2>1, <2>2 DEF RingInv, QsaRingTypeOK
<1>8. RingKept'
  <2> SUFFICES ASSUME NEW p \in Positions, OpenFrom(next) <= p, p < next
               PROVE  ring[p % Capacity] = <<p, text'[p]>>
    BY <1>1, <1>2, <1>5 DEF RingKept, OpenFrom
  <2>1. /\ OpenFrom(computed) \in Nat /\ OpenFrom(next) \in Nat
        /\ OpenFrom(computed) <= OpenFrom(next) /\ next < OpenFrom(next) + Ratio
    BY <1>3, <1>4, GroupsGrow, GroupOf, ConstantTypes DEF OpenFrom
  <2>2. p \in Nat
    BY ConstantTypes DEF Positions
  <2>3. rows[2] + 1 <= p + Capacity /\ p < rows[2] + 1 /\ OpenFrom(computed) <= p
    BY <1>3, <1>4, <2>1, <2>2, CapacityFits
  <2> QED
    BY <1>5, <1>6, <2>3 DEF RingInv, RingKept
<1>9. PackedKept'
  <2> SUFFICES ASSUME NEW g \in Groups, End(g) < next
               PROVE  packed[g] = Current(g)'
    BY <1>1, <1>5 DEF PackedKept
  <2>1. g \in Nat /\ First(g) \in Nat /\ End(g) = First(g) + Ratio - 1
    BY ConstantTypes DEF Groups, First, End
  <2>2. packed[g] = Current(g)
    BY <1>4, <1>5, <2>1, <1>3, ConstantTypes DEF RingInv, PackedKept
  <2>3. ASSUME NEW j \in 0 .. Ratio - 1
        PROVE  text'[First(g) + j] = text[First(g) + j]
    <3>1. First(g) + j \in Positions /\ First(g) + j < next
      BY <1>2, <1>4, <2>1, ConstantTypes DEF Positions
    <3> QED
      BY <3>1, <1>6
  <2> QED
    BY <2>2, <2>3 DEF Current, First
<1> QED
  BY <1>1, <1>7, <1>8, <1>9 DEF RingInv, StepShape

LEMMA DraftKeeps == RingInv /\ DraftStep => RingInv'
<1> SUFFICES ASSUME RingInv, DraftStep PROVE RingInv'
  OBVIOUS
<1> DEFINE p == computed + drafted
           keys == [q \in Positions |-> IF q >= computed THEN Tentative ELSE text[q]]
<1>1. /\ phase = "draft" /\ drafted < NumSpec - 1 /\ p < MaxLen
      /\ ring' = Stored(p, p, keys) /\ packed' = Compressed(p, p, keys)
      /\ drafted' = drafted + 1
      /\ UNCHANGED <<text, known, computed, phase, rows, preempted>>
  BY DEF DraftStep, Forward
<1>2. /\ computed \in Nat /\ drafted \in Nat /\ text \in [Positions -> 0 .. Versions]
      /\ p \in Nat /\ computed <= p
  BY ConstantTypes DEF RingInv, QsaRingTypeOK
<1>3. keys \in [Positions -> -1 .. Versions]
  BY <1>2, ConstantTypes DEF Tentative
<1>4. Top' = computed /\ Top = computed
  BY <1>1 DEF Top
<1> HIDE DEF keys
<1>5. QsaRingTypeOK'
  <2>1. ring' \in [0 .. Capacity - 1 -> Keys] /\ packed' \in [Groups -> [0 .. Ratio - 1 -> Keys]]
    BY <1>1, <1>2, <1>3, ForwardTyped DEF RingInv
  <2>2. drafted' \in 0 .. NumSpec
    BY <1>1, <1>2, ConstantTypes
  <2> QED
    BY <1>1, <2>1, <2>2 DEF RingInv, QsaRingTypeOK, Keys
<1>6. RingKept'
  <2> SUFFICES ASSUME NEW q \in Positions, OpenFrom(computed) <= q, q < computed
               PROVE  Stored(p, p, keys)[q % Capacity] = <<q, text[q]>>
    BY <1>1, <1>4 DEF RingKept, OpenFrom
  <2>1. q \in Nat /\ OpenFrom(computed) \in Nat /\ computed < OpenFrom(computed) + Ratio
    BY <1>2, GroupOf, ConstantTypes DEF OpenFrom, Positions
  <2>2. computed <= q + Capacity /\ q < p /\ p < q + Capacity
    BY <1>1, <1>2, <2>1, CapacityFits
  <2>3. ring[q % Capacity] = <<q, text[q]>>
    BY <1>4, <2>2 DEF RingInv, RingKept
  <2> QED
    BY <1>2, <2>1, <2>2, <2>3, StoredOld
<1>7. PackedKept'
  <2> SUFFICES ASSUME NEW g \in Groups, End(g) < computed
               PROVE  Compressed(p, p, keys)[g] = Current(g)
    BY <1>1, <1>4 DEF PackedKept, Current
  <2>1. End(g) \in Nat
    BY ConstantTypes DEF Groups, End
  <2>2. ~Ending(g, p, p)
    BY <1>2, <2>1 DEF Ending
  <2>3. packed[g] = Current(g)
    BY <1>4 DEF RingInv, PackedKept
  <2> QED
    BY <2>2, <2>3 DEF Compressed
<1> QED
  BY <1>1, <1>5, <1>6, <1>7 DEF RingInv, StepShape

LEMMA DraftsDoneKeeps == RingInv /\ DraftsDone => RingInv'
<1> SUFFICES ASSUME RingInv, DraftsDone PROVE RingInv'
  OBVIOUS
<1>1. /\ phase = "draft" /\ phase' = "run"
      /\ UNCHANGED <<text, known, computed, rows, drafted, ring, packed, preempted>>
  BY DEF DraftsDone
<1>2. Top' = Top
  BY <1>1 DEF Top
<1> QED
  BY <1>1, <1>2 DEF RingInv, QsaRingTypeOK, StepShape, RingKept, PackedKept, Current

(* A hit ends where a ring starts again: nothing is needed from it.        *)
LEMMA PreemptKeeps == RingInv /\ Preempt => RingInv'
<1> SUFFICES ASSUME RingInv, Preempt PROVE RingInv'
  OBVIOUS
<1>1. /\ phase = "run" /\ preempted < MaxPreempt /\ preempted' = preempted + 1
      /\ ring' = [i \in 0 .. Capacity - 1 |-> Foreign]
      /\ UNCHANGED <<text, known, phase, rows, drafted>>
  BY DEF Preempt
<1>2. PICK hit \in {h \in 0 .. computed : h % BlockSize = 0} :
       /\ computed' = hit
       /\ packed' = [g \in Groups |-> IF End(g) < hit THEN packed[g] ELSE Garbage]
  BY DEF Preempt
<1>3. computed \in Nat /\ hit \in Nat /\ hit <= computed /\ known \in Nat /\ computed <= known - 1
  BY <1>2, ConstantTypes DEF RingInv, QsaRingTypeOK
<1>4. Top' = hit /\ Top = computed
  BY <1>1, <1>2 DEF Top
<1>5. OpenFrom(hit) = hit
  <2>1. PICK k \in Nat \ {0} : Capacity = Ratio * k
    BY CapacityFits
  <2>2. BlockSize % (Ratio * k) = 0 /\ hit % BlockSize = 0
    BY <2>1, <1>2, QsaRingAssumption DEF QsaRingAssumption
  <2> QED
    BY <1>3, <2>2, ConstantTypes, StartsGroup DEF OpenFrom
<1>6. QsaRingTypeOK'
  <2>1. Foreign \in Keys
    BY ConstantTypes DEF Foreign, Keys
  <2>2. ring' \in [0 .. Capacity - 1 -> Keys]
    BY <1>1, <2>1
  <2>3. packed' \in [Groups -> [0 .. Ratio - 1 -> Keys]]
    BY <1>2, <2>1 DEF RingInv, QsaRingTypeOK, Keys, Garbage
  <2>4. computed' \in 0 .. known - 1
    BY <1>2, <1>3
  <2>5. preempted' \in 0 .. MaxPreempt
    BY <1>1, ConstantTypes DEF RingInv, QsaRingTypeOK
  <2> QED
    BY <1>1, <2>2, <2>3, <2>4, <2>5 DEF RingInv, QsaRingTypeOK, Keys
<1>7. RingKept'
  <2> SUFFICES ASSUME NEW p \in Positions, OpenFrom(hit) <= p, p < hit PROVE FALSE
    BY <1>1, <1>2, <1>4 DEF RingKept, OpenFrom
  <2> QED
    BY <1>3, <1>5, ConstantTypes DEF Positions
<1>8. PackedKept'
  <2> SUFFICES ASSUME NEW g \in Groups, End(g) < hit PROVE packed[g] = Current(g)
    BY <1>1, <1>2, <1>4 DEF PackedKept, Current
  <2>1. End(g) \in Nat
    BY ConstantTypes DEF Groups, End
  <2>2. End(g) < computed
    BY <2>1, <1>3
  <2> QED
    BY <2>2, <1>4 DEF RingInv, PackedKept
<1> QED
  BY <1>1, <1>6, <1>7, <1>8 DEF RingInv, StepShape

-----------------------------------------------------------------------------
(* The keys are those of the sequence in every reachable state.            *)

(* The inductive invariant: the newest keys from the open group on are in  *)
(* the ring and every complete group is pooled from the sequence           *)
(* (QSAIndexer.forward, QSAKeyStateCache).                                 *)
THEOREM RingInvariant == QsaRingSpec => []RingInv
<1>1. RingInv /\ [QsaRingNext]_qrvars => RingInv'
  <2> SUFFICES ASSUME RingInv, [QsaRingNext]_qrvars PROVE RingInv'
    OBVIOUS
  <2>1. CASE QsaRingNext
    BY <2>1, PrefillKeeps, DecodeKeeps, ChunkDoneKeeps, SampleKeeps, DraftKeeps, DraftsDoneKeeps,
       PreemptKeeps DEF QsaRingNext
  <2>2. CASE UNCHANGED qrvars
    BY <2>2 DEF qrvars, RingInv, QsaRingTypeOK, StepShape, RingKept, PackedKept, Current, Top
  <2> QED
    BY <2>1, <2>2
<1> QED
  BY <1>1, InitKeeps, PTL DEF QsaRingSpec

(* Every position, version and key stays within its bounds.                *)
THEOREM RingTyped == QsaRingSpec => []QsaRingTypeOK
<1>1. RingInv => QsaRingTypeOK
  BY DEF RingInv
<1> QED
  BY <1>1, RingInvariant, PTL

(* What the next step needs to close the open group is in the ring: the    *)
(* capacity of get_kv_cache_spec is enough for every number of drafts.     *)
THEOREM OpenGroupAlwaysKept == QsaRingSpec => []OpenGroupKept
<1>1. RingInv => OpenGroupKept
  <2> SUFFICES ASSUME RingInv, phase = "run", NEW p \in Positions,
                      (computed \div Ratio) * Ratio <= p, p < computed
               PROVE  ring[p % Capacity] = <<p, text[p]>>
    BY DEF OpenGroupKept
  <2>1. computed \in Nat /\ p \in Nat
    BY ConstantTypes DEF RingInv, QsaRingTypeOK, Positions
  <2>2. OpenFrom(computed) \in Nat /\ OpenFrom(computed) <= p /\ computed < OpenFrom(computed) + Ratio
    BY <2>1, GroupOf, ConstantTypes DEF OpenFrom
  <2>3. p < Top /\ Top <= p + Capacity
    BY <2>1, <2>2, CapacityFits DEF Top
  <2> QED
    BY <2>2, <2>3 DEF RingInv, RingKept
<1> QED
  BY <1>1, RingInvariant, PTL

(* A query sees only groups pooled from its own sequence, none from a      *)
(* rejected draft, a draft step or another request's ring                  *)
(* (QSAIndexer.forward).                                                   *)
THEOREM VisibleAlwaysExact == QsaRingSpec => []VisibleExact
<1>1. RingInv => VisibleExact
  <2> SUFFICES ASSUME RingInv, phase = "sampled", NEW g \in Groups, End(g) <= rows[2]
               PROVE  packed[g] = Current(g)
    BY DEF VisibleExact
  <2>1. End(g) \in Nat
    BY ConstantTypes DEF Groups, End
  <2>2. rows[2] \in Int
    BY ConstantTypes DEF RingInv, QsaRingTypeOK
  <2>3. End(g) < Top
    BY <2>1, <2>2 DEF Top
  <2> QED
    BY <2>3 DEF RingInv, PackedKept
<1> QED
  BY <1>1, RingInvariant, PTL
=============================================================================
