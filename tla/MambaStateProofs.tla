-------------------------- MODULE MambaStateProofs --------------------------
(***************************************************************************)
(* Proofs about the recurrent states that serving keeps in blocks, on the  *)
(* invariants of MambaProofs:                                              *)
(*   - how a request's list is laid out for its next step, and whose the   *)
(*     blocks are that states are yet to be left in (Lists);               *)
(*   - a step writes only blocks nobody shares;                            *)
(*   - every state is where it is looked for and is the right one, and a   *)
(*     hashed block holds the state of its hash (Exact);                   *)
(*   - how many blocks a request can hold (Limits): a course through the   *)
(*     steps in flight says behind which tokens its blocks can be.         *)
(* Only two things change a list or a token count of a running request:    *)
(* the pass that schedules it, and the output of a step.                   *)
(***************************************************************************)
EXTENDS MambaProofs

(* The tokens up to the end of an entry of a block list.                   *)
End(i) == i * BlockSize

LEMMA EndInt ==
  ASSUME NEW i \in Int
  PROVE  End(i) \in Int /\ BlockSize * i = End(i) /\ i * BlockSize = End(i)
  BY ManagerAssumption DEF End

LEMMA EndOrder ==
  ASSUME NEW i \in Int, NEW j \in Int
  PROVE  /\ i <= j <=> End(i) <= End(j)
         /\ i < j => End(i) + BlockSize <= End(j)
         /\ End(i + 1) = End(i) + BlockSize
         /\ End(0) = 0
<1>1. BlockSize \in Nat /\ BlockSize > 0
  BY ManagerAssumption
<1>2. End(i + 1) = End(i) + BlockSize /\ End(0) = 0
  BY <1>1 DEF End
<1>3. ASSUME NEW x \in Int, NEW y \in Int, x < y PROVE x * BlockSize + BlockSize <= y * BlockSize
  <2>1. y - x - 1 \in Nat
    BY <1>3
  <2>2. (y - x - 1) * BlockSize >= 0
    BY <1>1, <2>1
  <2>3. (y - x - 1) * BlockSize = y * BlockSize - x * BlockSize - BlockSize
    BY <1>1
  <2> QED
    BY <1>1, <2>2, <2>3
<1>4. \A x, y \in Int : x < y => x * BlockSize < y * BlockSize
  BY <1>1, <1>3
<1>5. i <= j <=> End(i) <= End(j)
  BY <1>1, <1>4 DEF End
<1> QED
  BY <1>2, <1>3, <1>5 DEF End

LEMMA DivEnd ==
  ASSUME NEW n \in Int, NEW i \in Int
  PROVE  /\ n \div BlockSize \in Int
         /\ i <= n \div BlockSize <=> End(i) <= n
         /\ End(n \div BlockSize) <= n /\ n < End(n \div BlockSize) + BlockSize
<1> DEFINE d == n \div BlockSize
<1>1. BlockSize \in Nat /\ BlockSize > 0
  BY ManagerAssumption
<1>2. d \in Int /\ d * BlockSize <= n /\ n < d * BlockSize + BlockSize
  BY <1>1
<1> HIDE DEF d
<1>3. End(d) <= n /\ n < End(d) + BlockSize /\ End(i) \in Int /\ End(d) \in Int
  BY <1>2, EndInt DEF End
<1>4. i <= d => End(i) <= n
  BY <1>2, <1>3, EndOrder
<1>5. ~(i <= d) => End(i) > n
  BY <1>1, <1>2, <1>3, EndOrder
<1> QED
  BY <1>2, <1>3, <1>4, <1>5 DEF d

LEMMA CdivEnd ==
  ASSUME NEW n \in Int, NEW i \in Int
  PROVE  Cdiv(n) \in Int /\ (Cdiv(n) <= i <=> n <= End(i))
<1>1. BlockSize \in Nat /\ BlockSize > 0 /\ Cdiv(n) \in Int
  BY ManagerAssumption, CdivInt
<1> DEFINE m == n + BlockSize - 1
<1>2. m \in Int /\ Cdiv(n) = m \div BlockSize
  BY <1>1 DEF Cdiv
<1>3. i + 1 \in Int /\ End(i) \in Int /\ End(i + 1) = End(i) + BlockSize
  BY EndOrder, EndInt
<1>4. i + 1 <= Cdiv(n) <=> End(i + 1) <= m
  BY <1>2, <1>3, DivEnd
<1> QED
  BY <1>1, <1>3, <1>4

LEMMA FloorEnd ==
  ASSUME NEW n \in Int
  PROVE  /\ n \div BlockSize \in Int /\ Floor(n) = End(n \div BlockSize)
         /\ Floor(n) <= n /\ n < Floor(n) + BlockSize
         /\ Floor(n) \div BlockSize = n \div BlockSize
<1>1. BlockSize \in Nat /\ BlockSize > 0 /\ Floor(n) \in Int
  BY ManagerAssumption, FloorInt
<1> DEFINE d == n \div BlockSize
<1>2. d \in Int /\ n = d * BlockSize + (n % BlockSize)
  BY <1>1
<1>3. n % BlockSize \in Int
  BY <1>1
<1>4. Floor(n) = End(d)
  BY <1>1, <1>2, <1>3 DEF Floor, End
<1>5. End(d) <= n /\ n < End(d) + BlockSize
  BY <1>2, DivEnd
<1>6. (d * BlockSize) \div BlockSize = d
  BY <1>1, <1>2
<1> HIDE DEF d
<1> QED
  BY <1>2, <1>4, <1>5, <1>6 DEF d, End

LEMMA SameEnd ==
  ASSUME NEW i \in Int, NEW j \in Int, End(i) < End(j) + BlockSize, End(j) < End(i) + BlockSize
  PROVE  i = j
<1>1. End(i) \in Int /\ End(j) \in Int /\ BlockSize \in Int
  BY EndInt, ManagerAssumption
<1>2. ~(i < j) /\ ~(j < i)
  BY <1>1, EndOrder
<1> QED
  BY <1>2

(* An allocation, entry by entry.  `kept' is the entry of the last token   *)
(* counted: entries up to it stay, those between it and the entry of the   *)
(* last new token are null, those from there on are not, and every block   *)
(* behind it is new or was behind it before.  A list longer than its       *)
(* tokens need is only ever grown by drafts, into the next entry.          *)
Grown(blocks, total, allocated, kept) ==
  /\ blocks \in Seq(AllBlocks) /\ total \in Int /\ allocated \in BOOLEAN /\ kept \in Nat
  /\ allocated =>
       /\ Len(blocks) >= NumSpec + kept
       /\ Cdiv(total) <= kept + 1 \/ Len(blocks) = NumSpec + kept
       /\ \A k \in 1 .. Len(blocks) : k > kept => blocks[k] # Null
  /\ ~allocated => Len(blocks) = kept /\ Cdiv(total) > kept

Extends(blocks, new, s, first, kept) ==
  /\ \A i \in 1 .. kept : s[i] = blocks[i]
  /\ \A i \in 1 .. Len(blocks) : s[i] # Null => s[i] = blocks[i]
  /\ \A i \in kept + 1 .. Len(s) :
       /\ i < first => s[i] = Null
       /\ i >= first => s[i] # Null
       /\ s[i] # Null => \/ s[i] \in new
                         \/ \E k \in kept + 1 .. Len(blocks) : s[i] = blocks[k]

LEMMA ShiftedEntries ==
  ASSUME NEW blocks, NEW total, NEW allocated, NEW kept, Grown(blocks, total, allocated, kept),
         ~(Required(total) <= Len(blocks))
  PROVE  /\ Extends(blocks, {}, Shifted(blocks, total, allocated), Cdiv(total), kept)
         /\ Len(Shifted(blocks, total, allocated)) \in Nat
         /\ Len(Shifted(blocks, total, allocated)) >= Len(blocks)
         /\ Len(Shifted(blocks, total, allocated)) >= kept
         /\ Len(Shifted(blocks, total, allocated)) >= Cdiv(total) - 1
<1> DEFINE len == Len(blocks)
           last == Cdiv(total)
           moved == NumMoved(blocks, total, allocated)
           pad == Larger(0, Skipped(total) - Len(blocks))
           first == Len(blocks) - NumSpec + 1
           s == Shifted(blocks, total, allocated)
<1>1. /\ blocks \in Seq(AllBlocks) /\ total \in Int /\ allocated \in BOOLEAN /\ kept \in Nat
      /\ len \in Nat /\ NumSpec \in Nat /\ last \in Int
      /\ Skipped(total) = last - 1 /\ Required(total) = last + NumSpec
      /\ ~(last + NumSpec <= len)
  BY RequiredInt, LenProperties, ManagerAssumption DEF Grown
<1>2. allocated => Len(blocks) >= NumSpec
  BY <1>1 DEF Grown
<1>3. Moves(blocks, s, moved, pad, first)
  BY <1>1, <1>2, ShiftedMoves
<1>4. /\ moved = IF allocated THEN Larger(0, Smaller(NumSpec, (last - 1) - (len - NumSpec)))
                 ELSE 0
      /\ pad = Larger(0, (last - 1) - len) /\ first = len - NumSpec + 1
  BY <1>1 DEF NumMoved
<1> HIDE DEF len, last, moved, pad, first, s
<1>5. /\ moved \in Nat /\ pad \in Nat /\ first \in Int /\ Len(s) = len + pad + moved
      /\ \A i \in 1 .. len :
           s[i] = IF i \in first .. first + moved - 1 THEN Null ELSE blocks[i]
      /\ \A i \in len + 1 .. len + pad : s[i] = Null
      /\ \A i \in len + pad + 1 .. len + pad + moved :
           s[i] = blocks[first + (i - len - pad) - 1]
  BY <1>3 DEF Moves, len
<1>6. CASE moved = 0 /\ (allocated => last <= kept + 1)
  <2>1. \A i \in 1 .. len : s[i] = blocks[i]
    BY <1>1, <1>5, <1>6
  <2>2. kept <= len /\ (~allocated => len = kept)
        /\ (allocated => \A k \in 1 .. len : k > kept => blocks[k] # Null)
    BY <1>1 DEF Grown, len
  <2>3. Len(s) = len + pad /\ (allocated => pad = 0) /\ (~allocated => len + pad = last - 1)
        /\ len + pad >= last - 1
    <3>1. CASE allocated
      BY <1>1, <1>4, <1>5, <1>6, <2>2, <3>1 DEF Larger
    <3>2. CASE ~allocated
      <4>1. len = kept /\ last > kept
        BY <3>2 DEF Grown, len, last
      <4> QED
        BY <1>1, <1>4, <1>5, <1>6, <3>2, <4>1 DEF Larger
    <3> QED
      BY <3>1, <3>2
  <2>4. ASSUME NEW i \in kept + 1 .. Len(s)
        PROVE  /\ i < last => s[i] = Null
               /\ i >= last => s[i] # Null
               /\ s[i] # Null => \E k \in kept + 1 .. len : s[i] = blocks[k]
    <3>1. CASE allocated
      <4>1. i \in 1 .. len /\ i > kept /\ i >= last /\ i \in kept + 1 .. len
        BY <1>1, <1>5, <1>6, <2>3, <2>4, <3>1
      <4> QED
        BY <1>1, <2>1, <2>2, <3>1, <4>1
    <3>2. CASE ~allocated
      <4>1. i \in len + 1 .. len + pad /\ i < last
        BY <1>1, <1>5, <2>2, <2>3, <2>4, <3>2
      <4> QED
        BY <1>1, <1>5, <4>1
    <3> QED
      BY <1>1, <3>1, <3>2
  <2>5. Len(s) \in Nat /\ Len(s) >= len /\ Len(s) >= kept /\ Len(s) >= last - 1
    BY <1>1, <1>5, <2>2, <2>3
  <2>6. /\ \A i \in 1 .. kept : s[i] = blocks[i]
        /\ \A i \in 1 .. len : s[i] # Null => s[i] = blocks[i]
    BY <1>1, <2>1, <2>2
  <2> QED
    BY <2>4, <2>5, <2>6 DEF Extends, len, last, s
<1>7. CASE allocated /\ last > kept + 1
  <2>1. len = NumSpec + kept /\ first = kept + 1
        /\ \A k \in 1 .. len : k > kept => blocks[k] # Null
    <3>1. /\ last <= kept + 1 \/ len = NumSpec + kept
          /\ \A k \in 1 .. len : k > kept => blocks[k] # Null
      BY <1>7 DEF Grown, len, last
    <3>2. len = NumSpec + kept
      BY <1>1, <1>7, <3>1
    <3> QED
      BY <1>1, <1>4, <3>1, <3>2
  <2>2. /\ moved + pad = last - 1 - kept /\ moved <= NumSpec
        /\ pad > 0 => moved = NumSpec
    BY <1>1, <1>4, <1>5, <1>7, <2>1 DEF Larger, Smaller
  <2>3. \A i \in 1 .. kept : s[i] = blocks[i]
    BY <1>1, <1>5, <2>1
  <2>4. \A i \in 1 .. len : s[i] # Null => s[i] = blocks[i]
    BY <1>5
  <2>5. ASSUME NEW i \in kept + 1 .. Len(s)
        PROVE  /\ i < last => s[i] = Null
               /\ i >= last => s[i] # Null
               /\ s[i] # Null => \E k \in kept + 1 .. len : s[i] = blocks[k]
    <3>0. i \in Int /\ i >= kept + 1 /\ i <= len + pad + moved
      BY <1>1, <1>5
    <3>1. CASE i <= kept + moved
      <4>1. i \in 1 .. len /\ i \in first .. first + moved - 1 /\ i < last
        BY <1>1, <1>5, <2>1, <2>2, <3>0, <3>1
      <4>2. s[i] = Null
        BY <1>5, <4>1
      <4> QED
        BY <1>1, <3>0, <4>1, <4>2
    <3>2. CASE i > kept + moved /\ i <= len
      <4>1. i \in 1 .. len /\ i \notin first .. first + moved - 1 /\ i \in kept + 1 .. len
            /\ i >= last
        BY <1>1, <1>5, <2>1, <2>2, <3>0, <3>2
      <4>2. s[i] = blocks[i] /\ blocks[i] # Null
        BY <1>1, <1>5, <2>1, <3>0, <4>1
      <4> QED
        BY <1>1, <3>0, <4>1, <4>2
    <3>3. CASE i > len /\ i <= len + pad
      <4>1. i \in len + 1 .. len + pad /\ i < last
        BY <1>1, <1>5, <2>1, <2>2, <3>0, <3>3
      <4>2. s[i] = Null
        BY <1>5, <4>1
      <4> QED
        BY <1>1, <3>0, <4>1, <4>2
    <3>4. CASE i > len + pad
      <4> DEFINE k == first + (i - len - pad) - 1
      <4>1. i \in len + pad + 1 .. len + pad + moved /\ i >= last
        BY <1>1, <1>5, <2>1, <2>2, <3>0, <3>4
      <4>2. k \in kept + 1 .. len /\ k \in 1 .. len /\ k > kept
        BY <1>1, <1>5, <2>1, <2>2, <3>0, <3>4
      <4>3. s[i] = blocks[k]
        BY <1>5, <4>1
      <4> HIDE DEF k
      <4>4. blocks[k] # Null
        BY <2>1, <4>2
      <4> QED
        BY <1>1, <3>0, <4>1, <4>2, <4>3, <4>4
    <3> QED
      BY <1>1, <1>5, <3>0, <3>1, <3>2, <3>3, <3>4
  <2>6. Len(s) \in Nat /\ Len(s) >= len /\ Len(s) >= kept /\ Len(s) >= last - 1
    BY <1>1, <1>5, <1>7, <2>1, <2>2
  <2> QED
    BY <2>3, <2>4, <2>5, <2>6 DEF Extends, len, last, s
<1>8. CASE ~allocated \/ last <= kept + 1
  <2>1. CASE ~allocated
    BY <1>4, <1>6, <2>1
  <2>2. CASE allocated /\ last <= kept + 1
    <3>1. len - NumSpec >= kept
      BY <1>1, <2>2 DEF Grown, len
    <3>2. moved = 0
      BY <1>1, <1>4, <2>2, <3>1 DEF Larger, Smaller
    <3> QED
      BY <1>6, <2>2, <3>2
  <2> QED
    BY <1>1, <1>8, <2>1, <2>2
<1> QED
  BY <1>1, <1>7, <1>8

LEMMA AllocatedEntries ==
  ASSUME NEW blocks, NEW total, NEW allocated, NEW kept, Grown(blocks, total, allocated, kept),
         NEW new \in [1 .. NumNew(blocks, total, allocated) -> Blocks],
         NEW s, s = Allocated(blocks, total, allocated, new)
  PROVE  /\ s \in Seq(AllBlocks) /\ Len(s) \in Nat
         /\ Len(s) >= Len(blocks) /\ Len(s) >= NumSpec + Cdiv(total)
         /\ Len(blocks) <= NumSpec + Cdiv(total) => Len(s) = NumSpec + Cdiv(total)
         /\ Extends(blocks, Held(new), s, Cdiv(total), kept)
<1> DEFINE len == Len(blocks)
           last == Cdiv(total)
           n == NumNew(blocks, total, allocated)
           t == Shifted(blocks, total, allocated)
<1>1. /\ blocks \in Seq(AllBlocks) /\ total \in Int /\ allocated \in BOOLEAN /\ kept \in Nat
      /\ len \in Nat /\ NumSpec \in Nat /\ last \in Int
      /\ Required(total) = last + NumSpec
  BY RequiredInt, LenProperties, ManagerAssumption DEF Grown
<1>2. allocated => Len(blocks) >= NumSpec
  BY <1>1 DEF Grown
<1>3. /\ s \in Seq(AllBlocks) /\ Len(s) >= last + NumSpec /\ Len(s) >= len
  BY <1>1, <1>2, AllocatedType
<1>4. Len(s) \in Nat
  BY <1>3, LenProperties
<1>5. CASE Required(total) <= len
  <2>1. s = blocks
    BY <1>5 DEF Allocated
  <2>2. allocated
    BY <1>1, <1>5 DEF Grown
  <2>3. /\ len >= NumSpec + kept /\ (last <= kept + 1 \/ len = NumSpec + kept)
        /\ \A k \in 1 .. len : k > kept => blocks[k] # Null
    BY <2>2 DEF Grown
  <2> HIDE DEF len, last
  <2>4. ASSUME NEW i \in kept + 1 .. len
        PROVE  i >= last /\ blocks[i] # Null /\ i \in 1 .. len
    <3>1. i \in 1 .. len /\ i > kept /\ i >= last
      BY <1>1, <1>5, <2>3, <2>4
    <3> QED
      BY <2>3, <3>1
  <2>5. Extends(blocks, Held(new), s, last, kept)
    <3>1. Len(s) = len
      BY <2>1 DEF len
    <3>2. ASSUME NEW i \in kept + 1 .. Len(s)
          PROVE  /\ i < last => s[i] = Null
                 /\ i >= last => s[i] # Null
                 /\ s[i] # Null => \/ s[i] \in Held(new)
                                   \/ \E k \in kept + 1 .. Len(blocks) : s[i] = blocks[k]
      BY <1>1, <2>1, <2>4, <3>1, <3>2 DEF len
    <3> QED
      BY <2>1, <3>2 DEF Extends
  <2> QED
    BY <1>1, <1>3, <1>4, <1>5, <2>1, <2>5 DEF len, last
<1>6. CASE ~(Required(total) <= len)
  <2>1. s = t \o new
    BY <1>6 DEF Allocated
  <2>2. /\ Extends(blocks, {}, t, last, kept)
        /\ Len(t) \in Nat /\ Len(t) >= len /\ Len(t) >= kept /\ Len(t) >= last - 1
    BY <1>6, ShiftedEntries
  <2>3. n = Required(total) - Len(t) /\ n \in Nat /\ t \in Seq(AllBlocks)
    BY <1>1, <1>2, <1>6, AllocationBounded, ShiftedType DEF NumNew
  <2>4. DOMAIN new = 1 .. n /\ \A i \in 1 .. n : new[i] \in Blocks /\ new[i] # Null
    BY ServingAssumption
  <2> HIDE DEF len, last, n, t
  <2>5. new \in Seq(AllBlocks) /\ Len(new) = n
    BY <2>3, <2>4 DEF AllBlocks, n
  <2>6. /\ Len(s) = Len(t) + n
        /\ \A i \in 1 .. Len(t) + n : s[i] = IF i <= Len(t) THEN t[i] ELSE new[i - Len(t)]
    <3>1. /\ Len(t \o new) = Len(t) + Len(new)
          /\ \A i \in 1 .. Len(t) + Len(new) :
               (t \o new)[i] = IF i <= Len(t) THEN t[i] ELSE new[i - Len(t)]
      BY <2>3, <2>5, ConcatProperties
    <3> QED
      BY <2>1, <2>5, <3>1
  <2>7. \A i \in 1 .. Len(t) : s[i] = t[i]
    BY <2>2, <2>3, <2>6
  <2>8. Len(s) = last + NumSpec
    BY <1>1, <2>2, <2>3, <2>6
  <2>9. /\ \A i \in 1 .. kept : t[i] = blocks[i]
        /\ \A i \in 1 .. len : t[i] # Null => t[i] = blocks[i]
        /\ \A i \in kept + 1 .. Len(t) :
             /\ i < last => t[i] = Null
             /\ i >= last => t[i] # Null
             /\ t[i] # Null => \E k \in kept + 1 .. len : t[i] = blocks[k]
    BY <2>2 DEF Extends, len
  <2>10. /\ \A i \in 1 .. kept : s[i] = blocks[i]
         /\ \A i \in 1 .. len : s[i] # Null => s[i] = blocks[i]
    <3>1. ASSUME NEW i \in 1 .. kept PROVE s[i] = blocks[i]
      <4>1. i \in 1 .. Len(t)
        BY <1>1, <2>2
      <4>2. s[i] = t[i] /\ t[i] = blocks[i]
        BY <2>7, <2>9, <4>1
      <4> QED
        BY <4>2
    <3>2. ASSUME NEW i \in 1 .. len, s[i] # Null PROVE s[i] = blocks[i]
      <4>1. i \in 1 .. Len(t)
        BY <1>1, <2>2
      <4>2. s[i] = t[i]
        BY <2>7, <4>1
      <4> QED
        BY <2>9, <3>2, <4>2
    <3> QED
      BY <3>1, <3>2
  <2>11. ASSUME NEW i \in kept + 1 .. Len(s)
         PROVE  /\ i < last => s[i] = Null
                /\ i >= last => s[i] # Null
                /\ s[i] # Null => s[i] \in Held(new) \/ \E k \in kept + 1 .. len : s[i] = blocks[k]
    <3>1. CASE i <= Len(t)
      <4>1. i \in 1 .. Len(t) /\ i \in kept + 1 .. Len(t)
        BY <1>1, <2>2, <2>11, <3>1
      <4> QED
        BY <2>7, <2>9, <4>1
    <3>2. CASE ~(i <= Len(t))
      <4>1. i \in 1 .. Len(t) + n /\ i - Len(t) \in 1 .. n /\ ~(i < last)
        BY <1>1, <2>2, <2>3, <2>6, <2>11, <3>2
      <4>2. s[i] = new[i - Len(t)]
        BY <2>6, <3>2, <4>1
      <4>3. s[i] \in Held(new) /\ s[i] # Null
        BY <2>4, <4>1, <4>2 DEF Held
      <4> QED
        BY <4>1, <4>3
    <3> QED
      BY <3>1, <3>2
  <2>12. Extends(blocks, Held(new), s, last, kept)
    BY <2>10, <2>11 DEF Extends, len
  <2> QED
    BY <1>1, <1>3, <1>4, <2>8, <2>12 DEF len, last
<1> QED
  BY <1>5, <1>6

-----------------------------------------------------------------------------
-----------------------------------------------------------------------------
(* Block lists.  For a running request: the tokens its list is laid out    *)
(* for, the tokens whose state its next step leaves for sure, and the      *)
(* tokens it still lacks then.                                             *)
List(r) == mgr[r].blocks
Top(r) == IF r \in DOMAIN step THEN req[r].computed + step[r].n ELSE req[r].computed
SureOf(r) == IF r \in DOMAIN step THEN Sure(r) ELSE worker[r].pos
Lacks(r) == req[r].tokens + req[r].placeholders - Top(r)

(* The runner's table has every block of the list in the same place; the   *)
(* list reaches the speculative blocks behind the last token, no further   *)
(* while there is a prompt left to compute; from the entry of the sure     *)
(* state on there are blocks; and of the entries the step passes, only one *)
(* that ends with the sure state has a block.                              *)
Laid(blocks, table, pos, sure, top, lacks) ==
  /\ table \in Seq(AllBlocks) /\ Len(table) <= Len(blocks)
  /\ \A i \in 1 .. Len(table) : blocks[i] # Null => table[i] = blocks[i]
  /\ Len(blocks) >= NumSpec + Cdiv(top)
  /\ lacks > 1 => Len(blocks) = NumSpec + Cdiv(top)
  /\ \A i \in 1 .. Len(blocks) : i >= Cdiv(sure) => blocks[i] # Null
  /\ \A i \in 1 .. Len(blocks) :
       blocks[i] # Null /\ End(i) > pos /\ End(i) <= sure => End(i) = sure

(* A block whose state is yet to come belongs to one request and has no    *)
(* hash, unless this pass has hashed it for the state it is sure to get.   *)
Marked(r, i, b) ==
  /\ r \in DOMAIN step /\ End(i) = Sure(r)
  /\ pool[b].hash = After(r, End(i)) /\ pool[b].hash \in fresh
OwnsAhead(r) ==
  \A i \in 1 .. Len(List(r)) : List(r)[i] # Null /\ End(i) > worker[r].pos =>
    /\ \A x \in Requests \ {r} : List(r)[i] \notin Held(List(x))
    /\ pool[List(r)[i]].hash = Nothing \/ Marked(r, i, List(r)[i])

Lists ==
  /\ \A r \in Requests : mgr[r].cached \in Nat
  /\ \A r \in Requests : req[r].status = "running" =>
       /\ Laid(List(r), worker[r].table, worker[r].pos, SureOf(r), Top(r), Lacks(r))
       /\ OwnsAhead(r)

BlockInv == RefInv /\ CounterInv /\ Lists

(* What a running request's counters say of each other.                    *)
LEMMA RunningCounts ==
  ASSUME CounterInv, NEW r \in Requests, req[r].status = "running"
  PROVE  /\ req[r].tokens \in Int /\ req[r].computed \in Int /\ req[r].placeholders \in Int
         /\ req[r].spec \in Int /\ worker[r].pos \in Int /\ NumSpec \in Nat
         /\ worker[r].pos >= 0 /\ worker[r].pos <= req[r].computed
         /\ req[r].computed - req[r].placeholders <= worker[r].pos
         /\ Lag(req[r]) \in Int /\ Lag(req[r]) >= 1
         /\ req[r].tokens <= worker[r].pos + Lag(req[r])
         /\ req[r].spec >= 0 /\ req[r].spec <= NumSpec
         /\ Lag(req[r]) > 1 => /\ req[r].placeholders = 0 /\ req[r].spec = 0
                               /\ worker[r].pos = req[r].computed
         /\ Processed(r) \in Int /\ Processed(r) >= 0 /\ Processed(r) <= worker[r].pos
<1>1. /\ req[r].tokens \in Int /\ req[r].computed \in Int /\ req[r].placeholders \in Int
      /\ req[r].spec \in Int /\ req[r].inflight \in Int /\ worker[r].pos \in Int
      /\ NumSpec \in Nat
  BY ReqFields, ManagerAssumption DEF CounterInv, Counters, Rows, ServingInv, Shape
<1>2. PICK t \in Amount : Ahead(req[r], worker[r].pos, t)
  BY DEF CounterInv, Counters, Balanced
<1>3. t.kept \in Nat /\ t.rejected \in Nat /\ t.sampled \in Nat
  BY DEF Amount
<1>4. /\ req[r].spec >= 0 /\ req[r].spec <= NumSpec
      /\ req[r].inflight = t.kept + t.rejected
      /\ worker[r].pos >= 0 /\ t.rejected = req[r].computed - worker[r].pos
      /\ req[r].placeholders = t.sampled + t.rejected
      /\ Lag(req[r]) >= 1
      /\ Lag(req[r]) > 1 => req[r].placeholders = 0 /\ req[r].spec = 0
  BY <1>2 DEF Ahead
<1>5. Lag(req[r]) \in Int /\ req[r].tokens <= worker[r].pos + Lag(req[r])
  <2>1. Lag(req[r]) = req[r].tokens + req[r].placeholders - req[r].computed
    BY DEF Lag
  <2>2. Lag(req[r]) \in Int
    BY <1>1, <2>1
  <2>3. req[r].placeholders >= req[r].computed - worker[r].pos
    BY <1>3, <1>4
  <2> QED
    BY <1>1, <2>1, <2>2, <2>3
<1>6. req[r].placeholders = 0 => worker[r].pos = req[r].computed
  <2> SUFFICES ASSUME req[r].placeholders = 0 PROVE worker[r].pos = req[r].computed
    OBVIOUS
  <2>1. t.rejected = 0
    BY <1>3, <1>4
  <2>2. req[r].computed - worker[r].pos = 0
    BY <1>4, <2>1
  <2> QED
    BY <1>1, <2>2
<1>7. /\ worker[r].pos <= req[r].computed
      /\ req[r].computed - req[r].placeholders <= worker[r].pos
  BY <1>1, <1>3, <1>4
<1>8. Processed(r) \in Int /\ Processed(r) >= 0 /\ Processed(r) <= worker[r].pos
  <2>1. req[r].computed - req[r].inflight = worker[r].pos - t.kept
    BY <1>1, <1>3, <1>4
  <2> QED
    BY <1>1, <1>3, <1>4, <2>1 DEF Processed, Larger
<1> QED
  BY <1>1, <1>4, <1>5, <1>6, <1>7, <1>8

(* The sweep nulls entries before that of the last token computed.         *)
LEMMA SweptKept ==
  ASSUME CounterInv, NEW r \in Requests, req[r].status = "running", mgr[r].sweep \in Nat
  PROVE  /\ SweptMgr(r).blocks \in Seq(AllBlocks)
         /\ Len(SweptMgr(r).blocks) = Len(List(r)) /\ Len(List(r)) \in Nat
         /\ \A i \in 1 .. Len(List(r)) :
              /\ SweptMgr(r).blocks[i] # Null => SweptMgr(r).blocks[i] = List(r)[i]
              /\ i >= Cdiv(worker[r].pos) => SweptMgr(r).blocks[i] = List(r)[i]
         /\ SweptMgr(r).cached = mgr[r].cached
<1> DEFINE B == List(r)
<1>1. Shape /\ mgr[r] \in Mgr /\ B \in Seq(AllBlocks) /\ Len(B) \in Nat /\ DOMAIN B = 1 .. Len(B)
  BY MgrFields, HeldInBlocks DEF CounterInv, ServingInv, Shape, List
<1>2. /\ Processed(r) \in Int /\ Processed(r) >= 0 /\ Processed(r) <= worker[r].pos
      /\ worker[r].pos \in Int
  BY RunningCounts
<1>3. SweptMgr(r).blocks = NullOut(B, SweptOf(r))
  BY <1>1 DEF SweptMgr, Mgr, List
<1>4. ASSUME NEW i \in SweptOf(r) PROVE i < Cdiv(worker[r].pos)
  <2> DEFINE p == Processed(r)
  <2>1. Cdiv(p) \in Int /\ Cdiv(worker[r].pos) \in Int /\ p \in Int
    BY <1>2, CdivInt
  <2>2. Cdiv(p) <= Cdiv(worker[r].pos)
    <3>1. worker[r].pos <= End(Cdiv(worker[r].pos)) /\ End(Cdiv(worker[r].pos)) \in Int
      BY <1>2, <2>1, CdivEnd, EndInt
    <3>2. p <= End(Cdiv(worker[r].pos))
      BY <1>2, <3>1
    <3> QED
      BY <2>1, <3>2, CdivEnd
  <2>3. i \in Int /\ i < Cdiv(p)
    <3>1. CASE i \in StateSweep(B, mgr[r].sweep, p)
      <4> DEFINE end == Smaller(Cdiv(p) - 1, Len(B))
      <4>1. end \in Int /\ end <= Cdiv(p) - 1
        <5> HIDE DEF p
        <5> QED
          BY <1>1, <2>1 DEF Smaller
      <4>2. i \in mgr[r].sweep + 1 .. end
        BY <3>1 DEF StateSweep
      <4> HIDE DEF end, p
      <4> QED
        BY <2>1, <4>1, <4>2
    <3>2. CASE i \in BaseSweep(B, p)
      <4> DEFINE skipped == Larger(p - 1, 0) \div BlockSize
                 end == Smaller(skipped, Len(B))
      <4> HIDE DEF p
      <4>1. Larger(p - 1, 0) \in Int /\ (p >= 1 => Larger(p - 1, 0) = p - 1)
            /\ (p < 1 => Larger(p - 1, 0) = 0)
        BY <2>1 DEF Larger
      <4>2. skipped \in Int /\ End(skipped) <= Larger(p - 1, 0) /\ End(skipped) \in Int
        BY <4>1, DivEnd, EndInt
      <4> HIDE DEF skipped
      <4>3. end \in Int /\ end <= skipped
        BY <1>1, <4>2 DEF Smaller
      <4>4. i \in 1 .. end
        BY <3>2 DEF BaseSweep, skipped
      <4> HIDE DEF end
      <4>5. i \in Int /\ i >= 1 /\ i <= skipped
        BY <4>2, <4>3, <4>4
      <4>6. End(i) <= End(skipped) /\ End(i) \in Int /\ End(1) <= End(i) /\ End(0) = 0
            /\ End(1) = End(0) + BlockSize /\ BlockSize > 0 /\ BlockSize \in Int
        <5>1. End(0 + 1) = End(0) + BlockSize /\ End(0) = 0
          BY EndOrder
        <5>2. End(i) \in Int /\ End(i) <= End(skipped)
          BY <4>2, <4>5, EndOrder, EndInt
        <5>3. End(1) <= End(i)
          BY <4>5, EndOrder
        <5> QED
          BY <5>1, <5>2, <5>3, ManagerAssumption
      <4>7. p > End(i)
        BY <2>1, <4>1, <4>2, <4>6
      <4>8. ~(Cdiv(p) <= i)
        BY <2>1, <4>5, <4>6, <4>7, CdivEnd
      <4> QED
        BY <2>1, <4>5, <4>8
    <3> QED
      BY <1>4, <3>1, <3>2 DEF SweptOf, Swept, List
  <2> QED
    BY <2>1, <2>2, <2>3
<1>5. Cdiv(worker[r].pos) \in Int
  BY <1>2, CdivInt
<1>6. \A i \in 1 .. Len(B) : NullOut(B, SweptOf(r))[i] = IF i \in SweptOf(r) THEN Null ELSE B[i]
  BY <1>1 DEF NullOut
<1>7. /\ SweptMgr(r).blocks \in Seq(AllBlocks) /\ Len(SweptMgr(r).blocks) = Len(B)
      /\ SweptMgr(r).cached = mgr[r].cached
  BY <1>1, SweptType DEF List
<1> HIDE DEF B
<1>8. ASSUME NEW i \in 1 .. Len(B), i >= Cdiv(worker[r].pos)
      PROVE  SweptMgr(r).blocks[i] = B[i]
  <2>1. i \notin SweptOf(r)
    BY <1>1, <1>4, <1>5, <1>8
  <2> QED
    BY <1>3, <1>6, <2>1
<1> QED
  BY <1>1, <1>3, <1>6, <1>7, <1>8 DEF B

(* A prefill chunk that starts inside a block stops at its end at the      *)
(* latest.                                                                 *)
LEMMA SplitToBoundary ==
  ASSUME req \in [Requests -> Req], NEW r \in Requests, NEW start \in Int, NEW n \in Int,
         start < req[r].tokens - 1, start % BlockSize # 0, AlignedSplit(r, start, n) > 0
  PROVE  start + AlignedSplit(r, start, n) <= Floor(start) + BlockSize
<1> DEFINE prefillEnd == Larger(Prompt[r], req[r].tokens - 1)
           lastCache  == Larger(Floor(req[r].tokens) - (IF NumSpec > 0 THEN BlockSize ELSE 0), 0)
           aligned    == Floor(start + n)
           end == IF /\ start + n < prefillEnd
                     /\ aligned > start \/ BlockSize <= MaxBatched
                    THEN aligned ELSE start + n
           next  == IF start % BlockSize # 0 THEN Floor(start) + BlockSize ELSE 0
           stops == {s \in {next, lastCache} : start < s /\ s < end}
           stop  == IF stops = {} THEN end
                    ELSE CHOOSE s \in stops : \A other \in stops : s <= other
<1>1. BlockSize \in Int /\ req[r].tokens \in Int /\ Prompt[r] \in Int
  BY ManagerAssumption, ServingAssumption, ReqFields
<1>2. Floor(start + n) \in Int /\ Floor(start) \in Int /\ Floor(req[r].tokens) \in Int
  BY <1>1, FloorInt
<1>3. end \in Int /\ lastCache \in Int
  BY <1>1, <1>2 DEF Larger
<1>4. next \in Int /\ next = Floor(start) + BlockSize /\ start < next
  BY <1>1, <1>2, FloorEnd
<1>5. start < prefillEnd
  BY <1>1 DEF Larger
<1>6. stop \in Int /\ stop <= next
  <2> HIDE DEF next, lastCache, end
  <2>1. CASE end <= next
    <3>1. \A s \in stops : s \in Int /\ s <= end
      BY <1>3, <1>4
    <3>2. CASE stops = {}
      BY <1>3, <2>1, <3>2
    <3>3. CASE stops # {}
      <4>1. \E s \in stops : \A other \in stops : s <= other
        BY <1>3, <1>4, <3>3
      <4> HIDE DEF stops
      <4>2. (CHOOSE s \in stops : \A other \in stops : s <= other) \in stops
        BY <4>1
      <4>3. stop \in stops
        BY <3>3, <4>2
      <4> HIDE DEF stop
      <4> QED
        BY <1>3, <1>4, <2>1, <3>1, <4>3
    <3> QED
      BY <3>2, <3>3
  <2>2. CASE ~(end <= next)
    <3>1. next \in stops /\ \A s \in stops : s \in Int
      BY <1>3, <1>4, <2>2
    <3>2. \E s \in stops : \A other \in stops : s <= other
      BY <1>3, <1>4, <3>1
    <3> HIDE DEF stops
    <3>3. /\ (CHOOSE s \in stops : \A other \in stops : s <= other) \in stops
          /\ \A other \in stops : (CHOOSE s \in stops : \A o \in stops : s <= o) <= other
      BY <3>2
    <3>4. stop \in stops /\ stop <= next
      BY <3>1, <3>3
    <3> QED
      BY <3>1, <3>4
  <2> QED
    BY <2>1, <2>2
<1>7. AlignedSplit(r, start, n) = Larger(stop - start, 0)
  <2>1. AlignedSplit(r, start, n) = IF start >= prefillEnd THEN n ELSE Larger(stop - start, 0)
    BY DEF AlignedSplit
  <2>2. prefillEnd \in Int
    BY <1>1 DEF Larger
  <2> HIDE DEF stop, prefillEnd
  <2> QED
    BY <1>5, <2>1, <2>2
<1> HIDE DEF stop, next
<1> QED
  BY <1>4, <1>6, <1>7 DEF Larger

(* A block is hashed as the entry it is in, and only when that is full.    *)
LEMMA HashedEntry ==
  ASSUME NEW p \in [Blocks -> PoolEntry], NEW r, NEW blocks, NEW cached \in Int,
         NEW tokens \in Int, NEW b \in Blocks,
         NEW q, q = Hashed(p, r, blocks, cached, tokens)
  PROVE  \/ q[b] = p[b] /\ \A i \in Filled(blocks, cached, tokens) : blocks[i] # b
         \/ \E i \in Int : /\ i \in Filled(blocks, cached, tokens)
                           /\ i >= cached + 1 /\ End(i) <= tokens /\ blocks[i] = b
                           /\ q[b].hash = After(r, End(i))
                           /\ After(r, End(i)) \in NewHashes(r, blocks, cached, tokens)
<1> DEFINE filled == Filled(blocks, cached, tokens)
           at == CHOOSE i \in filled : blocks[i] = b
<1>1. tokens \div BlockSize \in Int
  BY DivEnd
<1>2. q[b] = IF \E i \in filled : blocks[i] = b
             THEN [p[b] EXCEPT !.hash = After(r, BlockSize * at)] ELSE p[b]
  BY DEF Hashed
<1>3. CASE \E i \in filled : blocks[i] = b
  <2>1. at \in filled /\ blocks[at] = b
    <3> HIDE DEF filled
    <3> QED
      BY <1>3
  <2> HIDE DEF at
  <2>2. at \in Int /\ at >= cached + 1 /\ at <= tokens \div BlockSize
    BY <1>1, <2>1 DEF Filled
  <2>3. End(at) <= tokens /\ BlockSize * at = End(at)
    BY <2>2, DivEnd, EndInt
  <2>4. q[b].hash = After(r, End(at))
    <3> DEFINE h == After(r, BlockSize * at)
    <3>1. h = After(r, End(at))
      BY <2>3
    <3> HIDE DEF h
    <3>2. q[b] = [p[b] EXCEPT !.hash = h]
      BY <1>2, <1>3 DEF h
    <3> QED
      BY <3>1, <3>2 DEF PoolEntry
  <2>5. After(r, End(at)) \in NewHashes(r, blocks, cached, tokens)
    BY <2>1, <2>3 DEF NewHashes
  <2> QED
    BY <2>1, <2>2, <2>3, <2>4, <2>5
<1>4. CASE ~\E i \in filled : blocks[i] = b
  BY <1>2, <1>4
<1> QED
  BY <1>3, <1>4

(* A request that another one's allocation, release or output leaves alone *)
(* keeps what it owns.                                                     *)
LEMMA OthersKeep ==
  ASSUME Shape, Lists, NEW x \in Requests, req[x].status = "running",
         mgr'[x].blocks = mgr[x].blocks, worker'[x] = worker[x],
         req'[x].tokens = req[x].tokens, req'[x].computed = req[x].computed,
         req'[x].placeholders = req[x].placeholders,
         x \in DOMAIN step' <=> x \in DOMAIN step,
         x \in DOMAIN step => step'[x] = step[x] /\ fresh \subseteq fresh',
         \A y \in Requests \ {x} : \A b \in Held(mgr'[y].blocks) :
           \/ b \notin Held(List(x)) \/ b \in Held(List(y))
           \/ pool[b].hash # Nothing /\ pool[b].hash \notin fresh,
         \A b \in Held(List(x)) :
           pool'[b].hash = pool[b].hash \/ \E y \in Requests \ {x} : b \in Held(List(y))
  PROVE  /\ Laid(List(x), worker[x].table, worker[x].pos, SureOf(x), Top(x), Lacks(x))'
         /\ OwnsAhead(x)'
<1>1. /\ List(x)' = List(x) /\ worker'[x] = worker[x]
      /\ SureOf(x)' = SureOf(x) /\ Top(x)' = Top(x) /\ (x \in DOMAIN step => Sure(x)' = Sure(x))
  BY DEF List, SureOf, Sure, Top
<1>2. Lacks(x)' = Lacks(x)
  BY <1>1 DEF Lacks
<1>3. Laid(List(x), worker[x].table, worker[x].pos, SureOf(x), Top(x), Lacks(x)) /\ OwnsAhead(x)
  BY DEF Lists
<1>4. Laid(List(x), worker[x].table, worker[x].pos, SureOf(x), Top(x), Lacks(x))'
  BY <1>1, <1>2, <1>3 DEF Laid, End, Cdiv
<1>5. ASSUME NEW i \in 1 .. Len(List(x)), List(x)[i] # Null, End(i) > worker[x].pos
      PROVE  /\ \A y \in Requests \ {x} : List(x)[i] \notin Held(mgr'[y].blocks)
             /\ \/ pool'[List(x)[i]].hash = Nothing
                \/ /\ x \in DOMAIN step' /\ End(i) = Sure(x)'
                   /\ pool'[List(x)[i]].hash = After(x, End(i))
                   /\ pool'[List(x)[i]].hash \in fresh'
  <2> DEFINE b == List(x)[i]
  <2>1. /\ \A y \in Requests \ {x} : b \notin Held(List(y))
        /\ pool[b].hash = Nothing \/ Marked(x, i, b)
    BY <1>3, <1>5 DEF OwnsAhead
  <2>2. b \in Held(List(x))
    <3>1. i \in DOMAIN List(x)
      BY <1>5, MgrFields, HeldInBlocks DEF Shape, List
    <3> QED
      BY <1>5, <3>1 DEF Held
  <2>3. pool'[b].hash = pool[b].hash
    BY <2>1, <2>2
  <2>4. \A y \in Requests \ {x} : b \notin Held(mgr'[y].blocks)
    BY <2>1, <2>2 DEF Marked
  <2> HIDE DEF b
  <2>5. pool'[b].hash = Nothing
        \/ /\ x \in DOMAIN step' /\ End(i) = Sure(x)'
           /\ pool'[b].hash = After(x, End(i)) /\ pool'[b].hash \in fresh'
    BY <1>1, <2>1, <2>3 DEF Marked
  <2> QED
    BY <2>4, <2>5 DEF b
<1>6. OwnsAhead(x)'
  BY <1>1, <1>5 DEF OwnsAhead, Marked, List, End, After
<1> QED
  BY <1>4, <1>6

-----------------------------------------------------------------------------
LEMMA PoolHashes ==
  ASSUME NEW p \in [Blocks -> PoolEntry], NEW S, NEW b \in Blocks
  PROVE  /\ Release(p, S)[b].hash = p[b].hash
         /\ Touch(p, S)[b].hash = p[b].hash
         /\ Take(p, S)[b].hash = IF b \in S THEN Nothing ELSE p[b].hash
<1>1. p[b] \in PoolEntry
  OBVIOUS
<1>2. /\ Release(p, S)[b] = IF b \in S THEN [p[b] EXCEPT !.ref = @ - 1] ELSE p[b]
      /\ Touch(p, S)[b] = IF b \in S THEN [p[b] EXCEPT !.ref = @ + 1] ELSE p[b]
      /\ Take(p, S)[b] = IF b \in S THEN [ref |-> 1, hash |-> Nothing] ELSE p[b]
  BY DEF Release, Touch, Take
<1>3. [p[b] EXCEPT !.ref = @ - 1].hash = p[b].hash /\ [p[b] EXCEPT !.ref = @ + 1].hash = p[b].hash
  BY <1>1 DEF PoolEntry
<1>4. Take(p, S)[b].hash = IF b \in S THEN Nothing ELSE p[b].hash
  BY <1>2
<1> QED
  BY <1>2, <1>3, <1>4

LEMMA InitLists == Init => Lists
<1> SUFFICES ASSUME Init PROVE Lists
  OBVIOUS
<1>1. \A r \in Requests : mgr[r] = NoBlocks /\ req[r].status = "new"
  BY DEF Init, NewReq
<1> QED
  BY <1>1 DEF Lists, NoBlocks

(* What an output's tokens change: the counters advance together, and the  *)
(* states hashed are those of tokens the runner has computed.              *)
LEMMA TokensTaken ==
  ASSUME BlockInv, NEW r \in Requests, UpdateTokens(r)
  PROVE  /\ step' = step /\ DOMAIN step = {} /\ content' = content
         /\ \A x \in Requests : x # r =>
              req'[x] = req[x] /\ worker'[x] = worker[x] /\ mgr'[x] = mgr[x]
         /\ \E tokens \in Int, p \in [Blocks -> PoolEntry] :
              /\ req[r].status = "running" => tokens <= worker[r].pos
              /\ req[r].status # "running" => tokens = 0
              /\ p = Hashed(pool, r, List(r), mgr[r].cached, tokens)
              /\ fresh' = fresh \union NewHashes(r, List(r), mgr[r].cached, tokens)
              /\ \/ /\ req'[r].status = "finished" /\ mgr'[r] = NoBlocks
                    /\ pool' = Release(p, Held(List(r)))
                 \/ /\ req'[r].status = req[r].status /\ mgr'[r].blocks = List(r)
                    /\ mgr'[r].cached = Larger(mgr[r].cached, tokens \div BlockSize)
                    /\ worker'[r] = worker[r] /\ pool' = p
                    /\ req[r].status = "running" =>
                         /\ req'[r].computed \in Int /\ req'[r].computed <= req[r].computed
                         /\ Lag(req'[r]) <= 1
<1> DEFINE f == Head(flights)
           d == DrainedReq(req[r], f[r])
           room == Prompt[r] + MaxNew - req[r].tokens
           after(k) == [d EXCEPT !.tokens = @ + k,
                                 !.placeholders = IF req[r].stale > 0 THEN @ ELSE @ - k]
           tokens(k) == IF after(k).status = "running"
                          THEN after(k).computed - after(k).placeholders ELSE 0
           p(k) == Hashed(pool, r, List(r), mgr[r].cached, tokens(k))
<1>1. /\ NextOutput(r) /\ step' = step /\ content' = content
      /\ req[r].status # "finished" /\ f[r].sampled > 0 /\ r \in DOMAIN f
  BY DEF UpdateTokens, passVars, NextOutput
<1>2. PICK k \in 1 .. Smaller(f[r].sampled, room), eos \in BOOLEAN :
        /\ k < Smaller(f[r].sampled, room) => eos
        /\ fresh' = fresh \union NewHashes(r, List(r), mgr[r].cached, tokens(k))
        /\ IF eos \/ k = room
             THEN /\ req' = [req EXCEPT ![r] = [NewReq EXCEPT !.status = "finished"]]
                  /\ mgr' = [mgr EXCEPT ![r] = NoBlocks]
                  /\ worker' = [worker EXCEPT ![r] = NoRow]
                  /\ pool' = Release(p(k), Held(List(r)))
             ELSE /\ req' = [req EXCEPT ![r] = after(k)] /\ worker' = worker
                  /\ mgr' = [mgr EXCEPT ![r].cached = Larger(@, tokens(k) \div BlockSize)]
                  /\ pool' = p(k)
  BY DEF UpdateTokens, List
<1>3. /\ Shape /\ Rows /\ InPass /\ CounterInv /\ References /\ req \in [Requests -> Req]
      /\ req[r] \in Req /\ mgr \in [Requests -> Mgr] /\ mgr[r].cached \in Int
      /\ Balanced(flights, req[r], worker[r].pos, r)
      /\ \A i \in 1 .. Len(flights) : Proper(flights[i])
  BY MgrFields DEF BlockInv, RefInv, CounterInv, Counters, ServingInv, Shape, Rows
<1>4. DOMAIN step = {}
  BY <1>1, <1>3 DEF NextOutput, InPass
<1>5. Proper(f) /\ \A t \in Amount : Owed(flights, r, t) =>
                      AtMost(Share(f, r), t) /\ Share(f, r) \in Amount
  BY <1>1, <1>3, OutputPaid
<1>6. PICK t \in Amount : Owed(flights, r, t) /\ Ahead(req[r], worker[r].pos, t)
  BY <1>1, <1>3 DEF Balanced
<1>7. /\ f[r].n \in Nat /\ f[r].rejected \in Nat /\ f[r].sampled \in Nat
      /\ t.kept \in Nat /\ t.rejected \in Nat /\ t.sampled \in Nat
      /\ f[r].rejected <= t.rejected /\ f[r].sampled <= t.sampled
  <2>1. Share(f, r).rejected = f[r].rejected /\ Share(f, r).sampled = f[r].sampled
    BY <1>1 DEF Share
  <2>2. AtMost(Share(f, r), t)
    BY <1>5, <1>6
  <2>3. f[r].n \in Nat /\ f[r].rejected \in Nat /\ f[r].sampled \in Nat
    BY <1>1, <1>5 DEF Proper
  <2> QED
    BY <2>1, <2>2, <2>3 DEF AtMost, Amount
<1>8. /\ d \in Req /\ d.status = req[r].status /\ d.tokens = req[r].tokens
      /\ d.computed = (IF req[r].stale = 0 /\ req[r].computed > 0
                         THEN req[r].computed - f[r].rejected ELSE req[r].computed)
      /\ d.placeholders = (IF req[r].stale = 0 /\ req[r].placeholders > 0
                             THEN req[r].placeholders - f[r].rejected ELSE req[r].placeholders)
  BY <1>1, <1>3, OutputType, DrainedType, DrainedFields
<1>9. d.tokens \in Int /\ d.computed \in Int /\ d.placeholders \in Int
  BY <1>8 DEF Req
<1>10. room \in Int /\ k \in Int /\ k >= 1 /\ k <= f[r].sampled
  <2>1. Prompt[r] \in Int /\ MaxNew \in Int /\ req[r].tokens \in Int
    BY <1>3, ServingAssumption DEF Req
  <2>2. room \in Int
    BY <2>1
  <2> HIDE DEF room, f
  <2> QED
    BY <1>2, <1>7, <2>2 DEF Smaller
<1> DEFINE q == after(k)
<1>11. /\ q.status = d.status /\ q.computed = d.computed /\ q.tokens = d.tokens + k
       /\ q.placeholders = (IF req[r].stale > 0 THEN d.placeholders ELSE d.placeholders - k)
  <2> HIDE DEF d, room
  <2>1. DOMAIN d = {"status", "tokens", "computed", "placeholders", "spec", "inflight", "stale",
                    "chunk"}
    BY <1>8 DEF Req
  <2> QED
    BY <2>1
<1> HIDE DEF d, after
<1>12. req[r].status = "running" =>
         /\ tokens(k) <= worker[r].pos
         /\ q.computed \in Int /\ q.computed <= req[r].computed /\ Lag(q) <= 1
  <2> HIDE DEF f, room, q
  <2> SUFFICES ASSUME req[r].status = "running"
               PROVE  /\ tokens(k) <= worker[r].pos
                      /\ q.computed \in Int /\ q.computed <= req[r].computed /\ Lag(q) <= 1
    OBVIOUS
  <2>1. /\ req[r].stale = 0 /\ t.rejected = req[r].computed - worker[r].pos
        /\ req[r].placeholders = t.sampled + t.rejected
        /\ Lag(req[r]) > 1 => req[r].placeholders = 0
    BY <1>6 DEF Ahead
  <2>2. /\ req[r].tokens \in Int /\ req[r].computed \in Int /\ req[r].placeholders \in Int
        /\ worker[r].pos \in Int /\ worker[r].pos >= 0 /\ Lag(req[r]) \in Int
    BY <1>3, RunningCounts
  <2>3. req[r].placeholders > 0 /\ t.sampled > 0
    BY <1>1, <1>7, <2>1 DEF f
  <2>4. q.placeholders = (req[r].placeholders - f[r].rejected) - k
    BY <1>8, <1>11, <2>1, <2>3
  <2>5. q.computed = req[r].computed - f[r].rejected
    <3>1. CASE req[r].computed > 0
      BY <1>8, <1>11, <2>1, <3>1
    <3>2. CASE ~(req[r].computed > 0)
      <4>1. f[r].rejected = 0 /\ req[r].computed - 0 = req[r].computed
        BY <1>7, <2>1, <2>2, <3>2
      <4>2. q.computed = req[r].computed
        BY <1>8, <1>11, <3>2
      <4> QED
        BY <4>1, <4>2
    <3> QED
      BY <3>1, <3>2
  <2>6. q.tokens = req[r].tokens + k
    BY <1>8, <1>11
  <2>7. Lag(q) = Lag(req[r])
    BY <1>7, <1>10, <2>2, <2>4, <2>5, <2>6 DEF Lag
  <2>8. tokens(k) = q.computed - q.placeholders
    BY <1>8, <1>11 DEF q
  <2>9. tokens(k) <= worker[r].pos
    BY <1>7, <1>10, <2>1, <2>2, <2>4, <2>5, <2>8
  <2>10. q.computed \in Int /\ q.computed <= req[r].computed
    BY <1>7, <2>2, <2>5
  <2>11. Lag(q) <= 1
    BY <2>1, <2>2, <2>3, <2>7
  <2> QED
    BY <2>9, <2>10, <2>11
<1>13. tokens(k) \in Int
  <2>1. q.computed \in Int /\ q.placeholders \in Int
    BY <1>9, <1>10, <1>11
  <2> HIDE DEF q
  <2> QED
    BY <2>1 DEF q
<1>20. req[r].status # "running" => tokens(k) = 0
  BY <1>8, <1>11 DEF q
<1> DEFINE u == tokens(k)
           v == p(k)
<1> HIDE DEF tokens
<1>14. v \in [Blocks -> PoolEntry] /\ v = Hashed(pool, r, List(r), mgr[r].cached, u)
  <2>1. pool \in [Blocks -> PoolEntry] /\ Counted(pool, HeldByAll(mgr))
    BY <1>3 DEF References
  <2> DEFINE c == mgr[r].cached
             H == HeldByAll(mgr)
  <2>2. c \in Int /\ u \in Int /\ Counted(pool, H)
    BY <1>3, <1>13, <2>1
  <2> HIDE DEF c, H, u
  <2>3. Hashed(pool, r, List(r), c, u) \in [Blocks -> PoolEntry]
    BY <2>1, <2>2, HashedCounted
  <2> QED
    BY <2>3 DEF c, u
<1> HIDE DEF p, q, room, f
<1>15. /\ \A x \in Requests : x # r =>
            req'[x] = req[x] /\ worker'[x] = worker[x] /\ mgr'[x] = mgr[x]
       /\ \/ /\ req'[r].status = "finished" /\ mgr'[r] = NoBlocks
             /\ pool' = Release(v, Held(List(r)))
          \/ /\ req'[r] = q
             /\ mgr'[r].blocks = List(r) /\ mgr'[r].cached = Larger(mgr[r].cached, u \div BlockSize)
             /\ worker'[r] = worker[r] /\ pool' = v
  <2>1. CASE eos \/ k = room
    <3>1. req'[r].status = "finished" /\ mgr'[r] = NoBlocks /\ pool' = Release(v, Held(List(r)))
      BY <1>2, <1>3, <2>1 DEF NewReq
    <3>2. \A x \in Requests : x # r =>
            req'[x] = req[x] /\ worker'[x] = worker[x] /\ mgr'[x] = mgr[x]
      BY <1>2, <1>3, <2>1 DEF Rows
    <3> QED
      BY <3>1, <3>2
  <2>2. CASE ~(eos \/ k = room)
    <3> DEFINE c == Larger(mgr[r].cached, u \div BlockSize)
    <3>1. /\ req' = [req EXCEPT ![r] = q] /\ worker' = worker /\ pool' = v
          /\ mgr' = [mgr EXCEPT ![r] = [mgr[r] EXCEPT !.cached = c]]
      BY <1>2, <1>3, <2>2 DEF q
    <3> HIDE DEF c
    <3>2. mgr[r] \in Mgr
      BY <1>3
    <3>3. [mgr[r] EXCEPT !.cached = c].blocks = List(r) /\ [mgr[r] EXCEPT !.cached = c].cached = c
      BY <3>2 DEF Mgr, List
    <3> QED
      BY <1>3, <3>1, <3>3 DEF c
  <2> QED
    BY <2>1, <2>2
<1> HIDE DEF v
<1>16. q.status = req[r].status /\ fresh' = fresh \union NewHashes(r, List(r), mgr[r].cached, u)
  BY <1>2, <1>8, <1>11 DEF q
<1> DEFINE result(tk, pl) ==
              /\ req[r].status = "running" => tk <= worker[r].pos
              /\ req[r].status # "running" => tk = 0
              /\ pl = Hashed(pool, r, List(r), mgr[r].cached, tk)
              /\ fresh' = fresh \union NewHashes(r, List(r), mgr[r].cached, tk)
              /\ \/ /\ req'[r].status = "finished" /\ mgr'[r] = NoBlocks
                    /\ pool' = Release(pl, Held(List(r)))
                 \/ /\ req'[r].status = req[r].status /\ mgr'[r].blocks = List(r)
                    /\ mgr'[r].cached = Larger(mgr[r].cached, tk \div BlockSize)
                    /\ worker'[r] = worker[r] /\ pool' = pl
                    /\ req[r].status = "running" =>
                         /\ req'[r].computed \in Int /\ req'[r].computed <= req[r].computed
                         /\ Lag(req'[r]) <= 1
<1>17. result(u, v)
  BY <1>12, <1>14, <1>15, <1>16, <1>20 DEF q
<1>18. u \in Int /\ v \in [Blocks -> PoolEntry]
  BY <1>13, <1>14
<1> HIDE DEF u
<1>19. \E tk \in Int, pl \in [Blocks -> PoolEntry] : result(tk, pl)
  <2> HIDE DEF result
  <2> QED
    BY <1>17, <1>18
<1> QED
  BY <1>1, <1>4, <1>15, <1>19

(* A step that changes no list, row, block or state, and no token count of *)
(* a running request.                                                      *)
Unmoved ==
  /\ mgr' = mgr /\ pool' = pool /\ worker' = worker /\ content' = content
  /\ \A x \in Requests : req'[x].status = "running" =>
       /\ req[x].status = "running" /\ req'[x].tokens = req[x].tokens
       /\ req'[x].computed = req[x].computed
       /\ req'[x].placeholders = req[x].placeholders
  /\ step' = step \/ (DOMAIN step = {} /\ DOMAIN step' = {})
  /\ fresh \subseteq fresh' \/ DOMAIN step = {}

LEMMA ChunkUnmoved ==
  ASSUME CounterInv, NEW r \in Requests, UpdateChunk(r)
  PROVE  Unmoved
<1> DEFINE f == Head(flights)
           d == DrainedReq(req[r], f[r])
<1>1. /\ Shape /\ req \in [Requests -> Req] /\ req[r] \in Req
      /\ \A i \in 1 .. Len(flights) : Proper(flights[i])
  BY DEF CounterInv, Counters, ServingInv, Shape
<1>2. /\ NextOutput(r) /\ f[r].sampled = 0 /\ req' = [req EXCEPT ![r] = d]
      /\ mgr' = mgr /\ pool' = pool /\ worker' = worker /\ step' = step /\ fresh' = fresh
      /\ content' = content
  BY DEF UpdateChunk, passVars
<1>3. r \in DOMAIN f /\ Proper(f)
  BY <1>1, <1>2, OutputPaid DEF NextOutput
<1>4. f[r].rejected = 0
  BY <1>2, <1>3 DEF Proper
<1>5. req[r].computed \in Int /\ req[r].placeholders \in Int
  BY <1>1, ReqFields
<1>6. /\ d.status = req[r].status /\ d.tokens = req[r].tokens
      /\ d.computed = (IF req[r].stale = 0 /\ req[r].computed > 0
                         THEN req[r].computed - f[r].rejected ELSE req[r].computed)
      /\ d.placeholders = (IF req[r].stale = 0 /\ req[r].placeholders > 0
                             THEN req[r].placeholders - f[r].rejected ELSE req[r].placeholders)
  BY <1>1, DrainedFields
<1> HIDE DEF d, f
<1>7. d.computed = req[r].computed /\ d.placeholders = req[r].placeholders
  BY <1>4, <1>5, <1>6
<1>8. \A x \in Requests : req'[x] = IF x = r THEN d ELSE req[x]
  BY <1>1, <1>2
<1>9. \A x \in Requests :
        /\ req'[x].status = req[x].status /\ req'[x].tokens = req[x].tokens
        /\ req'[x].computed = req[x].computed /\ req'[x].placeholders = req[x].placeholders
  BY <1>6, <1>7, <1>8
<1> QED
  BY <1>2, <1>9 DEF Unmoved

LEMMA QuietUnmoved ==
  ASSUME CounterInv,
         \/ StartPass \/ SkipRunning \/ EndRunning \/ EndAdmission \/ DispatchNothing
         \/ AllDone \/ UNCHANGED vars
         \/ \E r \in Requests : Arrive(r) \/ UpdateGone(r) \/ UpdateChunk(r)
  PROVE  Unmoved
<1>1. Shape /\ req \in [Requests -> Req] /\ InPass
  BY DEF CounterInv, Counters, ServingInv, Shape
<1>2. CASE StartPass
  <2>1. DOMAIN step = {}
    BY <1>1, <1>2 DEF StartPass, InPass
  <2> QED
    BY <1>1, <1>2, <2>1 DEF Unmoved, StartPass, passVars
<1>3. CASE SkipRunning \/ EndRunning \/ EndAdmission \/ UNCHANGED vars \/ AllDone
  BY <1>1, <1>3
     DEF Unmoved, SkipRunning, EndRunning, EndAdmission, AllDone, vars, passVars
<1>4. CASE DispatchNothing
  BY <1>1, <1>4 DEF Unmoved, DispatchNothing, ResetPass
<1>5. ASSUME NEW r \in Requests, UpdateGone(r) PROVE Unmoved
  BY <1>1, <1>5 DEF Unmoved, UpdateGone, passVars
<1>6. ASSUME NEW r \in Requests, Arrive(r) PROVE Unmoved
  <2>1. req' = [req EXCEPT ![r] = [req[r] EXCEPT !.status = "waiting"]]
    BY <1>6 DEF Arrive
  <2> DEFINE q == [req[r] EXCEPT !.status = "waiting"]
  <2>2. q.status = "waiting"
    BY <1>1 DEF Req
  <2> HIDE DEF q
  <2>3. \A x \in Requests : req'[x] = IF x = r THEN q ELSE req[x]
    BY <1>1, <2>1 DEF q
  <2>4. \A x \in Requests : req'[x].status = "running" => req'[x] = req[x]
    BY <2>2, <2>3
  <2> QED
    BY <1>1, <1>6, <2>4 DEF Unmoved, Arrive, passVars
<1> QED
  BY <1>2, <1>3, <1>4, <1>5, <1>6, ChunkUnmoved

LEMMA SameLists ==
  ASSUME Shape, Lists, Unmoved
  PROVE  Lists'
<1>1. \A x \in Requests : mgr'[x].cached \in Nat
  BY DEF Lists, Unmoved
<1>2. ASSUME NEW x \in Requests, req'[x].status = "running"
      PROVE  /\ Laid(List(x), worker[x].table, worker[x].pos, SureOf(x), Top(x), Lacks(x))'
             /\ OwnsAhead(x)'
  <2>1. /\ req[x].status = "running" /\ mgr'[x].blocks = mgr[x].blocks /\ worker'[x] = worker[x]
        /\ req'[x].tokens = req[x].tokens /\ req'[x].computed = req[x].computed
        /\ req'[x].placeholders = req[x].placeholders
    BY <1>2 DEF Unmoved
  <2>2. x \in DOMAIN step' <=> x \in DOMAIN step
    BY DEF Unmoved
  <2>3. x \in DOMAIN step => step'[x] = step[x] /\ fresh \subseteq fresh'
    BY DEF Unmoved
  <2>4. \A y \in Requests \ {x} : \A b \in Held(mgr'[y].blocks) : b \in Held(List(y))
    BY DEF List, Unmoved
  <2>5. \A b \in Held(List(x)) : pool'[b].hash = pool[b].hash
    BY DEF Unmoved
  <2> QED
    BY <2>1, <2>2, <2>3, <2>4, <2>5, OthersKeep
<1> QED
  BY <1>1, <1>2 DEF Lists

(* A request's blocks go back: the others keep theirs.                     *)
LEMMA AbortLists ==
  ASSUME BlockInv, NEW r \in Requests, Abort(r)
  PROVE  Lists'
<1>1. /\ Shape /\ Lists /\ req \in [Requests -> Req] /\ mgr \in [Requests -> Mgr] /\ Rows
      /\ pool \in [Blocks -> PoolEntry]
  BY DEF BlockInv, RefInv, References, CounterInv, Counters, ServingInv, Shape
<1>2. /\ req' = [req EXCEPT ![r] = [NewReq EXCEPT !.status = "finished"]]
      /\ mgr' = [mgr EXCEPT ![r] = NoBlocks] /\ worker' = [worker EXCEPT ![r] = NoRow]
      /\ pool' = Release(pool, Held(mgr[r].blocks)) /\ step' = step /\ fresh' = fresh
  BY DEF Abort, passVars
<1>3. /\ req'[r].status = "finished" /\ mgr'[r] = NoBlocks
      /\ \A x \in Requests : x # r =>
           req'[x] = req[x] /\ mgr'[x] = mgr[x] /\ worker'[x] = worker[x]
  BY <1>1, <1>2 DEF NewReq, Rows
<1>4. \A x \in Requests : mgr'[x].cached \in Nat
  <2>1. mgr'[r].cached = 0
    BY <1>3 DEF NoBlocks
  <2> QED
    BY <1>1, <1>3, <2>1 DEF Lists
<1>5. Held(mgr'[r].blocks) = {}
  BY <1>3, EmptyList
<1>6. \A b \in Blocks : pool'[b].hash = pool[b].hash
  BY <1>1, <1>2, PoolHashes
<1>7. ASSUME NEW x \in Requests, req'[x].status = "running"
      PROVE  /\ Laid(List(x), worker[x].table, worker[x].pos, SureOf(x), Top(x), Lacks(x))'
             /\ OwnsAhead(x)'
  <2>1. /\ x # r /\ req[x].status = "running" /\ mgr'[x].blocks = mgr[x].blocks
        /\ worker'[x] = worker[x] /\ req'[x].tokens = req[x].tokens
        /\ req'[x].computed = req[x].computed /\ req'[x].placeholders = req[x].placeholders
    BY <1>3, <1>7
  <2>2. \A y \in Requests \ {x} : \A b \in Held(mgr'[y].blocks) : b \in Held(List(y))
    BY <1>3, <1>5 DEF List
  <2>3. Held(List(x)) \subseteq Blocks
    BY <1>1, HeldInBlocks, MgrFields DEF List
  <2>4. \A b \in Held(List(x)) : pool'[b].hash = pool[b].hash
    BY <1>6, <2>3
  <2> QED
    BY <1>1, <1>2, <2>1, <2>2, <2>4, OthersKeep
<1> QED
  BY <1>4, <1>7 DEF Lists

(* An output's tokens: states behind the runner's position are hashed, and *)
(* a request that has ended gives its blocks back.                         *)
LEMMA TokensHashed ==
  ASSUME BlockInv, NEW r \in Requests, UpdateTokens(r), NEW b \in Blocks
  PROVE  \/ pool'[b].hash = pool[b].hash
         \/ \E i \in 1 .. Len(List(r)) :
              /\ req[r].status = "running" /\ List(r)[i] = b /\ b # Null
              /\ End(i) <= worker[r].pos /\ pool'[b].hash = After(r, End(i))
<1>1. /\ Shape /\ Lists /\ CounterInv /\ req \in [Requests -> Req] /\ mgr \in [Requests -> Mgr]
      /\ pool \in [Blocks -> PoolEntry] /\ NoneTwice(List(r))
      /\ req[r].status # "running" => List(r) = <<>>
  BY DEF BlockInv, RefInv, References, CounterInv, Counters, ServingInv, Shape, List
<1>2. /\ step' = step /\ DOMAIN step = {}
      /\ \A x \in Requests : x # r =>
           req'[x] = req[x] /\ worker'[x] = worker[x] /\ mgr'[x] = mgr[x]
  BY TokensTaken
<1>3. PICK tokens \in Int, p \in [Blocks -> PoolEntry] :
        /\ req[r].status = "running" => tokens <= worker[r].pos
        /\ req[r].status # "running" => tokens = 0
        /\ p = Hashed(pool, r, List(r), mgr[r].cached, tokens)
        /\ fresh' = fresh \union NewHashes(r, List(r), mgr[r].cached, tokens)
        /\ \/ /\ req'[r].status = "finished" /\ mgr'[r] = NoBlocks
              /\ pool' = Release(p, Held(List(r)))
           \/ /\ req'[r].status = req[r].status /\ mgr'[r].blocks = List(r)
              /\ mgr'[r].cached = Larger(mgr[r].cached, tokens \div BlockSize)
              /\ worker'[r] = worker[r] /\ pool' = p
              /\ req[r].status = "running" =>
                   /\ req'[r].computed \in Int /\ req'[r].computed <= req[r].computed
                   /\ Lag(req'[r]) <= 1
  BY TokensTaken
<1> DEFINE B == List(r)
           c == mgr[r].cached
<1>4. /\ B \in Seq(AllBlocks) /\ Len(B) \in Nat /\ Held(B) \subseteq Blocks /\ DOMAIN B = 1 .. Len(B)
      /\ c \in Nat /\ c \in Int
  BY <1>1, MgrFields, HeldInBlocks DEF Lists, List
<1>5. ASSUME req[r].status = "running"
      PROVE  /\ worker[r].pos \in Int /\ tokens <= worker[r].pos
             /\ worker[r].pos <= req[r].computed /\ req[r].computed \in Int
             /\ NumSpec \in Nat /\ Len(B) >= NumSpec + Cdiv(req[r].computed)
             /\ Cdiv(req[r].computed) \in Int
             /\ Laid(B, worker[r].table, worker[r].pos, worker[r].pos, req[r].computed, Lacks(r))
  <2>1. /\ worker[r].pos \in Int /\ worker[r].pos <= req[r].computed /\ req[r].computed \in Int
        /\ NumSpec \in Nat
    BY <1>1, <1>5, RunningCounts
  <2>2. Laid(B, worker[r].table, worker[r].pos, SureOf(r), Top(r), Lacks(r))
    BY <1>1, <1>5 DEF Lists
  <2>3. SureOf(r) = worker[r].pos /\ Top(r) = req[r].computed
    BY <1>2 DEF SureOf, Top
  <2>4. Laid(B, worker[r].table, worker[r].pos, worker[r].pos, req[r].computed, Lacks(r))
    BY <2>2, <2>3
  <2>5. Cdiv(req[r].computed) \in Int
    BY <2>1, CdivInt
  <2> QED
    BY <1>3, <1>5, <2>1, <2>4, <2>5 DEF Laid
<1> HIDE DEF B, c
<1>6. ASSUME NEW i \in Filled(B, c, tokens)
      PROVE  i \in 1 .. Len(B) /\ req[r].status = "running"
  <2>1. tokens \div BlockSize \in Int /\ i \in c + 1 .. tokens \div BlockSize
    BY <1>6, DivEnd DEF Filled
  <2>2. i \in Int /\ i >= 1 /\ i <= tokens \div BlockSize
    BY <1>4, <2>1
  <2>3. End(i) <= tokens /\ End(i) \in Int
    BY <2>1, <2>2, DivEnd, EndInt
  <2>4. req[r].status = "running"
    <3> SUFFICES ASSUME tokens = 0 PROVE FALSE
      BY <1>3
    <3>1. End(0) + BlockSize <= End(i) /\ End(0) = 0
      BY <2>2, EndOrder
    <3> QED
      BY <2>3, <3>1, ManagerAssumption
  <2>5. i <= Len(B)
    <3>1. ~(Cdiv(req[r].computed) < i)
      <4> SUFFICES ASSUME Cdiv(req[r].computed) <= i - 1 PROVE FALSE
        BY <1>5, <2>2, <2>4
      <4> DEFINE n == req[r].computed
                 j == i - 1
      <4>0. n \in Int /\ j \in Int /\ Cdiv(n) <= j
        BY <1>5, <2>2, <2>4
      <4> HIDE DEF n, j
      <4>3. n <= End(j) /\ End(j) \in Int
        BY <4>0, CdivEnd, EndInt
      <4>1. req[r].computed <= End(i - 1) /\ End(i - 1) \in Int
        BY <4>3 DEF n, j
      <4>2. End(i - 1) + BlockSize <= End(i)
        BY <2>2, EndOrder
      <4> QED
        BY <1>5, <2>3, <2>4, <4>1, <4>2, ManagerAssumption
    <3> QED
      BY <1>4, <1>5, <2>2, <2>4, <3>1
  <2> QED
    BY <1>4, <2>2, <2>4, <2>5
<1>7. pool'[b].hash = p[b].hash
  BY <1>3, PoolHashes
<1>8. p = Hashed(pool, r, B, c, tokens)
  BY <1>3 DEF B, c
<1>9. \/ p[b] = pool[b]
      \/ \E i \in Int : /\ i \in Filled(B, c, tokens) /\ End(i) <= tokens /\ B[i] = b
                        /\ p[b].hash = After(r, End(i))
  BY <1>1, <1>4, <1>8, HashedEntry
<1>10. ASSUME NEW i \in Int, i \in Filled(B, c, tokens), End(i) <= tokens
       PROVE  i \in 1 .. Len(B) /\ req[r].status = "running" /\ End(i) <= worker[r].pos
  <2>1. i \in 1 .. Len(B) /\ req[r].status = "running"
    BY <1>6, <1>10
  <2>2. End(i) \in Int
    BY EndInt
  <2> QED
    BY <1>5, <1>10, <2>1, <2>2
<1>11. b # Null
  BY ServingAssumption
<1> QED
  BY <1>7, <1>9, <1>10, <1>11 DEF B

LEMMA UpdateTokensLists ==
  ASSUME BlockInv, NEW r \in Requests, UpdateTokens(r)
  PROVE  Lists'
<1>1. /\ Shape /\ Lists /\ CounterInv /\ req \in [Requests -> Req] /\ mgr \in [Requests -> Mgr]
      /\ pool \in [Blocks -> PoolEntry] /\ NoneTwice(List(r))
      /\ req[r].status # "running" => List(r) = <<>>
  BY DEF BlockInv, RefInv, References, CounterInv, Counters, ServingInv, Shape, List
<1>2. /\ step' = step /\ DOMAIN step = {}
      /\ \A x \in Requests : x # r =>
           req'[x] = req[x] /\ worker'[x] = worker[x] /\ mgr'[x] = mgr[x]
  BY TokensTaken
<1>3. PICK tokens \in Int, p \in [Blocks -> PoolEntry] :
        /\ req[r].status = "running" => tokens <= worker[r].pos
        /\ req[r].status # "running" => tokens = 0
        /\ p = Hashed(pool, r, List(r), mgr[r].cached, tokens)
        /\ fresh' = fresh \union NewHashes(r, List(r), mgr[r].cached, tokens)
        /\ \/ /\ req'[r].status = "finished" /\ mgr'[r] = NoBlocks
              /\ pool' = Release(p, Held(List(r)))
           \/ /\ req'[r].status = req[r].status /\ mgr'[r].blocks = List(r)
              /\ mgr'[r].cached = Larger(mgr[r].cached, tokens \div BlockSize)
              /\ worker'[r] = worker[r] /\ pool' = p
              /\ req[r].status = "running" =>
                   /\ req'[r].computed \in Int /\ req'[r].computed <= req[r].computed
                   /\ Lag(req'[r]) <= 1
  BY TokensTaken
<1> DEFINE B == List(r)
           c == mgr[r].cached
<1>4. /\ B \in Seq(AllBlocks) /\ Len(B) \in Nat /\ Held(B) \subseteq Blocks /\ DOMAIN B = 1 .. Len(B)
      /\ c \in Nat /\ c \in Int
  BY <1>1, MgrFields, HeldInBlocks DEF Lists, List
<1>5. ASSUME req[r].status = "running"
      PROVE  /\ worker[r].pos \in Int /\ tokens <= worker[r].pos
             /\ worker[r].pos <= req[r].computed /\ req[r].computed \in Int
             /\ NumSpec \in Nat /\ Len(B) >= NumSpec + Cdiv(req[r].computed)
             /\ Cdiv(req[r].computed) \in Int
             /\ Laid(B, worker[r].table, worker[r].pos, worker[r].pos, req[r].computed, Lacks(r))
  <2>1. /\ worker[r].pos \in Int /\ worker[r].pos <= req[r].computed /\ req[r].computed \in Int
        /\ NumSpec \in Nat
    BY <1>1, <1>5, RunningCounts
  <2>2. Laid(B, worker[r].table, worker[r].pos, SureOf(r), Top(r), Lacks(r))
    BY <1>1, <1>5 DEF Lists
  <2>3. SureOf(r) = worker[r].pos /\ Top(r) = req[r].computed
    BY <1>2 DEF SureOf, Top
  <2>4. Laid(B, worker[r].table, worker[r].pos, worker[r].pos, req[r].computed, Lacks(r))
    BY <2>2, <2>3
  <2>5. Cdiv(req[r].computed) \in Int
    BY <2>1, CdivInt
  <2> QED
    BY <1>3, <1>5, <2>1, <2>4, <2>5 DEF Laid
<1> HIDE DEF B, c
<1>7. ASSUME NEW b \in Blocks
      PROVE  \/ pool'[b].hash = pool[b].hash
             \/ \E i \in 1 .. Len(B) : /\ req[r].status = "running" /\ B[i] = b
                                       /\ End(i) <= worker[r].pos
  BY TokensHashed DEF B
<1>8. Held(mgr'[r].blocks) \subseteq Held(B)
  <2>1. Held(NoBlocks.blocks) = {}
    BY EmptyList
  <2> QED
    BY <1>3, <2>1 DEF B
<1>9. \A x \in Requests : mgr'[x].cached \in Nat
  <2>1. mgr'[r].cached \in Nat
    <3>1. CASE mgr'[r] = NoBlocks
      BY <3>1 DEF NoBlocks
    <3>2. CASE mgr'[r].cached = Larger(c, tokens \div BlockSize)
      <4>1. tokens \div BlockSize \in Int
        BY DivEnd
      <4> QED
        BY <1>4, <3>2, <4>1 DEF Larger
    <3> QED
      BY <1>3, <3>1, <3>2 DEF c
  <2> QED
    BY <1>1, <1>2, <2>1 DEF Lists
<1>10. ASSUME NEW x \in Requests, x # r, req'[x].status = "running"
       PROVE  /\ Laid(List(x), worker[x].table, worker[x].pos, SureOf(x), Top(x), Lacks(x))'
              /\ OwnsAhead(x)'
  <2>1. /\ req[x].status = "running" /\ mgr'[x].blocks = mgr[x].blocks
        /\ worker'[x] = worker[x] /\ req'[x].tokens = req[x].tokens
        /\ req'[x].computed = req[x].computed /\ req'[x].placeholders = req[x].placeholders
    BY <1>2, <1>10
  <2>2. \A y \in Requests \ {x} : \A b \in Held(mgr'[y].blocks) : b \in Held(List(y))
    BY <1>2, <1>8 DEF List, B
  <2>3. Held(List(x)) \subseteq Blocks
    BY <1>1, HeldInBlocks, MgrFields DEF List
  <2>4. \A b \in Held(List(x)) :
          pool'[b].hash = pool[b].hash \/ \E y \in Requests \ {x} : b \in Held(List(y))
    <3> SUFFICES ASSUME NEW b \in Held(List(x)), pool'[b].hash # pool[b].hash
                 PROVE  b \in Held(List(r))
      BY <1>10
    <3>1. PICK i \in 1 .. Len(B) : B[i] = b
      BY <1>7, <2>3
    <3>2. b # Null
      BY <2>3, ServingAssumption
    <3> QED
      BY <1>4, <3>1, <3>2 DEF Held, B
  <2> QED
    BY <1>1, <1>2, <2>1, <2>2, <2>4, OthersKeep
<1>11. ASSUME req'[r].status = "running"
       PROVE  /\ Laid(List(r), worker[r].table, worker[r].pos, SureOf(r), Top(r), Lacks(r))'
              /\ OwnsAhead(r)'
  <2>1. /\ req[r].status = "running" /\ mgr'[r].blocks = B /\ worker'[r] = worker[r]
        /\ req'[r].computed \in Int /\ req'[r].computed <= req[r].computed
        /\ Lag(req'[r]) <= 1
    BY <1>3, <1>11 DEF B
  <2>2. List(r)' = B /\ SureOf(r)' = worker[r].pos /\ Top(r)' = req'[r].computed
        /\ Lacks(r)' = Lag(req'[r])
    <3>1. r \notin DOMAIN step'
      BY <1>2
    <3>2. List(r)' = B /\ SureOf(r)' = worker[r].pos /\ Top(r)' = req'[r].computed
      BY <2>1, <3>1 DEF List, SureOf, Top
    <3> QED
      BY <3>2 DEF Lacks, Lag
  <2>3. Cdiv(req'[r].computed) <= Cdiv(req[r].computed) /\ Cdiv(req'[r].computed) \in Int
    <3> DEFINE n == req[r].computed
               m == req'[r].computed
               j == Cdiv(n)
    <3>1. n \in Int /\ m \in Int /\ j \in Int /\ m <= n /\ j = Cdiv(n)
      BY <1>5, <2>1
    <3> HIDE DEF n, m, j
    <3>2. n <= End(j) /\ End(j) \in Int
      BY <3>1, CdivEnd, EndInt
    <3>3. m <= End(j)
      BY <3>1, <3>2
    <3>4. Cdiv(m) <= j /\ Cdiv(m) \in Int
      BY <3>1, <3>3, CdivEnd
    <3> QED
      BY <3>4 DEF n, m, j
  <2>4. Len(B) >= NumSpec + Cdiv(req'[r].computed)
    BY <1>4, <1>5, <2>1, <2>3
  <2>5. Lag(req'[r]) \in Int
    <3>1. req' \in [Requests -> Req]
      <4>1. ServingInv'
        BY UpdateTokensServing DEF BlockInv, RefInv
      <4> QED
        BY <4>1 DEF ServingInv, Shape
    <3>2. req'[r] \in Req
      BY <3>1
    <3> QED
      BY <3>2 DEF Lag, Req
  <2>6. Laid(B, worker[r].table, worker[r].pos, worker[r].pos, req'[r].computed, Lag(req'[r]))
    <3> DEFINE t == worker[r].table
               w == worker[r].pos
               cc == req'[r].computed
               l == Lag(req'[r])
    <3>1. /\ Laid(B, t, w, w, req[r].computed, Lacks(r)) /\ Len(B) >= NumSpec + Cdiv(cc)
          /\ ~(l > 1)
      BY <1>5, <2>1, <2>4, <2>5
    <3> HIDE DEF t, w, cc, l
    <3>2. Laid(B, t, w, w, cc, l)
      BY <3>1 DEF Laid
    <3> QED
      BY <3>2 DEF t, w, cc, l
  <2>7. Laid(List(r), worker[r].table, worker[r].pos, SureOf(r), Top(r), Lacks(r))'
    <3> DEFINE t == worker[r].table
               w == worker[r].pos
               cc == req'[r].computed
               l == Lag(req'[r])
    <3>1. /\ List(r)' = B /\ worker'[r].table = t /\ worker'[r].pos = w
          /\ SureOf(r)' = w /\ Top(r)' = cc /\ Lacks(r)' = l /\ Laid(B, t, w, w, cc, l)
      BY <2>1, <2>2, <2>6
    <3> HIDE DEF t, w, cc, l
    <3> QED
      BY <3>1 DEF Laid, End, Cdiv
  <2>8. ASSUME NEW i \in 1 .. Len(B), B[i] # Null, End(i) > worker[r].pos
        PROVE  /\ \A x \in Requests \ {r} : B[i] \notin Held(mgr'[x].blocks)
               /\ pool'[B[i]].hash = Nothing
    <3>1. OwnsAhead(r) /\ List(r) = B
      BY <1>1, <2>1 DEF Lists, B
    <3>2. \A x \in Requests \ {r} : B[i] \notin Held(List(x))
      BY <2>8, <3>1 DEF OwnsAhead
    <3>3. pool[B[i]].hash = Nothing
      BY <1>2, <2>8, <3>1 DEF OwnsAhead, Marked
    <3>4. B[i] \in Blocks
      BY <1>4, <2>8 DEF Held
    <3>5. \A j \in 1 .. Len(B) : B[j] = B[i] => j = i
      BY <1>1, <1>4, <2>8 DEF NoneTwice, B
    <3>6. ~\E j \in 1 .. Len(B) : B[j] = B[i] /\ End(j) <= worker[r].pos
      <4> SUFFICES ASSUME NEW j \in 1 .. Len(B), B[j] = B[i], End(j) <= worker[r].pos
                   PROVE  FALSE
        OBVIOUS
      <4>1. j = i
        BY <3>5
      <4>2. End(i) \in Int /\ worker[r].pos \in Int
        BY <1>5, <2>1, EndInt
      <4>3. End(i) <= worker[r].pos
        BY <4>1
      <4> QED
        BY <2>8, <4>2, <4>3
    <3>7. pool'[B[i]].hash = pool[B[i]].hash
      BY <1>7, <3>4, <3>6
    <3>8. \A x \in Requests \ {r} : mgr'[x].blocks = List(x)
      BY <1>2 DEF List
    <3> QED
      BY <3>2, <3>3, <3>7, <3>8
  <2>9. OwnsAhead(r)'
    BY <2>1, <2>2, <2>8 DEF OwnsAhead, List, End
  <2> QED
    BY <2>7, <2>9
<1> QED
  BY <1>9, <1>10, <1>11 DEF Lists

(* The request the running loop is at is not scheduled in this pass yet.   *)
LEMMA CurrentUnscheduled ==
  ASSUME CounterInv, InLoop
  PROVE  Current \notin DOMAIN step
<1>1. Shape /\ Distinct(running) /\ InPass
  BY DEF CounterInv, ServingInv, RunningListed, Counters
<1> SUFFICES ASSUME Current \in DOMAIN step PROVE FALSE
  OBVIOUS
<1>2. PICK i \in 1 .. Len(running) : i < cursor /\ running[i] = running[cursor]
  BY <1>1 DEF InPass, InLoop, Current
<1>3. cursor \in 1 .. Len(running)
  BY <1>1 DEF Shape, InLoop
<1>4. i # cursor
  BY <1>1, <1>2, <1>3 DEF Shape
<1> QED
  BY <1>1, <1>2, <1>3, <1>4 DEF Distinct

(* The sweep of a request nothing is scheduled of leaves the list laid     *)
(* out as it was.                                                          *)
LEMMA SweptLaid ==
  ASSUME BlockInv, NEW r \in Requests, req[r].status = "running", r \notin DOMAIN step
  PROVE  /\ Laid(SweptMgr(r).blocks, worker[r].table, worker[r].pos, worker[r].pos,
                 req[r].computed, Lag(req[r]))
         /\ \A i \in 1 .. Len(SweptMgr(r).blocks) :
              SweptMgr(r).blocks[i] # Null /\ End(i) > worker[r].pos =>
                /\ \A x \in Requests \ {r} : SweptMgr(r).blocks[i] \notin Held(List(x))
                /\ pool[SweptMgr(r).blocks[i]].hash = Nothing
<1> DEFINE B == List(r)
           S == SweptMgr(r).blocks
           w == worker[r].pos
           t == worker[r].table
           n == req[r].computed
           l == Lag(req[r])
<1>1. CounterInv /\ mgr[r].sweep \in Nat
  BY DEF BlockInv, RefInv, References
<1>2. /\ S \in Seq(AllBlocks) /\ Len(S) = Len(B) /\ Len(B) \in Nat
      /\ \A i \in 1 .. Len(B) : /\ S[i] # Null => S[i] = B[i]
                                /\ i >= Cdiv(w) => S[i] = B[i]
  BY <1>1, SweptKept
<1>3. Laid(B, t, w, w, n, l) /\ OwnsAhead(r)
  <2>1. Laid(List(r), worker[r].table, worker[r].pos, SureOf(r), Top(r), Lacks(r)) /\ OwnsAhead(r)
    BY DEF BlockInv, Lists
  <2>2. SureOf(r) = w /\ Top(r) = n
    BY DEF SureOf, Top
  <2>3. Lacks(r) = l
    BY <2>2 DEF Lacks, Lag
  <2> QED
    BY <2>1, <2>2, <2>3
<1>4. \A i \in 1 .. Len(B) : B[i] # Null /\ End(i) > w =>
         /\ \A x \in Requests \ {r} : B[i] \notin Held(List(x))
         /\ pool[B[i]].hash = Nothing
  BY <1>3 DEF OwnsAhead, Marked
<1> HIDE DEF B, S, w, t, n, l
<1>5. \A i \in 1 .. Len(t) : Len(t) <= Len(B) => i \in 1 .. Len(B)
  <2>1. t \in Seq(AllBlocks)
    BY <1>3 DEF Laid
  <2>2. Len(t) \in Nat
    BY <2>1, HeldInBlocks
  <2> QED
    BY <1>2, <2>2
<1>6. Laid(S, t, w, w, n, l)
  <2>1. t \in Seq(AllBlocks) /\ Len(t) <= Len(S)
    BY <1>2, <1>3 DEF Laid
  <2>2. \A i \in 1 .. Len(t) : S[i] # Null => t[i] = S[i]
    BY <1>2, <1>3, <1>5 DEF Laid
  <2>3. Len(S) >= NumSpec + Cdiv(n) /\ (l > 1 => Len(S) = NumSpec + Cdiv(n))
    BY <1>2, <1>3 DEF Laid
  <2>4. \A i \in 1 .. Len(S) : i >= Cdiv(w) => S[i] # Null
    BY <1>2, <1>3 DEF Laid
  <2>5. \A i \in 1 .. Len(S) : S[i] # Null /\ End(i) > w /\ End(i) <= w => End(i) = w
    BY <1>2, <1>3 DEF Laid
  <2> QED
    BY <2>1, <2>2, <2>3, <2>4, <2>5 DEF Laid
<1>7. \A i \in 1 .. Len(S) : S[i] # Null /\ End(i) > w =>
         /\ \A x \in Requests \ {r} : S[i] \notin Held(List(x))
         /\ pool[S[i]].hash = Nothing
  BY <1>2, <1>4
<1> QED
  BY <1>6, <1>7 DEF B, S, w, t, n, l

(* The request preempted gives its blocks back, the current one those of   *)
(* states no longer read.                                                  *)
LEMMA PreemptKeeps ==
  ASSUME BlockInv, PreemptLast
  PROVE  /\ step' = step /\ fresh' = fresh /\ content' = content
         /\ \A b \in Blocks : pool'[b].hash = pool[b].hash
         /\ \A x \in DOMAIN step : worker'[x] = worker[x] /\ mgr'[x] = mgr[x]
         /\ \A x \in Requests :
              /\ Held(mgr'[x].blocks) \subseteq Held(List(x)) /\ mgr'[x].cached \in Nat
              /\ req'[x].status = "running" =>
                   /\ req[x].status = "running" /\ req'[x] = req[x] /\ worker'[x] = worker[x]
                   /\ \/ mgr'[x] = mgr[x]
                      \/ x \notin DOMAIN step /\ mgr'[x] = SweptMgr(x)
<1>1. /\ Shape /\ Lists /\ CounterInv /\ ServingInv /\ Rows /\ RefInv
      /\ req \in [Requests -> Req] /\ mgr \in [Requests -> Mgr]
      /\ pool \in [Blocks -> PoolEntry] /\ \A x \in Requests : mgr[x].sweep \in Nat
  BY DEF BlockInv, RefInv, References, CounterInv, Counters, ServingInv, Shape
<1>2. PICK r \in Requests : r = Current /\ req[r].status = "running" /\ r \notin DOMAIN step
  BY <1>1, CurrentRunning, CurrentUnscheduled DEF PreemptLast
<1>3. PICK victim \in Requests : victim = running[Len(running)]
  <2>1. Len(running) \in 1 .. Len(running)
    BY <1>1 DEF PreemptLast, InLoop, Shape
  <2> QED
    BY <1>1, <2>1, ElementOfSeq DEF Shape
<1>4. /\ mgr' = [[mgr EXCEPT ![r] = SweptMgr(r)] EXCEPT ![victim] = NoBlocks]
      /\ req' = [req EXCEPT ![victim] = PreemptedReq(req[victim])]
      /\ worker' = [worker EXCEPT ![victim] = NoRow]
      /\ step' = step /\ fresh' = fresh
      /\ pool' = Release(SweptPool(r), Held([mgr EXCEPT ![r] = SweptMgr(r)][victim].blocks))
  BY <1>2, <1>3 DEF PreemptLast
<1>5. SweptMgr(r).blocks \in Seq(AllBlocks) /\ Len(SweptMgr(r).blocks) = Len(List(r))
      /\ Len(List(r)) \in Nat
      /\ (\A i \in 1 .. Len(List(r)) :
            SweptMgr(r).blocks[i] # Null => SweptMgr(r).blocks[i] = List(r)[i])
      /\ SweptMgr(r).cached = mgr[r].cached
  BY <1>1, <1>2, SweptKept
<1>6. \A b \in Blocks : pool'[b].hash = pool[b].hash
  <2>1. SweptPool(r) \in [Blocks -> PoolEntry]
    BY <1>1, <1>2, SweepReferences
  <2>2. \A b \in Blocks : SweptPool(r)[b].hash = pool[b].hash
    BY <1>1, PoolHashes DEF SweptPool
  <2> QED
    BY <1>4, <2>1, <2>2, PoolHashes
<1>7. Held(SweptMgr(r).blocks) \subseteq Held(List(r))
  <2>1. List(r) \in Seq(AllBlocks)
    BY <1>1, <1>2, MgrFields DEF List
  <2>2. DOMAIN SweptMgr(r).blocks = 1 .. Len(List(r)) /\ DOMAIN List(r) = 1 .. Len(List(r))
    BY <1>5, <2>1, HeldInBlocks
  <2> QED
    BY <1>5, <2>2 DEF Held
<1>8. victim \notin DOMAIN step
  <2>1. Counters'
    BY <1>1, PreemptCounters
  <2>2. \A x \in DOMAIN step : req'[x].status = "running"
    BY <1>4, <2>1 DEF Counters, InPass, Planned
  <2>3. req'[victim].status = "preempted"
    BY <1>1, <1>3, <1>4, PreemptedType
  <2> QED
    BY <2>2, <2>3
<1>9. /\ req'[victim].status = "preempted" /\ mgr'[victim] = NoBlocks
      /\ victim # r => mgr'[r] = SweptMgr(r)
      /\ \A x \in Requests : x # r /\ x # victim => mgr'[x] = mgr[x]
      /\ \A x \in Requests : x # victim => req'[x] = req[x] /\ worker'[x] = worker[x]
  <2>1. req'[victim].status = "preempted"
    BY <1>1, <1>3, <1>4, PreemptedType
  <2>2. \A x \in Requests : x # victim => req'[x] = req[x] /\ worker'[x] = worker[x]
    BY <1>1, <1>4 DEF Rows
  <2>3. /\ mgr'[victim] = NoBlocks /\ (victim # r => mgr'[r] = SweptMgr(r))
        /\ \A x \in Requests : x # r /\ x # victim => mgr'[x] = mgr[x]
    BY <1>1, <1>2, <1>3, <1>4
  <2> QED
    BY <2>1, <2>2, <2>3
<1>10. \A y \in Requests : Held(mgr'[y].blocks) \subseteq Held(List(y))
  BY <1>7, <1>9, EmptyList DEF List
<1>11. \A x \in Requests : mgr'[x].cached \in Nat
  BY <1>1, <1>5, <1>9 DEF NoBlocks, Lists
<1>12. content' = content
  BY DEF PreemptLast
<1>13. \A x \in DOMAIN step : x \in Requests /\ x # r /\ x # victim
  BY <1>1, <1>2, <1>8, StepFields DEF Shape
<1> QED
  BY <1>2, <1>4, <1>6, <1>9, <1>10, <1>11, <1>12, <1>13

LEMMA PreemptLists ==
  ASSUME BlockInv, PreemptLast
  PROVE  Lists'
<1>1. /\ Shape /\ Lists /\ CounterInv /\ req \in [Requests -> Req]
      /\ mgr \in [Requests -> Mgr] /\ \A x \in Requests : mgr[x].sweep \in Nat
  BY DEF BlockInv, RefInv, References, CounterInv, Counters, ServingInv, Shape
<1>2. /\ step' = step /\ fresh' = fresh
      /\ \A b \in Blocks : pool'[b].hash = pool[b].hash
      /\ \A x \in Requests : Held(mgr'[x].blocks) \subseteq Held(List(x))
                             /\ mgr'[x].cached \in Nat
  BY PreemptKeeps
<1>3. ASSUME NEW x \in Requests, req'[x].status = "running"
      PROVE  /\ req[x].status = "running" /\ req'[x] = req[x] /\ worker'[x] = worker[x]
             /\ mgr'[x] = mgr[x] \/ (x \notin DOMAIN step /\ mgr'[x] = SweptMgr(x))
  BY <1>3, PreemptKeeps
<1>4. ASSUME NEW x \in Requests, req'[x].status = "running", mgr'[x] = mgr[x]
      PROVE  /\ Laid(List(x), worker[x].table, worker[x].pos, SureOf(x), Top(x), Lacks(x))'
             /\ OwnsAhead(x)'
  <2>1. /\ req[x].status = "running" /\ mgr'[x].blocks = mgr[x].blocks
        /\ worker'[x] = worker[x] /\ req'[x].tokens = req[x].tokens
        /\ req'[x].computed = req[x].computed /\ req'[x].placeholders = req[x].placeholders
    BY <1>3, <1>4
  <2>2. \A y \in Requests \ {x} : \A b \in Held(mgr'[y].blocks) : b \in Held(List(y))
    BY <1>2
  <2>3. Held(List(x)) \subseteq Blocks
    BY <1>1, HeldInBlocks, MgrFields DEF List
  <2>4. \A b \in Held(List(x)) : pool'[b].hash = pool[b].hash
    BY <1>2, <2>3
  <2> QED
    BY <1>1, <1>2, <2>1, <2>2, <2>4, OthersKeep
<1>5. ASSUME NEW r \in Requests, req'[r].status = "running", r \notin DOMAIN step,
             mgr'[r] = SweptMgr(r)
      PROVE  /\ Laid(List(r), worker[r].table, worker[r].pos, SureOf(r), Top(r), Lacks(r))'
             /\ OwnsAhead(r)'
  <2> DEFINE S == SweptMgr(r).blocks
             w == worker[r].pos
             t == worker[r].table
             n == req[r].computed
             l == Lag(req[r])
  <2>1. mgr'[r].blocks = S /\ req'[r] = req[r] /\ worker'[r] = worker[r]
    BY <1>3, <1>5
  <2>2. /\ List(r)' = S /\ SureOf(r)' = w /\ Top(r)' = n /\ Lacks(r)' = l
        /\ worker'[r].table = t /\ worker'[r].pos = w
    <3>1. List(r)' = S /\ SureOf(r)' = w /\ Top(r)' = n
      BY <1>2, <1>5, <2>1 DEF List, SureOf, Top
    <3> QED
      BY <2>1, <3>1 DEF Lacks, Lag
  <2>3. /\ Laid(S, t, w, w, n, l)
        /\ \A i \in 1 .. Len(S) : S[i] # Null /\ End(i) > w =>
             /\ \A x \in Requests \ {r} : S[i] \notin Held(List(x))
             /\ pool[S[i]].hash = Nothing
    BY <1>3, <1>5, SweptLaid
  <2>4. \A i \in 1 .. Len(S) : S[i] # Null => S[i] \in Blocks
    <3>1. \A i \in 1 .. Len(S) : S[i] \in AllBlocks
      BY <1>1, <1>3, <1>5, SweptKept, ElementOfSeq
    <3> HIDE DEF S
    <3> QED
      BY <3>1 DEF AllBlocks
  <2> HIDE DEF S, w, t, n, l
  <2>5. Laid(List(r), worker[r].table, worker[r].pos, SureOf(r), Top(r), Lacks(r))'
    BY <2>2, <2>3 DEF Laid, End, Cdiv
  <2>6. \A i \in 1 .. Len(S) : S[i] # Null /\ End(i) > w =>
             /\ \A x \in Requests \ {r} : S[i] \notin Held(mgr'[x].blocks)
             /\ pool'[S[i]].hash = Nothing
    BY <1>2, <2>3, <2>4
  <2>7. OwnsAhead(r)'
    BY <2>2, <2>6 DEF OwnsAhead, List, End
  <2> QED
    BY <2>5, <2>7
<1> QED
  BY <1>2, <1>3, <1>4, <1>5 DEF Lists

-----------------------------------------------------------------------------
(* What a step of n tokens, `drafts' of them drafts, leaves for sure: one  *)
(* token more of a decoding request, all of them of one with more to go.   *)
NextStep(w, c, l, n, drafts) ==
  /\ w \in Int /\ c \in Int /\ l \in Int /\ n \in Int /\ drafts \in Int
  /\ w >= 0 /\ w <= c /\ l >= 1 /\ (l > 1 => w = c)
  /\ n >= 1 /\ n <= l + drafts /\ drafts >= 0 /\ drafts <= NumSpec
  /\ drafts > 0 => n = l + drafts /\ l = 1
  /\ l > 1 /\ c % BlockSize # 0 => c + n <= Floor(c) + BlockSize

LEMMA NextSure ==
  ASSUME NEW w, NEW c, NEW l, NEW n, NEW drafts, NextStep(w, c, l, n, drafts)
  PROVE  /\ l = 1 => w + n - drafts = w + 1 /\ Cdiv(c + n) <= Cdiv(c) + 1
         /\ l > 1 => w + n - drafts = c + n
         /\ w + n - drafts \in Int /\ w + n - drafts >= w /\ w + n - drafts <= c + n
         /\ Cdiv(c) \in Nat /\ Cdiv(c + n) \in Int /\ Cdiv(w) \in Int
         /\ Cdiv(w) <= Cdiv(c) /\ Cdiv(c) <= Cdiv(c + n)
         /\ c <= End(Cdiv(c)) /\ End(Cdiv(c)) \in Int /\ NumSpec \in Nat
<1>1. /\ w \in Int /\ c \in Int /\ l \in Int /\ n \in Int /\ drafts \in Int /\ NumSpec \in Nat
      /\ BlockSize \in Int /\ NumSpec < BlockSize
  BY ManagerAssumption DEF NextStep
<1>2. /\ l = 1 => w + n - drafts = w + 1 /\ n <= BlockSize
      /\ l > 1 => w + n - drafts = c + n
      /\ w + n - drafts \in Int /\ w + n - drafts >= w /\ w + n - drafts <= c + n
  BY <1>1 DEF NextStep
<1> DEFINE K == Cdiv(c)
           T == Cdiv(c + n)
<1>3. K \in Int /\ T \in Int /\ Cdiv(w) \in Int /\ c + n \in Int /\ K + 1 \in Int
  BY <1>1, CdivInt
<1>4. c <= End(K)
  <2>1. \A i \in Int : K <= i => c <= End(i)
    BY <1>1, CdivEnd
  <2> QED
    BY <1>3, <2>1
<1>5. End(K) \in Int /\ End(K + 1) = End(K) + BlockSize
  BY <1>3, EndInt, EndOrder
<1>6. T <= K + 1 <=> c + n <= End(K + 1)
  BY <1>3, CdivEnd
<1>7. Cdiv(w) <= K
  <2>1. w <= End(K)
    BY <1>1, <1>4, <1>5 DEF NextStep
  <2> QED
    BY <1>1, <1>3, <2>1, CdivEnd
<1>8. K <= T
  <2>1. \A i \in Int : T <= i => c + n <= End(i)
    BY <1>3, CdivEnd
  <2>2. c + n <= End(T) /\ End(T) \in Int
    BY <1>3, <2>1, EndInt
  <2>3. c <= End(T)
    BY <1>1, <2>2 DEF NextStep
  <2> HIDE DEF T
  <2> QED
    BY <1>1, <1>3, <2>3, CdivEnd
<1>9. K >= 0
  <2>1. \A i \in Int : c <= End(i) => K <= i
    BY <1>1, CdivEnd
  <2> SUFFICES ASSUME K <= -1 PROVE FALSE
    BY <1>3
  <2>2. c <= End(-1) /\ -1 \in Int
    BY <1>1, CdivEnd
  <2>3. End(-1) + BlockSize <= End(0) /\ End(0) = 0 /\ End(-1) \in Int
    BY EndOrder, EndInt
  <2> QED
    BY <1>1, <2>2, <2>3, ManagerAssumption DEF NextStep
<1> HIDE DEF K, T
<1>10. l = 1 => T <= K + 1
  <2>1. l = 1 => c + n <= End(K + 1)
    BY <1>1, <1>2, <1>4, <1>5
  <2> QED
    BY <1>6, <2>1
<1>11. K \in Nat
  BY <1>3, <1>9
<1> QED
  BY <1>1, <1>2, <1>3, <1>4, <1>5, <1>7, <1>8, <1>10, <1>11 DEF K, T

(* A step's allocation leaves the list laid out for that step, and the     *)
(* blocks of the states to come are new ones or were such blocks before.   *)
Growing(S, t, w, c, l, n, drafts, new) ==
  /\ NextStep(w, c, l, n, drafts) /\ S \in Seq(AllBlocks) /\ Laid(S, t, w, w, c, l)
  /\ new \in [1 .. NumNew(S, c + n, TRUE) -> Blocks]
Keeps(S, s, w, c, l) ==
  /\ \A i \in 1 .. Len(s) : s[i] # Null /\ End(i) <= w => i \in 1 .. Len(S) /\ s[i] = S[i]
  /\ \A i \in 1 .. Len(S) : i <= Cdiv(c) \/ l = 1 => s[i] = S[i]
  /\ Len(s) \in Nat /\ Len(s) >= Len(S)
LaidForNext(S, t, w, c, l, n, drafts, new, s) ==
  /\ s \in Seq(AllBlocks) /\ Len(s) \in Nat /\ Len(s) >= Cdiv(c + n)
  /\ Laid(s, t, w, w + n - drafts, c + n, l - n)
  /\ \A i \in 1 .. Len(s) : s[i] # Null /\ End(i) > w =>
       \/ s[i] \in Held(new)
       \/ \E k \in 1 .. Len(S) : s[i] = S[k] /\ End(k) > w
  /\ Keeps(S, s, w, c, l)

LEMMA GrownLaid ==
  ASSUME NEW S, NEW t, NEW w, NEW c, NEW l, NEW n, NEW drafts, NEW new,
         Growing(S, t, w, c, l, n, drafts, new)
  PROVE  LaidForNext(S, t, w, c, l, n, drafts, new, Allocated(S, c + n, TRUE, new))
<1>15. /\ NextStep(w, c, l, n, drafts) /\ S \in Seq(AllBlocks) /\ Laid(S, t, w, w, c, l)
       /\ new \in [1 .. NumNew(S, c + n, TRUE) -> Blocks]
  BY DEF Growing
<1>16. PICK s : s = Allocated(S, c + n, TRUE, new)
  OBVIOUS
<1> DEFINE K == Cdiv(c)
           T == Cdiv(c + n)
           sure == w + n - drafts
<1>1. /\ w \in Int /\ c \in Int /\ l \in Int /\ n \in Int /\ drafts \in Int
      /\ w >= 0 /\ w <= c /\ l >= 1 /\ (l > 1 => w = c) /\ n >= 1
  BY <1>15 DEF NextStep
<1>2. /\ l = 1 => sure = w + 1 /\ T <= K + 1
      /\ l > 1 => sure = c + n
      /\ sure \in Int /\ sure >= w /\ K \in Nat /\ T \in Int /\ Cdiv(w) \in Int
      /\ Cdiv(w) <= K /\ K <= T /\ c <= End(K) /\ End(K) \in Int /\ NumSpec \in Nat
  BY <1>15, NextSure
<1>3. /\ t \in Seq(AllBlocks) /\ Len(t) <= Len(S)
      /\ \A i \in 1 .. Len(t) : S[i] # Null => t[i] = S[i]
      /\ Len(S) >= NumSpec + K
      /\ l > 1 => Len(S) = NumSpec + K
      /\ \A i \in 1 .. Len(S) : i >= Cdiv(w) => S[i] # Null
      /\ Len(S) \in Nat /\ Len(t) \in Nat
  BY <1>15, HeldInBlocks DEF Laid
<1> HIDE DEF sure
<1>4. Grown(S, c + n, TRUE, K)
  <2>1. \A k \in 1 .. Len(S) : k > K => S[k] # Null
    BY <1>2, <1>3
  <2>2. T <= K + 1 \/ Len(S) = NumSpec + K
    BY <1>1, <1>2, <1>3
  <2>3. c + n \in Int
    BY <1>1
  <2> HIDE DEF K
  <2> QED
    BY <1>2, <1>3, <1>15, <2>1, <2>2, <2>3 DEF Grown
<1>12. /\ s \in Seq(AllBlocks) /\ Len(s) \in Nat
       /\ Len(s) >= Len(S) /\ Len(s) >= NumSpec + T
       /\ Len(S) <= NumSpec + T => Len(s) = NumSpec + T
       /\ Extends(S, Held(new), s, T, K)
  BY <1>4, <1>15, <1>16, AllocatedEntries
<1> HIDE DEF K, T
<1>13. /\ Len(s) \in Nat /\ Len(s) >= Len(S) /\ Len(s) >= NumSpec + T
       /\ Len(S) <= NumSpec + T => Len(s) = NumSpec + T
  BY <1>12
<1> DEFINE m == Len(s)
<1>14. m \in Nat /\ m >= Len(S) /\ m >= NumSpec + T
       /\ (Len(S) <= NumSpec + T => m = NumSpec + T)
  BY <1>13
<1> HIDE DEF m
<1>5. m \in Nat /\ m >= Len(S) /\ m >= NumSpec + T /\ m >= T
       /\ (Len(S) <= NumSpec + T => m = NumSpec + T)
  BY <1>2, <1>14
<1>6. /\ \A i \in 1 .. K : s[i] = S[i]
      /\ \A i \in 1 .. Len(S) : s[i] # Null => s[i] = S[i]
      /\ \A i \in K + 1 .. m :
           /\ i < T => s[i] = Null
           /\ i >= T => s[i] # Null
           /\ s[i] # Null => \/ s[i] \in Held(new)
                             \/ \E k \in K + 1 .. Len(S) : s[i] = S[k]
  BY <1>12 DEF Extends, m
<1>7. ASSUME NEW i \in 1 .. m, i >= Cdiv(sure)
      PROVE  s[i] # Null
  <2>0. \A j \in Int : Cdiv(sure) <= j => sure <= End(j)
    BY <1>2, CdivEnd
  <2>1. sure <= End(i) /\ End(i) \in Int /\ i \in Int /\ i >= 1 /\ i <= m /\ Cdiv(sure) \in Int
    BY <1>2, <1>5, <1>7, <2>0, EndInt, CdivInt
  <2>2. i >= Cdiv(w)
    <3>1. w <= End(i)
      BY <1>1, <1>2, <2>1
    <3> QED
      BY <1>1, <2>1, <3>1, CdivEnd
  <2>3. CASE i <= K
    <3>1. i \in 1 .. K /\ i \in 1 .. Len(S)
      BY <1>2, <1>3, <2>1, <2>3
    <3> QED
      BY <1>3, <1>6, <2>2, <3>1
  <2>4. CASE i > K
    <3>1. i >= T
      <4>1. CASE l = 1
        BY <1>2, <2>1, <2>4, <4>1
      <4>2. CASE l > 1
        BY <1>2, <1>7, <4>2 DEF T
      <4> QED
        BY <1>1, <4>1, <4>2
    <3>2. i \in K + 1 .. m
      BY <1>2, <2>1, <2>4
    <3> QED
      BY <1>6, <3>1, <3>2
  <2>5. i \in Int /\ K \in Int
    BY <1>2, <2>1
  <2>6. i <= K \/ i > K
    BY <2>5
  <2> QED
    BY <2>3, <2>4, <2>6
<1>8. ASSUME NEW i \in 1 .. m, s[i] # Null, End(i) > w, End(i) <= sure
      PROVE  End(i) = sure
  <2>1. End(i) \in Int /\ i \in Int /\ i <= m /\ i >= 1
    BY <1>5, EndInt
  <2>2. CASE l = 1
    BY <1>1, <1>2, <1>8, <2>1, <2>2
  <2>3. CASE l > 1 /\ i > K
    <3>1. i \in K + 1 .. m
      BY <1>2, <2>1, <2>3
    <3>2. T <= i
      <4>1. ~(i < T)
        BY <1>6, <1>8, <3>1
      <4>2. i \in Int /\ T \in Int
        BY <1>2, <2>1
      <4> QED
        BY <4>1, <4>2
    <3>3. c + n <= End(i)
      BY <1>1, <2>1, <3>2, CdivEnd DEF T
    <3> QED
      BY <1>1, <1>2, <1>8, <2>1, <2>3, <3>3
  <2>4. CASE l > 1 /\ i <= K
    <3>1. c < End(i)
      BY <1>1, <1>8, <2>4
    <3>2. K <= i
      <4>1. c <= End(i)
        BY <1>1, <2>1, <3>1
      <4> QED
        BY <1>1, <2>1, <4>1, CdivEnd DEF K
    <3>3. i = K
      BY <1>2, <2>1, <2>4, <3>2
    <3> DEFINE d == c \div BlockSize
    <3>4. d \in Int /\ Floor(c) = End(d) /\ Floor(c) <= c
      BY <1>1, FloorEnd
    <3> HIDE DEF d
    <3>5. End(d) \in Int /\ d < i /\ End(d) + BlockSize <= End(i)
      <4>1. End(d) \in Int
        BY <3>4, EndInt
      <4>2. ~(End(i) <= End(d))
        BY <1>1, <2>1, <3>1, <3>4, <4>1
      <4>3. d < i
        BY <2>1, <3>4, <4>2, EndOrder
      <4> QED
        BY <2>1, <3>4, <4>1, <4>3, EndOrder
    <3>6. c % BlockSize # 0
      <4> SUFFICES ASSUME c % BlockSize = 0 PROVE FALSE
        OBVIOUS
      <4>1. Floor(c) = c
        BY <1>1 DEF Floor
      <4>2. d * BlockSize = c /\ c <= End(d)
        BY <1>1, <3>4, <3>5, <4>1, EndInt
      <4>3. K <= d
        BY <1>1, <3>4, <4>2, CdivEnd DEF K
      <4> QED
        BY <1>2, <3>3, <3>4, <3>5, <4>3
    <3>7. c + n <= Floor(c) + BlockSize
      BY <1>15, <2>4, <3>6 DEF NextStep
    <3> QED
      BY <1>1, <1>2, <1>8, <2>1, <2>4, <3>4, <3>5, <3>7, ManagerAssumption
  <2> QED
    BY <1>1, <1>2, <2>1, <2>2, <2>3, <2>4
<1>9. Laid(s, t, w, sure, c + n, l - n)
  <2>1. Len(t) <= m
    BY <1>3, <1>5
  <2>2. \A i \in 1 .. Len(t) : s[i] # Null => t[i] = s[i]
    <3> SUFFICES ASSUME NEW i \in 1 .. Len(t), s[i] # Null PROVE t[i] = s[i]
      OBVIOUS
    <3>1. i \in 1 .. Len(S)
      BY <1>3
    <3> QED
      BY <1>3, <1>6, <3>1
  <2>3. l - n > 1 => m = NumSpec + T
    BY <1>1, <1>2, <1>3, <1>5
  <2>4. T = Cdiv(c + n)
    BY DEF T
  <2> QED
    BY <1>3, <1>12, <1>5, <1>7, <1>8, <2>1, <2>2, <2>3, <2>4 DEF Laid, m
<1>10. ASSUME NEW i \in 1 .. m, s[i] # Null, End(i) > w
       PROVE  \/ s[i] \in Held(new)
              \/ \E k \in 1 .. Len(S) : s[i] = S[k] /\ End(k) > w
  <2>1. CASE i <= K
    <3>1. i \in 1 .. K /\ i \in 1 .. Len(S)
      BY <1>2, <1>3, <2>1
    <3> QED
      BY <1>6, <1>10, <3>1
  <2>2. CASE i > K
    <3>1. i \in K + 1 .. m
      BY <1>2, <1>5, <2>2
    <3>2. CASE \E k \in K + 1 .. Len(S) : s[i] = S[k]
      <4>1. PICK k \in K + 1 .. Len(S) : s[i] = S[k]
        BY <3>2
      <4>2. k \in Int /\ K < k /\ k \in 1 .. Len(S) /\ K \in Int
        BY <1>2, <1>3
      <4>3. End(K) + BlockSize <= End(k) /\ End(k) \in Int
        BY <4>2, EndOrder, EndInt
      <4>4. End(k) > w
        BY <1>1, <1>2, <4>3, ManagerAssumption
      <4> QED
        BY <4>1, <4>2, <4>4
    <3> QED
      BY <1>6, <1>10, <3>1, <3>2
  <2>3. i \in Int /\ K \in Int
    BY <1>2, <1>5
  <2>4. i <= K \/ i > K
    BY <2>3
  <2> QED
    BY <2>1, <2>2, <2>4
<1>11. m >= T
  BY <1>2, <1>5
<1>17. ASSUME NEW i \in 1 .. m, s[i] # Null, End(i) <= w
       PROVE  i \in 1 .. Len(S) /\ s[i] = S[i]
  <2>1. i \in Int /\ i >= 1 /\ End(i) \in Int
    BY <1>5, EndInt
  <2>2. End(i) <= End(K)
    BY <1>1, <1>2, <1>17, <2>1
  <2>3. i <= K
    BY <1>2, <2>1, <2>2, EndOrder
  <2>4. i \in 1 .. K /\ i \in 1 .. Len(S)
    BY <1>2, <1>3, <2>1, <2>3
  <2> QED
    BY <1>6, <2>4
<1>18. ASSUME NEW i \in 1 .. Len(S), i <= K \/ l = 1
       PROVE  s[i] = S[i]
  <2>1. CASE i <= K
    <3>1. i \in 1 .. K
      BY <1>2, <1>3, <2>1
    <3> QED
      BY <1>6, <3>1
  <2>2. CASE ~(i <= K)
    <3>1. i \in K + 1 .. m /\ ~(i < T)
      <4>1. i \in Int /\ i <= m /\ i >= K + 1
        BY <1>2, <1>3, <1>5, <2>2
      <4> QED
        BY <1>2, <1>5, <1>18, <2>2, <4>1
    <3>2. s[i] # Null
      BY <1>2, <1>6, <3>1
    <3> QED
      BY <1>6, <3>2
  <2> QED
    BY <2>1, <2>2
<1>19. Keeps(S, s, w, c, l)
  BY <1>5, <1>17, <1>18 DEF Keeps, K, m
<1> QED
  BY <1>12, <1>16, <1>9, <1>10, <1>11, <1>19 DEF sure, T, m, LaidForNext

-----------------------------------------------------------------------------
(* Allocation and hashing for a request that this pass schedules: the      *)
(* other requests keep what they own, and so does this one when its list   *)
(* is laid out for the step.                                               *)
Schedules(r, s, p, N, cached, tokens) ==
  /\ r \notin DOMAIN step /\ r \in DOMAIN step'
  /\ s \in Seq(AllBlocks) /\ NoneTwice(s)
  /\ p \in [Blocks -> PoolEntry] /\ \A b \in Blocks : p[b].hash = pool[b].hash
  /\ N \in SUBSET Blocks /\ cached \in Nat /\ tokens \in Int
  /\ Take(p, N) \in [Blocks -> PoolEntry]
  /\ pool' = Hashed(Take(p, N), r, s, cached, tokens)
  /\ fresh' = fresh \union NewHashes(r, s, cached, tokens)
  /\ mgr'[r].blocks = s /\ mgr'[r].cached = Larger(cached, tokens \div BlockSize)
  /\ \A x \in Requests : x # r =>
       /\ mgr'[x] = mgr[x] /\ worker'[x] = worker[x] /\ req'[x] = req[x]
       /\ x \in DOMAIN step' <=> x \in DOMAIN step
       /\ x \in DOMAIN step => step'[x] = step[x]
  /\ \A b \in N : \A x \in Requests \ {r} : b \notin Held(List(x))
  /\ \A b \in Held(s) : \/ b \in N \/ b \in Held(List(r))
                        \/ pool[b].hash # Nothing /\ pool[b].hash \notin fresh
  /\ \A i \in Filled(s, cached, tokens) :
       i \in 1 .. Len(s) /\ (s[i] \in N \/ s[i] \in Held(List(r)))
  /\ Laid(s, worker'[r].table, worker'[r].pos, Sure(r)', Top(r)', Lacks(r)')
  /\ \A i \in 1 .. Len(s) : s[i] # Null /\ End(i) > worker'[r].pos =>
       \/ s[i] \in N
       \/ /\ \A x \in Requests \ {r} : s[i] \notin Held(List(x))
          /\ pool[s[i]].hash = Nothing
  /\ Sure(r)' \in Int /\ tokens <= Sure(r)'

Scheduling(r) ==
  \E s \in Seq(AllBlocks), p \in [Blocks -> PoolEntry], N \in SUBSET Blocks,
     cached \in Nat, tokens \in Int : Schedules(r, s, p, N, cached, tokens)

LEMMA ScheduledLists ==
  ASSUME BlockInv, NEW r \in Requests, NEW s, NEW p, NEW N, NEW cached, NEW tokens,
         Schedules(r, s, p, N, cached, tokens)
  PROVE  Lists'
<1>20. /\ r \notin DOMAIN step /\ r \in DOMAIN step' /\ s \in Seq(AllBlocks) /\ NoneTwice(s)
       /\ Laid(s, worker'[r].table, worker'[r].pos, Sure(r)', Top(r)', Lacks(r)')
       /\ Sure(r)' \in Int /\ tokens <= Sure(r)' /\ tokens \in Int
  BY DEF Schedules
<1>21. /\ p \in [Blocks -> PoolEntry] /\ \A b \in Blocks : p[b].hash = pool[b].hash
       /\ N \in SUBSET Blocks /\ cached \in Nat /\ tokens \in Int
       /\ Take(p, N) \in [Blocks -> PoolEntry]
       /\ pool' = Hashed(Take(p, N), r, s, cached, tokens)
       /\ fresh' = fresh \union NewHashes(r, s, cached, tokens)
       /\ mgr'[r].blocks = s /\ mgr'[r].cached = Larger(cached, tokens \div BlockSize)
  BY DEF Schedules
<1>22. \A x \in Requests : x # r =>
         /\ mgr'[x] = mgr[x] /\ worker'[x] = worker[x] /\ req'[x] = req[x]
         /\ x \in DOMAIN step' <=> x \in DOMAIN step
         /\ x \in DOMAIN step => step'[x] = step[x]
  BY DEF Schedules
<1>23. \A b \in N : \A x \in Requests \ {r} : b \notin Held(List(x))
  BY DEF Schedules
<1>24. \A b \in Held(s) : \/ b \in N \/ b \in Held(List(r))
                          \/ pool[b].hash # Nothing /\ pool[b].hash \notin fresh
  BY DEF Schedules
<1>25. \A i \in Filled(s, cached, tokens) :
         i \in 1 .. Len(s) /\ (s[i] \in N \/ s[i] \in Held(List(r)))
  BY DEF Schedules
<1>26. \A i \in 1 .. Len(s) : s[i] # Null /\ End(i) > worker'[r].pos =>
         \/ s[i] \in N
         \/ /\ \A x \in Requests \ {r} : s[i] \notin Held(List(x))
            /\ pool[s[i]].hash = Nothing
  BY DEF Schedules
<1>1. /\ Shape /\ Lists /\ mgr \in [Requests -> Mgr]
  BY DEF BlockInv, CounterInv, ServingInv, Shape
<1>2. \A x \in Requests : mgr'[x].cached \in Nat
  <2>1. tokens \div BlockSize \in Int
    BY <1>20, DivEnd
  <2>2. mgr'[r].cached \in Nat
    BY <1>21, <2>1 DEF Larger
  <2> QED
    BY <1>1, <1>22, <2>2 DEF Lists
<1> DEFINE q == Take(p, N)
<1>3. ASSUME NEW b \in Blocks
      PROVE  q[b].hash = IF b \in N THEN Nothing ELSE pool[b].hash
  BY <1>21, PoolHashes
<1>4. ASSUME NEW b \in Blocks
      PROVE  \/ pool'[b].hash = q[b].hash
             \/ \E i \in Int : /\ i \in Filled(s, cached, tokens)
                               /\ End(i) <= tokens /\ s[i] = b
                               /\ pool'[b].hash = After(r, End(i))
                               /\ After(r, End(i)) \in NewHashes(r, s, cached, tokens)
  <2>1. cached \in Int /\ q \in [Blocks -> PoolEntry] /\ pool' = Hashed(q, r, s, cached, tokens)
    BY <1>21
  <2> HIDE DEF q
  <2>2. \/ pool'[b] = q[b]
        \/ \E i \in Int : /\ i \in Filled(s, cached, tokens)
                          /\ End(i) <= tokens /\ s[i] = b
                          /\ pool'[b].hash = After(r, End(i))
                          /\ After(r, End(i)) \in NewHashes(r, s, cached, tokens)
    BY <1>21, <2>1, HashedEntry
  <2> QED
    BY <2>2
<1> HIDE DEF q
<1>5. ASSUME NEW x \in Requests, x # r, req'[x].status = "running"
      PROVE  /\ Laid(List(x), worker[x].table, worker[x].pos, SureOf(x), Top(x), Lacks(x))'
             /\ OwnsAhead(x)'
  <2>1. /\ req[x].status = "running" /\ mgr'[x].blocks = mgr[x].blocks
        /\ worker'[x] = worker[x] /\ req'[x].tokens = req[x].tokens
        /\ req'[x].computed = req[x].computed /\ req'[x].placeholders = req[x].placeholders
        /\ (x \in DOMAIN step' <=> x \in DOMAIN step)
        /\ (x \in DOMAIN step => step'[x] = step[x] /\ fresh \subseteq fresh')
    BY <1>5, <1>21, <1>22
  <2>2. \A y \in Requests \ {x} : \A b \in Held(mgr'[y].blocks) :
           \/ b \notin Held(List(x)) \/ b \in Held(List(y))
           \/ pool[b].hash # Nothing /\ pool[b].hash \notin fresh
    BY <1>5, <1>21, <1>22, <1>23, <1>24 DEF List
  <2>3. Held(List(x)) \subseteq Blocks
    BY <1>1, HeldInBlocks, MgrFields DEF List
  <2>4. \A b \in Held(List(x)) :
          pool'[b].hash = pool[b].hash \/ \E y \in Requests \ {x} : b \in Held(List(y))
    <3> SUFFICES ASSUME NEW b \in Held(List(x)), pool'[b].hash # pool[b].hash
                 PROVE  b \in Held(List(r))
      BY <1>5
    <3>1. b \in Blocks /\ b \notin N
      BY <1>5, <1>23, <2>3
    <3>2. q[b].hash = pool[b].hash
      BY <1>3, <3>1
    <3>3. PICK i \in Int : i \in Filled(s, cached, tokens) /\ s[i] = b
      BY <1>4, <3>1, <3>2
    <3> QED
      BY <1>25, <3>1, <3>3
  <2> QED
    BY <1>1, <2>1, <2>2, <2>4, OthersKeep
<1>6. \A i \in 1 .. Len(s) : s[i] \in AllBlocks
  BY <1>20, ElementOfSeq
<1>7. ASSUME NEW i \in 1 .. Len(s), s[i] # Null, End(i) > worker'[r].pos
      PROVE  /\ \A x \in Requests \ {r} : s[i] \notin Held(mgr'[x].blocks)
             /\ \/ pool'[s[i]].hash = Nothing
                \/ /\ End(i) = Sure(r)' /\ pool'[s[i]].hash = After(r, End(i))
                   /\ pool'[s[i]].hash \in fresh'
  <2> DEFINE b == s[i]
  <2>1. b \in Blocks
    BY <1>6, <1>7 DEF AllBlocks
  <2>2. \A x \in Requests \ {r} : b \notin Held(mgr'[x].blocks)
    BY <1>7, <1>22, <1>23, <1>26 DEF List
  <2>3. q[b].hash = Nothing
    BY <1>3, <1>7, <1>26, <2>1
  <2>4. CASE pool'[b].hash = q[b].hash
    BY <2>2, <2>3, <2>4
  <2>5. CASE pool'[b].hash # q[b].hash
    <3>1. PICK j \in Int : /\ j \in Filled(s, cached, tokens) /\ End(j) <= tokens /\ s[j] = b
                           /\ pool'[b].hash = After(r, End(j))
                           /\ After(r, End(j)) \in NewHashes(r, s, cached, tokens)
      BY <1>4, <2>1, <2>5
    <3>2. j = i
      <4>1. j \in 1 .. Len(s) /\ DOMAIN s = 1 .. Len(s)
        BY <1>20, <1>25, <3>1, HeldInBlocks
      <4> QED
        BY <1>7, <1>20, <3>1, <4>1 DEF NoneTwice
    <3>3. End(i) \in Int /\ End(i) <= Sure(r)'
      <4>1. End(i) \in Int /\ End(i) <= tokens
        BY <3>1, <3>2, EndInt
      <4> QED
        BY <1>20, <4>1
    <3>4. End(i) = Sure(r)'
      BY <1>7, <1>20, <3>3 DEF Laid
    <3> QED
      BY <1>21, <2>2, <3>1, <3>2, <3>4
  <2> QED
    BY <2>4, <2>5
<1>8. List(r)' = s /\ SureOf(r)' = Sure(r)'
  BY <1>20, <1>21 DEF List, SureOf
<1>9. /\ Laid(List(r), worker[r].table, worker[r].pos, SureOf(r), Top(r), Lacks(r))'
      /\ OwnsAhead(r)'
  <2> DEFINE t == worker'[r].table
             w == worker'[r].pos
             u == Sure(r)'
             c == Top(r)'
             l == Lacks(r)'
  <2>1. /\ List(r)' = s /\ worker'[r].table = t /\ worker'[r].pos = w
        /\ SureOf(r)' = u /\ Sure(r)' = u /\ Top(r)' = c /\ Lacks(r)' = l /\ Laid(s, t, w, u, c, l)
    BY <1>8, <1>20
  <2>2. OwnsAhead(r)'
    BY <1>7, <1>8, <1>20, <1>21 DEF OwnsAhead, Marked, List, End, After
  <2> HIDE DEF t, w, u, c, l
  <2>3. Laid(List(r), worker[r].table, worker[r].pos, SureOf(r), Top(r), Lacks(r))'
    BY <2>1 DEF Laid, End, Cdiv
  <2> QED
    BY <2>2, <2>3
<1> QED
  BY <1>2, <1>5, <1>9 DEF Lists

LEMMA GrowScheduled ==
  ASSUME Grow
  PROVE  LET r == Current
             n == NewTokens(r)
             q == req[r]
             drafts == IF q.spec = 0 THEN 0
                       ELSE Smaller(q.spec,
                              Larger(0, (q.computed + n) - q.tokens - q.placeholders))
         IN  /\ InLoop /\ n > 0
             /\ step' = Scheduled(r, [n |-> n, drafts |-> drafts, padded |-> FALSE,
                                      admitted |-> FALSE])
             /\ req' = [req EXCEPT ![r].spec = 0]
BY DEF Grow

(* The step the running loop schedules.                                    *)
LEMMA GrowNext ==
  ASSUME CounterInv, Grow, NEW r \in Requests, r = Current,
         NEW n, n = NewTokens(r),
         NEW drafts, drafts = IF req[r].spec = 0 THEN 0
                              ELSE Smaller(req[r].spec,
                                     Larger(0, (req[r].computed + n) - req[r].tokens
                                                 - req[r].placeholders))
  PROVE  /\ step' = Scheduled(r, [n |-> n, drafts |-> drafts, padded |-> FALSE,
                                  admitted |-> FALSE])
         /\ step'[r].n = n /\ step'[r].drafts = drafts
         /\ NextStep(worker[r].pos, req[r].computed, Lag(req[r]), n, drafts)
         /\ req'[r].computed = req[r].computed /\ req'[r].tokens = req[r].tokens
         /\ req'[r].placeholders = req[r].placeholders
         /\ req[r].tokens <= worker[r].pos + Lag(req[r])
         /\ \A x \in Requests : x # r => req'[x] = req[x]
<1> DEFINE entry == [n |-> n, drafts |-> drafts, padded |-> FALSE, admitted |-> FALSE]
<1>1. /\ InLoop /\ n > 0 /\ step' = Scheduled(r, entry) /\ req' = [req EXCEPT ![r].spec = 0]
  <2> DEFINE k == NewTokens(Current)
             q == req[Current]
             d == IF q.spec = 0 THEN 0
                  ELSE Smaller(q.spec, Larger(0, (q.computed + k) - q.tokens - q.placeholders))
  <2>1. /\ InLoop /\ k > 0
        /\ step' = Scheduled(Current, [n |-> k, drafts |-> d, padded |-> FALSE,
                                       admitted |-> FALSE])
        /\ req' = [req EXCEPT ![Current].spec = 0]
    BY GrowScheduled
  <2>2. n = k /\ drafts = d
    OBVIOUS
  <2> HIDE DEF k, d
  <2> QED
    BY <2>1, <2>2
<1>2. /\ Shape /\ req \in [Requests -> Req] /\ req[r] \in Req /\ ServingInv
  BY DEF CounterInv, ServingInv, Shape
<1>3. req[r].status = "running"
  BY <1>1, <1>2, CurrentRunning
<1>4. entry.n = n /\ entry.drafts = drafts
  OBVIOUS
<1> HIDE DEF entry
<1>5. r \in DOMAIN step' /\ step'[r] = entry
  BY <1>1 DEF Scheduled
<1>6. req'[r] = [req[r] EXCEPT !.spec = 0] /\ \A x \in Requests : x # r => req'[x] = req[x]
  BY <1>1, <1>2
<1>7. /\ req'[r].computed = req[r].computed /\ req'[r].tokens = req[r].tokens
      /\ req'[r].placeholders = req[r].placeholders
  BY <1>2, <1>6 DEF Req
<1>8. Planned(req'[r], entry)
  <2>1. Counters'
    BY GrowCounters
  <2> QED
    BY <1>5, <2>1 DEF Counters, InPass
<1>9. /\ n >= 1 /\ drafts >= 0 /\ drafts <= NumSpec /\ n <= Lag(req[r]) + drafts
      /\ drafts > 0 => n = Lag(req[r]) + drafts /\ Lag(req[r]) = 1
  <2>1. Lag(req'[r]) = Lag(req[r])
    BY <1>7 DEF Lag
  <2> QED
    BY <1>4, <1>8, <2>1 DEF Planned
<1> DEFINE w == worker[r].pos
           c == req[r].computed
           l == Lag(req[r])
<1>10. /\ w \in Int /\ c \in Int /\ l \in Int /\ w >= 0 /\ w <= c /\ l >= 1
       /\ req[r].tokens \in Int /\ req[r].spec \in Int /\ req[r].placeholders \in Int
       /\ NumSpec \in Nat /\ req[r].tokens <= w + l
       /\ l > 1 => w = c /\ req[r].placeholders = 0 /\ req[r].spec = 0
  BY <1>3, RunningCounts
<1>11. n \in Int
  BY <1>2, NewTokensInt
<1>12. drafts \in Int
  <2>1. CASE req[r].spec = 0
    BY <2>1
  <2>2. CASE req[r].spec # 0
    <3>1. (req[r].computed + n) - req[r].tokens - req[r].placeholders \in Int
      BY <1>10, <1>11
    <3>2. Larger(0, (req[r].computed + n) - req[r].tokens - req[r].placeholders) \in Int
      BY <3>1 DEF Larger
    <3> QED
      BY <1>10, <2>2, <3>2 DEF Smaller
  <2> QED
    BY <2>1, <2>2
<1>13. ASSUME l > 1, c % BlockSize # 0 PROVE c + n <= Floor(c) + BlockSize
  <2> DEFINE want == Smaller(req[r].tokens + req[r].spec + req[r].placeholders
                               - req[r].computed, budget)
  <2>1. n = AlignedSplit(r, c, want)
    <3>1. ~SureToEnd(r)
      BY <1>1 DEF NewTokens
    <3> QED
      BY <3>1 DEF NewTokens
  <2>2. want \in Int
    <3>1. budget \in Int
      BY <1>2 DEF Shape
    <3>2. req[r].tokens + req[r].spec + req[r].placeholders - req[r].computed \in Int
      BY <1>10
    <3> QED
      BY <3>1, <3>2 DEF Smaller
  <2>3. c < req[r].tokens - 1
    <3>1. l = req[r].tokens + req[r].placeholders - c
      BY DEF Lag
    <3> HIDE DEF l, c
    <3> QED
      BY <1>10, <1>13, <3>1
  <2> HIDE DEF want, c, l
  <2>4. c \in Int
    BY <1>10
  <2> QED
    BY <1>1, <1>2, <1>13, <2>1, <2>2, <2>3, <2>4, SplitToBoundary
<1>14. NextStep(w, c, l, n, drafts)
  <2>1. /\ n \in Int /\ drafts \in Int /\ n >= 1 /\ drafts >= 0 /\ drafts <= NumSpec
        /\ n <= l + drafts /\ (drafts > 0 => n = l + drafts /\ l = 1)
    BY <1>9, <1>11, <1>12
  <2> HIDE DEF w, c, l
  <2> QED
    BY <1>10, <1>13, <2>1 DEF NextStep
<1> QED
  BY <1>1, <1>4, <1>5, <1>6, <1>7, <1>10, <1>14 DEF entry

LEMMA GrowSchedules ==
  ASSUME BlockInv, Grow, NEW r \in Requests, r = Current
  PROVE  /\ Scheduling(r) /\ worker' = worker /\ content' = content
         /\ Keeps(SweptMgr(r).blocks, mgr'[r].blocks, worker[r].pos, req[r].computed, Lag(req[r]))
<1>1. /\ CounterInv /\ ServingInv /\ InLoop /\ Shape /\ Rows /\ RefInv
      /\ mgr \in [Requests -> Mgr] /\ pool \in [Blocks -> PoolEntry]
      /\ \A x \in Requests : mgr[x].sweep \in Nat
  BY DEF BlockInv, RefInv, References, CounterInv, Counters, ServingInv, Shape, Grow
<1>2. r = Current /\ req[r].status = "running" /\ r \notin DOMAIN step
  BY <1>1, CurrentRunning, CurrentUnscheduled
<1> DEFINE S == SweptMgr(r).blocks
           n == NewTokens(r)
           w == worker[r].pos
           t == worker[r].table
           c == req[r].computed
           l == Lag(req[r])
           drafts == IF req[r].spec = 0 THEN 0
                     ELSE Smaller(req[r].spec,
                            Larger(0, (req[r].computed + n) - req[r].tokens
                                        - req[r].placeholders))
           total == c + n
           tokens == Smaller(total, req[r].tokens)
           number == NumNew(S, total, TRUE)
           p == SweptPool(r)
           cached == SweptMgr(r).cached
<1>3. PICK new \in Picks(p, number) :
        /\ pool' = Hashed(Take(p, Held(new)), r, Allocated(S, total, TRUE, new), cached, tokens)
        /\ mgr' = [mgr EXCEPT ![r] =
                     [SweptMgr(r) EXCEPT !.blocks = Allocated(S, total, TRUE, new),
                                         !.cached = Larger(@, tokens \div BlockSize)]]
        /\ fresh' = fresh \union NewHashes(r, Allocated(S, total, TRUE, new), cached, tokens)
        /\ worker' = worker /\ content' = content
  BY <1>2 DEF Grow
<1>4. PICK s : s = Allocated(S, total, TRUE, new)
  OBVIOUS
<1>5. PICK N : N = Held(new)
  OBVIOUS
<1>6. /\ step' = Scheduled(r, [n |-> n, drafts |-> drafts, padded |-> FALSE, admitted |-> FALSE])
      /\ step'[r].n = n /\ step'[r].drafts = drafts
      /\ NextStep(w, c, l, n, drafts)
      /\ req'[r].computed = req[r].computed /\ req'[r].tokens = req[r].tokens
      /\ req'[r].placeholders = req[r].placeholders
      /\ req[r].tokens <= worker[r].pos + Lag(req[r])
      /\ \A x \in Requests : x # r => req'[x] = req[x]
  BY <1>1, <1>2, GrowNext
<1>7. /\ S \in Seq(AllBlocks) /\ Len(S) = Len(List(r)) /\ Len(List(r)) \in Nat
      /\ \A i \in 1 .. Len(List(r)) : S[i] # Null => S[i] = List(r)[i]
      /\ cached = mgr[r].cached /\ mgr[r].cached \in Nat
  BY <1>1, <1>2, SweptKept DEF BlockInv, Lists
<1>8. /\ Laid(S, t, w, w, c, l)
      /\ \A i \in 1 .. Len(S) : S[i] # Null /\ End(i) > w =>
           /\ \A x \in Requests \ {r} : S[i] \notin Held(List(x))
           /\ pool[S[i]].hash = Nothing
  BY <1>2, SweptLaid
<1>9. /\ p \in [Blocks -> PoolEntry] /\ \A b \in Blocks : p[b].hash = pool[b].hash
      /\ Loses(HeldByAll(mgr), r, SweptBlocks(r)) \in [Requests -> SUBSET Blocks]
      /\ Counted(p, Loses(HeldByAll(mgr), r, SweptBlocks(r)))
  <2>1. p \in [Blocks -> PoolEntry]
        /\ Loses(HeldByAll(mgr), r, SweptBlocks(r)) \in [Requests -> SUBSET Blocks]
        /\ Counted(p, Loses(HeldByAll(mgr), r, SweptBlocks(r)))
    BY <1>1, <1>2, SweepReferences
  <2>2. \A b \in Blocks : p[b].hash = pool[b].hash
    BY <1>1, PoolHashes DEF SweptPool
  <2> QED
    BY <2>1, <2>2
<1>10. new \in [1 .. number -> FreeBlocks(p)] /\ FreeBlocks(p) \subseteq Blocks
       /\ new \in [1 .. number -> Blocks]
  BY DEF Picks, FreeBlocks
<1>11. N \subseteq FreeBlocks(p) /\ N \subseteq Blocks
  <2> HIDE DEF p, number
  <2> QED
    BY <1>5, <1>10 DEF Held
<1>12. \A b \in N : \A x \in Requests \ {r} : b \notin Held(List(x))
  <2> DEFINE H == Loses(HeldByAll(mgr), r, SweptBlocks(r))
  <2>1. \A x \in Requests : x # r => H[x] = Held(List(x))
    BY <1>1, <1>2, HeldByAllType DEF Loses, List
  <2> HIDE DEF H, p
  <2>2. \A b \in N : \A x \in Requests : b \notin H[x]
    BY <1>9, <1>11, FreeUnheld DEF H
  <2> QED
    BY <2>1, <2>2
<1>13. /\ total \in Int /\ c \in Int /\ n \in Int /\ w \in Int /\ drafts \in Int /\ l \in Int
       /\ l >= 1 /\ n >= 1
  <2> HIDE DEF w, c, l, n, drafts
  <2> QED
    BY <1>6 DEF NextStep
<1>14. /\ s \in Seq(AllBlocks) /\ Len(s) \in Nat /\ Len(s) >= Cdiv(total)
       /\ Laid(s, t, w, w + n - drafts, total, l - n)
       /\ \A i \in 1 .. Len(s) : s[i] # Null /\ End(i) > w =>
              \/ s[i] \in N
              \/ \E k \in 1 .. Len(S) : s[i] = S[k] /\ End(k) > w
       /\ Keeps(S, s, w, c, l)
  <2>1. /\ NextStep(w, c, l, n, drafts) /\ S \in Seq(AllBlocks) /\ Laid(S, t, w, w, c, l)
        /\ new \in [1 .. NumNew(S, c + n, TRUE) -> Blocks]
    BY <1>6, <1>7, <1>8, <1>10
  <2> HIDE DEF w, c, l, n, drafts, S, t
  <2>2. Growing(S, t, w, c, l, n, drafts, new)
    BY <2>1 DEF Growing
  <2>3. LaidForNext(S, t, w, c, l, n, drafts, new, Allocated(S, c + n, TRUE, new))
    BY <2>2, GrownLaid
  <2>4. LaidForNext(S, t, w, c, l, n, drafts, new, s)
    BY <1>4, <2>3
  <2> QED
    BY <1>5, <2>4 DEF LaidForNext
<1>15. /\ \A x \in Requests : x # r => mgr'[x] = mgr[x]
       /\ mgr'[r].blocks = s /\ mgr'[r].cached = Larger(cached, tokens \div BlockSize)
  <2>1. SweptMgr(r) \in Mgr
    BY <1>1, <1>2, SweptType
  <2> DEFINE m == SweptMgr(r)
             k == Larger(cached, tokens \div BlockSize)
  <2>2. mgr' = [mgr EXCEPT ![r] = [m EXCEPT !.blocks = s, !.cached = k]]
    BY <1>3, <1>4
  <2> HIDE DEF m, k
  <2>3. [m EXCEPT !.blocks = s, !.cached = k].blocks = s
        /\ [m EXCEPT !.blocks = s, !.cached = k].cached = k
    BY <2>1 DEF m, Mgr
  <2>4. mgr'[r] = [m EXCEPT !.blocks = s, !.cached = k]
        /\ \A x \in Requests : x # r => mgr'[x] = mgr[x]
    BY <1>1, <2>2
  <2> QED
    BY <2>3, <2>4 DEF k
<1>16. NoneTwice(s)
  <2>1. ServingInv' /\ References'
    BY <1>1, GrowServing, GrowReferences
  <2> QED
    BY <1>15, <2>1 DEF References
<1>17. /\ Held(s) \subseteq Held(List(r)) \union N /\ N \subseteq Held(s)
  <2>1. NoneTwice(S) /\ Held(S) \subseteq Held(List(r))
    <3>1. DOMAIN S = 1 .. Len(S) /\ DOMAIN List(r) = 1 .. Len(List(r))
      BY <1>1, <1>2, <1>7, MgrFields, HeldInBlocks DEF List
    <3>2. NoneTwice(S)
      BY <1>1, <1>2, SweepReferences
    <3> HIDE DEF S
    <3> QED
      BY <1>7, <3>1, <3>2 DEF Held
  <2>2. FreeBlocks(p) \intersect Held(S) = {}
    <3> DEFINE H == Loses(HeldByAll(mgr), r, SweptBlocks(r))
    <3>1. Held(S) = H[r]
      BY <1>1, <1>2, SweepReferences
    <3> HIDE DEF H, p, S
    <3> QED
      BY <1>2, <1>9, <3>1, FreeUnheld DEF H
  <2>3. Len(S) >= NumSpec /\ \A i, j \in 1 .. number : i # j => new[i] # new[j]
    <3>1. Len(S) >= NumSpec
      BY <1>1, <1>2, GrowthType
    <3> QED
      BY <3>1 DEF Picks
  <2> DEFINE F == FreeBlocks(p)
  <2>5. /\ S \in Seq(AllBlocks) /\ total \in Int /\ TRUE \in BOOLEAN /\ NoneTwice(S)
        /\ Len(S) >= NumSpec
        /\ F \in SUBSET Blocks /\ F \intersect Held(S) = {}
        /\ new \in [1 .. NumNew(S, total, TRUE) -> F]
        /\ \A i, j \in 1 .. NumNew(S, total, TRUE) : i # j => new[i] # new[j]
    BY <1>4, <1>7, <1>10, <1>13, <2>1, <2>2, <2>3
  <2> HIDE DEF S, total, F
  <2>4. Held(s) = Held(S) \union Held(new)
    <3>1. /\ Held(new) \subseteq F
          /\ Held(Allocated(S, total, TRUE, new)) = Held(S) \union Held(new)
          /\ NoneTwice(Allocated(S, total, TRUE, new))
      BY <2>5, AllocatedHeld
    <3> QED
      BY <1>4, <3>1
  <2> QED
    BY <1>5, <2>1, <2>4
<1>18. ASSUME NEW i \in Filled(s, cached, tokens)
       PROVE  i \in 1 .. Len(s) /\ s[i] \in Held(s)
  <2>1. req[r].tokens \in Int
    BY <1>1, <1>2, RunningCounts
  <2>2. tokens \in Int /\ tokens <= total
    <3> HIDE DEF total
    <3> QED
      BY <1>13, <2>1 DEF Smaller
  <2> HIDE DEF tokens
  <2>3. i \in cached + 1 .. tokens \div BlockSize /\ s[i] # Null /\ tokens \div BlockSize \in Int
    BY <1>18, <2>2, DivEnd DEF Filled
  <2>4. i \in Int /\ i >= 1 /\ i <= tokens \div BlockSize
    <3> HIDE DEF cached
    <3> QED
      BY <1>7, <2>3
  <2>5. End(i) <= tokens /\ End(i) \in Int
    BY <2>2, <2>4, DivEnd, EndInt
  <2> HIDE DEF total
  <2>6. Cdiv(total) \in Int
    BY <1>13, CdivInt
  <2>7. ~(Cdiv(total) <= i - 1)
    <3> DEFINE j == i - 1
    <3>1. j \in Int /\ End(j + 1) = End(j) + BlockSize /\ j + 1 = i
      BY <2>4, EndOrder
    <3>2. End(j) \in Int
      BY <3>1, EndInt
    <3>3. End(j) < total
      BY <1>13, <2>2, <2>5, <3>1, <3>2, ManagerAssumption
    <3> HIDE DEF j
    <3>4. ~(Cdiv(total) <= j)
      BY <1>13, <3>1, <3>2, <3>3, CdivEnd
    <3> QED
      BY <3>4 DEF j
  <2>8. i \in 1 .. Len(s)
    BY <1>14, <2>4, <2>6, <2>7
  <2>9. DOMAIN s = 1 .. Len(s)
    BY <1>14, HeldInBlocks
  <2> QED
    BY <2>3, <2>8, <2>9 DEF Held
<1>19. /\ r \in DOMAIN step'
       /\ \A x \in Requests : x # r => /\ x \in DOMAIN step' <=> x \in DOMAIN step
                                       /\ x \in DOMAIN step => step'[x] = step[x]
  BY <1>6 DEF Scheduled
<1>20. worker' = worker
  BY <1>3
<1>21. Sure(r)' = w + n - drafts /\ Top(r)' = total /\ Lacks(r)' = l - n
  <2>1. Sure(r)' = w + n - drafts /\ Top(r)' = total
    <3> HIDE DEF n, drafts
    <3> QED
      BY <1>6, <1>19, <1>20 DEF Sure, Top
  <2>2. Lacks(r)' = req[r].tokens + req[r].placeholders - total
    <3> HIDE DEF total
    <3> QED
      BY <1>6, <2>1 DEF Lacks
  <2>3. req[r].tokens \in Int /\ req[r].placeholders \in Int /\ req[r].computed \in Int
    BY <1>1, <1>2, RunningCounts
  <2> HIDE DEF n
  <2>4. l - n = req[r].tokens + req[r].placeholders - total
    BY <1>13, <2>3 DEF Lag
  <2> QED
    BY <2>1, <2>2, <2>4
<1>22. w + n - drafts \in Int /\ tokens \in Int /\ tokens <= w + n - drafts
  <2>1. /\ l = 1 => w + n - drafts = w + 1
        /\ l > 1 => w + n - drafts = total
        /\ w + n - drafts \in Int
    <3> HIDE DEF w, n, drafts, l, c
    <3> QED
      BY <1>6, NextSure
  <2>2. req[r].tokens \in Int /\ req[r].tokens <= w + l
    BY <1>1, <1>2, <1>6, RunningCounts
  <2> DEFINE u == w + n - drafts
  <2>3. u \in Int /\ (l = 1 => u = w + 1) /\ (l > 1 => u = total)
    BY <2>1
  <2> HIDE DEF w, n, drafts, l, c, total, u
  <2>4. tokens \in Int /\ tokens <= u
    BY <1>13, <2>2, <2>3 DEF Smaller
  <2> QED
    BY <2>3, <2>4 DEF u
<1>23. Take(p, N) \in [Blocks -> PoolEntry]
  <2> HIDE DEF p
  <2> QED
    BY <1>1, <1>2, <1>9, <1>11, TakeCounted
<1>24. \A i \in 1 .. Len(s) : s[i] # Null /\ End(i) > worker'[r].pos =>
           \/ s[i] \in N
           \/ /\ \A x \in Requests \ {r} : s[i] \notin Held(List(x))
              /\ pool[s[i]].hash = Nothing
  <2> HIDE DEF S
  <2>1. worker'[r].pos = w
    BY <1>20
  <2> HIDE DEF w
  <2> QED
    BY <1>8, <1>14, <2>1
<1>25. Laid(s, worker'[r].table, worker'[r].pos, Sure(r)', Top(r)', Lacks(r)')
  <2>1. worker'[r].table = t /\ worker'[r].pos = w
    BY <1>20
  <2> HIDE DEF w, n, drafts, l, total, t
  <2> QED
    BY <1>14, <1>21, <2>1
<1>26. cached \in Nat
  BY <1>7
<1>27. \A x \in Requests : x # r =>
           /\ mgr'[x] = mgr[x] /\ worker'[x] = worker[x] /\ req'[x] = req[x]
           /\ x \in DOMAIN step' <=> x \in DOMAIN step
           /\ x \in DOMAIN step => step'[x] = step[x]
  BY <1>6, <1>15, <1>19, <1>20
<1>28. \A b \in Held(s) : \/ b \in N \/ b \in Held(List(r))
                          \/ pool[b].hash # Nothing /\ pool[b].hash \notin fresh
  <2>1. \A b \in Held(s) : b \in N \/ b \in Held(List(r))
    BY <1>17
  <2> QED
    BY <2>1
<1>29. /\ pool' = Hashed(Take(p, N), r, s, cached, tokens)
       /\ fresh' = fresh \union NewHashes(r, s, cached, tokens)
  BY <1>3, <1>4, <1>5
<1>30. \A i \in Filled(s, cached, tokens) :
           i \in 1 .. Len(s) /\ (s[i] \in N \/ s[i] \in Held(List(r)))
  BY <1>17, <1>18
<1>31. Sure(r)' \in Int /\ tokens <= Sure(r)' /\ tokens \in Int
  BY <1>21, <1>22
<1>32. s \in Seq(AllBlocks) /\ p \in [Blocks -> PoolEntry]
       /\ \A b \in Blocks : p[b].hash = pool[b].hash
  BY <1>9, <1>14
<1>35. r \notin DOMAIN step /\ r \in DOMAIN step'
  BY <1>2, <1>19
<1>33. N \in SUBSET Blocks
  BY <1>11
<1>34. mgr'[r].blocks = s /\ mgr'[r].cached = Larger(cached, tokens \div BlockSize)
  BY <1>15
<1>36. Schedules(r, s, p, N, cached, tokens)
  <2> HIDE DEF p, cached, tokens
  <2> QED
    BY <1>35, <1>12, <1>16, <1>23, <1>24, <1>25, <1>26, <1>27, <1>28, <1>29, <1>30,
       <1>31, <1>32, <1>33, <1>34 DEF Schedules
<1>37. cached \in Nat /\ tokens \in Int
  BY <1>26, <1>31
<1> HIDE DEF p, cached, tokens
<1>38. Scheduling(r)
  BY <1>32, <1>33, <1>36, <1>37 DEF Scheduling
<1>39. Keeps(S, mgr'[r].blocks, w, c, l)
  <2> HIDE DEF S, w, c, l
  <2> QED
    BY <1>14, <1>34
<1> QED
  BY <1>3, <1>38, <1>39

-----------------------------------------------------------------------------
(* The list of a request that is admitted with a hit on its first k        *)
(* entries, or none, for a step of n tokens.                               *)
Admitting(found, k, n, drafts, new) ==
  /\ found \in Seq(AllBlocks) /\ Len(found) = k /\ k \in Nat /\ n \in Int /\ drafts \in Int
  /\ n >= 1 /\ drafts >= 0 /\ drafts <= NumSpec /\ (drafts > 0 => n = 1 + drafts)
  /\ new \in [1 .. NumNew(found, End(k) + n, FALSE) -> Blocks]
LaidForFirst(found, k, n, drafts, lacks, new, s) ==
  /\ s \in Seq(AllBlocks) /\ Len(s) \in Nat /\ Len(s) >= Cdiv(End(k) + n)
  /\ Laid(s, <<>>, End(k), End(k) + n - drafts, End(k) + n, lacks)
  /\ \A i \in 1 .. Len(s) : s[i] # Null /\ End(i) > End(k) => s[i] \in Held(new)
  /\ Len(s) >= k /\ \A i \in 1 .. k : s[i] = found[i]

LEMMA AdmittedLaid ==
  ASSUME NEW found, NEW k, NEW n, NEW drafts, NEW lacks, NEW new,
         Admitting(found, k, n, drafts, new)
  PROVE  LaidForFirst(found, k, n, drafts, lacks, new,
                      Allocated(found, End(k) + n, FALSE, new))
<1>1. /\ found \in Seq(AllBlocks) /\ Len(found) = k /\ k \in Nat /\ n \in Int /\ drafts \in Int
      /\ n >= 1 /\ drafts >= 0 /\ drafts <= NumSpec /\ (drafts > 0 => n = 1 + drafts)
      /\ new \in [1 .. NumNew(found, End(k) + n, FALSE) -> Blocks]
  BY DEF Admitting
<1>2. PICK s : s = Allocated(found, End(k) + n, FALSE, new)
  OBVIOUS
<1>3. PICK w : w = End(k)
  OBVIOUS
<1> DEFINE total == w + n
           T == Cdiv(total)
           sure == w + n - drafts
<1>4. /\ w \in Int /\ End(k + 1) = w + BlockSize /\ NumSpec \in Nat /\ BlockSize \in Int
      /\ NumSpec < BlockSize /\ total \in Int /\ total > w /\ T \in Int /\ k \in Int
      /\ sure \in Int /\ sure > w /\ sure <= total
  <2>1. w \in Int /\ End(k + 1) = w + BlockSize
    BY <1>1, <1>3, EndInt, EndOrder
  <2>2. total \in Int /\ total > w /\ sure \in Int /\ sure > w /\ sure <= total
    BY <1>1, <2>1
  <2>3. T \in Int
    BY <2>2, CdivInt
  <2> QED
    BY <1>1, <2>1, <2>2, <2>3, ManagerAssumption
<1>5. T > k
  <2>1. ~(T <= k)
    <3> HIDE DEF total
    <3> QED
      BY <1>3, <1>4, CdivEnd
  <2> QED
    BY <1>4, <2>1
<1>6. Grown(found, total, FALSE, k)
  <2> HIDE DEF total
  <2> QED
    BY <1>1, <1>4, <1>5 DEF Grown
<1>7. /\ s \in Seq(AllBlocks) /\ Len(s) \in Nat
      /\ Len(s) >= Len(found) /\ Len(s) >= NumSpec + T
      /\ Len(found) <= NumSpec + T => Len(s) = NumSpec + T
      /\ Extends(found, Held(new), s, T, k)
  <2>1. new \in [1 .. NumNew(found, total, FALSE) -> Blocks]
        /\ s = Allocated(found, total, FALSE, new)
    BY <1>1, <1>2, <1>3
  <2> HIDE DEF total
  <2> QED
    BY <1>6, <2>1, AllocatedEntries
<1>8. PICK m : m = Len(s)
  OBVIOUS
<1>9. m \in Nat /\ m = NumSpec + T /\ m >= T
  <2>1. k <= NumSpec + T
    BY <1>4, <1>5
  <2> HIDE DEF T
  <2>2. m \in Nat /\ m = NumSpec + T
    BY <1>1, <1>7, <1>8, <2>1
  <2> QED
    BY <1>4, <2>2
<1>10. \A i \in k + 1 .. m :
         /\ i < T => s[i] = Null
         /\ i >= T => s[i] # Null
         /\ s[i] # Null => \/ s[i] \in Held(new)
                           \/ \E j \in k + 1 .. Len(found) : s[i] = found[j]
  BY <1>7, <1>8 DEF Extends
<1>11. \A i \in k + 1 .. m : s[i] # Null => s[i] \in Held(new)
  <2>1. k + 1 .. Len(found) = {}
    BY <1>1
  <2> QED
    BY <1>10, <2>1
<1> HIDE DEF T
<1>12. ASSUME NEW i \in 1 .. m, s[i] # Null, End(i) > w
       PROVE  i \in k + 1 .. m /\ T <= i
  <2>1. i \in Int /\ i <= m /\ End(i) \in Int
    BY <1>9, EndInt
  <2>2. ~(i <= k)
    <3>1. ~(End(i) <= End(k))
      BY <1>3, <1>4, <1>12, <2>1
    <3> QED
      BY <1>4, <2>1, <3>1, EndOrder
  <2>3. i \in k + 1 .. m
    BY <1>4, <1>9, <2>1, <2>2
  <2>4. ~(i < T)
    BY <1>10, <1>12, <2>3
  <2> QED
    BY <1>4, <2>1, <2>3, <2>4
<1>13. ASSUME NEW i \in 1 .. m, i >= Cdiv(sure) PROVE s[i] # Null
  <2>1. Cdiv(sure) > k /\ Cdiv(sure) \in Int
    <3> HIDE DEF sure
    <3>1. ~(Cdiv(sure) <= k) /\ Cdiv(sure) \in Int
      BY <1>3, <1>4, CdivEnd
    <3> QED
      BY <1>4, <3>1
  <2>2. i \in Int /\ i <= m /\ i > k
    BY <1>4, <1>9, <1>13, <2>1
  <2>3. i \in k + 1 .. m
    BY <1>4, <1>9, <2>2
  <2>4. T <= i
    <3>1. CASE drafts = 0
      <4>1. sure = total
        BY <1>1, <1>4, <3>1
      <4> QED
        BY <1>13, <4>1 DEF T
    <3>2. CASE drafts > 0
      <4>1. total <= End(k + 1) /\ k + 1 \in Int
        BY <1>1, <1>4, <3>2
      <4> HIDE DEF total
      <4>2. T <= k + 1
        BY <1>4, <4>1, CdivEnd DEF T
      <4> QED
        BY <1>4, <2>2, <4>2
    <3> QED
      BY <1>1, <3>1, <3>2
  <2> QED
    BY <1>10, <2>3, <2>4
<1>14. ASSUME NEW i \in 1 .. m, s[i] # Null, End(i) > w, End(i) <= sure
       PROVE  End(i) = sure
  <2>1. T <= i /\ i \in Int /\ End(i) \in Int
    BY <1>9, <1>12, <1>14, EndInt
  <2>2. total <= End(i)
    <3> HIDE DEF total
    <3> QED
      BY <1>4, <2>1, CdivEnd DEF T
  <2> HIDE DEF sure, total
  <2> QED
    BY <1>4, <1>14, <2>1, <2>2
<1>15. Laid(s, <<>>, w, sure, total, lacks)
  <2>1. <<>> \in Seq(AllBlocks) /\ Len(<<>>) = 0
    OBVIOUS
  <2>2. Len(<<>>) <= Len(s) /\ 1 .. Len(<<>>) = {}
    BY <1>8, <1>9, <2>1
  <2>3. T = Cdiv(total)
    BY DEF T
  <2>4. Len(s) = NumSpec + Cdiv(total) /\ Len(s) >= NumSpec + Cdiv(total)
    BY <1>4, <1>8, <1>9, <2>3
  <2> HIDE DEF total, sure
  <2> QED
    BY <1>8, <1>13, <1>14, <2>1, <2>2, <2>4 DEF Laid
<1>16. \A i \in 1 .. m : s[i] # Null /\ End(i) > w => s[i] \in Held(new)
  BY <1>11, <1>12
<1>17. s \in Seq(AllBlocks) /\ Len(s) \in Nat /\ Len(s) >= Cdiv(w + n)
  BY <1>7, <1>8, <1>9 DEF T
<1>19. Len(s) >= k /\ \A i \in 1 .. k : s[i] = found[i]
  BY <1>1, <1>7 DEF Extends
<1>18. LaidForFirst(found, k, n, drafts, lacks, new, s)
  BY <1>3, <1>8, <1>15, <1>16, <1>17, <1>19 DEF LaidForFirst
<1> QED
  BY <1>2, <1>18

(* A block that is hit is one with the hash of that state.                 *)
LEMMA HitBlocks ==
  ASSUME Shape, NEW r \in Requests, NEW found \in Hits(r), HitUsable(r, found),
         NEW b \in Held(found)
  PROVE  pool[b].hash # Nothing /\ pool[b].hash \notin fresh
         /\ pool[b].hash = After(r, End(Len(found)))
         /\ Len(found) >= 1 /\ found[Len(found)] = b
<1>1. CASE found = <<>>
  BY <1>1, EmptyList
<1>2. CASE found # <<>>
  <2>1. PICK k \in 1 .. (req[r].tokens - 1) \div BlockSize,
             c \in Blocks : /\ pool[c].hash = After(r, k * BlockSize)
                            /\ found = [i \in 1 .. k |-> IF i = k THEN c ELSE Null]
    BY <1>2 DEF Hits
  <2>2. k \in Int /\ k >= 1 /\ Len(found) = k /\ DOMAIN found = 1 .. k
    BY <2>1
  <2>3. b = c /\ found[k] = b
    BY <2>1, <2>2 DEF Held
  <2>4. k * BlockSize \in Int /\ k * BlockSize > 0 /\ k * BlockSize = End(k)
    <3>1. End(0) + BlockSize <= End(k) /\ End(0) = 0 /\ End(k) \in Int /\ k * BlockSize = End(k)
      BY <2>2, EndInt, EndOrder
    <3> QED
      BY <3>1, ManagerAssumption
  <2>5. pool[b].hash = After(r, k * BlockSize) /\ After(r, k * BlockSize).at = k * BlockSize
    BY <2>1, <2>3 DEF After
  <2>6. Nothing.at = 0
    BY DEF Nothing
  <2>7. pool[b].hash # Nothing
    BY <2>4, <2>5, <2>6
  <2>8. After(r, HitTokens(found)) \notin fresh /\ HitTokens(found) = k * BlockSize
    BY <2>2 DEF HitUsable, HitTokens
  <2> QED
    BY <2>2, <2>3, <2>4, <2>5, <2>7, <2>8
<1> QED
  BY <1>1, <1>2

LEMMA HitEntries ==
  ASSUME Shape, NEW r \in Requests, NEW found \in Hits(r), HitUsable(r, found),
         NEW i \in 1 .. Len(found)
  PROVE  /\ Len(found) \in Nat
         /\ found[Len(found)] \in Held(found)
         /\ found[i] # Null => i = Len(found)
<1>1. found # <<>>
  BY EmptyList
<1>2. PICK k \in 1 .. (req[r].tokens - 1) \div BlockSize,
           c \in Blocks : found = [j \in 1 .. k |-> IF j = k THEN c ELSE Null]
  BY <1>1 DEF Hits
<1>3. k \in Int /\ k >= 1 /\ Len(found) = k /\ DOMAIN found = 1 .. k
  BY <1>2
<1>4. c # Null
  BY ServingAssumption
<1>5. found[k] = c /\ k \in DOMAIN found /\ (found[i] # Null => i = k)
  BY <1>2, <1>3
<1>6. c \in Held(found)
  BY <1>4, <1>5 DEF Held
<1> QED
  BY <1>3, <1>5, <1>6

(* Admission: the list begins with the one found in the prefix cache, and  *)
(* the row with the state it ends in.                                      *)
Admits(r, found) ==
  /\ HitUsable(r, found) /\ NoneTwice(mgr'[r].blocks)
  /\ worker'[r].pos = End(Len(found))
  /\ worker'[r].index = Len(found) /\ worker'[r].bias = 0
  /\ Len(mgr'[r].blocks) \in Nat /\ Len(mgr'[r].blocks) >= Len(found)
  /\ \A i \in 1 .. Len(found) : mgr'[r].blocks[i] = found[i]

LEMMA AdmitSchedules ==
  ASSUME BlockInv, NEW r \in Requests, Admit(r)
  PROVE  /\ Scheduling(r) /\ content' = content
         /\ \E found \in Hits(r) : Admits(r, found)
<1>1. /\ CounterInv /\ ServingInv /\ Shape /\ References /\ RefInv
      /\ mgr \in [Requests -> Mgr] /\ pool \in [Blocks -> PoolEntry]
      /\ req \in [Requests -> Req]
      /\ Rows /\ InPass /\ NumSpec \in Nat
  BY ManagerAssumption
     DEF BlockInv, RefInv, References, CounterInv, Counters, ServingInv, Shape
<1>2. PICK found \in Hits(r) :
        /\ Admissible(r, found)
        /\ \E new \in Picks(Touch(pool, Held(found)),
                            NumNew(found, AdmitTotal(r, found), FALSE)) :
             LET tokens == Smaller(AdmitTotal(r, found), req[r].tokens)
                 blocks == AdmittedBlocks(r, found, new)
             IN  /\ pool' = Hashed(Take(Touch(pool, Held(found)), Held(new)), r, blocks,
                                   Len(found), tokens)
                 /\ mgr' = [mgr EXCEPT ![r] =
                              [blocks |-> blocks, sweep |-> 0,
                               cached |-> Larger(Len(found), tokens \div BlockSize)]]
                 /\ fresh' = fresh \union NewHashes(r, blocks, Len(found), tokens)
        /\ step' = Scheduled(r, [n |-> AdmitTokens(r, found),
                                 drafts |-> IF Padded(r, found) THEN NumSpec ELSE 0,
                                 padded |-> Padded(r, found), admitted |-> TRUE])
        /\ req' = [req EXCEPT ![r].status = "running", ![r].computed = HitTokens(found)]
        /\ worker' = [worker EXCEPT ![r] =
                        [NoRow EXCEPT !.pos = HitTokens(found), !.index = Len(found)]]
  BY DEF Admit
<1> DEFINE k == Len(found)
           n == AdmitTokens(r, found)
           drafts == IF Padded(r, found) THEN NumSpec ELSE 0
           total == End(k) + n
           tokens == Smaller(total, req[r].tokens)
           p == Touch(pool, Held(found))
           number == NumNew(found, total, FALSE)
<1>3. AdmitTotal(r, found) = total /\ HitTokens(found) = End(k)
  BY DEF AdmitTotal, HitTokens, End
<1>4. PICK new \in Picks(p, number) :
        /\ pool' = Hashed(Take(p, Held(new)), r, AdmittedBlocks(r, found, new), k, tokens)
        /\ mgr' = [mgr EXCEPT ![r] =
                     [blocks |-> AdmittedBlocks(r, found, new), sweep |-> 0,
                      cached |-> Larger(k, tokens \div BlockSize)]]
        /\ fresh' = fresh \union NewHashes(r, AdmittedBlocks(r, found, new), k, tokens)
  BY <1>2, <1>3
<1>5. PICK s : s = Allocated(found, total, FALSE, new)
  OBVIOUS
<1>6. PICK N : N = Held(new)
  OBVIOUS
<1>7. AdmittedBlocks(r, found, new) = s
  BY <1>3, <1>5 DEF AdmittedBlocks
<1>8. /\ found \in Seq(AllBlocks) /\ k \in Nat /\ NoneTwice(found) /\ Held(found) \subseteq Blocks
      /\ End(k) \in Int
  BY <1>1, HitsType, HitsHeld, HeldInBlocks, EndInt
<1>9. /\ n \in Int /\ n >= 1 /\ req[r].tokens \in Int
      /\ Padded(r, found) => n = 1 + NumSpec /\ req[r].tokens - End(k) = 1
  <2>1. /\ AdmitTokens(r, found) \in Int /\ AdmitTokens(r, found) >= 1
        /\ Padded(r, found) => /\ AdmitTokens(r, found) = 1 + NumSpec
                               /\ req[r].tokens - HitTokens(found) = 1
    BY <1>1, <1>2, AdmissionAtMost
  <2> QED
    BY <1>1, <1>3, <2>1, ReqFields
<1>10. /\ drafts \in Int /\ drafts >= 0 /\ drafts <= NumSpec
       /\ drafts > 0 => n = 1 + drafts /\ req[r].tokens - End(k) = 1
  <2> HIDE DEF n
  <2> QED
    BY <1>1, <1>9
<1> HIDE DEF n, drafts
<1>11. total \in Int /\ tokens \in Int /\ tokens <= total /\ tokens <= req[r].tokens
  <2>1. total \in Int
    BY <1>8, <1>9
  <2> HIDE DEF total
  <2> QED
    BY <1>9, <2>1 DEF Smaller
<1>12. /\ new \in [1 .. number -> FreeBlocks(p)] /\ FreeBlocks(p) \subseteq Blocks
       /\ new \in [1 .. number -> Blocks]
       /\ \A i, j \in 1 .. number : i # j => new[i] # new[j]
  BY DEF Picks, FreeBlocks
<1>13. PICK lacks : lacks = Lacks(r)'
  OBVIOUS
<1>14. /\ s \in Seq(AllBlocks) /\ Len(s) \in Nat /\ Len(s) >= Cdiv(total)
       /\ Laid(s, <<>>, End(k), End(k) + n - drafts, total, lacks)
       /\ \A i \in 1 .. Len(s) : s[i] # Null /\ End(i) > End(k) => s[i] \in N
       /\ Len(s) >= k /\ \A i \in 1 .. k : s[i] = found[i]
  <2>1. Admitting(found, k, n, drafts, new)
    BY <1>8, <1>9, <1>10, <1>12 DEF Admitting
  <2>2. LaidForFirst(found, k, n, drafts, lacks, new, Allocated(found, End(k) + n, FALSE, new))
    <3> HIDE DEF k
    <3> QED
      BY <2>1, AdmittedLaid
  <2>3. LaidForFirst(found, k, n, drafts, lacks, new, s)
    BY <1>5, <2>2
  <2> QED
    BY <1>6, <2>3 DEF LaidForFirst
<1>15. /\ mgr'[r].blocks = s /\ mgr'[r].cached = Larger(k, tokens \div BlockSize)
       /\ \A x \in Requests : x # r => mgr'[x] = mgr[x]
       /\ pool' = Hashed(Take(p, N), r, s, k, tokens)
       /\ fresh' = fresh \union NewHashes(r, s, k, tokens)
  <2> HIDE DEF p, k, tokens
  <2> QED
    BY <1>1, <1>4, <1>6, <1>7
<1>16. NoneTwice(s)
  <2>1. ServingInv' /\ References'
    BY <1>1, AdmitServing, AdmitReferences
  <2> QED
    BY <1>15, <2>1 DEF References
<1> DEFINE H == HeldByAll(mgr)
           H1 == Gains(H, r, Held(found))
<1>17. /\ r \notin DOMAIN step /\ List(r) = <<>>
       /\ H[r] = {} /\ H \in [Requests -> SUBSET Blocks]
       /\ \A x \in Requests : H[x] = Held(List(x))
  <2>1. req[r].status # "running"
    BY <1>2 DEF Admissible, MayResume
  <2>2. List(r) = <<>>
    BY <1>1, <2>1 DEF References, List
  <2>3. r \notin DOMAIN step
    BY <1>1, <2>1 DEF InPass, Planned
  <2>4. Held(List(r)) = {}
    BY <2>2, EmptyList
  <2>5. H \in [Requests -> SUBSET Blocks] /\ \A x \in Requests : H[x] = Held(List(x))
    BY <1>1, HeldByAllType DEF List
  <2> QED
    BY <2>2, <2>3, <2>4, <2>5
<1>18. pool \in [Blocks -> PoolEntry] /\ Counted(pool, H)
  BY <1>1 DEF References
<1> HIDE DEF H
<1>19. p \in [Blocks -> PoolEntry] /\ Counted(p, H1) /\ H1 \in [Requests -> SUBSET Blocks]
  <2> DEFINE S == Held(found)
  <2>1. S \in SUBSET Blocks
    BY <1>8
  <2> HIDE DEF S
  <2>2. S \intersect H[r] = {}
    BY <1>17
  <2>3. /\ Touch(pool, S) \in [Blocks -> PoolEntry]
        /\ Counted(Touch(pool, S), Gains(H, r, S))
        /\ Gains(H, r, S) \in [Requests -> SUBSET Blocks]
    BY <1>17, <1>18, <2>1, <2>2, TouchCounted
  <2> QED
    BY <2>3 DEF S
<1>20. H1[r] = Held(found) /\ \A x \in Requests : x # r => H1[x] = Held(List(x))
  BY <1>17 DEF Gains
<1>21. \A b \in Blocks : p[b].hash = pool[b].hash
  BY <1>1, PoolHashes
<1> HIDE DEF p, H1
<1>22. N \subseteq FreeBlocks(p) /\ N \subseteq Blocks
  <2> HIDE DEF number
  <2> QED
    BY <1>6, <1>12 DEF Held
<1>23. \A b \in N : \A x \in Requests \ {r} : b \notin Held(List(x))
  <2>1. \A b \in N : \A x \in Requests : b \notin H1[x]
    BY <1>19, <1>22, FreeUnheld
  <2> QED
    BY <1>20, <2>1
<1>24. Take(p, N) \in [Blocks -> PoolEntry]
  BY <1>19, <1>22, TakeCounted
<1>25. Held(s) = Held(found) \union N
  <2> DEFINE F == FreeBlocks(p)
  <2>1. F \in SUBSET Blocks /\ F \intersect Held(found) = {}
    BY <1>12, <1>19, <1>20, FreeUnheld
  <2>2. /\ FALSE \in BOOLEAN /\ new \in [1 .. NumNew(found, total, FALSE) -> F]
        /\ \A i, j \in 1 .. NumNew(found, total, FALSE) : i # j => new[i] # new[j]
    BY <1>12
  <2> HIDE DEF F, total, number
  <2>3. /\ Held(new) \subseteq F
        /\ Held(Allocated(found, total, FALSE, new)) = Held(found) \union Held(new)
        /\ NoneTwice(Allocated(found, total, FALSE, new))
    BY <1>8, <1>11, <2>1, <2>2, AllocatedHeld
  <2> QED
    BY <1>5, <1>6, <2>3
<1>26. HitUsable(r, found)
  BY <1>2 DEF Admissible
<1>27. \A b \in Held(s) : \/ b \in N \/ b \in Held(List(r))
                          \/ pool[b].hash # Nothing /\ pool[b].hash \notin fresh
  <2>1. \A b \in Held(found) : pool[b].hash # Nothing /\ pool[b].hash \notin fresh
    BY <1>1, <1>26, HitBlocks
  <2> QED
    BY <1>25, <2>1
<1>28. ASSUME NEW i \in Filled(s, k, tokens)
       PROVE  i \in 1 .. Len(s) /\ s[i] \in N
  <2>1. i \in k + 1 .. tokens \div BlockSize /\ s[i] # Null /\ tokens \div BlockSize \in Int
    BY <1>11, <1>28, DivEnd DEF Filled
  <2> HIDE DEF tokens, total, k
  <2>2. i \in Int /\ i >= 1 /\ i > k /\ i <= tokens \div BlockSize
    BY <1>8, <2>1
  <2>3. End(i) <= tokens /\ End(i) \in Int
    BY <1>11, <2>2, DivEnd, EndInt
  <2>4. Cdiv(total) \in Int
    BY <1>11, CdivInt
  <2>5. ~(Cdiv(total) <= i - 1)
    <3> DEFINE j == i - 1
    <3>1. j \in Int /\ End(j + 1) = End(j) + BlockSize /\ j + 1 = i
      BY <2>2, EndOrder
    <3>2. End(j) \in Int
      BY <3>1, EndInt
    <3>3. End(j) < total
      BY <1>11, <2>3, <3>1, <3>2, ManagerAssumption
    <3> HIDE DEF j
    <3>4. ~(Cdiv(total) <= j)
      BY <1>11, <3>1, <3>2, <3>3, CdivEnd
    <3> QED
      BY <3>4 DEF j
  <2>6. i \in 1 .. Len(s)
    BY <1>14, <2>2, <2>4, <2>5
  <2>7. End(i) > End(k)
    <3>1. End(k) + BlockSize <= End(i)
      BY <1>8, <2>2, EndOrder
    <3> QED
      BY <1>8, <2>3, <3>1, ManagerAssumption
  <2> QED
    BY <1>14, <2>1, <2>6, <2>7
<1>29. /\ r \in DOMAIN step' /\ step'[r].n = n /\ step'[r].drafts = drafts
       /\ \A x \in Requests : x # r => /\ x \in DOMAIN step' <=> x \in DOMAIN step
                                       /\ x \in DOMAIN step => step'[x] = step[x]
  <2> DEFINE entry == [n |-> n, drafts |-> drafts, padded |-> Padded(r, found),
                       admitted |-> TRUE]
  <2>1. step' = Scheduled(r, entry) /\ entry.n = n /\ entry.drafts = drafts
    BY <1>2 DEF n, drafts
  <2> HIDE DEF entry
  <2> QED
    BY <2>1 DEF Scheduled
<1>30. /\ worker'[r].table = <<>> /\ worker'[r].pos = End(k)
       /\ worker'[r].index = k /\ worker'[r].bias = 0
       /\ \A x \in Requests : x # r => worker'[x] = worker[x]
  <2> DEFINE row == [NoRow EXCEPT !.pos = HitTokens(found), !.index = Len(found)]
  <2>1. row.table = <<>> /\ row.pos = End(k) /\ row.index = k /\ row.bias = 0
    BY <1>3 DEF NoRow
  <2>2. worker' = [worker EXCEPT ![r] = row]
    BY <1>2
  <2> HIDE DEF row
  <2> QED
    BY <1>1, <2>1, <2>2 DEF Rows
<1>31. req'[r].computed = End(k) /\ \A x \in Requests : x # r => req'[x] = req[x]
  BY <1>1, <1>2, <1>3 DEF Req
<1>32. Sure(r)' = End(k) + n - drafts /\ Top(r)' = total
  <2> HIDE DEF k
  <2> QED
    BY <1>29, <1>30, <1>31 DEF Sure, Top
<1>33. End(k) + n - drafts \in Int /\ tokens <= End(k) + n - drafts
  <2> DEFINE e == End(k)
  <2>1. /\ e \in Int /\ n \in Int /\ drafts \in Int /\ drafts >= 0
        /\ drafts > 0 => n = 1 + drafts /\ req[r].tokens - e = 1
        /\ tokens \in Int /\ tokens <= e + n /\ tokens <= req[r].tokens /\ req[r].tokens \in Int
    BY <1>8, <1>9, <1>10, <1>11
  <2> HIDE DEF e, tokens, k
  <2>2. e + n - drafts \in Int /\ tokens <= e + n - drafts
    BY <2>1
  <2> QED
    BY <2>2 DEF e
<1>34. Laid(s, worker'[r].table, worker'[r].pos, Sure(r)', Top(r)', Lacks(r)')
  <2> HIDE DEF total, k
  <2> QED
    BY <1>13, <1>14, <1>30, <1>32
<1>35. \A i \in 1 .. Len(s) : s[i] # Null /\ End(i) > worker'[r].pos =>
         \/ s[i] \in N
         \/ /\ \A x \in Requests \ {r} : s[i] \notin Held(List(x))
            /\ pool[s[i]].hash = Nothing
  BY <1>14, <1>30
<1>36. \A x \in Requests : x # r =>
         /\ mgr'[x] = mgr[x] /\ worker'[x] = worker[x] /\ req'[x] = req[x]
         /\ x \in DOMAIN step' <=> x \in DOMAIN step
         /\ x \in DOMAIN step => step'[x] = step[x]
  BY <1>15, <1>29, <1>30, <1>31
<1>37. \A i \in Filled(s, k, tokens) :
         i \in 1 .. Len(s) /\ (s[i] \in N \/ s[i] \in Held(List(r)))
  BY <1>28
<1>38. Sure(r)' \in Int /\ tokens <= Sure(r)' /\ tokens \in Int
  <2> HIDE DEF tokens, k
  <2> QED
    BY <1>11, <1>32, <1>33
<1>39. Schedules(r, s, p, N, k, tokens)
  <2> HIDE DEF k, tokens
  <2> QED
    BY <1>8, <1>14, <1>15, <1>16, <1>17, <1>19, <1>21, <1>22, <1>23, <1>24, <1>27, <1>29,
       <1>34, <1>35, <1>36, <1>37, <1>38 DEF Schedules
<1>40. k \in Nat /\ tokens \in Int /\ N \in SUBSET Blocks
  BY <1>8, <1>11, <1>22
<1>41. Admits(r, found)
  BY <1>14, <1>15, <1>16, <1>26, <1>30 DEF Admits
<1>42. content' = content
  BY DEF Admit
<1> HIDE DEF k, tokens
<1>43. Scheduling(r)
  BY <1>14, <1>19, <1>39, <1>40 DEF Scheduling
<1> QED
  BY <1>41, <1>42, <1>43

-----------------------------------------------------------------------------
(* What a scheduled step's counts say.                                     *)
LEMMA StepCounts ==
  ASSUME CounterInv, NEW r \in DOMAIN step
  PROVE  /\ r \in Requests /\ req[r].status = "running"
         /\ step[r].n \in Nat /\ step[r].drafts \in Nat
         /\ step[r].drafts < step[r].n /\ step[r].drafts <= NumSpec
         /\ Sure(r) \in Int /\ Sure(r) > worker[r].pos /\ worker[r].pos \in Int
         /\ worker[r].pos >= 0 /\ worker[r].pos <= req[r].computed
         /\ Top(r) = req[r].computed + step[r].n /\ Top(r) \in Int
         /\ worker[r].pos + step[r].n \in Int /\ worker[r].pos + step[r].n <= Top(r)
         /\ Lacks(r) \in Int /\ (IsChunk(r) <=> Lacks(r) > 0)
         /\ Sure(r) + step[r].drafts = worker[r].pos + step[r].n
         /\ Lag(req[r]) \in Int /\ Lag(req[r]) >= 1
         /\ Lag(req[r]) > 1 => worker[r].pos = req[r].computed
         /\ step[r].n <= Lag(req[r]) + step[r].drafts
         /\ step[r].drafts > 0 => Lag(req[r]) = 1
         /\ ~IsChunk(r) => step[r].n = Lag(req[r]) + step[r].drafts
<1>1. Shape /\ Planned(req[r], step[r]) /\ r \in Requests
      /\ step[r].n \in Int /\ step[r].drafts \in Int /\ NumSpec \in Nat
  BY StepFields, ManagerAssumption DEF CounterInv, Counters, ServingInv, Shape, InPass
<1>2. /\ req[r].status = "running"
      /\ step[r].n >= 1 /\ step[r].drafts >= 0 /\ step[r].drafts <= NumSpec
      /\ step[r].n <= Lag(req[r]) + step[r].drafts
      /\ step[r].drafts > 0 => step[r].n = Lag(req[r]) + step[r].drafts /\ Lag(req[r]) = 1
  BY <1>1 DEF Planned
<1>3. /\ req[r].tokens \in Int /\ req[r].computed \in Int /\ req[r].placeholders \in Int
      /\ worker[r].pos \in Int /\ worker[r].pos >= 0 /\ worker[r].pos <= req[r].computed
      /\ Lag(req[r]) \in Int /\ Lag(req[r]) >= 1
      /\ Lag(req[r]) > 1 => worker[r].pos = req[r].computed
  BY <1>1, <1>2, RunningCounts
<1>4. /\ Sure(r) = worker[r].pos + step[r].n - step[r].drafts
      /\ Top(r) = req[r].computed + step[r].n
  BY DEF Sure, Top
<1>5. Lacks(r) = req[r].tokens + req[r].placeholders - Top(r)
  BY DEF Lacks
<1>6. Lag(req[r]) = req[r].tokens + req[r].placeholders - req[r].computed
  BY DEF Lag
<1>7. IsChunk(r) <=> req[r].computed + step[r].n < req[r].tokens + req[r].placeholders
  BY DEF IsChunk
<1> DEFINE l == Lag(req[r])
<1> HIDE DEF l
<1>8. /\ l \in Int /\ l = req[r].tokens + req[r].placeholders - req[r].computed
      /\ l >= 1 /\ step[r].n <= l + step[r].drafts
      /\ step[r].drafts > 0 => step[r].n = l + step[r].drafts
  BY <1>2, <1>3, <1>6 DEF l
<1>9. /\ step[r].n \in Nat /\ step[r].drafts \in Nat /\ step[r].drafts < step[r].n
  BY <1>1, <1>2, <1>8
<1>10. Sure(r) \in Int /\ Sure(r) > worker[r].pos
       /\ Sure(r) + step[r].drafts = worker[r].pos + step[r].n
  BY <1>3, <1>4, <1>9
<1>11. Top(r) \in Int /\ worker[r].pos + step[r].n \in Int
       /\ worker[r].pos + step[r].n <= Top(r)
  BY <1>1, <1>3, <1>4
<1>12. Lacks(r) \in Int /\ Lacks(r) = l - step[r].n
  BY <1>1, <1>3, <1>4, <1>5, <1>8
<1>13. IsChunk(r) <=> Lacks(r) > 0
  BY <1>1, <1>3, <1>7, <1>8, <1>12
<1>14. ~IsChunk(r) => step[r].n = l + step[r].drafts
  BY <1>1, <1>2, <1>8, <1>12, <1>13
<1> QED
  BY <1>1, <1>2, <1>3, <1>4, <1>9, <1>10, <1>11, <1>12, <1>13, <1>14 DEF l

(* The runner's table and the list agree where the list has a block.       *)
LEMMA TableEntries ==
  ASSUME BlockInv, NEW r \in Requests, req[r].status = "running"
  PROVE  /\ Table(r) \in Seq(AllBlocks) /\ List(r) \in Seq(AllBlocks)
         /\ Len(List(r)) \in Nat /\ Len(Table(r)) = Len(List(r))
         /\ \A i \in 1 .. Len(List(r)) : List(r)[i] # Null => Table(r)[i] = List(r)[i]
<1> DEFINE t == worker[r].table
           B == List(r)
           k == Len(t)
           m == Len(B)
           u == SubSeq(B, k + 1, m)
<1>1. Laid(B, t, worker[r].pos, SureOf(r), Top(r), Lacks(r))
  BY DEF BlockInv, Lists
<1>2. /\ t \in Seq(AllBlocks) /\ k <= m /\ \A i \in 1 .. k : B[i] # Null => t[i] = B[i]
  BY <1>1 DEF Laid
<1>3. B \in Seq(AllBlocks) /\ m \in Nat /\ k \in Nat
  <2>1. B \in Seq(AllBlocks)
    BY MgrFields DEF BlockInv, CounterInv, ServingInv, Shape, List
  <2> QED
    BY <1>2, <2>1, LenProperties
<1>4. Table(r) = t \o u
  BY DEF Table, List
<1> HIDE DEF B, t
<1>5. u \in Seq(AllBlocks) /\ Len(u) = m - k /\ \A i \in 1 .. m - k : u[i] = B[k + i]
  <2>1. CASE k = m
    <3>1. u = <<>>
      BY <1>3, <2>1
    <3>2. u \in Seq(AllBlocks) /\ Len(u) = 0 /\ m - k = 0 /\ 1 .. 0 = {}
      BY <1>3, <2>1, <3>1
    <3> QED
      BY <3>2
  <2>2. CASE k < m
    <3>1. k + 1 \in 1 .. m /\ m \in k + 1 .. m
      BY <1>3, <2>2
    <3> QED
      BY <1>3, <2>2, <3>1
  <2> QED
    BY <1>2, <1>3, <2>1, <2>2
<1> HIDE DEF u
<1>6. /\ t \o u \in Seq(AllBlocks) /\ Len(t \o u) = Len(t) + Len(u)
      /\ \A i \in 1 .. Len(t) + Len(u) :
           (t \o u)[i] = IF i <= Len(t) THEN t[i] ELSE u[i - Len(t)]
  BY <1>2, <1>5, ConcatProperties
<1>7. k + (m - k) = m
  BY <1>3
<1>8. ASSUME NEW i \in 1 .. m, B[i] # Null PROVE (t \o u)[i] = B[i]
  <2>1. i \in 1 .. Len(t) + Len(u)
    BY <1>5, <1>7
  <2>2. CASE i <= k
    <3>1. i \in 1 .. k
      BY <1>3, <2>2
    <3> QED
      BY <1>2, <1>6, <1>8, <2>1, <2>2, <3>1
  <2>3. CASE ~(i <= k)
    <3>1. i - k \in 1 .. m - k /\ k + (i - k) = i
      BY <1>3, <2>3
    <3>2. (t \o u)[i] = u[i - k]
      BY <1>6, <2>1, <2>3
    <3> QED
      BY <1>5, <3>1, <3>2
  <2> QED
    BY <2>2, <2>3
<1> QED
  BY <1>3, <1>4, <1>5, <1>6, <1>7, <1>8 DEF B

LEMMA DispatchLists ==
  ASSUME BlockInv, Dispatch
  PROVE  Lists'
<1>1. /\ Shape /\ Lists /\ CounterInv /\ req \in [Requests -> Req] /\ Rows /\ InPass
      /\ DOMAIN step \subseteq Requests /\ NumSpec \in Nat
  BY StepFields, ManagerAssumption DEF BlockInv, CounterInv, Counters, ServingInv, Shape
<1>2. PICK accepted \in Acceptances :
        worker' = [r \in Requests |-> IF r \in DOMAIN step THEN NextRow(r, accepted[r])
                                      ELSE worker[r]]
  BY DEF Dispatch
<1>3. /\ req' = [r \in Requests |-> IF r \in DOMAIN step THEN AdvancedReq(r) ELSE req[r]]
      /\ step' = <<>> /\ DOMAIN step' = {} /\ pool' = pool /\ mgr' = mgr /\ fresh' = fresh
  BY DEF Dispatch, ResetPass
<1>4. \A x \in Requests : mgr'[x].cached \in Nat
  BY <1>1, <1>3 DEF Lists
<1>5. ASSUME NEW r \in Requests, r \notin DOMAIN step, req[r].status = "running"
      PROVE  /\ Laid(List(r), worker[r].table, worker[r].pos, SureOf(r), Top(r), Lacks(r))'
             /\ OwnsAhead(r)'
  <2>1. /\ req'[r] = req[r] /\ worker'[r] = worker[r] /\ mgr'[r].blocks = mgr[r].blocks
        /\ r \in DOMAIN step' <=> r \in DOMAIN step
        /\ r \in DOMAIN step => step'[r] = step[r] /\ fresh \subseteq fresh'
    BY <1>2, <1>3, <1>5
  <2>2. \A y \in Requests \ {r} : \A b \in Held(mgr'[y].blocks) : b \in Held(List(y))
    BY <1>3 DEF List
  <2>3. \A b \in Held(List(r)) : pool'[b].hash = pool[b].hash
    BY <1>3
  <2> QED
    BY <1>1, <1>5, <2>1, <2>2, <2>3, OthersKeep
<1>6. ASSUME NEW r \in Requests, r \in DOMAIN step
      PROVE  /\ Laid(List(r), worker[r].table, worker[r].pos, SureOf(r), Top(r), Lacks(r))'
             /\ OwnsAhead(r)'
  <2> DEFINE a == accepted[r]
             B == List(r)
             pos == Sure(r) + a
  <2>1. /\ req[r].status = "running" /\ Sure(r) \in Int /\ Sure(r) > worker[r].pos
        /\ worker[r].pos \in Int /\ Top(r) \in Int /\ Lacks(r) \in Int
        /\ Top(r) = req[r].computed + step[r].n
        /\ (IsChunk(r) <=> Lacks(r) > 0)
        /\ ~IsChunk(r) => step[r].n = Lag(req[r]) + step[r].drafts
        /\ step[r].n \in Int /\ step[r].drafts \in Int /\ step[r].drafts >= 0
    BY <1>1, <1>6, StepCounts
  <2>2. a \in Nat
    <3>1. a \in 0 .. NumSpec
      BY <1>6 DEF Acceptances
    <3> QED
      BY <1>1, <3>1
  <2>3. worker'[r].table = Table(r) /\ worker'[r].pos = pos
    BY <1>2, <1>6 DEF NextRow
  <2>4. pos \in Int /\ pos >= Sure(r) /\ pos > worker[r].pos
    BY <2>1, <2>2
  <2>5. /\ req'[r].tokens = req[r].tokens /\ req'[r].computed = req[r].computed + step[r].n
        /\ req'[r].placeholders = IF IsChunk(r) THEN req[r].placeholders
                                  ELSE req[r].placeholders + 1 + step[r].drafts
    BY <1>1, <1>3, <1>6, AdvancedFields
  <2>6. List(r)' = B /\ Top(r)' = Top(r) /\ SureOf(r)' = pos
    <3> HIDE DEF pos
    <3> QED
      BY <1>3, <2>1, <2>3, <2>5 DEF List, Top, SureOf
  <2>7. Lacks(r)' > 1 => Lacks(r) > 1
    <3>1. /\ req[r].tokens \in Int /\ req[r].computed \in Int /\ req[r].placeholders \in Int
          /\ Lag(req[r]) = req[r].tokens + req[r].placeholders - req[r].computed
      BY <1>1, <2>1, ReqFields DEF Lag
    <3>2. Lacks(r)' = req[r].tokens + req'[r].placeholders - Top(r)
      BY <2>5, <2>6 DEF Lacks
    <3>3. Lacks(r) = req[r].tokens + req[r].placeholders - Top(r)
      BY DEF Lacks
    <3>4. CASE IsChunk(r)
      BY <2>5, <3>2, <3>3, <3>4
    <3>5. CASE ~IsChunk(r)
      <4>1. req'[r].placeholders = req[r].placeholders + 1 + step[r].drafts
            /\ step[r].n = Lag(req[r]) + step[r].drafts
        BY <2>1, <2>5, <3>5
      <4>2. Lacks(r)' = 1
        BY <2>1, <3>1, <3>2, <4>1
      <4> QED
        BY <4>2
    <3> QED
      BY <3>4, <3>5
  <2>8. /\ Laid(B, worker[r].table, worker[r].pos, Sure(r), Top(r), Lacks(r)) /\ OwnsAhead(r)
    BY <1>1, <1>6, <2>1 DEF Lists, SureOf
  <2>9. /\ Table(r) \in Seq(AllBlocks) /\ Len(B) \in Nat /\ Len(Table(r)) = Len(B)
        /\ \A i \in 1 .. Len(B) : B[i] # Null => Table(r)[i] = B[i]
    BY <2>1, TableEntries
  <2> HIDE DEF pos, B
  <2>10. \A i \in 1 .. Len(B) : i >= Cdiv(pos) => B[i] # Null
    <3> SUFFICES ASSUME NEW i \in 1 .. Len(B), i >= Cdiv(pos) PROVE B[i] # Null
      OBVIOUS
    <3>1. i \in Int /\ End(i) \in Int /\ Cdiv(pos) \in Int /\ Cdiv(Sure(r)) \in Int
      BY <2>1, <2>4, EndInt, CdivInt
    <3>2. pos <= End(i)
      BY <2>4, <3>1, CdivEnd
    <3>3. Cdiv(Sure(r)) <= i
      <4>1. Sure(r) <= End(i)
        BY <2>1, <2>4, <3>1, <3>2
      <4> QED
        BY <2>1, <3>1, <4>1, CdivEnd
    <3>4. i >= Cdiv(Sure(r))
      BY <3>1, <3>3
    <3> QED
      BY <2>8, <3>4 DEF Laid
  <2>11. Laid(B, Table(r), pos, pos, Top(r), Lacks(r)')
    <3>1. \A i \in 1 .. Len(B) : ~(End(i) > pos /\ End(i) <= pos)
      <4> SUFFICES ASSUME NEW i \in 1 .. Len(B) PROVE ~(End(i) > pos /\ End(i) <= pos)
        OBVIOUS
      <4>1. End(i) \in Int
        BY EndInt
      <4> QED
        BY <2>4, <4>1
    <3>2. Len(B) >= NumSpec + Cdiv(Top(r))
          /\ (Lacks(r) > 1 => Len(B) = NumSpec + Cdiv(Top(r)))
      BY <2>8 DEF Laid
    <3>3. Len(B) <= Len(B)
      BY <2>9
    <3> QED
      BY <2>7, <2>9, <2>10, <3>1, <3>2, <3>3 DEF Laid
  <2>12. Laid(List(r), worker[r].table, worker[r].pos, SureOf(r), Top(r), Lacks(r))'
    BY <2>3, <2>6, <2>11 DEF Laid, End, Cdiv
  <2>13. ASSUME NEW i \in 1 .. Len(B), B[i] # Null, End(i) > pos
         PROVE  /\ \A x \in Requests \ {r} : B[i] \notin Held(List(x))
                /\ pool[B[i]].hash = Nothing
    <3>1. End(i) \in Int
      BY EndInt
    <3>2. End(i) > worker[r].pos /\ End(i) # Sure(r)
      BY <2>1, <2>4, <2>13, <3>1
    <3> QED
      BY <2>8, <2>13, <3>2 DEF OwnsAhead, Marked, B
  <2>14. \A x \in Requests : List(x)' = List(x)
    BY <1>3 DEF List
  <2>15. OwnsAhead(r)'
    BY <1>3, <2>3, <2>6, <2>13, <2>14 DEF OwnsAhead, End
  <2> QED
    BY <2>12, <2>15
<1>7. ASSUME NEW r \in Requests, req'[r].status = "running" PROVE req[r].status = "running"
  BY <1>1, <1>3, <1>7, AdvancedFields
<1> QED
  BY <1>4, <1>5, <1>6, <1>7 DEF Lists

LEMMA GrowLists ==
  ASSUME BlockInv, Grow
  PROVE  Lists'
<1>1. PICK r \in Requests : r = Current
  BY CurrentRunning DEF Grow, BlockInv, RefInv, CounterInv, Counters, ServingInv
<1>2. Scheduling(r)
  BY <1>1, GrowSchedules
<1> QED
  BY <1>2, ScheduledLists DEF Scheduling

LEMMA AdmitLists ==
  ASSUME BlockInv, NEW r \in Requests, Admit(r)
  PROVE  Lists'
<1>1. Scheduling(r)
  BY AdmitSchedules
<1> QED
  BY <1>1, ScheduledLists DEF Scheduling

LEMMA StepLists ==
  ASSUME BlockInv, [Next]_vars
  PROVE  Lists'
<1>1. ASSUME Unmoved PROVE Lists'
  BY <1>1, SameLists DEF BlockInv, RefInv, CounterInv, Counters, ServingInv
<1>2. CASE Pass
  BY <1>1, <1>2, QuietUnmoved, GrowLists, PreemptLists, AdmitLists, DispatchLists
     DEF Pass, BlockInv
<1>3. ASSUME NEW r \in Requests, Arrive(r) \/ Abort(r) \/ Update(r)
      PROVE  Lists'
  BY <1>1, <1>3, QuietUnmoved, AbortLists, UpdateTokensLists DEF Update, BlockInv
<1> QED
  BY <1>1, <1>2, <1>3, QuietUnmoved DEF Next, BlockInv

LEMMA BlockInvariant == Spec => []BlockInv
<1>1. Init => BlockInv
  BY InitServing, InitReferences, InitCounters, InitLists DEF BlockInv, RefInv, CounterInv
<1>2. BlockInv /\ [Next]_vars => BlockInv'
  <2>1. ServingInv /\ [Next]_vars => ServingInv'
    BY StepServing
  <2>2. RefInv /\ ServingInv' /\ [Next]_vars => References'
    BY StepReferences
  <2>3. CounterInv /\ [Next]_vars => Counters'
    BY StepCounters
  <2>4. BlockInv /\ [Next]_vars => Lists'
    BY StepLists
  <2> QED
    BY <2>1, <2>2, <2>3, <2>4 DEF BlockInv, RefInv, CounterInv
<1> QED
  BY <1>1, <1>2, PTL DEF Spec

-----------------------------------------------------------------------------
(* A step writes entries behind the tokens computed before, from that of   *)
(* the sure state on.                                                      *)
WrittenAt(r, a, i) ==
  \/ \E j \in 0 .. step[r].drafts : i = Target(r) + j
  \/ PassesBoundary(r, a) /\ i = Boundary(r, a) \div BlockSize

LEMMA WrittenEntry ==
  ASSUME BlockInv, NEW r \in DOMAIN step, NEW a \in 0 .. step[r].drafts,
         NEW i, WrittenAt(r, a, i)
  PROVE  /\ i \in 1 .. Len(List(r)) /\ i \in Int /\ End(i) > worker[r].pos
         /\ End(i) >= Sure(r) /\ List(r)[i] # Null /\ Table(r)[i] = List(r)[i]
<1>1. /\ r \in Requests /\ req[r].status = "running"
      /\ step[r].n \in Nat /\ step[r].drafts \in Nat
      /\ step[r].drafts < step[r].n /\ step[r].drafts <= NumSpec
      /\ Sure(r) \in Int /\ Sure(r) > worker[r].pos /\ worker[r].pos \in Int
      /\ worker[r].pos >= 0 /\ Top(r) \in Int
      /\ worker[r].pos + step[r].n \in Int /\ worker[r].pos + step[r].n <= Top(r)
      /\ Sure(r) + step[r].drafts = worker[r].pos + step[r].n
  BY StepCounts DEF BlockInv
<1>2. Laid(List(r), worker[r].table, worker[r].pos, Sure(r), Top(r), Lacks(r))
  BY <1>1 DEF BlockInv, Lists, SureOf
<1>3. /\ Len(List(r)) \in Nat
      /\ \A k \in 1 .. Len(List(r)) : List(r)[k] # Null => Table(r)[k] = List(r)[k]
  BY <1>1, TableEntries
<1> DEFINE e == worker[r].pos + step[r].n
<1>4. /\ NumSpec \in Nat /\ a \in Int /\ a >= 0 /\ a <= step[r].drafts
      /\ Target(r) = Cdiv(e) /\ Target(r) \in Int /\ Cdiv(Top(r)) \in Int
  BY <1>1, ManagerAssumption, CdivInt DEF Target
<1>5. e \in Int /\ e <= Top(r) /\ Sure(r) + step[r].drafts = e /\ e >= Sure(r)
  BY <1>1
<1> HIDE DEF e
<1>6. Target(r) <= Cdiv(Top(r))
  <2>1. Top(r) <= End(Cdiv(Top(r))) /\ End(Cdiv(Top(r))) \in Int
    BY <1>1, <1>4, CdivEnd, EndInt
  <2>2. e <= End(Cdiv(Top(r)))
    BY <1>1, <1>5, <2>1
  <2> QED
    BY <1>4, <1>5, <2>2, CdivEnd
<1>7. i \in Int /\ i <= Target(r) + NumSpec /\ End(i) >= Sure(r) /\ End(i) \in Int
  <2>1. CASE \E j \in 0 .. step[r].drafts : i = Target(r) + j
    <3>1. PICK j \in 0 .. step[r].drafts : i = Target(r) + j
      BY <2>1
    <3>2. i \in Int /\ i >= Target(r) /\ i <= Target(r) + NumSpec
      BY <1>1, <1>4, <3>1
    <3>3. e <= End(i) /\ End(i) \in Int
      BY <1>4, <1>5, <3>2, CdivEnd, EndInt
    <3> QED
      BY <1>1, <1>5, <3>2, <3>3
  <2>2. CASE PassesBoundary(r, a) /\ i = Boundary(r, a) \div BlockSize
    <3> DEFINE t == Sure(r) + a
    <3>1. t \in Int /\ t <= e
      BY <1>1, <1>4, <1>5
    <3>2. Boundary(r, a) = Floor(t)
      BY DEF Boundary
    <3> HIDE DEF t
    <3>3. /\ i \in Int /\ Floor(t) = End(i) /\ Floor(t) <= t /\ End(i) \in Int
      <4>1. /\ t \div BlockSize \in Int /\ Floor(t) = End(t \div BlockSize)
            /\ Floor(t) <= t /\ Floor(t) \div BlockSize = t \div BlockSize
        BY <3>1, FloorEnd
      <4>2. i = t \div BlockSize
        BY <2>2, <3>2, <4>1
      <4> QED
        BY <4>1, <4>2, EndInt
    <3>4. End(i) >= Sure(r)
      BY <2>2, <3>2, <3>3 DEF PassesBoundary
    <3>5. i <= Target(r)
      <4>1. e <= End(Target(r)) /\ End(Target(r)) \in Int
        BY <1>4, <1>5, CdivEnd, EndInt
      <4>2. End(i) <= End(Target(r))
        BY <1>5, <3>1, <3>3, <4>1
      <4> QED
        BY <1>4, <3>3, <4>2, EndOrder
    <3> QED
      BY <1>4, <3>3, <3>4, <3>5
  <2> QED
    BY <2>1, <2>2 DEF WrittenAt
<1>8. i >= 1
  <2>1. ~(i <= 0)
    <3>1. ~(End(i) <= End(0)) /\ End(0) = 0
      BY <1>1, <1>7, EndOrder
    <3> QED
      BY <1>7, <3>1, EndOrder
  <2> QED
    BY <1>7, <2>1
<1>9. i \in 1 .. Len(List(r))
  <2>1. Len(List(r)) >= NumSpec + Cdiv(Top(r))
    BY <1>2 DEF Laid
  <2> QED
    BY <1>3, <1>4, <1>6, <1>7, <1>8, <2>1
<1>10. i >= Cdiv(Sure(r))
  <2>1. Cdiv(Sure(r)) <= i /\ Cdiv(Sure(r)) \in Int
    BY <1>1, <1>7, CdivEnd
  <2> QED
    BY <1>7, <2>1
<1>11. List(r)[i] # Null
  BY <1>2, <1>9, <1>10 DEF Laid
<1>12. End(i) > worker[r].pos
  BY <1>1, <1>7
<1> QED
  BY <1>3, <1>7, <1>9, <1>11, <1>12

(* A scheduled step writes only blocks of its own request's list, which no *)
(* other request's list has: neither the states the forward leaves there,  *)
(* however many drafts are accepted, nor the copy at a block boundary      *)
(* reaches a block some other request, or the prefix cache for it, shares. *)
THEOREM WritesAlwaysOwned == Spec => []WritesOwned
<1>1. ASSUME BlockInv PROVE WritesOwned
  <2> SUFFICES ASSUME NEW r \in DOMAIN step, NEW a \in 0 .. step[r].drafts,
                      NEW b \in Written(r, a)
               PROVE  b \in Held(mgr[r].blocks) /\ pool[b].ref = 1
    BY DEF WritesOwned
  <2>1. PICK i : WrittenAt(r, a, i) /\ b = Table(r)[i]
    BY DEF Written, WrittenAt
  <2>2. /\ i \in 1 .. Len(List(r)) /\ List(r)[i] # Null /\ b = List(r)[i]
        /\ End(i) > worker[r].pos
    BY <1>1, <2>1, WrittenEntry
  <2>3. r \in Requests /\ req[r].status = "running"
    BY <1>1, StepCounts DEF BlockInv
  <2>4. List(r) \in Seq(AllBlocks) /\ DOMAIN List(r) = 1 .. Len(List(r))
        /\ Held(List(r)) \subseteq Blocks
    BY <1>1, <2>3, TableEntries, HeldInBlocks
  <2>5. b \in Held(List(r)) /\ b \in Blocks
    BY <2>2, <2>4 DEF Held
  <2>6. \A x \in Requests \ {r} : b \notin Held(List(x))
    BY <1>1, <2>2, <2>3 DEF BlockInv, Lists, OwnsAhead
  <2>7. Holders(b) = {r}
    BY <2>3, <2>5, <2>6 DEF Holders, List
  <2>8. Cardinality(Holders(b)) = 1
    BY <2>7, FS_Singleton
  <2>9. pool[b].ref = Cardinality(Holders(b))
    BY <1>1, <2>5, ReferencesImply DEF BlockInv, RefCounts
  <2> QED
    BY <2>5, <2>8, <2>9 DEF List
<1> QED
  BY <1>1, BlockInvariant, PTL

-----------------------------------------------------------------------------
(* The states themselves.  A running request's list has, in every entry it *)
(* has passed, the state after that entry, and the state of all its tokens *)
(* where the runner looks for it: in an entry the sweep leaves alone and,  *)
(* while there is a prompt to compute, one the next allocation does not    *)
(* move.  A hashed block holds the state it is hashed for, or is where a   *)
(* scheduled step is about to leave that state.                            *)
At(r) == worker[r].index + worker[r].bias
Stored(r) ==
  \A i \in 1 .. Len(List(r)) : List(r)[i] # Null /\ End(i) <= worker[r].pos =>
    content[List(r)[i]] = After(r, End(i))
Located(r) ==
  worker[r].pos > 0 =>
    /\ At(r) \in 1 .. Len(List(r)) /\ At(r) >= Cdiv(worker[r].pos)
    /\ List(r)[At(r)] # Null /\ content[List(r)[At(r)]] = After(r, worker[r].pos)
    /\ r \notin DOMAIN step /\ Lag(req[r]) > 1 => At(r) = Cdiv(worker[r].pos)
Backed(b) ==
  pool[b].hash # Nothing =>
    \/ content[b] = pool[b].hash
    \/ \E r \in DOMAIN step : \E i \in 1 .. Len(List(r)) : List(r)[i] = b /\ Marked(r, i, b)
Exact ==
  /\ \A r \in Requests : req[r].status = "running" => Stored(r) /\ Located(r)
  /\ \A b \in Blocks : Backed(b)
StateInv == BlockInv /\ Exact

LEMMA InitExact == Init => Exact
<1> SUFFICES ASSUME Init PROVE Exact
  OBVIOUS
<1>1. \A r \in Requests : req[r].status = "new"
  BY DEF Init, NewReq
<1>2. \A b \in Blocks : pool[b].hash = Nothing
  BY DEF Init
<1> QED
  BY <1>1, <1>2 DEF Exact, Backed

(* A request whose list keeps what its row needs stays exact.              *)
LEMMA StillExact ==
  ASSUME NEW x \in Requests, Stored(x), Located(x), worker'[x] = worker[x],
         List(x) \in Seq(AllBlocks), Len(mgr'[x].blocks) \in Nat,
         Len(mgr'[x].blocks) >= Len(List(x)),
         \A i \in 1 .. Len(mgr'[x].blocks) :
           mgr'[x].blocks[i] # Null /\ End(i) <= worker[x].pos =>
             i \in 1 .. Len(List(x)) /\ mgr'[x].blocks[i] = List(x)[i],
         worker[x].pos > 0 => mgr'[x].blocks[At(x)] = List(x)[At(x)],
         \A b \in Held(List(x)) : content'[b] = content[b],
         x \notin DOMAIN step' /\ Lag(req'[x]) > 1 => x \notin DOMAIN step /\ Lag(req[x]) > 1
  PROVE  Stored(x)' /\ Located(x)'
<1>1. DOMAIN List(x) = 1 .. Len(List(x)) /\ Len(List(x)) \in Nat
  BY HeldInBlocks
<1>2. \A i \in 1 .. Len(List(x)) : List(x)[i] # Null => content'[List(x)[i]] = content[List(x)[i]]
  BY <1>1 DEF Held
<1>3. List(x)' = mgr'[x].blocks /\ At(x)' = At(x)
  BY DEF List, At
<1>4. Stored(x)'
  <2> SUFFICES ASSUME NEW i \in 1 .. Len(mgr'[x].blocks), mgr'[x].blocks[i] # Null,
                      End(i) <= worker[x].pos
               PROVE  content'[mgr'[x].blocks[i]] = After(x, End(i))
    BY <1>3 DEF Stored, End, After
  <2>1. i \in 1 .. Len(List(x)) /\ mgr'[x].blocks[i] = List(x)[i]
    OBVIOUS
  <2> QED
    BY <1>2, <2>1 DEF Stored
<1>5. Located(x)'
  <2>1. CASE worker[x].pos > 0
    <3>1. /\ At(x) \in 1 .. Len(List(x)) /\ At(x) >= Cdiv(worker[x].pos)
          /\ List(x)[At(x)] # Null /\ content[List(x)[At(x)]] = After(x, worker[x].pos)
          /\ x \notin DOMAIN step /\ Lag(req[x]) > 1 => At(x) = Cdiv(worker[x].pos)
      BY <2>1 DEF Located
    <3>2. mgr'[x].blocks[At(x)] = List(x)[At(x)]
          /\ content'[List(x)[At(x)]] = content[List(x)[At(x)]]
      BY <1>2, <2>1, <3>1
    <3>3. At(x) \in 1 .. Len(mgr'[x].blocks)
      BY <1>1, <3>1
    <3>4. Lag(req[x])' = Lag(req'[x])
      BY DEF Lag
    <3> QED
      BY <1>3, <3>1, <3>2, <3>3, <3>4 DEF Located, Cdiv, After
  <2>2. CASE ~(worker[x].pos > 0)
    BY <2>2 DEF Located
  <2> QED
    BY <2>1, <2>2
<1> QED
  BY <1>4, <1>5

LEMMA OthersExact ==
  ASSUME Shape, NEW x \in Requests, Stored(x), Located(x), worker'[x] = worker[x],
         mgr'[x].blocks = mgr[x].blocks,
         \A b \in Held(List(x)) : content'[b] = content[b],
         x \notin DOMAIN step' /\ Lag(req'[x]) > 1 => x \notin DOMAIN step /\ Lag(req[x]) > 1
  PROVE  Stored(x)' /\ Located(x)'
<1>1. List(x) \in Seq(AllBlocks) /\ mgr'[x].blocks = List(x)
  BY MgrFields DEF Shape, List
<1>2. Len(List(x)) \in Nat
  BY <1>1, LenProperties
<1>3. \A i \in 1 .. Len(mgr'[x].blocks) : i \in 1 .. Len(List(x))
  BY <1>1
<1> QED
  BY <1>1, <1>2, <1>3, StillExact

(* A block keeps its backing when neither it nor the steps change.         *)
LEMMA StillBacked ==
  ASSUME NEW b, Backed(b), content'[b] = content[b], pool'[b].hash = pool[b].hash,
         \A x \in DOMAIN step :
           /\ x \in DOMAIN step' /\ step'[x] = step[x] /\ worker'[x] = worker[x]
           /\ mgr'[x].blocks = mgr[x].blocks,
         fresh \subseteq fresh' \/ DOMAIN step = {}
  PROVE  Backed(b)'
<1>1. CASE pool[b].hash = Nothing
  <2>1. Nothing' = Nothing
    BY DEF Nothing
  <2> QED
    BY <1>1, <2>1 DEF Backed
<1>2. CASE content[b] = pool[b].hash
  BY <1>2 DEF Backed
<1>3. CASE \E x \in DOMAIN step : \E i \in 1 .. Len(List(x)) : List(x)[i] = b /\ Marked(x, i, b)
  <2>1. PICK x \in DOMAIN step : \E i \in 1 .. Len(List(x)) : List(x)[i] = b /\ Marked(x, i, b)
    BY <1>3
  <2>2. PICK i \in 1 .. Len(List(x)) : List(x)[i] = b /\ Marked(x, i, b)
    BY <2>1
  <2>3. /\ x \in DOMAIN step' /\ mgr'[x].blocks = List(x) /\ End(i) = Sure(x)
        /\ pool'[b].hash = After(x, End(i)) /\ pool'[b].hash \in fresh'
    BY <2>2 DEF Marked, List
  <2>4. Sure(x)' = Sure(x)
    BY DEF Sure
  <2>5. List(x)' = List(x)
    BY <2>3 DEF List
  <2>6. Marked(x, i, b)'
    BY <2>3, <2>4 DEF Marked, End, After
  <2> QED
    BY <2>2, <2>3, <2>5, <2>6 DEF Backed
<1> QED
  BY <1>1, <1>2, <1>3 DEF Backed

LEMMA SameExact ==
  ASSUME Shape, Exact, Unmoved
  PROVE  Exact'
<1>1. ASSUME NEW x \in Requests, req'[x].status = "running"
      PROVE  Stored(x)' /\ Located(x)'
  <2>1. Stored(x) /\ Located(x) /\ Lag(req'[x]) = Lag(req[x])
    BY <1>1 DEF Exact, Lag, Unmoved
  <2>2. x \in DOMAIN step' <=> x \in DOMAIN step
    BY DEF Unmoved
  <2> QED
    BY <2>1, <2>2, OthersExact DEF Unmoved
<1>2. ASSUME NEW b \in Blocks PROVE Backed(b)'
  <2>1. Backed(b)
    BY DEF Exact
  <2>2. \A x \in DOMAIN step : x \in DOMAIN step' /\ step'[x] = step[x]
    BY DEF Unmoved
  <2> QED
    BY <2>1, <2>2, StillBacked DEF Unmoved
<1> QED
  BY <1>1, <1>2 DEF Exact

LEMMA AbortExact ==
  ASSUME StateInv, NEW r \in Requests, Abort(r)
  PROVE  Exact'
<1>1. /\ Shape /\ Exact /\ req \in [Requests -> Req] /\ mgr \in [Requests -> Mgr] /\ Rows
      /\ pool \in [Blocks -> PoolEntry] /\ InPass
  BY DEF StateInv, BlockInv, RefInv, References, CounterInv, Counters, ServingInv, Shape
<1>2. /\ req' = [req EXCEPT ![r] = [NewReq EXCEPT !.status = "finished"]]
      /\ mgr' = [mgr EXCEPT ![r] = NoBlocks] /\ worker' = [worker EXCEPT ![r] = NoRow]
      /\ pool' = Release(pool, Held(mgr[r].blocks)) /\ step' = step /\ fresh' = fresh
      /\ content' = content /\ phase = "idle"
  BY DEF Abort, passVars
<1>3. /\ req'[r].status = "finished"
      /\ \A x \in Requests : x # r =>
           req'[x] = req[x] /\ mgr'[x] = mgr[x] /\ worker'[x] = worker[x]
  BY <1>1, <1>2 DEF NewReq, Rows
<1>4. \A b \in Blocks : pool'[b].hash = pool[b].hash
  BY <1>1, <1>2, PoolHashes
<1>5. DOMAIN step = {}
  BY <1>1, <1>2 DEF InPass
<1>6. ASSUME NEW x \in Requests, req'[x].status = "running"
      PROVE  Stored(x)' /\ Located(x)'
  <2>1. /\ x # r /\ Stored(x) /\ Located(x) /\ mgr'[x].blocks = mgr[x].blocks
        /\ worker'[x] = worker[x] /\ req'[x] = req[x]
    BY <1>1, <1>3, <1>6 DEF Exact
  <2> QED
    BY <1>1, <1>2, <2>1, OthersExact
<1>7. ASSUME NEW b \in Blocks PROVE Backed(b)'
  <2>1. Backed(b) /\ pool'[b].hash = pool[b].hash /\ content'[b] = content[b]
    BY <1>1, <1>2, <1>4 DEF Exact
  <2> QED
    BY <1>5, <2>1, StillBacked
<1> QED
  BY <1>6, <1>7 DEF Exact

(* An output's tokens move no state: a block is only hashed as an entry    *)
(* the runner has passed, which holds what it is hashed for.               *)
LEMMA UpdateTokensExact ==
  ASSUME StateInv, NEW r \in Requests, UpdateTokens(r)
  PROVE  Exact'
<1>1. /\ Shape /\ Exact /\ BlockInv
  BY DEF StateInv, BlockInv, RefInv, CounterInv, Counters, ServingInv
<1>2. /\ step' = step /\ DOMAIN step = {} /\ content' = content
      /\ \A x \in Requests : x # r =>
           req'[x] = req[x] /\ worker'[x] = worker[x] /\ mgr'[x] = mgr[x]
  BY <1>1, TokensTaken
<1>3. req'[r].status = "running" =>
        /\ req[r].status = "running" /\ mgr'[r].blocks = List(r) /\ worker'[r] = worker[r]
        /\ Lag(req'[r]) <= 1
  BY <1>1, TokensTaken
<1>4. ASSUME NEW x \in Requests, x # r, req'[x].status = "running"
      PROVE  Stored(x)' /\ Located(x)'
  <2>1. /\ Stored(x) /\ Located(x) /\ mgr'[x].blocks = mgr[x].blocks
        /\ worker'[x] = worker[x] /\ req'[x] = req[x]
    BY <1>1, <1>2, <1>4 DEF Exact
  <2> QED
    BY <1>1, <1>2, <2>1, OthersExact
<1>5. ASSUME req'[r].status = "running"
      PROVE  Stored(r)' /\ Located(r)'
  <2>1. /\ Stored(r) /\ Located(r) /\ mgr'[r].blocks = mgr[r].blocks
        /\ worker'[r] = worker[r]
    BY <1>1, <1>3, <1>5 DEF Exact, List
  <2>2. ~(Lag(req'[r]) > 1)
    <3>1. req' \in [Requests -> Req]
      <4>1. ServingInv'
        BY <1>1, UpdateTokensServing DEF BlockInv, RefInv
      <4> QED
        BY <4>1 DEF ServingInv, Shape
    <3>2. req'[r] \in Req
      BY <3>1
    <3>3. Lag(req'[r]) \in Int
      BY <3>2 DEF Lag, Req
    <3> QED
      BY <1>3, <1>5, <3>3
  <2> QED
    BY <1>1, <1>2, <2>1, <2>2, OthersExact
<1>6. ASSUME NEW b \in Blocks PROVE Backed(b)'
  <2>1. Backed(b) /\ content'[b] = content[b]
    BY <1>1, <1>2 DEF Exact
  <2>2. CASE pool'[b].hash = pool[b].hash
    BY <1>2, <2>1, <2>2, StillBacked
  <2>3. CASE \E i \in 1 .. Len(List(r)) :
               /\ req[r].status = "running" /\ List(r)[i] = b /\ b # Null
               /\ End(i) <= worker[r].pos /\ pool'[b].hash = After(r, End(i))
    <3>1. content[b] = pool'[b].hash
      BY <1>1, <2>3 DEF Exact, Stored
    <3> QED
      BY <2>1, <3>1 DEF Backed
  <2> QED
    BY <1>1, <2>2, <2>3, TokensHashed
<1> QED
  BY <1>4, <1>5, <1>6 DEF Exact

LEMMA PreemptExact ==
  ASSUME StateInv, PreemptLast
  PROVE  Exact'
<1>1. /\ Shape /\ Exact /\ BlockInv /\ CounterInv
      /\ mgr \in [Requests -> Mgr] /\ \A x \in Requests : mgr[x].sweep \in Nat
  BY DEF StateInv, BlockInv, RefInv, References, CounterInv, Counters, ServingInv, Shape
<1>2. /\ step' = step /\ fresh' = fresh /\ content' = content
      /\ \A b \in Blocks : pool'[b].hash = pool[b].hash
      /\ \A x \in DOMAIN step : worker'[x] = worker[x] /\ mgr'[x] = mgr[x]
  BY <1>1, PreemptKeeps
<1>3. ASSUME NEW x \in Requests, req'[x].status = "running"
      PROVE  /\ req[x].status = "running" /\ req'[x] = req[x] /\ worker'[x] = worker[x]
             /\ mgr'[x] = mgr[x] \/ (x \notin DOMAIN step /\ mgr'[x] = SweptMgr(x))
             /\ Stored(x) /\ Located(x)
  BY <1>1, <1>3, PreemptKeeps DEF Exact
<1>4. ASSUME NEW x \in Requests, req'[x].status = "running", mgr'[x] = mgr[x]
      PROVE  Stored(x)' /\ Located(x)'
  BY <1>1, <1>2, <1>3, <1>4, OthersExact
<1>5. ASSUME NEW x \in Requests, req'[x].status = "running", mgr'[x] = SweptMgr(x)
      PROVE  Stored(x)' /\ Located(x)'
  <2>1. /\ SweptMgr(x).blocks \in Seq(AllBlocks)
        /\ Len(SweptMgr(x).blocks) = Len(List(x)) /\ Len(List(x)) \in Nat
        /\ \A i \in 1 .. Len(List(x)) :
              /\ SweptMgr(x).blocks[i] # Null => SweptMgr(x).blocks[i] = List(x)[i]
              /\ i >= Cdiv(worker[x].pos) => SweptMgr(x).blocks[i] = List(x)[i]
    BY <1>1, <1>3, <1>5, SweptKept
  <2>2. List(x) \in Seq(AllBlocks)
    BY <1>1, MgrFields DEF List
  <2>3. worker[x].pos > 0 => SweptMgr(x).blocks[At(x)] = List(x)[At(x)]
    BY <1>3, <1>5, <2>1 DEF Located
  <2> DEFINE S == SweptMgr(x).blocks
  <2>4. mgr'[x].blocks = S
    BY <1>5
  <2> HIDE DEF S
  <2>5. Len(S) \in Nat /\ Len(S) >= Len(List(x))
        /\ \A i \in 1 .. Len(S) : S[i] # Null /\ End(i) <= worker[x].pos =>
             i \in 1 .. Len(List(x)) /\ S[i] = List(x)[i]
    BY <2>1 DEF S
  <2>6. worker[x].pos > 0 => S[At(x)] = List(x)[At(x)]
    BY <2>3 DEF S
  <2>7. /\ Stored(x) /\ Located(x) /\ worker'[x] = worker[x] /\ req'[x] = req[x]
        /\ \A b \in Held(List(x)) : content'[b] = content[b]
    BY <1>2, <1>3, <1>5
  <2> QED
    BY <1>2, <2>2, <2>4, <2>5, <2>6, <2>7, StillExact
<1>6. ASSUME NEW b \in Blocks PROVE Backed(b)'
  BY <1>1, <1>2, StillBacked DEF Exact
<1> QED
  BY <1>3, <1>4, <1>5, <1>6 DEF Exact

(* Allocation for a step hashes entries the runner has passed, and the one *)
(* the step is sure to end at.                                             *)
LEMMA ScheduledExact ==
  ASSUME StateInv, NEW r \in Requests, Scheduling(r), content' = content,
         worker'[r].pos \in Int, Stored(r)', Located(r)'
  PROVE  Exact'
<1>1. PICK s \in Seq(AllBlocks), p \in [Blocks -> PoolEntry], N \in SUBSET Blocks,
           cached \in Nat, tokens \in Int : Schedules(r, s, p, N, cached, tokens)
  BY DEF Scheduling
<1>2. Shape /\ Exact /\ DOMAIN step \subseteq Requests
  BY StepFields DEF StateInv, BlockInv, CounterInv, Counters, ServingInv, Shape
<1>3. \A x \in Requests : x # r =>
         /\ mgr'[x] = mgr[x] /\ worker'[x] = worker[x] /\ req'[x] = req[x]
         /\ x \in DOMAIN step' <=> x \in DOMAIN step
         /\ x \in DOMAIN step => step'[x] = step[x]
  BY <1>1 DEF Schedules
<1>4. ASSUME NEW x \in Requests, x # r, req'[x].status = "running"
      PROVE  Stored(x)' /\ Located(x)'
  <2>1. /\ Stored(x) /\ Located(x) /\ mgr'[x].blocks = mgr[x].blocks
        /\ worker'[x] = worker[x] /\ req'[x] = req[x] /\ (x \in DOMAIN step' <=> x \in DOMAIN step)
    BY <1>2, <1>3, <1>4 DEF Exact
  <2> QED
    BY <1>2, <2>1, OthersExact
<1>5. /\ r \notin DOMAIN step /\ r \in DOMAIN step' /\ mgr'[r].blocks = s
      /\ fresh' = fresh \union NewHashes(r, s, cached, tokens)
      /\ pool' = Hashed(Take(p, N), r, s, cached, tokens)
      /\ Take(p, N) \in [Blocks -> PoolEntry]
      /\ \A b \in Blocks : p[b].hash = pool[b].hash
      /\ \A i \in Filled(s, cached, tokens) : i \in 1 .. Len(s)
      /\ Laid(s, worker'[r].table, worker'[r].pos, Sure(r)', Top(r)', Lacks(r)')
      /\ Sure(r)' \in Int /\ tokens <= Sure(r)'
  BY <1>1 DEF Schedules
<1>6. PICK q \in [Blocks -> PoolEntry] :
        q = Take(p, N) /\ pool' = Hashed(q, r, s, cached, tokens)
  BY <1>5
<1>7. ASSUME NEW b \in Blocks PROVE Backed(b)'
  <2>1. CASE pool'[b] = q[b]
    <3>1. q[b].hash = IF b \in N THEN Nothing ELSE pool[b].hash
      BY <1>5, <1>6, PoolHashes
    <3>2. CASE b \in N
      <4>1. Nothing' = Nothing
        BY DEF Nothing
      <4> QED
        BY <2>1, <3>1, <3>2, <4>1 DEF Backed
    <3>3. CASE b \notin N
      <4>1. Backed(b) /\ content'[b] = content[b] /\ pool'[b].hash = pool[b].hash
        BY <1>2, <2>1, <3>1, <3>3 DEF Exact
      <4>2. \A x \in DOMAIN step :
              /\ x \in DOMAIN step' /\ step'[x] = step[x] /\ worker'[x] = worker[x]
              /\ mgr'[x].blocks = mgr[x].blocks
        BY <1>2, <1>3, <1>5
      <4>3. fresh \subseteq fresh'
        BY <1>5
      <4> QED
        BY <4>1, <4>2, <4>3, StillBacked
    <3> QED
      BY <3>2, <3>3
  <2>2. CASE \E i \in Int : /\ i \in Filled(s, cached, tokens)
                            /\ i >= cached + 1 /\ End(i) <= tokens /\ s[i] = b
                            /\ pool'[b].hash = After(r, End(i))
                            /\ After(r, End(i)) \in NewHashes(r, s, cached, tokens)
    <3>1. PICK i \in Int : /\ i \in Filled(s, cached, tokens)
                           /\ End(i) <= tokens /\ s[i] = b
                           /\ pool'[b].hash = After(r, End(i))
                           /\ After(r, End(i)) \in NewHashes(r, s, cached, tokens)
      BY <2>2
    <3>2. i \in 1 .. Len(s) /\ s[i] # Null
      BY <1>5, <3>1, ServingAssumption
    <3>3. CASE End(i) <= worker'[r].pos
      <4>1. content'[b] = After(r, End(i))
        BY <1>5, <3>1, <3>2, <3>3 DEF Stored, List, End, After
      <4> QED
        BY <3>1, <4>1 DEF Backed
    <3>4. CASE ~(End(i) <= worker'[r].pos)
      <4>1. End(i) = Sure(r)'
        <5>1. End(i) \in Int /\ worker'[r].pos \in Int
          BY EndInt
        <5>2. End(i) <= Sure(r)'
          BY <1>5, <3>1, <5>1
        <5> QED
          BY <1>5, <3>2, <3>4, <5>1, <5>2 DEF Laid
      <4>2. Marked(r, i, b)'
        BY <1>5, <3>1, <4>1 DEF Marked, End, After
      <4>3. List(r)' = s
        BY <1>5 DEF List
      <4> QED
        BY <1>5, <3>1, <3>2, <4>2, <4>3 DEF Backed
    <3> QED
      BY <3>3, <3>4
  <2>3. cached \in Int /\ tokens \in Int
    OBVIOUS
  <2>4. \/ pool'[b] = q[b]
        \/ \E i \in Int : /\ i \in Filled(s, cached, tokens)
                          /\ i >= cached + 1 /\ End(i) <= tokens /\ s[i] = b
                          /\ pool'[b].hash = After(r, End(i))
                          /\ After(r, End(i)) \in NewHashes(r, s, cached, tokens)
    <3>1. PICK after : after = pool'
      OBVIOUS
    <3>2. after = Hashed(q, r, s, cached, tokens)
      BY <1>6, <3>1
    <3>3. \/ after[b] = q[b] /\ \A i \in Filled(s, cached, tokens) : s[i] # b
          \/ \E i \in Int : /\ i \in Filled(s, cached, tokens)
                            /\ i >= cached + 1 /\ End(i) <= tokens /\ s[i] = b
                            /\ after[b].hash = After(r, End(i))
                            /\ After(r, End(i)) \in NewHashes(r, s, cached, tokens)
      BY <2>3, <3>2, HashedEntry
    <3> QED
      BY <3>1, <3>3
  <2> QED
    BY <2>1, <2>2, <2>4
<1> QED
  BY <1>4, <1>7 DEF Exact

LEMMA GrowExact ==
  ASSUME StateInv, Grow
  PROVE  Exact'
<1>1. /\ Shape /\ Exact /\ BlockInv /\ CounterInv /\ ServingInv
      /\ mgr \in [Requests -> Mgr] /\ \A x \in Requests : mgr[x].sweep \in Nat
  BY DEF StateInv, BlockInv, RefInv, References, CounterInv, Counters, ServingInv, Shape
<1>2. PICK r \in Requests : r = Current /\ req[r].status = "running" /\ r \notin DOMAIN step
  BY <1>1, CurrentRunning, CurrentUnscheduled DEF Grow
<1> DEFINE S == SweptMgr(r).blocks
           s == mgr'[r].blocks
           w == worker[r].pos
           c == req[r].computed
           l == Lag(req[r])
<1>3. /\ Scheduling(r) /\ worker' = worker /\ content' = content
      /\ Keeps(S, s, w, c, l)
  BY <1>1, <1>2, GrowSchedules
<1>4. /\ Len(S) = Len(List(r)) /\ Len(List(r)) \in Nat
      /\ \A i \in 1 .. Len(List(r)) :
            /\ S[i] # Null => S[i] = List(r)[i]
            /\ i >= Cdiv(w) => S[i] = List(r)[i]
  BY <1>1, <1>2, SweptKept
<1>5. List(r) \in Seq(AllBlocks)
  BY <1>1, MgrFields DEF List
<1>6. Stored(r) /\ Located(r) /\ l \in Int /\ l >= 1 /\ (l > 1 => w = c) /\ w \in Int
  BY <1>1, <1>2, RunningCounts DEF Exact
<1> HIDE DEF S
<1>7. \A i \in 1 .. Len(s) : s[i] # Null /\ End(i) <= w => i \in 1 .. Len(List(r)) /\ s[i] = List(r)[i]
  BY <1>3, <1>4 DEF Keeps
<1>8. w > 0 => s[At(r)] = List(r)[At(r)]
  <2> SUFFICES ASSUME w > 0 PROVE s[At(r)] = List(r)[At(r)]
    OBVIOUS
  <2>1. At(r) \in 1 .. Len(List(r)) /\ At(r) >= Cdiv(w) /\ (l > 1 => At(r) = Cdiv(w))
    BY <1>2, <1>6 DEF Located
  <2>2. S[At(r)] = List(r)[At(r)]
    BY <1>4, <2>1
  <2>3. l = 1 \/ At(r) <= Cdiv(c)
    <3>1. CASE l > 1
      <4>1. At(r) = Cdiv(c) /\ At(r) \in Int
        BY <1>6, <2>1, <3>1
      <4> QED
        BY <4>1
    <3> HIDE DEF l
    <3>2. CASE ~(l > 1)
      BY <1>6, <3>2
    <3> QED
      BY <3>1, <3>2
  <2> QED
    BY <1>3, <1>4, <2>1, <2>2, <2>3 DEF Keeps
<1>9. Len(s) \in Nat /\ Len(s) >= Len(List(r))
  BY <1>3, <1>4 DEF Keeps
<1>10. r \in DOMAIN step'
  BY <1>3 DEF Scheduling, Schedules
<1>11. Stored(r)' /\ Located(r)'
  <2>1. worker'[r] = worker[r] /\ \A b \in Held(List(r)) : content'[b] = content[b]
    BY <1>3
  <2> QED
    BY <1>5, <1>6, <1>7, <1>8, <1>9, <1>10, <2>1, StillExact
<1>12. worker'[r].pos \in Int
  BY <1>3, <1>6
<1> QED
  BY <1>3, <1>11, <1>12, ScheduledExact

(* An admitted request's first state is the one its hit block holds.       *)
LEMMA AdmitExact ==
  ASSUME StateInv, NEW r \in Requests, Admit(r)
  PROVE  Exact'
<1>1. Shape /\ Exact /\ BlockInv
  BY DEF StateInv, BlockInv, CounterInv, Counters, ServingInv
<1>2. /\ Scheduling(r) /\ content' = content
      /\ \E found \in Hits(r) : Admits(r, found)
  BY <1>1, AdmitSchedules
<1>3. PICK found \in Hits(r) : Admits(r, found)
  BY <1>2
<1> DEFINE k == Len(found)
           s == mgr'[r].blocks
<1>4. /\ HitUsable(r, found) /\ NoneTwice(s)
      /\ worker'[r].pos = End(k) /\ worker'[r].index = k /\ worker'[r].bias = 0
      /\ Len(s) \in Nat /\ Len(s) >= k
      /\ \A i \in 1 .. k : s[i] = found[i]
  BY <1>3 DEF Admits
<1>5. k \in Nat /\ End(k) \in Int /\ Held(found) \subseteq Blocks
  <2>1. found \in Seq(AllBlocks)
    BY <1>1, HitsType
  <2> QED
    BY <2>1, HeldInBlocks, EndInt
<1>6. \A b \in Held(found) : content[b] = After(r, End(k))
  <2> SUFFICES ASSUME NEW b \in Held(found) PROVE content[b] = After(r, End(k))
    OBVIOUS
  <2>1. /\ pool[b].hash # Nothing /\ pool[b].hash \notin fresh
        /\ pool[b].hash = After(r, End(k))
    BY <1>1, <1>4, HitBlocks
  <2>2. Backed(b)
    BY <1>1, <1>5 DEF Exact
  <2> QED
    BY <2>1, <2>2 DEF Backed, Marked
<1>7. \A i \in 1 .. k : /\ found[k] \in Held(found)
                        /\ found[i] # Null => i = k
  BY <1>1, <1>4, HitEntries
<1> HIDE DEF k
<1>8. Stored(r)'
  <2> SUFFICES ASSUME NEW i \in 1 .. Len(s), s[i] # Null, End(i) <= End(k)
               PROVE  content[s[i]] = After(r, End(i))
    BY <1>2, <1>4 DEF Stored, List, End, After
  <2>1. i <= k /\ i \in Int /\ i >= 1
    BY <1>4, <1>5, EndOrder
  <2>2. i \in 1 .. k
    BY <1>5, <2>1
  <2>3. s[i] = found[i] /\ i = k /\ found[k] \in Held(found)
    BY <1>4, <1>7, <2>2
  <2> QED
    BY <1>6, <2>3
<1>9. Located(r)'
  <2>1. r \in DOMAIN step'
    BY <1>2 DEF Scheduling, Schedules
  <2> SUFFICES ASSUME End(k) > 0
               PROVE  /\ k \in 1 .. Len(s) /\ k >= Cdiv(End(k))
                      /\ s[k] # Null /\ content[s[k]] = After(r, End(k))
    <3>1. At(r)' = k
      BY <1>4, <1>5 DEF At
    <3>2. End(k)' = End(k)
      BY DEF End
    <3>3. \/ ~(End(k) > 0)
          \/ /\ k \in 1 .. Len(s) /\ k >= Cdiv(End(k))
             /\ s[k] # Null /\ content[s[k]] = After(r, End(k))
      OBVIOUS
    <3> QED
      BY <1>2, <1>4, <2>1, <3>1, <3>3 DEF Located, List, End, After, Cdiv
  <2>2. k >= 1
    <3>1. End(0) = 0
      BY <1>5, EndOrder
    <3>2. k # 0
      BY <3>1
    <3> QED
      BY <1>5, <3>2
  <2>3. k \in 1 .. k /\ k \in 1 .. Len(s)
    BY <1>4, <1>5, <2>2
  <2>4. s[k] = found[k] /\ found[k] \in Held(found)
    BY <1>4, <1>7, <2>3
  <2>5. Cdiv(End(k)) <= k /\ Cdiv(End(k)) \in Int
    BY <1>5, CdivEnd
  <2> QED
    BY <1>5, <1>6, <2>3, <2>4, <2>5 DEF Held
<1>10. worker'[r].pos \in Int
  BY <1>4, <1>5
<1> QED
  BY <1>2, <1>8, <1>9, <1>10, ScheduledExact

-----------------------------------------------------------------------------
(* Where a step with a accepted drafts ends: in the entry of its target,   *)
(* past the last block boundary it reaches and within a block of it.       *)
Last(r, a) == (Sure(r) + a) \div BlockSize
LEMMA StepEnd ==
  ASSUME CounterInv, NEW r \in DOMAIN step, NEW a \in 0 .. step[r].drafts
  PROVE  /\ a \in Int /\ a >= 0 /\ a < BlockSize
         /\ Sure(r) + a \in Int /\ Sure(r) + a >= Sure(r) /\ Sure(r) + a > worker[r].pos
         /\ Sure(r) + a > 0 /\ Sure(r) + a < Sure(r) + BlockSize
         /\ Last(r, a) \in Int /\ End(Last(r, a)) \in Int
         /\ Boundary(r, a) = End(Last(r, a)) /\ Boundary(r, a) \div BlockSize = Last(r, a)
         /\ End(Last(r, a)) <= Sure(r) + a /\ Sure(r) + a < End(Last(r, a)) + BlockSize
         /\ Target(r) \in Int /\ End(Target(r)) \in Int /\ Sure(r) + a <= End(Target(r))
         /\ Cdiv(Sure(r) + a) \in Int /\ Cdiv(Sure(r) + a) <= Target(r)
         /\ Last(r, a) <= Target(r) /\ (a > 0 => step[r].drafts > 0)
<1>1. /\ step[r].n \in Nat /\ step[r].drafts \in Nat /\ step[r].drafts <= NumSpec
      /\ Sure(r) \in Int /\ Sure(r) > worker[r].pos /\ worker[r].pos \in Int
      /\ worker[r].pos >= 0 /\ worker[r].pos + step[r].n \in Int
      /\ Sure(r) + step[r].drafts = worker[r].pos + step[r].n
  BY StepCounts
<1>2. NumSpec \in Nat /\ BlockSize \in Nat /\ BlockSize > 0 /\ NumSpec < BlockSize
  BY ManagerAssumption
<1>3. a \in Int /\ a >= 0 /\ a <= step[r].drafts
  BY <1>1
<1>4. PICK u \in Int : u = Sure(r) + a
  BY <1>1, <1>3
<1>5. PICK e \in Int : e = worker[r].pos + step[r].n
  BY <1>1
<1>6. /\ u >= Sure(r) /\ u > worker[r].pos /\ u > 0 /\ u <= e /\ a < BlockSize
      /\ u < Sure(r) + BlockSize
  BY <1>1, <1>2, <1>3, <1>4, <1>5
<1>7. Target(r) = Cdiv(e) /\ Target(r) \in Int /\ Cdiv(u) \in Int
  BY <1>5, CdivInt DEF Target
<1>8. e <= End(Target(r)) /\ End(Target(r)) \in Int
  BY <1>7, CdivEnd, EndInt
<1>9. u <= End(Target(r))
  BY <1>6, <1>8
<1>10. Cdiv(u) <= Target(r)
  BY <1>7, <1>9, CdivEnd
<1>11. PICK q : q = u \div BlockSize
  OBVIOUS
<1>12. /\ q \in Int /\ Floor(u) = End(q) /\ Floor(u) \div BlockSize = q
       /\ End(q) <= u /\ u < End(q) + BlockSize /\ End(q) \in Int
  <2>1. q \in Int /\ Floor(u) = End(q) /\ Floor(u) \div BlockSize = q
        /\ Floor(u) <= u /\ u < Floor(u) + BlockSize
    BY <1>11, FloorEnd
  <2> QED
    BY <2>1, EndInt
<1>13. q <= Target(r)
  <2>1. End(q) <= End(Target(r))
    BY <1>8, <1>9, <1>12
  <2> QED
    BY <1>7, <1>12, <2>1, EndOrder
<1>14. Last(r, a) = q /\ Boundary(r, a) = Floor(u)
  BY <1>4, <1>11 DEF Last, Boundary
<1> QED
  BY <1>1, <1>3, <1>4, <1>6, <1>7, <1>8, <1>9, <1>10, <1>12, <1>13, <1>14

(* A block a step writes is in one entry of one list, behind the tokens    *)
(* computed before.                                                        *)
LEMMA WrittenBlock ==
  ASSUME BlockInv, NEW r \in DOMAIN step, NEW a \in 0 .. step[r].drafts,
         NEW b \in Written(r, a)
  PROVE  /\ r \in Requests /\ b \in Blocks
         /\ \E i \in 1 .. Len(List(r)) : List(r)[i] = b
         /\ \A x \in Requests : \A k \in 1 .. Len(List(x)) :
              List(x)[k] = b => x = r /\ End(k) > worker[r].pos
         /\ \/ pool[b].hash = Nothing
            \/ \E i \in 1 .. Len(List(r)) : List(r)[i] = b /\ Marked(r, i, b)
<1>1. PICK i : WrittenAt(r, a, i) /\ b = Table(r)[i]
  BY DEF Written, WrittenAt
<1>2. /\ i \in 1 .. Len(List(r)) /\ List(r)[i] # Null /\ b = List(r)[i]
      /\ End(i) > worker[r].pos
  BY <1>1, WrittenEntry
<1>3. r \in Requests /\ req[r].status = "running"
  BY StepCounts DEF BlockInv
<1>4. OwnsAhead(r)
  BY <1>3 DEF BlockInv, Lists
<1>5. \A x \in Requests \ {r} : b \notin Held(List(x))
  BY <1>2, <1>4 DEF OwnsAhead
<1>6. pool[b].hash = Nothing \/ Marked(r, i, b)
  BY <1>2, <1>4 DEF OwnsAhead
<1>7. ASSUME NEW x \in Requests, NEW k \in 1 .. Len(List(x)), List(x)[k] = b
      PROVE  x = r /\ End(k) > worker[r].pos
  <2>1. List(x) \in Seq(AllBlocks) /\ NoneTwice(List(x))
    BY MgrFields DEF BlockInv, RefInv, References, CounterInv, ServingInv, Shape, List
  <2>2. DOMAIN List(x) = 1 .. Len(List(x))
    BY <2>1, HeldInBlocks
  <2>3. b \in Held(List(x))
    BY <1>2, <1>7, <2>2 DEF Held
  <2>4. x = r
    BY <1>5, <2>3
  <2>5. k = i
    BY <1>2, <1>7, <2>1, <2>2, <2>4 DEF NoneTwice
  <2> QED
    BY <1>2, <2>4, <2>5
<1>8. b \in Blocks
  <2>1. List(r) \in Seq(AllBlocks)
    BY <1>3, MgrFields DEF BlockInv, RefInv, References, CounterInv, ServingInv, Shape, List
  <2>2. b \in AllBlocks
    BY <1>2, <2>1, ElementOfSeq
  <2> QED
    BY <1>2, <2>2 DEF AllBlocks
<1> QED
  BY <1>2, <1>3, <1>6, <1>7, <1>8

(* What a step leaves in the entry of the boundary it passes, and where    *)
(* the next step will look for the state of all tokens.                    *)
Place(r, a) ==
  Target(r) + (IF PassesBoundary(r, a) /\ Last(r, a) = Target(r) THEN 0 ELSE a)

LEMMA WrittenValue ==
  ASSUME BlockInv, NEW r \in DOMAIN step, NEW a \in 0 .. step[r].drafts, HasState(r)
  PROVE  /\ PassesBoundary(r, a) =>
              /\ Last(r, a) \in 1 .. Len(List(r)) /\ List(r)[Last(r, a)] \in Written(r, a)
              /\ Value(r, a, List(r)[Last(r, a)]) = After(r, End(Last(r, a)))
         /\ Place(r, a) \in 1 .. Len(List(r)) /\ Place(r, a) >= Target(r)
         /\ Place(r, a) \in Int
         /\ List(r)[Place(r, a)] # Null /\ List(r)[Place(r, a)] \in Written(r, a)
         /\ Value(r, a, List(r)[Place(r, a)]) = After(r, Sure(r) + a)
<1> DEFINE q == Last(r, a)
           T == Target(r)
           B == List(r)
           d == step[r].drafts
           passes == PassesBoundary(r, a)
<1>1. /\ a \in Int /\ a >= 0 /\ a < BlockSize /\ Sure(r) + a \in Int
      /\ q \in Int /\ End(q) \in Int
      /\ Boundary(r, a) = End(q) /\ Boundary(r, a) \div BlockSize = q
      /\ End(q) <= Sure(r) + a /\ T \in Int /\ End(T) \in Int /\ Sure(r) + a <= End(T)
  BY StepEnd DEF BlockInv
<1>2. r \in Requests /\ req[r].status = "running" /\ d \in Nat
  BY StepCounts DEF BlockInv
<1>3. NoneTwice(B) /\ DOMAIN B = 1 .. Len(B)
  <2>1. B \in Seq(AllBlocks) /\ NoneTwice(B)
    BY <1>2, MgrFields DEF BlockInv, RefInv, References, CounterInv, ServingInv, Shape, List
  <2> QED
    BY <2>1, HeldInBlocks
<1>4. ASSUME NEW j \in 0 .. d
      PROVE  /\ T + j \in 1 .. Len(B) /\ B[T + j] # Null /\ Table(r)[T + j] = B[T + j]
             /\ B[T + j] \in Written(r, a)
  <2>1. WrittenAt(r, a, T + j)
    BY DEF WrittenAt
  <2>2. T + j \in 1 .. Len(B) /\ B[T + j] # Null /\ Table(r)[T + j] = B[T + j]
    BY <2>1, WrittenEntry
  <2>3. Table(r)[T + j] \in Written(r, a)
    BY DEF Written
  <2> QED
    BY <2>2, <2>3
<1>5. ASSUME passes
      PROVE  /\ q \in 1 .. Len(B) /\ B[q] # Null /\ Table(r)[q] = B[q]
             /\ B[q] \in Written(r, a)
  <2>1. WrittenAt(r, a, q)
    BY <1>1, <1>5 DEF WrittenAt
  <2>2. q \in 1 .. Len(B) /\ B[q] # Null /\ Table(r)[q] = B[q]
    BY <2>1, WrittenEntry
  <2>3. Table(r)[q] \in Written(r, a)
    BY <1>1, <1>5 DEF Written
  <2> QED
    BY <2>2, <2>3
<1>6. \A b : Value(r, a, b) =
        IF passes /\ Table(r)[q] = b THEN After(r, End(q))
        ELSE IF \E j \in a + 1 .. d : Table(r)[T + j] = b THEN Garbage
        ELSE After(r, Sure(r) + CHOOSE j \in 0 .. a : Table(r)[T + j] = b)
  BY <1>1 DEF Value
<1>7. passes => Value(r, a, B[q]) = After(r, End(q))
  BY <1>5, <1>6
<1> HIDE DEF q, T, B, d, passes
<1>8. a \in 0 .. d /\ \A j \in 0 .. a : j \in 0 .. d
  BY <1>1, <1>2 DEF d
<1>9. CASE passes /\ q = T
  <2>1. Place(r, a) = T
    BY <1>1, <1>9 DEF Place, q, T, passes
  <2>2. Sure(r) + a = End(q)
    BY <1>1, <1>9
  <2> QED
    BY <1>1, <1>5, <1>7, <1>9, <2>1, <2>2 DEF q, T, B, passes
<1>10. CASE ~(passes /\ q = T)
  <2>1. Place(r, a) = T + a
    BY <1>10 DEF Place, q, T, passes
  <2>2. T + a \in 1 .. Len(B) /\ B[T + a] # Null /\ B[T + a] \in Written(r, a)
        /\ Table(r)[T + a] = B[T + a]
    BY <1>4, <1>8
  <2>3. ~(passes /\ Table(r)[q] = B[T + a])
    <3> SUFFICES ASSUME passes, Table(r)[q] = B[T + a] PROVE FALSE
      OBVIOUS
    <3>1. q = T + a
      BY <1>3, <1>5, <2>2 DEF NoneTwice
    <3>2. T < q
      BY <1>1, <1>10, <3>1
    <3>3. End(T) + BlockSize <= End(q) /\ BlockSize > 0 /\ BlockSize \in Int
      BY <1>1, <3>2, EndOrder, ManagerAssumption
    <3> QED
      BY <1>1, <3>3
  <2>4. \A j \in 0 .. d : Table(r)[T + j] = B[T + a] => j = a
    <3> SUFFICES ASSUME NEW j \in 0 .. d, Table(r)[T + j] = B[T + a] PROVE j = a
      OBVIOUS
    <3>1. T + j = T + a
      BY <1>3, <1>4, <2>2 DEF NoneTwice
    <3> QED
      BY <1>1, <1>2, <3>1 DEF d
  <2>5. ~\E j \in a + 1 .. d : Table(r)[T + j] = B[T + a]
    <3> SUFFICES ASSUME NEW j \in a + 1 .. d, Table(r)[T + j] = B[T + a] PROVE FALSE
      OBVIOUS
    <3>1. d \in Nat
      BY <1>2 DEF d
    <3>2. j \in 0 .. d /\ j # a
      BY <1>1, <3>1
    <3> QED
      BY <2>4, <3>2
  <2>6. (CHOOSE j \in 0 .. a : Table(r)[T + j] = B[T + a]) = a
    <3>1. a \in 0 .. a
      BY <1>1
    <3>2. \A j \in 0 .. a : Table(r)[T + j] = B[T + a] <=> j = a
      BY <1>8, <2>2, <2>4
    <3> QED
      BY <3>1, <3>2
  <2>7. Value(r, a, B[T + a]) = After(r, Sure(r) + a)
    BY <1>6, <2>3, <2>5, <2>6
  <2>8. T + a >= T /\ T + a \in Int
    BY <1>1
  <2> QED
    BY <1>5, <1>7, <2>1, <2>2, <2>7, <2>8 DEF q, T, B, passes
<1> QED
  BY <1>9, <1>10

LEMMA StateFound ==
  ASSUME StateInv, NEW r \in DOMAIN step
  PROVE  HasState(r)
<1>1. /\ r \in Requests /\ req[r].status = "running"
      /\ worker[r].pos \in Int /\ worker[r].pos >= 0
  BY StepCounts DEF StateInv, BlockInv
<1>2. CASE worker[r].pos = 0
  BY <1>2 DEF HasState
<1>3. CASE worker[r].pos > 0
  <2>1. /\ At(r) \in 1 .. Len(List(r)) /\ List(r)[At(r)] # Null
        /\ content[List(r)[At(r)]] = After(r, worker[r].pos)
    BY <1>1, <1>3 DEF StateInv, Exact, Located
  <2>2. List(r) \in Seq(AllBlocks) /\ Table(r)[At(r)] = List(r)[At(r)]
    BY <1>1, <2>1, TableEntries DEF StateInv
  <2>3. List(r)[At(r)] \in Blocks
    <3>1. List(r)[At(r)] \in AllBlocks
      BY <2>1, <2>2, ElementOfSeq
    <3> QED
      BY <2>1, <3>1 DEF AllBlocks
  <2> QED
    BY <2>1, <2>2, <2>3 DEF HasState, Source, At
<1> QED
  BY <1>1, <1>2, <1>3

(* A step's own blocks hold what it wrote, all others what they held.      *)
Executes(accepted) ==
  /\ \A r \in DOMAIN step :
       /\ accepted[r] \in 0 .. step[r].drafts
       /\ worker'[r] = NextRow(r, accepted[r]) /\ req'[r] = AdvancedReq(r)
       /\ \A b \in Written(r, accepted[r]) : content'[b] = Value(r, accepted[r], b)
  /\ \A b \in Blocks : (\A r \in DOMAIN step : b \notin Written(r, accepted[r])) =>
                         content'[b] = content[b]
  /\ \A x \in Requests : x \notin DOMAIN step => worker'[x] = worker[x] /\ req'[x] = req[x]

LEMMA DispatchExecutes ==
  ASSUME BlockInv, Dispatch
  PROVE  \E accepted : Executes(accepted)
<1>1. PICK accepted \in Acceptances :
        /\ content' =
             [b \in Blocks |->
                IF \E r \in DOMAIN step : b \in Written(r, accepted[r])
                  THEN LET r == CHOOSE r \in DOMAIN step : b \in Written(r, accepted[r])
                       IN  Value(r, accepted[r], b)
                  ELSE content[b]]
        /\ worker' = [r \in Requests |-> IF r \in DOMAIN step THEN NextRow(r, accepted[r])
                                         ELSE worker[r]]
        /\ req' = [r \in Requests |-> IF r \in DOMAIN step THEN AdvancedReq(r) ELSE req[r]]
  BY DEF Dispatch
<1>2. \A r \in DOMAIN step : r \in Requests /\ step[r].drafts \in Nat
  BY StepCounts DEF BlockInv
<1>3. ASSUME NEW r \in DOMAIN step PROVE accepted[r] \in 0 .. step[r].drafts
  <2>1. accepted[r] \in 0 .. NumSpec /\ accepted[r] <= IF step[r].padded THEN 0 ELSE step[r].drafts
    BY DEF Acceptances
  <2>2. accepted[r] \in Int /\ accepted[r] >= 0 /\ step[r].drafts \in Nat
    BY <1>2, <2>1, ManagerAssumption
  <2> QED
    BY <2>1, <2>2
<1>4. ASSUME NEW r \in DOMAIN step, NEW b \in Written(r, accepted[r])
      PROVE  content'[b] = Value(r, accepted[r], b)
  <2>1. b \in Blocks /\ \E i \in 1 .. Len(List(r)) : List(r)[i] = b
    BY <1>3, WrittenBlock
  <2>2. ASSUME NEW x \in DOMAIN step, b \in Written(x, accepted[x]) PROVE x = r
    <3>1. accepted[x] \in 0 .. step[x].drafts /\ r \in Requests
      BY <1>2, <1>3
    <3> QED
      BY <2>1, <2>2, <3>1, WrittenBlock
  <2>3. (CHOOSE x \in DOMAIN step : b \in Written(x, accepted[x])) = r
    BY <2>2
  <2>4. content'[b] = LET x == CHOOSE x \in DOMAIN step : b \in Written(x, accepted[x])
                      IN  Value(x, accepted[x], b)
    BY <1>1, <2>1
  <2> QED
    BY <2>3, <2>4
<1>5. \A b \in Blocks : (\A r \in DOMAIN step : b \notin Written(r, accepted[r])) =>
                          content'[b] = content[b]
  BY <1>1
<1>6. /\ \A r \in DOMAIN step : worker'[r] = NextRow(r, accepted[r]) /\ req'[r] = AdvancedReq(r)
      /\ \A x \in Requests : x \notin DOMAIN step => worker'[x] = worker[x] /\ req'[x] = req[x]
  BY <1>1, <1>2
<1>7. Executes(accepted)
  BY <1>3, <1>4, <1>5, <1>6 DEF Executes
<1> QED
  BY <1>7

LEMMA DispatchExact ==
  ASSUME StateInv, Dispatch
  PROVE  Exact'
<1>1. /\ Shape /\ Exact /\ BlockInv /\ CounterInv /\ req \in [Requests -> Req]
      /\ NumSpec \in Nat
  BY ManagerAssumption
     DEF StateInv, BlockInv, RefInv, CounterInv, Counters, ServingInv, Shape
<1>2. PICK accepted : Executes(accepted)
  BY <1>1, DispatchExecutes
<1>3. /\ DOMAIN step' = {} /\ pool' = pool /\ mgr' = mgr
      /\ req' = [r \in Requests |-> IF r \in DOMAIN step THEN AdvancedReq(r) ELSE req[r]]
  BY DEF Dispatch, ResetPass
<1>4. \A x \in Requests : Held(List(x)) \subseteq Blocks /\ DOMAIN List(x) = 1 .. Len(List(x))
                          /\ Len(List(x)) \in Nat
  <2> SUFFICES ASSUME NEW x \in Requests
               PROVE  Held(List(x)) \subseteq Blocks /\ DOMAIN List(x) = 1 .. Len(List(x))
                      /\ Len(List(x)) \in Nat
    OBVIOUS
  <2>1. List(x) \in Seq(AllBlocks)
    BY <1>1, MgrFields DEF Shape, List
  <2> QED
    BY <2>1, HeldInBlocks
<1>5. ASSUME NEW x \in Requests, NEW k \in 1 .. Len(List(x)), List(x)[k] # Null,
             x \in DOMAIN step => End(k) <= worker[x].pos
      PROVE  content'[List(x)[k]] = content[List(x)[k]]
  <2> DEFINE b == List(x)[k]
  <2>1. b \in Blocks
    BY <1>4, <1>5 DEF Held
  <2>2. ASSUME NEW r \in DOMAIN step, b \in Written(r, accepted[r]) PROVE FALSE
    <3>1. accepted[r] \in 0 .. step[r].drafts
      BY <1>2 DEF Executes
    <3>2. x = r /\ End(k) > worker[r].pos
      BY <1>1, <2>2, <3>1, WrittenBlock
    <3>3. End(k) \in Int /\ worker[r].pos \in Int
      BY <1>1, <1>4, EndInt, StepCounts
    <3> QED
      BY <1>5, <3>2, <3>3
  <2> QED
    BY <1>2, <2>1, <2>2 DEF Executes
<1>6. ASSUME NEW x \in Requests, x \notin DOMAIN step, req'[x].status = "running"
      PROVE  Stored(x)' /\ Located(x)'
  <2>1. worker'[x] = worker[x] /\ req'[x] = req[x] /\ mgr'[x].blocks = mgr[x].blocks
    BY <1>2, <1>3, <1>6 DEF Executes
  <2>2. Stored(x) /\ Located(x)
    BY <1>1, <1>6, <2>1 DEF Exact
  <2>3. \A b \in Held(List(x)) : content'[b] = content[b]
    BY <1>4, <1>5, <1>6 DEF Held
  <2> QED
    BY <1>1, <1>6, <2>1, <2>2, <2>3, OthersExact
<1>7. ASSUME NEW r \in DOMAIN step
      PROVE  Stored(r)' /\ Located(r)' /\ worker'[r].pos \in Int /\ worker'[r].pos >= Sure(r)
  <2> DEFINE a == accepted[r]
             B == List(r)
             q == Last(r, a)
             e == Sure(r) + a
             L == Place(r, a)
  <2>1. /\ a \in 0 .. step[r].drafts /\ worker'[r] = NextRow(r, a) /\ req'[r] = AdvancedReq(r)
        /\ \A b \in Written(r, a) : content'[b] = Value(r, a, b)
    BY <1>2 DEF Executes
  <2>2. /\ r \in Requests /\ req[r].status = "running" /\ Sure(r) \in Int
        /\ worker[r].pos \in Int /\ Sure(r) > worker[r].pos
    BY <1>1, StepCounts
  <2>3. /\ a \in Int /\ a >= 0 /\ a < BlockSize
        /\ e \in Int /\ e >= Sure(r) /\ e > worker[r].pos /\ e > 0 /\ e < Sure(r) + BlockSize
        /\ q \in Int /\ End(q) \in Int /\ Boundary(r, a) = End(q)
        /\ Boundary(r, a) \div BlockSize = q /\ End(q) <= e /\ e < End(q) + BlockSize
        /\ Target(r) \in Int /\ Cdiv(e) \in Int /\ Cdiv(e) <= Target(r)
        /\ (a > 0 => step[r].drafts > 0)
    BY <1>1, <2>1, StepEnd
  <2>4. /\ PassesBoundary(r, a) =>
             /\ q \in 1 .. Len(B) /\ B[q] \in Written(r, a)
             /\ Value(r, a, B[q]) = After(r, End(q))
        /\ L \in 1 .. Len(B) /\ L >= Target(r) /\ L \in Int
        /\ B[L] # Null /\ B[L] \in Written(r, a)
        /\ Value(r, a, B[L]) = After(r, e)
    <3>1. HasState(r)
      BY StateFound
    <3> QED
      BY <1>1, <2>1, <3>1, WrittenValue
  <2>5. worker'[r].pos = e /\ worker'[r].index + worker'[r].bias = L
    <3>1. /\ NextRow(r, a).pos = e /\ NextRow(r, a).index = Target(r)
          /\ NextRow(r, a).bias = IF PassesBoundary(r, a) /\ q = Target(r) THEN 0 ELSE a
      BY <2>3 DEF NextRow
    <3> QED
      BY <2>1, <3>1 DEF Place
  <2>6. Laid(B, worker[r].table, worker[r].pos, Sure(r), Top(r), Lacks(r)) /\ Stored(r)
    BY <1>1, <2>2 DEF BlockInv, Lists, SureOf, Exact
  <2>7. List(r)' = B /\ At(r)' = L
    BY <1>3, <2>5 DEF List, At
  <2> HIDE DEF a, e, L, q, B
  <2>8. ASSUME NEW i \in 1 .. Len(B), B[i] # Null, End(i) <= e
        PROVE  content'[B[i]] = After(r, End(i))
    <3>1. CASE End(i) <= worker[r].pos
      <4>1. content'[B[i]] = content[B[i]]
        BY <1>5, <2>2, <2>8, <3>1 DEF B
      <4> QED
        BY <2>6, <2>8, <3>1, <4>1 DEF Stored, B
    <3>2. CASE ~(End(i) <= worker[r].pos)
      <4>1. i \in Int /\ End(i) \in Int
        BY EndInt
      <4>2. End(i) >= Sure(r)
        <5> SUFFICES ASSUME End(i) <= Sure(r) PROVE End(i) = Sure(r)
          BY <2>2, <4>1
        <5>1. End(i) > worker[r].pos
          BY <2>2, <3>2, <4>1
        <5> QED
          BY <2>6, <2>8, <5>1 DEF Laid
      <4>3. i = q
        <5>1. End(i) < End(q) + BlockSize
          <6>1. BlockSize \in Int
            BY ManagerAssumption
          <6>2. End(i) \in Int /\ End(q) \in Int /\ e \in Int /\ End(i) <= e
                /\ e < End(q) + BlockSize
            BY <2>3, <2>8, <4>1
          <6> HIDE DEF End
          <6> QED
            BY <6>1, <6>2
        <5>2. End(q) < End(i) + BlockSize
          BY <2>2, <2>3, <4>1, <4>2, ManagerAssumption
        <5> QED
          BY <2>3, <4>1, <5>1, <5>2, SameEnd
      <4>4. PassesBoundary(r, a)
        BY <2>3, <4>2, <4>3 DEF PassesBoundary
      <4> QED
        BY <2>1, <2>4, <4>3, <4>4
    <3> QED
      BY <3>1, <3>2
  <2>9. Stored(r)'
    BY <2>5, <2>7, <2>8 DEF Stored, End, After
  <2>10. Lag(req'[r]) > 1 => L = Cdiv(e)
    <3> SUFFICES ASSUME Lag(req'[r]) > 1 PROVE L = Cdiv(e)
      OBVIOUS
    <3>1. /\ req'[r].tokens = req[r].tokens
          /\ req'[r].computed = req[r].computed + step[r].n
          /\ req'[r].placeholders = IF IsChunk(r) THEN req[r].placeholders
                                    ELSE req[r].placeholders + 1 + step[r].drafts
      BY <1>1, <1>3, <2>2, AdvancedFields
    <3>2. /\ req[r].tokens \in Int /\ req[r].computed \in Int /\ req[r].placeholders \in Int
          /\ Lag(req[r]) = req[r].tokens + req[r].placeholders - req[r].computed
      BY <1>1, <2>2, ReqFields DEF Lag
    <3>3. /\ step[r].n \in Nat /\ step[r].drafts \in Nat
          /\ ~IsChunk(r) => step[r].n = Lag(req[r]) + step[r].drafts
          /\ IsChunk(r) <=> Lacks(r) > 0
          /\ Sure(r) + step[r].drafts = worker[r].pos + step[r].n
          /\ step[r].drafts > 0 => Lag(req[r]) = 1
      BY <1>1, StepCounts
    <3>4. IsChunk(r)
      <4> SUFFICES ASSUME ~IsChunk(r) PROVE FALSE
        OBVIOUS
      <4>1. Lag(req'[r]) = 1
        BY <3>1, <3>2, <3>3 DEF Lag
      <4> QED
        BY <4>1
    <3>5. step[r].drafts = 0
      <4>1. step[r].drafts > 0 => step[r].n = Lag(req[r]) + step[r].drafts
        BY <1>1 DEF CounterInv, Counters, InPass, Planned
      <4>2. req[r].computed + step[r].n < req[r].tokens + req[r].placeholders
        BY <3>4 DEF IsChunk
      <4> QED
        BY <3>2, <3>3, <4>1, <4>2
    <3>6. a = 0
      BY <2>3, <3>5
    <3>7. L = Target(r)
      BY <2>3, <3>6 DEF Place, L, a
    <3>8. e = worker[r].pos + step[r].n
      BY <2>2, <2>3, <3>3, <3>5, <3>6 DEF e
    <3> QED
      BY <3>7, <3>8 DEF Target
  <2>11. Located(r)'
    <3>1. content'[B[L]] = After(r, e)
      BY <2>1, <2>4
    <3>2. L >= Cdiv(e)
      BY <2>3, <2>4
    <3>3. Lag(req[r])' = Lag(req'[r])
      BY DEF Lag
    <3> QED
      BY <2>4, <2>5, <2>7, <2>10, <3>1, <3>2, <3>3 DEF Located, Cdiv, After
  <2> QED
    BY <2>3, <2>5, <2>9, <2>11
<1>8. ASSUME NEW b \in Blocks PROVE Backed(b)'
  <2>1. ASSUME NEW r \in DOMAIN step, NEW i \in 1 .. Len(List(r)), List(r)[i] = b,
               Marked(r, i, b)
        PROVE  content'[b] = pool[b].hash
    <3>1. b # Null /\ End(i) = Sure(r) /\ pool[b].hash = After(r, End(i))
      BY <2>1, ServingAssumption DEF Marked
    <3>2. Stored(r)' /\ End(i) <= worker'[r].pos
      BY <1>7, <3>1
    <3>3. content'[b] = After(r, End(i))
      BY <1>3, <2>1, <3>1, <3>2 DEF Stored, List, End, After
    <3> QED
      BY <3>1, <3>3
  <2>2. CASE \E r \in DOMAIN step : b \in Written(r, accepted[r])
    <3>1. PICK r \in DOMAIN step : b \in Written(r, accepted[r])
      BY <2>2
    <3>2. accepted[r] \in 0 .. step[r].drafts
      BY <1>2 DEF Executes
    <3>3. \/ pool[b].hash = Nothing
          \/ \E i \in 1 .. Len(List(r)) : List(r)[i] = b /\ Marked(r, i, b)
      BY <1>1, <3>1, <3>2, WrittenBlock
    <3>4. Nothing' = Nothing
      BY DEF Nothing
    <3> QED
      BY <1>3, <2>1, <3>3, <3>4 DEF Backed
  <2>3. CASE \A r \in DOMAIN step : b \notin Written(r, accepted[r])
    <3>1. content'[b] = content[b]
      BY <1>2, <2>3 DEF Executes
    <3>2. Nothing' = Nothing
      BY DEF Nothing
    <3>3. Backed(b)
      BY <1>1 DEF Exact
    <3>4. pool[b].hash = Nothing \/ content'[b] = pool[b].hash
      BY <2>1, <3>1, <3>3 DEF Backed
    <3> QED
      BY <1>3, <3>2, <3>4 DEF Backed
  <2> QED
    BY <2>2, <2>3
<1> QED
  BY <1>6, <1>7, <1>8 DEF Exact

-----------------------------------------------------------------------------
LEMMA StepExact ==
  ASSUME StateInv, [Next]_vars
  PROVE  Exact'
<1>1. BlockInv /\ CounterInv /\ Shape /\ Exact
  BY DEF StateInv, BlockInv, RefInv, CounterInv, Counters, ServingInv
<1>2. ASSUME Unmoved PROVE Exact'
  BY <1>1, <1>2, SameExact
<1>3. CASE Pass
  BY <1>1, <1>2, <1>3, QuietUnmoved, GrowExact, PreemptExact, AdmitExact, DispatchExact
     DEF Pass
<1>4. ASSUME NEW r \in Requests, Arrive(r) \/ Abort(r) \/ Update(r)
      PROVE  Exact'
  BY <1>1, <1>2, <1>4, QuietUnmoved, AbortExact, UpdateTokensExact DEF Update
<1> QED
  BY <1>1, <1>2, <1>3, <1>4, QuietUnmoved DEF Next

LEMMA StateInvariant == Spec => []StateInv
<1>1. Init => Exact
  BY InitExact
<1>2. BlockInv /\ Exact /\ [Next]_vars => Exact'
  BY StepExact DEF StateInv
<1> QED
  BY <1>1, <1>2, BlockInvariant, PTL DEF Spec, StateInv

(* The state of a running request is found where its next step looks for   *)
(* it and is the state after exactly the tokens computed so far, over      *)
(* rejected drafts, preemption, prefix hits and the moving of the          *)
(* speculative blocks.                                                     *)
THEOREM StateAlwaysExact == Spec => []StateExact
<1>1. StateInv => StateExact
  BY StateFound DEF StateExact
<1> QED
  BY <1>1, StateInvariant, PTL

(* The prefix cache is sound: a block that a request can hit holds the     *)
(* state of the tokens its hash stands for.                                *)
THEOREM CacheAlwaysExact == Spec => []CacheExact
<1>1. StateInv => CacheExact
  <2> SUFFICES ASSUME StateInv, NEW b \in Blocks, pool[b].hash # Nothing,
                      phase \in {"idle", "update"} \/ pool[b].hash \notin fresh
               PROVE  content[b] = pool[b].hash
    BY DEF CacheExact
  <2>1. InPass /\ Backed(b)
    BY DEF StateInv, BlockInv, RefInv, References, CounterInv, Counters, Exact
  <2>2. ~\E r \in DOMAIN step : \E i \in 1 .. Len(List(r)) : List(r)[i] = b /\ Marked(r, i, b)
    <3>1. CASE phase \in {"idle", "update"}
      BY <2>1, <3>1 DEF InPass
    <3>2. CASE pool[b].hash \notin fresh
      BY <3>2 DEF Marked
    <3> QED
      BY <3>1, <3>2
  <2> QED
    BY <2>1, <2>2 DEF Backed
<1> QED
  BY <1>1, StateInvariant, PTL

-----------------------------------------------------------------------------
(* How many blocks a request holds.  A course of a running request gives   *)
(* where it really is after each step in flight (`kept') and how far the   *)
(* scheduler has counted (`counted'), which is further by the drafts those *)
(* steps have rejected; both begin at the tokens processed.                *)
Course(fs, q, pos, r, kept, counted) ==
  /\ kept \in [0 .. Len(fs) -> Int] /\ counted \in [0 .. Len(fs) -> Int]
  /\ kept[0] = q.computed - q.inflight /\ counted[0] = kept[0] /\ kept[0] >= 0
  /\ kept[Len(fs)] = pos /\ counted[Len(fs)] = q.computed
  /\ \A k \in 1 .. Len(fs) :
       /\ kept[k] = kept[k - 1] + Share(fs[k], r).kept
       /\ counted[k] = counted[k - 1] + Share(fs[k], r).kept + Share(fs[k], r).rejected

(* The first m steps are of the prompt and reject nothing; the ones behind *)
(* them take one block's tokens at most.                                   *)
Certain(q, len, kept, counted, m) ==
  /\ m \in 0 .. len /\ \A k \in 0 .. m : counted[k] = kept[k]
  /\ \A k \in m .. len :
       counted[k] <= q.computed /\ q.computed - counted[k] <= (len - k) * BlockSize
  /\ Lag(q) > 1 => m = len

(* An entry with a block is one no longer needed, the entry a step of the  *)
(* prompt ends in, or one behind those, of which there are as many as      *)
(* there can be further steps.                                             *)
Needed(i, kept, m) == i <= Cdiv(kept[0]) \/ \E k \in 1 .. m : i = Cdiv(kept[k])
Spread(s, kept, m) ==
  /\ Len(s) - NumSpec <= Cdiv(kept[m]) + (Depth - m)
  /\ \A i \in 1 .. Len(s) - NumSpec :
       s[i] # Null => Needed(i, kept, m) \/ i > Cdiv(kept[m])
(* The same when the pass has scheduled a step of the prompt to `end'.     *)
SpreadTo(s, end, kept, m) ==
  /\ Len(s) - NumSpec = Cdiv(end)
  /\ \A i \in 1 .. Len(s) - NumSpec :
       s[i] # Null => Needed(i, kept, m) \/ i = Cdiv(end)

Bounded(s) == Cardinality(Held(s)) <= Depth + 1 + NumSpec

LEMMA CoveredHeld ==
  ASSUME NEW s \in Seq(AllBlocks), NEW n \in Nat, NEW at,
         \A i \in 1 .. Len(s) : s[i] # Null => \E j \in 1 .. n : at[j] = i
  PROVE  Cardinality(Held(s)) <= n
<1>1. CASE Held(s) = {}
  BY <1>1, FS_EmptySet
<1>2. CASE Held(s) # {}
  <2>1. PICK b : b \in Held(s)
    BY <1>2
  <2> DEFINE g == [j \in 1 .. n |->
                     IF at[j] \in 1 .. Len(s) /\ s[at[j]] # Null THEN s[at[j]] ELSE b]
  <2>2. Held(s) = {s[i] : i \in 1 .. Len(s)} \ {Null}
    BY DEF Held
  <2>3. \A j \in 1 .. n : g[j] \in Held(s)
    BY <2>1, <2>2
  <2>4. \A x \in Held(s) : \E j \in 1 .. n : g[j] = x
    <3> SUFFICES ASSUME NEW i \in 1 .. Len(s), s[i] # Null
                 PROVE  \E j \in 1 .. n : g[j] = s[i]
      BY <2>2
    <3>1. PICK j \in 1 .. n : at[j] = i
      OBVIOUS
    <3>2. g[j] = s[i]
      BY <3>1
    <3> QED
      BY <3>2
  <2>5. g \in [1 .. n -> Held(s)]
    BY <2>3
  <2> HIDE DEF g
  <2>6. g \in Surjection(1 .. n, Held(s))
    BY <2>4, <2>5 DEF Surjection
  <2>7. ExistsSurjection(1 .. n, Held(s))
    BY <2>6 DEF ExistsSurjection
  <2> QED
    BY <2>7, FS_SurjCardinalityBound
<1> QED
  BY <1>1, <1>2

(* Swept up to the tokens processed, such a list holds what it may.        *)
LEMMA SpreadBounded ==
  ASSUME NEW s \in Seq(AllBlocks), NEW len \in Nat, NEW kept \in [0 .. len -> Int],
         NEW m \in 0 .. len, \A i \in 1 .. Len(s) : i < Cdiv(kept[0]) => s[i] = Null,
         len <= Depth, Spread(s, kept, m)
  PROVE  Bounded(s)
<1> DEFINE top == Len(s) - NumSpec
           at == [j \in 1 .. Depth + 1 + NumSpec |->
                    IF j <= m + 1 THEN Cdiv(kept[j - 1])
                    ELSE IF j <= Depth + 1 THEN Cdiv(kept[m]) + ((j - m) - 1)
                    ELSE top + ((j - Depth) - 1)]
<1>1. /\ Depth \in Nat /\ NumSpec \in Nat /\ Len(s) \in Nat /\ m \in Nat /\ m <= Depth
      /\ top \in Int /\ Depth + 1 + NumSpec \in Nat
  BY HeldInBlocks, ServingAssumption, ManagerAssumption
<1>2. \A k \in 0 .. m : Cdiv(kept[k]) \in Int
  <2>1. \A k \in 0 .. m : kept[k] \in Int
    OBVIOUS
  <2> QED
    BY <2>1, CdivInt
<1>3. 0 \in 0 .. m /\ m \in 0 .. m
  BY <1>1
<1>4. ASSUME NEW i \in 1 .. Len(s), s[i] # Null
      PROVE  \E j \in 1 .. Depth + 1 + NumSpec : at[j] = i
  <2>1. CASE i > top
    <3> DEFINE j == ((i - top) + Depth) + 1
    <3>1. j \in 1 .. Depth + 1 + NumSpec /\ ~(j <= m + 1) /\ ~(j <= Depth + 1)
          /\ top + ((j - Depth) - 1) = i
      BY <1>1, <2>1
    <3> HIDE DEF j, top
    <3>2. at[j] = i
      BY <3>1
    <3> QED
      BY <3>1, <3>2
  <2>2. CASE i <= top /\ i <= Cdiv(kept[0])
    <3>1. i = Cdiv(kept[0])
      BY <1>2, <1>3, <1>4, <2>2
    <3>2. 1 \in 1 .. Depth + 1 + NumSpec /\ 1 <= m + 1 /\ 1 - 1 = 0
      BY <1>1
    <3>3. at[1] = i
      BY <3>1, <3>2
    <3> QED
      BY <3>2, <3>3
  <2>3. CASE \E k \in 1 .. m : i = Cdiv(kept[k])
    <3>1. PICK k \in 1 .. m : i = Cdiv(kept[k])
      BY <2>3
    <3>2. k + 1 \in 1 .. Depth + 1 + NumSpec /\ k + 1 <= m + 1 /\ (k + 1) - 1 = k
      BY <1>1
    <3>3. at[k + 1] = i
      BY <3>1, <3>2
    <3> QED
      BY <3>2, <3>3
  <2>4. CASE i <= top /\ i > Cdiv(kept[m])
    <3> DEFINE j == (m + 1) + (i - Cdiv(kept[m]))
    <3>1. top <= Cdiv(kept[m]) + (Depth - m) /\ Cdiv(kept[m]) \in Int
      BY <1>2, <1>3 DEF Spread
    <3>2. /\ j \in 1 .. Depth + 1 + NumSpec /\ ~(j <= m + 1) /\ j <= Depth + 1
          /\ Cdiv(kept[m]) + ((j - m) - 1) = i
      <4>1. PICK c \in Int : c = Cdiv(kept[m])
        BY <3>1
      <4>2. /\ i \in Int /\ i > c /\ i <= c + (Depth - m) /\ m \in Nat /\ Depth \in Nat
            /\ NumSpec \in Nat /\ m <= Depth
        BY <1>1, <2>4, <3>1, <4>1
      <4>3. j = (m + 1) + (i - c)
        BY <4>1
      <4> HIDE DEF j, top, at
      <4>4. j \in Int /\ j > m + 1 /\ j <= Depth + 1 /\ c + ((j - m) - 1) = i
        BY <4>2, <4>3
      <4> QED
        BY <4>1, <4>2, <4>4
    <3> HIDE DEF j
    <3>3. at[j] = i
      BY <3>2
    <3> QED
      BY <3>2, <3>3
  <2>5. i <= top => Needed(i, kept, m) \/ i > Cdiv(kept[m])
    <3>1. i <= top => i \in 1 .. Len(s) - NumSpec
      BY <1>1
    <3> QED
      BY <1>4, <3>1 DEF Spread
  <2>6. i \in Int
    BY <1>1
  <2> QED
    BY <1>1, <2>1, <2>2, <2>3, <2>4, <2>5, <2>6 DEF Needed
<1> HIDE DEF at
<1>5. Cardinality(Held(s)) <= Depth + 1 + NumSpec
  BY <1>1, <1>4, CoveredHeld
<1> QED
  BY <1>5 DEF Bounded

LEMMA SpreadToBounded ==
  ASSUME NEW s \in Seq(AllBlocks), NEW len \in Nat, NEW kept \in [0 .. len -> Int],
         NEW m \in 0 .. len, \A i \in 1 .. Len(s) : i < Cdiv(kept[0]) => s[i] = Null,
         len < Depth, NEW end, SpreadTo(s, end, kept, m)
  PROVE  Bounded(s)
<1> DEFINE top == Len(s) - NumSpec
           at == [j \in 1 .. Depth + 1 + NumSpec |->
                    IF j <= m + 1 THEN Cdiv(kept[j - 1])
                    ELSE IF j <= Depth + 1 THEN Cdiv(end)
                    ELSE top + ((j - Depth) - 1)]
<1>1. /\ Depth \in Nat /\ NumSpec \in Nat /\ Len(s) \in Nat /\ m \in Nat /\ m < Depth
      /\ top \in Int /\ Depth + 1 + NumSpec \in Nat
  BY HeldInBlocks, ServingAssumption, ManagerAssumption
<1>2. Cdiv(kept[0]) \in Int
  <2>1. kept[0] \in Int
    OBVIOUS
  <2> QED
    BY <2>1, CdivInt
<1>3. ASSUME NEW i \in 1 .. Len(s), s[i] # Null
      PROVE  \E j \in 1 .. Depth + 1 + NumSpec : at[j] = i
  <2>1. CASE i > top
    <3> DEFINE j == ((i - top) + Depth) + 1
    <3>1. j \in 1 .. Depth + 1 + NumSpec /\ ~(j <= m + 1) /\ ~(j <= Depth + 1)
          /\ top + ((j - Depth) - 1) = i
      BY <1>1, <2>1
    <3> HIDE DEF j, top
    <3>2. at[j] = i
      BY <3>1
    <3> QED
      BY <3>1, <3>2
  <2>2. CASE i <= Cdiv(kept[0])
    <3>1. i = Cdiv(kept[0])
      BY <1>2, <1>3, <2>2
    <3>2. 1 \in 1 .. Depth + 1 + NumSpec /\ 1 <= m + 1 /\ 1 - 1 = 0
      BY <1>1
    <3>3. at[1] = i
      BY <3>1, <3>2
    <3> QED
      BY <3>2, <3>3
  <2>3. CASE \E k \in 1 .. m : i = Cdiv(kept[k])
    <3>1. PICK k \in 1 .. m : i = Cdiv(kept[k])
      BY <2>3
    <3>2. k + 1 \in 1 .. Depth + 1 + NumSpec /\ k + 1 <= m + 1 /\ (k + 1) - 1 = k
      BY <1>1
    <3>3. at[k + 1] = i
      BY <3>1, <3>2
    <3> QED
      BY <3>2, <3>3
  <2>4. CASE i = Cdiv(end)
    <3>1. Depth + 1 \in 1 .. Depth + 1 + NumSpec /\ ~(Depth + 1 <= m + 1) /\ Depth + 1 <= Depth + 1
      BY <1>1
    <3>2. at[Depth + 1] = i
      BY <2>4, <3>1
    <3> QED
      BY <3>1, <3>2
  <2>5. i <= top => Needed(i, kept, m) \/ i = Cdiv(end)
    <3>1. i <= top => i \in 1 .. Len(s) - NumSpec
      BY <1>1
    <3> QED
      BY <1>3, <3>1 DEF SpreadTo
  <2>6. i \in Int
    BY <1>1
  <2> QED
    BY <1>1, <2>1, <2>2, <2>3, <2>4, <2>5, <2>6 DEF Needed
<1> HIDE DEF at
<1>4. Cardinality(Held(s)) <= Depth + 1 + NumSpec
  BY <1>1, <1>3, CoveredHeld
<1> QED
  BY <1>4 DEF Bounded

Spreads(fs, q, pos, r, s) ==
  \E kept, counted, m : /\ Course(fs, q, pos, r, kept, counted)
                        /\ Certain(q, Len(fs), kept, counted, m)
                        /\ Spread(s, kept, m)

(* What the sweep has passed has no block, and it passes nothing that is   *)
(* not processed.                                                          *)
Cleared(s, swept, processed) ==
  /\ processed \in Int /\ swept \in Nat /\ swept <= Cdiv(processed)
  /\ \A i \in 1 .. Len(s) : i <= swept => s[i] = Null

LEMMA CdivMonotone ==
  ASSUME NEW a \in Int, NEW b \in Int, a <= b
  PROVE  Cdiv(a) \in Int /\ Cdiv(b) \in Int /\ Cdiv(a) <= Cdiv(b)
<1>1. Cdiv(a) \in Int /\ Cdiv(b) \in Int
  BY CdivInt
<1>2. b <= End(Cdiv(b)) /\ End(Cdiv(b)) \in Int
  BY <1>1, CdivEnd, EndInt
<1>3. a <= End(Cdiv(b))
  BY <1>2
<1> QED
  BY <1>1, <1>3, CdivEnd

(* A sweep leaves no block before the entry of the last token processed.   *)
LEMMA SweptClear ==
  ASSUME CounterInv, NEW r \in Requests, req[r].status = "running",
         req[r].computed - req[r].inflight \in Nat,
         Cleared(List(r), mgr[r].sweep, req[r].computed - req[r].inflight)
  PROVE  /\ Cleared(SweptMgr(r).blocks, SweptMgr(r).sweep, req[r].computed - req[r].inflight)
         /\ \A i \in 1 .. Len(SweptMgr(r).blocks) :
              i < Cdiv(req[r].computed - req[r].inflight) => SweptMgr(r).blocks[i] = Null
<1>1. PICK p : p = req[r].computed - req[r].inflight
  OBVIOUS
<1> DEFINE B == List(r)
           S == SweptMgr(r).blocks
           start == mgr[r].sweep
<1>2. Processed(r) = p /\ p \in Nat /\ Cdiv(p) \in Nat
  BY <1>1, CdivNat DEF Processed, Larger
<1>3. mgr[r] \in Mgr /\ B \in Seq(AllBlocks) /\ Len(B) \in Nat /\ start \in Nat
      /\ DOMAIN B = 1 .. Len(B) /\ start <= Cdiv(p)
      /\ \A i \in 1 .. Len(B) : i <= start => B[i] = Null
  BY <1>1, MgrFields, HeldInBlocks DEF CounterInv, ServingInv, Shape, List, Cleared
<1>4. /\ Len(S) = Len(B)
      /\ \A i \in 1 .. Len(B) : S[i] # Null => S[i] = B[i]
  BY <1>3, SweptKept
<1>5. S = NullOut(B, SweptOf(r)) /\ SweptMgr(r).sweep = SweepEnd(B, start, Processed(r))
  BY <1>3 DEF SweptMgr, Mgr, List
<1>6. \A i \in 1 .. Len(B) : S[i] = IF i \in SweptOf(r) THEN Null ELSE B[i]
  BY <1>3, <1>5 DEF NullOut
<1> HIDE DEF S
<1>7. ASSUME NEW i \in 1 .. Len(B), i < Cdiv(p) PROVE S[i] = Null
  <2>1. CASE i <= start
    BY <1>3, <1>4, <2>1
  <2>2. CASE i > start /\ B[i] # Null
    <3>1. i \in start + 1 .. Smaller(Cdiv(p) - 1, Len(B))
      BY <1>2, <1>3, <1>7, <2>2 DEF Smaller
    <3>2. i \in StateSweep(B, start, p)
      BY <2>2, <3>1 DEF StateSweep
    <3>3. i \in SweptOf(r)
      BY <1>2, <3>2 DEF SweptOf, Swept, List
    <3> QED
      BY <1>6, <3>3
  <2>3. CASE B[i] = Null
    BY <1>4, <2>3
  <2> QED
    BY <1>2, <1>3, <1>7, <2>1, <2>2, <2>3
<1>8. SweptMgr(r).sweep \in Nat /\ SweptMgr(r).sweep <= Cdiv(p)
      /\ \A i \in Nat : i <= SweptMgr(r).sweep => i <= start \/ i < Cdiv(p)
  <2>1. PICK c \in Nat : c = Cdiv(p)
    BY <1>2
  <2>2. SweptMgr(r).sweep \in Nat
    <3>1. p \in Int
      BY <1>2
    <3>2. SweepEnd(B, start, p) \in Nat
      BY <1>3, <3>1, SweepEndNat
    <3> QED
      BY <1>2, <1>5, <3>2
  <2>3. \/ SweptMgr(r).sweep = start
        \/ SweptMgr(r).sweep = Larger(start, Smaller(c - 1, Len(B)))
    BY <1>2, <1>5, <2>1 DEF SweepEnd
  <2>4. Larger(start, Smaller(c - 1, Len(B))) <= c
        /\ \A i \in Nat : i <= Larger(start, Smaller(c - 1, Len(B))) => i <= start \/ i < c
    <3> HIDE DEF start, B
    <3> QED
      BY <1>3, <2>1 DEF Larger, Smaller
  <2> QED
    BY <1>3, <2>1, <2>2, <2>3, <2>4
<1>9. \A i \in 1 .. Len(B) : i <= SweptMgr(r).sweep => S[i] = Null
  <2>1. \A i \in 1 .. Len(B) : i \in Nat
    BY <1>3
  <2> QED
    BY <1>3, <1>4, <1>7, <1>8, <2>1
<1>10. Cleared(S, SweptMgr(r).sweep, p)
  BY <1>2, <1>4, <1>8, <1>9 DEF Cleared
<1> QED
  BY <1>1, <1>4, <1>7, <1>10 DEF S

(* Fewer blocks are spread as well.                                        *)
LEMMA FewerSpread ==
  ASSUME NEW s, NEW t, NEW kept, NEW m, Len(t) = Len(s),
         \A i \in 1 .. Len(s) : t[i] # Null => t[i] = s[i], Len(s) \in Nat
  PROVE  /\ Spread(s, kept, m) => Spread(t, kept, m)
         /\ \A end : SpreadTo(s, end, kept, m) => SpreadTo(t, end, kept, m)
<1>1. \A i \in 1 .. Len(t) - NumSpec : i \in 1 .. Len(s)
  BY ManagerAssumption
<1>2. \A i \in 1 .. Len(t) - NumSpec : t[i] # Null => s[i] # Null
  BY <1>1
<1> QED
  BY <1>2 DEF Spread, SpreadTo

(* A request of which nothing is in flight is in no step.                  *)
LEMMA NotInFlight ==
  ASSUME CounterInv, NEW r \in Requests, req[r].status # "finished", req[r].inflight = 0
  PROVE  \A k \in 1 .. Len(flights) : r \notin DOMAIN flights[k]
<1>1. /\ flights \in Seq(Partial(Output)) /\ \A i \in 1 .. Len(flights) : Proper(flights[i])
  BY DEF CounterInv, Counters, ServingInv, Shape
<1>2. PICK t \in Amount : Owed(flights, r, t) /\ Ahead(req[r], worker[r].pos, t)
  BY DEF CounterInv, Counters, Balanced
<1>3. PICK A : Account(flights, r, A) /\ t = A[Len(flights)]
  BY <1>2 DEF Owed
<1>4. PICK len \in Nat : len = Len(flights)
  BY <1>1, LenProperties
<1>5. t.kept \in Nat /\ t.rejected \in Nat /\ t.kept + t.rejected = 0
  BY <1>2 DEF Ahead, Amount
<1>6. t.kept = 0
  BY <1>5
<1>7. \A k \in 0 .. len : A[k] \in Amount /\ A[k].kept <= t.kept
  BY <1>3, <1>4 DEF Account, AtMost
<1>8. \A k \in 0 .. len : A[k].kept = 0
  BY <1>6, <1>7 DEF Amount
<1> SUFFICES ASSUME NEW k \in 1 .. len, r \in DOMAIN flights[k] PROVE FALSE
  BY <1>4
<1>9. /\ Share(flights[k], r) \in Amount /\ A[k] = Plus(A[k - 1], Share(flights[k], r))
      /\ k \in 0 .. len /\ k - 1 \in 0 .. len
  BY <1>3, <1>4 DEF Account
<1>10. A[k].kept = A[k - 1].kept + Share(flights[k], r).kept
  BY <1>9 DEF Plus
<1>11. Share(flights[k], r).kept = flights[k][r].n - flights[k][r].rejected
  BY DEF Share
<1>12. /\ flights[k][r].n \in Nat /\ flights[k][r].rejected \in Nat
       /\ flights[k][r].rejected < flights[k][r].n
  BY <1>1, <1>4 DEF Proper
<1>13. A[k].kept = 0 /\ A[k - 1].kept = 0
  BY <1>8, <1>9
<1> QED
  BY <1>10, <1>11, <1>12, <1>13

LEMMA CourseSame ==
  ASSUME NEW fs, NEW gs, NEW q, NEW pos, NEW r, NEW s, Len(gs) = Len(fs),
         \A k \in 1 .. Len(fs) : Share(gs[k], r) = Share(fs[k], r)
  PROVE  Spreads(fs, q, pos, r, s) => Spreads(gs, q, pos, r, s)
<1> SUFFICES ASSUME NEW kept, NEW counted, NEW m, Course(fs, q, pos, r, kept, counted),
                    Certain(q, Len(fs), kept, counted, m), Spread(s, kept, m)
             PROVE  Spreads(gs, q, pos, r, s)
  BY DEF Spreads
<1>1. Course(gs, q, pos, r, kept, counted)
  BY DEF Course
<1> QED
  BY <1>1 DEF Spreads

(* A position further on, in place of the first.                           *)
LEMMA SpreadFurther ==
  ASSUME NEW s, NEW kept, NEW m, NEW kept2, NEW m2, NEW d \in {0, 1},
         Spread(s, kept, m), Len(s) \in Nat, m \in Nat, m2 \in Nat,
         m2 = IF m = 0 THEN 0 ELSE m - d,
         \A k \in 0 .. m : Cdiv(kept[k]) \in Int, Cdiv(kept2[0]) \in Int,
         m = 0 => Cdiv(kept[0]) <= Cdiv(kept2[0]),
         m # 0 => Cdiv(kept[0]) <= Cdiv(kept[1]) /\ Cdiv(kept2[0]) = Cdiv(kept[1])
                  /\ \A k \in 1 .. m : Cdiv(kept2[k - d]) = Cdiv(kept[k])
  PROVE  Spread(s, kept2, m2)
<1>1. Depth \in Nat /\ NumSpec \in Nat
  BY ServingAssumption, ManagerAssumption
<1>2. 0 \in 0 .. m
  OBVIOUS
<1>3. CASE m = 0
  <2>1. m2 = 0 /\ Cdiv(kept[0]) \in Int /\ Cdiv(kept[0]) <= Cdiv(kept2[0])
    BY <1>2, <1>3
  <2>2. Len(s) - NumSpec <= Cdiv(kept[0]) + (Depth - 0)
    BY <1>3 DEF Spread
  <2>3. Len(s) - NumSpec <= Cdiv(kept2[0]) + (Depth - 0)
    BY <1>1, <2>1, <2>2
  <2>4. \A i \in 1 .. Len(s) - NumSpec : i <= Cdiv(kept2[0]) \/ i > Cdiv(kept2[0])
    BY <1>1
  <2> QED
    BY <2>1, <2>3, <2>4 DEF Spread, Needed
<1>4. CASE m # 0
  <2>1. /\ m2 = m - d /\ 1 \in 1 .. m /\ 1 \in 0 .. m /\ m \in 1 .. m /\ m2 <= m
    BY <1>4
  <2>2. Cdiv(kept2[m2]) = Cdiv(kept[m]) /\ Cdiv(kept[m]) \in Int
    BY <1>4, <2>1
  <2>3. Len(s) - NumSpec <= Cdiv(kept2[m2]) + (Depth - m2)
    <3>1. Len(s) - NumSpec <= Cdiv(kept[m]) + (Depth - m)
      BY DEF Spread
    <3> QED
      BY <1>1, <2>1, <2>2, <3>1
  <2>4. ASSUME NEW i \in Int, Needed(i, kept, m) PROVE Needed(i, kept2, m2)
    <3>1. CASE i <= Cdiv(kept[0])
      <4>1. i <= Cdiv(kept2[0])
        BY <1>2, <1>4, <2>1, <3>1
      <4> QED
        BY <4>1 DEF Needed
    <3>2. CASE \E k \in 1 .. m : i = Cdiv(kept[k])
      <4>1. PICK k \in 1 .. m : i = Cdiv(kept[k])
        BY <3>2
      <4>2. i = Cdiv(kept2[k - d])
        BY <1>4, <4>1
      <4>3. CASE k - d = 0
        <5>1. i = Cdiv(kept2[0])
          BY <4>2, <4>3
        <5>2. i <= Cdiv(kept2[0])
          BY <5>1
        <5> QED
          BY <5>2 DEF Needed
      <4>4. CASE k - d # 0
        <5>1. k - d \in 1 .. m2
          BY <2>1, <4>4
        <5> QED
          BY <4>2, <5>1 DEF Needed
      <4> QED
        BY <4>3, <4>4
    <3> QED
      BY <2>4, <3>1, <3>2 DEF Needed
  <2>5. \A i \in 1 .. Len(s) - NumSpec :
          s[i] # Null => Needed(i, kept2, m2) \/ i > Cdiv(kept2[m2])
    BY <2>2, <2>4 DEF Spread
  <2> QED
    BY <2>3, <2>5 DEF Spread
<1> QED
  BY <1>3, <1>4

(* The oldest step's share of a request is taken from its counters.        *)
LEMMA CoursePaid ==
  ASSUME NEW fs, NEW gs, NEW q, NEW q2, NEW pos, NEW r, NEW s, Len(s) \in Nat,
         Len(fs) \in Nat \ {0}, Len(gs) = Len(fs),
         NEW e \in Amount, e = Share(fs[1], r), Share(gs[1], r) = Nil,
         \A k \in 2 .. Len(fs) : Share(gs[k], r) = Share(fs[k], r),
         \A k \in 1 .. Len(fs) : Share(fs[k], r) \in Amount,
         q.computed \in Int, q.inflight \in Int, Lag(q2) = Lag(q),
         q2.computed = q.computed - e.rejected,
         q2.inflight = (q.inflight - e.kept) - e.rejected,
         Spreads(fs, q, pos, r, s)
  PROVE  Spreads(gs, q2, pos, r, s)
<1> PICK kept, counted, m : /\ Course(fs, q, pos, r, kept, counted)
                            /\ Certain(q, Len(fs), kept, counted, m)
                            /\ Spread(s, kept, m)
  BY DEF Spreads
<1>1. PICK len \in Nat \ {0} : len = Len(fs) /\ len = Len(gs)
  OBVIOUS
<1>2. PICK a \in Nat, b \in Nat : a = e.kept /\ b = e.rejected
  BY DEF Amount
<1>3. q.computed \in Int /\ q.inflight \in Int /\ q2.computed = q.computed - b
       /\ q2.inflight = (q.inflight - a) - b
  BY <1>2
<1>4. /\ kept \in [0 .. len -> Int] /\ counted \in [0 .. len -> Int]
      /\ kept[0] = q.computed - q.inflight /\ counted[0] = kept[0] /\ kept[0] >= 0
      /\ kept[len] = pos /\ counted[len] = q.computed
      /\ \A k \in 1 .. len :
           /\ kept[k] = kept[k - 1] + Share(fs[k], r).kept
           /\ counted[k] = counted[k - 1] + Share(fs[k], r).kept + Share(fs[k], r).rejected
  BY <1>1 DEF Course
<1>5. /\ 1 \in 1 .. len /\ 1 - 1 = 0 /\ 0 \in 0 .. len /\ 1 \in 0 .. len /\ len \in 0 .. len
      /\ \A k \in 0 .. len : k = 0 \/ k = 1 \/ k \in 2 .. len
      /\ \A k \in 1 .. len : k \in 0 .. len /\ k - 1 \in 0 .. len
  BY <1>1
<1>6. \A k \in 0 .. len : kept[k] \in Int /\ counted[k] \in Int
  BY <1>4
<1>7. kept[1] = kept[0] + a /\ counted[1] = kept[1] + b
      /\ kept[0] \in Int /\ kept[1] \in Int /\ counted[1] \in Int
  <2>1. kept[1] = kept[0] + a /\ counted[1] = counted[0] + a + b
    BY <1>2, <1>4, <1>5
  <2>2. kept[0] \in Int /\ kept[1] \in Int /\ counted[1] \in Int
    BY <1>5, <1>6
  <2>3. counted[0] = kept[0]
    BY <1>4
  <2> QED
    BY <2>1, <2>2, <2>3
<1> DEFINE kept2 == [k \in 0 .. len |-> IF k = 0 THEN kept[1] ELSE kept[k]]
           counted2 == [k \in 0 .. len |-> IF k = 0 THEN kept[1] ELSE counted[k] - b]
<1>8. /\ kept2 \in [0 .. len -> Int] /\ counted2 \in [0 .. len -> Int]
      /\ kept2[0] = kept[1] /\ counted2[0] = kept[1]
      /\ \A k \in 1 .. len : kept2[k] = kept[k] /\ counted2[k] = counted[k] - b
      /\ counted2[1] = kept[1]
  <2>1. \A k \in 0 .. len : kept[k] \in Int /\ counted[k] - b \in Int
    BY <1>6
  <2>2. \A k \in 1 .. len : k # 0
    OBVIOUS
  <2>3. counted[1] - b = kept[1]
    BY <1>7
  <2> QED
    BY <1>5, <1>7, <2>1, <2>2, <2>3
<1> HIDE DEF kept2, counted2
<1>9. /\ kept2[0] = q2.computed - q2.inflight /\ counted2[0] = kept2[0] /\ kept2[0] >= 0
      /\ kept2[len] = pos /\ counted2[len] = q2.computed
  <2>1. kept[1] = q2.computed - q2.inflight /\ kept[1] >= 0
    <3>1. kept[0] = q.computed - q.inflight /\ kept[0] >= 0
      BY <1>4
    <3>2. PICK c \in Int, i \in Int : c = q.computed /\ i = q.inflight
      BY <1>3
    <3>3. q2.computed - q2.inflight = (c - b) - ((i - a) - b) /\ kept[1] = (c - i) + a
          /\ c - i >= 0
      BY <1>7, <1>3, <3>1, <3>2
    <3>4. (c - b) - ((i - a) - b) = (c - i) + a /\ (c - i >= 0 => (c - i) + a >= 0)
      OBVIOUS
    <3> QED
      BY <3>3, <3>4
  <2>2. len \in 1 .. len
    BY <1>1
  <2>3. counted2[len] = q.computed - b
    BY <1>4, <1>8, <2>2
  <2> QED
    BY <1>4, <1>8, <1>3, <2>1, <2>2, <2>3
<1>10. ASSUME NEW k \in 1 .. len
      PROVE  /\ kept2[k] = kept2[k - 1] + Share(gs[k], r).kept
             /\ counted2[k] = counted2[k - 1] + Share(gs[k], r).kept + Share(gs[k], r).rejected
  <2>1. CASE k = 1
    <3>1. Share(gs[k], r) = Nil /\ kept2[k] = kept[1] /\ kept2[k - 1] = kept[1]
          /\ counted2[k] = kept[1] /\ counted2[k - 1] = kept[1]
      BY <1>5, <1>8, <2>1
    <3> QED
      BY <1>7, <3>1, NilAmount
  <2>2. CASE k # 1
    <3>1. k \in 2 .. len /\ k - 1 \in 1 .. len /\ k - 1 \in 0 .. len /\ k \in 0 .. len
      BY <1>1, <2>2
    <3>2. Share(gs[k], r) = Share(fs[k], r)
      BY <1>1, <3>1
    <3>3. /\ kept2[k] = kept[k] /\ kept2[k - 1] = kept[k - 1]
          /\ counted2[k] = counted[k] - b /\ counted2[k - 1] = counted[k - 1] - b
      BY <1>8, <3>1
    <3>4. /\ counted[k] \in Int /\ counted[k - 1] \in Int
      BY <1>4, <3>1
    <3>5. Share(fs[k], r).kept \in Int /\ Share(fs[k], r).rejected \in Int
      BY <1>1 DEF Amount
    <3>6. PICK x \in Int, y \in Int : x = Share(fs[k], r).kept /\ y = Share(fs[k], r).rejected
      BY <3>5
    <3>7. counted[k] = counted[k - 1] + x + y /\ kept[k] = kept[k - 1] + x
      BY <1>4, <3>6
    <3>8. counted[k] - b = (counted[k - 1] - b) + x + y
      BY <3>4, <3>7
    <3> QED
      BY <3>2, <3>3, <3>6, <3>7, <3>8
  <2> QED
    BY <2>1, <2>2
<1>11. Course(gs, q2, pos, r, kept2, counted2)
  BY <1>1, <1>8, <1>9, <1>10 DEF Course
<1>12. /\ m \in 0 .. len /\ \A k \in 0 .. m : counted[k] = kept[k]
       /\ \A k \in m .. len :
            counted[k] <= q.computed /\ q.computed - counted[k] <= (len - k) * BlockSize
       /\ Lag(q) > 1 => m = len
  BY <1>1 DEF Certain
<1>13. m # 0 => b = 0
  <2>1. m # 0 => counted[1] = kept[1]
    BY <1>12
  <2> QED
    BY <1>7, <2>1
<1>14. Certain(q2, len, kept2, counted2, m)
  <2>1. ASSUME NEW k \in 0 .. m PROVE counted2[k] = kept2[k]
    <3>1. CASE k = 0
      BY <1>8, <3>1
    <3>2. CASE k # 0
      <4>1. k \in 1 .. len /\ m # 0 /\ k \in 0 .. len
        BY <1>12, <3>2
      <4>2. counted2[k] = counted[k] - 0 /\ kept2[k] = kept[k] /\ counted[k] = kept[k]
            /\ counted[k] \in Int
        BY <1>8, <1>6, <1>12, <1>13, <4>1
      <4> QED
        BY <4>2
    <3> QED
      BY <3>1, <3>2
  <2>2. ASSUME NEW k \in m .. len
        PROVE  counted2[k] <= q2.computed /\ q2.computed - counted2[k] <= (len - k) * BlockSize
    <3>1. CASE k = 0
      <4>1. m = 0 /\ 1 \in m .. len
        BY <1>5, <1>12, <3>1
      <4>2. counted[1] <= q.computed /\ q.computed - counted[1] <= (len - 1) * BlockSize
        BY <1>12, <4>1
      <4>3. (len - 1) * BlockSize <= (len - 0) * BlockSize /\ (len - 1) * BlockSize \in Int
            /\ (len - 0) * BlockSize \in Int
        <5>1. BlockSize \in Nat
          BY ManagerAssumption
        <5>2. (len - 0) * BlockSize = (len - 1) * BlockSize + BlockSize
              /\ (len - 1) * BlockSize \in Int
          BY <5>1
        <5> QED
          BY <5>1, <5>2
      <4>4. counted2[k] = kept[1] /\ kept[1] = counted[1] - b
        BY <1>7, <1>8, <3>1
      <4>5. PICK bound \in Int : bound = (len - 0) * BlockSize
        BY <4>3
      <4>6. PICK less \in Int : less = (len - 1) * BlockSize
        BY <4>3
      <4>7. less <= bound /\ q.computed - counted[1] <= less /\ counted[1] <= q.computed
            /\ counted[1] \in Int
        BY <1>7, <4>2, <4>3, <4>5, <4>6
      <4>8. PICK x \in Int, c \in Int : x = counted[1] /\ c = q.computed
        BY <1>3, <4>7
      <4>9. x - b <= c - b /\ (c - b) - (x - b) <= bound
        <5>1. less <= bound /\ c - x <= less /\ x <= c
          BY <4>7, <4>8
        <5> QED
          BY <5>1
      <4>10. q2.computed = c - b /\ counted2[k] = x - b
        BY <1>3, <4>4, <4>8
      <4> QED
        BY <3>1, <4>5, <4>9, <4>10
    <3>2. CASE k # 0
      <4>1. k \in 1 .. len /\ k \in 0 .. len
        BY <1>12, <3>2
      <4>2. counted2[k] = counted[k] - b /\ counted[k] \in Int
        BY <1>8, <1>6, <4>1
      <4>3. PICK bound \in Int : bound = (len - k) * BlockSize
        BY ManagerAssumption
      <4>4. counted[k] <= q.computed /\ q.computed - counted[k] <= bound
        BY <1>12, <4>3
      <4>5. PICK x \in Int, c \in Int : x = counted[k] /\ c = q.computed
        BY <1>3, <4>2
      <4>6. x - b <= c - b /\ (c - b) - (x - b) <= bound
        <5>1. c - x <= bound /\ x <= c
          BY <4>4, <4>5
        <5> QED
          BY <5>1
      <4>7. q2.computed = c - b /\ counted2[k] = x - b
        BY <1>3, <4>2, <4>5
      <4> QED
        BY <4>3, <4>6, <4>7
    <3> QED
      BY <3>1, <3>2
  <2> QED
    BY <1>12, <2>1, <2>2 DEF Certain
<1>15. Spread(s, kept2, m)
  <2>1. \A k \in 0 .. m : k \in 0 .. len
    BY <1>12
  <2>2. \A k \in 0 .. m : kept[k] \in Int
    BY <1>6, <2>1
  <2>3. \A k \in 0 .. m : Cdiv(kept[k]) \in Int
    BY <2>2, CdivInt
  <2>4. Cdiv(kept[0]) <= Cdiv(kept[1]) /\ Cdiv(kept[1]) \in Int
    <3>1. kept[0] <= kept[1]
      BY <1>7
    <3> QED
      BY <1>7, <3>1, CdivMonotone
  <2>5. \A k \in 1 .. m : kept2[k - 0] = kept[k]
    BY <1>8, <1>12
  <2>6. m \in Nat /\ m = IF m = 0 THEN 0 ELSE m - 0
    BY <1>12
  <2> QED
    BY <1>8, <2>3, <2>4, <2>5, <2>6, SpreadFurther
<1> QED
  BY <1>1, <1>11, <1>14, <1>15 DEF Spreads

(* A step without a share is taken off.                                    *)
LEMMA CoursePopped ==
  ASSUME NEW fs, NEW gs, NEW q, NEW pos, NEW r, NEW s, Len(s) \in Nat,
         Len(fs) \in Nat \ {0}, Len(gs) = Len(fs) - 1, Share(fs[1], r) = Nil,
         \A k \in 1 .. Len(gs) : gs[k] = fs[k + 1],
         Spreads(fs, q, pos, r, s)
  PROVE  Spreads(gs, q, pos, r, s)
<1> PICK kept, counted, m : /\ Course(fs, q, pos, r, kept, counted)
                            /\ Certain(q, Len(fs), kept, counted, m)
                            /\ Spread(s, kept, m)
  BY DEF Spreads
<1>1. PICK len \in Nat : len + 1 = Len(fs) /\ len = Len(gs)
  OBVIOUS
<1>2. /\ kept \in [0 .. len + 1 -> Int] /\ counted \in [0 .. len + 1 -> Int]
      /\ kept[0] = q.computed - q.inflight /\ counted[0] = kept[0] /\ kept[0] >= 0
      /\ kept[len + 1] = pos /\ counted[len + 1] = q.computed
      /\ \A k \in 1 .. len + 1 :
           /\ kept[k] = kept[k - 1] + Share(fs[k], r).kept
           /\ counted[k] = counted[k - 1] + Share(fs[k], r).kept + Share(fs[k], r).rejected
  BY <1>1 DEF Course
<1>3. /\ 1 \in 1 .. len + 1 /\ 1 - 1 = 0 /\ 0 \in 0 .. len + 1 /\ 1 \in 0 .. len + 1
      /\ \A k \in 0 .. len : k + 1 \in 0 .. len + 1 /\ k + 1 \in 1 .. len + 1
      /\ \A k \in 1 .. len : k \in 0 .. len /\ k - 1 \in 0 .. len /\ (k - 1) + 1 = k
                             /\ (k + 1) - 1 = k /\ k + 1 \in 1 .. len + 1
      /\ len \in 0 .. len
  BY <1>1
<1>4. \A k \in 0 .. len + 1 : kept[k] \in Int /\ counted[k] \in Int
  BY <1>2
<1>5. kept[1] = kept[0] /\ counted[1] = counted[0]
  <2>1. kept[1] = kept[0] + 0 /\ counted[1] = counted[0] + 0 + 0
    BY <1>2, <1>3, NilAmount
  <2> QED
    BY <1>3, <1>4, <2>1
<1> DEFINE kept2 == [k \in 0 .. len |-> kept[k + 1]]
           counted2 == [k \in 0 .. len |-> counted[k + 1]]
<1>6. /\ kept2 \in [0 .. len -> Int] /\ counted2 \in [0 .. len -> Int]
      /\ \A k \in 0 .. len : kept2[k] = kept[k + 1] /\ counted2[k] = counted[k + 1]
      /\ kept2[0] = kept[0] /\ counted2[0] = counted[0]
      /\ kept2[len] = pos /\ counted2[len] = q.computed
  <2>1. \A k \in 0 .. len : kept[k + 1] \in Int /\ counted[k + 1] \in Int
    BY <1>3, <1>4
  <2>2. 0 \in 0 .. len /\ 0 + 1 = 1
    OBVIOUS
  <2>3. kept2[0] = kept[1] /\ counted2[0] = counted[1]
    BY <2>2
  <2> QED
    BY <1>2, <1>3, <1>5, <2>1, <2>3
<1> HIDE DEF kept2, counted2
<1>7. ASSUME NEW k \in 1 .. len
      PROVE  /\ kept2[k] = kept2[k - 1] + Share(gs[k], r).kept
             /\ counted2[k] = counted2[k - 1] + Share(gs[k], r).kept + Share(gs[k], r).rejected
  <2>1. /\ kept2[k] = kept[k + 1] /\ kept2[k - 1] = kept[k]
        /\ counted2[k] = counted[k + 1] /\ counted2[k - 1] = counted[k]
    <3>1. k - 1 \in 0 .. len /\ k \in 0 .. len /\ (k - 1) + 1 = k
      BY <1>3
    <3> QED
      BY <1>6, <3>1
  <2>2. gs[k] = fs[k + 1] /\ k + 1 \in 1 .. len + 1 /\ (k + 1) - 1 = k
    BY <1>1, <1>3
  <2> QED
    BY <1>2, <2>1, <2>2
<1>8. Course(gs, q, pos, r, kept2, counted2)
  BY <1>1, <1>2, <1>6, <1>7 DEF Course
<1>9. /\ m \in 0 .. len + 1 /\ \A k \in 0 .. m : counted[k] = kept[k]
      /\ \A k \in m .. len + 1 :
            counted[k] <= q.computed /\ q.computed - counted[k] <= ((len + 1) - k) * BlockSize
      /\ Lag(q) > 1 => m = len + 1
  BY <1>1 DEF Certain
<1>10. PICK m2 \in Nat : m2 = IF m = 0 THEN 0 ELSE m - 1
  BY <1>9
<1>11. Certain(q, len, kept2, counted2, m2)
  <2>1. m2 \in 0 .. len /\ (Lag(q) > 1 => m2 = len)
    BY <1>1, <1>9, <1>10
  <2>2. ASSUME NEW k \in 0 .. m2 PROVE counted2[k] = kept2[k]
    <3>1. CASE k = 0
      BY <1>2, <1>6, <3>1
    <3>2. CASE k # 0
      <4>1. k + 1 \in 0 .. m /\ k \in 0 .. len
        BY <1>1, <1>9, <1>10, <2>1, <3>2
      <4> QED
        BY <1>6, <1>9, <4>1
    <3> QED
      BY <3>1, <3>2
  <2>3. ASSUME NEW k \in m2 .. len
        PROVE  counted2[k] <= q.computed /\ q.computed - counted2[k] <= (len - k) * BlockSize
    <3>1. k + 1 \in m .. len + 1 /\ k \in 0 .. len /\ (len + 1) - (k + 1) = len - k
      BY <1>1, <1>9, <1>10, <2>1
    <3> QED
      BY <1>6, <1>9, <3>1
  <2> QED
    BY <2>1, <2>2, <2>3 DEF Certain
<1>12. Spread(s, kept2, m2)
  <2>1. \A k \in 0 .. m : k \in 0 .. len + 1
    BY <1>9
  <2>2. \A k \in 0 .. m : kept[k] \in Int
    BY <1>4, <2>1
  <2>3. \A k \in 0 .. m : Cdiv(kept[k]) \in Int
    BY <2>2, CdivInt
  <2>4. Cdiv(kept[0]) \in Int /\ Cdiv(kept2[0]) = Cdiv(kept[0]) /\ Cdiv(kept[1]) = Cdiv(kept[0])
    BY <1>3, <1>4, <1>5, <1>6, CdivInt
  <2>5. \A k \in 1 .. m : kept2[k - 1] = kept[k]
    <3>1. \A k \in 1 .. m : k - 1 \in 0 .. len /\ (k - 1) + 1 = k
      BY <1>9
    <3> QED
      BY <1>6, <3>1
  <2>6. m \in Nat
    BY <1>9
  <2>7. Cdiv(kept[0]) <= Cdiv(kept2[0]) /\ Cdiv(kept[0]) <= Cdiv(kept[1])
    BY <2>4
  <2> QED
    BY <1>10, <2>3, <2>4, <2>5, <2>6, <2>7, SpreadFurther
<1> QED
  BY <1>1, <1>8, <1>11, <1>12 DEF Spreads

(* An output: whoever it is of, the rest of the steps in flight is a       *)
(* course.                                                                 *)
Paid(q, e, d) ==
  /\ d.computed = q.computed - e.rejected /\ d.inflight = (q.inflight - e.kept) - e.rejected
  /\ Lag(d) = Lag(q)

LEMMA OutputSpreads ==
  ASSUME Shape, \A i \in 1 .. Len(flights) : Proper(flights[i]), NEW x \in Requests,
         NextOutput(x), NEW r \in Requests, NEW q, NEW d, NEW pos, NEW s, Len(s) \in Nat,
         q.computed \in Int, q.inflight \in Int,
         Paid(q, IF r = x THEN Share(Head(flights), x) ELSE Nil, d),
         Spreads(flights, q, pos, r, s)
  PROVE  Spreads(flights', d, pos, r, s)
<1> DEFINE f == Head(flights)
           gs == Tail(flights)
           rest == RestOfStep(x)
           hs == <<rest>> \o gs
           e == IF r = x THEN Share(f, x) ELSE Nil
<1>1. flights \in Seq(Partial(Output)) /\ flights # <<>> /\ x \in DOMAIN f
  BY DEF Shape, NextOutput
<1>2. /\ f \in Partial(Output) /\ gs \in Seq(Partial(Output)) /\ f = flights[1]
      /\ Len(flights) \in Nat \ {0} /\ Len(gs) = Len(flights) - 1
      /\ \A i \in 1 .. Len(flights) - 1 : gs[i] = flights[i + 1]
  BY <1>1, HeadTailProperties, LenProperties, EmptySeq
<1>3. 1 \in 1 .. Len(flights)
  BY <1>2
<1>4. Proper(f) /\ \A k \in 1 .. Len(flights) : Share(flights[k], r) \in Amount
  BY <1>2, <1>3, ShareAmount
<1>5. DOMAIN rest = DOMAIN f \ {x} /\ \A y \in DOMAIN f \ {x} : rest[y] = f[y]
  BY DEF RestOfStep
<1>6. \/ DOMAIN rest = {} /\ flights' = gs
      \/ DOMAIN rest # {} /\ flights' = hs
  BY DEF NextOutput
<1> HIDE DEF f, rest
<1>7. /\ Len(hs) = Len(flights) /\ hs[1] = rest
      /\ \A k \in 2 .. Len(flights) : hs[k] = flights[k]
  <2>1. Len(hs) = Len(gs) + 1 /\ hs[1] = rest /\ Len(gs) \in Nat
        /\ \A k \in 2 .. Len(gs) + 1 : hs[k] = gs[k - 1]
    BY <1>2
  <2>2. \A k \in 2 .. Len(flights) : k - 1 \in 1 .. Len(flights) - 1 /\ (k - 1) + 1 = k
    BY <1>2
  <2> HIDE DEF gs, hs
  <2>3. \A k \in 2 .. Len(flights) : hs[k] = gs[k - 1] /\ gs[k - 1] = flights[(k - 1) + 1]
    BY <1>2, <2>1, <2>2
  <2> QED
    BY <1>2, <2>1, <2>2, <2>3
<1> HIDE DEF gs, hs
<1>8. Share(rest, r) = IF r = x THEN Nil ELSE Share(f, r)
  BY <1>5 DEF Share
<1>9. e \in Amount
  BY <1>4, NilAmount, ShareAmount
<1>10. Spreads(hs, d, pos, r, s)
  <2>1. CASE r = x
    <3>1. e = Share(flights[1], r) /\ Share(hs[1], r) = Nil /\ Paid(q, e, d)
      BY <1>2, <1>7, <1>8, <2>1 DEF f
    <3>2. \A k \in 2 .. Len(flights) : Share(hs[k], r) = Share(flights[k], r)
      BY <1>7
    <3> HIDE DEF e
    <3> QED
      BY <1>2, <1>4, <1>7, <1>9, <3>1, <3>2, CoursePaid DEF Paid
  <2>2. CASE r # x
    <3>1. \A k \in 1 .. Len(flights) : Share(hs[k], r) = Share(flights[k], r)
      <4>1. \A k \in 1 .. Len(flights) : k = 1 \/ k \in 2 .. Len(flights)
        BY <1>2
      <4>2. Share(hs[1], r) = Share(flights[1], r)
        BY <1>2, <1>7, <1>8, <2>2
      <4> QED
        BY <1>7, <4>1, <4>2
    <3>2. Spreads(hs, q, pos, r, s)
      BY <1>7, <3>1, CourseSame
    <3>3. Paid(q, Nil, d)
      BY <2>2
    <3>4. d.computed = q.computed /\ d.inflight = q.inflight /\ Lag(d) = Lag(q)
      BY <3>3, NilAmount DEF Paid
    <3>5. PICK kept, counted, m : /\ Course(hs, q, pos, r, kept, counted)
                                  /\ Certain(q, Len(hs), kept, counted, m)
                                  /\ Spread(s, kept, m)
      BY <3>2 DEF Spreads
    <3>6. Course(hs, d, pos, r, kept, counted)
      BY <3>4, <3>5 DEF Course
    <3>7. Certain(d, Len(hs), kept, counted, m)
      BY <3>4, <3>5 DEF Certain
    <3> QED
      BY <3>5, <3>6, <3>7 DEF Spreads
  <2> QED
    BY <2>1, <2>2
<1>11. CASE DOMAIN rest = {} /\ flights' = gs
  <2>1. Share(hs[1], r) = Nil
    BY <1>7, <1>11 DEF Share
  <2>2. \A k \in 1 .. Len(gs) : gs[k] = hs[k + 1]
    <3>1. \A k \in 1 .. Len(gs) : k + 1 \in 2 .. Len(flights) /\ k \in 1 .. Len(flights) - 1
      BY <1>2
    <3> QED
      BY <1>2, <1>7, <3>1
  <2>3. Spreads(gs, d, pos, r, s)
    BY <1>2, <1>7, <1>10, <2>1, <2>2, CoursePopped
  <2> QED
    BY <1>11, <2>3
<1> QED
  BY <1>6, <1>10, <1>11

-----------------------------------------------------------------------------
(* While a prompt is being computed a pass makes the list as long as its   *)
(* step needs; otherwise the list covers every step there can be.          *)
Long(r) == r \in DOMAIN step /\ Lag(req[r]) > 1
SpreadsTo(fs, q, pos, r, s, end) ==
  \E kept, counted, m : /\ Course(fs, q, pos, r, kept, counted)
                        /\ Certain(q, Len(fs), kept, counted, m)
                        /\ SpreadTo(s, end, kept, m)
Spaced(r) ==
  IF Long(r) THEN SpreadsTo(flights, req[r], worker[r].pos, r, List(r), Top(r))
  ELSE Spreads(flights, req[r], worker[r].pos, r, List(r))

Within(r) ==
  /\ Bounded(List(r))
  /\ req[r].status = "running" =>
       Spaced(r) /\ Cleared(List(r), mgr[r].sweep, req[r].computed - req[r].inflight)

(* A pass begins with room for its step.                                   *)
Room ==
  /\ Len(flights) <= Depth
  /\ phase \in {"running", "waiting", "dispatch"} => Len(flights) < Depth

Limits == Room /\ \A r \in Requests : Within(r)
LimitInv == BlockInv /\ Limits

LEMMA EmptyBounded == Bounded(<<>>)
<1>1. Held(<<>>) = {}
  BY EmptyList
<1>2. Cardinality({}) = 0
  BY FS_EmptySet
<1>3. Depth \in Nat /\ NumSpec \in Nat
  BY ServingAssumption, ManagerAssumption
<1> QED
  BY <1>1, <1>2, <1>3 DEF Bounded

LEMMA InitLimits == Init => Limits
<1> SUFFICES ASSUME Init PROVE Limits
  OBVIOUS
<1>1. Room
  BY ServingAssumption, EmptySeq DEF Init, Room
<1>2. ASSUME NEW r \in Requests PROVE Within(r)
  <2>1. List(r) = <<>>
    BY DEF Init, List, NoBlocks
  <2>2. req[r].status = "new"
    BY DEF Init, NewReq
  <2> QED
    BY <2>1, <2>2, EmptyBounded DEF Within
<1> QED
  BY <1>1, <1>2 DEF Limits

(* The steps in flight never get too many.                                 *)
LEMMA OutputRoom ==
  ASSUME Shape, Room, NEW r \in Requests, NextOutput(r)
  PROVE  Room'
<1>1. flights \in Seq(Partial(Output)) /\ flights # <<>>
  BY DEF Shape, NextOutput
<1>2. /\ Len(Tail(flights)) = Len(flights) - 1 /\ Tail(flights) \in Seq(Partial(Output))
      /\ Len(flights) \in Nat
  BY <1>1, HeadTailProperties, LenProperties, EmptySeq
<1>3. PICK rest : rest = RestOfStep(r)
  OBVIOUS
<1>4. Len(<<rest>> \o Tail(flights)) = Len(flights)
  BY <1>2
<1>5. Len(flights') <= Len(flights) /\ phase' \in {"idle", "update"} /\ Len(flights') \in Nat
  BY <1>2, <1>3, <1>4 DEF NextOutput
<1>6. Depth \in Nat
  BY ServingAssumption
<1> QED
  BY <1>2, <1>5, <1>6 DEF Room

LEMMA DispatchRoom ==
  ASSUME Shape, Room, Dispatch
  PROVE  Room'
<1>1. flights \in Seq(Partial(Output)) /\ Len(flights) \in Nat
  BY LenProperties DEF Shape
<1>2. phase = "dispatch" /\ phase' = "idle" /\ \E f : flights' = Append(flights, f)
  BY DEF Dispatch
<1>3. Len(flights') = Len(flights) + 1
  BY <1>1, <1>2
<1>4. Depth \in Nat
  BY ServingAssumption
<1> QED
  BY <1>1, <1>2, <1>3, <1>4 DEF Room

LEMMA StepRoom ==
  ASSUME Shape, Room, [Next]_vars
  PROVE  Room'
<1>1. CASE UNCHANGED vars
  BY <1>1 DEF vars, Room
<1>2. CASE AllDone
  BY <1>2 DEF AllDone, vars, Room
<1>3. CASE StartPass
  BY <1>3 DEF StartPass, Room
<1>4. CASE SkipRunning \/ Grow \/ PreemptLast
  BY <1>4 DEF SkipRunning, Grow, PreemptLast, Room
<1>5. CASE EndRunning
  BY <1>5 DEF EndRunning, Room
<1>6. CASE \E r \in Requests : Admit(r) \/ Arrive(r) \/ Abort(r)
  BY <1>6 DEF Admit, Arrive, Abort, Room
<1>7. CASE EndAdmission
  BY <1>7 DEF EndAdmission, Room
<1>8. CASE Dispatch
  BY <1>8, DispatchRoom
<1>9. CASE DispatchNothing
  BY <1>9 DEF DispatchNothing, Room
<1>10. CASE \E r \in Requests : Update(r)
  <2>1. PICK r \in Requests : NextOutput(r)
    BY <1>10 DEF Update, UpdateGone, UpdateChunk, UpdateTokens
  <2> QED
    BY <2>1, OutputRoom
<1> QED
  BY <1>1, <1>2, <1>3, <1>4, <1>5, <1>6, <1>7, <1>8, <1>9, <1>10 DEF Next, Pass

(* A request that is left as it is.                                        *)
LEMMA StillWithin ==
  ASSUME NEW x \in Requests, Within(x), mgr'[x].blocks = mgr[x].blocks,
         mgr'[x].sweep = mgr[x].sweep, flights' = flights,
         req'[x].status = "running" =>
           /\ req'[x] = req[x] /\ worker'[x].pos = worker[x].pos
           /\ x \in DOMAIN step' <=> x \in DOMAIN step
           /\ x \in DOMAIN step => step'[x] = step[x]
  PROVE  Within(x)'
<1>1. List(x)' = List(x)
  BY DEF List
<1>2. ASSUME req'[x].status = "running" PROVE Spaced(x)' /\ req[x].status = "running"
  <2>1. Spaced(x) /\ req[x].status = "running"
    BY <1>2 DEF Within
  <2>2. /\ Long(x)' <=> Long(x)
        /\ Top(x)' = Top(x)
    BY <1>2 DEF Long, Top, Lag
  <2>3. /\ Spreads(flights', req'[x], worker'[x].pos, x, List(x)')
             <=> Spreads(flights, req[x], worker[x].pos, x, List(x))
        /\ SpreadsTo(flights', req'[x], worker'[x].pos, x, List(x)', Top(x)')
             <=> SpreadsTo(flights, req[x], worker[x].pos, x, List(x), Top(x))
    BY <1>1, <1>2, <2>2
  <2> QED
    BY <2>1, <2>2, <2>3 DEF Spaced
<1> QED
  BY <1>1, <1>2 DEF Within

LEMMA QuietWithin ==
  ASSUME CounterInv, Limits,
         \/ StartPass \/ SkipRunning \/ EndRunning \/ EndAdmission \/ DispatchNothing
         \/ AllDone \/ UNCHANGED vars
         \/ \E r \in Requests : Arrive(r)
  PROVE  \A x \in Requests : Within(x)'
<1>1. mgr' = mgr /\ worker' = worker /\ flights' = flights
  BY DEF StartPass, SkipRunning, EndRunning, EndAdmission, DispatchNothing, AllDone, Arrive,
         vars, passVars
<1>2. step' = step \/ (DOMAIN step = {} /\ DOMAIN step' = {})
  BY DEF StartPass, SkipRunning, EndRunning, EndAdmission, DispatchNothing, AllDone, Arrive,
         vars, passVars, ResetPass
<1>3. ASSUME NEW x \in Requests, req'[x].status = "running" PROVE req'[x] = req[x]
  <2>1. CASE req' = req
    BY <2>1
  <2>2. CASE \E r \in Requests : Arrive(r)
    <3>1. PICK r \in Requests : req' = [req EXCEPT ![r].status = "waiting"]
      BY <2>2 DEF Arrive
    <3>2. req \in [Requests -> Req]
      BY DEF CounterInv, ServingInv, Shape
    <3>3. x # r
      BY <1>3, <3>1, <3>2 DEF Req
    <3> QED
      BY <3>1, <3>2, <3>3
  <2> QED
    BY <2>1, <2>2 DEF StartPass, SkipRunning, EndRunning, EndAdmission, DispatchNothing,
                      AllDone, vars, passVars
<1> SUFFICES ASSUME NEW x \in Requests PROVE Within(x)'
  OBVIOUS
<1> QED
  BY <1>1, <1>2, <1>3, StillWithin DEF Limits

LEMMA AbortWithin ==
  ASSUME CounterInv, Limits, NEW r \in Requests, Abort(r)
  PROVE  \A x \in Requests : Within(x)'
<1>1. req \in [Requests -> Req] /\ mgr \in [Requests -> Mgr] /\ Rows
  BY DEF CounterInv, ServingInv, Shape, Counters
<1>2. /\ req' = [req EXCEPT ![r] = [NewReq EXCEPT !.status = "finished"]]
      /\ mgr' = [mgr EXCEPT ![r] = NoBlocks] /\ worker' = [worker EXCEPT ![r] = NoRow]
      /\ flights' = flights /\ step' = step
  BY DEF Abort, passVars
<1> SUFFICES ASSUME NEW x \in Requests PROVE Within(x)'
  OBVIOUS
<1>3. CASE x = r
  <2>1. mgr'[x] = NoBlocks /\ req'[x].status = "finished"
    BY <1>1, <1>2, <1>3 DEF NewReq
  <2>2. List(x)' = <<>>
    BY <2>1 DEF List, NoBlocks
  <2> QED
    BY <2>1, <2>2, EmptyBounded DEF Within
<1>4. CASE x # r
  <2>1. mgr'[x] = mgr[x] /\ req'[x] = req[x] /\ worker'[x] = worker[x]
    BY <1>1, <1>2, <1>4 DEF Rows
  <2> QED
    BY <1>2, <2>1, StillWithin DEF Limits
<1> QED
  BY <1>3, <1>4

-----------------------------------------------------------------------------
(* What an output's tokens and rejected drafts do to the counters of the   *)
(* running request they are of.                                            *)
LEMMA OutputPays ==
  ASSUME CounterInv, NEW r \in Requests, NextOutput(r), req[r].status = "running",
         NEW d, NEW k \in Int, NEW e, e = DrainedReq(req[r], Head(flights)[r]),
         d.tokens = e.tokens + k, d.placeholders = e.placeholders - k,
         d.computed = e.computed, d.inflight = e.inflight
  PROVE  /\ Paid(req[r], Share(Head(flights), r), d)
         /\ d.computed - d.inflight \in Int
         /\ req[r].computed - req[r].inflight <= d.computed - d.inflight
<1> DEFINE out == Head(flights)[r]
           s == Share(Head(flights), r)
           q == req[r]
<1>1. /\ Shape /\ req[r] \in Req /\ r \in DOMAIN Head(flights)
      /\ \A i \in 1 .. Len(flights) : Proper(flights[i])
      /\ Balanced(flights, req[r], worker[r].pos, r) /\ worker[r].pos \in Int
  BY DEF CounterInv, ServingInv, Shape, Counters, Rows, NextOutput
<1>2. PICK t \in Amount : Owed(flights, r, t) /\ Ahead(q, worker[r].pos, t)
  BY <1>1 DEF Balanced
<1>3. Proper(Head(flights)) /\ AtMost(s, t) /\ s \in Amount
  BY <1>1, <1>2, OutputPaid
<1>4. /\ out.n \in Nat /\ out.rejected \in Nat /\ s.kept = out.n - out.rejected
      /\ s.rejected = out.rejected /\ s.kept \in Nat
  BY <1>1, <1>3 DEF Proper, Share, Amount
<1>5. /\ q.stale = 0 /\ worker[r].pos >= 0 /\ t.rejected = q.computed - worker[r].pos
      /\ q.placeholders = t.sampled + t.rejected /\ s.rejected <= t.rejected
      /\ t.sampled \in Nat /\ t.rejected \in Nat
  BY <1>2, <1>3 DEF Ahead, AtMost, Amount
<1>6. /\ q.tokens \in Int /\ q.computed \in Int /\ q.placeholders \in Int /\ q.inflight \in Int
  BY <1>1 DEF Req
<1>7. /\ e.tokens = q.tokens /\ e.inflight = q.inflight - out.n
      /\ e.computed = IF q.stale = 0 /\ q.computed > 0 THEN q.computed - out.rejected
                      ELSE q.computed
      /\ e.placeholders = IF q.stale = 0 /\ q.placeholders > 0 THEN q.placeholders - out.rejected
                          ELSE q.placeholders
  BY <1>1, DrainedFields
<1> HIDE DEF out, s
<1>8. PICK c \in Int, i \in Int, p \in Int, a \in Nat, b \in Nat, w \in Int, x \in Nat :
        /\ c = q.computed /\ i = q.inflight /\ p = q.placeholders /\ a = s.kept
        /\ b = out.rejected /\ w = worker[r].pos /\ x = t.sampled
  BY <1>1, <1>4, <1>5, <1>6
<1>9. out.n = a + b /\ s.rejected = b
  BY <1>4, <1>8
<1>10. w >= 0 /\ b <= c - w /\ p = x + (c - w)
  BY <1>4, <1>5, <1>8
<1>11. e.computed = c - b /\ e.placeholders = p - b
  <2>1. c <= 0 => b = 0
    BY <1>10
  <2>2. p <= 0 => b = 0
    BY <1>10
  <2> QED
    BY <1>5, <1>7, <1>8, <2>1, <2>2
<1>12. e.inflight = (i - a) - b
  BY <1>7, <1>8, <1>9
<1>13. /\ d.computed = c - b /\ d.inflight = (i - a) - b
       /\ d.tokens = q.tokens + k /\ d.placeholders = (p - b) - k
  BY <1>7, <1>11, <1>12
<1>14. Lag(d) = Lag(q)
  BY <1>6, <1>8, <1>13 DEF Lag
<1>15. Paid(q, s, d)
  BY <1>8, <1>9, <1>13, <1>14 DEF Paid
<1>16. d.computed - d.inflight = (c - i) + a
  BY <1>13
<1> QED
  BY <1>8, <1>15, <1>16 DEF s

(* A list is left as it is while the tokens processed grow.                *)
LEMMA StillCleared ==
  ASSUME NEW s, NEW swept, NEW p \in Int, NEW q \in Int, p <= q, Cleared(s, swept, p)
  PROVE  Cleared(s, swept, q)
<1>1. Cdiv(p) \in Int /\ Cdiv(q) \in Int /\ Cdiv(p) <= Cdiv(q)
  BY CdivMonotone
<1> QED
  BY <1>1 DEF Cleared

LEMMA OutputWithin ==
  ASSUME LimitInv, NEW x \in Requests, NextOutput(x), step' = step,
         \A y \in Requests : y # x =>
           mgr'[y] = mgr[y] /\ worker'[y] = worker[y] /\ req'[y] = req[y],
         \/ /\ req'[x].status # "running"
            /\ mgr'[x].blocks = <<>> \/ mgr'[x].blocks = mgr[x].blocks
         \/ /\ req[x].status = "running" /\ worker'[x] = worker[x]
            /\ mgr'[x].blocks = mgr[x].blocks /\ mgr'[x].sweep = mgr[x].sweep
            /\ Paid(req[x], Share(Head(flights), x), req'[x])
            /\ req'[x].computed - req'[x].inflight \in Int
            /\ req[x].computed - req[x].inflight <= req'[x].computed - req'[x].inflight
  PROVE  \A y \in Requests : Within(y)'
<1>1. /\ CounterInv /\ Shape /\ DOMAIN step = {} /\ req \in [Requests -> Req]
      /\ mgr \in [Requests -> Mgr]
      /\ \A i \in 1 .. Len(flights) : Proper(flights[i])
  BY DEF LimitInv, BlockInv, CounterInv, ServingInv, Shape, Counters, InPass, NextOutput
<1> SUFFICES ASSUME NEW y \in Requests PROVE Within(y)'
  OBVIOUS
<1>2. Within(y) /\ List(y) \in Seq(AllBlocks) /\ Len(List(y)) \in Nat
      /\ req[y].computed \in Int /\ req[y].inflight \in Int
  BY <1>1, MgrFields, ReqFields DEF LimitInv, Limits, List
<1>3. PICK d, w, g, s : d = req'[y] /\ w = worker'[y].pos /\ g = flights' /\ s = mgr'[y].blocks
  OBVIOUS
<1>4. /\ Spaced(y)' <=> Spreads(g, d, w, y, s)
      /\ Spaced(y) <=> Spreads(flights, req[y], worker[y].pos, y, List(y))
  <2>1. ~Long(y) /\ ~Long(y)'
    BY <1>1 DEF Long
  <2> QED
    BY <1>3, <2>1 DEF Spaced, List
<1>5. ASSUME NEW e, e = (IF y = x THEN Share(Head(flights), x) ELSE Nil),
             Paid(req[y], e, d), Spaced(y), w = worker[y].pos, s = List(y)
      PROVE  Spaced(y)'
  <2>1. Spreads(flights, req[y], worker[y].pos, y, s)
    BY <1>4, <1>5
  <2>2. Spreads(flights', d, worker[y].pos, y, s)
    BY <1>1, <1>2, <1>5, <2>1, OutputSpreads
  <2> QED
    BY <1>3, <1>4, <1>5, <2>2
<1>6. CASE y # x
  <2>1. d = req[y] /\ w = worker[y].pos /\ s = List(y) /\ mgr'[y] = mgr[y]
    BY <1>3, <1>6 DEF List
  <2>2. Paid(req[y], Nil, d)
    <3>1. req[y].computed - 0 = req[y].computed /\ (req[y].inflight - 0) - 0 = req[y].inflight
      BY <1>2
    <3> QED
      BY <2>1, <3>1, NilAmount DEF Paid
  <2>3. req[y].status = "running" => Spaced(y)'
    BY <1>2, <1>5, <1>6, <2>1, <2>2 DEF Within
  <2> QED
    BY <1>2, <1>3, <2>1, <2>3 DEF Within, List
<1>7. CASE y = x /\ req'[x].status # "running"
  <2>1. s = <<>> \/ s = List(y)
    BY <1>3, <1>7 DEF List
  <2>2. Bounded(s)
    BY <1>2, <2>1, EmptyBounded DEF Within
  <2> QED
    BY <1>3, <1>7, <2>2 DEF Within, List
<1>8. CASE y = x /\ req'[x].status = "running"
  <2>1. /\ req[y].status = "running" /\ w = worker[y].pos /\ s = List(y)
        /\ mgr'[y].sweep = mgr[y].sweep /\ Paid(req[y], Share(Head(flights), x), d)
        /\ d.computed - d.inflight \in Int
        /\ req[y].computed - req[y].inflight <= d.computed - d.inflight
    BY <1>3, <1>8 DEF List
  <2>2. Spaced(y) /\ Cleared(List(y), mgr[y].sweep, req[y].computed - req[y].inflight)
    BY <1>2, <2>1 DEF Within
  <2>3. Spaced(y)'
    BY <1>5, <1>8, <2>1, <2>2
  <2>4. req[y].computed - req[y].inflight \in Int
    BY <1>2
  <2>5. Cleared(s, mgr[y].sweep, d.computed - d.inflight)
    BY <2>1, <2>2, <2>4, StillCleared
  <2> QED
    BY <1>2, <1>3, <2>1, <2>3, <2>5 DEF Within, List
<1> QED
  BY <1>6, <1>7, <1>8

LEMMA UpdateGoneWithin ==
  ASSUME LimitInv, NEW r \in Requests, UpdateGone(r)
  PROVE  \A x \in Requests : Within(x)'
<1>1. /\ NextOutput(r) /\ req'[r].status # "running"
      /\ step' = step /\ mgr' = mgr /\ worker' = worker /\ req' = req
  BY DEF UpdateGone, passVars
<1> QED
  BY <1>1, OutputWithin

LEMMA UpdateChunkWithin ==
  ASSUME LimitInv, NEW r \in Requests, UpdateChunk(r)
  PROVE  \A x \in Requests : Within(x)'
<1>1. CounterInv /\ Shape /\ req \in [Requests -> Req]
  BY DEF LimitInv, BlockInv, CounterInv, ServingInv, Shape
<1>2. /\ NextOutput(r) /\ step' = step /\ mgr' = mgr /\ worker' = worker
      /\ req' = [req EXCEPT ![r] = DrainedReq(@, Head(flights)[r])]
  BY DEF UpdateChunk, passVars
<1>3. PICK d : d = DrainedReq(req[r], Head(flights)[r])
  OBVIOUS
<1>4. req'[r] = d /\ \A x \in Requests : x # r => req'[x] = req[x]
  BY <1>1, <1>2, <1>3
<1>5. d \in Req /\ d.status = req[r].status /\ d.tokens \in Int /\ d.placeholders \in Int
  <2>1. d \in Req /\ d.status = req[r].status
    BY <1>1, <1>2, <1>3, OutputType, DrainedType
  <2> QED
    BY <2>1 DEF Req
<1>6. ASSUME req[r].status = "running"
      PROVE  /\ Paid(req[r], Share(Head(flights), r), d)
             /\ d.computed - d.inflight \in Int
             /\ req[r].computed - req[r].inflight <= d.computed - d.inflight
  <2>1. d.tokens = d.tokens + 0 /\ d.placeholders = d.placeholders - 0 /\ 0 \in Int
    BY <1>5
  <2> QED
    BY <1>1, <1>2, <1>3, <1>6, <2>1, OutputPays
<1> QED
  BY <1>2, <1>4, <1>5, <1>6, OutputWithin

LEMMA UpdateTokensWithin ==
  ASSUME LimitInv, NEW r \in Requests, UpdateTokens(r)
  PROVE  \A x \in Requests : Within(x)'
<1> DEFINE f == Head(flights)
           d == DrainedReq(req[r], f[r])
           room == Prompt[r] + MaxNew - req[r].tokens
           after(k) == [d EXCEPT !.tokens = @ + k,
                                 !.placeholders = IF req[r].stale > 0 THEN @ ELSE @ - k]
<1>1. CounterInv /\ Shape /\ req \in [Requests -> Req] /\ mgr \in [Requests -> Mgr]
      /\ req[r] \in Req /\ Rows
  BY DEF LimitInv, BlockInv, CounterInv, ServingInv, Shape, Counters
<1>2. NextOutput(r) /\ step' = step
  BY DEF UpdateTokens, passVars
<1>3. PICK k \in 1 .. Smaller(f[r].sampled, room), eos \in BOOLEAN :
         IF eos \/ k = room
             THEN /\ req' = [req EXCEPT ![r] = [NewReq EXCEPT !.status = "finished"]]
                  /\ mgr' = [mgr EXCEPT ![r] = NoBlocks]
                  /\ worker' = [worker EXCEPT ![r] = NoRow]
             ELSE /\ req' = [req EXCEPT ![r] = after(k)] /\ worker' = worker
                  /\ \E c : mgr' = [mgr EXCEPT ![r].cached = c]
  BY DEF UpdateTokens
<1>4. CASE eos \/ k = room
  <2>1. /\ req'[r].status = "finished" /\ mgr'[r] = NoBlocks
        /\ \A x \in Requests : x # r =>
             req'[x] = req[x] /\ worker'[x] = worker[x] /\ mgr'[x] = mgr[x]
    BY <1>1, <1>3, <1>4 DEF NewReq, Rows
  <2>2. mgr'[r].blocks = <<>>
    BY <2>1 DEF NoBlocks
  <2> QED
    BY <1>2, <2>1, <2>2, OutputWithin
<1>5. CASE ~(eos \/ k = room)
  <2>1. req' = [req EXCEPT ![r] = after(k)] /\ worker' = worker
        /\ \E c : mgr' = [mgr EXCEPT ![r].cached = c]
    BY <1>3, <1>5
  <2>2. /\ req'[r] = after(k) /\ mgr'[r].blocks = mgr[r].blocks /\ mgr'[r].sweep = mgr[r].sweep
        /\ \A x \in Requests : x # r =>
             req'[x] = req[x] /\ worker'[x] = worker[x] /\ mgr'[x] = mgr[x]
    BY <1>1, <2>1 DEF Mgr
  <2>3. /\ d \in Req /\ d.status = req[r].status
        /\ d.tokens \in Int /\ d.placeholders \in Int
    <3>1. d \in Req /\ d.status = req[r].status
      BY <1>1, <1>2, OutputType, DrainedType
    <3> QED
      BY <3>1 DEF Req
  <2> DEFINE p == IF req[r].stale > 0 THEN d.placeholders ELSE d.placeholders - k
             q1 == [d EXCEPT !.tokens = d.tokens + k]
             q == [q1 EXCEPT !.placeholders = p]
  <2>4. after(k) = q
    <3> HIDE DEF d
    <3> QED
      BY <2>3 DEF Req
  <2>5. k \in Int
    OBVIOUS
  <2> HIDE DEF d, after
  <2>6. q1 \in Req /\ q1.tokens = d.tokens + k
        /\ q1.status = d.status /\ q1.inflight = d.inflight /\ q1.computed = d.computed
    BY <2>3, <2>5 DEF Req
  <2> HIDE DEF q1
  <2>7. /\ q.tokens = d.tokens + k /\ q.placeholders = p
        /\ q.status = d.status /\ q.inflight = d.inflight /\ q.computed = d.computed
    BY <2>6 DEF Req
  <2> HIDE DEF q
  <2>8. req'[r] = q /\ q.status = req[r].status
    BY <2>2, <2>3, <2>4, <2>7
  <2>9. ASSUME req[r].status = "running"
        PROVE  /\ Paid(req[r], Share(Head(flights), r), q)
               /\ q.computed - q.inflight \in Int
               /\ req[r].computed - req[r].inflight <= q.computed - q.inflight
    <3>1. req[r].stale = 0
      <4>1. Balanced(flights, req[r], worker[r].pos, r)
        BY <1>1 DEF CounterInv, Counters
      <4> QED
        BY <2>9, <4>1 DEF Balanced, Ahead
    <3>2. q.placeholders = d.placeholders - k
      BY <2>7, <3>1
    <3> QED
      BY <1>1, <1>2, <2>5, <2>7, <2>9, <3>2, OutputPays DEF d
  <2> HIDE DEF p
  <2> QED
    BY <1>2, <2>1, <2>2, <2>8, <2>9, OutputWithin
<1> QED
  BY <1>4, <1>5

-----------------------------------------------------------------------------
(* A list that is swept up to the tokens processed.                        *)
SweptTo(s, processed) == \A i \in 1 .. Len(s) : i < Cdiv(processed) => s[i] = Null

LEMMA SpreadsBounded ==
  ASSUME NEW s \in Seq(AllBlocks), NEW fs, Len(fs) \in Nat, NEW q, NEW pos, NEW r,
         SweptTo(s, q.computed - q.inflight)
  PROVE  /\ Len(fs) <= Depth /\ Spreads(fs, q, pos, r, s) => Bounded(s)
         /\ \A end : Len(fs) < Depth /\ SpreadsTo(fs, q, pos, r, s, end) => Bounded(s)
<1>1. ASSUME Len(fs) <= Depth, Spreads(fs, q, pos, r, s) PROVE Bounded(s)
  <2>1. PICK kept, counted, m : /\ Course(fs, q, pos, r, kept, counted)
                                /\ Certain(q, Len(fs), kept, counted, m)
                                /\ Spread(s, kept, m)
    BY <1>1 DEF Spreads
  <2>2. kept \in [0 .. Len(fs) -> Int] /\ kept[0] = q.computed - q.inflight /\ m \in 0 .. Len(fs)
    BY <2>1 DEF Course, Certain
  <2>3. \A i \in 1 .. Len(s) : i < Cdiv(kept[0]) => s[i] = Null
    BY <2>2 DEF SweptTo
  <2> QED
    BY <1>1, <2>1, <2>2, <2>3, SpreadBounded
<1>2. ASSUME NEW end, Len(fs) < Depth, SpreadsTo(fs, q, pos, r, s, end) PROVE Bounded(s)
  <2>1. PICK kept, counted, m : /\ Course(fs, q, pos, r, kept, counted)
                                /\ Certain(q, Len(fs), kept, counted, m)
                                /\ SpreadTo(s, end, kept, m)
    BY <1>2 DEF SpreadsTo
  <2>2. kept \in [0 .. Len(fs) -> Int] /\ kept[0] = q.computed - q.inflight /\ m \in 0 .. Len(fs)
    BY <2>1 DEF Course, Certain
  <2>3. \A i \in 1 .. Len(s) : i < Cdiv(kept[0]) => s[i] = Null
    BY <2>2 DEF SweptTo
  <2> QED
    BY <1>2, <2>1, <2>2, <2>3, SpreadToBounded
<1> QED
  BY <1>1, <1>2

LEMMA FewerSpreads ==
  ASSUME NEW s, NEW t, NEW fs, NEW q, NEW pos, NEW r, Len(t) = Len(s), Len(s) \in Nat,
         \A i \in 1 .. Len(s) : t[i] # Null => t[i] = s[i], Spreads(fs, q, pos, r, s)
  PROVE  Spreads(fs, q, pos, r, t)
<1>1. PICK kept, counted, m : /\ Course(fs, q, pos, r, kept, counted)
                              /\ Certain(q, Len(fs), kept, counted, m)
                              /\ Spread(s, kept, m)
  BY DEF Spreads
<1>2. Spread(t, kept, m)
  BY <1>1, FewerSpread
<1> QED
  BY <1>1, <1>2 DEF Spreads

(* A running request that no step of this pass has yet.                    *)
LEMMA SweptWithin ==
  ASSUME LimitInv, NEW r \in Requests, req[r].status = "running", r \notin DOMAIN step,
         NEW S, S = SweptMgr(r).blocks, NEW p, p = req[r].computed - req[r].inflight
  PROVE  /\ S \in Seq(AllBlocks) /\ Len(S) \in Nat /\ p \in Nat
         /\ Spreads(flights, req[r], worker[r].pos, r, S)
         /\ Cleared(S, SweptMgr(r).sweep, p) /\ SweptTo(S, p) /\ Bounded(S)
<1>1. /\ CounterInv /\ Shape /\ Len(flights) \in Nat /\ Len(flights) <= Depth /\ Within(r)
      /\ mgr[r].sweep \in Nat
  BY LenProperties DEF LimitInv, BlockInv, RefInv, References, CounterInv, ServingInv, Shape,
                       Limits, Room
<1>2. /\ Spreads(flights, req[r], worker[r].pos, r, List(r))
      /\ Cleared(List(r), mgr[r].sweep, p)
  <2>1. ~Long(r)
    BY DEF Long
  <2> QED
    BY <1>1, <2>1 DEF Within, Spaced
<1>3. /\ S \in Seq(AllBlocks) /\ Len(S) = Len(List(r)) /\ Len(List(r)) \in Nat
      /\ \A i \in 1 .. Len(List(r)) : S[i] # Null => S[i] = List(r)[i]
  BY <1>1, SweptKept
<1>4. Spreads(flights, req[r], worker[r].pos, r, S)
  BY <1>2, <1>3, FewerSpreads
<1>5. p \in Nat
  <2>1. \E kept, counted : Course(flights, req[r], worker[r].pos, r, kept, counted)
    BY <1>2 DEF Spreads
  <2>2. p >= 0
    BY <2>1 DEF Course
  <2>3. p \in Int
    BY <1>2 DEF Cleared
  <2> QED
    BY <2>2, <2>3
<1>6. /\ Cleared(S, SweptMgr(r).sweep, p)
      /\ \A i \in 1 .. Len(S) : i < Cdiv(p) => S[i] = Null
  <2>1. req[r].computed - req[r].inflight \in Nat
        /\ Cleared(List(r), mgr[r].sweep, req[r].computed - req[r].inflight)
    BY <1>2, <1>5
  <2> QED
    BY <1>1, <2>1, SweptClear
<1>7. SweptTo(S, p)
  BY <1>6 DEF SweptTo
<1>8. Bounded(S)
  BY <1>1, <1>3, <1>4, <1>7, SpreadsBounded
<1> QED
  BY <1>3, <1>4, <1>5, <1>6, <1>7, <1>8

LEMMA PreemptWithin ==
  ASSUME LimitInv, BlockInv', PreemptLast
  PROVE  \A x \in Requests : Within(x)'
<1>1. /\ BlockInv /\ step' = step /\ flights' = flights
      /\ \A x \in Requests : req'[x].status # "running" => mgr'[x].blocks = <<>>
  BY DEF LimitInv, BlockInv, RefInv, References, PreemptLast
<1>2. \A x \in Requests : req'[x].status = "running" =>
        /\ req[x].status = "running" /\ req'[x] = req[x] /\ worker'[x] = worker[x]
        /\ \/ mgr'[x] = mgr[x]
           \/ x \notin DOMAIN step /\ mgr'[x] = SweptMgr(x)
  BY <1>1, PreemptKeeps
<1> SUFFICES ASSUME NEW x \in Requests PROVE Within(x)'
  OBVIOUS
<1>3. CASE req'[x].status # "running"
  BY <1>1, <1>3, EmptyBounded DEF Within, List
<1>4. CASE req'[x].status = "running" /\ mgr'[x] = mgr[x]
  BY <1>1, <1>2, <1>4, StillWithin DEF LimitInv, Limits
<1>5. CASE req'[x].status = "running" /\ x \notin DOMAIN step /\ mgr'[x] = SweptMgr(x)
  <2>1. PICK S, p : S = SweptMgr(x).blocks /\ p = req[x].computed - req[x].inflight
    OBVIOUS
  <2>2. /\ Spreads(flights, req[x], worker[x].pos, x, S)
        /\ Cleared(S, SweptMgr(x).sweep, p) /\ Bounded(S)
    BY <1>2, <1>5, <2>1, SweptWithin
  <2>3. /\ List(x)' = S /\ mgr'[x].sweep = SweptMgr(x).sweep
        /\ p = req'[x].computed - req'[x].inflight
        /\ Spreads(flights', req'[x], worker'[x].pos, x, List(x)')
    BY <1>1, <1>2, <1>5, <2>1, <2>2 DEF List
  <2>4. ~Long(x)'
    BY <1>1, <1>5 DEF Long
  <2> QED
    BY <2>2, <2>3, <2>4 DEF Within, Spaced
<1> QED
  BY <1>2, <1>3, <1>4, <1>5

-----------------------------------------------------------------------------
LEMMA CdivPlus ==
  ASSUME NEW n \in Int, NEW a \in Int, NEW j \in Int, n <= a + j * BlockSize
  PROVE  Cdiv(n) \in Int /\ Cdiv(a) \in Int /\ Cdiv(n) <= Cdiv(a) + j
<1>1. PICK x \in Int : x = Cdiv(a)
  BY CdivInt
<1>2. a <= x * BlockSize
  BY <1>1, CdivEnd DEF End
<1>3. BlockSize \in Int
  BY ManagerAssumption
<1>4. (x + j) * BlockSize = x * BlockSize + j * BlockSize
      /\ x * BlockSize \in Int /\ j * BlockSize \in Int
  BY <1>3
<1>5. n <= (x + j) * BlockSize
  BY <1>2, <1>4
<1>6. n <= End(x + j) /\ x + j \in Int
  BY <1>5 DEF End
<1>7. Cdiv(n) \in Int /\ Cdiv(n) <= x + j
  BY <1>6, CdivEnd
<1> QED
  BY <1>1, <1>7

(* A list that is allocated for the next step.                             *)
SpreadsNext(S, s, len, kept, m, c, l, n) ==
  /\ l > 1 => SpreadTo(s, c + n, kept, m)
  /\ l = 1 => Spread(s, kept, m)
  /\ Len(s) \in Nat /\ Len(s) >= Len(S) /\ Len(S) >= Cdiv(c)
  /\ \A i \in 1 .. Len(S) : i <= Cdiv(c) => s[i] = S[i]

LEMMA GrownSpread ==
  ASSUME NEW S, NEW t, NEW w, NEW c, NEW l, NEW n, NEW drafts, NEW new,
         Growing(S, t, w, c, l, n, drafts, new), NEW s, s = Allocated(S, c + n, TRUE, new),
         NEW len \in Nat, NEW kept \in [0 .. len -> Int], NEW m \in 0 .. len, len < Depth,
         Spread(S, kept, m), kept[m] <= c, c - kept[m] <= (len - m) * BlockSize,
         l > 1 => m = len /\ kept[m] = c
  PROVE  SpreadsNext(S, s, len, kept, m, c, l, n)
<1>1. /\ NextStep(w, c, l, n, drafts) /\ S \in Seq(AllBlocks) /\ Laid(S, t, w, w, c, l)
      /\ new \in [1 .. NumNew(S, c + n, TRUE) -> Blocks]
  BY DEF Growing
<1>2. PICK K, T : K = Cdiv(c) /\ T = Cdiv(c + n)
  OBVIOUS
<1>3. /\ w \in Int /\ c \in Int /\ l \in Int /\ n \in Int /\ drafts \in Int
      /\ w >= 0 /\ w <= c /\ l >= 1 /\ n >= 1 /\ n <= l + drafts /\ drafts <= NumSpec
      /\ c + n \in Int
  BY <1>1 DEF NextStep
<1>4. /\ l = 1 => T <= K + 1
      /\ K \in Nat /\ T \in Int /\ Cdiv(w) \in Int
      /\ Cdiv(w) <= K /\ K <= T /\ NumSpec \in Nat /\ T \in Nat
  BY <1>1, <1>2, NextSure
<1>5. /\ Len(S) >= NumSpec + K
      /\ l > 1 => Len(S) = NumSpec + K
      /\ \A i \in 1 .. Len(S) : i >= Cdiv(w) => S[i] # Null
      /\ Len(S) \in Nat
  BY <1>1, <1>2, HeldInBlocks DEF Laid
<1>6. Grown(S, c + n, TRUE, K)
  <2>1. \A k \in 1 .. Len(S) : k > K => S[k] # Null
    BY <1>4, <1>5
  <2>2. T <= K + 1 \/ Len(S) = NumSpec + K
    BY <1>3, <1>4, <1>5
  <2> QED
    BY <1>1, <1>2, <1>3, <1>4, <1>5, <2>1, <2>2 DEF Grown
<1>7. /\ s \in Seq(AllBlocks) /\ Len(s) \in Nat
      /\ Len(s) >= Len(S) /\ Len(s) >= NumSpec + T
      /\ Len(S) <= NumSpec + T => Len(s) = NumSpec + T
      /\ Extends(S, Held(new), s, T, K)
  BY <1>1, <1>2, <1>6, AllocatedEntries
<1>8. /\ \A i \in 1 .. K : s[i] = S[i]
      /\ \A i \in K + 1 .. Len(s) : i < T => s[i] = Null
  BY <1>7 DEF Extends
<1>9. PICK L \in Nat, M \in Nat : L = Len(s) /\ M = Len(S)
  BY <1>5, <1>7
<1>10. /\ L >= M /\ L >= NumSpec + T /\ (M <= NumSpec + T => L = NumSpec + T)
       /\ M >= NumSpec + K /\ (l > 1 => M = NumSpec + K)
  BY <1>5, <1>7, <1>9
<1>11. \A i \in 1 .. Len(S) : i <= K => s[i] = S[i]
  <2>1. \A i \in 1 .. Len(S) : i <= K => i \in 1 .. K
    BY <1>4
  <2> QED
    BY <1>8, <2>1
<1>12. /\ Depth \in Nat /\ m \in Nat /\ m <= len /\ kept[m] \in Int
       /\ Cdiv(kept[m]) \in Int
  <2>1. Depth \in Nat /\ m \in Nat /\ m <= len /\ m \in 0 .. len
    BY ServingAssumption
  <2>2. kept[m] \in Int
    BY <2>1
  <2> QED
    BY <2>1, <2>2, CdivInt
<1>13. Cdiv(kept[m]) <= K
  BY <1>2, <1>3, <1>12, CdivMonotone
<1>14. ASSUME l > 1 PROVE SpreadTo(s, c + n, kept, m)
  <2>1. Len(s) - NumSpec = T
    BY <1>4, <1>5, <1>7, <1>14
  <2>2. Cdiv(kept[m]) = K
    BY <1>2, <1>14
  <2>3. ASSUME NEW i \in 1 .. T, s[i] # Null PROVE Needed(i, kept, m) \/ i = T
    <3>1. CASE i <= K
      <4>1. i \in 1 .. Len(S) - NumSpec /\ i \in 1 .. K
        BY <1>4, <1>5, <3>1
      <4>2. S[i] # Null
        BY <1>8, <2>3, <4>1
      <4>3. Needed(i, kept, m) \/ i > Cdiv(kept[m])
        BY <4>1, <4>2 DEF Spread
      <4> QED
        BY <1>4, <2>2, <3>1, <4>1, <4>3
    <3>2. CASE i > K
      <4>1. i \in K + 1 .. Len(s)
        <5>1. i \in K + 1 .. L
          BY <1>4, <1>10, <3>2
        <5> QED
          BY <1>9, <5>1
      <4>2. ~(i < T)
        BY <1>8, <2>3, <4>1
      <4> QED
        BY <1>4, <4>2
    <3> QED
      BY <1>4, <3>1, <3>2
  <2> QED
    BY <1>2, <2>1, <2>3 DEF SpreadTo
<1>15. ASSUME l = 1 PROVE Spread(s, kept, m)
  <2>1. ASSUME NEW i \in 1 .. Len(s) - NumSpec, s[i] # Null
        PROVE  Needed(i, kept, m) \/ i > Cdiv(kept[m])
    <3>1. CASE i <= K
      <4>1. i \in 1 .. Len(S) - NumSpec /\ i \in 1 .. K
        BY <1>4, <1>5, <3>1
      <4>2. S[i] # Null
        BY <1>8, <2>1, <4>1
      <4> QED
        BY <4>1, <4>2 DEF Spread
    <3>2. CASE i > K
      BY <1>4, <1>12, <1>13, <3>2
    <3> QED
      BY <1>4, <3>1, <3>2
  <2>2. Len(s) - NumSpec <= Cdiv(kept[m]) + (Depth - m)
    <3>1. CASE Len(S) <= NumSpec + T
      <4>1. PICK a \in Int, j \in Nat : a = kept[m] /\ j = len - m
        BY <1>12
      <4>2. BlockSize \in Nat /\ NumSpec + 1 <= BlockSize
        BY ManagerAssumption
      <4>3. n <= BlockSize
        BY <1>3, <1>4, <1>15, <4>2
      <4>4. j * BlockSize \in Int /\ (j + 1) * BlockSize = j * BlockSize + BlockSize
        BY <4>2
      <4>5. c + n <= a + (j + 1) * BlockSize
        <5>1. PICK e \in Int : e = j * BlockSize
          BY <4>4
        <5>2. c - a <= e
          BY <4>1, <5>1
        <5>3. c + n <= a + (e + BlockSize)
          BY <1>3, <4>2, <4>3, <5>2
        <5> QED
          BY <4>4, <5>1, <5>3
      <4>6. Cdiv(c + n) <= Cdiv(a) + (j + 1)
        BY <1>3, <4>1, <4>5, CdivPlus
      <4>7. T <= Cdiv(kept[m]) + ((len - m) + 1)
        BY <1>2, <4>1, <4>6
      <4>8. Len(s) - NumSpec = T
        <5>1. M <= NumSpec + T
          BY <1>9, <3>1
        <5>2. L = NumSpec + T
          BY <1>10, <5>1
        <5>3. L - NumSpec = T
          BY <1>4, <5>2
        <5> QED
          BY <1>9, <5>3
      <4>9. PICK x \in Int : x = Cdiv(kept[m])
        BY <1>12
      <4>10. T <= x + (Depth - m)
        BY <1>4, <1>12, <4>7, <4>9
      <4> QED
        BY <4>8, <4>9, <4>10
    <3>2. CASE Len(S) > NumSpec + T
      <4>1. Required(c + n) <= Len(S)
        <5>1. Required(c + n) = T + NumSpec
          BY <1>2, <1>3, RequiredInt
        <5> QED
          BY <1>4, <1>5, <3>2, <5>1
      <4>2. s = S
        BY <4>1 DEF Allocated
      <4> QED
        BY <4>2 DEF Spread
    <3>3. Len(S) <= NumSpec + T \/ Len(S) > NumSpec + T
      BY <1>4, <1>9
    <3> QED
      BY <3>1, <3>2, <3>3
  <2> QED
    BY <2>1, <2>2 DEF Spread
<1>16. Len(S) >= K
  BY <1>4, <1>5
<1> QED
  BY <1>2, <1>7, <1>11, <1>14, <1>15, <1>16 DEF SpreadsNext

LEMMA NextWithin ==
  ASSUME NEW S \in Seq(AllBlocks), NEW s \in Seq(AllBlocks), NEW p \in Int, NEW c \in Int,
         NEW swept, p <= c, Len(s) \in Nat, Len(s) >= Len(S), Len(S) \in Nat, Len(S) >= Cdiv(c),
         \A i \in 1 .. Len(S) : i <= Cdiv(c) => s[i] = S[i],
         Cleared(S, swept, p), SweptTo(S, p)
  PROVE  Cleared(s, swept, p) /\ SweptTo(s, p)
<1>1. Cdiv(p) \in Int /\ Cdiv(c) \in Int /\ Cdiv(p) <= Cdiv(c)
  BY CdivMonotone
<1>2. /\ swept \in Nat /\ swept <= Cdiv(p)
      /\ \A i \in 1 .. Len(S) : i <= swept => S[i] = Null
      /\ \A i \in 1 .. Len(S) : i < Cdiv(p) => S[i] = Null
  BY DEF Cleared, SweptTo
<1>3. ASSUME NEW i \in 1 .. Len(s), i <= swept \/ i < Cdiv(p) PROVE s[i] = Null
  <2>1. i <= Cdiv(c) /\ i \in 1 .. Len(S)
    BY <1>1, <1>2, <1>3
  <2> QED
    BY <1>2, <1>3, <2>1
<1> QED
  BY <1>2, <1>3 DEF Cleared, SweptTo

(* What a step in flight and the room for one more make of the counters.   *)
LEMMA CourseCounts ==
  ASSUME CounterInv, NEW r \in Requests, req[r].status = "running",
         NEW len, len = Len(flights), NEW kept, NEW counted, NEW m,
         Course(flights, req[r], worker[r].pos, r, kept, counted),
         Certain(req[r], len, kept, counted, m)
  PROVE  /\ len \in Nat /\ kept \in [0 .. len -> Int] /\ m \in 0 .. len
         /\ kept[0] = req[r].computed - req[r].inflight
         /\ kept[m] <= req[r].computed
         /\ req[r].computed - kept[m] <= (len - m) * BlockSize
         /\ Lag(req[r]) > 1 => m = len /\ kept[m] = req[r].computed
<1>1. /\ len \in Nat /\ (Lag(req[r]) > 1 => worker[r].pos = req[r].computed)
  BY RunningCounts, LenProperties DEF CounterInv, ServingInv, Shape
<1>2. /\ m \in 0 .. len /\ \A k \in 0 .. m : counted[k] = kept[k]
      /\ \A k \in m .. len : counted[k] <= req[r].computed
                             /\ req[r].computed - counted[k] <= (len - k) * BlockSize
      /\ Lag(req[r]) > 1 => m = len
  BY DEF Certain
<1>3. m \in 0 .. m /\ m \in m .. len
  BY <1>1, <1>2
<1>4. counted[m] = kept[m] /\ counted[m] <= req[r].computed
      /\ req[r].computed - counted[m] <= (len - m) * BlockSize
  BY <1>2, <1>3
<1>5. /\ kept \in [0 .. len -> Int] /\ kept[0] = req[r].computed - req[r].inflight
      /\ kept[len] = worker[r].pos
  BY DEF Course
<1> QED
  BY <1>1, <1>2, <1>4, <1>5

LEMMA GrowWithin ==
  ASSUME LimitInv, Grow
  PROVE  \A x \in Requests : Within(x)'
<1>1. /\ BlockInv /\ CounterInv /\ Shape /\ InLoop /\ mgr \in [Requests -> Mgr]
      /\ req \in [Requests -> Req] /\ RefInv /\ Rows
      /\ flights' = flights /\ worker' = worker /\ phase' = phase
  BY DEF LimitInv, BlockInv, CounterInv, ServingInv, Shape, Grow, Counters
<1>2. PICK r \in Requests : r = Current
  BY <1>1, CurrentRunning DEF CounterInv
<1>3. req[r].status = "running" /\ r \notin DOMAIN step
  BY <1>1, <1>2, CurrentRunning, CurrentUnscheduled DEF CounterInv
<1> DEFINE S == SweptMgr(r).blocks
           n == NewTokens(r)
           w == worker[r].pos
           c == req[r].computed
           l == Lag(req[r])
           drafts == IF req[r].spec = 0 THEN 0
                     ELSE Smaller(req[r].spec,
                            Larger(0, (req[r].computed + n) - req[r].tokens
                                        - req[r].placeholders))
           p == req[r].computed - req[r].inflight
           total == c + n
           tokens == Smaller(total, req[r].tokens)
<1>4. PICK new \in Picks(SweptPool(r), NumNew(S, total, TRUE)) :
        mgr' = [mgr EXCEPT ![r] =
                  [SweptMgr(r) EXCEPT !.blocks = Allocated(S, total, TRUE, new),
                                      !.cached = Larger(@, tokens \div BlockSize)]]
  BY <1>2 DEF Grow
<1>5. PICK s : s = Allocated(S, c + n, TRUE, new)
  OBVIOUS
<1>6. /\ step' = Scheduled(r, [n |-> n, drafts |-> drafts, padded |-> FALSE, admitted |-> FALSE])
      /\ step'[r].n = n /\ NextStep(w, c, l, n, drafts)
      /\ req'[r].computed = req[r].computed /\ req'[r].tokens = req[r].tokens
      /\ req'[r].placeholders = req[r].placeholders
      /\ \A x \in Requests : x # r => req'[x] = req[x]
  BY <1>1, <1>2, GrowNext
<1>7. req'[r].inflight = req[r].inflight
  <2>1. req' = [req EXCEPT ![r].spec = 0]
    BY <1>2, GrowScheduled
  <2> QED
    BY <1>1, <2>1 DEF Req
<1>8. /\ DOMAIN step' = DOMAIN step \union {r}
      /\ \A x \in DOMAIN step : x # r => step'[x] = step[x]
  BY <1>6 DEF Scheduled
<1>9. /\ S \in Seq(AllBlocks) /\ Len(S) \in Nat /\ p \in Nat
      /\ Spreads(flights, req[r], w, r, S)
      /\ Cleared(S, SweptMgr(r).sweep, p) /\ SweptTo(S, p)
  BY <1>3, SweptWithin
<1>10. Growing(S, worker[r].table, w, c, l, n, drafts, new)
  <2>1. new \in [1 .. NumNew(S, c + n, TRUE) -> Blocks]
    BY DEF Picks, FreeBlocks
  <2>2. Laid(S, worker[r].table, w, w, c, l)
    BY <1>1, <1>3, SweptLaid
  <2> QED
    BY <1>6, <1>9, <2>1, <2>2 DEF Growing
<1>11. PICK len \in Nat : len = Len(flights) /\ len < Depth
  BY <1>1, LenProperties DEF LimitInv, Limits, Room, InLoop, Shape
<1>12. PICK kept, counted, m : /\ Course(flights, req[r], w, r, kept, counted)
                               /\ Certain(req[r], len, kept, counted, m)
                               /\ Spread(S, kept, m)
  BY <1>9, <1>11 DEF Spreads
<1>13. /\ kept \in [0 .. len -> Int] /\ m \in 0 .. len /\ kept[m] <= c
       /\ c - kept[m] <= (len - m) * BlockSize /\ (l > 1 => m = len /\ kept[m] = c)
  BY <1>1, <1>3, <1>11, <1>12, CourseCounts
<1> HIDE DEF S, n, w, l, drafts, p
<1>14. SpreadsNext(S, s, len, kept, m, c, l, n)
  BY <1>5, <1>10, <1>11, <1>12, <1>13, GrownSpread
<1>15. /\ mgr'[r].blocks = s /\ mgr'[r].sweep = SweptMgr(r).sweep
       /\ \A x \in Requests : x # r => mgr'[x] = mgr[x]
  <2>1. SweptMgr(r) \in Mgr
    BY <1>1, SweptType
  <2> QED
    BY <1>1, <1>4, <1>5, <2>1 DEF Mgr
<1>16. s \in Seq(AllBlocks) /\ Len(s) \in Nat
  <2>1. LaidForNext(S, worker[r].table, w, c, l, n, drafts, new, s)
    BY <1>5, <1>10, GrownLaid
  <2> QED
    BY <2>1 DEF LaidForNext
<1>17. p <= c /\ p \in Int /\ c \in Int
  <2>1. /\ req[r].computed \in Int /\ Processed(r) <= worker[r].pos
        /\ worker[r].pos <= req[r].computed /\ worker[r].pos \in Int /\ Processed(r) \in Int
    BY <1>1, <1>3, RunningCounts
  <2>2. Processed(r) = p
    BY <1>9 DEF Processed, Larger, p
  <2> QED
    BY <1>9, <2>1, <2>2
<1>18. Cleared(s, SweptMgr(r).sweep, p) /\ SweptTo(s, p)
  <2>1. /\ Len(s) \in Nat /\ Len(s) >= Len(S) /\ Len(S) >= Cdiv(c)
        /\ \A i \in 1 .. Len(S) : i <= Cdiv(c) => s[i] = S[i]
    BY <1>14 DEF SpreadsNext
  <2> QED
    BY <1>9, <1>16, <1>17, <2>1, NextWithin
<1>19. PICK d : d = req'[r]
  OBVIOUS
<1>20. /\ d.computed = c /\ d.inflight = req[r].inflight /\ Lag(d) = l
       /\ p = d.computed - d.inflight
  BY <1>6, <1>7, <1>19 DEF Lag, l, p
<1>21. /\ Course(flights, d, w, r, kept, counted) /\ Certain(d, Len(flights), kept, counted, m)
  <2>1. Course(flights, d, w, r, kept, counted)
    BY <1>12, <1>20 DEF Course
  <2>2. Lag(req[r]) = l
    BY DEF l
  <2> HIDE DEF c
  <2>3. Certain(d, Len(flights), kept, counted, m)
    BY <1>11, <1>12, <1>20, <2>2 DEF Certain, c
  <2> QED
    BY <2>1, <2>3
<1>22. Cleared(mgr'[r].blocks, mgr'[r].sweep, req'[r].computed - req'[r].inflight)
  BY <1>15, <1>18, <1>19, <1>20
<1>23. ASSUME Bounded(s), Spaced(r)' PROVE Within(r)'
  <2>1. Bounded(List(r))'
    BY <1>15, <1>23 DEF List
  <2>2. Cleared(List(r), mgr[r].sweep, req[r].computed - req[r].inflight)'
    BY <1>22 DEF List
  <2> QED
    BY <1>23, <2>1, <2>2 DEF Within
<1>24. ASSUME l > 1 PROVE Within(r)'
  <2>1. SpreadsTo(flights, d, w, r, s, c + n)
    BY <1>14, <1>21, <1>24 DEF SpreadsTo, SpreadsNext
  <2>2. Bounded(s)
    BY <1>11, <1>16, <1>18, <1>20, <2>1, SpreadsBounded
  <2>3. Long(r)' /\ Top(r)' = c + n
    BY <1>6, <1>8, <1>19, <1>20, <1>24 DEF Long, Top
  <2>4. Spaced(r)'
    <3>1. SpreadsTo(flights', req'[r], worker'[r].pos, r, mgr'[r].blocks, Top(r)')
      BY <1>1, <1>15, <1>19, <2>1, <2>3 DEF w
    <3> QED
      BY <2>3, <3>1 DEF Spaced, List
  <2> QED
    BY <1>23, <2>2, <2>4
<1>25. ASSUME ~(l > 1) PROVE Within(r)'
  <2>1. l = 1
    BY <1>6, <1>25 DEF NextStep
  <2>2. Spreads(flights, d, w, r, s)
    BY <1>14, <1>21, <2>1 DEF Spreads, SpreadsNext
  <2>3. Bounded(s)
    <3>1. Len(flights) <= Depth
      BY <1>11, ServingAssumption
    <3> QED
      BY <1>11, <1>16, <1>18, <1>20, <2>2, <3>1, SpreadsBounded
  <2>4. ~Long(r)'
    BY <1>19, <1>20, <1>25 DEF Long
  <2>5. Spaced(r)'
    <3>1. Spreads(flights', req'[r], worker'[r].pos, r, mgr'[r].blocks)
      BY <1>1, <1>15, <1>19, <2>2 DEF w
    <3> QED
      BY <2>4, <3>1 DEF Spaced, List
  <2> QED
    BY <1>23, <2>3, <2>5
<1>26. Within(r)'
  BY <1>24, <1>25
<1> SUFFICES ASSUME NEW x \in Requests, x # r PROVE Within(x)'
  BY <1>26
<1>27. /\ mgr'[x] = mgr[x] /\ req'[x] = req[x]
       /\ x \in DOMAIN step' <=> x \in DOMAIN step
       /\ x \in DOMAIN step => step'[x] = step[x]
  BY <1>6, <1>8, <1>15
<1> QED
  BY <1>1, <1>27, StillWithin DEF LimitInv, Limits

-----------------------------------------------------------------------------
(* Admission: nothing of the request is in flight, its course stands still *)
(* at the tokens of the hit.                                               *)
LEMMA AdmittedSpread ==
  ASSUME NEW found, NEW k, NEW n, NEW drafts, NEW new, Admitting(found, k, n, drafts, new),
         NEW s, s = Allocated(found, End(k) + n, FALSE, new),
         NEW len \in Nat, len < Depth, NEW kept, kept = [j \in 0 .. len |-> End(k)]
  PROVE  /\ SpreadTo(s, End(k) + n, kept, len)
         /\ n <= BlockSize => Spread(s, kept, len)
<1>1. /\ found \in Seq(AllBlocks) /\ Len(found) = k /\ k \in Nat /\ n \in Int /\ n >= 1
      /\ new \in [1 .. NumNew(found, End(k) + n, FALSE) -> Blocks]
  BY DEF Admitting
<1>2. PICK w \in Int : w = End(k)
  BY <1>1, EndInt
<1>3. PICK T \in Int : T = Cdiv(w + n)
  BY <1>1, CdivInt
<1>4. k \in Int /\ k >= 0 /\ n \in Int /\ n >= 1
  BY <1>1
<1>5. T > k /\ (n <= BlockSize => T <= k + 1)
  <2>1. w + n \in Int /\ End(k + 1) = w + BlockSize /\ BlockSize \in Int
    <3>1. End(k + 1) = End(k) + BlockSize
      BY <1>4, EndOrder
    <3> QED
      BY <1>2, <1>4, <3>1, ManagerAssumption
  <2>2. T <= k <=> w + n <= w
    <3>1. T <= k <=> w + n <= End(k)
      BY <1>3, <1>4, <2>1, CdivEnd
    <3> QED
      BY <1>2, <3>1
  <2>3. T <= k + 1 <=> w + n <= w + BlockSize
    <3>1. k + 1 \in Int
      BY <1>4
    <3>2. T <= k + 1 <=> w + n <= End(k + 1)
      BY <1>3, <2>1, <3>1, CdivEnd
    <3> QED
      BY <2>1, <3>2
  <2> QED
    BY <1>4, <2>1, <2>2, <2>3
<1>6. Grown(found, w + n, FALSE, k)
  <2>1. w + n \in Int
    BY <1>1
  <2> QED
    BY <1>1, <1>3, <1>5, <2>1, ManagerAssumption DEF Grown
<1>7. /\ s \in Seq(AllBlocks) /\ Len(s) \in Nat
      /\ Len(found) <= NumSpec + T => Len(s) = NumSpec + T
      /\ Extends(found, Held(new), s, T, k)
  <2>1. new \in [1 .. NumNew(found, w + n, FALSE) -> Blocks]
        /\ s = Allocated(found, w + n, FALSE, new)
    BY <1>1, <1>2
  <2> QED
    BY <1>3, <1>6, <2>1, AllocatedEntries
<1>8. NumSpec \in Nat /\ Depth \in Nat /\ Len(s) - NumSpec = T /\ Len(s) >= T
  <2>1. NumSpec \in Nat /\ Depth \in Nat
    BY ManagerAssumption, ServingAssumption
  <2>2. Len(found) <= NumSpec + T
    BY <1>1, <1>5, <2>1
  <2>3. PICK L \in Nat : L = Len(s)
    BY <1>7
  <2>4. L = NumSpec + T
    BY <1>7, <2>2, <2>3
  <2> QED
    BY <2>1, <2>3, <2>4
<1>9. \A j \in 0 .. len : kept[j] = w
  BY <1>2
<1>10. kept[0] = w /\ kept[len] = w /\ Cdiv(w) = k
  <2>1. Cdiv(w) <= k
    BY <1>1, <1>2, CdivEnd
  <2>2. ~(Cdiv(w) <= k - 1)
    <3>1. PICK j \in Int : j = k - 1 /\ j + 1 = k
      BY <1>4
    <3>2. End(j) \in Int /\ End(j + 1) = End(j) + BlockSize
      BY EndOrder, EndInt
    <3>3. BlockSize \in Nat \ {0}
      BY ManagerAssumption
    <3>4. ~(w <= End(j))
      <4>1. End(j + 1) = w
        BY <1>2, <3>1
      <4> QED
        BY <3>2, <3>3, <4>1
    <3>5. ~(Cdiv(w) <= j)
      BY <3>4, CdivEnd
    <3> QED
      BY <3>1, <3>5
  <2>3. Cdiv(w) \in Int
    BY CdivInt
  <2>4. 0 \in 0 .. len /\ len \in 0 .. len
    OBVIOUS
  <2> QED
    BY <1>1, <1>9, <2>1, <2>2, <2>3, <2>4
<1>11. \A i \in k + 1 .. Len(s) : i < T => s[i] = Null
  BY <1>7 DEF Extends
<1>12. SpreadTo(s, End(k) + n, kept, len)
  <2>1. ASSUME NEW i \in 1 .. Len(s) - NumSpec, s[i] # Null
        PROVE  Needed(i, kept, len) \/ i = T
    <3>1. i \in 1 .. T
      BY <1>8
    <3>2. i <= k \/ i = T
      <4>1. i > k /\ i < T => i \in k + 1 .. Len(s)
        <5>1. PICK L \in Nat : L = Len(s)
          BY <1>7
        <5>2. i > k /\ i < T => i \in k + 1 .. L
          BY <1>8, <1>4, <3>1, <5>1
        <5> QED
          BY <5>1, <5>2
      <4>2. ~(i > k /\ i < T)
        BY <1>11, <2>1, <4>1
      <4> QED
        BY <1>4, <3>1, <4>2
    <3> QED
      BY <1>10, <3>2 DEF Needed
  <2> QED
    BY <1>2, <1>3, <1>8, <2>1 DEF SpreadTo
<1>13. ASSUME n <= BlockSize PROVE Spread(s, kept, len)
  <2>1. Len(s) - NumSpec <= Cdiv(kept[len]) + (Depth - len)
    <3>1. Cdiv(kept[len]) = k /\ Len(s) - NumSpec = T
      BY <1>8, <1>10
    <3>2. T <= k + (Depth - len)
      BY <1>5, <1>8, <1>13, <1>4
    <3> QED
      BY <3>1, <3>2
  <2>2. \A i \in 1 .. Len(s) - NumSpec : i <= k \/ i > k
    BY <1>1
  <2> QED
    BY <1>10, <2>1, <2>2 DEF Spread, Needed
<1> QED
  BY <1>12, <1>13

LEMMA IdleCourse ==
  ASSUME NEW fs, NEW len \in Nat, len = Len(fs), NEW r, NEW w \in Nat, NEW q,
         q.computed = w, q.inflight = 0, \A k \in 1 .. len : r \notin DOMAIN fs[k],
         NEW kept, kept = [j \in 0 .. len |-> w]
  PROVE  Course(fs, q, w, r, kept, kept) /\ Certain(q, len, kept, kept, len)
<1>1. /\ 0 \in 0 .. len /\ len \in 0 .. len
      /\ \A k \in 1 .. len : k \in 0 .. len /\ k - 1 \in 0 .. len
  OBVIOUS
<1>2. \A k \in 1 .. len : Share(fs[k], r).kept = 0 /\ Share(fs[k], r).rejected = 0
  BY DEF Share, Nil
<1>3. kept \in [0 .. len -> Int] /\ \A j \in 0 .. len : kept[j] = w
  OBVIOUS
<1>4. w - 0 = w /\ w + 0 = w /\ w + 0 + 0 = w /\ w >= 0 /\ w <= w /\ w - w = 0
  OBVIOUS
<1>5. \A k \in 1 .. len :
        /\ kept[k] = kept[k - 1] + Share(fs[k], r).kept
        /\ kept[k] = kept[k - 1] + Share(fs[k], r).kept + Share(fs[k], r).rejected
  BY <1>1, <1>2, <1>3, <1>4
<1>6. Course(fs, q, w, r, kept, kept)
  BY <1>1, <1>3, <1>4, <1>5 DEF Course
<1>7. \A k \in len .. len : k = len /\ kept[k] = w /\ 0 <= (len - k) * BlockSize
  <2>1. (len - len) * BlockSize = 0
    BY ManagerAssumption
  <2>2. \A k \in len .. len : k = len
    OBVIOUS
  <2> QED
    BY <1>1, <1>3, <2>1, <2>2
<1>8. Certain(q, len, kept, kept, len)
  BY <1>1, <1>4, <1>7 DEF Certain
<1> QED
  BY <1>6, <1>8

LEMMA AdmitWithin ==
  ASSUME LimitInv, NEW r \in Requests, Admit(r)
  PROVE  \A x \in Requests : Within(x)'
<1>1. /\ BlockInv /\ CounterInv /\ Shape /\ mgr \in [Requests -> Mgr]
      /\ req \in [Requests -> Req] /\ Rows /\ InPass /\ phase = "waiting"
      /\ flights' = flights /\ NumSpec \in Nat
  BY ManagerAssumption DEF LimitInv, BlockInv, CounterInv, ServingInv, Shape, Admit, Counters
<1>2. PICK found \in Hits(r) :
        /\ Admissible(r, found)
        /\ \E new \in Picks(Touch(pool, Held(found)),
                            NumNew(found, AdmitTotal(r, found), FALSE)) :
             LET tokens == Smaller(AdmitTotal(r, found), req[r].tokens)
                 blocks == AdmittedBlocks(r, found, new)
             IN  mgr' = [mgr EXCEPT ![r] =
                              [blocks |-> blocks, sweep |-> 0,
                               cached |-> Larger(Len(found), tokens \div BlockSize)]]
        /\ step' = Scheduled(r, [n |-> AdmitTokens(r, found),
                                 drafts |-> IF Padded(r, found) THEN NumSpec ELSE 0,
                                 padded |-> Padded(r, found), admitted |-> TRUE])
        /\ req' = [req EXCEPT ![r].status = "running", ![r].computed = HitTokens(found)]
        /\ worker' = [worker EXCEPT ![r] =
                        [NoRow EXCEPT !.pos = HitTokens(found), !.index = Len(found)]]
  BY DEF Admit
<1> DEFINE k == Len(found)
           n == AdmitTokens(r, found)
           drafts == IF Padded(r, found) THEN NumSpec ELSE 0
           total == End(k) + n
           tokens == Smaller(total, req[r].tokens)
<1>3. AdmitTotal(r, found) = total /\ HitTokens(found) = End(k)
  BY DEF AdmitTotal, HitTokens, End
<1>4. PICK new \in Picks(Touch(pool, Held(found)), NumNew(found, total, FALSE)) :
        mgr' = [mgr EXCEPT ![r] =
                  [blocks |-> AdmittedBlocks(r, found, new), sweep |-> 0,
                   cached |-> Larger(k, tokens \div BlockSize)]]
  BY <1>2, <1>3
<1>5. PICK s : s = Allocated(found, total, FALSE, new)
  OBVIOUS
<1>6. AdmittedBlocks(r, found, new) = s
  BY <1>3, <1>5 DEF AdmittedBlocks
<1>7. found \in Seq(AllBlocks) /\ k \in Nat /\ End(k) \in Nat
  BY <1>1, <1>3, HitsType, HeldInBlocks
<1>8. /\ n \in Int /\ n >= 1 /\ req[r].tokens \in Int
      /\ n <= req[r].tokens - End(k) + drafts
      /\ Padded(r, found) => n = 1 + NumSpec
  <2>1. /\ AdmitTokens(r, found) \in Int /\ AdmitTokens(r, found) >= 1
        /\ AdmitTokens(r, found) <= req[r].tokens - HitTokens(found) + drafts
        /\ Padded(r, found) => AdmitTokens(r, found) = 1 + NumSpec
    BY <1>1, <1>2, AdmissionAtMost
  <2> QED
    BY <1>1, <1>3, <2>1, ReqFields
<1>9. /\ drafts \in Int /\ drafts >= 0 /\ drafts <= NumSpec
      /\ drafts > 0 => n = 1 + drafts
  <2> HIDE DEF n
  <2> QED
    BY <1>1, <1>8
<1> HIDE DEF n, drafts
<1>10. Admitting(found, k, n, drafts, new)
  <2>1. new \in [1 .. NumNew(found, total, FALSE) -> Blocks]
    BY DEF Picks, FreeBlocks
  <2> QED
    BY <1>7, <1>8, <1>9, <2>1 DEF Admitting
<1>11. mgr'[r].blocks = s /\ mgr'[r].sweep = 0 /\ \A x \in Requests : x # r => mgr'[x] = mgr[x]
  <2> HIDE DEF k, tokens
  <2> QED
    BY <1>1, <1>4, <1>6
<1>12. /\ \A x \in Requests : x # r => req'[x] = req[x] /\ worker'[x] = worker[x]
       /\ worker'[r].pos = End(k) /\ req'[r].computed = End(k)
       /\ req'[r].tokens = req[r].tokens /\ req'[r].inflight = req[r].inflight
       /\ req'[r].placeholders = req[r].placeholders
  <2>1. \A x \in Requests : x # r => req'[x] = req[x] /\ worker'[x] = worker[x]
    BY <1>1, <1>2 DEF Rows
  <2>2. /\ req'[r].computed = End(k) /\ req'[r].tokens = req[r].tokens
        /\ req'[r].inflight = req[r].inflight /\ req'[r].placeholders = req[r].placeholders
    <3> HIDE DEF k
    <3> QED
      BY <1>1, <1>2, <1>3 DEF Req
  <2>3. worker'[r].pos = End(k)
    BY <1>1, <1>2, <1>3 DEF Rows, NoRow
  <2> QED
    BY <2>1, <2>2, <2>3
<1>13. /\ DOMAIN step' = DOMAIN step \union {r} /\ step'[r].n = n
       /\ \A x \in DOMAIN step : x # r => step'[x] = step[x]
  BY <1>2 DEF Scheduled, n
<1>14. /\ req[r].status \in {"waiting", "preempted"} /\ req[r].inflight = 0
       /\ req[r].placeholders = 0
  <2>1. req[r].status \in {"waiting", "preempted"} /\ req[r].stale = 0
    BY <1>2 DEF Admissible, MayResume
  <2>2. \E t \in Amount : Ahead(req[r], worker[r].pos, t)
    BY <1>1, <2>1 DEF Counters, CounterInv, Balanced
  <2> QED
    BY <2>1, <2>2 DEF Ahead
<1>15. PICK len \in Nat : len = Len(flights) /\ len < Depth
  BY <1>1, LenProperties DEF LimitInv, Limits, Room, Shape
<1>16. \A j \in 1 .. len : r \notin DOMAIN flights[j]
  BY <1>1, <1>14, <1>15, NotInFlight
<1>17. PICK d : d = req'[r]
  OBVIOUS
<1>18. /\ d.computed = End(k) /\ d.inflight = 0 /\ Lag(d) = req[r].tokens - End(k)
       /\ d.computed - d.inflight = End(k)
  <2>1. d.computed = End(k) /\ d.inflight = 0 /\ d.tokens = req[r].tokens /\ d.placeholders = 0
    BY <1>12, <1>14, <1>17
  <2>2. req[r].tokens + 0 - End(k) = req[r].tokens - End(k) /\ End(k) - 0 = End(k)
    BY <1>7, <1>8
  <2> QED
    BY <2>1, <2>2 DEF Lag
<1>19. PICK kept : kept = [j \in 0 .. len |-> End(k)]
  OBVIOUS
<1>20. Course(flights, d, End(k), r, kept, kept) /\ Certain(d, len, kept, kept, len)
  BY <1>7, <1>15, <1>16, <1>18, <1>19, IdleCourse
<1>21. /\ SpreadTo(s, total, kept, len)
       /\ n <= BlockSize => Spread(s, kept, len)
  BY <1>5, <1>10, <1>15, <1>19, AdmittedSpread
<1>22. /\ s \in Seq(AllBlocks) /\ Len(s) \in Nat /\ Len(s) >= k
       /\ \A i \in 1 .. k : s[i] = found[i]
  <2>1. LaidForFirst(found, k, n, drafts, 0, new, s)
    BY <1>5, <1>10, AdmittedLaid
  <2> QED
    BY <2>1 DEF LaidForFirst
<1>23. SweptTo(s, End(k)) /\ Cleared(s, 0, End(k))
  <2>1. Cdiv(End(k)) \in Int /\ Cdiv(End(k)) <= k /\ Cdiv(End(k)) >= 0
    <3>1. End(k) \in Int /\ k \in Int
      BY <1>7
    <3>2. End(k) <= End(k)
      BY <3>1
    <3>3. Cdiv(End(k)) \in Int /\ Cdiv(End(k)) <= k
      BY <3>1, <3>2, CdivEnd
    <3>4. Cdiv(End(k)) \in Nat
      BY <1>7, CdivNat
    <3> QED
      BY <3>3, <3>4
  <2>2. ASSUME NEW i \in 1 .. Len(s), i < Cdiv(End(k)) PROVE s[i] = Null
    <3>1. i \in 1 .. k /\ i # k
      BY <1>7, <2>1, <2>2
    <3>2. HitUsable(r, found)
      BY <1>2 DEF Admissible
    <3>3. found[i] = Null
      BY <1>1, <3>1, <3>2, HitEntries
    <3> QED
      BY <1>22, <3>1, <3>3
  <2>3. \A i \in 1 .. Len(s) : ~(i <= 0)
    OBVIOUS
  <2> QED
    BY <1>7, <2>1, <2>2, <2>3 DEF SweptTo, Cleared
<1> HIDE DEF k, total
<1>24. SpreadsTo(flights, d, End(k), r, s, total)
  BY <1>15, <1>20, <1>21 DEF SpreadsTo
<1>25. Bounded(s)
  BY <1>15, <1>18, <1>22, <1>23, <1>24, SpreadsBounded
<1>26. r \in DOMAIN step' /\ Top(r)' = total
  <2>1. req'[r].computed + step'[r].n = total
    BY <1>12, <1>13 DEF total
  <2> QED
    BY <1>13, <2>1 DEF Top
<1>27. Spaced(r)'
  <2>1. CASE Lag(d) > 1
    <3>1. SpreadsTo(flights', req'[r], worker'[r].pos, r, mgr'[r].blocks, Top(r)')
      BY <1>1, <1>11, <1>12, <1>17, <1>24, <1>26
    <3>2. Long(r)'
      BY <1>17, <1>26, <2>1 DEF Long
    <3> QED
      BY <3>1, <3>2 DEF Spaced, List
  <2>2. CASE ~(Lag(d) > 1)
    <3>1. n <= BlockSize
      <4>1. PICK e \in Int : e = req[r].tokens - End(k)
        BY <1>7, <1>8
      <4>2. e <= 1 /\ n <= e + drafts
        BY <1>8, <1>18, <2>2, <4>1 DEF k
      <4>3. NumSpec + 1 <= BlockSize /\ BlockSize \in Nat
        BY ManagerAssumption
      <4> QED
        BY <1>1, <1>8, <1>9, <4>2, <4>3
    <3>2. Spreads(flights, d, End(k), r, s)
      BY <1>15, <1>20, <1>21, <3>1 DEF Spreads
    <3>3. Spreads(flights', req'[r], worker'[r].pos, r, mgr'[r].blocks)
      BY <1>1, <1>11, <1>12, <1>17, <3>2
    <3>4. ~Long(r)'
      BY <1>17, <2>2 DEF Long
    <3> QED
      BY <3>3, <3>4 DEF Spaced, List
  <2> QED
    BY <2>1, <2>2
<1>28. Within(r)'
  <2>1. Bounded(List(r))'
    BY <1>11, <1>25 DEF List
  <2>2. Cleared(mgr'[r].blocks, mgr'[r].sweep, req'[r].computed - req'[r].inflight)
    BY <1>11, <1>17, <1>18, <1>23
  <2>3. Cleared(List(r), mgr[r].sweep, req[r].computed - req[r].inflight)'
    BY <2>2 DEF List
  <2> QED
    BY <1>27, <2>1, <2>3 DEF Within
<1> SUFFICES ASSUME NEW x \in Requests, x # r PROVE Within(x)'
  BY <1>28
<1>29. /\ mgr'[x] = mgr[x] /\ req'[x] = req[x] /\ worker'[x] = worker[x]
       /\ x \in DOMAIN step' <=> x \in DOMAIN step
       /\ x \in DOMAIN step => step'[x] = step[x]
  BY <1>11, <1>12, <1>13
<1> QED
  BY <1>1, <1>29, StillWithin DEF LimitInv, Limits

-----------------------------------------------------------------------------
(* A step is dispatched: the courses are continued by where it takes the   *)
(* request (`a' tokens kept) and how far the scheduler counts (`b' more).  *)
Continued(kept, len, end) == [k \in 0 .. len + 1 |-> IF k = len + 1 THEN end ELSE kept[k]]
Executed(fs, gs, q, d, pos, end, r, len, a, b) ==
  /\ len \in Nat /\ len = Len(fs) /\ Len(gs) = len + 1 /\ len < Depth
  /\ a \in Nat /\ b \in Nat /\ Share(gs[len + 1], r).kept = a
  /\ Share(gs[len + 1], r).rejected = b /\ \A k \in 1 .. len : gs[k] = fs[k]
  /\ q.computed \in Int /\ q.inflight \in Int /\ pos \in Int
  /\ d.computed = q.computed + (a + b) /\ d.inflight = q.inflight + (a + b) /\ end = pos + a

Longer(kept, kept2, len, end) ==
  /\ kept2 \in [0 .. len + 1 -> Int] /\ kept2[len + 1] = end
  /\ \A k \in 0 .. len : kept2[k] = kept[k] /\ kept[k] \in Int

LEMMA ContinuedType ==
  ASSUME NEW len \in Nat, NEW kept \in [0 .. len -> Int], NEW end \in Int
  PROVE  Longer(kept, Continued(kept, len, end), len, end)
<1>1. \A k \in 0 .. len + 1 : k # len + 1 => k \in 0 .. len
  OBVIOUS
<1>2. \A k \in 0 .. len + 1 : (IF k = len + 1 THEN end ELSE kept[k]) \in Int
  BY <1>1
<1>3. Continued(kept, len, end) \in [0 .. len + 1 -> Int]
  BY <1>2 DEF Continued
<1>4. len + 1 \in 0 .. len + 1 /\ \A k \in 0 .. len : k \in 0 .. len + 1 /\ k # len + 1
  OBVIOUS
<1> QED
  BY <1>3, <1>4 DEF Continued, Longer

LEMMA CourseContinued ==
  ASSUME NEW fs, NEW gs, NEW q, NEW d, NEW pos, NEW end, NEW r, NEW len, NEW a, NEW b,
         Executed(fs, gs, q, d, pos, end, r, len, a, b), NEW kept, NEW counted,
         Course(fs, q, pos, r, kept, counted)
  PROVE  Course(gs, d, end, r, Continued(kept, len, end), Continued(counted, len, d.computed))
<1>1. /\ len \in Nat /\ len = Len(fs) /\ Len(gs) = len + 1 /\ a \in Nat /\ b \in Nat
      /\ Share(gs[len + 1], r).kept = a /\ Share(gs[len + 1], r).rejected = b
      /\ \A k \in 1 .. len : gs[k] = fs[k]
      /\ q.computed \in Int /\ q.inflight \in Int /\ pos \in Int
      /\ d.computed = q.computed + (a + b) /\ d.inflight = q.inflight + (a + b)
      /\ end = pos + a
  BY DEF Executed
<1>2. /\ kept \in [0 .. len -> Int] /\ counted \in [0 .. len -> Int]
      /\ kept[0] = q.computed - q.inflight /\ counted[0] = kept[0] /\ kept[0] >= 0
      /\ kept[len] = pos /\ counted[len] = q.computed
      /\ \A k \in 1 .. len :
           /\ kept[k] = kept[k - 1] + Share(fs[k], r).kept
           /\ counted[k] = counted[k - 1] + Share(fs[k], r).kept + Share(fs[k], r).rejected
  BY <1>1 DEF Course
<1>3. PICK kept2, counted2 : /\ kept2 = Continued(kept, len, end)
                             /\ counted2 = Continued(counted, len, d.computed)
  OBVIOUS
<1>4. end \in Int /\ d.computed \in Int
  BY <1>1
<1>5. /\ kept2 \in [0 .. len + 1 -> Int] /\ kept2[len + 1] = end
      /\ counted2 \in [0 .. len + 1 -> Int] /\ counted2[len + 1] = d.computed
      /\ \A k \in 0 .. len : kept2[k] = kept[k] /\ counted2[k] = counted[k]
  <2>1. len \in Nat /\ kept \in [0 .. len -> Int] /\ counted \in [0 .. len -> Int]
    BY <1>1, <1>2
  <2>2. Longer(kept, Continued(kept, len, end), len, end)
    BY <1>4, <2>1, ContinuedType
  <2>3. Longer(counted, Continued(counted, len, d.computed), len, d.computed)
    BY <1>4, <2>1, ContinuedType
  <2> QED
    BY <1>3, <2>2, <2>3 DEF Longer
<1>6. 0 \in 0 .. len /\ len \in 0 .. len
  BY <1>1
<1>7. kept2[0] = d.computed - d.inflight /\ counted2[0] = kept2[0] /\ kept2[0] >= 0
  <2>1. d.computed - d.inflight = q.computed - q.inflight
    <3>1. PICK e \in Int, c \in Int, i \in Int : e = a + b /\ c = q.computed /\ i = q.inflight
      BY <1>1
    <3>2. d.computed - d.inflight = (c + e) - (i + e)
      BY <1>1, <3>1
    <3> QED
      BY <3>1, <3>2
  <2> QED
    BY <1>2, <1>5, <1>6, <2>1
<1>8. ASSUME NEW k \in 1 .. len + 1
      PROVE  /\ kept2[k] = kept2[k - 1] + Share(gs[k], r).kept
             /\ counted2[k] = counted2[k - 1] + Share(gs[k], r).kept + Share(gs[k], r).rejected
  <2>1. CASE k = len + 1
    <3>1. k - 1 = len
      BY <1>1, <2>1
    <3>2. kept2[k - 1] = pos /\ counted2[k - 1] = q.computed
      BY <1>2, <1>5, <1>6, <3>1
    <3>3. q.computed + (a + b) = q.computed + a + b
      BY <1>1
    <3> QED
      BY <1>1, <1>5, <2>1, <3>2, <3>3
  <2>2. CASE k # len + 1
    <3>1. k \in 1 .. len /\ k \in 0 .. len /\ k - 1 \in 0 .. len
      BY <1>1, <2>2
    <3> QED
      BY <1>1, <1>2, <1>5, <3>1
  <2> QED
    BY <2>1, <2>2
<1>9. Course(gs, d, end, r, kept2, counted2)
  BY <1>1, <1>5, <1>7, <1>8 DEF Course
<1> QED
  BY <1>3, <1>9

(* A step of the prompt.                                                   *)
LEMMA PromptContinued ==
  ASSUME NEW fs, NEW gs, NEW q, NEW d, NEW pos, NEW end, NEW r, NEW len, NEW a, NEW b,
         Executed(fs, gs, q, d, pos, end, r, len, a, b), b = 0, pos = q.computed,
         NEW s, Len(s) \in Nat, Lag(q) > 1, SpreadsTo(fs, q, pos, r, s, end)
  PROVE  Spreads(gs, d, end, r, s)
<1>1. /\ len \in Nat /\ len = Len(fs) /\ Len(gs) = len + 1 /\ a \in Nat
      /\ q.computed \in Int /\ pos \in Int /\ end = pos + a /\ end \in Int /\ len < Depth
      /\ d.computed = end
  BY DEF Executed
<1>2. PICK kept, counted, m : /\ Course(fs, q, pos, r, kept, counted)
                              /\ Certain(q, len, kept, counted, m)
                              /\ SpreadTo(s, end, kept, m)
  BY <1>1 DEF SpreadsTo
<1>3. PICK kept2, counted2 : /\ kept2 = Continued(kept, len, end)
                             /\ counted2 = Continued(counted, len, d.computed)
  OBVIOUS
<1>4. Course(gs, d, end, r, kept2, counted2)
  BY <1>2, <1>3, CourseContinued
<1>5. kept \in [0 .. len -> Int] /\ counted \in [0 .. len -> Int]
  BY <1>1, <1>2 DEF Course
<1>6. /\ kept2[len + 1] = end /\ counted2[len + 1] = end
      /\ \A k \in 0 .. len : kept2[k] = kept[k] /\ counted2[k] = counted[k] /\ kept[k] \in Int
  <2>1. len \in Nat /\ end \in Int /\ d.computed = end
    BY <1>1
  <2>2. Longer(kept, Continued(kept, len, end), len, end)
    BY <1>5, <2>1, ContinuedType
  <2>3. Longer(counted, Continued(counted, len, end), len, end)
    BY <1>5, <2>1, ContinuedType
  <2> QED
    BY <1>3, <2>1, <2>2, <2>3 DEF Longer
<1>7. m = len /\ \A k \in 0 .. len : counted[k] = kept[k]
  BY <1>2 DEF Certain
<1>8. Certain(d, len + 1, kept2, counted2, len + 1)
  <2>1. \A k \in 0 .. len + 1 : k = len + 1 \/ k \in 0 .. len
    BY <1>1
  <2>2. \A k \in 0 .. len + 1 : counted2[k] = kept2[k]
    BY <1>6, <1>7, <2>1
  <2>3. ASSUME NEW k \in len + 1 .. len + 1
        PROVE  counted2[k] <= d.computed
               /\ d.computed - counted2[k] <= ((len + 1) - k) * BlockSize
    <3>1. k = len + 1 /\ counted2[k] = d.computed
      BY <1>1, <1>6
    <3>2. ((len + 1) - (len + 1)) * BlockSize = 0
      BY <1>1, ManagerAssumption
    <3>3. d.computed <= d.computed /\ d.computed - d.computed = 0
      BY <1>1
    <3> QED
      BY <3>1, <3>2, <3>3
  <2>4. len + 1 \in 0 .. len + 1
    BY <1>1
  <2> QED
    BY <2>2, <2>3, <2>4 DEF Certain
<1>9. Spread(s, kept2, len + 1)
  <2>1. /\ Len(s) - NumSpec = Cdiv(end) /\ Cdiv(end) \in Int
        /\ \A i \in 1 .. Len(s) - NumSpec : s[i] # Null => Needed(i, kept, len) \/ i = Cdiv(end)
    BY <1>1, <1>2, <1>7, CdivInt DEF SpreadTo
  <2>2. Len(s) - NumSpec <= Cdiv(kept2[len + 1]) + (Depth - (len + 1))
    <3>1. Cdiv(end) <= Cdiv(end) + (Depth - (len + 1))
      BY <1>1, <2>1, ServingAssumption
    <3> QED
      BY <1>6, <2>1, <3>1
  <2>3. ASSUME NEW i, Needed(i, kept, len) \/ i = Cdiv(end) PROVE Needed(i, kept2, len + 1)
    <3>1. \A k \in 1 .. len : k \in 0 .. len /\ k \in 1 .. len + 1
      BY <1>1
    <3>2. 0 \in 0 .. len /\ len + 1 \in 1 .. len + 1
      BY <1>1
    <3>3. kept2[0] = kept[0] /\ \A k \in 1 .. len : kept2[k] = kept[k]
      BY <1>6, <3>1, <3>2
    <3>4. CASE i <= Cdiv(kept[0])
      BY <3>3, <3>4 DEF Needed
    <3>5. CASE \E k \in 1 .. len : i = Cdiv(kept[k])
      BY <3>1, <3>3, <3>5 DEF Needed
    <3>6. CASE i = Cdiv(end)
      BY <1>6, <3>2, <3>6 DEF Needed
    <3> QED
      BY <2>3, <3>4, <3>5, <3>6 DEF Needed
  <2> QED
    BY <2>1, <2>2, <2>3 DEF Spread
<1> QED
  BY <1>1, <1>4, <1>8, <1>9 DEF Spreads

(* A step that decodes, or none.                                           *)
LEMMA DecodeContinued ==
  ASSUME NEW fs, NEW gs, NEW q, NEW d, NEW pos, NEW end, NEW r, NEW len, NEW a, NEW b,
         Executed(fs, gs, q, d, pos, end, r, len, a, b), a + b <= BlockSize,
         NEW s, ~(Lag(d) > 1), Spreads(fs, q, pos, r, s)
  PROVE  Spreads(gs, d, end, r, s)
<1>1. /\ len \in Nat /\ len = Len(fs) /\ Len(gs) = len + 1 /\ a \in Nat /\ b \in Nat
      /\ q.computed \in Int /\ pos \in Int /\ end = pos + a /\ end \in Int
      /\ d.computed = q.computed + (a + b) /\ d.computed \in Int
  BY DEF Executed
<1>2. PICK kept, counted, m : /\ Course(fs, q, pos, r, kept, counted)
                              /\ Certain(q, len, kept, counted, m)
                              /\ Spread(s, kept, m)
  BY <1>1 DEF Spreads
<1>3. PICK kept2, counted2 : /\ kept2 = Continued(kept, len, end)
                             /\ counted2 = Continued(counted, len, d.computed)
  OBVIOUS
<1>4. Course(gs, d, end, r, kept2, counted2)
  BY <1>2, <1>3, CourseContinued
<1>5. kept \in [0 .. len -> Int] /\ counted \in [0 .. len -> Int]
  BY <1>1, <1>2 DEF Course
<1>6. /\ counted2[len + 1] = d.computed
      /\ \A k \in 0 .. len : kept2[k] = kept[k] /\ counted2[k] = counted[k]
                             /\ counted[k] \in Int
  <2>1. len \in Nat /\ end \in Int /\ d.computed \in Int
    BY <1>1
  <2>2. Longer(kept, Continued(kept, len, end), len, end)
    BY <1>5, <2>1, ContinuedType
  <2>3. Longer(counted, Continued(counted, len, d.computed), len, d.computed)
    BY <1>5, <2>1, ContinuedType
  <2> QED
    BY <1>3, <2>2, <2>3 DEF Longer
<1>7. /\ m \in 0 .. len /\ \A k \in 0 .. m : counted[k] = kept[k]
      /\ \A k \in m .. len : counted[k] <= q.computed
                             /\ q.computed - counted[k] <= (len - k) * BlockSize
  BY <1>2 DEF Certain
<1>8. /\ \A k \in 0 .. m : k \in 0 .. len
      /\ \A k \in m .. len : k \in 0 .. len
      /\ m \in 0 .. len + 1 /\ m \in 0 .. m /\ 0 \in 0 .. m
      /\ \A k \in m .. len + 1 : k = len + 1 \/ k \in m .. len
  BY <1>1, <1>7
<1>9. Certain(d, len + 1, kept2, counted2, m)
  <2>1. \A k \in 0 .. m : counted2[k] = kept2[k]
    BY <1>6, <1>7, <1>8
  <2>2. ASSUME NEW k \in m .. len + 1
        PROVE  counted2[k] <= d.computed
               /\ d.computed - counted2[k] <= ((len + 1) - k) * BlockSize
    <3>1. CASE k = len + 1
      <4>1. ((len + 1) - (len + 1)) * BlockSize = 0
        BY <1>1, ManagerAssumption
      <4>2. d.computed <= d.computed /\ d.computed - d.computed = 0
        BY <1>1
      <4> QED
        BY <1>6, <3>1, <4>1, <4>2
    <3>2. CASE k \in m .. len
      <4>1. PICK c \in Int, x \in Int, j \in Nat : c = q.computed /\ x = counted[k] /\ j = len - k
        <5>1. k \in 0 .. len /\ len - k \in Nat
          BY <1>1, <1>7, <3>2
        <5>2. counted[k] \in Int
          BY <1>6, <5>1
        <5> QED
          BY <1>1, <5>1, <5>2
      <4>2. BlockSize \in Nat
        BY ManagerAssumption
      <4>3. j * BlockSize \in Int /\ (j + 1) * BlockSize = j * BlockSize + BlockSize
        BY <4>2
      <4>4. x <= c /\ c - x <= j * BlockSize
        BY <1>7, <3>2, <4>1
      <4>5. PICK e \in Nat, y \in Int : e = a + b /\ y = j * BlockSize
        <5>1. a + b \in Nat
          BY <1>1
        <5> QED
          BY <4>3, <5>1
      <4>6. e <= BlockSize /\ c - x <= y
        BY <4>4, <4>5
      <4>7. x <= c + e /\ (c + e) - x <= y + BlockSize
        BY <4>2, <4>4, <4>6
      <4>8. (len + 1) - k = j + 1
        BY <1>1, <3>2, <4>1
      <4>9. counted2[k] = x /\ d.computed = c + e
        BY <1>1, <1>6, <1>8, <3>2, <4>1, <4>5
      <4> QED
        BY <4>3, <4>5, <4>7, <4>8, <4>9
    <3> QED
      BY <1>8, <3>1, <3>2
  <2> QED
    BY <1>8, <2>1, <2>2 DEF Certain
<1>10. Spread(s, kept2, m)
  <2>1. \A k \in 0 .. m : kept2[k] = kept[k]
    BY <1>6, <1>8
  <2>2. kept2[0] = kept[0] /\ kept2[m] = kept[m] /\ \A k \in 1 .. m : kept2[k] = kept[k]
    <3>1. \A k \in 1 .. m : k \in 0 .. m
      BY <1>7
    <3> QED
      BY <1>8, <2>1, <3>1
  <2> QED
    BY <1>2, <2>2 DEF Spread, Needed
<1> QED
  BY <1>1, <1>4, <1>9, <1>10 DEF Spreads

(* What the step that is dispatched does to each running request.          *)
Flown(accepted) ==
  /\ \A r \in DOMAIN step :
       /\ accepted[r] \in 0 .. step[r].drafts /\ worker'[r].pos = Sure(r) + accepted[r]
       /\ req'[r] = AdvancedReq(r)
  /\ \A x \in Requests : x \notin DOMAIN step => worker'[x] = worker[x] /\ req'[x] = req[x]
  /\ Len(flights) \in Nat /\ Len(flights') = Len(flights) + 1
  /\ \A k \in 1 .. Len(flights) : flights'[k] = flights[k]
  /\ \A r \in DOMAIN step :
       /\ Share(flights'[Len(flights) + 1], r).rejected = step[r].drafts - accepted[r]
       /\ Share(flights'[Len(flights) + 1], r).kept = step[r].n - (step[r].drafts - accepted[r])
  /\ \A x \in Requests : x \notin DOMAIN step => Share(flights'[Len(flights) + 1], x) = Nil

LEMMA DispatchFlown ==
  ASSUME BlockInv, Dispatch
  PROVE  \E accepted : Flown(accepted)
<1>1. PICK accepted \in Acceptances :
        /\ worker' = [r \in Requests |-> IF r \in DOMAIN step THEN NextRow(r, accepted[r])
                                         ELSE worker[r]]
        /\ flights' =
             Append(flights,
                    [r \in DOMAIN step |->
                       [n |-> step[r].n, rejected |-> step[r].drafts - accepted[r],
                        sampled |-> IF IsChunk(r) THEN 0 ELSE 1 + accepted[r]]])
        /\ req' = [r \in Requests |-> IF r \in DOMAIN step THEN AdvancedReq(r) ELSE req[r]]
  BY DEF Dispatch
<1>2. \A r \in DOMAIN step : r \in Requests /\ step[r].drafts \in Nat
  BY StepCounts DEF BlockInv
<1>3. ASSUME NEW r \in DOMAIN step PROVE accepted[r] \in 0 .. step[r].drafts
  <2>1. accepted[r] \in 0 .. NumSpec /\ accepted[r] <= IF step[r].padded THEN 0 ELSE step[r].drafts
    BY DEF Acceptances
  <2>2. accepted[r] \in Int /\ accepted[r] >= 0 /\ step[r].drafts \in Nat
    BY <1>2, <2>1, ManagerAssumption
  <2> QED
    BY <2>1, <2>2
<1>4. PICK f : /\ f = [r \in DOMAIN step |->
                         [n |-> step[r].n, rejected |-> step[r].drafts - accepted[r],
                          sampled |-> IF IsChunk(r) THEN 0 ELSE 1 + accepted[r]]]
               /\ flights' = Append(flights, f)
  BY <1>1
<1>5. flights \in Seq(Partial(Output)) /\ Len(flights) \in Nat
  BY LenProperties DEF BlockInv, CounterInv, ServingInv, Shape
<1>6. /\ Len(flights') = Len(flights) + 1 /\ flights'[Len(flights) + 1] = f
      /\ \A k \in 1 .. Len(flights) : flights'[k] = flights[k]
  BY <1>4, <1>5
<1>7. DOMAIN f = DOMAIN step
      /\ \A r \in DOMAIN step : /\ f[r].n = step[r].n
                                /\ f[r].rejected = step[r].drafts - accepted[r]
  BY <1>4
<1>8. \A r \in DOMAIN step : /\ Share(f, r).rejected = step[r].drafts - accepted[r]
                             /\ Share(f, r).kept = step[r].n - (step[r].drafts - accepted[r])
  BY <1>7 DEF Share
<1>9. \A x \in Requests : x \notin DOMAIN step => Share(f, x) = Nil
  BY <1>7 DEF Share
<1>10. /\ \A r \in DOMAIN step : worker'[r].pos = Sure(r) + accepted[r] /\ req'[r] = AdvancedReq(r)
       /\ \A x \in Requests : x \notin DOMAIN step => worker'[x] = worker[x] /\ req'[x] = req[x]
  BY <1>1, <1>2 DEF NextRow
<1>11. Flown(accepted)
  BY <1>3, <1>5, <1>6, <1>8, <1>9, <1>10 DEF Flown
<1> QED
  BY <1>11

LEMMA FlownExecuted ==
  ASSUME LimitInv, phase = "dispatch", NEW accepted, Flown(accepted),
         NEW x \in Requests, req[x].status = "running"
  PROVE  \E a, b : /\ Executed(flights, flights', req[x], req'[x], worker[x].pos,
                               worker'[x].pos, x, Len(flights), a, b)
                   /\ x \in DOMAIN step =>
                        b <= step[x].drafts /\ a + b = step[x].n
                   /\ x \notin DOMAIN step => a = 0 /\ b = 0
<1>1. /\ CounterInv /\ Shape /\ Len(flights) \in Nat /\ Len(flights) < Depth
      /\ req[x].computed \in Int /\ req[x].inflight \in Int /\ worker[x].pos \in Int
  BY ReqFields DEF LimitInv, Limits, Room, BlockInv, CounterInv, Counters, Rows, ServingInv,
                   Shape, Flown
<1>2. CASE x \in DOMAIN step
  <2>1. PICK n \in Nat, t \in Nat, c \in Nat :
          /\ n = step[x].n /\ t = step[x].drafts /\ c = accepted[x] /\ t < n /\ c <= t
    <3>1. step[x].n \in Nat /\ step[x].drafts \in Nat /\ step[x].drafts < step[x].n
      BY <1>1, <1>2, StepCounts
    <3>2. accepted[x] \in 0 .. step[x].drafts
      BY <1>2 DEF Flown
    <3> QED
      BY <3>1, <3>2
  <2>2. PICK a \in Nat, b \in Nat : b = t - c /\ a = n - (t - c)
    <3>1. t - c \in Nat /\ n - (t - c) \in Nat
      BY <2>1
    <3> QED
      BY <3>1
  <2>3. a + b = n /\ b <= t
    BY <2>1, <2>2
  <2>4. Share(flights'[Len(flights) + 1], x).kept = a
        /\ Share(flights'[Len(flights) + 1], x).rejected = b
    BY <1>2, <2>1, <2>2 DEF Flown
  <2>5. req'[x].computed = req[x].computed + (a + b) /\ req'[x].inflight = req[x].inflight + (a + b)
    <3>1. req'[x] = AdvancedReq(x)
      BY <1>2 DEF Flown
    <3> QED
      BY <1>1, <1>2, <2>1, <2>3, <3>1, AdvancedFields
  <2>6. worker'[x].pos = worker[x].pos + a
    <3>1. worker'[x].pos = worker[x].pos + n - t + c
      BY <1>2, <2>1 DEF Flown, Sure
    <3>2. PICK w \in Int : w = worker[x].pos
      BY <1>1
    <3>3. w + n - t + c = w + a
      BY <2>1, <2>2
    <3> QED
      BY <3>1, <3>2, <3>3
  <2>7. Executed(flights, flights', req[x], req'[x], worker[x].pos,
                 worker'[x].pos, x, Len(flights), a, b)
    BY <1>1, <2>4, <2>5, <2>6 DEF Executed, Flown
  <2> QED
    BY <1>2, <2>1, <2>3, <2>7
<1>3. CASE x \notin DOMAIN step
  <2>1. Share(flights'[Len(flights) + 1], x) = Nil
        /\ worker'[x] = worker[x] /\ req'[x] = req[x]
    BY <1>3 DEF Flown
  <2>2. Executed(flights, flights', req[x], req'[x], worker[x].pos,
                 worker'[x].pos, x, Len(flights), 0, 0)
    BY <1>1, <2>1, NilAmount DEF Executed, Flown
  <2> QED
    BY <1>3, <2>2
<1> QED
  BY <1>2, <1>3

(* Nothing of a prompt is scheduled: the list is as long as the part       *)
(* before it needs.                                                        *)
LEMMA WaitingSpread ==
  ASSUME LimitInv, NEW x \in Requests, req[x].status = "running", x \notin DOMAIN step,
         Lag(req[x]) > 1
  PROVE  /\ SpreadsTo(flights, req[x], worker[x].pos, x, List(x), worker[x].pos)
         /\ worker[x].pos = req[x].computed
<1>1. /\ BlockInv /\ CounterInv /\ Within(x) /\ NumSpec \in Nat /\ Len(flights) \in Nat
  BY LenProperties, ManagerAssumption
     DEF LimitInv, Limits, BlockInv, CounterInv, ServingInv, Shape
<1>2. /\ worker[x].pos = req[x].computed /\ worker[x].pos \in Int
      /\ req[x].tokens \in Int /\ req[x].placeholders \in Int /\ req[x].computed \in Int
  BY <1>1, RunningCounts
<1>3. Laid(List(x), worker[x].table, worker[x].pos, SureOf(x), Top(x), Lacks(x))
  BY <1>1 DEF BlockInv, Lists
<1>4. Top(x) = worker[x].pos /\ Lacks(x) > 1
  <2>1. Top(x) = req[x].computed
    BY DEF Top
  <2> QED
    BY <1>2, <2>1 DEF Lacks, Lag
<1>5. Len(List(x)) = NumSpec + Cdiv(worker[x].pos)
  BY <1>3, <1>4 DEF Laid
<1>6. PICK kept, counted, m : /\ Course(flights, req[x], worker[x].pos, x, kept, counted)
                              /\ Certain(req[x], Len(flights), kept, counted, m)
                              /\ Spread(List(x), kept, m)
  BY <1>1 DEF Within, Spaced, Long, Spreads
<1>7. m = Len(flights) /\ kept[m] = worker[x].pos
  BY <1>6 DEF Certain, Course
<1>8. SpreadTo(List(x), worker[x].pos, kept, m)
  <2>1. PICK c \in Int : c = Cdiv(worker[x].pos)
    BY <1>2, CdivInt
  <2>2. Len(List(x)) - NumSpec = c
    BY <1>1, <1>5, <2>1
  <2>3. \A i \in 1 .. Len(List(x)) - NumSpec : ~(i > c)
    BY <2>2
  <2>4. \A i \in 1 .. Len(List(x)) - NumSpec :
          List(x)[i] # Null => Needed(i, kept, m)
    BY <1>6, <1>7, <2>1, <2>3 DEF Spread
  <2> QED
    BY <2>1, <2>2, <2>4 DEF SpreadTo
<1> QED
  BY <1>2, <1>6, <1>8 DEF SpreadsTo

LEMMA DispatchWithin ==
  ASSUME LimitInv, Dispatch
  PROVE  \A x \in Requests : Within(x)'
<1>1. /\ BlockInv /\ CounterInv /\ Shape /\ NumSpec \in Nat /\ phase = "dispatch"
      /\ NumSpec + 1 <= BlockSize /\ BlockSize \in Nat
      /\ mgr' = mgr /\ DOMAIN step' = {} /\ Len(flights) \in Nat
  BY ManagerAssumption, LenProperties
     DEF LimitInv, BlockInv, CounterInv, ServingInv, Shape, Dispatch, ResetPass
<1>2. PICK accepted : Flown(accepted)
  BY <1>1, DispatchFlown
<1> SUFFICES ASSUME NEW x \in Requests PROVE Within(x)'
  OBVIOUS
<1>3. Within(x) /\ List(x)' = List(x) /\ mgr'[x].sweep = mgr[x].sweep /\ Len(List(x)) \in Nat
  <2>1. Len(List(x)) \in Nat
    BY <1>1, MgrFields DEF Shape, List
  <2> QED
    BY <1>1, <2>1 DEF LimitInv, Limits, List
<1>4. Bounded(List(x))'
  BY <1>3 DEF Within
<1>5. ASSUME req'[x].status = "running" PROVE req[x].status = "running"
  <2>1. x \in DOMAIN step => req'[x].status = req[x].status
    BY <1>1, <1>2, AdvancedFields DEF Flown
  <2> QED
    BY <1>2, <1>5, <2>1 DEF Flown
<1>6. ASSUME req[x].status = "running"
      PROVE  /\ Spaced(x)'
             /\ Cleared(List(x)', mgr'[x].sweep, req'[x].computed - req'[x].inflight)
  <2>1. PICK a, b : /\ Executed(flights, flights', req[x], req'[x], worker[x].pos,
                                worker'[x].pos, x, Len(flights), a, b)
                    /\ x \in DOMAIN step => b <= step[x].drafts /\ a + b = step[x].n
                    /\ x \notin DOMAIN step => a = 0 /\ b = 0
    BY <1>1, <1>2, <1>6, FlownExecuted
  <2>2. /\ a \in Nat /\ b \in Nat /\ req[x].computed \in Int /\ req[x].inflight \in Int
        /\ req'[x].computed = req[x].computed + (a + b)
        /\ req'[x].inflight = req[x].inflight + (a + b)
        /\ worker'[x].pos = worker[x].pos + a /\ worker[x].pos \in Int
    BY <2>1 DEF Executed
  <2>3. req'[x].computed - req'[x].inflight = req[x].computed - req[x].inflight
    <3>1. PICK e \in Int, c \in Int, i \in Int : e = a + b /\ c = req[x].computed /\ i = req[x].inflight
      BY <2>2
    <3>2. (c + e) - (i + e) = c - i
      OBVIOUS
    <3> QED
      BY <2>2, <3>1, <3>2
  <2>4. Cleared(List(x)', mgr'[x].sweep, req'[x].computed - req'[x].inflight)
    BY <1>3, <1>6, <2>3 DEF Within
  <2>5. ~Long(x)'
    BY <1>1 DEF Long
  <2>6. Lag(req[x]) \in Int /\ Lag(req[x]) >= 1
    BY <1>1, <1>6, RunningCounts
  <2>7. ASSUME x \in DOMAIN step, Lag(req[x]) > 1
        PROVE  Spreads(flights', req'[x], worker'[x].pos, x, List(x))
    <3>1. /\ worker[x].pos = req[x].computed /\ step[x].drafts \in Nat
          /\ ~(step[x].drafts > 0) /\ Top(x) = req[x].computed + step[x].n
          /\ step[x].n \in Nat
      BY <1>1, <2>6, <2>7, StepCounts
    <3>2. b = 0 /\ worker'[x].pos = Top(x)
      BY <2>1, <2>2, <2>7, <3>1
    <3>3. SpreadsTo(flights, req[x], worker[x].pos, x, List(x), worker'[x].pos)
      BY <1>3, <1>6, <2>7, <3>2 DEF Within, Spaced, Long
    <3> QED
      BY <1>3, <2>1, <2>7, <3>1, <3>2, <3>3, PromptContinued
  <2>8. ASSUME x \notin DOMAIN step, Lag(req[x]) > 1
        PROVE  Spreads(flights', req'[x], worker'[x].pos, x, List(x))
    <3>1. /\ SpreadsTo(flights, req[x], worker[x].pos, x, List(x), worker[x].pos)
          /\ worker[x].pos = req[x].computed
      BY <1>6, <2>8, WaitingSpread
    <3>2. b = 0 /\ worker'[x].pos = worker[x].pos
      BY <2>1, <2>2, <2>8
    <3> QED
      BY <1>3, <2>1, <2>8, <3>1, <3>2, PromptContinued
  <2>9. ASSUME ~(Lag(req[x]) > 1)
        PROVE  Spreads(flights', req'[x], worker'[x].pos, x, List(x))
    <3>1. Spreads(flights, req[x], worker[x].pos, x, List(x))
      BY <1>3, <1>6, <2>9 DEF Within, Spaced, Long
    <3>2. a + b <= BlockSize /\ ~(Lag(req'[x]) > 1)
      <4>1. CASE x \in DOMAIN step
        <5>1. /\ step[x].n \in Nat /\ step[x].drafts \in Nat /\ step[x].drafts <= NumSpec
              /\ step[x].n <= Lag(req[x]) + step[x].drafts
              /\ ~IsChunk(x) => step[x].n = Lag(req[x]) + step[x].drafts
              /\ IsChunk(x) <=> Lacks(x) > 0
              /\ step[x].drafts < step[x].n
          BY <1>1, <4>1, StepCounts
        <5>2. Lag(req[x]) = 1 /\ step[x].n = 1 + step[x].drafts
          BY <2>6, <2>9, <5>1
        <5>3. a + b <= BlockSize
          BY <1>1, <2>1, <2>2, <4>1, <5>1, <5>2
        <5>4. /\ req[x].tokens \in Int /\ req[x].placeholders \in Int
              /\ req[x].tokens + req[x].placeholders - req[x].computed = 1
          BY <1>1, <2>2, <5>2, ReqFields DEF Shape, Lag
        <5>5. ~IsChunk(x)
          BY <2>2, <5>1, <5>2, <5>4 DEF IsChunk
        <5>6. /\ req'[x].tokens = req[x].tokens
              /\ req'[x].placeholders = req[x].placeholders + 1 + step[x].drafts
              /\ req'[x].computed = req[x].computed + step[x].n
          BY <1>1, <1>2, <4>1, <5>5, AdvancedFields DEF Flown
        <5>7. Lag(req'[x]) = 1
          BY <2>2, <5>1, <5>2, <5>4, <5>6 DEF Lag
        <5> QED
          BY <5>3, <5>7
      <4>2. CASE x \notin DOMAIN step
        BY <1>1, <1>2, <2>1, <2>9, <4>2 DEF Flown
      <4> QED
        BY <4>1, <4>2
    <3> QED
      BY <2>1, <3>1, <3>2, DecodeContinued
  <2>10. Spreads(flights', req'[x], worker'[x].pos, x, List(x)')
    BY <1>3, <2>7, <2>8, <2>9
  <2>11. Spaced(x)'
    BY <2>5, <2>10 DEF Spaced
  <2> QED
    BY <2>4, <2>11
<1>7. Cleared(List(x), mgr[x].sweep, req[x].computed - req[x].inflight)'
        <=> Cleared(List(x)', mgr'[x].sweep, req'[x].computed - req'[x].inflight)
  OBVIOUS
<1> QED
  BY <1>4, <1>5, <1>6, <1>7 DEF Within

-----------------------------------------------------------------------------
LEMMA StepWithin ==
  ASSUME LimitInv, BlockInv', [Next]_vars
  PROVE  \A x \in Requests : Within(x)'
<1>1. CounterInv /\ Limits /\ BlockInv
  BY DEF LimitInv, BlockInv
<1>2. CASE \/ StartPass \/ SkipRunning \/ EndRunning \/ EndAdmission \/ DispatchNothing
           \/ AllDone \/ UNCHANGED vars
           \/ \E r \in Requests : Arrive(r)
  BY <1>1, <1>2, QuietWithin
<1>3. CASE Grow
  BY <1>3, GrowWithin
<1>4. CASE PreemptLast
  BY <1>4, PreemptWithin
<1>5. CASE \E r \in Requests : Admit(r)
  BY <1>5, AdmitWithin
<1>6. CASE Dispatch
  BY <1>6, DispatchWithin
<1>7. CASE \E r \in Requests : Abort(r)
  BY <1>1, <1>7, AbortWithin
<1>8. CASE \E r \in Requests : Update(r)
  BY <1>8, UpdateGoneWithin, UpdateChunkWithin, UpdateTokensWithin DEF Update
<1> QED
  BY <1>2, <1>3, <1>4, <1>5, <1>6, <1>7, <1>8 DEF Next, Pass

LEMMA StepLimits ==
  ASSUME LimitInv, BlockInv', [Next]_vars
  PROVE  Limits'
<1>1. Room'
  BY StepRoom DEF LimitInv, Limits, BlockInv, RefInv, CounterInv, ServingInv
<1>2. \A x \in Requests : Within(x)'
  BY StepWithin
<1> QED
  BY <1>1, <1>2 DEF Limits

LEMMA LimitInvariant == Spec => []LimitInv
<1>1. Init => Limits
  BY InitLimits
<1>2. BlockInv /\ Limits /\ BlockInv' /\ [Next]_vars => Limits'
  BY StepLimits DEF LimitInv
<1> QED
  BY <1>1, <1>2, BlockInvariant, PTL DEF Spec, LimitInv

(* However long its prompt and however deep the pipeline, no request holds *)
(* more than a block for each step there can be in flight, one for the     *)
(* last state processed and the speculative ones, over prefill chunks,     *)
(* rejected drafts, preemption and prefix hits: remove_skipped_blocks      *)
(* gives back in time what the moving states leave.                        *)
THEOREM HeldAlwaysBounded == Spec => []HeldBound
<1>1. LimitInv => HeldBound
  BY DEF LimitInv, Limits, Within, Bounded, HeldBound, List
<1> QED
  BY <1>1, LimitInvariant, PTL
=============================================================================
