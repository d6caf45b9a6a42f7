------------------------------ MODULE LruCache ------------------------------
(***************************************************************************)
(* The expert cache of one layer during decode: the calls of apply that    *)
(* take the LRU path, on the compute stream and, for batches of four       *)
(* tokens, a side stream that copies the down-projection rows while the    *)
(* up-projection runs (staging_runtime.py).                                *)
(*                                                                         *)
(* The update of the cache map is a single GPU block, in two forms:        *)
(* _update_lru_expert_map_kernel takes the requested experts one after the *)
(* other; lru_map.py computes the same from sorted ages.  A map state has  *)
(* the slot of each global expert (map), the expert of each slot (ids),    *)
(* the time of its last use (ages) and the clock.  The result also lists,  *)
(* per request, the expert to copy and its slot.  Ages are signed words of *)
(* Half * 2 values and wrap.                                               *)
(***************************************************************************)
EXTENDS Integers, Sequences, FiniteSets

CONSTANTS
  NumExperts,   \* experts of all ranks, from 0 (hot_map.numel())
  Local,        \* those of this rank (source map not negative)
  Capacity,     \* slots
  Half,         \* 2^31
  MaxIds        \* bound on the requested experts of a call

(* What the constants may be.                                              *)
CacheAssumption ==
  /\ NumExperts \in Nat \ {0} /\ Capacity \in Nat \ {0}
  /\ Local \subseteq 0 .. NumExperts - 1 /\ Capacity <= Cardinality(Local)
  /\ {Half, MaxIds} \subseteq Nat \ {0}

VARIABLES
  st,           \* hot_map, slot_global_ids, slot_ages, clock
  misses,       \* miss_local_ids, miss_slots
  req,          \* experts the call has routed to
  pc,           \* compute stream
  side,         \* requests whose w2 row the side stream has still to copy
  w13, w2,      \* expert whose rows a slot holds
  tied          \* history: an update has met an unrequested slot of the greatest age

vars == <<st, misses, req, pc, side, w13, w2, tied>>

Experts == 0 .. NumExperts - 1
Slots   == 0 .. Capacity - 1
None    == -1
Ages    == -Half .. Half - 1
MaxAge  == Half - 1                       \* 0x7fffffff
Wrap(n) == ((n + Half) % (2 * Half)) - Half

(* The slot with the least age, the lowest first: tl.argmin with protected *)
(* slots at the greatest age.                                              *)
Before(age, s, t) == age[s] < age[t] \/ (age[s] = age[t] /\ s < t)
Victim(ages, protected) ==
  LET age == [s \in Slots |-> IF s \in protected THEN MaxAge ELSE ages[s]]
  IN  CHOOSE s \in Slots : \A t \in Slots \ {s} : Before(age, s, t)

Named(m, q) == {s \in Slots : \E i \in DOMAIN q : m.ids[s] = q[i]}
Repeated(q, i) == \E j \in 1 .. i - 1 : q[j] = q[i]

-----------------------------------------------------------------------------
(* Serial.  The map is read and written in global memory without a         *)
(* barrier: the read for a request that repeats the one just before may or *)
(* may not see its store (seen).                                           *)

Visible(m, work, q, i, seen) ==
  IF q[i] \notin Local THEN None
  ELSE IF ~seen /\ i > 1 /\ q[i - 1] = q[i] /\ work.missSlots[i - 1] # None THEN None
  ELSE work.map[q[i]]

(* A slot just given away is not given away again.  Mutant: it may be.     *)
StillOpen(protected, victim) == protected
Protect(protected, victim) == protected \union {victim}

SerialStep(m, q, seen, work, i) ==
  LET slot   == Visible(m, work, q, i, seen)
      hit    == slot # None
      miss   == q[i] \in Local /\ ~hit /\ ~Repeated(q, i)
      victim == Victim(work.ages, work.protected)
      used   == IF hit THEN slot ELSE victim
      old    == work.ids[victim]
  IN  [map |-> [g \in Experts |->
                  IF miss /\ g = q[i] THEN victim
                  ELSE IF miss /\ g = old THEN None ELSE work.map[g]],
       ids  |-> IF miss THEN [work.ids EXCEPT ![victim] = q[i]] ELSE work.ids,
       ages |-> IF hit \/ miss THEN [work.ages EXCEPT ![used] = Wrap(m.clock + i)]
                ELSE work.ages,
       protected |-> IF miss THEN Protect(work.protected, victim) ELSE work.protected,
       missIds   |-> Append(work.missIds, IF miss THEN q[i] ELSE None),
       missSlots |-> Append(work.missSlots, IF miss THEN victim ELSE None)]

Serial(m, q, seen) ==
  LET start == [map |-> m.map, ids |-> m.ids, ages |-> m.ages,
                protected |-> Named(m, q), missIds |-> <<>>, missSlots |-> <<>>]
      after[i \in 0 .. Len(q)] ==
        IF i = 0 THEN start ELSE SerialStep(m, q, seen, after[i - 1], i)
      end == after[Len(q)]
  IN  [map |-> end.map, ids |-> end.ids, ages |-> end.ages, clock |-> Wrap(m.clock + Len(q)),
       missIds |-> end.missIds, missSlots |-> end.missSlots]

-----------------------------------------------------------------------------
(* Parallel.  Mutants: a repeated expert counts as a miss each time; slots *)
(* of requested experts are victims too; the youngest slots are taken.     *)

MissesAgain(m, q) ==
  {i \in DOMAIN q : q[i] \in Local /\ m.map[q[i]] = None}
Misses(m, q) ==
  {i \in DOMAIN q : q[i] \in Local /\ m.map[q[i]] = None /\ ~Repeated(q, i)}

AllFree(m, q) == Slots
Free(m, q) == Slots \ Named(m, q)

FallsBack(m, q) ==
  \/ Cardinality(Misses(m, q)) > Cardinality(Free(m, q))
  \/ \E s \in Slots : m.ages[s] = MaxAge

(* The free slot with as many free slots before it as there are misses     *)
(* before the i-th request.                                                *)
YoungestFirst(m, q, i) ==
  CHOOSE s \in Free(m, q) :
    Cardinality({t \in Free(m, q) : Before(m.ages, s, t)})
      = Cardinality({j \in Misses(m, q) : j < i})
VictimOf(m, q, i) ==
  CHOOSE s \in Free(m, q) :
    Cardinality({t \in Free(m, q) : Before(m.ages, t, s)})
      = Cardinality({j \in Misses(m, q) : j < i})

Parallel(m, q) ==
  LET absent  == Misses(m, q)
      victim  == [i \in absent |-> VictimOf(m, q, i)]
      taken   == {victim[i] : i \in absent}
      ids     == [s \in Slots |->
                    IF s \in taken THEN q[CHOOSE i \in absent : victim[i] = s] ELSE m.ids[s]]
      uses(s) == {i \in DOMAIN q : q[i] \in Local /\ q[i] = ids[s]}
      last(s) == CHOOSE i \in uses(s) : \A j \in uses(s) : j <= i
  IN  [map |-> [g \in Experts |->
                  IF \E i \in absent : q[i] = g
                    THEN victim[CHOOSE i \in absent : q[i] = g]
                    ELSE IF \E s \in taken : m.ids[s] = g THEN None ELSE m.map[g]],
       ids  |-> ids,
       ages |-> [s \in Slots |-> IF uses(s) # {} THEN Wrap(m.clock + last(s)) ELSE m.ages[s]],
       clock |-> Wrap(m.clock + Len(q)),
       missIds   |-> [i \in DOMAIN q |-> IF i \in absent THEN q[i] ELSE None],
       missSlots |-> [i \in DOMAIN q |-> IF i \in absent THEN victim[i] ELSE None]]

(* What update_kernel may return.                                          *)
Updates(m, q) ==
  IF FallsBack(m, q) THEN {Serial(m, q, TRUE), Serial(m, q, FALSE)}
  ELSE {Parallel(m, q)}

-----------------------------------------------------------------------------
Requests == UNION {[1 .. n -> Experts \union {None}] : n \in 1 .. MaxIds}

(* Ranked experts in order; the first is the youngest.                     *)
Ranked == CHOOSE f \in [Slots -> Local] : \A s, t \in Slots : s < t => f[s] < f[t]

Init ==
  /\ st = [map |-> [g \in Experts |-> IF \E s \in Slots : Ranked[s] = g
                                        THEN CHOOSE s \in Slots : Ranked[s] = g ELSE None],
           ids |-> Ranked,
           ages |-> [s \in Slots |-> Wrap(Capacity - s)],
           clock |-> Wrap(Capacity)]
  /\ misses = [ids |-> <<>>, slots |-> <<>>]
  /\ req = <<>> /\ pc = "idle" /\ side = {} /\ tied = FALSE
  /\ w13 = st.ids /\ w2 = st.ids

(* More requests than slots would evict what they have just brought; such  *)
(* a call reads the experts where they are.  Mutant: it does not.          *)
AnyLength(r) == TRUE
Fits(r) == Len(r) <= Capacity

Update ==
  /\ pc = "idle"
  /\ \E r \in Requests :
       /\ Fits(r) /\ req' = r
       /\ tied' = (tied \/ \E s \in Slots \ Named(st, r) : st.ages[s] = MaxAge)
       /\ \E u \in Updates(st, r) :
            /\ st' = [map |-> u.map, ids |-> u.ids, ages |-> u.ages, clock |-> u.clock]
            /\ misses' = [ids |-> u.missIds, slots |-> u.missSlots]
  /\ pc' = "gather"
  /\ UNCHANGED <<side, w13, w2>>

Copied(rows) ==
  [s \in Slots |-> IF \E i \in DOMAIN misses.slots : misses.slots[i] = s
                     THEN misses.ids[CHOOSE i \in DOMAIN misses.slots : misses.slots[i] = s]
                     ELSE rows[s]]

(* Up-projection rows, then the down-projection rows in line or forked.    *)
Gather ==
  /\ pc = "gather"
  /\ w13' = Copied(w13)
  /\ \/ w2' = Copied(w2) /\ UNCHANGED side
     \/ side' = DOMAIN misses.slots /\ UNCHANGED w2
  /\ pc' = "up"
  /\ UNCHANGED <<st, misses, req, tied>>

(* The side stream, a row at a time: rows are copied by different blocks.  *)
SideCopy(i) ==
  /\ i \in side
  /\ side' = side \ {i}
  /\ w2' = IF misses.slots[i] = None THEN w2 ELSE [w2 EXCEPT ![misses.slots[i]] = misses.ids[i]]
  /\ UNCHANGED <<st, misses, req, pc, w13, tied>>

UpGemm == pc = "up" /\ pc' = "down" /\ UNCHANGED <<st, misses, req, side, w13, w2, tied>>

(* The down GEMM waits for the side stream.  Mutant: it does not.          *)
NoJoin == pc = "down" /\ pc' = "read" /\ UNCHANGED <<st, misses, req, side, w13, w2, tied>>
Join == pc = "down" /\ side = {} /\ pc' = "read" /\ UNCHANGED <<st, misses, req, side, w13, w2, tied>>

(* The call ends; nothing of it is read again.                             *)
DownGemm ==
  /\ pc = "read"
  /\ pc' = "idle" /\ req' = <<>>
  /\ UNCHANGED <<st, misses, side, w13, w2, tied>>

Next ==
  \/ Update \/ Gather \/ UpGemm \/ Join \/ DownGemm
  \/ \E i \in 1 .. MaxIds : SideCopy(i)

Spec == Init /\ [][Next]_vars

-----------------------------------------------------------------------------
(* The map gives each local expert at most one slot and each slot exactly  *)
(* one expert, and the two directions agree.                               *)
TypeOK ==
  /\ st.map \in [Experts -> Slots \union {None}]
  /\ st.ids \in [Slots -> Local]
  /\ st.ages \in [Slots -> Ages] /\ st.clock \in Ages
  /\ \A g \in Experts, s \in Slots : st.map[g] = s <=> st.ids[s] = g

(* Both GEMMs find every routed local expert in the map, with its own rows *)
(* in its slot: no token's contribution is dropped or computed with        *)
(* another expert's weights.  (A slot used exactly at the greatest age     *)
(* ties with the protected ones, and argmin may then evict a requested     *)
(* expert; the kernels keep that, see lru_map.py.)                         *)
RowsOf(rows) ==
  \A i \in DOMAIN req : req[i] \in Local =>
    st.map[req[i]] # None /\ rows[st.map[req[i]]] = req[i]
RowsExact ==
  ~tied => (pc = "up" => RowsOf(w13)) /\ (pc = "read" => RowsOf(w13) /\ RowsOf(w2))

(* Between calls all slots hold what the map says, as the tiered and       *)
(* staged paths of other batches assume.                                   *)
CacheExact == (pc = "idle" /\ ~tied) => w13 = st.ids /\ w2 = st.ids

(* What two implementations of the update must agree on, in any map state  *)
(* and for any request: the parallel kernel is the serial one whenever it  *)
(* does not call it (lru_map.py: "Preserve the released victim policy"),   *)
(* every requested expert is resident afterwards, and no expert goes whose *)
(* last use is younger than that of an unrequested one that stays.         *)
KernelsAgree ==
  ~FallsBack(st, req) =>
    LET after == Serial(st, req, TRUE)
    IN  /\ Parallel(st, req) = after
        /\ \A i \in DOMAIN req : req[i] \in Local =>
             after.map[req[i]] # None /\ after.ids[after.map[req[i]]] = req[i]
        /\ \A s \in Slots, t \in Free(st, req) :
             (st.ids[s] # after.ids[s] /\ st.ids[t] = after.ids[t]) => st.ages[s] <= st.ages[t]
=============================================================================
