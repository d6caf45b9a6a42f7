---------------------------- MODULE CpuPoolProofs ----------------------------
(***************************************************************************)
(* Proofs about the thread pool of the CPU expert kernels, for any number  *)
(* of workers, of items and of calls: a function is touched by nobody once *)
(* its call has returned, and a call runs each of its items exactly once.  *)
(*                                                                         *)
(* The pool has no lock: done, a plain count of reports, must stand for    *)
(* "every thread is back in its loop", and the epoch for "this call".  The *)
(* inductive invariant says what they stand for.                           *)
(***************************************************************************)
EXTENDS CpuPool, FiniteSetTheorems, TLAPS

(* The caller is inside run, from the epoch it published to its return.    *)
InCall == pc[0] \in {"notify", "work", "execute", "await"}

Looping(t) == pc[t] \in {"poll", "asleep"}

(* Threads that have reported in this call.                                *)
Served == {t \in Threads : Looping(t) /\ seen[t] = epoch}

PoolShape ==
  /\ pc \in [Workers -> {"idle", "publish", "notify", "work", "execute", "await", "stop",
                         "join", "joining", "poll", "asleep", "report", "exited"}]
  /\ pc[0] \in {"idle", "publish", "notify", "work", "execute", "await", "stop", "join",
                "joining"}
  /\ \A t \in Threads : pc[t] \in {"poll", "asleep", "work", "execute", "report", "exited"}
  /\ seen \in [Threads -> Nat] /\ item \in [Workers -> Nat]
  /\ epoch \in Nat /\ next \in Nat /\ done \in Nat /\ count \in Nat
  /\ stop <=> pc[0] \in {"stop", "join", "joining"}

(* Between calls all threads are in their loops and have seen the last     *)
(* epoch; inside one, a thread that works has seen its epoch, and done is  *)
(* the number of those that are back; after the last one they exit.        *)
Rounds ==
  /\ pc[0] \in {"idle", "publish", "stop"} => Served = Threads
  /\ pc[0] = "publish" => done = 0
  /\ InCall =>
       /\ done = Cardinality(Served)
       /\ \A t \in Threads : pc[t] # "exited" /\ (~Looping(t) => seen[t] = epoch)
  /\ pc[0] \in {"join", "joining"} =>
       \A t \in Threads : pc[t] = "exited" \/ Looping(t)

(* Items are claimed in order, each is finished or in the hands of one     *)
(* worker, and the caller waits only when none is left to claim.           *)
Claimed(i) == \E w \in Workers : pc[w] = "execute" /\ item[w] = i
Items ==
  /\ \A w \in Workers : pc[w] = "execute" =>
       item[w] < count /\ item[w] < next /\ <<fn, item[w]>> \notin finished
  /\ \A v, w \in Workers :
       pc[v] = "execute" /\ pc[w] = "execute" /\ item[v] = item[w] => v = w
  /\ finished \subseteq {fn} \X (0 .. count - 1)
  /\ \A i \in 0 .. count - 1 : i >= next => <<fn, i>> \notin finished
  /\ \A i \in 0 .. count - 1 : i < next => <<fn, i>> \in finished \/ Claimed(i)
  /\ pc[0] \in {"await", "idle"} => next >= count

PoolInv == PoolShape /\ Rounds /\ Items

-----------------------------------------------------------------------------
LEMMA ThreadSet ==
  /\ 0 \in Workers /\ 0 \notin Threads /\ Threads \subseteq Workers
  /\ Workers = Threads \union {0}
  /\ IsFiniteSet(Threads) /\ Cardinality(Threads) = NumWorkers - 1
<1>1. NumWorkers \in Nat \ {0}
  BY PoolAssumption
<1>2. Threads = 1 .. NumWorkers - 1
  BY <1>1 DEF Threads, Workers
<1>3. /\ IsFiniteSet(1 .. NumWorkers - 1)
      /\ Cardinality(1 .. NumWorkers - 1) = IF 1 > NumWorkers - 1 THEN 0 ELSE NumWorkers - 1 - 1 + 1
  BY <1>1, FS_Interval
<1>4. Cardinality(Threads) = NumWorkers - 1
  BY <1>1, <1>2, <1>3
<1>5. 0 \in Workers
  BY <1>1 DEF Workers
<1> QED
  BY <1>2, <1>3, <1>4, <1>5 DEF Threads

(* done counts the threads that are back: all of them when it says so.     *)
LEMMA ServedFinite ==
  /\ IsFiniteSet(Served) /\ Cardinality(Served) \in Nat
  /\ Cardinality(Served) = NumWorkers - 1 => Served = Threads
<1>1. Served \in SUBSET Threads
  BY DEF Served
<1>2. IsFiniteSet(Served) /\ (Cardinality(Threads) = Cardinality(Served) => Threads = Served)
  BY <1>1, ThreadSet, FS_Subset
<1> QED
  BY <1>2, ThreadSet, FS_CardinalityType

LEMMA InitPool == Init => PoolInv
<1> SUFFICES ASSUME Init PROVE PoolInv
  OBVIOUS
<1>1. pc[0] = "idle" /\ \A t \in Threads : pc[t] = "poll" /\ seen[t] = 0
  BY ThreadSet DEF Init
<1>2. PoolShape
  BY <1>1, ThreadSet DEF Init, PoolShape
<1>3. Rounds
  BY <1>1 DEF Init, Rounds, Served, Looping, InCall
<1>4. Items
  BY <1>1, ThreadSet DEF Init, Items
<1> QED
  BY <1>2, <1>3, <1>4 DEF PoolInv

-----------------------------------------------------------------------------
(* The caller's steps.                                                     *)
LEMMA PrepareStep == ASSUME PoolInv, Prepare PROVE PoolInv'
<1> USE ThreadSet
<1>1. PoolShape /\ Rounds /\ pc[0] = "idle" /\ pc' = [pc EXCEPT ![0] = "publish"]
  BY DEF PoolInv, Prepare, Goto
<1>2. pc'[0] = "publish" /\ \A t \in Threads : pc'[t] = pc[t]
  BY <1>1 DEF PoolShape
<1>3. /\ next' = 0 /\ done' = 0 /\ finished' = {} /\ count' \in Nat
      /\ UNCHANGED <<epoch, stop, seen, item>>
  BY PoolAssumption DEF Prepare
<1>4. PoolShape'
  BY <1>1, <1>2, <1>3 DEF PoolShape
<1>5. Rounds'
  BY <1>1, <1>2, <1>3 DEF Rounds, Served, Looping, InCall
<1>6. \A w \in Workers : pc'[w] # "execute"
  BY <1>1, <1>2 DEF Rounds, Served, Looping
<1>7. \A i \in 0 .. count' - 1 : ~(i < next')
  BY <1>3
<1>8. Items'
  BY <1>2, <1>3, <1>6, <1>7 DEF Items
<1> QED
  BY <1>4, <1>5, <1>8 DEF PoolInv

LEMMA PublishStep == ASSUME PoolInv, Publish PROVE PoolInv'
<1> USE ThreadSet
<1>1. PoolShape /\ Rounds /\ Items /\ pc[0] = "publish" /\ pc' = [pc EXCEPT ![0] = "notify"]
  BY DEF PoolInv, Publish, Goto
<1>2. pc'[0] = "notify" /\ \A t \in Threads : pc'[t] = pc[t]
  BY <1>1 DEF PoolShape
<1>3. epoch' = epoch + 1 /\ UNCHANGED <<next, done, stop, fn, count, seen, item, finished>>
  BY DEF Publish
<1>4. PoolShape'
  BY <1>1, <1>2, <1>3 DEF PoolShape
<1>5. \A t \in Threads : seen[t] = epoch /\ Looping(t) /\ epoch \in Nat
  BY <1>1 DEF Rounds, Served, PoolShape
<1>6. Served' = {}
  BY <1>3, <1>5 DEF Served
<1>7. done' = Cardinality(Served')
  BY <1>1, <1>3, <1>6, FS_EmptySet DEF Rounds
<1>8. Rounds'
  BY <1>2, <1>5, <1>7 DEF Rounds, Looping, InCall
<1>9. Items'
  BY <1>1, <1>2, <1>3 DEF Items, Claimed
<1> QED
  BY <1>4, <1>8, <1>9 DEF PoolInv

LEMMA NotifyStep == ASSUME PoolInv, Notify PROVE PoolInv'
<1> USE ThreadSet
<1>1. PoolShape /\ Rounds /\ Items /\ pc[0] \in {"notify", "join"}
  BY DEF PoolInv, Notify
<1>2. /\ pc'[0] = IF pc[0] = "notify" THEN "work" ELSE "joining"
      /\ \A t \in Threads : pc'[t] = IF pc[t] = "asleep" THEN "poll" ELSE pc[t]
      /\ pc' \in [Workers -> {"idle", "publish", "notify", "work", "execute", "await", "stop",
                              "join", "joining", "poll", "asleep", "report", "exited"}]
  BY <1>1 DEF Notify, PoolShape
<1>3. UNCHANGED <<epoch, next, done, stop, fn, count, seen, item, finished>>
  BY DEF Notify
<1>4. PoolShape'
  BY <1>1, <1>2, <1>3 DEF PoolShape
<1>5. Served' = Served
  BY <1>2, <1>3 DEF Served, Looping
<1>6. Rounds'
  BY <1>1, <1>2, <1>3, <1>5 DEF Rounds, Looping, InCall
<1>7. \A w \in Workers : pc'[w] = "execute" <=> pc[w] = "execute"
  BY <1>1, <1>2
<1>8. Items'
  BY <1>1, <1>2, <1>3, <1>7 DEF Items, Claimed
<1> QED
  BY <1>4, <1>6, <1>8 DEF PoolInv

LEMMA ReturnStep == ASSUME PoolInv, Return PROVE PoolInv'
<1> USE ThreadSet
<1>1. /\ PoolShape /\ Rounds /\ Items /\ pc[0] = "await" /\ pc' = [pc EXCEPT ![0] = "idle"]
      /\ done = NumWorkers - 1
  BY DEF PoolInv, Return, Goto
<1>2. pc'[0] = "idle" /\ \A t \in Threads : pc'[t] = pc[t]
  BY <1>1 DEF PoolShape
<1>3. UNCHANGED <<epoch, next, done, stop, fn, count, seen, item, finished>>
  BY DEF Return
<1>4. PoolShape'
  BY <1>1, <1>2, <1>3 DEF PoolShape
<1>5. Served = Threads
  BY <1>1, ServedFinite DEF Rounds, InCall
<1>6. Rounds'
  BY <1>2, <1>3, <1>5 DEF Rounds, Served, Looping, InCall
<1>7. Items'
  BY <1>1, <1>2, <1>3 DEF Items, Claimed
<1> QED
  BY <1>4, <1>6, <1>7 DEF PoolInv

LEMMA StopStep == ASSUME PoolInv, Stop \/ Wake PROVE PoolInv'
<1> USE ThreadSet
<1>1. PoolShape /\ Rounds /\ Items
  BY DEF PoolInv
<1>2. CASE Stop
  <2>1. pc[0] = "idle" /\ pc' = [pc EXCEPT ![0] = "stop"] /\ stop'
        /\ UNCHANGED <<epoch, next, done, fn, count, seen, item, finished>>
    BY <1>2 DEF Stop, Goto
  <2>2. pc'[0] = "stop" /\ \A t \in Threads : pc'[t] = pc[t]
    BY <1>1, <2>1 DEF PoolShape
  <2>3. PoolShape'
    BY <1>1, <2>1, <2>2 DEF PoolShape
  <2>4. Rounds'
    BY <1>1, <2>1, <2>2 DEF Rounds, Served, Looping, InCall
  <2>5. Items'
    BY <1>1, <2>1, <2>2 DEF Items, Claimed
  <2> QED
    BY <2>3, <2>4, <2>5 DEF PoolInv
<1>3. CASE Wake
  <2>1. pc[0] = "stop" /\ pc' = [pc EXCEPT ![0] = "join"] /\ epoch' = epoch + 1
        /\ UNCHANGED <<next, done, stop, fn, count, seen, item, finished>>
    BY <1>3 DEF Wake, Goto
  <2>2. pc'[0] = "join" /\ \A t \in Threads : pc'[t] = pc[t]
    BY <1>1, <2>1 DEF PoolShape
  <2>3. PoolShape'
    BY <1>1, <2>1, <2>2 DEF PoolShape
  <2>4. Rounds'
    BY <1>1, <2>1, <2>2 DEF Rounds, Served, Looping, InCall
  <2>5. Items'
    BY <1>1, <2>1, <2>2 DEF Items, Claimed
  <2> QED
    BY <2>3, <2>4, <2>5 DEF PoolInv
<1> QED
  BY <1>2, <1>3

-----------------------------------------------------------------------------
(* Work: claiming and finishing an item.                                   *)
LEMMA ClaimStep ==
  ASSUME PoolInv, NEW w \in Workers, Claim(w)
  PROVE  PoolInv'
<1> USE ThreadSet
<1> DEFINE to == IF next < count THEN "execute" ELSE IF w = 0 THEN "await" ELSE "report"
<1>1. PoolShape /\ Rounds /\ Items /\ pc[w] = "work"
  BY DEF PoolInv, Claim
<1>2. /\ pc'[w] = to /\ \A v \in Workers : v # w => pc'[v] = pc[v]
      /\ item'[w] = next /\ \A v \in Workers : v # w => item'[v] = item[v]
      /\ item' \in [Workers -> Nat]
      /\ pc' \in [Workers -> {"idle", "publish", "notify", "work", "execute", "await", "stop",
                              "join", "joining", "poll", "asleep", "report", "exited"}]
  BY <1>1 DEF Claim, PoolShape
<1>3. next' = next + 1 /\ UNCHANGED <<epoch, done, stop, fn, count, seen, finished>>
  BY DEF Claim
<1>4. PoolShape'
  BY <1>1, <1>2, <1>3 DEF PoolShape
<1>5. Served' = Served
  BY <1>1, <1>2, <1>3 DEF Served, Looping
<1>6. Rounds'
  <2>1. InCall
    <3>1. CASE w = 0
      BY <1>1, <3>1 DEF InCall
    <3>2. CASE w # 0
      BY <1>1, <3>2 DEF Rounds, Served, Looping, InCall, PoolShape
    <3> QED
      BY <3>1, <3>2
  <2>2. InCall'
    BY <1>2, <2>1 DEF InCall
  <2>3. \A t \in Threads : pc'[t] # "exited" /\ (~Looping(t)' => seen'[t] = epoch')
    BY <1>1, <1>2, <1>3, <2>1 DEF Rounds, Looping
  <2> QED
    BY <1>1, <1>3, <1>5, <2>1, <2>2, <2>3 DEF Rounds, InCall
<1>7. Items'
  <2>1. next \in Nat /\ count \in Nat
    BY <1>1 DEF PoolShape
  <2>2. ASSUME NEW v \in Workers, pc'[v] = "execute"
        PROVE  item'[v] < count /\ item'[v] < next' /\ <<fn, item'[v]>> \notin finished
    <3>1. CASE v = w
      <4>1. item'[v] = next /\ next < count
        BY <1>2, <2>2, <3>1
      <4>2. next \in 0 .. count - 1
        BY <2>1, <4>1
      <4> QED
        BY <1>1, <1>3, <2>1, <4>1, <4>2 DEF Items
    <3>2. CASE v # w
      <4>1. item'[v] = item[v] /\ item[v] \in Nat /\ pc[v] = "execute"
        BY <1>1, <1>2, <2>2, <3>2 DEF PoolShape
      <4> QED
        BY <1>1, <1>3, <2>1, <4>1 DEF Items
    <3> QED
      BY <3>1, <3>2
  <2>3. ASSUME NEW u \in Workers, NEW v \in Workers, pc'[u] = "execute", pc'[v] = "execute",
               item'[u] = item'[v]
        PROVE  u = v
    <3>1. ASSUME NEW x \in Workers, x # w, pc'[x] = "execute"
          PROVE  item'[x] = item[x] /\ item[x] # next /\ pc[x] = "execute"
      <4>1. item'[x] = item[x] /\ pc[x] = "execute" /\ item[x] \in Nat
        BY <1>1, <1>2, <3>1 DEF PoolShape
      <4>2. item[x] < next
        BY <1>1, <4>1 DEF Items
      <4> QED
        BY <2>1, <4>1, <4>2
    <3> QED
      BY <1>1, <1>2, <2>3, <3>1 DEF Items
  <2>4. ASSUME NEW i \in 0 .. count - 1, i >= next'
        PROVE  <<fn, i>> \notin finished
    BY <1>1, <1>3, <2>1, <2>4 DEF Items
  <2>5. ASSUME NEW i \in 0 .. count - 1, i < next'
        PROVE  <<fn, i>> \in finished \/ Claimed(i)'
    <3>1. CASE i = next
      <4>1. next < count
        BY <2>1, <3>1
      <4> QED
        BY <1>2, <3>1, <4>1 DEF Claimed
    <3>2. CASE i # next
      <4>1. i < next
        BY <1>3, <2>1, <2>5, <3>2
      <4>2. <<fn, i>> \in finished \/ Claimed(i)
        BY <1>1, <4>1 DEF Items
      <4>3. Claimed(i) => Claimed(i)'
        BY <1>1, <1>2 DEF Claimed
      <4> QED
        BY <4>2, <4>3
    <3> QED
      BY <3>1, <3>2
  <2>6. pc'[0] \in {"await", "idle"} => next' >= count
    <3>1. CASE w = 0
      BY <1>2, <1>3, <2>1, <3>1
    <3>2. CASE w # 0
      BY <1>1, <1>2, <1>3, <2>1, <3>2 DEF Items
    <3> QED
      BY <3>1, <3>2
  <2> QED
    BY <1>1, <1>3, <2>2, <2>3, <2>4, <2>5, <2>6 DEF Items
<1> QED
  BY <1>4, <1>6, <1>7 DEF PoolInv

LEMMA ExecuteStep ==
  ASSUME PoolInv, NEW w \in Workers, Execute(w)
  PROVE  PoolInv'
<1> USE ThreadSet
<1>1. /\ PoolShape /\ Rounds /\ Items /\ pc[w] = "execute" /\ pc' = [pc EXCEPT ![w] = "work"]
      /\ finished' = finished \union {<<fn, item[w]>>}
      /\ UNCHANGED <<epoch, next, done, stop, fn, count, seen, item>>
  BY DEF PoolInv, Execute, Goto
<1>2. pc'[w] = "work" /\ \A v \in Workers : v # w => pc'[v] = pc[v]
  BY <1>1 DEF PoolShape
<1>3. PoolShape'
  BY <1>1, <1>2 DEF PoolShape
<1>4. Served' = Served
  BY <1>1, <1>2 DEF Served, Looping
<1>5. Rounds'
  BY <1>1, <1>2, <1>4 DEF Rounds, Looping, InCall
<1>6. Items'
  <2>1. item[w] \in 0 .. count - 1 /\ item[w] < next
    <3>1. item[w] < count /\ item[w] < next
      BY <1>1 DEF Items
    <3>2. item[w] \in Nat /\ count \in Nat
      BY <1>1 DEF PoolShape
    <3> QED
      BY <3>1, <3>2
  <2>2. ASSUME NEW v \in Workers, pc'[v] = "execute"
        PROVE  v # w /\ pc[v] = "execute" /\ item[v] # item[w]
    BY <1>1, <1>2, <2>2 DEF Items
  <2>3. ASSUME NEW v \in Workers, pc'[v] = "execute"
        PROVE  item[v] < count /\ item[v] < next /\ <<fn, item[v]>> \notin finished'
    BY <1>1, <2>2, <2>3 DEF Items
  <2>4. finished' \subseteq {fn} \X (0 .. count - 1)
    BY <1>1, <2>1 DEF Items
  <2>5. ASSUME NEW i \in 0 .. count - 1, i >= next
        PROVE  <<fn, i>> \notin finished'
    <3>1. i # item[w]
      BY <1>1, <2>1, <2>5 DEF PoolShape
    <3> QED
      BY <1>1, <2>5, <3>1 DEF Items
  <2>6. ASSUME NEW i \in 0 .. count - 1, i < next
        PROVE  <<fn, i>> \in finished' \/ Claimed(i)'
    <3>1. <<fn, i>> \in finished \/ Claimed(i)
      BY <1>1, <2>6 DEF Items
    <3>2. Claimed(i) => i = item[w] \/ Claimed(i)'
      BY <1>1, <1>2 DEF Claimed
    <3> QED
      BY <1>1, <3>1, <3>2
  <2>7. pc'[0] \in {"await", "idle"} => next >= count
    BY <1>1, <1>2 DEF Items
  <2> QED
    BY <1>1, <2>2, <2>3, <2>4, <2>5, <2>6, <2>7 DEF Items
<1> QED
  BY <1>3, <1>5, <1>6 DEF PoolInv

-----------------------------------------------------------------------------
(* A thread's loop.                                                        *)
LEMMA SleepStep ==
  ASSUME PoolInv, NEW t \in Threads, Sleep(t)
  PROVE  PoolInv'
<1> USE ThreadSet
<1>1. /\ PoolShape /\ Rounds /\ Items /\ pc[t] = "poll" /\ pc' = [pc EXCEPT ![t] = "asleep"]
      /\ UNCHANGED <<epoch, next, done, stop, fn, count, seen, item, finished>>
  BY DEF PoolInv, Sleep, Goto
<1>2. t \in Workers /\ t # 0 /\ pc'[t] = "asleep" /\ \A v \in Workers : v # t => pc'[v] = pc[v]
  BY <1>1 DEF PoolShape
<1>3. PoolShape'
  BY <1>1, <1>2 DEF PoolShape
<1>4. Served' = Served
  BY <1>1, <1>2 DEF Served, Looping
<1>5. Rounds'
  BY <1>1, <1>2, <1>4 DEF Rounds, Looping, InCall
<1>6. \A v \in Workers : pc'[v] = "execute" <=> pc[v] = "execute"
  BY <1>1, <1>2
<1>7. Items'
  BY <1>1, <1>2, <1>6 DEF Items, Claimed
<1> QED
  BY <1>3, <1>5, <1>7 DEF PoolInv

LEMMA NewEpochStep ==
  ASSUME PoolInv, NEW t \in Threads, NewEpoch(t)
  PROVE  PoolInv'
<1> USE ThreadSet
<1>1. /\ PoolShape /\ Rounds /\ Items /\ pc[t] = "poll" /\ epoch # seen[t]
      /\ seen' = [seen EXCEPT ![t] = epoch]
      /\ pc' = [pc EXCEPT ![t] = IF stop THEN "exited" ELSE "work"]
      /\ UNCHANGED <<epoch, next, done, stop, fn, count, item, finished>>
  BY DEF PoolInv, NewEpoch, Goto
<1>2. /\ t \in Workers /\ t # 0
      /\ pc'[t] = (IF stop THEN "exited" ELSE "work")
      /\ \A v \in Workers : v # t => pc'[v] = pc[v]
      /\ seen'[t] = epoch /\ \A v \in Threads : v # t => seen'[v] = seen[v]
  BY <1>1 DEF PoolShape
<1>3. PoolShape'
  BY <1>1, <1>2 DEF PoolShape
<1>4. Served' = Served
  BY <1>1, <1>2 DEF Served, Looping
<1>5. pc[0] \notin {"idle", "publish", "stop"}
  BY <1>1 DEF Rounds, Served
<1>6. Rounds'
  <2>1. CASE stop
    <3>1. pc[0] \in {"join", "joining"}
      BY <1>1, <1>5, <2>1 DEF PoolShape
    <3> QED
      BY <1>1, <1>2, <2>1, <3>1 DEF Rounds, Looping, InCall
  <2>2. CASE ~stop
    <3>1. InCall
      BY <1>1, <1>5, <2>2 DEF PoolShape, InCall
    <3> QED
      BY <1>1, <1>2, <1>4, <2>2, <3>1 DEF Rounds, Looping, InCall
  <2> QED
    BY <2>1, <2>2
<1>7. \A v \in Workers : pc'[v] = "execute" <=> pc[v] = "execute"
  BY <1>1, <1>2
<1>8. Items'
  BY <1>1, <1>2, <1>7 DEF Items, Claimed
<1> QED
  BY <1>3, <1>6, <1>8 DEF PoolInv

LEMMA ReportStep ==
  ASSUME PoolInv, NEW t \in Threads, Report(t)
  PROVE  PoolInv'
<1> USE ThreadSet
<1>1. /\ PoolShape /\ Rounds /\ Items /\ pc[t] = "report" /\ pc' = [pc EXCEPT ![t] = "poll"]
      /\ done' = done + 1
      /\ UNCHANGED <<epoch, next, stop, fn, count, seen, item, finished>>
  BY DEF PoolInv, Report, Goto
<1>2. t \in Workers /\ t # 0 /\ pc'[t] = "poll" /\ \A v \in Workers : v # t => pc'[v] = pc[v]
  BY <1>1 DEF PoolShape
<1>3. PoolShape'
  BY <1>1, <1>2 DEF PoolShape
<1>4. InCall /\ seen[t] = epoch /\ t \notin Served
  BY <1>1 DEF Rounds, Served, Looping, InCall, PoolShape
<1>5. Served' = Served \union {t}
  BY <1>1, <1>2, <1>4 DEF Served, Looping
<1>6. Cardinality(Served') = Cardinality(Served) + 1
  BY <1>4, <1>5, ServedFinite, FS_AddElement
<1>7. Rounds'
  BY <1>1, <1>2, <1>4, <1>6 DEF Rounds, Looping, InCall
<1>8. \A v \in Workers : pc'[v] = "execute" <=> pc[v] = "execute"
  BY <1>1, <1>2
<1>9. Items'
  BY <1>1, <1>2, <1>8 DEF Items, Claimed
<1> QED
  BY <1>3, <1>7, <1>9 DEF PoolInv

LEMMA StepPool == ASSUME PoolInv, [Next]_vars PROVE PoolInv'
<1>1. CASE UNCHANGED vars
  BY <1>1 DEF vars, PoolInv, PoolShape, Rounds, Items, Served, Looping, InCall, Claimed
<1>2. CASE Caller
  BY <1>2, ThreadSet, PrepareStep, PublishStep, NotifyStep, ReturnStep, StopStep, ClaimStep,
     ExecuteStep DEF Caller
<1>3. ASSUME NEW t \in Threads, Thread(t) PROVE PoolInv'
  BY <1>3, ThreadSet, SleepStep, NewEpochStep, ClaimStep, ExecuteStep, ReportStep DEF Thread
<1> QED
  BY <1>1, <1>2, <1>3 DEF Next

(* The inductive invariant holds in every reachable state.                 *)
THEOREM PoolInvariant == Spec => []PoolInv
<1>1. Init => PoolInv
  BY InitPool
<1>2. PoolInv /\ [Next]_vars => PoolInv'
  BY StepPool
<1> QED
  BY <1>1, <1>2, PTL DEF Spec

(* No worker is inside a function whose call has returned, or that has not *)
(* been published (Pool::run: fn lives on the caller's stack).             *)
THEOREM FrameAlwaysAlive == Spec => []FrameAlive
<1>1. PoolInv => FrameAlive
  BY DEF PoolInv, PoolShape, Rounds, Served, Looping, InCall, FrameAlive
<1> QED
  BY <1>1, PoolInvariant, PTL

(* No item is run twice, and when run returns each has been run            *)
(* (Pool::work: fetch_add on next, the count of reports in done).          *)
THEOREM ItemsRunOnce == Spec => []ItemsOnce
<1>1. ASSUME PoolInv PROVE ItemsOnce
  <2>1. PoolShape /\ Rounds /\ Items
    BY <1>1 DEF PoolInv
  <2>2. ASSUME pc[0] = "idle" PROVE finished = {fn} \X (0 .. count - 1)
    <3>1. \A w \in Workers : pc[w] # "execute"
      BY <2>1, <2>2, ThreadSet DEF Rounds, Served, Looping
    <3>2. ASSUME NEW i \in 0 .. count - 1 PROVE <<fn, i>> \in finished
      <4>1. i < next
        BY <2>1, <2>2 DEF PoolShape, Items
      <4> QED
        BY <2>1, <3>1, <4>1 DEF Items, Claimed
    <3> QED
      BY <2>1, <3>2 DEF Items
  <2> QED
    BY <2>1, <2>2 DEF Items, ItemsOnce
<1> QED
  BY <1>1, PoolInvariant, PTL
-----------------------------------------------------------------------------
(* The epoch counts the calls: it is behind by one while a call has not    *)
(* been published, and ahead by one when the destructor has woken the      *)
(* threads, so it can wrap only after as many calls (Pool::run, ~Pool).    *)
Epochs ==
  /\ run \in 0 .. MaxRuns /\ fn = run /\ count \in Counts \union {0}
  /\ pc[0] = "publish" => epoch = run - 1
  /\ pc[0] \in {"join", "joining"} => epoch = run + 1
  /\ pc[0] \notin {"publish", "join", "joining"} => epoch = run
  /\ \A t \in Threads : seen[t] <= epoch
  /\ done <= NumWorkers - 1

LEMMA InitEpochs == ASSUME Init PROVE Epochs
BY PoolAssumption, ThreadSet DEF Init, Epochs

LEMMA CallerEpochs == ASSUME PoolInv, Epochs, Caller PROVE Epochs'
<1> USE ThreadSet, PoolAssumption
<1>1. PoolShape /\ NumWorkers - 1 \in Nat
  BY DEF PoolInv
<1>2. CASE Prepare
  <2>1. pc[0] = "idle" /\ pc'[0] = "publish" /\ run < MaxRuns
    BY <1>1, <1>2 DEF Prepare, Goto, PoolShape
  <2> QED
    BY <1>1, <1>2, <2>1 DEF Prepare, Epochs
<1>3. CASE Publish
  <2>1. pc[0] = "publish" /\ pc'[0] = "notify"
    BY <1>1, <1>3 DEF Publish, Goto, PoolShape
  <2> QED
    BY <1>1, <1>3, <2>1 DEF Publish, Epochs, PoolShape
<1>4. CASE Notify
  <2>1. \/ pc[0] = "notify" /\ pc'[0] = "work"
        \/ pc[0] = "join" /\ pc'[0] = "joining"
    BY <1>1, <1>4 DEF Notify, PoolShape
  <2> QED
    BY <1>4, <2>1 DEF Notify, Epochs
<1>5. CASE Claim(0)
  <2>1. pc[0] = "work" /\ pc'[0] \in {"execute", "await"}
    BY <1>1, <1>5 DEF Claim, PoolShape
  <2> QED
    BY <1>5, <2>1 DEF Claim, Epochs
<1>6. CASE Execute(0) \/ Return
  <2>1. pc[0] \in {"execute", "await"} /\ pc'[0] \in {"work", "idle"}
    BY <1>1, <1>6 DEF Execute, Return, Goto, PoolShape
  <2> QED
    BY <1>6, <2>1 DEF Execute, Return, Epochs
<1>7. CASE Stop
  <2>1. pc[0] = "idle" /\ pc'[0] = "stop"
    BY <1>1, <1>7 DEF Stop, Goto, PoolShape
  <2> QED
    BY <1>7, <2>1 DEF Stop, Epochs
<1>8. CASE Wake
  <2>1. pc[0] = "stop" /\ pc'[0] = "join"
    BY <1>1, <1>8 DEF Wake, Goto, PoolShape
  <2> QED
    BY <1>1, <1>8, <2>1 DEF Wake, Epochs, PoolShape
<1> QED
  BY <1>2, <1>3, <1>4, <1>5, <1>6, <1>7, <1>8 DEF Caller

LEMMA ThreadEpochs ==
  ASSUME PoolInv, PoolInv', Epochs, NEW t \in Threads, Thread(t) PROVE Epochs'
<1> USE ThreadSet
<1>1. PoolShape /\ Rounds /\ PoolShape' /\ Rounds' /\ t # 0
  BY DEF PoolInv
<1>2. pc'[0] = pc[0]
  BY <1>1 DEF Thread, Sleep, NewEpoch, Claim, Execute, Report, Goto, PoolShape
<1>3. CASE Report(t)
  <2>1. pc[t] = "report" /\ UNCHANGED <<epoch, fn, count, run, seen>>
    BY <1>3 DEF Report, Goto
  <2>2. InCall
    BY <1>1, <2>1 DEF PoolShape, Rounds, Served, Looping, InCall
  <2>3. done' = Cardinality(Served')
    BY <1>1, <1>2, <2>2 DEF InCall, Rounds
  <2>4. Served' \in SUBSET Threads
    BY DEF Served
  <2>5. Cardinality(Served') <= NumWorkers - 1
    BY <2>4, FS_Subset
  <2> QED
    BY <1>2, <2>1, <2>3, <2>5 DEF Epochs
<1>4. CASE NewEpoch(t)
  BY <1>1, <1>2, <1>4 DEF NewEpoch, Epochs, PoolShape
<1>5. CASE Sleep(t) \/ Claim(t) \/ Execute(t)
  BY <1>2, <1>5 DEF Sleep, Claim, Execute, Epochs
<1> QED
  BY <1>3, <1>4, <1>5 DEF Thread

(* The pool's counters stay within their bounds (class Pool): the epoch    *)
(* never exceeds the calls by more than the destructor's one, done never   *)
(* exceeds the threads, and a worker holds an item the call has.           *)
THEOREM CountersBounded == Spec => []TypeOK
<1>1. Init => Epochs
  BY InitEpochs
<1>2. PoolInv /\ PoolInv' /\ Epochs /\ [Next]_vars => Epochs'
  <2>1. CASE UNCHANGED vars
    BY <2>1 DEF vars, Epochs
  <2>2. CASE Next
    BY <2>2, CallerEpochs, ThreadEpochs DEF Next
  <2> QED
    BY <2>1, <2>2
<1>3. PoolInv /\ Epochs => TypeOK
  <2> SUFFICES ASSUME PoolInv, Epochs PROVE TypeOK
    OBVIOUS
  <2>1. PoolShape /\ Items /\ epoch \in 0 .. MaxRuns + 1
    BY PoolAssumption DEF PoolInv, PoolShape, Epochs
  <2>2. done \in 0 .. NumWorkers - 1
    BY <2>1, PoolAssumption DEF PoolShape, Epochs
  <2> QED
    BY <2>1, <2>2 DEF TypeOK, PoolShape, Items, Epochs
<1> QED
  BY <1>1, <1>2, <1>3, PoolInvariant, PTL DEF Spec
=============================================================================
