------------------------------ MODULE CpuPool ------------------------------
(***************************************************************************)
(* The thread pool of the CPU expert kernels (cpu_moe.cpp, class Pool).    *)
(*                                                                         *)
(* The caller is worker 0.  run(count, fn) publishes a function by a new   *)
(* epoch, works itself and returns when the n - 1 other workers have       *)
(* reported; the function refers to the caller's stack, so a worker must   *)
(* never touch it later.  A worker that finds no new epoch for a while     *)
(* sleeps in atomic wait, which compares and sleeps in one step.           *)
(***************************************************************************)
EXTENDS Integers, FiniteSets

CONSTANTS
  NumWorkers,   \* n_, the caller included
  Counts,       \* item counts run is called with
  MaxRuns       \* bound on the calls of run

ASSUME PoolAssumption ==
  NumWorkers \in Nat \ {0} /\ Counts \subseteq Nat /\ MaxRuns \in Nat

Workers == 0 .. NumWorkers - 1
Threads == Workers \ {0}

VARIABLES
  epoch, next, done, stop, fn, count,   \* shared with the threads
  run,      \* calls of run so far
  pc,       \* per worker
  seen,     \* last epoch a thread has served
  item,     \* item a worker holds
  finished  \* items finished in the current call, with their function

vars == <<epoch, next, done, stop, fn, count, run, pc, seen, item, finished>>

Init ==
  /\ epoch = 0 /\ next = 0 /\ done = 0 /\ stop = FALSE /\ fn = 0 /\ count = 0
  /\ run = 0
  /\ pc = [w \in Workers |-> IF w = 0 THEN "idle" ELSE "poll"]
  /\ seen = [t \in Threads |-> 0]
  /\ item = [w \in Workers |-> 0]
  /\ finished = {}

Goto(w, from, to) == pc[w] = from /\ pc' = [pc EXCEPT ![w] = to]

(* The caller: run.  Mutant: the count of reports is reset after the epoch *)
(* is published.                                                           *)
LateReset ==
  /\ run < MaxRuns
  /\ Goto(0, "idle", "publish")
  /\ run' = run + 1 /\ fn' = run'
  /\ count' \in Counts
  /\ next' = 0 /\ finished' = {}
  /\ UNCHANGED <<epoch, done, stop, seen, item>>
Prepare ==
  /\ run < MaxRuns
  /\ Goto(0, "idle", "publish")
  /\ run' = run + 1 /\ fn' = run'
  /\ count' \in Counts
  /\ next' = 0 /\ done' = 0 /\ finished' = {}
  /\ UNCHANGED <<epoch, stop, seen, item>>

Publish ==
  /\ Goto(0, "publish", "notify")
  /\ epoch' = epoch + 1
  /\ UNCHANGED <<next, done, stop, fn, count, run, seen, item, finished>>

(* notify_all wakes the threads asleep.  Mutant: nobody is woken.          *)
Unnotified ==
  /\ pc[0] \in {"notify", "join"}
  /\ pc' = [pc EXCEPT ![0] = IF @ = "notify" THEN "work" ELSE "joining"]
  /\ UNCHANGED <<epoch, next, done, stop, fn, count, run, seen, item, finished>>
Notify ==
  /\ pc[0] \in {"notify", "join"}
  /\ pc' = [w \in Workers |->
       IF w = 0 THEN IF pc[0] = "notify" THEN "work" ELSE "joining"
       ELSE IF pc[w] = "asleep" THEN "poll" ELSE pc[w]]
  /\ UNCHANGED <<epoch, next, done, stop, fn, count, run, seen, item, finished>>

(* work, by the caller and by the threads.                                 *)
Claim(w) ==
  /\ pc[w] = "work"
  /\ item' = [item EXCEPT ![w] = next]
  /\ next' = next + 1
  /\ pc' = [pc EXCEPT ![w] = IF next < count THEN "execute"
                             ELSE IF w = 0 THEN "await" ELSE "report"]
  /\ UNCHANGED <<epoch, done, stop, fn, count, run, seen, finished>>

Execute(w) ==
  /\ Goto(w, "execute", "work")
  /\ finished' = finished \union {<<fn, item[w]>>}
  /\ UNCHANGED <<epoch, next, done, stop, fn, count, run, seen, item>>

(* Mutant: run does not wait for the threads.                              *)
ReturnEarly ==
  /\ Goto(0, "await", "idle")
  /\ UNCHANGED <<epoch, next, done, stop, fn, count, run, seen, item, finished>>
Return ==
  /\ done = NumWorkers - 1
  /\ Goto(0, "await", "idle")
  /\ UNCHANGED <<epoch, next, done, stop, fn, count, run, seen, item, finished>>

(* ~Pool: set stop, publish an epoch, notify, join.                        *)
Stop ==
  /\ Goto(0, "idle", "stop")
  /\ stop' = TRUE
  /\ UNCHANGED <<epoch, next, done, fn, count, run, seen, item, finished>>

Wake ==
  /\ Goto(0, "stop", "join")
  /\ epoch' = epoch + 1
  /\ UNCHANGED <<next, done, stop, fn, count, run, seen, item, finished>>

(* A thread: loop.                                                         *)
Sleep(t) ==
  /\ epoch = seen[t]
  /\ Goto(t, "poll", "asleep")
  /\ UNCHANGED <<epoch, next, done, stop, fn, count, run, seen, item, finished>>

(* Mutant: a thread that starts late takes the epoch it finds as served.   *)
SkipFirst(t) ==
  /\ epoch # seen[t]
  /\ seen' = [seen EXCEPT ![t] = epoch]
  /\ pc[t] = "poll"
  /\ pc' = [pc EXCEPT ![t] = IF stop THEN "exited" ELSE IF seen[t] = 0 THEN "poll" ELSE "work"]
  /\ UNCHANGED <<epoch, next, done, stop, fn, count, run, item, finished>>
NewEpoch(t) ==
  /\ epoch # seen[t]
  /\ seen' = [seen EXCEPT ![t] = epoch]
  /\ Goto(t, "poll", IF stop THEN "exited" ELSE "work")
  /\ UNCHANGED <<epoch, next, done, stop, fn, count, run, item, finished>>

Report(t) ==
  /\ Goto(t, "report", "poll")
  /\ done' = done + 1
  /\ UNCHANGED <<epoch, next, stop, fn, count, run, seen, item, finished>>

Caller == Prepare \/ Publish \/ Notify \/ Claim(0) \/ Execute(0) \/ Return \/ Stop \/ Wake
Thread(t) == Sleep(t) \/ NewEpoch(t) \/ Claim(t) \/ Execute(t) \/ Report(t)

Next == Caller \/ \E t \in Threads : Thread(t)

Spec == Init /\ [][Next]_vars

(* Threads are scheduled; whoever is inside run or ~Pool goes on.          *)
FairSpec ==
  Spec /\ WF_vars(pc[0] # "idle" /\ Caller) /\ \A t \in Threads : WF_vars(Thread(t))

-----------------------------------------------------------------------------
TypeOK ==
  /\ epoch \in 0 .. MaxRuns + 1 /\ done \in 0 .. NumWorkers - 1
  /\ next \in Nat /\ count \in Counts \union {0} /\ run \in 0 .. MaxRuns /\ fn = run
  /\ \A w \in Workers : pc[w] = "execute" => item[w] < count
  /\ \A t \in Threads : seen[t] <= epoch

(* A worker inside the function is inside the call that passed it: the     *)
(* caller has not returned, so the stack it refers to is there (run).      *)
FrameAlive ==
  \A t \in Threads :
    pc[t] \in {"work", "execute", "report"} =>
      pc[0] \in {"notify", "work", "execute", "await"}

(* No item runs twice, also not when the workers race for the last ones,   *)
(* and when run returns all have run.                                      *)
ItemsOnce ==
  /\ \A v, w \in Workers :
       pc[v] = "execute" /\ pc[w] = "execute" /\ item[v] = item[w] => v = w
  /\ \A w \in Workers : pc[w] = "execute" => <<fn, item[w]>> \notin finished
  /\ pc[0] = "idle" => finished = {fn} \X (0 .. count - 1)

(* Every call of run returns, wherever the threads are when it starts.     *)
RunReturns == pc[0] = "publish" ~> pc[0] = "idle"

(* The destructor's join ends: no thread sleeps through the last epoch.    *)
PoolStops == stop ~> \A t \in Threads : pc[t] = "exited"
=============================================================================
