---------------------------- MODULE PleLifecycle ----------------------------
(***************************************************************************)
(* The life of the PLE CPU process and of the connectors of the GPU        *)
(* workers: spawn, checkpoint load, registration, READY, serving, failure  *)
(* of either side, shutdown.                                               *)
(*                                                                         *)
(* The first GPU worker spawns the CPU process before the models are       *)
(* loaded (gpu_worker.py, spawn_ple_offload).  The workers register their  *)
(* buffers after their own load; the process says READY on a pipe when it  *)
(* has all of them, and the spawner waits for it.  From then on it answers *)
(* requests until its shutdown event is set, by a signal or by the death   *)
(* pipe that closes with the spawner.  PleOffload models the handshake of  *)
(* a step in detail; here a step is one request of a data-parallel rank,   *)
(* with one flag pair for every target, because what matters is who still  *)
(* waits for whom when something stops.                                    *)
(*                                                                         *)
(* The executor that calls the workers' methods, in the order spawn, load, *)
(* wait, and shuts every worker down after the first failure is external.  *)
(***************************************************************************)
EXTENDS Integers, FiniteSets

CONSTANTS
  DPSize, PPSize, TPSize,  \* data-, pipeline- and tensor-parallel sizes
  Owners,     \* pipeline stages that own a PLE layer
  MaxSteps,   \* bound on the number of forwards of a data-parallel rank
  MaxFaults   \* bound on failures of workers and of the CPU process

ASSUME LifecycleAssumption ==
  /\ {DPSize, PPSize, TPSize} \subseteq Nat \ {0}
  /\ Owners \subseteq 0 .. PPSize - 1 /\ Owners # {}
  /\ {MaxSteps, MaxFaults} \subseteq Nat

Dps == 0 .. DPSize - 1
Ranks == Dps \X (0 .. PPSize - 1) \X (0 .. TPSize - 1)
Dp(r) == r[1]
Tp(r) == r[3]
Spawner == <<0, 0, 0>>

(* _has_ple_layers: the worker's stage owns a PLE layer.                   *)
HasPle(r) == r[2] \in Owners
Group(d) == {r \in Ranks : Dp(r) = d /\ HasPle(r)}

(* What the CPU process is told to wait for, and the layers it owns (it    *)
(* builds the whole model in a world of its own); a worker registers the   *)
(* layers of its stage.                                                    *)
NumWorkers == DPSize * TPSize
CpuLayers == Owners
LayersOf(r) == {r[2]}

VARIABLES
  (* GPU workers *)
  at,         \* where the worker's main thread is
  connector,  \* "none", "registered", "open" or "closed"
  pinned,     \* its buffers are registered with CUDA
  thread,     \* request thread: "none", "get", "stage" or "stopped"
  stale,      \* _qwen38_stale_ready_possible
  stream,     \* model stream: "idle", or "wait" for the ready flag
  ready, consumed,
  (* handle of the spawner *)
  handle,     \* "none", "open" or "closed"
  death,      \* the write end of the death pipe is open
  (* CPU process *)
  cpu,        \* where it is
  registrations, \* workers whose registration it has received
  stop,       \* shutdown_event
  batch,      \* requests it is handling, by their sender
  claimed,    \* the one whose destinations it has claimed
  status,     \* what is in the ready pipe: "empty", "READY" or "FAILURE"
  mail,       \* messages in its socket
  (* executor *)
  serving, halt, steps, faults

workerVars == <<at, connector, pinned, thread, stale>>
flagVars == <<stream, ready, consumed>>
handleVars == <<handle, death>>
cpuVars == <<cpu, registrations, stop, batch, claimed, status>>
executorVars == <<serving, halt, steps, faults>>
vars == <<workerVars, flagVars, handleVars, cpuVars, mail, executorVars>>

Init ==
  /\ at = [r \in Ranks |-> "spawn"]
  /\ connector = [r \in Ranks |-> "none"]
  /\ pinned = [r \in Ranks |-> FALSE]
  /\ thread = [r \in Ranks |-> "none"]
  /\ stale = [r \in Ranks |-> TRUE]
  /\ stream = [r \in Ranks |-> "idle"]
  /\ ready = [r \in Ranks |-> FALSE]
  /\ consumed = [r \in Ranks |-> TRUE]
  /\ handle = "none" /\ death = FALSE
  /\ cpu = "none" /\ registrations = {} /\ stop = FALSE /\ batch = {} /\ claimed = {}
  /\ status = "empty" /\ mail = {}
  /\ serving = FALSE /\ halt = FALSE /\ steps = [d \in Dps |-> 0] /\ faults = 0

Goto(r, from, to) == at[r] = from /\ at' = [at EXCEPT ![r] = to]
Fault == faults < MaxFaults /\ faults' = faults + 1

-----------------------------------------------------------------------------
(* Start-up of a GPU worker.                                               *)

(* spawn_ple_offload: only the first rank, and only if it has a PLE layer, *)
(* starts the process and keeps the ends of its two pipes.                 *)
Spawn(r) ==
  /\ Goto(r, "spawn", "load")
  /\ IF HasPle(r) /\ r = Spawner
       THEN handle' = "open" /\ death' = TRUE /\ cpu' = "load"
       ELSE UNCHANGED <<handleVars, cpu>>
  /\ UNCHANGED <<connector, pinned, thread, stale, flagVars, registrations, stop,
                 batch, claimed, status, mail, executorVars>>

(* load_model, then _setup_ple_offload: the connector sends its            *)
(* registration before it pins its buffers.                                *)
Register(r) ==
  /\ HasPle(r) /\ at[r] = "load" /\ connector[r] = "none"
  /\ connector' = [connector EXCEPT ![r] = "registered"]
  /\ mail' = mail \union {<<"registration", r>>}
  /\ UNCHANGED <<at, pinned, thread, stale, flagVars, handleVars, cpuVars, executorVars>>

OpenConnector(r) ==
  /\ connector[r] = "registered" /\ Goto(r, "load", "loaded")
  /\ connector' = [connector EXCEPT ![r] = "open"]
  /\ pinned' = [pinned EXCEPT ![r] = TRUE]
  /\ thread' = [thread EXCEPT ![r] = IF Tp(r) = 0 THEN "get" ELSE "none"]
  /\ UNCHANGED <<stale, flagVars, handleVars, cpuVars, mail, executorVars>>

LoadWithoutPle(r) ==
  /\ ~HasPle(r) /\ Goto(r, "load", "loaded")
  /\ UNCHANGED <<connector, pinned, thread, stale, flagVars, handleVars, cpuVars,
                 mail, executorVars>>

(* An exception in load_model or in the connector's constructor, which     *)
(* closes what it opened (linger 0: the registration may be lost).         *)
LoadFails(r) ==
  /\ Fault
  /\ Goto(r, "load", "stop")
  /\ connector' = [connector EXCEPT ![r] = IF @ = "none" THEN @ ELSE "closed"]
  /\ mail' \in {mail, mail \ {<<"registration", r>>}}
  /\ UNCHANGED <<pinned, thread, stale, flagVars, handleVars, cpuVars, serving, halt, steps>>

(* wait_ple_offload_ready: without a handle it returns; otherwise poll,    *)
(* then the message or end of file once the process, which holds the only  *)
(* write end, has gone.                                                    *)
WriterOpen == cpu \in {"load", "accept"}

StartWait(r) ==
  /\ Goto(r, "loaded", IF r = Spawner /\ handle = "open" THEN "poll" ELSE "ready")
  /\ UNCHANGED <<connector, pinned, thread, stale, flagVars, handleVars, cpuVars,
                 mail, executorVars>>

WaitReturns(r) ==
  /\ status = "READY" /\ Goto(r, "poll", "ready")
  /\ UNCHANGED <<connector, pinned, thread, stale, flagVars, handleVars, cpuVars,
                 mail, executorVars>>

WaitRaises(r) ==
  /\ \/ status = "FAILURE"
     \/ status = "empty" /\ ~WriterOpen
  /\ Goto(r, "poll", "stop")
  /\ UNCHANGED <<connector, pinned, thread, stale, flagVars, handleVars, cpuVars,
                 mail, executorVars>>

(* VLLM_PLE_OFFLOAD_READY_TIMEOUT: time may pass at any point.             *)
WaitTimesOut(r) ==
  /\ Goto(r, "poll", "stop")
  /\ UNCHANGED <<connector, pinned, thread, stale, flagVars, handleVars, cpuVars,
                 mail, executorVars>>

StartUp(r) ==
  \/ Spawn(r) \/ Register(r) \/ OpenConnector(r) \/ LoadWithoutPle(r)
  \/ StartWait(r) \/ WaitReturns(r) \/ WaitRaises(r)

-----------------------------------------------------------------------------
(* The CPU process.                                                        *)

(* proc_main: the weights of the PLE layers are loaded and verified, the   *)
(* socket is bound.                                                        *)
CpuLoads ==
  /\ cpu = "load" /\ cpu' = "accept"
  /\ UNCHANGED <<workerVars, flagVars, handleVars, registrations, stop, batch, claimed, status,
                 mail, executorVars>>

(* accept_registrations: a blocking receive for each expected worker.      *)
Accept(r) ==
  /\ cpu = "accept" /\ Cardinality(registrations) < NumWorkers
  /\ <<"registration", r>> \in mail
  /\ mail' = mail \ {<<"registration", r>>}
  /\ registrations' = registrations \union {r}
  /\ UNCHANGED <<workerVars, flagVars, handleVars, cpu, stop, batch, claimed, status,
                 executorVars>>

(* Every tensor-parallel rank of every data-parallel rank, with the layers *)
(* of the CPU model.                                                       *)
Complete(rs) ==
  /\ \A d \in Dps : {Tp(r) : r \in {q \in rs : Dp(q) = d}} = 0 .. TPSize - 1
  /\ \A r \in rs : LayersOf(r) = CpuLayers

Announce ==
  /\ cpu = "accept" /\ Cardinality(registrations) = NumWorkers
  /\ IF Complete(registrations)
       THEN cpu' = "serve" /\ status' = "READY"
       ELSE cpu' = "exit" /\ status' = "FAILURE"
  /\ UNCHANGED <<workerVars, flagVars, handleVars, registrations, stop, batch, claimed, mail,
                 executorVars>>

(* The death monitor thread: end of file on the death pipe.                *)
DeathSeen ==
  /\ cpu \notin {"none", "exit"} /\ ~death /\ ~stop
  /\ stop' = TRUE
  /\ UNCHANGED <<workerVars, flagVars, handleVars, cpu, registrations, batch, claimed, status,
                 mail, executorVars>>

(* busy_loop: the event is looked at between two polls.                    *)
Leave ==
  /\ cpu = "serve" /\ stop
  /\ cpu' = "exit"
  /\ UNCHANGED <<workerVars, flagVars, handleVars, registrations, stop, batch, claimed, status,
                 mail, executorVars>>

Receive ==
  LET requests == {r \in Ranks : <<"request", r>> \in mail}
  IN /\ cpu = "serve" /\ ~stop /\ requests # {}
     /\ cpu' = "handle" /\ batch' = requests
     /\ mail' = mail \ {<<"request", r>> : r \in requests}
     /\ UNCHANGED <<workerVars, flagVars, handleVars, registrations, stop, claimed, status,
                    executorVars>>

(* _handle_requests for one data-parallel rank: the destinations are       *)
(* claimed once all of them are consumed, whatever the shutdown event      *)
(* says, and published together.                                           *)
Claim(r) ==
  /\ cpu = "handle" /\ claimed = {} /\ r \in batch
  /\ \A t \in Group(Dp(r)) : consumed[t]
  /\ consumed' = [t \in Ranks |-> consumed[t] /\ t \notin Group(Dp(r))]
  /\ ready' = [t \in Ranks |-> ready[t] /\ t \notin Group(Dp(r))]
  /\ claimed' = {r}
  /\ UNCHANGED <<workerVars, stream, handleVars, cpu, registrations, stop, batch,
                 status, mail, executorVars>>

Publish(r) ==
  /\ cpu = "handle" /\ r \in claimed
  /\ ready' = [t \in Ranks |-> ready[t] \/ t \in Group(Dp(r))]
  /\ claimed' = {} /\ batch' = batch \ {r}
  /\ cpu' = IF batch' = {} THEN "serve" ELSE "handle"
  /\ UNCHANGED <<workerVars, stream, consumed, handleVars, registrations, stop, status,
                 mail, executorVars>>

(* An exception, reported if READY has not been sent, or a kill by the     *)
(* system, which closes the pipe without a word.                           *)
CpuFails ==
  /\ Fault
  /\ cpu \notin {"none", "exit"} /\ cpu' = "exit"
  /\ status' \in IF WriterOpen THEN {"empty", "FAILURE"} ELSE {status}
  /\ UNCHANGED <<workerVars, flagVars, handleVars, registrations, stop, batch, claimed, mail,
                 serving, halt, steps>>

Cpu ==
  \/ CpuLoads \/ Announce \/ DeathSeen \/ Leave \/ Receive
  \/ \E r \in Ranks : Accept(r) \/ Claim(r) \/ Publish(r)

-----------------------------------------------------------------------------
(* Serving.                                                                *)

(* The executor has the answer of every worker's start-up call.  Graphs    *)
(* have been captured since: signal_dummy_outputs has left the ready flags *)
(* set.                                                                    *)
Serve ==
  /\ ~serving /\ ~halt /\ \A r \in Ranks : at[r] = "ready"
  /\ serving' = TRUE
  /\ ready' = [r \in Ranks |-> HasPle(r)]
  /\ UNCHANGED <<workerVars, stream, consumed, handleVars, cpuVars, mail, halt, steps, faults>>

(* A real batch of a data-parallel rank: the first tensor-parallel rank    *)
(* queues the request; a rank that may see a stale ready flag waits for    *)
(* the claim before it launches, the others launch at once.                *)
Step(d) ==
  LET mustClaim == {r \in Group(d) : stale[r]}
  IN /\ serving /\ ~halt /\ steps[d] < MaxSteps
     /\ \A r \in Ranks : Dp(r) = d => at[r] = "ready" /\ stream[r] = "idle"
     /\ steps' = [steps EXCEPT ![d] = @ + 1]
     /\ thread' = [r \in Ranks |-> IF r \in Group(d) /\ Tp(r) = 0 THEN "stage" ELSE thread[r]]
     /\ at' = [r \in Ranks |-> IF r \in mustClaim THEN "claim" ELSE at[r]]
     /\ stale' = [r \in Ranks |-> stale[r] /\ r \notin mustClaim]
     /\ stream' = [r \in Ranks |-> IF r \in Group(d) \ mustClaim THEN "wait" ELSE stream[r]]
     /\ UNCHANGED <<connector, pinned, ready, consumed, handleVars, cpuVars, mail,
                    serving, halt, faults>>

(* _launch: consumed becomes 0 when the CPU process claims the buffer, or  *)
(* the wait times out.                                                     *)
Claimed(r) ==
  /\ ~consumed[r] /\ Goto(r, "claim", "ready")
  /\ stream' = [stream EXCEPT ![r] = "wait"]
  /\ UNCHANGED <<connector, pinned, thread, stale, ready, consumed, handleVars, cpuVars,
                 mail, executorVars>>

ClaimTimesOut(r) ==
  /\ Goto(r, "claim", "stop")
  /\ UNCHANGED <<connector, pinned, thread, stale, flagVars, handleVars, cpuVars, mail,
                 executorVars>>

(* The request thread: inputs staged, message sent.                        *)
Send(r) ==
  /\ thread[r] = "stage"
  /\ thread' = [thread EXCEPT ![r] = "get"]
  /\ mail' = mail \union {<<"request", r>>}
  /\ UNCHANGED <<at, connector, pinned, stale, flagVars, handleVars, cpuVars, executorVars>>

(* The model stream: wait for ready, copy, give the buffer back.           *)
Copy(r) ==
  /\ stream[r] = "wait" /\ ready[r]
  /\ stream' = [stream EXCEPT ![r] = "idle"]
  /\ ready' = [ready EXCEPT ![r] = FALSE]
  /\ consumed' = [consumed EXCEPT ![r] = TRUE]
  /\ UNCHANGED <<workerVars, handleVars, cpuVars, mail, executorVars>>

Serving ==
  \/ Serve \/ \E d \in Dps : Step(d)
  \/ \E r \in Ranks : Claimed(r) \/ Send(r) \/ Copy(r)

-----------------------------------------------------------------------------
(* Failure and shutdown.                                                   *)

(* A worker process is killed: its streams and threads go with it, and so  *)
(* does the write end of the death pipe.                                   *)
Alive(r) == at[r] \notin {"down", "dead"}

Crash(r) ==
  /\ Fault
  /\ Alive(r) /\ at' = [at EXCEPT ![r] = "dead"]
  /\ stream' = [stream EXCEPT ![r] = "idle"]
  /\ thread' = [thread EXCEPT ![r] = IF @ = "none" THEN @ ELSE "stopped"]
  /\ death' = (death /\ r # Spawner)
  /\ UNCHANGED <<connector, pinned, stale, ready, consumed, handle, cpuVars, mail,
                 serving, halt, steps>>

(* The executor stops all workers after the first failure, or when it is   *)
(* asked to once it serves.                                                *)
Failing ==
  \E r \in Ranks : at[r] \in {"dead", "stop", "join", "term", "sync", "close", "down"}

Halt ==
  /\ ~halt /\ (Failing \/ serving)
  /\ halt' = TRUE
  /\ UNCHANGED <<workerVars, flagVars, handleVars, cpuVars, mail, serving, steps, faults>>

Interruptible(r) == at[r] \in {"spawn", "load", "loaded", "poll", "ready", "claim"}

Stop(r) ==
  /\ halt /\ Interruptible(r)
  /\ at' = [at EXCEPT ![r] = "stop"]
  /\ UNCHANGED <<connector, pinned, thread, stale, flagVars, handleVars, cpuVars, mail,
                 executorVars>>

(* Worker.shutdown: PleOffloadWorkerHandle.close first.  Closing the death *)
(* pipe asks the process to leave; after five seconds SIGTERM, whose       *)
(* handler sets the same event, and then SIGKILL.                          *)
Shutdown(r) ==
  LET owns == r = Spawner /\ handle = "open"
  IN /\ Goto(r, "stop", IF owns THEN "join" ELSE "sync")
     /\ IF owns THEN handle' = "closed" /\ death' = FALSE ELSE UNCHANGED handleVars
     /\ UNCHANGED <<connector, pinned, thread, stale, flagVars, cpuVars, mail, executorVars>>

Joined(r) ==
  /\ at[r] \in {"join", "term"} /\ cpu = "exit"
  /\ at' = [at EXCEPT ![r] = "sync"]
  /\ UNCHANGED <<connector, pinned, thread, stale, flagVars, handleVars, cpuVars, mail,
                 executorVars>>

(* Mutant: close joins without a timeout.                                  *)
JoinsForever(r) ==
  /\ cpu = "exit" /\ Goto(r, "join", "term") /\ stop' = TRUE
  /\ UNCHANGED <<connector, pinned, thread, stale, flagVars, handleVars, cpu,
                 registrations, batch, claimed, status, mail, executorVars>>

Terminate(r) ==
  /\ cpu # "exit" /\ Goto(r, "join", "term") /\ stop' = TRUE
  /\ UNCHANGED <<connector, pinned, thread, stale, flagVars, handleVars, cpu,
                 registrations, batch, claimed, status, mail, executorVars>>

Kill(r) ==
  /\ cpu # "exit" /\ Goto(r, "term", "sync") /\ cpu' = "exit"
  /\ UNCHANGED <<connector, pinned, thread, stale, flagVars, handleVars,
                 registrations, stop, batch, claimed, status, mail, executorVars>>

(* model_runner.shutdown: the device is synchronised before the connector  *)
(* is closed.                                                              *)
(* Mutant: the connector is closed while the device still runs.            *)
NoSynchronize(r) ==
  /\ Goto(r, "sync", "close")
  /\ UNCHANGED <<connector, pinned, thread, stale, flagVars, handleVars, cpuVars, mail,
                 executorVars>>

Synchronize(r) ==
  /\ stream[r] = "idle" /\ Goto(r, "sync", "close")
  /\ UNCHANGED <<connector, pinned, thread, stale, flagVars, handleVars, cpuVars, mail,
                 executorVars>>

(* PleOffloadConnector.close: a sentinel ends the request thread when it   *)
(* comes back to its queue; then the buffers are unregistered.             *)
StopThread(r) ==
  /\ at[r] = "close" /\ thread[r] = "get"
  /\ thread' = [thread EXCEPT ![r] = "stopped"]
  /\ UNCHANGED <<at, connector, pinned, stale, flagVars, handleVars, cpuVars, mail,
                 executorVars>>

CloseConnector(r) ==
  /\ thread[r] \in {"none", "stopped"} /\ Goto(r, "close", "down")
  /\ connector' = [connector EXCEPT ![r] = IF @ = "none" THEN @ ELSE "closed"]
  /\ pinned' = [pinned EXCEPT ![r] = FALSE]
  /\ UNCHANGED <<thread, stale, flagVars, handleVars, cpuVars, mail, executorVars>>

(* The join of five seconds gave up: nothing is released.                  *)
CloseGivesUp(r) ==
  /\ thread[r] \notin {"none", "stopped"} /\ Goto(r, "close", "down")
  /\ UNCHANGED <<connector, pinned, thread, stale, flagVars, handleVars, cpuVars, mail,
                 executorVars>>

(* The part of a shutdown that no timeout drives, and all of it: the two   *)
(* joins of five seconds do return.                                        *)
ClosingUnaided(r) ==
  Stop(r) \/ Shutdown(r) \/ Joined(r) \/ Synchronize(r) \/ StopThread(r) \/ CloseConnector(r)
Closing(r) == ClosingUnaided(r) \/ Terminate(r) \/ Kill(r)

Next ==
  \/ Serving \/ Cpu \/ CpuFails \/ Halt
  \/ \E r \in Ranks :
       \/ StartUp(r) \/ Closing(r)
       \/ LoadFails(r) \/ WaitTimesOut(r) \/ ClaimTimesOut(r) \/ CloseGivesUp(r) \/ Crash(r)

Spec == Init /\ [][Next]_vars

(* Threads, streams and processes run on; the executor reacts to a         *)
(* failure.  Of the timeouts only those of the joins in                    *)
(* PleOffloadWorkerHandle.close (Terminate, Kill) are forced; nothing      *)
(* forces a failure, a timed-out wait for READY, for a claim or for the    *)
(* request thread, or a request to stop.                                   *)
FairSpec ==
  /\ Spec
  /\ \A r \in Ranks : WF_vars(StartUp(r)) /\ WF_vars(Closing(r))
  /\ \A r \in Ranks : WF_vars(Claimed(r)) /\ WF_vars(Send(r)) /\ WF_vars(Copy(r))
  /\ WF_vars(Cpu) /\ WF_vars(Serve) /\ WF_vars(Failing /\ Halt)

-----------------------------------------------------------------------------
TypeOK ==
  /\ at \in [Ranks -> {"spawn", "load", "loaded", "poll", "ready", "claim", "stop", "join",
                       "term", "sync", "close", "down", "dead"}]
  /\ connector \in [Ranks -> {"none", "registered", "open", "closed"}]
  /\ {pinned, stale, ready, consumed} \subseteq [Ranks -> BOOLEAN]
  /\ thread \in [Ranks -> {"none", "get", "stage", "stopped"}]
  /\ stream \in [Ranks -> {"idle", "wait"}]
  /\ handle \in {"none", "open", "closed"} /\ {death, stop, serving, halt} \subseteq BOOLEAN
  /\ cpu \in {"none", "load", "accept", "serve", "handle", "exit"}
  /\ registrations \subseteq Ranks /\ batch \subseteq Ranks /\ claimed \subseteq batch
  /\ status \in {"empty", "READY", "FAILURE"}
  /\ mail \subseteq ({"registration", "request"} \X Ranks)

(* "Wait until weights and every TP registration are ready."               *)
(* (gpu_worker.py:304): when the executor begins to serve, the CPU process *)
(* has the registration of every worker that will wait for its flags.      *)
ServedWhenReady == serving => \A r \in Ranks : HasPle(r) => r \in registrations

(* No buffer is unregistered from CUDA while a stream may still copy from  *)
(* it or the request thread may still write it (connector.py, close).      *)
UnpinnedUnused ==
  \A r \in Ranks : connector[r] = "closed" /\ ~pinned[r] /\ at[r] # "dead" =>
    stream[r] = "idle" /\ thread[r] \in {"none", "stopped"}

(* A spawner that has been shut down leaves no CPU process behind, even    *)
(* one blocked in a receive or in a flag wait (PleOffloadWorkerHandle).    *)
ClosedMeansGone == handle = "closed" /\ at[Spawner] = "down" => cpu = "exit"

(* Start-up ends without the help of a timeout (no WaitTimesOut): every    *)
(* failure of a worker or of the CPU process reaches the waiting spawner.  *)
StartupEnds == <>(serving \/ halt)

(* Every shutdown ends: the workers release what they hold (gpu_worker.py, *)
(* shutdown).                                                              *)
AllDown == \A r \in Ranks : ~Alive(r)
ShutdownEnds == [](halt => <>AllDown)

(* A forward is on its way, from its launch to the copy of its output.     *)
InFlight ==
  \/ batch # {} \/ \E r \in Ranks : <<"request", r>> \in mail
  \/ \E r \in Ranks : at[r] = "claim" \/ thread[r] = "stage" \/ stream[r] = "wait"

(* A worker synchronises a stream whose flag the CPU process, gone, will   *)
(* never set (model_runner.shutdown after PleOffloadWorkerHandle.close).   *)
Orphaned == cpu = "exit" /\ \E r \in Ranks : at[r] = "sync" /\ stream[r] = "wait" /\ ~ready[r]

(* Nothing else keeps a shutdown, at any point of start-up or of a         *)
(* forward, from its end (with the timeouts of close's joins).             *)
EndsUnlessOrphaned == [](halt => <>(AllDown \/ Orphaned))

(* Between forwards a shutdown needs no timeout at all.                    *)
IdleShutdownEnds == [](halt /\ serving /\ ~InFlight => <>AllDown)

(* "Parent exited, shutting down." (worker.py, monitor_parent): the CPU    *)
(* process does not outlive its spawner.                                   *)
DiesWithParent == [](at[Spawner] = "dead" => <>(cpu \in {"none", "exit"}))
=============================================================================
