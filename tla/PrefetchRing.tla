---------------------------- MODULE PrefetchRing ----------------------------
(***************************************************************************)
(* The prefetching weight offloader (offloader/prefetch.py) and its use by *)
(* the CUDA graph manager.  The last NumInGroup modules of every group     *)
(* keep their weights in pinned host memory; Step buffers on the GPU are   *)
(* reused in a circle, and the forward hook of a layer waits for the copy  *)
(* of its weights, runs, and starts the copy of the layer Step further.    *)
(*                                                                         *)
(* The host only issues: work runs in the order of the compute stream and  *)
(* the copy stream, and inside a replayed graph in two lanes of its own.   *)
(* A wait is the number of operations of the other lane that must still    *)
(* end, so it shrinks as they do.  A layer stands for one parameter.       *)
(***************************************************************************)
EXTENDS Integers, Sequences, FiniteSets, FiniteSetsExt

CONSTANTS
  NumModules, GroupSize, NumInGroup,   \* which modules are offloaded
  Step,        \* prefetch_step: layers ahead, and buffers per key
  KeyOf(_),    \* name, shape, stride and type of a layer's parameter
  MaxQueue     \* bound: operations the host may be ahead of the GPU

(* What the constants may be.                                              *)
PrefetchAssumption ==
  /\ {NumModules, GroupSize, NumInGroup, Step, MaxQueue} \subseteq Nat \ {0}
  /\ NumInGroup <= GroupSize

None == -1

(* Modules that are offloaded, counted from 0 as they are wrapped.         *)
Selected  == {m \in 0 .. NumModules - 1 : m % GroupSize >= GroupSize - NumInGroup}
NumLayers == Cardinality(Selected)
Layers    == 0 .. NumLayers - 1
Streams   == {"compute", "copy"}
Lanes     == Streams \union {"gcompute", "gcopy"}

VARIABLES
  pc, layer,     \* what the host does; the next layer of the forward
  param, store,  \* per layer: weights of the module, their host copy
  queue, busy,   \* per lane: operations not ended, whether the first runs
  graph,         \* the captured operations, per stream, and the final join
  buf,           \* per key and slot: the layer whose weights it holds
  ev, evValid, inCapture   \* per layer: _copy_done_event and the two flags

loading == <<param, store>>
flags   == <<ev, evValid, inCapture>>
lanes   == <<queue, busy, buf>>
vars    == <<pc, layer, loading, lanes, graph, flags>>

(* Each layer's buffer.  Mutant: the whole key shares one.                 *)
OneBuffer(l) == <<KeyOf(l), 0>>
Buffer(l) == <<KeyOf(l), l % Step>>
Buffers == {<<KeyOf(l), s>> : l \in Layers, s \in 0 .. Step - 1}

Gone == [v |-> 0, pinned |-> FALSE]
Op(what, l, after) == [what |-> what, layer |-> l, after |-> after]

-----------------------------------------------------------------------------
(* Loading.  Versions: 1 as loaded, 2 as processed; 0 the parameter is     *)
(* gone.                                                                   *)

Wrapped == [v |-> 1, pinned |-> TRUE]

Init ==
  /\ pc = "load" /\ layer = 0
  /\ param = [l \in Layers |-> Wrapped]
  /\ store = param
  /\ queue = [k \in Lanes |-> <<>>] /\ busy = [k \in Lanes |-> FALSE]
  /\ graph = [captured |-> FALSE, compute |-> <<>>, copy |-> <<>>, join |-> 0]
  /\ buf = [b \in Buffers |-> None]
  /\ ev = [l \in Layers |-> 0] /\ evValid = [l \in Layers |-> FALSE]
  /\ inCapture = [l \in Layers |-> FALSE]

(* process_weights_after_loading may write in place, put the weights into  *)
(* a new host tensor, or delete the parameter.                             *)
Process(l) ==
  /\ pc = "load" /\ layer = l
  /\ layer' = l + 1
  /\ \/ param' = [param EXCEPT ![l].v = 2] /\ store' = [store EXCEPT ![l].v = 2]
     \/ param' = [param EXCEPT ![l] = [v |-> 2, pinned |-> FALSE]] /\ UNCHANGED store
     \/ param' = [param EXCEPT ![l] = Gone] /\ UNCHANGED store
  /\ UNCHANGED <<pc, lanes, graph, flags>>

(* The host copy taken anew from the parameter, in pinned memory.  Mutant: *)
(* the copy of the time of wrapping is kept.                               *)
KeptStore(l) == store[l]
SyncedStore(l) == IF param[l] = Gone THEN Gone ELSE [v |-> param[l].v, pinned |-> TRUE]

First == {l \in Layers : l < Step}
PostInit ==
  /\ pc = "load" /\ layer = NumLayers
  /\ pc' = "idle" /\ layer' = 0
  /\ store' = [l \in Layers |-> SyncedStore(l)]
  /\ queue' = [queue EXCEPT !["copy"] = [i \in 1 .. Cardinality(First) |-> Op("copy", i - 1, 0)]]
  /\ ev' = [l \in Layers |-> IF l \in First THEN l + 1 ELSE 0]
  /\ evValid' = [l \in Layers |-> l \in First]
  /\ UNCHANGED <<param, busy, buf, graph, inCapture>>

-----------------------------------------------------------------------------
(* The forward hook.                                                       *)

NextLayer(l) == (l + Step) % NumLayers

(* Outside a capture the wait is on the layer's own event when that was    *)
(* recorded outside one.                                                   *)
EagerWait(l) == IF evValid[l] THEN ev[l] ELSE Len(queue["copy"])

(* Inside a capture, copies of before it are not waited for.               *)
CaptureWait(l) == IF inCapture[l] THEN ev[l] ELSE 0

(* A copy waits for what the compute stream has been given.  Mutants: not; *)
(* for the next layer too.                                                 *)
NoFork(q) == 0
LateFork(q) == Len(q) + 1
Fork(q) == Len(q)

(* Events recorded in a capture are of no use outside.  Mutant: kept.      *)
AlwaysValid(capturing) == TRUE
ValidForEager(capturing) == ~capturing

EagerLayer ==
  /\ pc = "eager" /\ layer < NumLayers /\ Len(queue["compute"]) < MaxQueue
  /\ layer' = layer + 1
  /\ LET n == NextLayer(layer)
         compute == Append(queue["compute"], Op("run", layer, EagerWait(layer)))
     IN  /\ queue' = [queue EXCEPT !["compute"] = compute,
                                   !["copy"] = Append(@, Op("copy", n, Fork(compute)))]
         /\ ev' = [ev EXCEPT ![n] = Len(queue'["copy"])]
         /\ evValid' = [evValid EXCEPT ![n] = ValidForEager(FALSE)]
         /\ inCapture' = [inCapture EXCEPT ![n] = FALSE]
  /\ UNCHANGED <<pc, loading, busy, buf, graph>>

CaptureLayer ==
  /\ pc = "capture" /\ layer < NumLayers
  /\ layer' = layer + 1
  /\ LET n == NextLayer(layer)
         compute == Append(graph.compute, Op("run", layer, CaptureWait(layer)))
     IN  /\ graph' = [graph EXCEPT !.compute = compute,
                                   !.copy = Append(@, Op("copy", n, Fork(compute)))]
         /\ ev' = [ev EXCEPT ![n] = Len(graph'.copy)]
         /\ evValid' = [evValid EXCEPT ![n] = ValidForEager(TRUE)]
         /\ inCapture' = [inCapture EXCEPT ![layer] = FALSE, ![n] = TRUE]
  /\ UNCHANGED <<pc, loading, lanes>>

-----------------------------------------------------------------------------
(* The runner: eager forwards, one capture after a warm-up, replays.       *)

StartEager ==
  /\ pc = "idle" /\ layer = 0 /\ pc' = "eager"
  /\ UNCHANGED <<layer, loading, lanes, graph, flags>>

EndEager ==
  /\ pc = "eager" /\ layer = NumLayers
  /\ pc' = "idle" /\ layer' = 0
  /\ UNCHANGED <<loading, lanes, graph, flags>>

(* sync_prev_onload, and the synchronisation of the device that entering   *)
(* a capture brings with it.                                               *)
StartCapture ==
  /\ pc = "idle" /\ ~graph.captured
  /\ queue["compute"] = <<>> /\ queue["copy"] = <<>>
  /\ pc' = "capture"
  /\ UNCHANGED <<layer, loading, lanes, graph, flags>>

(* join_after_forward: the layers whose copy nobody has waited for.        *)
(* Mutant: the copy stream is not joined.                                  *)
JoinNone == 0
Joined == Max({ev[l] : l \in {k \in Layers : inCapture[k]}} \union {0})

EndCapture ==
  /\ pc = "capture" /\ layer = NumLayers
  /\ pc' = "idle" /\ layer' = 0
  /\ graph' = [graph EXCEPT !.captured = TRUE, !.join = Joined]
  /\ inCapture' = [l \in Layers |-> FALSE]
  /\ UNCHANGED <<loading, lanes, ev, evValid>>

(* sync_prev_onload before a replay.  Mutant: without it.                  *)
NoSync == 0
SyncPrevOnload == Len(queue["copy"])

Replay ==
  /\ pc = "idle" /\ graph.captured /\ Len(queue["compute"]) < MaxQueue
  /\ queue' = [queue EXCEPT !["compute"] = Append(@, Op("graph", None, SyncPrevOnload))]
  /\ UNCHANGED <<pc, layer, loading, busy, buf, graph, flags>>

-----------------------------------------------------------------------------
(* The GPU.                                                                *)

Other(k) == CASE k = "compute"  -> "copy"  [] k = "copy"  -> "compute"
              [] k = "gcompute" -> "gcopy" [] k = "gcopy" -> "gcompute"
Ready(k) == queue[k] # <<>> /\ ~busy[k] /\ Head(queue[k]).after = 0
Less(n)  == IF n = 0 THEN 0 ELSE n - 1

Begin(k) ==
  /\ Ready(k)
  /\ busy' = [busy EXCEPT ![k] = TRUE]
  /\ LET op == Head(queue[k]) IN
       CASE op.what = "copy" /\ store[op.layer] # Gone ->
              buf' = [buf EXCEPT ![Buffer(op.layer)] = None] /\ UNCHANGED queue
         [] op.what = "graph" ->
              /\ queue' = [queue EXCEPT !["gcompute"] = graph.compute, !["gcopy"] = graph.copy]
              /\ UNCHANGED buf
         [] OTHER -> UNCHANGED <<queue, buf>>
  /\ UNCHANGED <<pc, layer, loading, graph, flags>>

End(k) ==
  /\ busy[k]
  /\ LET op == Head(queue[k]) IN
       /\ op.what = "graph" => queue["gcompute"] = <<>> /\ queue["gcopy"] = <<>>
       /\ buf' = IF op.what = "copy" /\ store[op.layer] # Gone
                   THEN [buf EXCEPT ![Buffer(op.layer)] = op.layer] ELSE buf
  /\ busy' = [busy EXCEPT ![k] = FALSE]
  /\ queue' = [queue EXCEPT ![k] = Tail(@),
       ![Other(k)] = [i \in DOMAIN @ |-> [@[i] EXCEPT !.after = Less(@)]]]
  /\ ev' = IF k = "copy" THEN [l \in Layers |-> IF evValid[l] THEN Less(ev[l]) ELSE ev[l]] ELSE ev
  /\ UNCHANGED <<pc, layer, loading, graph, evValid, inCapture>>

Next ==
  \/ \E l \in Layers : Process(l)
  \/ PostInit \/ StartEager \/ EagerLayer \/ EndEager
  \/ StartCapture \/ CaptureLayer \/ EndCapture \/ Replay
  \/ \E k \in Lanes : Begin(k) \/ End(k)

Spec == Init /\ [][Next]_vars
FairSpec == Spec /\ \A k \in Lanes : WF_vars(Begin(k)) /\ WF_vars(End(k))

-----------------------------------------------------------------------------
TypeOK ==
  /\ pc \in {"load", "idle", "eager", "capture"} /\ layer \in 0 .. NumLayers
  /\ \A k \in Lanes : Len(queue[k]) <= MaxQueue + NumLayers /\ busy[k] \in BOOLEAN
  /\ buf \in [Buffers -> Layers \union {None}]
  /\ evValid \in [Layers -> BOOLEAN] /\ inCapture \in [Layers -> BOOLEAN]
  /\ \A l \in Layers : ev[l] \in Nat /\ (evValid[l] => ev[l] <= Len(queue["copy"]))

(* A layer runs on its own weights, complete, from beginning to end        *)
(* (start_onload_to_static: "we could overwrite the buffer while it's      *)
(* being read").                                                           *)
RunsOnOwnWeights ==
  \A k \in {"compute", "gcompute"} : busy[k] =>
    LET op == Head(queue[k])
    IN  op.what = "run" /\ store[op.layer] # Gone => buf[Buffer(op.layer)] = op.layer

(* No buffer is written by two copies at once, of the copy stream and of a *)
(* graph (run_fullgraph: "replay could overwrite static buffers while      *)
(* those copies are still in flight").                                     *)
OneWriter ==
  busy["copy"] /\ busy["gcopy"] =>
    Buffer(Head(queue["copy"]).layer) # Buffer(Head(queue["gcopy"]).layer)

(* What is copied are the processed weights, from pinned memory (the       *)
(* assertion of start_onload_to_static; sync_cpu_storage).                 *)
SourcesFinal == pc # "load" => \A l \in Layers : store[l] \in {Gone, [v |-> 2, pinned |-> TRUE]}

(* A graph is closed with every copy of it joined (capture: "to avoid      *)
(* unjoined stream error").                                                *)
CaptureJoined ==
  graph.captured =>
    Max({graph.join} \union {graph.compute[i].after : i \in DOMAIN graph.compute}) = Len(graph.copy)

(* Every operation given to the GPU begins and ends: waits and forks never *)
(* close a circle, in a stream or in a graph (_wait_for_layer and          *)
(* start_onload_to_static).                                                *)
ForwardsEnd == \A k \in Lanes : (queue[k] # <<>> ~> busy[k]) /\ (busy[k] ~> ~busy[k])
=============================================================================
