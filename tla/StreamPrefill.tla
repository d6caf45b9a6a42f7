---------------------------- MODULE StreamPrefill ----------------------------
(***************************************************************************)
(* Streamed prefill of one rank (stream_v2.py): the cold experts of every  *)
(* layer pass through GPU memory in groups.                                *)
(*                                                                         *)
(* The host thread walks the layers and puts work on three CUDA streams:   *)
(* the copy stream fills two raw buffers from the arena, the tail stream   *)
(* fills a third from pinned bounce buffers, the compute stream converts   *)
(* and multiplies.  Nothing but events keeps a buffer from being filled    *)
(* before it has been read.  A reader thread fills the bounce buffers from *)
(* the checkpoint, a few layers ahead; a buffer belongs to a layer modulo  *)
(* their number.  Expert maps are built in one of two host buffers per     *)
(* step and copied to the GPU on the compute stream.                       *)
(*                                                                         *)
(* An event is a counter: recorded[e] by the host when it enqueues the     *)
(* record, done[e] when the stream gets there; a wait is for the value     *)
(* recorded when it is enqueued.  Groups are numbered through all steps;   *)
(* a layer has PerLayer arena groups and one of tail experts.              *)
(*                                                                         *)
(* Left out: the synchronisation after a step (markers), and the plan made *)
(* when the state is constructed, whose maps no step uses.                 *)
(***************************************************************************)
EXTENDS Integers, Sequences

CONSTANTS
  NumLayers,
  PerLayer,    \* arena groups of a layer
  HasTail,     \* some experts are not in the arena
  NumBounce,   \* tail buffers
  MaxSteps     \* bound on prefill steps

(* What the constants may be.                                              *)
StreamAssumption ==
  /\ {NumLayers, PerLayer} \subseteq Nat \ {0}
  /\ HasTail \in BOOLEAN /\ NumBounce \in Nat \ {0, 1} /\ MaxSteps \in Nat

Bounces == 0 .. NumBounce - 1
Items   == NumLayers * PerLayer          \* arena groups of a step
OfLayer == PerLayer + (IF HasTail THEN 1 ELSE 0)
Groups  == NumLayers * OfLayer           \* all groups of a step
Events  == ({"copied", "free"} \X {0, 1}) \union {<<"tail", 0>>, <<"tailFree", 0>>}
             \union ({"map"} \X {0, 1})
Nothing == 0                             \* an empty buffer

VARIABLES
  (* host thread *)
  pc, gen, at, group,
  asked,       \* next layer to ask the reader for
  loaded,      \* position each raw buffer is being filled with, or -1
  tailIssued,  \* layer whose tail DMA is on its way, or -1
  recorded,
  (* streams *)
  compute, copy, tail, done,
  (* memory *)
  raw, rawTail, bounce, mapHost, mapDev,
  (* tail reader *)
  owner, pending, doneEvent, queue, rpc, request, awaited,
  (* what the compute stream has computed *)
  computed, weights, map

hostVars   == <<pc, gen, at, group, asked, loaded, tailIssued>>
streamVars == <<compute, copy, tail, done, recorded>>
memVars    == <<raw, rawTail, bounce, mapHost, mapDev>>
readerVars == <<owner, pending, doneEvent, queue, rpc, request, awaited>>
resultVars == <<computed, weights, map>>
vars == <<hostVars, streamVars, memVars, readerVars, resultVars>>

NoKey == <<0, 0>>

Init ==
  /\ pc = "idle" /\ gen = 0 /\ at = 0 /\ group = 0 /\ asked = 0
  /\ loaded = [b \in {0, 1} |-> -1] /\ tailIssued = -1
  /\ recorded = [e \in Events |-> 0] /\ done = recorded
  /\ compute = <<>> /\ copy = <<>> /\ tail = <<>>
  /\ raw = [b \in {0, 1} |-> Nothing] /\ rawTail = Nothing
  /\ bounce = [b \in Bounces |-> Nothing]
  /\ mapHost = [b \in {0, 1} |-> 0] /\ mapDev = 0
  /\ owner = [b \in Bounces |-> NoKey] /\ pending = owner
  /\ doneEvent = [b \in Bounces |-> 0]
  /\ queue = <<>> /\ rpc = "get" /\ request = NoKey /\ awaited = 0
  /\ computed = 0 /\ weights = Nothing /\ map = 0

-----------------------------------------------------------------------------
(* Numbering.                                                              *)

ArenaGroup(pos) == (gen - 1) * Groups + (pos \div PerLayer) * OfLayer + (pos % PerLayer) + 1
TailGroup(g, l) == (g - 1) * Groups + (l + 1) * OfLayer

(* An operation of a stream: wait for an event, do it, record an event.    *)
Op(kind, buf, key, after, until, signal, nth) ==
  [kind |-> kind, buf |-> buf, key |-> key, after |-> after, until |-> until,
   signal |-> signal, nth |-> nth]

-----------------------------------------------------------------------------
(* Host.                                                                   *)

(* A copy into a buffer waits for the last recorded use of the buffer.     *)
(* Mutant: for no use.                                                     *)
UnguardedFill(b, pos, free, n) ==
  Op("fill", b, ArenaGroup(pos), <<"free", b>>, 0, <<"copied", b>>, n)
Fill(b, pos, free, n) ==
  Op("fill", b, ArenaGroup(pos), <<"free", b>>, free, <<"copied", b>>, n)

(* _issue, given the events recorded so far: nothing behind the step's     *)
(* last group, and nothing that its buffer holds already.                  *)
Issue(pos, rec) ==
  LET b == pos % 2
      n == rec[<<"copied", b>>] + 1
  IN  IF pos < Items /\ loaded[b] # pos
        THEN /\ copy' = Append(copy, Fill(b, pos, rec[<<"free", b>>], n))
             /\ recorded' = [rec EXCEPT ![<<"copied", b>>] = n]
             /\ loaded' = [loaded EXCEPT ![b] = pos]
        ELSE recorded' = rec /\ UNCHANGED <<copy, loaded>>

(* issue_tail once the bounce buffer holds the layer's tail.               *)
TailOp(l, n, free) ==
  Op("tail", l % NumBounce, TailGroup(gen, l), <<"tailFree", 0>>, free, <<"tail", 0>>, n)

TailReady(l) == owner[l % NumBounce] = <<gen, l>>

(* A forward of a prefill step: plan.  The host buffer's last copy must    *)
(* have been made.                                                         *)
Plan ==
  /\ pc = "idle" /\ gen < MaxSteps
  /\ gen' = gen + 1
  /\ done[<<"map", gen' % 2>>] >= recorded[<<"map", gen' % 2>>]
  /\ mapHost' = [mapHost EXCEPT ![gen' % 2] = gen']
  /\ recorded' = [recorded EXCEPT ![<<"map", gen' % 2>>] = gen']
  /\ compute' = Append(compute,
       Op("map", gen' % 2, gen', <<"map", 0>>, 0, <<"map", gen' % 2>>, gen'))
  /\ loaded' = [b \in {0, 1} |-> -1] /\ tailIssued' = -1
  /\ pc' = "first" /\ at' = 0 /\ group' = 0
  /\ UNCHANGED <<asked, copy, tail, done, raw, rawTail, bounce, mapDev, readerVars, resultVars>>

Position == at * PerLayer + group

(* The first two copies of a layer, ahead of its hot experts.              *)
IssueFirst ==
  /\ pc = "first"
  /\ Issue(Position, recorded)
  /\ pc' = "second"
  /\ UNCHANGED <<gen, at, group, asked, tailIssued, compute, tail, done, memVars, readerVars,
                 resultVars>>
IssueSecond ==
  /\ pc = "second"
  /\ Issue(Position + 1, recorded)
  /\ IF HasTail THEN pc' = "ask" /\ asked' = at ELSE pc' = "groups" /\ UNCHANGED asked
  /\ UNCHANGED <<gen, at, group, tailIssued, compute, tail, done, memVars, readerVars,
                 resultVars>>

(* request_tail of this layer and of those after it, one buffer each.      *)
RequestTail ==
  /\ pc = "ask"
  /\ LET b   == asked % NumBounce
         key == <<gen, asked>>
     IN  IF asked < NumLayers /\ pending[b] # key /\ owner[b] # key
           THEN /\ queue' = Append(queue, key)
                /\ pending' = [pending EXCEPT ![b] = key]
           ELSE UNCHANGED <<queue, pending>>
  /\ asked' = asked + 1
  /\ pc' = IF asked' = at + NumBounce THEN "early" ELSE "ask"
  /\ UNCHANGED <<gen, at, group, loaded, tailIssued, streamVars, memVars, owner, doneEvent,
                 rpc, request, awaited, resultVars>>

(* issue_tail(l), not blocking, of a layer that has a tail.                *)
IssueTail(l) ==
  LET n == recorded[<<"tail", 0>>] + 1
  IN  /\ tail' = Append(tail, TailOp(l, n, recorded[<<"tailFree", 0>>]))
      /\ recorded' = [recorded EXCEPT ![<<"tail", 0>>] = n]
      /\ doneEvent' = [doneEvent EXCEPT ![l % NumBounce] = n]
      /\ tailIssued' = l

TryTail(l) ==
  IF HasTail /\ tailIssued # l /\ TailReady(l)
    THEN IssueTail(l)
    ELSE UNCHANGED <<tail, recorded, doneEvent, tailIssued>>

EarlyTail ==
  /\ pc = "early"
  /\ TryTail(at)
  /\ pc' = "groups"
  /\ UNCHANGED <<gen, at, group, asked, loaded, compute, copy, done, memVars, owner, pending,
                 queue, rpc, request, awaited, resultVars>>

(* One arena group: have it copied, wait for the copy, convert, give the   *)
(* buffer back, fill it with the group after the next, multiply.           *)
IssueGroup ==
  /\ pc = "groups" /\ group < PerLayer
  /\ Issue(Position, recorded)
  /\ pc' = "convert"
  /\ UNCHANGED <<gen, at, group, asked, tailIssued, compute, tail, done, memVars, readerVars,
                 resultVars>>
ComputeGroup ==
  /\ pc = "convert"
  /\ LET b == Position % 2
         n == recorded[<<"free", b>>] + 1
     IN  /\ compute' = Append(compute,
              Op("group", b, ArenaGroup(Position), <<"copied", b>>, recorded[<<"copied", b>>],
                 <<"free", b>>, n))
         /\ Issue(Position + 2, [recorded EXCEPT ![<<"free", b>>] = n])
  /\ group' = group + 1
  /\ pc' = "groups"
  /\ UNCHANGED <<gen, at, asked, tailIssued, tail, done, memVars, readerVars, resultVars>>

(* The tail's DMA, waiting for the reader if need be.                      *)
AwaitTail ==
  /\ HasTail /\ pc = "groups" /\ group = PerLayer
  /\ (tailIssued = at \/ TailReady(at))
  /\ TryTail(at)
  /\ pc' = "tailGroup"
  /\ UNCHANGED <<gen, at, group, asked, loaded, compute, copy, done, memVars, owner, pending,
                 queue, rpc, request, awaited, resultVars>>

(* The tail group.                                                         *)
ComputeTail ==
  /\ pc = "tailGroup"
  /\ LET n == recorded[<<"tailFree", 0>>] + 1
     IN  /\ compute' = Append(compute,
              Op("tailGroup", 0, TailGroup(gen, at), <<"tail", 0>>, recorded[<<"tail", 0>>],
                 <<"tailFree", 0>>, n))
         /\ recorded' = [recorded EXCEPT ![<<"tailFree", 0>>] = n]
  /\ tailIssued' = -1
  /\ pc' = "nextTail"
  /\ UNCHANGED <<gen, at, group, asked, loaded, copy, tail, done, memVars, readerVars,
                 resultVars>>

EndLayer ==
  /\ IF HasTail THEN pc = "nextTail" ELSE pc = "groups" /\ group = PerLayer
  /\ group' = 0
  /\ IF at + 1 < NumLayers
       THEN TryTail(at + 1) /\ at' = at + 1 /\ pc' = "first"
       ELSE pc' = "idle" /\ UNCHANGED <<at, tail, recorded, doneEvent, tailIssued>>
  /\ UNCHANGED <<gen, asked, loaded, compute, copy, done, memVars, owner, pending, queue, rpc,
                 request, awaited, resultVars>>

-----------------------------------------------------------------------------
(* Streams: each in order, each operation once its event has come.         *)

Runs(s) == s # <<>> /\ done[Head(s).after] >= Head(s).until
Signal(op) == done' = [done EXCEPT ![op.signal] = IF op.nth > @ THEN op.nth ELSE @]

RunCopy ==
  /\ Runs(copy)
  /\ raw' = [raw EXCEPT ![Head(copy).buf] = Head(copy).key]
  /\ Signal(Head(copy))
  /\ copy' = Tail(copy)
  /\ UNCHANGED <<hostVars, compute, tail, recorded, rawTail, bounce, mapHost, mapDev,
                 readerVars, resultVars>>

RunTail ==
  /\ Runs(tail)
  /\ rawTail' = bounce[Head(tail).buf]
  /\ Signal(Head(tail))
  /\ tail' = Tail(tail)
  /\ UNCHANGED <<hostVars, compute, copy, recorded, raw, bounce, mapHost, mapDev,
                 readerVars, resultVars>>

RunMap ==
  /\ Runs(compute) /\ Head(compute).kind = "map"
  /\ mapDev' = mapHost[Head(compute).buf]
  /\ Signal(Head(compute))
  /\ compute' = Tail(compute)
  /\ UNCHANGED <<hostVars, copy, tail, recorded, raw, rawTail, bounce, mapHost, readerVars,
                 resultVars>>

RunGroup ==
  /\ Runs(compute) /\ Head(compute).kind \in {"group", "tailGroup"}
  /\ computed' = computed + 1
  /\ weights' = IF Head(compute).kind = "group" THEN raw[Head(compute).buf] ELSE rawTail
  /\ map' = mapDev
  /\ Signal(Head(compute))
  /\ compute' = Tail(compute)
  /\ UNCHANGED <<hostVars, copy, tail, recorded, memVars, readerVars>>

-----------------------------------------------------------------------------
(* Tail reader thread: _run.                                               *)

ReaderGet ==
  /\ rpc = "get" /\ queue # <<>>
  /\ request' = Head(queue) /\ queue' = Tail(queue)
  /\ awaited' = doneEvent[request'[2] % NumBounce]
  /\ rpc' = "wait"
  /\ UNCHANGED <<hostVars, streamVars, memVars, owner, pending, doneEvent, resultVars>>

Buffer == request[2] % NumBounce

(* The DMA of the buffer's previous content has finished.                  *)
StartRead ==
  /\ rpc = "wait" /\ done[<<"tail", 0>>] >= awaited
  /\ bounce' = [bounce EXCEPT ![Buffer] = Nothing]
  /\ rpc' = "read"
  /\ UNCHANGED <<hostVars, streamVars, raw, rawTail, mapHost, mapDev, owner, pending,
                 doneEvent, queue, request, awaited, resultVars>>

EndRead ==
  /\ rpc = "read"
  /\ bounce' = [bounce EXCEPT ![Buffer] = TailGroup(request[1], request[2])]
  /\ owner' = [owner EXCEPT ![Buffer] = request]
  /\ pending' = [pending EXCEPT ![Buffer] = IF @ = request THEN NoKey ELSE @]
  /\ rpc' = "get"
  /\ UNCHANGED <<hostVars, streamVars, raw, rawTail, mapHost, mapDev, doneEvent, queue,
                 request, awaited, resultVars>>

-----------------------------------------------------------------------------
Host ==
  \/ Plan \/ IssueFirst \/ IssueSecond \/ RequestTail \/ EarlyTail
  \/ IssueGroup \/ ComputeGroup \/ AwaitTail \/ ComputeTail \/ EndLayer
Compute == RunMap \/ RunGroup
Reader == ReaderGet \/ StartRead \/ EndRead

Next == Host \/ RunCopy \/ RunTail \/ Compute \/ Reader

Spec == Init /\ [][Next]_vars

(* The host finishes a step it has begun; streams run what they hold; the  *)
(* reader thread is scheduled.                                             *)
FairSpec ==
  /\ Spec
  /\ WF_vars(pc # "idle" /\ Host)
  /\ WF_vars(RunCopy) /\ WF_vars(RunTail) /\ WF_vars(Compute) /\ WF_vars(Reader)

-----------------------------------------------------------------------------
Keys == (0 .. MaxSteps) \X (0 .. NumLayers - 1)

(* No event is waited for, or done, before it has been recorded, and no    *)
(* buffer is asked for twice.                                              *)
TypeOK ==
  /\ pc \in {"idle", "first", "second", "ask", "early", "groups", "convert", "tailGroup",
            "nextTail"}
  /\ gen \in 0 .. MaxSteps /\ at \in 0 .. NumLayers - 1 /\ group \in 0 .. PerLayer
  /\ \A e \in Events : done[e] <= recorded[e]
  /\ \A i \in DOMAIN compute : compute[i].until <= recorded[compute[i].after]
  /\ \A b \in Bounces : owner[b] \in Keys /\ pending[b] \in Keys
  /\ \A i, j \in DOMAIN queue : queue[i] = queue[j] => i = j
  /\ rpc \in {"get", "wait", "read"} /\ request \in Keys

(* Refinement: whatever the interleaving of the streams, the reader and a  *)
(* host that may be steps ahead, every group is computed with its own      *)
(* weights and its own step's map (forward, _issue, issue_tail, plan).     *)
Forward == INSTANCE StreamForward
  WITH Groups <- Groups, computed <- computed, weights <- weights, map <- map
ImplementsStreamForward == Forward!Spec

(* The reader never overwrites a bounce buffer that a DMA on the tail      *)
(* stream is still to read (_TailReader._run, done_ev).                    *)
BounceKept ==
  \A i \in DOMAIN tail : bounce[tail[i].buf] = tail[i].key

(* Every step that has begun is computed to its last group: the host, the  *)
(* reader and the streams never wait for each other in a circle.           *)
StepsComplete == \A n \in 1 .. MaxSteps : gen = n ~> computed >= n * Groups
=============================================================================
