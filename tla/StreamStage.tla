---------------------------- MODULE StreamStage ----------------------------
(***************************************************************************)
(* Staged prefill of a tiered model (stream_stage.py).                     *)
(*                                                                         *)
(* All experts of a layer are in pinned memory, its hot ones also in an    *)
(* LRU cache in GPU memory.  A large prefill chunk copies each layer into  *)
(* one of two staging slots, cold rows from pinned memory and hot rows     *)
(* from the cache, on a side stream one or two layers ahead.  With Borrow  *)
(* the slots are the physical pages of the caches of the last layers: to   *)
(* stage is to destroy those caches, and they are rewritten before a step  *)
(* that reads them.                                                        *)
(*                                                                         *)
(* A step is "decode" (up to 16 tokens: reads and changes the caches),     *)
(* "tiered" (reads them) or "staged" (at least MIN_TOKENS).  The content   *)
(* of a cache is the set of experts whose rows it holds; a staged layer is *)
(* exact when the cold rows copied and the hot rows read belong to the     *)
(* same set.  Where the host waits for the GPU the queues are empty; that  *)
(* it also waits at the first restore, to compare the rows, is left out.   *)
(***************************************************************************)
EXTENDS Integers, Sequences, FiniteSets

CONSTANTS
  NumLayers,
  PerSlot,        \* layers whose cache pages make a slot (BORROW_PER_SLOT)
  Borrow,         \* BORROW
  PrefetchNext,   \* PREFETCH_NEXT_STEP
  OffFlag,        \* the file that disables staging may appear and disappear
  Async,          \* async scheduling: a step may start before the previous one has ended
  HotSets,        \* sets of hot experts a cache may hold
  MaxSteps        \* bound on steps

(* What the constants may be.                                              *)
StageAssumption ==
  /\ PerSlot \in Nat \ {0} /\ NumLayers \in Nat /\ NumLayers >= 2 * PerSlot + 2
  /\ {Borrow, PrefetchNext, OffFlag, Async} \subseteq BOOLEAN
  /\ IsFiniteSet(HotSets) /\ HotSets # {} /\ HotSets \subseteq Nat \ {0}
  /\ MaxSteps \in Nat

Layers == 0 .. NumLayers - 1
Slots  == {0, 1}
None   == -1
Lost   == 0        \* the content of overwritten pages
First  == CHOOSE h \in HotSets : TRUE

VARIABLES
  (* host *)
  pc, at, steps,
  dirty, clobbered,
  built,        \* slots exist and have been verified
  loaded,       \* layer each slot holds or is being filled with
  snapshot,     \* hot set of each layer as read back last
  gemms,        \* gemm_done recordings of each slot
  copies,       \* copy_done recordings of each slot, restore's event
  (* streams *)
  compute, side, gemmDone, copyDone,
  (* GPU memory *)
  ids,          \* slot_global_ids of each layer's cache
  hot,          \* set whose rows the cache's pages hold
  slot          \* <<layer, exact>> of each staging slot

hostVars   == <<pc, at, steps, dirty, clobbered, built, loaded, snapshot>>
streamVars == <<gemms, copies, compute, side, gemmDone, copyDone>>
memVars    == <<ids, hot, slot>>
vars == <<hostVars, streamVars, memVars>>

Restored == 2      \* the event of restore_borrowed, next to the slots' copy_done

Init ==
  /\ pc = "idle" /\ at = 0 /\ steps = 0
  /\ dirty = TRUE /\ clobbered = FALSE /\ built = FALSE
  /\ loaded = [s \in Slots |-> None]
  /\ ids = [l \in Layers |-> First] /\ hot = ids /\ snapshot = ids
  /\ slot = [s \in Slots |-> <<None, FALSE>>]
  /\ gemms = [s \in Slots |-> 0] /\ gemmDone = gemms
  /\ copies = [e \in Slots \union {Restored} |-> 0] /\ copyDone = copies
  /\ compute = <<>> /\ side = <<>>

-----------------------------------------------------------------------------
(* The caches whose pages are slot s; none unless borrowed.                *)
PagesOf(s) ==
  IF Borrow
    THEN {l \in Layers : l >= NumLayers - 2 * PerSlot /\ (l - (NumLayers - 2 * PerSlot)) \div PerSlot = s}
    ELSE {}
Borrowed == PagesOf(0) \union PagesOf(1)

(* Operations: of the compute stream, after the until-th recording of an   *)
(* event; of the side stream, after the until-th GEMM of the slot.         *)
Gemm(l, until)      == [kind |-> "gemm", layer |-> l, until |-> until, step |-> steps]
Await(until)        == [kind |-> "await", layer |-> None, until |-> until, step |-> steps']
Forward(kind)       == [kind |-> kind, layer |-> None, until |-> 0, step |-> steps']
Copy(l, set, until) == [kind |-> "copy", layer |-> l, set |-> set, until |-> until]
Restore(sets)       == [kind |-> "restore", layer |-> None, set |-> sets, until |-> 0]

(* A step starts when the results of the one before, or with async         *)
(* scheduling of the one before that, have been read.                      *)
StartStep ==
  /\ pc = "idle" /\ steps < MaxSteps
  /\ compute # <<>> => Async /\ Head(compute).step = steps
  /\ steps' = steps + 1

-----------------------------------------------------------------------------
(* execute_model: restore_borrowed reads the ids back (the host waits for  *)
(* the compute stream, so wait_stream has nothing left to wait for), then  *)
(* queues the rows and makes compute wait.                                 *)
(* Mutants: only a decode restores; the slots are still taken for loaded.  *)
DecodeOnly(kind) == clobbered /\ kind = "decode"
NeedsRestore(kind) == clobbered
StillLoaded == loaded
Forgotten == [s \in Slots |-> None]

RestoreAndRun(kind) ==
  IF NeedsRestore(kind)
    THEN /\ compute = <<>>
         /\ side' = Append(side, Restore(ids))
         /\ copies' = [copies EXCEPT ![Restored] = @ + 1]
         /\ compute' = <<Await(copies'[Restored]), Forward(kind)>>
         /\ loaded' = Forgotten
         /\ clobbered' = FALSE
    ELSE /\ compute' = Append(compute, Forward(kind))
         /\ UNCHANGED <<side, copies, loaded, clobbered>>

SmallStep(kind) ==
  /\ StartStep
  /\ RestoreAndRun(kind)
  /\ dirty' = (dirty \/ kind = "decode")
  /\ UNCHANGED <<pc, at, built, snapshot, gemms, gemmDone, copyDone, memVars>>

(* A large chunk: its first layer finds the switch file.  The other layers *)
(* then take the tiered path, and nothing has restored the caches.         *)
DisabledStep ==
  /\ OffFlag
  /\ StartStep
  /\ compute' = Append(compute, Forward("tiered"))
  /\ UNCHANGED <<pc, at, dirty, clobbered, built, loaded, snapshot, gemms, copies, side,
                 gemmDone, copyDone, memVars>>

(* verify, at the first layer of the first staged step: the first and the  *)
(* last layer are staged and compared with their source, and the host      *)
(* waits for both.                                                         *)
Last == NumLayers - 1
Verified ==
  [s \in Slots |-> IF s = Last % 2 THEN <<Last, TRUE>> ELSE IF s = 0 THEN <<0, TRUE>> ELSE slot[s]]
Overwritten ==
  [l \in Layers |-> IF l \in PagesOf(0) \union PagesOf(Last % 2) THEN Lost ELSE hot[l]]

(* _snapshot, if a decode may have changed the caches: waits for compute.  *)
(* A slot whose layer's set has changed is staged again.                   *)
StillExact(sets) ==
  [s \in Slots |-> IF loaded[s] # None /\ sets[loaded[s]] # snapshot[loaded[s]]
                     THEN None ELSE loaded[s]]

(* maybe_apply up to the first layer's copies.  Before the slots are       *)
(* verified the caches are always dirty.                                   *)
StagedStep ==
  /\ StartStep
  /\ IF built THEN UNCHANGED <<clobbered, slot, hot>>
     ELSE clobbered' = Borrow /\ slot' = Verified /\ hot' = Overwritten
  /\ built' = TRUE
  /\ IF dirty
       THEN compute = <<>> /\ snapshot' = ids /\ loaded' = StillExact(ids)
       ELSE UNCHANGED <<snapshot, loaded>>
  /\ dirty' = FALSE
  /\ pc' = "layer" /\ at' = 0
  /\ UNCHANGED <<streamVars, ids>>

(* _issue for a sequence of layers, given the recordings of gemm_done.     *)
(* The snapshot's event has passed: the host waited for what precedes it.  *)
(* Mutants: the copy waits for the slot's next reader; for no reader.      *)
CopyTooLate(l, recorded) ==
  Copy(l, IF l \in Borrowed THEN Lost ELSE snapshot[l], recorded[l % 2] + 1)
CopyAtOnce(l, recorded) == Copy(l, IF l \in Borrowed THEN Lost ELSE snapshot[l], 0)
CopyOf(l, recorded) ==
  Copy(l, IF l \in Borrowed THEN Lost ELSE snapshot[l], recorded[l % 2])

(* Layers to issue at layer at, before its GEMM and after it.              *)
Before == IF at = 0 THEN <<0, 1>> ELSE <<at>>
After ==
  IF at + 2 < NumLayers THEN <<at + 2>>
  ELSE IF PrefetchNext THEN <<at + 2 - NumLayers>> ELSE <<>>

NotLoaded(layers, held) == SelectSeq(layers, LAMBDA l : held[l % 2] # l)
Holds(layers, held) ==
  [s \in Slots |->
     IF \E i \in DOMAIN layers : layers[i] % 2 = s
       THEN layers[CHOOSE i \in DOMAIN layers : layers[i] % 2 = s] ELSE held[s]]
Recorded(layers, n) ==
  [e \in DOMAIN n |-> IF \E i \in DOMAIN layers : layers[i] % 2 = e THEN n[e] + 1 ELSE n[e]]

(* maybe_apply of one layer: everything it enqueues.                       *)
StageLayer ==
  /\ pc = "layer"
  /\ LET before == NotLoaded(Before, loaded)
         held   == Holds(before, loaded)
         n      == Recorded(before, copies)
         freed  == [gemms EXCEPT ![at % 2] = @ + 1]
         after  == NotLoaded(After, held)
     IN  /\ side' = side \o [i \in DOMAIN before |-> CopyOf(before[i], gemms)]
                         \o [i \in DOMAIN after |-> CopyOf(after[i], freed)]
         /\ compute' = Append(compute, Gemm(at, n[at % 2]))
         /\ gemms' = freed
         /\ loaded' = Holds(after, held)
         /\ copies' = Recorded(after, n)
         /\ clobbered' = (clobbered \/ (Borrow /\ before \o after # <<>>))
  /\ IF at + 1 < NumLayers THEN at' = at + 1 /\ UNCHANGED pc ELSE pc' = "idle" /\ at' = 0
  /\ UNCHANGED <<steps, dirty, built, snapshot, gemmDone, copyDone, memVars>>

-----------------------------------------------------------------------------
(* Side stream.                                                            *)

RunCopy ==
  /\ side # <<>> /\ Head(side).kind = "copy"
  /\ LET op == Head(side)
         s  == op.layer % 2
     IN  /\ gemmDone[s] >= op.until
         /\ slot' = [slot EXCEPT ![s] =
              <<op.layer, op.layer \in Borrowed \/ op.set = hot[op.layer]>>]
         /\ hot' = [l \in Layers |-> IF l \in PagesOf(s) THEN Lost ELSE hot[l]]
         /\ copyDone' = [copyDone EXCEPT ![s] = @ + 1]
  /\ side' = Tail(side)
  /\ UNCHANGED <<hostVars, gemms, copies, compute, gemmDone, ids>>

RunRestore ==
  /\ side # <<>> /\ Head(side).kind = "restore"
  /\ hot' = [l \in Layers |-> IF l \in Borrowed THEN Head(side).set[l] ELSE hot[l]]
  /\ slot' = [s \in Slots |-> <<None, FALSE>>]
  /\ copyDone' = [copyDone EXCEPT ![Restored] = @ + 1]
  /\ side' = Tail(side)
  /\ UNCHANGED <<hostVars, gemms, copies, compute, gemmDone, ids>>

(* Compute stream.                                                         *)

Ready ==
  /\ compute # <<>>
  /\ LET op == Head(compute)
     IN  /\ op.kind = "gemm" => copyDone[op.layer % 2] >= op.until
         /\ op.kind = "await" => copyDone[Restored] >= op.until

RunGemm ==
  /\ Ready /\ Head(compute).kind \in {"gemm", "await", "tiered"}
  /\ gemmDone' = IF Head(compute).kind = "gemm"
                   THEN [gemmDone EXCEPT ![Head(compute).layer % 2] = @ + 1] ELSE gemmDone
  /\ compute' = Tail(compute)
  /\ UNCHANGED <<hostVars, gemms, copies, side, copyDone, memVars>>

(* A decode may exchange experts in the cache of some layer; an exchange   *)
(* writes the rows that change only.                                       *)
RunDecode ==
  /\ Ready /\ Head(compute).kind = "decode"
  /\ \E l \in Layers, set \in HotSets :
       /\ ids' = [ids EXCEPT ![l] = set]
       /\ hot' = [hot EXCEPT ![l] = IF @ = ids[l] THEN set ELSE @]
  /\ compute' = Tail(compute)
  /\ UNCHANGED <<hostVars, gemms, copies, side, gemmDone, copyDone, slot>>

-----------------------------------------------------------------------------
Next ==
  \/ SmallStep("decode") \/ SmallStep("tiered")
  \/ DisabledStep \/ StagedStep \/ StageLayer
  \/ RunCopy \/ RunRestore \/ RunGemm \/ RunDecode

Spec == Init /\ [][Next]_vars

-----------------------------------------------------------------------------
(* No event is waited for before it is recorded, and a slot is only taken  *)
(* for holding a layer of its parity (_issue).                             *)
TypeOK ==
  /\ pc \in {"idle", "layer"} /\ at \in Layers /\ steps \in 0 .. MaxSteps
  /\ {dirty, clobbered, built} \subseteq BOOLEAN
  /\ \A s \in Slots : /\ loaded[s] \in Layers \union {None}
                      /\ loaded[s] # None => loaded[s] % 2 = s
                      /\ gemmDone[s] <= gemms[s]
  /\ \A e \in DOMAIN copies : copyDone[e] <= copies[e]
  /\ ids \in [Layers -> HotSets] /\ hot \in [Layers -> HotSets \union {Lost}]
  /\ \A i \in DOMAIN side : side[i].kind = "copy" => side[i].until <= gemms[side[i].layer % 2]

(* A GEMM of a staged step finds its own layer's exact weights in the      *)
(* slot (module doc: "only the physical location of the weight bytes       *)
(* differs").                                                              *)
StagedExact ==
  (Ready /\ Head(compute).kind = "gemm") =>
    slot[Head(compute).layer % 2] = <<Head(compute).layer, TRUE>>

(* A step that reads the hot caches finds every one intact (BORROW: "Their *)
(* hot rows are restored from the immutable source before any step that    *)
(* can read the hot cache").                                               *)
HotExact ==
  (Ready /\ Head(compute).kind \in {"decode", "tiered"}) => hot = ids
=============================================================================
