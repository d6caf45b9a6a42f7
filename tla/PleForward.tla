----------------------------- MODULE PleForward -----------------------------
(***************************************************************************)
(* What PLE offloading promises the model: the ranks of a tensor-parallel  *)
(* group go through the same forwards in lockstep, and whatever a forward  *)
(* of a real batch computes with is that batch's PLE output, as if the     *)
(* table were on the GPU and there were no CPU process, no shared buffer   *)
(* and no flag.  The start-up forwards (numbered up to 0) compute with     *)
(* anything; their results are thrown away.                                *)
(***************************************************************************)
EXTENDS Integers

CONSTANTS Ranks, Layers, Warmups

VARIABLES
  finished,  \* last forward each rank has completed
  used       \* per rank and layer, the batch whose PLE output it used

Init ==
  /\ finished = [t \in Ranks |-> -Warmups]
  /\ used \in [Ranks -> [Layers -> Int]]

Forward(t) ==
  /\ \A u \in Ranks : finished[u] >= finished[t]
  /\ finished' = [finished EXCEPT ![t] = @ + 1]
  /\ used' \in [Ranks -> [Layers -> Int]]
  /\ \A u \in Ranks \ {t} : used'[u] = used[u]
  /\ finished'[t] >= 1 => used'[t] = [l \in Layers |-> finished'[t]]

Next == \E t \in Ranks : Forward(t)

Spec == Init /\ [][Next]_<<finished, used>>
=============================================================================
