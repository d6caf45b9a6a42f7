---------------------------- MODULE ArenaSharing ----------------------------
(***************************************************************************)
(* What the interlock between prefill and promotion promises: the expert   *)
(* arena is a readers-writer resource.  A prefill step reads the places of *)
(* the experts once and its DMAs may use them until they are done; the CPU *)
(* server moves experts only while no prefill step is reading.             *)
(***************************************************************************)
CONSTANT Steps  \* prefill steps

VARIABLES
  places,   \* where each layer's experts are
  readers,  \* prefill steps that are reading or have DMAs to come
  writing   \* the server is moving experts

vars == <<places, readers, writing>>

Init == readers = {} /\ writing = FALSE

StartRead ==
  /\ ~writing
  /\ \E g \in Steps : readers' = readers \union {g}
  /\ UNCHANGED <<places, writing>>

EndRead ==
  /\ \E g \in readers : readers' = readers \ {g}
  /\ UNCHANGED <<places, writing>>

StartWrite ==
  /\ readers = {}
  /\ writing' = TRUE
  /\ UNCHANGED <<places, readers>>

(* The places change here and nowhere else.                                *)
Write ==
  /\ writing
  /\ UNCHANGED <<readers, writing>>

EndWrite ==
  /\ writing' = FALSE
  /\ UNCHANGED <<places, readers>>

Next == StartRead \/ EndRead \/ StartWrite \/ Write \/ EndWrite

Spec == Init /\ [][Next]_vars
=============================================================================
