----------------------------- MODULE ExpertCall -----------------------------
(***************************************************************************)
(* What the CPU expert bridge promises a forward: each layer's call of the *)
(* CPU experts returns the answer to this call, calls return in the order  *)
(* they are made.                                                          *)
(***************************************************************************)
EXTENDS Naturals

VARIABLES
  calls,   \* calls returned so far
  result   \* the call that the last answer answers

Init == calls = 0 /\ result = 0

Call == calls' = calls + 1 /\ result' = calls'

Spec == Init /\ [][Call]_<<calls, result>>
=============================================================================
