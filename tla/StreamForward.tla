---------------------------- MODULE StreamForward ----------------------------
(***************************************************************************)
(* What streaming promises a prefill: the groups of experts of its steps   *)
(* are computed one after the other, none left out and none twice, each    *)
(* with the weights of its own experts and the expert map of its own step, *)
(* as if all weights were in GPU memory.                                   *)
(***************************************************************************)
EXTENDS Integers

CONSTANT Groups   \* groups of one step

VARIABLES
  computed,   \* groups computed so far
  weights,    \* the group whose weights the last one was computed with
  map         \* the step whose expert map it was computed with

Init == computed = 0 /\ weights = 0 /\ map = 0

Compute ==
  /\ computed' = computed + 1
  /\ weights' = computed'
  /\ map' = (computed \div Groups) + 1

Spec == Init /\ [][Compute]_<<computed, weights, map>>
=============================================================================
