---------------------------- MODULE MCDashboard ----------------------------
(***************************************************************************)
(* What the user of the model types into the text of the duration: a text  *)
(* next to the rounding to weeks, and the shortest that can be typed.      *)
(***************************************************************************)
EXTENDS Dashboard

MCTyped == {[n |-> 6, unit |-> "d"], [n |-> 1, unit |-> "s"]}
=============================================================================
