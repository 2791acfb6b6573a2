---------------------------- MODULE MCRecordLog -----------------------------
(***************************************************************************)
(* What clients send in the model-checked instance of RecordLog: a number, *)
(* the same number at a later time, and another number of the variable.    *)
(***************************************************************************)
EXTENDS RecordLog

CONSTANT a

MCInputs == {<<a, 1, 1>>, <<a, 2, 1>>, <<a, 2, 2>>}
=============================================================================
