------------------------------ MODULE MCTrain ------------------------------
(* An instance of TrainRun for TLC.                                         *)
EXTENDS TrainRun

SomeStarts == {0, 2}
=============================================================================
