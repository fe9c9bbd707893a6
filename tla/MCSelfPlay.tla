----------------------------- MODULE MCSelfPlay -----------------------------
(* An instance of SelfPlay for TLC.                                         *)
EXTENDS SelfPlay

SomeBlows == {<<0, 0>>, <<1, 0>>, <<0, 2>>, <<2, 1>>}
=============================================================================
