------------------------------ MODULE MCMatchup ------------------------------
(* An instance of Matchup for TLC.                                          *)
EXTENDS Matchup

Fate(ticks, winner, illegal) == [ticks |-> ticks, winner |-> winner, illegal |-> illegal]

SomeFates == {Fate(1, 0, 0), Fate(2, 1, 0), Fate(3, -1, 1), Fate(2, 0, 2)}
SomeChunks == 1..5
Lost == Fate(1, 1, 5)
=============================================================================
