------------------------------- MODULE MCEval -------------------------------
(* Instance of EvalSlices for TLC.                                          *)
EXTENDS EvalSlices, TLC

CONSTANTS p1, p2

TwoProcesses == {p1, p2}
Symmetry == Permutations(TwoProcesses)

Slice(start, count) == [start |-> start, count |-> count]

\* Of three seeds: all of them, two slices that cover them, the last of which
\* reaches past the end, and one that overlaps both.
Slices == {Slice(0, 2), Slice(0, 3), Slice(1, 2), Slice(2, 2)}

\* Results of four matches, [win, draw, loss].
Scored(w, d, l) == [win |-> w, draw |-> d, loss |-> l]
FourDuels == {r \in {Scored(w, d, 4 - w - d) : w, d \in 0..4} : r.loss >= 0}
FourIdle == {Scored(4, 0, 0), Scored(3, 1, 0), Scored(2, 0, 2)}

\* What docs/m5_selfplay.md:81-83 reports of the scripted policies: slot 0 wins
\* 97.4% of the duels and nearly always against Idle, slot 1 every other time.
ReportedDuels == {Scored(38, 0, 1)}
ReportedIdle == {Scored(2, 0, 0), Scored(1, 0, 1)}

OnlySlot0 == {"slot0"}
OnlyBase == {"base"}
=============================================================================
