----------------------------- MODULE MCScenario -----------------------------
(* An instance of Scenario for TLC.                                         *)
EXTENDS Scenario, TLC

SomeHeaders == {"attacker", "defender", "notes"}
Header == [name |-> "m", ruleset |-> "r", duration_ms |-> 60000, decision_tick_ms |-> 100]
SomeTopLines == {Header, [duration_ms |-> 0], Threshold :> 150}

\* A whole section.
Section(id, threshold) ==
  [key \in Int32Keys \cup Int64Keys |->
     CASE key = "entity_id" -> id
       [] key = Threshold -> threshold
       [] key = "level" -> 70
       [] OTHER -> 300]
  @@ [key \in BoolKeys |-> TRUE] @@ [policy |-> "scripted"]

\* Whole sections, and keys given once more or missing a threshold: what may be
\* wrong, and what may stand in another place.
SomeUnitLines ==
  {Section(1, 0), Section(2, 150), Section(1, 149),
   [key \in DOMAIN Section(2, 0) \ {Threshold} |-> Section(2, 0)[key]],
   Threshold :> 500, Threshold :> Garbled, SpacedThreshold :> 150,
   [attacks |-> FALSE, knows_heroic_strike |-> FALSE], [initial_rage_deci |-> 1001]}
=============================================================================
