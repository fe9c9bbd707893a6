------------------------------ MODULE MCMatch ------------------------------
(* Instances of MatchEngine for TLC.                                        *)
EXTENDS MatchTimeline

C == INSTANCE Combat

\* A white hit and crit of damage d with a weapon of the given speed, and an
\* ability that does d damage, with the rage that Combat computes for them.
Hit(d, speed) ==
  [outcome |-> "Hit", damage |-> d, rage_attacker_deci |-> C!rage_dealt_deci(d, speed, FALSE),
   rage_defender_deci |-> C!rage_taken_deci(d)]
Crit(d, speed) ==
  [outcome |-> "Crit", damage |-> d, rage_attacker_deci |-> C!rage_dealt_deci(d, speed, TRUE),
   rage_defender_deci |-> C!rage_taken_deci(d)]
Yellow(d) == [damage |-> d, rage_defender_deci |-> C!rage_taken_deci(d)]
Miss  == C!NoContact("Miss")
Parry == C!NoContact("Parry")

Warrior(speed, hp, rage, ms, hs, thr) ==
  [attacks |-> TRUE, weapon_speed_ms |-> speed, max_hp |-> hp, initial_rage_deci |-> rage,
   knows_mortal_strike |-> ms, knows_heroic_strike |-> hs, scripted_hs_min_rage_deci |-> thr]

\* Two warriors driven from outside.  At time 0 only the first can pay for a
\* Mortal Strike, and its hit gives the second one the rage it lacks.  Unless
\* it parries, its swings meet a second and a tick each, the last one the end.
DuelUnits == <<Warrior(3000, 3500, 300, TRUE, TRUE, 300), Warrior(2600, 3000, 250, TRUE, TRUE, 150)>>
External == <<"external", "external">>
DuelWhite == <<{Hit(900, 3000), Parry}, {Hit(500, 2600)}>>
DuelMortal == <<{Yellow(1200), Yellow(0)}, {Yellow(1000)}>>
DuelHeroic == <<{Yellow(1100)}, {Yellow(800)}>>

\* Auto-attack only: a slow weapon parrying a fast one, so that many superseded
\* swings of the slow unit are queued at once.
FastUnits == <<Warrior(44, 100, 0, FALSE, FALSE, 0), Warrior(5, 100, 0, FALSE, FALSE, 0)>>
Idle == <<"idle", "idle">>
FastWhite == <<{Miss, Parry}, {Miss, Parry}>>
NoYellow == <<{Yellow(0)}, {Yellow(0)}>>
=============================================================================
