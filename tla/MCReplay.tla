------------------------------ MODULE MCReplay ------------------------------
(* Instances of Replay for TLC.                                             *)
EXTENDS Replay

Unit(speed, hp, rage, ms, hs, thr) ==
  [attacks |-> TRUE, weapon_speed_ms |-> speed, max_hp |-> hp, initial_rage_deci |-> rage,
   knows_mortal_strike |-> ms, knows_heroic_strike |-> hs, scripted_hs_min_rage_deci |-> thr]

White(outcome, d) ==
  [outcome |-> outcome, damage |-> d, rage_attacker_deci |-> d \div 5, rage_defender_deci |-> d \div 10]
Yellow(d) == [damage |-> d, rage_defender_deci |-> d \div 10]

\* A scripted unit that can afford one ability, and an idle one.
DuelUnits == <<Unit(900, 1100, 350, TRUE, TRUE, 150), Unit(700, 2300, 0, FALSE, TRUE, 0)>>
DuelPolicies == <<"scripted", "idle">>
DuelWhite == <<{White("Hit", 500)}, {White("Parry", 0), White("Hit", 400)}>>
DuelMortal == <<{Yellow(700)}, {Yellow(0)}>>
DuelHeroic == <<{Yellow(600), Yellow(0)}, {Yellow(450)}>>

Both == {"env", "arena_run"}
Env == {"env"}
BothUses == {"verify", "playback"}
VerifyOnly == {"verify"}
=============================================================================
