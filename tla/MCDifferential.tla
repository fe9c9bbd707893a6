--------------------------- MODULE MCDifferential ---------------------------
(* An instance of Differential for TLC.                                     *)
EXTENDS Differential

Stats(ap, crit, hit, wmin, wmax, armor, dodge, parry, block, shield) ==
  [level |-> 70, weapon_skill |-> 350, defense_skill |-> 355, attack_power |-> ap,
   crit_pm |-> crit, hit_pm |-> hit, dodge_pm |-> dodge, parry_pm |-> parry, block_pm |-> block,
   weapon_min |-> wmin, weapon_max |-> wmax, weapon_speed_ms |-> 3600, weapon_norm_ms |-> 3300,
   armor |-> armor, block_value |-> 180, has_shield |-> shield]

Fixture   == Stats(2800, 2500, 0, 320, 480, 6200, 800, 600, 500, TRUE)
\* So weak that only the armor floor saves its damage; never misses.
Weakling  == Stats(0, 2500, 900, 1, 2, 6200, 800, 600, 500, FALSE)
\* Crits whenever it lands.
Critter   == Stats(2801, 10100, 0, 321, 480, 0, 0, 0, 0, FALSE)
Plated    == Stats(2800, 2500, 0, 150, 280, 40000, 800, 600, 500, FALSE)
\* Its avoidance overflows the table, and its armor is the last above the pole.
Untouched == Stats(2800, 2500, 0, 150, 280, -10557, 5000, 4000, 3000, TRUE)

Pose(x, facing) == [pos_x_cm |-> x, pos_y_cm |-> 0, facing_mrad |-> facing]
\* The attacker two metres away in front, looking at the defender, or behind it.
InFront(a, d) == [att |-> a, def |-> d, def_pose |-> Pose(0, 0), att_pose |-> Pose(200, 3142)]
Behind(a, d)  == [att |-> a, def |-> d, def_pose |-> Pose(0, 0), att_pose |-> Pose(-200, 0)]

MCScenarios == {InFront(Fixture, Fixture), Behind(Fixture, Fixture), Behind(Weakling, Plated),
                InFront(Critter, Weakling), InFront(Critter, Untouched)}

\* With the stats above: a miss, a parry, then a block or a crit, a hit.
MCTableRolls == {499, 1899, 2000, 9999}
MCChanceRolls == {0, 9999}
\* The whole file; without its last brace; cut in a row of the last section.
MCCuts == {0, 1, 30}
=============================================================================
