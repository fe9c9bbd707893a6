------------------------------- MODULE Oracle -------------------------------
(***************************************************************************)
(* The independent model of src/sim/oracle, which reports are compared      *)
(* with.  Where Combat truncates at every stage, this one keeps fractions    *)
(* and truncates where the oracle assigns to an integer.  It computes in    *)
(* float32; here the same formulas are taken in exact fractions, so that   *)
(* what is said of them is said of the formulas, not of their rounding.    *)
(*                                                                         *)
(* A weapon roll is uniform in [0, 1): k of the S steps of that interval.  *)
(***************************************************************************)
EXTENDS Combat, Sequences

CONSTANT S
ASSUME StepsAssumption == S \in Nat \ {0}

-----------------------------------------------------------------------------
(* Chances and tables.  gate says that the units face each other.          *)

\* clamp_chance and chance_u, in per-myriad.
clamp_chance(pm) == IF pm < 0 THEN 0 ELSE IF pm > 10000 THEN 10000 ELSE pm

\* 0.04% a point.
Skill(points) == 4 * points

eff_miss(att, def) ==
  clamp_chance(500 + Skill(def.defense_skill - att.weapon_skill) - att.hit_pm)
eff_dodge(att, def, gate) ==
  IF gate THEN clamp_chance(def.dodge_pm + Skill(def.defense_skill - att.weapon_skill)) ELSE 0
eff_parry(att, def, gate) ==
  IF gate THEN clamp_chance(def.parry_pm + Skill(def.defense_skill - att.weapon_skill)) ELSE 0
eff_block(att, def, gate) ==
  IF gate /\ def.has_shield
  THEN clamp_chance(def.block_pm + Skill(def.defense_skill - att.weapon_skill)) ELSE 0
eff_crit(att, def) == clamp_chance(att.crit_pm + Skill(5 * att.level - def.defense_skill))

\* A row of the table: what the rows before it have left.
Left(acc, width) == IF acc + width > 10000 THEN 10000 - acc ELSE width

\* The widths of both tables; glance and crush have none, hit the remainder.
build_table(att, def, gate) ==
  LET miss  == Left(0, eff_miss(att, def))
      dodge == Left(miss, eff_dodge(att, def, gate))
      parry == Left(miss + dodge, eff_parry(att, def, gate))
      block == Left(miss + dodge + parry, eff_block(att, def, gate))
      crit  == Left(miss + dodge + parry + block, eff_crit(att, def))
  IN  [Miss |-> miss, Dodge |-> dodge, Parry |-> parry, Block |-> block, Crit |-> crit,
       Hit |-> 10000 - (miss + dodge + parry + block + crit)]

build_yellow(att, def, gate) ==
  LET miss  == Left(0, eff_miss(att, def))
      dodge == Left(miss, eff_dodge(att, def, gate))
      parry == Left(miss + dodge, eff_parry(att, def, gate))
  IN  [Miss |-> miss, Dodge |-> dodge, Parry |-> parry, Hit |-> 10000 - (miss + dodge + parry)]

\* The die of both models' loops, from 1 to 10000: the first row in this order
\* that has a width and ends no earlier than the die.
outcome_of(w, order, die) ==
  LET end[k \in 0..Len(order)] == IF k = 0 THEN 0 ELSE end[k - 1] + w[order[k]]
      reached == {k \in 1..Len(order) : w[order[k]] > 0 /\ die <= end[k]}
  IN  IF reached = {} THEN "Hit" ELSE order[CHOOSE k \in reached : \A other \in reached : k <= other]

yellow_crit_pm(att, def)        == eff_crit(att, def)
yellow_block_pm(att, def, gate) == eff_block(att, def, gate)

-----------------------------------------------------------------------------
(* Damage and rage of one trial.                                           *)

\* The weapon's damage with the attack power folded into its bounds, in
\* parts of 14000 * S.
WeaponParts(att, speed_ms, k) ==
  S * (14000 * att.weapon_min + att.attack_power * speed_ms)
    + k * 14000 * (att.weapon_max - att.weapon_min)

\* CalcArmorReducedDamage: the share dr / (1 + dr) with dr = 2 * armor / 21115,
\* clamped to [0, 3/4], is absorbed, and one point stays.  The share has a pole:
\* below an armor of -10557 it is more than 1, and clamped to 3/4.
AbovePole(armor) == 2 * armor + 21115 > 0

Armored(d, armor) ==
  LET y    == 2 * armor + 21115
      kept == IF ~AbovePole(armor) \/ 8 * armor > 3 * y THEN d \div 4
              ELSE IF armor <= 0 THEN d
              ELSE (d * 21115) \div y
  IN  IF kept < 1 THEN 1 ELSE kept

\* Mutant: the block is taken off before the armor.
white_mc_BlockFirst(att, def, outcome, k) ==
  LET rolled == WeaponParts(att, att.weapon_speed_ms, k) \div (14000 * S)
      d      == Armored(rolled - (IF outcome = "Block" /\ def.block_value < rolled THEN def.block_value ELSE 0),
                        def.armor)
  IN  IF outcome = "Crit" THEN 2 * d ELSE d

\* A white swing: armor, then the crit or the block.
white_mc(att, def, outcome, k) ==
  LET d == Armored(WeaponParts(att, att.weapon_speed_ms, k) \div (14000 * S), def.armor)
  IN  CASE outcome = "Crit"  -> 2 * d
        [] outcome = "Block" -> IF def.block_value < d THEN d - def.block_value ELSE 0
        [] OTHER             -> d

\* An ability: the crit doubles the fraction before armor.
yellow_mc(att, def, crit, blocked, normalized, flat_bonus, k) ==
  LET speed == IF normalized THEN att.weapon_norm_ms ELSE att.weapon_speed_ms
      total == 14000 * S * flat_bonus + WeaponParts(att, speed, k)
      d     == Armored((IF crit THEN 2 * total ELSE total) \div (14000 * S), def.armor)
  IN  IF ~blocked THEN d ELSE IF def.block_value < d THEN d - def.block_value ELSE 0

\* rage_att_deci and rage_def_deci, with a conversion value of 274.7 at level 70.
rage_att_deci(basis, speed_ms, crit) ==
  LET hf == IF crit THEN (speed_ms * 7) \div 1000 ELSE (speed_ms * 7) \div 2000
  IN  (basis * 375 + hf * 5 * 2747) \div 2747
rage_def_deci(basis) == (basis * 250) \div 2747
=============================================================================
