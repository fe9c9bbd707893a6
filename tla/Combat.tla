------------------------------- MODULE Combat -------------------------------
(***************************************************************************)
(* One hit, from the stats of two units to its outcome, damage and rage:   *)
(* the white table and the yellow die, the damage pipelines and the rage   *)
(* gains of src/sim/mechanics.  Chances and rolls are per-myriad.  A roll   *)
(* is an argument: the keyed random numbers may be anything in range.      *)
(***************************************************************************)
EXTENDS Integers

\* attack_table.h, abilities.h, damage.h, rage.h
SKILL_DELTA_PM_PER_POINT == 4
BASE_MISS_PM             == 500
MS_FLAT_BONUS            == 210
HS_FLAT_BONUS            == 176
ARMOR_K2_L70             == 21115
ARMOR_KEPT_MIN_PCT       == 25
MELEE_CRIT_MULT          == 2
RAGE_C10_L70             == 2747
RAGE_F2_HIT              == 7
RAGE_F2_CRIT             == 14

\* What roll_myriad (rng.h) may return.
Myriad == 0..9999

\* The stats a hit depends on, with what the scenario loader checks of them.
HitStats ==
  {s \in [level: {70}, weapon_skill: Int, defense_skill: Int, attack_power: Int,
          crit_pm: Int, hit_pm: Int, dodge_pm: Int, parry_pm: Int, block_pm: Int,
          weapon_min: Nat \ {0}, weapon_max: Nat \ {0}, weapon_speed_ms: Nat \ {0},
          weapon_norm_ms: Nat \ {0}, armor: Int, block_value: Int, has_shield: BOOLEAN] :
     s.weapon_min <= s.weapon_max}

-----------------------------------------------------------------------------
(* Chances and tables.  front says that the defender faces its attacker.   *)

pm_clamp0(v) == IF v < 0 THEN 0 ELSE v
delta_pm(def, skill) == (def.defense_skill - skill) * SKILL_DELTA_PM_PER_POINT

chance_miss_pm(att, def)  == pm_clamp0(BASE_MISS_PM + delta_pm(def, att.weapon_skill) - att.hit_pm)
chance_dodge_pm(att, def) == pm_clamp0(def.dodge_pm + delta_pm(def, att.weapon_skill))
chance_parry_pm(att, def) == pm_clamp0(def.parry_pm + delta_pm(def, att.weapon_skill))
chance_block_pm(att, def) == pm_clamp0(def.block_pm + delta_pm(def, att.weapon_skill))
chance_crit_pm(att, def)  == pm_clamp0(att.crit_pm - delta_pm(def, 5 * att.level))

\* The end of a row of the given width that starts at acc: the table is
\* clamped left to right.
Fill(acc, width) == IF acc + width > 10000 THEN 10000 ELSE acc + width

\* AttackTable::end, by outcome.  Glance and Crush have no width against a
\* player, so no roll is below their end that was not below the one before.
build_attack_table(att, def, front) ==
  LET miss  == Fill(0, chance_miss_pm(att, def))
      dodge == Fill(miss, IF front THEN chance_dodge_pm(att, def) ELSE 0)
      parry == Fill(dodge, IF front THEN chance_parry_pm(att, def) ELSE 0)
      block == Fill(parry, IF front /\ def.has_shield THEN chance_block_pm(att, def) ELSE 0)
      crit  == Fill(block, chance_crit_pm(att, def))
  IN  [Miss |-> miss, Dodge |-> dodge, Parry |-> parry, Block |-> block, Crit |-> crit]

\* AttackTable::classify: the first outcome whose end is beyond the roll.
classify(t, roll) ==
  CASE roll < t.Miss   -> "Miss"
    [] t.Miss <= roll /\ roll < t.Dodge   -> "Dodge"
    [] t.Dodge <= roll /\ roll < t.Parry  -> "Parry"
    [] t.Parry <= roll /\ roll < t.Block  -> "Block"
    [] t.Block <= roll /\ roll < t.Crit   -> "Crit"
    [] OTHER -> "Hit"

\* Mutant: the yellow die does not know that the defender may be struck from behind.
build_yellow_table_AnyFacing(att, def, front) ==
  LET miss  == Fill(0, chance_miss_pm(att, def))
      dodge == Fill(miss, chance_dodge_pm(att, def))
      parry == Fill(dodge, chance_parry_pm(att, def))
  IN  [Miss |-> miss, Dodge |-> dodge, Parry |-> parry]

\* YellowTable: beyond its ends is a hit.
build_yellow_table(att, def, front) ==
  LET miss  == Fill(0, chance_miss_pm(att, def))
      dodge == Fill(miss, IF front THEN chance_dodge_pm(att, def) ELSE 0)
      parry == Fill(dodge, IF front THEN chance_parry_pm(att, def) ELSE 0)
  IN  [Miss |-> miss, Dodge |-> dodge, Parry |-> parry]

classify_yellow(t, roll) ==
  CASE roll < t.Miss   -> "Miss"
    [] t.Miss <= roll /\ roll < t.Dodge   -> "Dodge"
    [] t.Dodge <= roll /\ roll < t.Parry  -> "Parry"
    [] OTHER -> "Hit"

-----------------------------------------------------------------------------
(* Damage and rage.                                                        *)

\* Integer division of the source truncates towards zero.
Quot(a, b) == IF a >= 0 THEN a \div b ELSE -((-a) \div b)

ap_bonus(attack_power, weapon_speed_ms) == Quot(attack_power * weapon_speed_ms, 14000)

\* Mutant: the floor of one point is forgotten.
apply_armor_NoFloor(damage, armor) ==
  IF damage <= 0 \/ armor <= 0 THEN damage
  ELSE (damage * ARMOR_K2_L70) \div (2 * armor + ARMOR_K2_L70)

apply_armor(damage, armor) ==
  IF damage <= 0 \/ armor <= 0 THEN damage
  ELSE LET kept       == (damage * ARMOR_K2_L70) \div (2 * armor + ARMOR_K2_L70)
           floor_kept == (damage * ARMOR_KEPT_MIN_PCT) \div 100
           reduced    == IF kept > floor_kept THEN kept ELSE floor_kept
       IN  IF reduced > 1 THEN reduced ELSE 1

\* A blocked hit: std::max(0, damage - block_value).
Blocked(damage, def) == pm_clamp0(damage - def.block_value)

\* White hits: armor, then the crit, then the block.
resolve_damage(outcome, weapon_roll, att, def) ==
  LET base  == weapon_roll + ap_bonus(att.attack_power, att.weapon_speed_ms)
      armed == apply_armor(base, def.armor)
  IN  CASE outcome = "Crit"  -> armed * MELEE_CRIT_MULT
        [] outcome = "Block" -> Blocked(armed, def)
        [] OTHER             -> armed

\* Yellow hits: the crit before armor, then the block.
resolve_yellow_damage(weapon_roll, crit, blocked, att, def, normalized, flat_bonus) ==
  LET speed == IF normalized THEN att.weapon_norm_ms ELSE att.weapon_speed_ms
      base  == flat_bonus + weapon_roll + ap_bonus(att.attack_power, speed)
      armed == apply_armor(IF crit THEN base * MELEE_CRIT_MULT ELSE base, def.armor)
  IN  IF blocked THEN Blocked(armed, def) ELSE armed

rage_dealt_deci(damage, weapon_speed_ms, crit) ==
  LET hf == ((IF crit THEN RAGE_F2_CRIT ELSE RAGE_F2_HIT) * weapon_speed_ms) \div 2000
  IN  IF damage <= 0 THEN 0
      ELSE (375 * damage + 5 * hf * RAGE_C10_L70) \div RAGE_C10_L70

rage_taken_deci(damage) == IF damage <= 0 THEN 0 ELSE (250 * damage) \div RAGE_C10_L70

-----------------------------------------------------------------------------
(* A whole swing and a whole ability.                                      *)

outcome_makes_contact(outcome) == outcome \in {"Block", "Crit", "Hit"}

NoContact(outcome) ==
  [outcome |-> outcome, damage |-> 0, rage_attacker_deci |-> 0, rage_defender_deci |-> 0]

resolve_swing(att, def, front, roll, weapon_roll) ==
  LET outcome == classify(build_attack_table(att, def, front), roll)
      damage  == resolve_damage(outcome, weapon_roll, att, def)
  IN  IF ~outcome_makes_contact(outcome) THEN NoContact(outcome)
      ELSE [outcome |-> outcome, damage |-> damage,
            rage_attacker_deci |-> rage_dealt_deci(damage, att.weapon_speed_ms, outcome = "Crit"),
            rage_defender_deci |-> rage_taken_deci(damage)]

can_block(def, front) == front /\ def.has_shield

\* rolls holds the roll of each die, whether it is thrown or not.
resolve_yellow(att, def, front, rolls, normalized, flat_bonus) ==
  LET outcome == classify_yellow(build_yellow_table(att, def, front), rolls.table)
      crit    == rolls.crit < chance_crit_pm(att, def)
      blocked == can_block(def, front) /\ rolls.block < chance_block_pm(att, def)
      damage  == resolve_yellow_damage(rolls.weapon, crit, blocked, att, def, normalized, flat_bonus)
  IN  IF outcome # "Hit"
      THEN [outcome |-> outcome, crit |-> FALSE, blocked |-> FALSE, damage |-> 0,
            rage_defender_deci |-> 0]
      ELSE [outcome |-> outcome, crit |-> crit, blocked |-> blocked, damage |-> damage,
            rage_defender_deci |-> rage_taken_deci(damage)]
=============================================================================
