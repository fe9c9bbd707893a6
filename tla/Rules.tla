------------------------------- MODULE Rules -------------------------------
(***************************************************************************)
(* The per-unit rules the match engine applies: unit state, rage, ability  *)
(* gates, parry-haste, observation and policies.  Times are milliseconds,  *)
(* rage is in tenths of a point, as in the source.                         *)
(***************************************************************************)
EXTENDS Integers

\* src/sim/mechanics/abilities.h and rage.h
GCD_MS            == 1500
MS_RAGE_COST_DECI == 300
MS_COOLDOWN_MS    == 6000
HS_RAGE_COST_DECI == 150
RAGE_CAP_DECI     == 1000

Action == {"None", "CastMortalStrike", "QueueHeroicStrike", "UnqueueHeroicStrike"}

\* The part of UnitSpec the engine reads; the rest only shapes hit results.
UnitSpec == [attacks: BOOLEAN, weapon_speed_ms: Nat \ {0}, max_hp: Nat \ {0},
             initial_rage_deci: 0..RAGE_CAP_DECI,
             knows_mortal_strike: BOOLEAN, knows_heroic_strike: BOOLEAN,
             scripted_hs_min_rage_deci: Nat]

\* The part of UnitState that changes during a match.
UnitState == [hp: Nat, rage_deci: 0..RAGE_CAP_DECI, next_swing_ms: Int,
              gcd_ready_ms: Nat, ms_ready_ms: Nat, hs_queued: BOOLEAN]

initial_state(spec) ==
  [hp |-> spec.max_hp, rage_deci |-> spec.initial_rage_deci,
   next_swing_ms |-> IF spec.attacks THEN 0 ELSE -1,
   gcd_ready_ms |-> 0, ms_ready_ms |-> 0, hs_queued |-> FALSE]

add_rage_deci(current, gain) ==
  IF current + gain < 0 THEN 0
  ELSE IF current + gain > RAGE_CAP_DECI THEN RAGE_CAP_DECI ELSE current + gain

\* std::max(0, hp - damage)
HpAfter(hp, damage) == IF hp > damage THEN hp - damage ELSE 0

\* Mutant: the first branch is taken too early and may leave no time at all.
parry_hastened_remaining_NoMiddle(remaining_ms, weapon_speed_ms) ==
  LET p20 == weapon_speed_ms \div 5
  IN  IF remaining_ms > p20 THEN remaining_ms - 2 * p20 ELSE remaining_ms

\* Time left on the parrying unit's swing: 40% of the weapon speed is taken
\* off, never below 20% of it.
parry_hastened_remaining(remaining_ms, weapon_speed_ms) ==
  LET p20 == weapon_speed_ms \div 5
  IN  IF remaining_ms > 3 * p20 THEN remaining_ms - 2 * p20
      ELSE IF remaining_ms > p20 THEN p20
      ELSE remaining_ms

-----------------------------------------------------------------------------
clamp0(v) == IF v < 0 THEN 0 ELSE v

\* What a unit is told at time t; position and identity fields never change
\* during a match and are left out.
build_observation(self, self_st, enemy, enemy_st, t, duration_ms) ==
  [t_ms |-> t, match_remaining_ms |-> clamp0(duration_ms - t),
   self_hp |-> self_st.hp, self_rage_deci |-> self_st.rage_deci,
   self_gcd_remaining_ms |-> clamp0(self_st.gcd_ready_ms - t),
   self_ms_cd_remaining_ms |->
     IF self.knows_mortal_strike THEN clamp0(self_st.ms_ready_ms - t) ELSE -1,
   self_swing_remaining_ms |->
     IF self_st.next_swing_ms >= 0 THEN clamp0(self_st.next_swing_ms - t) ELSE -1,
   self_hs_queued |-> self_st.hs_queued,
   self_knows_ms |-> self.knows_mortal_strike, self_knows_hs |-> self.knows_heroic_strike,
   enemy_hp_pm |-> (enemy_st.hp * 10000) \div enemy.max_hp,
   enemy_rage_deci |-> enemy_st.rage_deci]

\* The mask as the set of actions whose bit is set.
legal_action_mask(o) ==
  {"None"}
  \cup {a \in {"CastMortalStrike"} : /\ o.self_knows_ms
                                     /\ o.self_rage_deci >= MS_RAGE_COST_DECI
                                     /\ o.self_ms_cd_remaining_ms = 0
                                     /\ o.self_gcd_remaining_ms = 0}
  \cup {a \in {"QueueHeroicStrike"} : o.self_knows_hs /\ ~o.self_hs_queued}
  \cup {a \in {"UnqueueHeroicStrike"} : o.self_knows_hs /\ o.self_hs_queued}

\* Mutant: Mortal Strike is tried without asking the mask.
scripted_decide_Unmasked(hs_min_rage_deci, o) ==
  IF o.self_knows_ms /\ o.self_ms_cd_remaining_ms = 0 THEN "CastMortalStrike"
  ELSE IF /\ "QueueHeroicStrike" \in legal_action_mask(o)
          /\ hs_min_rage_deci > 0
          /\ o.self_rage_deci >= hs_min_rage_deci
       THEN "QueueHeroicStrike"
       ELSE "None"

\* ScriptedPolicy::decide: Mortal Strike whenever legal, else Heroic Strike
\* from the unit's rage threshold on (0 = never).
scripted_decide(hs_min_rage_deci, o) ==
  IF "CastMortalStrike" \in legal_action_mask(o) THEN "CastMortalStrike"
  ELSE IF /\ "QueueHeroicStrike" \in legal_action_mask(o)
          /\ hs_min_rage_deci > 0
          /\ o.self_rage_deci >= hs_min_rage_deci
       THEN "QueueHeroicStrike"
       ELSE "None"
=============================================================================
