----------------------------- MODULE DuelRules -----------------------------
(***************************************************************************)
(* What a duel's events do to the two units: the state transformers inside *)
(* the handlers of src/sim/mechanics/match.h, without the event queue that *)
(* decides when they run.                                                  *)
(*                                                                         *)
(* Slots are the code's indices 0 and 1 (ascending entity_id) shifted by   *)
(* one, so a slot is also its unit's entity id.  The keyed random numbers  *)
(* are abstracted to a choice among the results resolve_swing and          *)
(* resolve_yellow can return for the pair of units.                        *)
(***************************************************************************)
EXTENDS Rules

CONSTANTS
  Units,             \* the two UnitSpecs, by slot
  Policies,          \* who decides for each slot
  duration_ms,       \* Scenario::duration_ms
  decision_tick_ms,  \* Scenario::decision_tick_ms
  WhiteResults,      \* by slot, what its resolve_swing may return
  MortalResults,     \* by slot, what resolve_yellow may return for Mortal Strike
  HeroicResults      \* by slot, what resolve_yellow may return for Heroic Strike

Slots    == {1, 2}
Enemy(i) == 3 - i

\* A hit never takes rage away (rage.h: no gain for no damage).
SwingResult  == [outcome: STRING, damage: Int, rage_attacker_deci: Nat, rage_defender_deci: Nat]
YellowResult == [damage: Int, rage_defender_deci: Nat]

\* What load_scenario guarantees, and the types of the hit results.
ASSUME UnitsAssumption == Units \in [Slots -> UnitSpec]
ASSUME TimesAssumption == duration_ms \in Nat \ {0} /\ decision_tick_ms \in Nat \ {0}
ASSUME PoliciesAssumption == Policies \in [Slots -> {"idle", "scripted", "external"}]
ASSUME ResultsAssumption == \A i \in Slots :
  /\ WhiteResults[i] # {}  /\ WhiteResults[i]  \subseteq SwingResult
  /\ MortalResults[i] # {} /\ MortalResults[i] \subseteq YellowResult
  /\ HeroicResults[i] # {} /\ HeroicResults[i] \subseteq YellowResult

\* What a match counts and reports.
MatchResult == [end_ms: Nat, end_reason: {"duration", "death"}, swings: Nat, abilities: Nat,
                decisions: Nat, illegal_actions: Nat, checkpoints: Nat]

NoResult == [end_ms |-> 0, end_reason |-> "duration", swings |-> 0, abilities |-> 0,
             decisions |-> 0, illegal_actions |-> 0, checkpoints |-> 0]

\* run_match skips the tick chain when both units are idle.
run_ticks == \E i \in Slots : Policies[i] # "idle"

EndedByDeath(r, t) == [r EXCEPT !.end_ms = t, !.end_reason = "death"]

-----------------------------------------------------------------------------
(* handle_swing_()                                                         *)

\* The unit that takes a hit.
Struck(st, damage, rage_deci) ==
  [st EXCEPT !.hp = HpAfter(@, damage), !.rage_deci = add_rage_deci(@, rage_deci)]

\* Unit i after it swings at time t: its timer restarts and its queued strike
\* is used up.
Swings(sts, i, t) ==
  [sts[i] EXCEPT !.next_swing_ms = t + Units[i].weapon_speed_ms, !.hs_queued = FALSE]

\* Mutant: a queued strike is made without looking whether it can be paid.
UsesHeroicStrike_Unpaid(st) == st.hs_queued

UsesHeroicStrike(st) == st.hs_queued /\ st.rage_deci >= HS_RAGE_COST_DECI

AfterHeroic(sts, i, y, t) ==
  LET own    == [Swings(sts, i, t) EXCEPT !.rage_deci = sts[i].rage_deci - HS_RAGE_COST_DECI]
      struck == Struck(sts[Enemy(i)], y.damage, y.rage_defender_deci)
  IN  [k \in Slots |-> IF k = i THEN own ELSE struck]

\* Ready-at of unit i, in state st, after it parried at time t.
HastenedSwing(st, i, t) ==
  t + parry_hastened_remaining(st.next_swing_ms - t, Units[i].weapon_speed_ms)

\* Parry-haste retimes only a unit that attacks, and only to a new time.
IsHastened(st, i, outcome, t) ==
  /\ outcome = "Parry"
  /\ st.next_swing_ms >= 0
  /\ HastenedSwing(st, i, t) # st.next_swing_ms

AfterWhite(sts, i, w, t) ==
  LET j      == Enemy(i)
      rage   == add_rage_deci(sts[i].rage_deci, w.rage_attacker_deci)
      own    == [Swings(sts, i, t) EXCEPT !.rage_deci = rage]
      ready  == IF IsHastened(sts[j], j, w.outcome, t)
                THEN HastenedSwing(sts[j], j, t) ELSE sts[j].next_swing_ms
      struck == [Struck(sts[j], w.damage, w.rage_defender_deci) EXCEPT !.next_swing_ms = ready]
  IN  [k \in Slots |-> IF k = i THEN own ELSE struck]

-----------------------------------------------------------------------------
(* observe(), apply_action_() and cast_mortal_strike_()                    *)

observe(sts, i, t) ==
  build_observation(Units[i], sts[i], Units[Enemy(i)], sts[Enemy(i)], t, duration_ms)

Legal(sts, i, t) == legal_action_mask(observe(sts, i, t))

\* Mutant: the global cooldown is put on the wrong unit.
cast_mortal_strike_EnemyGcd(sts, i, t, y) ==
  LET own    == [sts[i] EXCEPT !.rage_deci = @ - MS_RAGE_COST_DECI, !.ms_ready_ms = t + MS_COOLDOWN_MS]
      struck == [Struck(sts[Enemy(i)], y.damage, y.rage_defender_deci) EXCEPT !.gcd_ready_ms = t + GCD_MS]
  IN  [k \in Slots |-> IF k = i THEN own ELSE struck]

\* The whole cost is paid whatever the roll says.
cast_mortal_strike(sts, i, t, y) ==
  LET own    == [sts[i] EXCEPT !.rage_deci = @ - MS_RAGE_COST_DECI,
                               !.ms_ready_ms = t + MS_COOLDOWN_MS, !.gcd_ready_ms = t + GCD_MS]
      struck == Struck(sts[Enemy(i)], y.damage, y.rage_defender_deci)
  IN  [k \in Slots |-> IF k = i THEN own ELSE struck]

\* The units after i's legal action a at time t.
Performed(sts, i, a, t, y) ==
  IF a = "CastMortalStrike" THEN cast_mortal_strike(sts, i, t, y)
  ELSE [sts EXCEPT ![i].hs_queued = (a = "QueueHeroicStrike")]

Counted(r, a) ==
  [r EXCEPT !.decisions = @ + 1,
            !.abilities = IF a = "CastMortalStrike" THEN @ + 1 ELSE @]

\* Mutant: a rejected action is dropped like None.
apply_action_Silent(m, i, a, t, y) ==
  IF a \in Legal(m.states, i, t) \ {"None"}
  THEN [states |-> Performed(m.states, i, a, t, y), res |-> Counted(m.res, a)]
  ELSE m

\* m is the pair of the units and the counters: the action is validated again
\* on the units as they are now before it is applied.
apply_action(m, i, a, t, y) ==
  IF a = "None" THEN m
  ELSE IF a \in Legal(m.states, i, t)
  THEN [states |-> Performed(m.states, i, a, t, y), res |-> Counted(m.res, a)]
  ELSE [m EXCEPT !.res.illegal_actions = @ + 1]

\* What the driver may submit for slot i: an external driver anything, a
\* policy of run_match what it decides on its observation.
Choices(sts, i, t) ==
  CASE Policies[i] = "external" -> Action
    [] Policies[i] = "scripted" ->
         {scripted_decide(Units[i].scripted_hs_min_rage_deci, observe(sts, i, t))}
    [] Policies[i] = "idle"     -> {"None"}

\* A result for each cast the two actions of a tick can trigger.
Casts == {<<y1, y2>> : y1 \in MortalResults[1], y2 \in MortalResults[2]}
=============================================================================
