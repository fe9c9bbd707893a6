------------------------- MODULE MatchEngineProofs -------------------------
(***************************************************************************)
(* Proofs about MatchEngine for any pair of units, any duration, any tick  *)
(* and any hit results.                                                    *)
(***************************************************************************)
EXTENDS MatchEngine, TLAPS

-----------------------------------------------------------------------------
(* The rules.                                                              *)

\* Parry-haste never moves a swing back, and one it does move stays at least
\* a fifth of the weapon speed (and at least 1 ms) away (parry_haste.h:31-37).
LEMMA HastenedBounds ==
  ASSUME NEW rem \in Nat, NEW speed \in Nat \ {0}
  PROVE  LET h == parry_hastened_remaining(rem, speed)
         IN  /\ h \in Nat
             /\ h <= rem
             /\ h # rem => h >= 1 /\ h >= speed \div 5
<1> DEFINE p20 == speed \div 5
<1>1. p20 \in Nat
  OBVIOUS
<1>2. QED
  BY <1>1 DEF parry_hastened_remaining

\* Rage stays between 0 and its cap whatever is gained (rage.h:57-59).
LEMMA RageCapped ==
  ASSUME NEW current \in Int, NEW gain \in Int
  PROVE  add_rage_deci(current, gain) \in 0..RAGE_CAP_DECI
  BY DEF add_rage_deci, RAGE_CAP_DECI

\* A gain never lowers rage.
LEMMA RageGained ==
  ASSUME NEW current \in 0..RAGE_CAP_DECI, NEW gain \in Nat
  PROVE  /\ add_rage_deci(current, gain) >= current
         /\ add_rage_deci(current, gain) \in Int
         /\ current \in Int
  BY DEF add_rage_deci, RAGE_CAP_DECI

\* A hit leaves a unit a unit, and touches only its hit points and its rage.
LEMMA StruckType ==
  ASSUME NEW st \in UnitState, NEW damage \in Int, NEW rage \in Int
  PROVE  /\ Struck(st, damage, rage) \in UnitState
         /\ Struck(st, damage, rage).next_swing_ms = st.next_swing_ms
<1>. st.rage_deci \in Int
  BY DEF UnitState, RAGE_CAP_DECI
<1>1. add_rage_deci(st.rage_deci, rage) \in 0..RAGE_CAP_DECI
  BY RageCapped
<1>2. HpAfter(st.hp, damage) \in Nat
  BY DEF HpAfter, UnitState
<1>3. QED
  BY <1>1, <1>2 DEF Struck, UnitState

LEMMA InitialStateType ==
  ASSUME NEW i \in Slots
  PROVE  initial_state(Units[i]) \in UnitState
  BY UnitsAssumption DEF initial_state, UnitSpec, UnitState, RAGE_CAP_DECI

LEMMA EnemyIsOther ==
  ASSUME NEW i \in Slots
  PROVE  Enemy(i) \in Slots /\ Enemy(i) # i /\ Enemy(Enemy(i)) = i /\ \A k \in Slots : k = i \/ k = Enemy(i)
  BY DEF Slots, Enemy

\* A policy or an outside driver only ever submits one of the four actions.
LEMMA ChoicesAreActions ==
  ASSUME NEW sts, NEW i \in Slots, NEW t
  PROVE  Choices(sts, i, t) \subseteq Action
<1>1. \A thr, o : scripted_decide(thr, o) \in Action
  BY DEF scripted_decide, Action
<1>2. Policies[i] \in {"idle", "scripted", "external"}
  BY PoliciesAssumption
<1>3. QED
  BY <1>1, <1>2 DEF Choices, Action

-----------------------------------------------------------------------------
(* What the handlers do to the two units.                                  *)

\* A swing due no earlier than t that parry-haste retimes falls at least the
\* swing gap after t.
LEMMA HastenedLater ==
  ASSUME NEW st \in UnitState, NEW i \in Slots, NEW outcome, NEW t \in Nat,
         st.next_swing_ms >= t, IsHastened(st, i, outcome, t)
  PROVE  /\ HastenedSwing(st, i, t) \in Nat
         /\ HastenedSwing(st, i, t) >= t + SwingGap(i)
         /\ HastenedSwing(st, i, t) > t
<1> DEFINE rem == st.next_swing_ms - t
           speed == Units[i].weapon_speed_ms
           h == parry_hastened_remaining(rem, speed)
<1>1. rem \in Nat /\ speed \in Nat \ {0}
  BY UnitsAssumption DEF UnitState, UnitSpec
<1>2. HastenedSwing(st, i, t) = t + h /\ t + h # st.next_swing_ms
  BY DEF IsHastened, HastenedSwing
<1>3. st.next_swing_ms \in Int
  BY DEF UnitState
<1> HIDE DEF rem, speed, h
<1>4. h \in Nat /\ (h # rem => h >= 1 /\ h >= speed \div 5)
  BY <1>1, HastenedBounds DEF h
<1>5. h # rem
  BY <1>2, <1>3 DEF rem
<1>6. SwingGap(i) = IF speed < 5 THEN 1 ELSE speed \div 5
  BY DEF SwingGap, speed
<1>7. QED
  BY <1>1, <1>2, <1>4, <1>5, <1>6

\* A swing restarts the timer of the unit that makes it.
LEMMA SwingsType ==
  ASSUME NEW sts \in [Slots -> UnitState], NEW i \in Slots, NEW t \in Nat,
         NEW rage \in 0..RAGE_CAP_DECI
  PROVE  LET own == [Swings(sts, i, t) EXCEPT !.rage_deci = rage]
         IN  /\ own \in UnitState
             /\ own.next_swing_ms = t + Units[i].weapon_speed_ms
             /\ own.hp = sts[i].hp
<1> DEFINE st == sts[i]
           ns == t + Units[i].weapon_speed_ms
           own == [[st EXCEPT !.next_swing_ms = ns, !.hs_queued = FALSE] EXCEPT !.rage_deci = rage]
<1>1. st \in UnitState /\ ns \in Int
  BY UnitsAssumption DEF UnitSpec
<1>2. own = [Swings(sts, i, t) EXCEPT !.rage_deci = rage]
  BY DEF Swings
<1> HIDE DEF st, ns
<1>3. own \in UnitState /\ own.next_swing_ms = ns /\ own.hp = st.hp
  BY <1>1 DEF UnitState
<1>4. QED
  BY <1>2, <1>3 DEF st, ns

LEMMA AfterHeroicType ==
  ASSUME NEW sts \in [Slots -> UnitState], NEW i \in Slots, NEW t \in Nat,
         NEW y \in YellowResult, UsesHeroicStrike(sts[i])
  PROVE  LET n == AfterHeroic(sts, i, y, t)
         IN  /\ n \in [Slots -> UnitState]
             /\ n[i].hp = sts[i].hp
             /\ n[i].next_swing_ms = t + Units[i].weapon_speed_ms
             /\ n[Enemy(i)].next_swing_ms = sts[Enemy(i)].next_swing_ms
<1> DEFINE rage == sts[i].rage_deci - HS_RAGE_COST_DECI
           own  == [Swings(sts, i, t) EXCEPT !.rage_deci = rage]
           hit  == Struck(sts[Enemy(i)], y.damage, y.rage_defender_deci)
<1>1. rage \in 0..RAGE_CAP_DECI
  BY DEF UsesHeroicStrike, UnitState, HS_RAGE_COST_DECI, RAGE_CAP_DECI
<1>2. AfterHeroic(sts, i, y, t) = [k \in Slots |-> IF k = i THEN own ELSE hit]
  BY DEF AfterHeroic
<1>3. hit \in UnitState /\ hit.next_swing_ms = sts[Enemy(i)].next_swing_ms
  BY StruckType, EnemyIsOther DEF YellowResult
<1> HIDE DEF rage, hit
<1>4. /\ own \in UnitState /\ own.hp = sts[i].hp
      /\ own.next_swing_ms = t + Units[i].weapon_speed_ms
  BY <1>1, SwingsType
<1> HIDE DEF own
<1>5. QED
  BY <1>2, <1>3, <1>4, EnemyIsOther

LEMMA AfterWhiteType ==
  ASSUME NEW sts \in [Slots -> UnitState], NEW i \in Slots, NEW t \in Nat,
         NEW w \in SwingResult
  PROVE  LET n == AfterWhite(sts, i, w, t)
             j == Enemy(i)
         IN  /\ n \in [Slots -> UnitState]
             /\ n[i].hp = sts[i].hp
             /\ n[i].next_swing_ms = t + Units[i].weapon_speed_ms
             /\ n[j].next_swing_ms = IF IsHastened(sts[j], j, w.outcome, t)
                                     THEN HastenedSwing(sts[j], j, t)
                                     ELSE sts[j].next_swing_ms
<1> DEFINE j      == Enemy(i)
           rage   == add_rage_deci(sts[i].rage_deci, w.rage_attacker_deci)
           own    == [Swings(sts, i, t) EXCEPT !.rage_deci = rage]
           ready  == IF IsHastened(sts[j], j, w.outcome, t)
                     THEN HastenedSwing(sts[j], j, t) ELSE sts[j].next_swing_ms
           struck == Struck(sts[j], w.damage, w.rage_defender_deci)
           hit    == [struck EXCEPT !.next_swing_ms = ready]
<1>1. AfterWhite(sts, i, w, t) = [k \in Slots |-> IF k = i THEN own ELSE hit]
  BY DEF AfterWhite
<1>2. rage \in 0..RAGE_CAP_DECI
  <2>1. sts[i] \in UnitState
    OBVIOUS
  <2>2. sts[i].rage_deci \in Int
    BY <2>1 DEF UnitState
  <2>3. w.rage_attacker_deci \in Int
    BY DEF SwingResult
  <2>4. QED
    BY <2>2, <2>3, RageCapped
<1>3. ready \in Int
  <2>1. /\ sts[j].next_swing_ms \in Int
        /\ Units[j].weapon_speed_ms \in Nat \ {0}
    BY EnemyIsOther, UnitsAssumption DEF UnitState, UnitSpec
  <2>2. QED
    BY <2>1 DEF HastenedSwing, parry_hastened_remaining
<1>4. struck \in UnitState
  BY StruckType, EnemyIsOther DEF SwingResult
<1>5. ready = IF IsHastened(sts[Enemy(i)], Enemy(i), w.outcome, t)
              THEN HastenedSwing(sts[Enemy(i)], Enemy(i), t)
              ELSE sts[Enemy(i)].next_swing_ms
  OBVIOUS
<1> HIDE DEF rage, ready, struck
<1>6. /\ own \in UnitState /\ own.hp = sts[i].hp
      /\ own.next_swing_ms = t + Units[i].weapon_speed_ms
  BY <1>2, SwingsType
<1>7. hit \in UnitState /\ hit.next_swing_ms = ready
  BY <1>3, <1>4 DEF UnitState
<1> HIDE DEF own, hit
<1>8. QED
  BY <1>1, <1>5, <1>6, <1>7, EnemyIsOther

\* A Mortal Strike whose gate holds can be paid for.
LEMMA CastType ==
  ASSUME NEW sts \in [Slots -> UnitState], NEW i \in Slots, NEW t \in Nat,
         NEW y \in YellowResult, sts[i].rage_deci >= MS_RAGE_COST_DECI
  PROVE  LET n == cast_mortal_strike(sts, i, t, y)
         IN  /\ n \in [Slots -> UnitState]
             /\ n[i].hp = sts[i].hp
             /\ \A k \in Slots : n[k].next_swing_ms = sts[k].next_swing_ms
<1> DEFINE own == [sts[i] EXCEPT !.rage_deci = @ - MS_RAGE_COST_DECI,
                                 !.ms_ready_ms = t + MS_COOLDOWN_MS, !.gcd_ready_ms = t + GCD_MS]
           hit == Struck(sts[Enemy(i)], y.damage, y.rage_defender_deci)
<1>1. cast_mortal_strike(sts, i, t, y) = [k \in Slots |-> IF k = i THEN own ELSE hit]
  BY DEF cast_mortal_strike
<1>2. hit \in UnitState /\ hit.next_swing_ms = sts[Enemy(i)].next_swing_ms
  BY StruckType, EnemyIsOther DEF YellowResult
<1>3. own \in UnitState /\ own.hp = sts[i].hp /\ own.next_swing_ms = sts[i].next_swing_ms
  <2> DEFINE st    == sts[i]
             rage  == st.rage_deci - MS_RAGE_COST_DECI
             ready == t + MS_COOLDOWN_MS
             gcd   == t + GCD_MS
  <2>1. st \in UnitState
    OBVIOUS
  <2>2. rage \in 0..RAGE_CAP_DECI /\ ready \in Nat /\ gcd \in Nat
    BY <2>1 DEF UnitState, MS_RAGE_COST_DECI, MS_COOLDOWN_MS, GCD_MS, RAGE_CAP_DECI
  <2>3. own = [st EXCEPT !.rage_deci = rage, !.ms_ready_ms = ready, !.gcd_ready_ms = gcd]
    OBVIOUS
  <2> HIDE DEF own, st, rage, ready, gcd
  <2>4. own \in UnitState /\ own.hp = st.hp /\ own.next_swing_ms = st.next_swing_ms
    BY <2>1, <2>2, <2>3 DEF UnitState
  <2>5. QED
    BY <2>4 DEF st
<1> HIDE DEF own, hit
<1>4. QED
  BY <1>1, <1>2, <1>3, EnemyIsOther

\* The gate on rage is part of the mask (observation.h:146-149).
LEMMA LegalCastIsPaid ==
  ASSUME NEW sts, NEW i, NEW t, "CastMortalStrike" \in Legal(sts, i, t)
  PROVE  sts[i].rage_deci >= MS_RAGE_COST_DECI
  BY DEF Legal, legal_action_mask, observe, build_observation

\* Applying an action keeps the types, the acting unit's hit points and both
\* swing timers; only a unit's own death check can follow from it.
LEMMA ApplyType ==
  ASSUME NEW m \in [states: [Slots -> UnitState], res: MatchResult], NEW i \in Slots,
         NEW a \in Action, NEW t \in Nat, NEW y \in YellowResult
  PROVE  LET n == apply_action(m, i, a, t, y)
         IN  /\ n \in [states: [Slots -> UnitState], res: MatchResult]
             /\ n.states[i].hp = m.states[i].hp
             /\ \A k \in Slots : n.states[k].next_swing_ms = m.states[k].next_swing_ms
             /\ n.res.end_reason = m.res.end_reason
             /\ n.res.checkpoints = m.res.checkpoints
<1> DEFINE n == apply_action(m, i, a, t, y)
<1>1. CASE a = "None"
  BY <1>1 DEF apply_action
<1>2. CASE a # "None" /\ a \notin Legal(m.states, i, t)
  <2>1. n = [m EXCEPT !.res = [m.res EXCEPT !.illegal_actions = m.res.illegal_actions + 1]]
    BY <1>2 DEF apply_action
  <2>2. m.res \in MatchResult
    OBVIOUS
  <2>3. [m.res EXCEPT !.illegal_actions = m.res.illegal_actions + 1] \in MatchResult
    BY <2>2 DEF MatchResult
  <2>4. QED
    BY <2>1, <2>2, <2>3 DEF MatchResult
<1>3. CASE a # "None" /\ a \in Legal(m.states, i, t)
  <2> DEFINE sts == m.states
             acted == Performed(sts, i, a, t, y)
             counted == Counted(m.res, a)
  <2>1. n = [states |-> acted, res |-> counted]
    BY <1>3 DEF apply_action
  <2>2. /\ counted \in MatchResult
        /\ counted.end_reason = m.res.end_reason
        /\ counted.checkpoints = m.res.checkpoints
    <3> DEFINE r   == m.res
               dec == r.decisions + 1
               abl == IF a = "CastMortalStrike" THEN r.abilities + 1 ELSE r.abilities
    <3>1. r \in MatchResult
      OBVIOUS
    <3>2. dec \in Nat /\ abl \in Nat
      BY <3>1 DEF MatchResult
    <3>3. counted = [r EXCEPT !.decisions = dec, !.abilities = abl]
      BY DEF Counted
    <3> HIDE DEF counted, r, dec, abl
    <3>4. counted \in MatchResult /\ counted.end_reason = r.end_reason
          /\ counted.checkpoints = r.checkpoints
      BY <3>1, <3>2, <3>3 DEF MatchResult
    <3>5. QED
      BY <3>4 DEF r
  <2>3. sts \in [Slots -> UnitState]
    OBVIOUS
  <2> HIDE DEF sts
  <2>4. /\ acted \in [Slots -> UnitState]
        /\ acted[i].hp = sts[i].hp
        /\ \A k \in Slots : acted[k].next_swing_ms = sts[k].next_swing_ms
    <3>1. CASE a = "CastMortalStrike"
      BY <3>1, <1>3, <2>3, LegalCastIsPaid, CastType DEF Performed, sts
    <3>2. CASE a # "CastMortalStrike"
      <4> DEFINE own == [sts[i] EXCEPT !.hs_queued = (a = "QueueHeroicStrike")]
      <4>1. /\ own \in UnitState
            /\ own.hp = sts[i].hp
            /\ own.next_swing_ms = sts[i].next_swing_ms
        BY <2>3 DEF UnitState
      <4>2. acted = [sts EXCEPT ![i] = own]
        BY <3>2 DEF Performed
      <4> HIDE DEF own, acted
      <4>3. QED
        BY <2>3, <4>1, <4>2
    <3>3. QED
      BY <3>1, <3>2
  <2>5. QED
    BY <2>1, <2>2, <2>4 DEF sts
<1>4. QED
  BY <1>1, <1>2, <1>3

-----------------------------------------------------------------------------
(* The inductive invariant.                                                *)

QueueType == [heap: SUBSET Event, next_seq: Nat]

\* A queued swing is one of a unit that attacks, at its enemy.
SwingEvents ==
  \A e \in Queued(queue, Swing) :
    e.source_id \in Slots /\ e.target_id = Enemy(e.source_id) /\ Units[e.source_id].attacks

\* Only a unit that attacks has a swing timer.
SwingTimers ==
  \A i \in Slots : IF Units[i].attacks THEN states[i].next_swing_ms >= 0
                                       ELSE states[i].next_swing_ms = -1

\* The next swing of a unit is far enough from its last one.
Spaced ==
  \A i \in Slots : swung[i] >= 0 =>
    swung[i] <= now /\ states[i].next_swing_ms >= swung[i] + SwingGap(i)

\* While the engine awaits actions the last event handled is their tick.
AwaitsNow == status = "AwaitingActions" => now = tick_t

IInv ==
  /\ TypeOK
  /\ NoLostSwing
  /\ NothingInThePast
  /\ SwingEvents
  /\ SwingTimers
  /\ Spaced
  /\ AwaitsNow
  /\ DeathEndsMatch

LEMMA PopType ==
  ASSUME NEW q \in QueueType, NEW e
  PROVE  /\ pop(q, e) \in QueueType
         /\ pop(q, e).heap = q.heap \ {e}
  BY DEF QueueType, pop

LEMMA PushType ==
  ASSUME NEW q \in QueueType, NEW t \in Nat, NEW kind \in Kind,
         NEW s \in EntityId, NEW d \in EntityId
  PROVE  LET p == [time_ms |-> t, kind |-> kind, source_id |-> s, target_id |-> d,
                   seq |-> q.next_seq]
         IN  /\ push(q, t, kind, s, d) \in QueueType
             /\ push(q, t, kind, s, d).heap = q.heap \cup {p}
  BY DEF QueueType, push, Event

\* What popping the first event of the queue says about the others.
LEMMA TopIsFirst ==
  ASSUME TypeOK, NothingInThePast, NEW e \in queue.heap, IsTop(queue, e)
  PROVE  /\ e \in Event
         /\ last.time_ms <= e.time_ms
         /\ event_before(last, e)
         /\ \A o \in queue.heap : o.time_ms >= e.time_ms
<1>1. queue.heap \subseteq Event
  BY DEF TypeOK
<1>2. event_before(last, e)
  BY DEF NothingInThePast
<1>3. last.time_ms \in Nat /\ e.time_ms \in Nat
  BY <1>1 DEF TypeOK, Event
<1>4. last.time_ms <= e.time_ms
  BY <1>2, <1>3 DEF event_before
<1>5. \A o \in queue.heap : o.time_ms >= e.time_ms
  <2>1. SUFFICES ASSUME NEW o \in queue.heap PROVE o.time_ms >= e.time_ms
    OBVIOUS
  <2>2. o.time_ms \in Nat
    BY <1>1 DEF Event
  <2>3. o = e \/ event_before(e, o)
    BY DEF IsTop
  <2>4. QED
    BY <1>3, <2>2, <2>3 DEF event_before
<1>6. QED
  BY <1>1, <1>2, <1>4, <1>5

\* Whatever a handler pushes later than the event it handles leaves nothing in
\* the past.
LEMMA KeepsOrder ==
  ASSUME TypeOK, NEW e \in queue.heap, IsTop(queue, e), last' = e,
         \A o \in queue'.heap : o \in queue.heap \ {e} \/ o.time_ms > e.time_ms
  PROVE  NothingInThePast'
<1>1. SUFFICES ASSUME NEW o \in queue'.heap PROVE event_before(e, o)
  BY DEF NothingInThePast
<1>2. CASE o \in queue.heap \ {e}
  BY <1>2 DEF IsTop
<1>3. CASE o.time_ms > e.time_ms
  BY <1>3 DEF event_before
<1>4. QED
  BY <1>2, <1>3

\* Handling an event that is no live swing, and pushing at most an event of
\* another kind for later, keeps what is said about swings.
LEMMA QuietStep ==
  ASSUME IInv, NEW e \in queue.heap, IsTop(queue, e), last' = e, status = "Advancing",
         UNCHANGED <<states, swung>>,
         e.kind # Swing \/ e.time_ms # states[e.source_id].next_swing_ms,
         queue.heap \ {e} \subseteq queue'.heap,
         \A o \in queue'.heap :
           o \in queue.heap \ {e} \/ (o.time_ms > e.time_ms /\ o.kind # Swing)
  PROVE  NoLostSwing' /\ NothingInThePast' /\ SwingEvents' /\ SwingTimers' /\ Spaced'
<1>1. NothingInThePast'
  BY KeepsOrder DEF IInv
<1>2. NoLostSwing'
  <2>1. SUFFICES ASSUME NEW i \in Slots, Units[i].attacks
                 PROVE  \E o \in Queued(queue', Swing) :
                          o.source_id = i /\ o.time_ms = states[i].next_swing_ms
    BY DEF NoLostSwing
  <2>2. PICK o \in Queued(queue, Swing) : o.source_id = i /\ o.time_ms = states[i].next_swing_ms
    BY <2>1 DEF IInv, NoLostSwing
  <2>3. o # e
    BY <2>2 DEF Queued
  <2>4. o \in Queued(queue', Swing)
    BY <2>3 DEF Queued
  <2>5. QED
    BY <2>2, <2>4
<1>3. SwingEvents'
  BY DEF IInv, SwingEvents, Queued
<1>4. SwingTimers'
  BY DEF IInv, SwingTimers
<1>5. Spaced'
  <2>1. SUFFICES ASSUME NEW i \in Slots, swung[i] >= 0
                 PROVE  /\ swung[i] <= e.time_ms
                        /\ states[i].next_swing_ms >= swung[i] + SwingGap(i)
    BY DEF Spaced, SwingGap, now
  <2>2. swung[i] <= last.time_ms /\ states[i].next_swing_ms >= swung[i] + SwingGap(i)
    BY <2>1 DEF IInv, Spaced, now
  <2>3. last.time_ms <= e.time_ms /\ e \in Event
    BY TopIsFirst DEF IInv
  <2>4. swung[i] \in Int /\ last.time_ms \in Nat /\ e.time_ms \in Nat
    BY <2>3 DEF IInv, TypeOK, Event
  <2>5. QED
    BY <2>2, <2>3, <2>4
<1>6. QED
  BY <1>1, <1>2, <1>3, <1>4, <1>5

\* A live swing of unit i at time e.time_ms.  q is the queue before the common
\* tail, with the event of the retimed swing of the other unit j, if it was
\* retimed; ready is the swing timer of j afterwards.
LEMMA SwingStep ==
  ASSUME IInv, NEW e \in Queued(queue, Swing), Lands(e),
         NEW sts \in [Slots -> UnitState], NEW counted \in MatchResult, NEW ready \in Int, NEW q,
         states' = sts, UNCHANGED tick_t, FinishSwing(e, sts, q, counted),
         sts[e.source_id].next_swing_ms = e.time_ms + Units[e.source_id].weapon_speed_ms,
         sts[e.source_id].hp = states[e.source_id].hp,
         sts[Enemy(e.source_id)].next_swing_ms = ready,
         \/ /\ ready = states[Enemy(e.source_id)].next_swing_ms
            /\ q = pop(queue, e)
         \/ /\ states[Enemy(e.source_id)].next_swing_ms >= 0
            /\ ready > e.time_ms
            /\ ready >= e.time_ms + SwingGap(Enemy(e.source_id))
            /\ q = push(pop(queue, e), ready, Swing, Enemy(e.source_id), e.source_id)
  PROVE  IInv'
<1> DEFINE i     == e.source_id
           j     == Enemy(i)
           t     == e.time_ms
           speed == Units[i].weapon_speed_ms
           retimed == [time_ms |-> ready, kind |-> Swing, source_id |-> j, target_id |-> i,
                       seq |-> pop(queue, e).next_seq]
           next  == [time_ms |-> t + speed, kind |-> Swing, source_id |-> i, target_id |-> j,
                     seq |-> q.next_seq]
<1>1. /\ TypeOK /\ NoLostSwing /\ NothingInThePast /\ SwingEvents /\ SwingTimers
      /\ Spaced /\ AwaitsNow /\ DeathEndsMatch
  BY DEF IInv
<1>2. /\ e \in queue.heap /\ IsTop(queue, e) /\ last' = e /\ status = "Advancing"
      /\ swung' = [swung EXCEPT ![i] = t]
      /\ t = states[i].next_swing_ms
  BY DEF Lands, Pops, IsStale, Queued
<1>3. i \in Slots /\ j \in Slots /\ i # j /\ e.target_id = j /\ Units[i].attacks
      /\ Enemy(j) = i /\ \A k \in Slots : k = i \/ k = j
  BY <1>1, EnemyIsOther DEF SwingEvents
<1>4. e \in Event /\ t \in Nat /\ last.time_ms \in Nat /\ last.time_ms <= t
      /\ \A o \in queue.heap : o.time_ms >= t
  BY <1>1, <1>2, TopIsFirst DEF Event, TypeOK
<1>5. speed \in Nat \ {0}
  BY <1>3, UnitsAssumption DEF UnitSpec
<1>6. /\ q \in QueueType
      /\ queue.heap \ {e} \subseteq q.heap
      /\ \A o \in q.heap : \/ o \in queue.heap \ {e}
                           \/ o = retimed /\ ready > t /\ states[j].next_swing_ms >= 0
      /\ \/ ready = states[j].next_swing_ms
         \/ /\ ready > t /\ ready >= t + SwingGap(j) /\ states[j].next_swing_ms >= 0
            /\ retimed \in q.heap
  <2>1. queue \in QueueType
    BY <1>1 DEF TypeOK, QueueType
  <2>2. pop(queue, e) \in QueueType /\ pop(queue, e).heap = queue.heap \ {e}
    BY <2>1, PopType
  <2>3. CASE /\ ready = states[j].next_swing_ms
             /\ q = pop(queue, e)
    BY <2>2, <2>3
  <2>4. CASE /\ states[j].next_swing_ms >= 0
             /\ ready > t
             /\ ready >= t + SwingGap(j)
             /\ q = push(pop(queue, e), ready, Swing, j, i)
    <3>1. ready \in Nat /\ Swing \in Kind /\ i \in EntityId /\ j \in EntityId
      BY <1>3, <1>4, <2>4 DEF Slots, EntityId, Kind
    <3>2. q \in QueueType /\ q.heap = (queue.heap \ {e}) \cup {retimed}
      BY <2>2, <2>4, <3>1, PushType
    <3>3. QED
      BY <2>4, <3>2
  <2>5. QED
    BY <2>3, <2>4
<1>7. /\ queue' \in QueueType /\ queue.heap \ {e} \subseteq queue'.heap
      /\ q.heap \subseteq queue'.heap
      /\ \A o \in queue'.heap : o \in q.heap \/ o = next
      /\ status' # "Ended" => next \in queue'.heap
  <2>1. CASE sts[j].hp = 0
    <3>1. queue' = q /\ status' = "Ended"
      BY <1>3, <2>1 DEF FinishSwing
    <3>2. QED
      BY <1>6, <3>1
  <2>2. CASE sts[j].hp # 0
    <3>1. queue' = push(q, t + speed, Swing, i, j)
      BY <1>3, <2>2 DEF FinishSwing
    <3>2. t + speed \in Nat /\ Swing \in Kind /\ i \in EntityId /\ j \in EntityId
      BY <1>3, <1>4, <1>5 DEF Slots, EntityId, Kind
    <3>3. queue' \in QueueType /\ queue'.heap = q.heap \cup {next}
      BY <1>6, <3>1, <3>2, PushType
    <3>4. QED
      BY <1>6, <3>3
  <2>3. QED
    BY <2>1, <2>2
<1>8. next.time_ms = t + speed /\ next.kind = Swing /\ next.source_id = i /\ next.target_id = j
      /\ retimed.time_ms = ready /\ retimed.kind = Swing /\ retimed.source_id = j
      /\ retimed.target_id = i
  OBVIOUS
<1>9. sts[i].next_swing_ms = t + speed /\ sts[j].next_swing_ms = ready /\ sts[i].hp = states[i].hp
  OBVIOUS
<1>10. \A k \in Slots : SwingGap(k) \in Nat /\ SwingGap(k) <= Units[k].weapon_speed_ms
  BY UnitsAssumption DEF UnitSpec, SwingGap
<1>11. \A k \in Slots : states[k].next_swing_ms \in Int /\ states[k].hp \in Nat /\ sts[k].hp \in Nat
  BY <1>1 DEF TypeOK, UnitState
<1> HIDE DEF i, j, t, speed, retimed, next
<1>12. \/ sts[j].hp = 0 /\ res' = EndedByDeath(counted, t) /\ status' = "Ended"
       \/ sts[j].hp > 0 /\ res' = counted /\ status' = "Advancing"
  BY <1>2, <1>3, <1>11 DEF FinishSwing, t
<1>13. TypeOK'
  <2>1. res' \in MatchResult
    BY <1>4, <1>12 DEF EndedByDeath, MatchResult
  <2>2. queue' \in [heap: SUBSET Event, next_seq: Nat]
    BY <1>7 DEF QueueType
  <2>3. swung' \in [Slots -> Int]
    <3>1. swung \in [Slots -> Int] /\ t \in Int
      BY <1>1, <1>4 DEF TypeOK
    <3>2. QED
      BY <1>2, <3>1
  <2>4. last' \in [time_ms: Nat, kind: Kind, source_id: EntityId, target_id: EntityId, seq: Int]
    BY <1>2, <1>4 DEF Event
  <2>5. tick_t' \in Nat /\ states' \in [Slots -> UnitState]
        /\ status' \in {"Advancing", "AwaitingActions", "Ended"}
    BY <1>1, <1>12 DEF TypeOK
  <2>6. QED
    BY <2>1, <2>2, <2>3, <2>4, <2>5 DEF TypeOK
<1>retimed. \/ ready = states[j].next_swing_ms
           \/ /\ ready > t /\ ready >= t + SwingGap(j) /\ states[j].next_swing_ms >= 0
              /\ retimed \in q.heap
  BY <1>6
<1>14. \A o \in queue'.heap : \/ o \in queue.heap \ {e}
                              \/ o = next
                              \/ o = retimed /\ ready > t /\ states[j].next_swing_ms >= 0
  BY <1>6, <1>7
<1>15. NothingInThePast'
  <2>1. t + speed > t
    BY <1>4, <1>5
  <2>2. \A o \in queue'.heap : o \in queue.heap \ {e} \/ o.time_ms > e.time_ms
    BY <1>8, <1>14, <2>1 DEF t
  <2>3. QED
    BY <1>1, <1>2, <2>2, KeepsOrder
<1>16. states[j].next_swing_ms >= 0 => Units[j].attacks
  BY <1>1, <1>3 DEF SwingTimers
<1>17. SwingEvents'
  <2>1. SUFFICES ASSUME NEW o \in queue'.heap, o.kind = Swing
                 PROVE  o.source_id \in Slots /\ o.target_id = Enemy(o.source_id)
                        /\ Units[o.source_id].attacks
    BY DEF SwingEvents, Queued
  <2>2. CASE o \in queue.heap
    BY <1>1, <2>1, <2>2 DEF SwingEvents, Queued
  <2>3. CASE o = next
    BY <1>3, <1>8, <2>3 DEF j
  <2>4. CASE o = retimed /\ states[j].next_swing_ms >= 0
    BY <1>3, <1>8, <1>16, <2>4
  <2>5. QED
    BY <1>14, <2>2, <2>3, <2>4
<1>18. SwingTimers'
  <2>1. SUFFICES ASSUME NEW k \in Slots
                 PROVE  IF Units[k].attacks THEN sts[k].next_swing_ms >= 0
                                            ELSE sts[k].next_swing_ms = -1
    BY DEF SwingTimers
  <2>2. CASE k = i
    BY <1>3, <1>4, <1>5, <1>9, <2>2
  <2>3. CASE k = j /\ ready = states[j].next_swing_ms
    BY <1>1, <1>3, <1>9, <2>3 DEF SwingTimers
  <2>4. CASE k = j /\ ready > t /\ states[j].next_swing_ms >= 0
    BY <1>4, <1>9, <1>16, <2>4
  <2>5. QED
    BY <1>3, <1>retimed, <2>2, <2>3, <2>4
<1>19. Spaced'
  <2>1. SUFFICES ASSUME NEW k \in Slots, swung'[k] >= 0
                 PROVE  swung'[k] <= t /\ sts[k].next_swing_ms >= swung'[k] + SwingGap(k)
    BY <1>2 DEF Spaced, SwingGap, now, t
  <2>2. swung \in [Slots -> Int]
    BY <1>1 DEF TypeOK
  <2>3. CASE k = i
    <3>1. swung'[k] = t
      BY <1>2, <1>3, <2>2, <2>3
    <3>2. SwingGap(i) \in Nat /\ SwingGap(i) <= speed
      BY <1>3, <1>10 DEF speed
    <3>3. QED
      BY <1>4, <1>5, <1>9, <2>3, <3>1, <3>2
  <2>4. CASE k = j
    <3>1. swung'[j] = swung[j] /\ swung[j] \in Int
      BY <1>2, <1>3, <2>2
    <3>2. swung[j] <= last.time_ms /\ states[j].next_swing_ms >= swung[j] + SwingGap(j)
      BY <1>1, <1>3, <2>1, <2>4, <3>1 DEF Spaced, now
    <3>3. SwingGap(j) \in Nat /\ states[j].next_swing_ms \in Int
      BY <1>3, <1>10, <1>11
    <3>4. QED
      BY <1>4, <1>retimed, <1>9, <2>4, <3>1, <3>2, <3>3
  <2>5. QED
    BY <1>3, <2>3, <2>4
<1>20. NoLostSwing'
  <2>1. SUFFICES ASSUME status' # "Ended", NEW k \in Slots, Units[k].attacks
                 PROVE  \E o \in queue'.heap : o.kind = Swing /\ o.source_id = k
                                               /\ o.time_ms = sts[k].next_swing_ms
    BY DEF NoLostSwing, Queued
  <2>2. CASE k = i
    BY <1>7, <1>8, <1>9, <2>1, <2>2
  <2>3. CASE k = j /\ ready = states[j].next_swing_ms
    <3>1. PICK o \in queue.heap : o.kind = Swing /\ o.source_id = j
                                  /\ o.time_ms = states[j].next_swing_ms
      BY <1>1, <1>2, <1>3, <2>1, <2>3 DEF NoLostSwing, Queued
    <3>2. o \in queue'.heap
      BY <1>3, <1>7, <3>1 DEF i
    <3>3. QED
      BY <1>9, <2>3, <3>1, <3>2
  <2>4. CASE k = j /\ retimed \in q.heap
    BY <1>7, <1>8, <1>9, <2>4
  <2>5. QED
    BY <1>3, <1>retimed, <2>2, <2>3, <2>4
<1>21. AwaitsNow'
  BY <1>12 DEF AwaitsNow
<1>22. DeathEndsMatch'
  <2>1. sts[i].hp > 0
    BY <1>1, <1>2, <1>3, <1>9, <1>11 DEF DeathEndsMatch
  <2>2. (\E k \in Slots : sts[k].hp = 0) <=> sts[j].hp = 0
    BY <1>3, <2>1
  <2>3. (status' = "Ended" /\ res'.end_reason = "death") <=> sts[j].hp = 0
    <3>1. EndedByDeath(counted, t).end_reason = "death"
      BY DEF EndedByDeath, MatchResult
    <3>2. sts[j].hp \in Nat
      BY <1>3, <1>11
    <3>3. CASE sts[j].hp = 0
      BY <1>12, <3>1, <3>3
    <3>4. CASE sts[j].hp > 0
      BY <1>12, <3>4
    <3>5. QED
      BY <3>2, <3>3, <3>4
  <2>4. QED
    BY <1>3, <2>1, <2>2, <2>3 DEF DeathEndsMatch
<1>23. QED
  BY <1>13, <1>15, <1>17, <1>18, <1>19, <1>20, <1>21, <1>22 DEF IInv

\* No unit that attacks is overdue when an event is handled.
LEMMA NobodyOverdue ==
  ASSUME IInv, NEW e \in queue.heap, IsTop(queue, e), status = "Advancing", NEW k \in Slots,
         states[k].next_swing_ms >= 0
  PROVE  states[k].next_swing_ms >= e.time_ms
<1>1. Units[k].attacks
  BY DEF IInv, SwingTimers
<1>2. PICK o \in Queued(queue, Swing) : o.source_id = k /\ o.time_ms = states[k].next_swing_ms
  BY <1>1 DEF IInv, NoLostSwing
<1>3. o \in queue.heap
  BY DEF Queued
<1>4. QED
  BY <1>2, <1>3, TopIsFirst DEF IInv

LEMMA SwingOfAnAttacker ==
  ASSUME IInv, NEW e \in Queued(queue, Swing)
  PROVE  e.source_id \in Slots /\ e.target_id = Enemy(e.source_id) /\ e.time_ms \in Nat
  BY DEF IInv, SwingEvents, TypeOK, Event, Queued

LEMMA HeroicStep ==
  ASSUME IInv, NEW e \in Queued(queue, Swing), NEW y \in HeroicResults[e.source_id],
         HeroicSwing(e, y)
  PROVE  IInv'
<1> DEFINE i       == e.source_id
           sts     == AfterHeroic(states, i, y, e.time_ms)
           counted == [res EXCEPT !.abilities = @ + 1]
           ready   == states[Enemy(i)].next_swing_ms
<1>1. /\ i \in Slots /\ Enemy(i) \in Slots /\ e.time_ms \in Nat
      /\ states \in [Slots -> UnitState] /\ res \in MatchResult
  BY SwingOfAnAttacker, EnemyIsOther DEF IInv, TypeOK
<1>2. y \in YellowResult
  BY <1>1, ResultsAssumption
<1>3. /\ Lands(e) /\ UsesHeroicStrike(states[i]) /\ states' = sts /\ UNCHANGED tick_t
      /\ FinishSwing(e, sts, pop(queue, e), counted)
  BY DEF HeroicSwing
<1>4. /\ sts \in [Slots -> UnitState] /\ sts[i].hp = states[i].hp
      /\ sts[i].next_swing_ms = e.time_ms + Units[i].weapon_speed_ms
      /\ sts[Enemy(i)].next_swing_ms = ready
  BY <1>1, <1>2, <1>3, AfterHeroicType
<1>5. counted \in MatchResult /\ ready \in Int
  BY <1>1 DEF MatchResult, UnitState
<1> HIDE DEF sts, counted
<1>6. QED
  BY <1>3, <1>4, <1>5, SwingStep

LEMMA WhiteStep ==
  ASSUME IInv, NEW e \in Queued(queue, Swing), NEW w \in WhiteResults[e.source_id],
         WhiteSwing(e, w)
  PROVE  IInv'
<1> DEFINE i       == e.source_id
           j       == Enemy(i)
           t       == e.time_ms
           sts     == AfterWhite(states, i, w, t)
           counted == [res EXCEPT !.swings = @ + 1]
           q       == push_hastened(pop(queue, e), j, w.outcome, t)
           ready   == sts[j].next_swing_ms
<1>1. /\ i \in Slots /\ j \in Slots /\ Enemy(j) = i /\ t \in Nat /\ e.target_id = j
      /\ states \in [Slots -> UnitState] /\ res \in MatchResult
      /\ e \in queue.heap
  BY SwingOfAnAttacker, EnemyIsOther DEF IInv, TypeOK, Queued
<1>2. w \in SwingResult
  BY <1>1, ResultsAssumption
<1>3. /\ Lands(e) /\ states' = sts /\ UNCHANGED tick_t
      /\ FinishSwing(e, sts, q, counted)
  BY <1>1 DEF WhiteSwing
<1>4. /\ sts \in [Slots -> UnitState] /\ sts[i].hp = states[i].hp
      /\ sts[i].next_swing_ms = t + Units[i].weapon_speed_ms
      /\ ready = IF IsHastened(states[j], j, w.outcome, t)
                 THEN HastenedSwing(states[j], j, t)
                 ELSE states[j].next_swing_ms
  BY <1>1, <1>2, AfterWhiteType
<1>5. counted \in MatchResult
  BY <1>1 DEF MatchResult
<1>6. ready \in Int
  BY <1>1, <1>4 DEF UnitState
<1>7. \/ ready = states[j].next_swing_ms /\ q = pop(queue, e)
      \/ /\ states[j].next_swing_ms >= 0
         /\ ready > t
         /\ ready >= t + SwingGap(j)
         /\ q = push(pop(queue, e), ready, Swing, j, i)
  <2>1. CASE ~IsHastened(states[j], j, w.outcome, t)
    BY <1>4, <2>1 DEF push_hastened
  <2>2. CASE IsHastened(states[j], j, w.outcome, t)
    <3>1. states[j].next_swing_ms >= 0 /\ states[j] \in UnitState
      BY <1>1, <2>2 DEF IsHastened
    <3>2. states[j].next_swing_ms >= t
      BY <1>1, <1>3, <3>1, NobodyOverdue DEF Lands, Pops
    <3>3. ready >= t + SwingGap(j) /\ ready > t
      BY <1>1, <1>4, <2>2, <3>1, <3>2, HastenedLater
    <3>4. q = push(pop(queue, e), ready, Swing, j, i)
      BY <1>1, <1>4, <2>2 DEF push_hastened
    <3>5. QED
      BY <3>1, <3>3, <3>4
  <2>3. QED
    BY <2>1, <2>2
<1> HIDE DEF sts, counted, q
<1>8. QED
  BY <1>3, <1>4, <1>5, <1>6, <1>7, SwingStep

\* Both actions of a step the driver makes, up to the first death: the pair of
\* units and counters that the step leaves.
First(a, y)   == apply_action([states |-> states, res |-> res], 1, a[1], tick_t, y[1])
Outcome(a, y) ==
  LET one == First(a, y)
  IN  IF one.states[2].hp = 0 THEN one ELSE apply_action(one, 2, a[2], tick_t, y[2])

LEMMA StepOutcome ==
  ASSUME IInv, NEW a, a[1] \in Action, a[2] \in Action, NEW y \in Casts, Step(a, y)
  PROVE  LET m == Outcome(a, y)
         IN  /\ status = "AwaitingActions" /\ UNCHANGED <<tick_t, last, swung>>
             /\ m \in [states: [Slots -> UnitState], res: MatchResult]
             /\ \A k \in Slots : m.states[k].next_swing_ms = states[k].next_swing_ms
             /\ m.res.checkpoints = res.checkpoints
             /\ IF \E k \in Slots : m.states[k].hp = 0 THEN EndByDeath(m) ELSE Resume(m)
             /\ First(a, y) \in [states: [Slots -> UnitState], res: MatchResult]
             /\ m.states[2].hp = First(a, y).states[2].hp
             /\ m.states[1].hp > 0 \/ m.states[2].hp > 0
<1> DEFINE was == [states |-> states, res |-> res]
           one == apply_action(was, 1, a[1], tick_t, y[1])
           two == apply_action(one, 2, a[2], tick_t, y[2])
           M   == [states: [Slots -> UnitState], res: MatchResult]
<1>1. 1 \in Slots /\ 2 \in Slots /\ \A k \in Slots : k = 1 \/ k = 2
  BY DEF Slots
<1>2. y[1] \in YellowResult /\ y[2] \in YellowResult
  BY <1>1, ResultsAssumption DEF Casts
<1>3. was \in M /\ was.states = states /\ was.res = res /\ tick_t \in Nat
  BY DEF IInv, TypeOK
<1>4. /\ status = "AwaitingActions" /\ UNCHANGED <<tick_t, last, swung>>
      /\ \/ one.states[2].hp = 0 /\ EndByDeath(one)
         \/ one.states[2].hp > 0 /\ two.states[1].hp = 0 /\ EndByDeath(two)
         \/ one.states[2].hp > 0 /\ two.states[1].hp > 0 /\ Resume(two)
  BY DEF Step
<1>5. First(a, y) = one /\ Outcome(a, y) = IF one.states[2].hp = 0 THEN one ELSE two
  BY DEF Outcome, First
<1> HIDE DEF was
<1>6. /\ one \in M /\ one.states[1].hp = states[1].hp /\ one.res.checkpoints = res.checkpoints
      /\ \A k \in Slots : one.states[k].next_swing_ms = states[k].next_swing_ms
  <2>1. was \in [states: [Slots -> UnitState], res: MatchResult]
    BY <1>3
  <2>2. 1 \in Slots /\ y[1] \in YellowResult /\ tick_t \in Nat
    BY <1>1, <1>2, <1>3
  <2>3. /\ one \in [states: [Slots -> UnitState], res: MatchResult]
        /\ one.states[1].hp = was.states[1].hp
        /\ \A k \in Slots : one.states[k].next_swing_ms = was.states[k].next_swing_ms
        /\ one.res.checkpoints = was.res.checkpoints
    BY ONLY <2>1, <2>2, a[1] \in Action, ApplyType
  <2>4. QED
    BY <1>3, <2>3
<1> HIDE DEF one
<1>7. /\ two \in M /\ two.states[2].hp = one.states[2].hp
      /\ two.res.checkpoints = one.res.checkpoints
      /\ \A k \in Slots : two.states[k].next_swing_ms = one.states[k].next_swing_ms
  <2>1. one \in [states: [Slots -> UnitState], res: MatchResult]
    BY <1>6
  <2>2. 2 \in Slots /\ y[2] \in YellowResult /\ tick_t \in Nat
    BY <1>1, <1>2, <1>3
  <2>3. QED
    BY ONLY <2>1, <2>2, a[2] \in Action, ApplyType
<1> HIDE DEF two
<1>8. one.states[2].hp \in Nat /\ two.states[1].hp \in Nat /\ states[1].hp > 0
  BY <1>1, <1>4, <1>6, <1>7 DEF IInv, TypeOK, DeathEndsMatch, UnitState
<1> HIDE DEF M
<1>9. CASE one.states[2].hp = 0
  BY <1>1, <1>4, <1>5, <1>6, <1>8, <1>9 DEF M
<1>10. CASE one.states[2].hp > 0
  <2>1. Outcome(a, y) = two
    BY <1>5, <1>8, <1>10
  <2>2. (\E k \in Slots : two.states[k].hp = 0) <=> two.states[1].hp = 0
    BY <1>1, <1>7, <1>10
  <2>3. IF \E k \in Slots : two.states[k].hp = 0 THEN EndByDeath(two) ELSE Resume(two)
    BY <1>4, <1>8, <1>10, <2>2
  <2>4. \A k \in Slots : two.states[k].next_swing_ms = states[k].next_swing_ms
    BY <1>6, <1>7
  <2>5. QED
    BY <1>4, <1>5, <1>6, <1>7, <1>10, <2>1, <2>3, <2>4 DEF M
<1>11. QED
  BY <1>8, <1>9, <1>10

\* A step the driver makes, whatever it submits: both actions are applied, and
\* the match ends or the next tick is queued.
LEMMA DriverStep ==
  ASSUME IInv, NEW a, a[1] \in Action, a[2] \in Action, NEW y \in Casts, Step(a, y)
  PROVE  IInv'
<1> DEFINE m == Outcome(a, y)
           M == [states: [Slots -> UnitState], res: MatchResult]
<1>1. /\ TypeOK /\ NoLostSwing /\ NothingInThePast /\ SwingEvents /\ SwingTimers
      /\ Spaced /\ AwaitsNow /\ DeathEndsMatch
  BY DEF IInv
<1>2. 1 \in Slots /\ 2 \in Slots /\ \A k \in Slots : k = 1 \/ k = 2
  BY DEF Slots
<1>3. tick_t \in Nat
  BY <1>1 DEF TypeOK
<1>4. /\ status = "AwaitingActions" /\ UNCHANGED <<tick_t, last, swung>>
      /\ m \in M
      /\ \A k \in Slots : m.states[k].next_swing_ms = states[k].next_swing_ms
      /\ IF \E k \in Slots : m.states[k].hp = 0 THEN EndByDeath(m) ELSE Resume(m)
      /\ m.states[1].hp > 0 \/ m.states[2].hp > 0
  BY StepOutcome
<1> HIDE DEF m
<1>5. /\ states' = m.states
       /\ \/ EndByDeath(m) /\ m.states[1].hp = 0 /\ m.states[2].hp > 0
          \/ EndByDeath(m) /\ m.states[2].hp = 0 /\ m.states[1].hp > 0
          \/ Resume(m) /\ m.states[1].hp > 0 /\ m.states[2].hp > 0
  <2>1. \A k \in Slots : m.states[k].hp \in Nat
    BY <1>4 DEF UnitState
  <2>2. QED
    BY <1>2, <1>4, <2>1 DEF EndByDeath, Resume
<1>6. m.states \in [Slots -> UnitState] /\ m.res \in MatchResult
  BY <1>4
<1>7. SwingTimers' /\ Spaced'
  BY <1>1, <1>4, <1>5 DEF SwingTimers, Spaced, now, SwingGap
<1>8. CASE EndByDeath(m)
  <2>1. queue' = queue /\ status' = "Ended" /\ res' = EndedByDeath(m.res, tick_t)
    BY <1>8 DEF EndByDeath
  <2>2. res' \in MatchResult /\ res'.end_reason = "death"
    BY <1>3, <1>6, <2>1 DEF EndedByDeath, MatchResult
  <2>3. TypeOK'
    BY <1>1, <1>4, <1>5, <1>6, <2>1, <2>2 DEF TypeOK
  <2>4. NoLostSwing' /\ AwaitsNow'
    BY <2>1 DEF NoLostSwing, AwaitsNow
  <2>5. NothingInThePast' /\ SwingEvents'
    BY <1>1, <1>4, <2>1 DEF NothingInThePast, SwingEvents, Queued
  <2>6. DeathEndsMatch'
    <3>1. \/ m.states[1].hp = 0 /\ m.states[2].hp > 0
          \/ m.states[2].hp = 0 /\ m.states[1].hp > 0
      BY <1>5, <1>6, <1>8, <2>1 DEF Resume
    <3>2. QED
      BY <1>2, <1>5, <2>1, <2>2, <3>1 DEF DeathEndsMatch
  <2>7. QED
    BY <1>7, <2>3, <2>4, <2>5, <2>6 DEF IInv
<1>9. CASE Resume(m)
  <2>1. queue' = rearm_decide(queue, tick_t) /\ status' = "Advancing" /\ res' = m.res
    BY <1>9 DEF Resume
  <2>2. /\ queue' \in QueueType
        /\ queue.heap \subseteq queue'.heap
        /\ \A o \in queue'.heap : o \in queue.heap \/ (o.time_ms > tick_t /\ o.kind = Decide)
    <3>1. queue \in QueueType
      BY <1>1 DEF TypeOK, QueueType
    <3>2. tick_t + decision_tick_ms \in Nat /\ tick_t + decision_tick_ms > tick_t
      BY <1>3, TimesAssumption
    <3>3. Decide \in Kind /\ 0 \in EntityId
      BY DEF Kind, EntityId
    <3>4. CASE queue' = queue
      BY <3>1, <3>4
    <3>5. CASE queue' = push(queue, tick_t + decision_tick_ms, Decide, 0, 0)
      BY <3>1, <3>2, <3>3, <3>5, PushType
    <3>6. QED
      BY <2>1, <3>4, <3>5 DEF rearm_decide
  <2>3. TypeOK'
    BY <1>1, <1>4, <1>5, <1>6, <2>1, <2>2 DEF TypeOK, QueueType
  <2>4. NoLostSwing'
    BY <1>1, <1>4, <1>5, <2>1, <2>2 DEF NoLostSwing, Queued
  <2>5. AwaitsNow'
    BY <2>1 DEF AwaitsNow
  <2>6. NothingInThePast'
    <3>1. last' = last /\ last.time_ms = tick_t
      BY <1>1, <1>4 DEF AwaitsNow, now
    <3>2. QED
      BY <1>1, <2>2, <3>1 DEF NothingInThePast, event_before
  <2>7. SwingEvents'
    BY <1>1, <2>2 DEF SwingEvents, Queued, Decide, Swing
  <2>8. DeathEndsMatch'
    <3>1. m.states[1].hp > 0 /\ m.states[2].hp > 0
      BY <1>5, <1>9, <2>1 DEF EndByDeath
    <3>2. QED
      BY <1>2, <1>5, <1>6, <2>1, <3>1 DEF DeathEndsMatch, UnitState
  <2>9. QED
    BY <1>7, <2>3, <2>4, <2>5, <2>6, <2>7, <2>8 DEF IInv
<1>10. QED
  BY <1>5, <1>8, <1>9

\* What every event the constructor queues satisfies.
Opening(o) ==
  /\ o.time_ms > 0 \/ (o.time_ms = 0 /\ o.kind > Checkpoint)
  /\ o.kind = Swing => /\ o.source_id \in Slots /\ o.target_id = Enemy(o.source_id)
                       /\ Units[o.source_id].attacks /\ o.time_ms = 0

LEMMA OpeningPush ==
  ASSUME NEW q \in QueueType, \A o \in q.heap : Opening(o), NEW t \in Nat, NEW kind \in Kind,
         NEW s \in EntityId, NEW d \in EntityId,
         t > 0 \/ kind > Checkpoint,
         kind = Swing => s \in Slots /\ d = Enemy(s) /\ Units[s].attacks /\ t = 0
  PROVE  LET n == push(q, t, kind, s, d)
         IN  /\ n \in QueueType
             /\ \A o \in n.heap : Opening(o)
             /\ q.heap \subseteq n.heap
             /\ \E o \in n.heap : o.kind = kind /\ o.source_id = s /\ o.time_ms = t
<1> DEFINE n == push(q, t, kind, s, d)
           p == [time_ms |-> t, kind |-> kind, source_id |-> s, target_id |-> d,
                 seq |-> q.next_seq]
<1>1. n \in QueueType /\ n.heap = q.heap \cup {p}
  BY PushType
<1>2. /\ p.time_ms = t /\ p.kind = kind /\ p.source_id = s /\ p.target_id = d
  OBVIOUS
<1> HIDE DEF n, p
<1>3. Opening(p)
  BY <1>2 DEF Opening
<1>4. QED
  BY <1>1, <1>2, <1>3 DEF n

\* The constructor queues the end, a first checkpoint, a first tick and the
\* opening swing of every unit that attacks.
LEMMA InitialQueue ==
  ASSUME NEW enable_ticks
  PROVE  LET q == initial_queue(enable_ticks)
         IN  /\ q \in QueueType
             /\ \A o \in q.heap : Opening(o)
             /\ \A i \in Slots : Units[i].attacks =>
                  \E o \in q.heap : o.kind = Swing /\ o.source_id = i /\ o.time_ms = 0
<1> DEFINE end   == push(EmptyQueue, duration_ms, MatchEnd, 0, 0)
           cp    == IF CHECKPOINT_INTERVAL_MS <= duration_ms
                    THEN push(end, CHECKPOINT_INTERVAL_MS, Checkpoint, 0, 0) ELSE end
           tick  == IF enable_ticks THEN push(cp, 0, Decide, 0, 0) ELSE cp
           first == IF Units[1].attacks THEN push(tick, 0, Swing, 1, 2) ELSE tick
           both  == IF Units[2].attacks THEN push(first, 0, Swing, 2, 1) ELSE first
<1>1. /\ Checkpoint \in Kind /\ MatchEnd \in Kind /\ Decide \in Kind /\ Swing \in Kind
      /\ 0 \in EntityId /\ 1 \in EntityId /\ 2 \in EntityId
      /\ 0 \in Nat /\ duration_ms \in Nat /\ duration_ms > 0
      /\ CHECKPOINT_INTERVAL_MS \in Nat /\ CHECKPOINT_INTERVAL_MS > 0
  BY TimesAssumption DEF Kind, EntityId, CHECKPOINT_INTERVAL_MS
<1>2. 1 \in Slots /\ 2 \in Slots /\ Enemy(1) = 2 /\ Enemy(2) = 1 /\ \A i \in Slots : i = 1 \/ i = 2
  BY DEF Slots, Enemy
<1>3. /\ MatchEnd # Swing /\ Checkpoint # Swing /\ Decide # Swing
      /\ Decide > Checkpoint /\ Swing > Checkpoint
  BY DEF Checkpoint, MatchEnd, Decide, Swing
<1>4. EmptyQueue \in QueueType /\ \A o \in EmptyQueue.heap : Opening(o)
  BY DEF EmptyQueue, QueueType
<1>5. end \in QueueType /\ \A o \in end.heap : Opening(o)
  BY <1>1, <1>3, <1>4, OpeningPush
<1> HIDE DEF end
<1>6. cp \in QueueType /\ \A o \in cp.heap : Opening(o)
  BY <1>1, <1>3, <1>5, OpeningPush
<1> HIDE DEF cp
<1>7. tick \in QueueType /\ \A o \in tick.heap : Opening(o)
  BY <1>1, <1>3, <1>6, OpeningPush
<1> HIDE DEF tick
<1>8. /\ first \in QueueType
      /\ \A o \in first.heap : Opening(o)
      /\ Units[1].attacks =>
           \E o \in first.heap : o.kind = Swing /\ o.source_id = 1 /\ o.time_ms = 0
  BY <1>1, <1>2, <1>3, <1>7, OpeningPush
<1> HIDE DEF first
<1>9. /\ both \in QueueType
      /\ \A o \in both.heap : Opening(o)
      /\ first.heap \subseteq both.heap
      /\ Units[2].attacks =>
           \E o \in both.heap : o.kind = Swing /\ o.source_id = 2 /\ o.time_ms = 0
  BY <1>1, <1>2, <1>3, <1>8, OpeningPush
<1>10. both = initial_queue(enable_ticks)
  BY DEF initial_queue, first, tick, cp, end
<1> HIDE DEF both
<1>11. QED
  BY <1>2, <1>8, <1>9, <1>10

\* A newly constructed engine, with or without ticks.
Constructed(enable_ticks) ==
  /\ queue = initial_queue(enable_ticks)
  /\ states = [i \in Slots |-> initial_state(Units[i])]
  /\ res = NoResult
  /\ status = "Advancing"
  /\ tick_t = 0
  /\ last = [time_ms |-> 0, kind |-> Checkpoint, source_id |-> 0, target_id |-> 0, seq |-> -1]
  /\ swung = [i \in Slots |-> -1]

Fresh == \E enable_ticks \in BOOLEAN : Constructed(enable_ticks)

LEMMA FreshIInv == Fresh => IInv
<1>1. SUFFICES ASSUME NEW enable_ticks \in BOOLEAN, Constructed(enable_ticks) PROVE IInv
  BY DEF Fresh
<1>2. \A i \in Slots : states[i] = initial_state(Units[i])
  BY <1>1 DEF Constructed
<1>3. \A i \in Slots : Units[i] \in UnitSpec
  BY UnitsAssumption
<1>4. \A i \in Slots : /\ states[i].hp > 0
                       /\ states[i].next_swing_ms = IF Units[i].attacks THEN 0 ELSE -1
  <2>1. SUFFICES ASSUME NEW i \in Slots
                 PROVE  /\ states[i].hp > 0
                        /\ states[i].next_swing_ms = IF Units[i].attacks THEN 0 ELSE -1
    OBVIOUS
  <2>2. Units[i].max_hp \in Nat /\ Units[i].max_hp > 0
    BY <1>3 DEF UnitSpec
  <2>3. /\ initial_state(Units[i]).hp = Units[i].max_hp
        /\ initial_state(Units[i]).next_swing_ms = IF Units[i].attacks THEN 0 ELSE -1
    BY DEF initial_state
  <2>4. QED
    BY <1>2, <2>2, <2>3
<1>5. TypeOK
  <2>1. states \in [Slots -> UnitState]
    BY <1>1, InitialStateType DEF Constructed
  <2>2. NoResult \in MatchResult
    BY DEF NoResult, MatchResult
  <2>3. last \in [time_ms: Nat, kind: Kind, source_id: EntityId, target_id: EntityId, seq: Int]
    BY <1>1 DEF Constructed, Kind, EntityId
  <2>4. queue \in [heap: SUBSET Event, next_seq: Nat]
    BY <1>1, InitialQueue DEF Constructed, QueueType
  <2>5. QED
    BY <1>1, <2>1, <2>2, <2>3, <2>4 DEF Constructed, TypeOK
<1>6. NoLostSwing
  BY <1>1, <1>4, InitialQueue DEF Constructed, NoLostSwing, Queued
<1>7. NothingInThePast
  BY <1>1, InitialQueue DEF Constructed, NothingInThePast, event_before, Opening
<1>8. SwingEvents
  BY <1>1, InitialQueue DEF Constructed, SwingEvents, Queued, Opening
<1>9. SwingTimers
  BY <1>4 DEF SwingTimers
<1>10. Spaced /\ AwaitsNow
  BY <1>1 DEF Constructed, Spaced, AwaitsNow
<1>11. DeathEndsMatch
  BY <1>1, <1>4 DEF Constructed, DeathEndsMatch, Slots
<1>12. QED
  BY <1>5, <1>6, <1>7, <1>8, <1>9, <1>10, <1>11 DEF IInv

LEMMA InitIInv == Init => IInv
<1>1. run_ticks \in BOOLEAN
  BY DEF run_ticks
<1>2. Init => Fresh
  BY <1>1 DEF Init, Fresh, Constructed
<1>3. QED
  BY <1>2, FreshIInv

\* The handlers of the other events leave the units alone.
LEMMA QuietSteps ==
  ASSUME IInv, NEW e \in queue.heap,
         \/ CheckpointEvent(e) \/ MatchEndEvent(e) \/ DecideEvent(e)
         \/ StaleSwing(e)
  PROVE  IInv'
<1>1. /\ TypeOK /\ NothingInThePast /\ DeathEndsMatch
      /\ queue \in QueueType
  BY DEF IInv, TypeOK, QueueType
<1>2. /\ status = "Advancing" /\ IsTop(queue, e) /\ last' = e /\ UNCHANGED <<states, swung>>
  BY DEF CheckpointEvent, MatchEndEvent, DecideEvent, StaleSwing, Pops
<1>3. e \in Event
  BY <1>1, <1>2, TopIsFirst
<1>4. pop(queue, e) \in QueueType /\ pop(queue, e).heap = queue.heap \ {e}
  BY <1>1, PopType
<1>5. /\ queue' \in QueueType
      /\ queue.heap \ {e} \subseteq queue'.heap
      /\ \A o \in queue'.heap :
           o \in queue.heap \ {e} \/ (o.time_ms > e.time_ms /\ o.kind # Swing)
  <2>1. CASE queue' = pop(queue, e)
    BY <1>4, <2>1
  <2>2. CASE queue' = push(pop(queue, e), e.time_ms + CHECKPOINT_INTERVAL_MS, Checkpoint, 0, 0)
    <3>1. /\ e.time_ms + CHECKPOINT_INTERVAL_MS \in Nat
          /\ e.time_ms + CHECKPOINT_INTERVAL_MS > e.time_ms
      BY <1>3 DEF Event, CHECKPOINT_INTERVAL_MS
    <3>2. Checkpoint \in Kind /\ 0 \in EntityId /\ Checkpoint # Swing
      BY DEF Kind, EntityId, Checkpoint, Swing
    <3>3. QED
      BY <1>4, <2>2, <3>1, <3>2, PushType
  <2>3. QED
    BY <2>1, <2>2 DEF CheckpointEvent, MatchEndEvent, DecideEvent, StaleSwing, rearm_checkpoint
<1>6. e.kind # Swing \/ e.time_ms # states[e.source_id].next_swing_ms
  BY DEF CheckpointEvent, MatchEndEvent, DecideEvent, StaleSwing, IsStale, Pops,
         Checkpoint, MatchEnd, Decide, Swing
<1>7. NoLostSwing' /\ NothingInThePast' /\ SwingEvents' /\ SwingTimers' /\ Spaced'
  BY <1>2, <1>5, <1>6, QuietStep
<1>8. /\ res' \in MatchResult /\ tick_t' \in Nat
      /\ status' \in {"Advancing", "AwaitingActions", "Ended"}
      /\ status' = "AwaitingActions" => e.time_ms = tick_t'
      /\ status' = "Ended" => res'.end_reason = "duration"
  <2>1. res \in MatchResult /\ tick_t \in Nat /\ e.time_ms \in Nat
    BY <1>1, <1>3 DEF TypeOK, Event
  <2>2. CASE CheckpointEvent(e)
    BY <1>2, <2>1, <2>2 DEF CheckpointEvent, MatchResult
  <2>3. CASE MatchEndEvent(e)
    BY <2>1, <2>3 DEF MatchEndEvent, MatchResult
  <2>4. CASE DecideEvent(e)
    BY <2>1, <2>4 DEF DecideEvent
  <2>5. CASE StaleSwing(e)
    BY <1>2, <2>1, <2>5 DEF StaleSwing
  <2>6. QED
    BY <2>2, <2>3, <2>4, <2>5
<1>9. TypeOK'
  BY <1>1, <1>2, <1>3, <1>5, <1>8 DEF TypeOK, QueueType, Event
<1>10. AwaitsNow'
  BY <1>2, <1>8 DEF AwaitsNow, now
<1>11. DeathEndsMatch'
  BY <1>1, <1>2, <1>8 DEF DeathEndsMatch
<1>12. QED
  BY <1>7, <1>9, <1>10, <1>11 DEF IInv

LEMMA StepIInv == IInv /\ [Next]_vars => IInv'
<1>1. SUFFICES ASSUME IInv, [Next]_vars PROVE IInv'
  OBVIOUS
<1>2. CASE UNCHANGED vars
  BY <1>1, <1>2 DEF vars, IInv, TypeOK, NoLostSwing, NothingInThePast, SwingEvents, SwingTimers,
                    Spaced, AwaitsNow, DeathEndsMatch, Queued, now, SwingGap
<1>3. CASE Advance
  <2>1. CASE \E e \in queue.heap : CheckpointEvent(e) \/ MatchEndEvent(e) \/ DecideEvent(e)
    BY <1>1, <2>1, QuietSteps
  <2>2. ASSUME NEW e \in Queued(queue, Swing), StaleSwing(e) PROVE IInv'
    BY <1>1, <2>2, QuietSteps DEF Queued
  <2>3. ASSUME NEW e \in Queued(queue, Swing), NEW y \in HeroicResults[e.source_id],
               HeroicSwing(e, y)
        PROVE  IInv'
    BY <1>1, <2>3, HeroicStep
  <2>4. ASSUME NEW e \in Queued(queue, Swing), NEW w \in WhiteResults[e.source_id],
               WhiteSwing(e, w)
        PROVE  IInv'
    BY <1>1, <2>4, WhiteStep
  <2>5. QED
    BY <1>3, <2>1, <2>2, <2>3, <2>4 DEF Advance
<1>4. CASE Driver
  <2>1. PICK a1 \in Choices(states, 1, tick_t), a2 \in Choices(states, 2, tick_t), y \in Casts :
          Step(<<a1, a2>>, y)
    BY <1>4 DEF Driver
  <2>2. a1 \in Action /\ a2 \in Action
    BY ChoicesAreActions DEF Slots
  <2>3. QED
    BY <1>1, <2>1, <2>2, DriverStep
<1>5. CASE StepAfterEnd
  BY <1>2, <1>5 DEF StepAfterEnd
<1>6. QED
  BY <1>1, <1>2, <1>3, <1>4, <1>5 DEF Next

-----------------------------------------------------------------------------
(* The theorems.                                                           *)

\* The engine never leaves the inductive invariant, for any two units, any
\* durations and any hit results (match.h:139-405).
THEOREM Inductive == Spec => []IInv
<1>1. Init => IInv
  BY InitIInv
<1>2. IInv /\ [Next]_vars => IInv'
  BY StepIInv
<1>3. QED
  BY <1>1, <1>2, PTL DEF Spec

\* Every variable keeps its type; in particular no rage cost ever drives rage
\* below zero (match.h:226, 338) and hit points stop at zero.
THEOREM TypeCorrect == Spec => []TypeOK
<1>1. IInv => TypeOK
  BY DEF IInv
<1>2. QED
  BY <1>1, Inductive, PTL

\* Lazy invalidation never loses a swing, whatever is parried when.
THEOREM SwingsAreNeverLost == Spec => []NoLostSwing
<1>1. IInv => NoLostSwing
  BY DEF IInv
<1>2. QED
  BY <1>1, Inductive, PTL

\* No handler schedules into the past.
THEOREM NothingIsLate == Spec => []NothingInThePast
<1>1. IInv => NothingInThePast
  BY DEF IInv
<1>2. QED
  BY <1>1, Inductive, PTL

\* The dead neither strike nor are struck: a death ends the match.
THEOREM DeathIsFinal == Spec => []DeathEndsMatch
<1>1. IInv => DeathEndsMatch
  BY DEF IInv
<1>2. QED
  BY <1>1, Inductive, PTL

\* A step that changes the event handled last pops it from the queue, and one
\* that records a swing handles a live one.
LEMMA StepPops ==
  ASSUME IInv, [Next]_vars
  PROVE  /\ \/ last' = last
            \/ last' \in queue.heap
         /\ \/ swung' = swung
            \/ \E e \in Queued(queue, Swing) : Lands(e)
<1>1. CASE UNCHANGED vars
  BY <1>1 DEF vars
<1>2. CASE Advance
  <2>1. CASE \E e \in queue.heap : CheckpointEvent(e) \/ MatchEndEvent(e) \/ DecideEvent(e)
    BY <2>1 DEF CheckpointEvent, MatchEndEvent, DecideEvent, Pops
  <2>2. CASE \E e \in Queued(queue, Swing) : StaleSwing(e)
    BY <2>2 DEF StaleSwing, Pops, Queued
  <2>3. CASE \E e \in Queued(queue, Swing) : Lands(e)
    BY <2>3 DEF Lands, Pops, Queued
  <2>4. QED
    BY <1>2, <2>1, <2>2, <2>3 DEF Advance, HeroicSwing, WhiteSwing
<1>3. CASE Driver
  BY <1>3 DEF Driver, Step
<1>4. CASE StepAfterEnd
  BY <1>4 DEF StepAfterEnd, vars
<1>5. QED
  BY <1>1, <1>2, <1>3, <1>4 DEF Next

\* Two swings of a unit are at least a fifth of its weapon speed apart, however
\* often it parries in between (parry_haste.h:31-37, match.h:330).
THEOREM SwingsAreSpaced == Spec => SwingSpacing
<1> DEFINE Spacing == \A i \in Slots :
                        swung'[i] # swung[i] /\ swung[i] >= 0 => swung'[i] - swung[i] >= SwingGap(i)
<1>1. ASSUME IInv, [Next]_vars PROVE Spacing
  <2>1. SUFFICES ASSUME NEW i \in Slots, swung'[i] # swung[i], swung[i] >= 0
                 PROVE  swung'[i] - swung[i] >= SwingGap(i)
    OBVIOUS
  <2>2. PICK e \in Queued(queue, Swing) : Lands(e)
    BY <1>1, <2>1, StepPops
  <2>3. swung \in [Slots -> Int] /\ states[i].next_swing_ms \in Int
    BY <1>1 DEF IInv, TypeOK, UnitState
  <2>4. i = e.source_id /\ swung'[i] = states[i].next_swing_ms
    BY <2>1, <2>2, <2>3 DEF Lands, IsStale
  <2>5. states[i].next_swing_ms >= swung[i] + SwingGap(i)
    BY <1>1, <2>1 DEF IInv, Spaced
  <2>6. SwingGap(i) \in Nat
    BY UnitsAssumption DEF UnitSpec, SwingGap
  <2>7. QED
    BY <2>3, <2>4, <2>5, <2>6
<1>2. IInv /\ [Next]_vars => [Spacing]_vars
  BY <1>1
<1>3. QED
  BY <1>2, Inductive, PTL DEF Spec, SwingSpacing

-----------------------------------------------------------------------------
(* The actions of a tick.                                                  *)

Rejected(sts, i, a) == IF a \in Legal(sts, i, tick_t) THEN 0 ELSE 1
Acts(a)        == IF a = "None" THEN 0 ELSE 1

\* An action is counted once: illegal if the mask says so, else as a decision.
LEMMA ApplyCounts ==
  ASSUME NEW m \in [states: [Slots -> UnitState], res: MatchResult], NEW i \in Slots,
         NEW a \in Action, NEW y \in YellowResult
  PROVE  LET n == apply_action(m, i, a, tick_t, y)
         IN  /\ n.res.illegal_actions = m.res.illegal_actions + Rejected(m.states, i, a)
             /\ n.res.decisions = m.res.decisions + Acts(a) - Rejected(m.states, i, a)
             /\ n.res.illegal_actions \in Nat /\ n.res.decisions \in Nat
<1> DEFINE n == apply_action(m, i, a, tick_t, y)
           r == m.res
<1>1. "None" \in Legal(m.states, i, tick_t)
  BY DEF Legal, legal_action_mask
<1>2. r \in MatchResult /\ r.illegal_actions \in Nat /\ r.decisions \in Nat
  BY DEF MatchResult
<1>3. CASE a = "None"
  BY <1>1, <1>2, <1>3 DEF apply_action, Rejected, Acts
<1>4. CASE a # "None" /\ a \in Legal(m.states, i, tick_t)
  <2>1. n.res = Counted(r, a)
    BY <1>4 DEF apply_action
  <2>2. /\ Counted(r, a).decisions = r.decisions + 1
        /\ Counted(r, a).illegal_actions = r.illegal_actions
    BY <1>2 DEF Counted, MatchResult
  <2>3. QED
    BY <1>2, <1>4, <2>1, <2>2 DEF Rejected, Acts
<1>5. CASE a # "None" /\ a \notin Legal(m.states, i, tick_t)
  <2>1. n = [m EXCEPT !.res = [r EXCEPT !.illegal_actions = r.illegal_actions + 1]]
    BY <1>5 DEF apply_action
  <2>2. n.res = [r EXCEPT !.illegal_actions = r.illegal_actions + 1]
    BY <2>1
  <2>3. n.res.illegal_actions = r.illegal_actions + 1 /\ n.res.decisions = r.decisions
    BY <1>2, <2>2 DEF MatchResult
  <2>4. QED
    BY <1>2, <1>5, <2>3 DEF Rejected, Acts
<1>6. QED
  BY <1>3, <1>4, <1>5

\* What the first unit does never makes an action of the second illegal: all it
\* can change about the second unit is to hurt it, which only gives it rage.
LEMMA StaysLegal ==
  ASSUME NEW m \in [states: [Slots -> UnitState], res: MatchResult], NEW a \in Action,
         NEW y \in YellowResult
  PROVE  Legal(m.states, 2, tick_t) \subseteq Legal(apply_action(m, 1, a, tick_t, y).states, 2, tick_t)
<1> DEFINE st  == m.states[2]
           sts == apply_action(m, 1, a, tick_t, y).states
<1>1. st \in UnitState /\ st.rage_deci \in 0..RAGE_CAP_DECI
  BY DEF Slots, UnitState
<1>2. \/ sts[2] = st
      \/ sts[2] = Struck(st, y.damage, y.rage_defender_deci)
  <2>1. sts = m.states \/ sts = Performed(m.states, 1, a, tick_t, y)
    BY DEF apply_action
  <2>2. QED
    BY <2>1 DEF Performed, cast_mortal_strike, Slots, Enemy
<1> HIDE DEF st, sts
<1>3. /\ sts[2].rage_deci >= st.rage_deci /\ sts[2].hs_queued = st.hs_queued
      /\ sts[2].gcd_ready_ms = st.gcd_ready_ms /\ sts[2].ms_ready_ms = st.ms_ready_ms
      /\ sts[2].rage_deci \in Int
  <2>1. CASE sts[2] = st
    BY <1>1, <2>1, RageGained
  <2>2. CASE sts[2] = Struck(st, y.damage, y.rage_defender_deci)
    <3>1. y.rage_defender_deci \in Nat
      BY DEF YellowResult
    <3>2. /\ add_rage_deci(st.rage_deci, y.rage_defender_deci) >= st.rage_deci
          /\ add_rage_deci(st.rage_deci, y.rage_defender_deci) \in Int
      BY <1>1, <3>1, RageGained
    <3>3. QED
      BY <1>1, <2>2, <3>2 DEF Struck, UnitState
  <2>3. QED
    BY <1>2, <2>1, <2>2
<1>4. st.rage_deci \in Int
  BY <1>1, RageGained
<1>5. Legal(m.states, 2, tick_t) \subseteq Legal(sts, 2, tick_t)
  BY <1>3, <1>4 DEF Legal, observe, legal_action_mask, build_observation, MS_RAGE_COST_DECI, st
<1>6. QED
  BY <1>5 DEF sts

\* How the counters of a match move in a step the driver makes.
LEMMA StepCounts ==
  ASSUME IInv, NEW a, a[1] \in Action, a[2] \in Action, NEW y \in Casts, Step(a, y)
  PROVE  LET alive2 == IF states'[2].hp = 0 THEN 0 ELSE 1
             bad2   == Rejected(First(a, y).states, 2, a[2])
         IN  /\ res'.illegal_actions = res.illegal_actions + Rejected(states, 1, a[1]) + alive2 * bad2
             /\ res'.decisions = res.decisions + Acts(a[1]) - Rejected(states, 1, a[1])
                                 + alive2 * (Acts(a[2]) - bad2)
             /\ bad2 <= Rejected(states, 2, a[2])
             /\ res.illegal_actions \in Nat /\ res.decisions \in Nat
<1> DEFINE was    == [states |-> states, res |-> res]
           one    == First(a, y)
           m      == Outcome(a, y)
           M      == [states: [Slots -> UnitState], res: MatchResult]
           bad2   == Rejected(one.states, 2, a[2])
<1>1. 1 \in Slots /\ 2 \in Slots
  BY DEF Slots
<1>2. y[1] \in YellowResult /\ y[2] \in YellowResult
  BY <1>1, ResultsAssumption DEF Casts
<1>3. was \in M /\ was.states = states /\ was.res = res
  BY DEF IInv, TypeOK
<1>4. /\ one = apply_action(was, 1, a[1], tick_t, y[1]) /\ one \in M
      /\ m = IF one.states[2].hp = 0 THEN one ELSE apply_action(one, 2, a[2], tick_t, y[2])
  BY StepOutcome DEF First, Outcome
<1>5. /\ m \in M /\ m.states[2].hp = one.states[2].hp
      /\ EndByDeath(m) \/ Resume(m)
  BY StepOutcome
<1> HIDE DEF was, one, m
<1>6. /\ one.res.illegal_actions = res.illegal_actions + Rejected(states, 1, a[1])
      /\ one.res.decisions = res.decisions + Acts(a[1]) - Rejected(states, 1, a[1])
      /\ Legal(states, 2, tick_t) \subseteq Legal(one.states, 2, tick_t)
  <2>1. /\ one.res.illegal_actions = was.res.illegal_actions + Rejected(was.states, 1, a[1])
        /\ one.res.decisions = was.res.decisions + Acts(a[1]) - Rejected(was.states, 1, a[1])
    BY <1>1, <1>2, <1>3, <1>4, ApplyCounts
  <2>2. Legal(was.states, 2, tick_t) \subseteq Legal(one.states, 2, tick_t)
    BY <1>2, <1>3, <1>4, StaysLegal
  <2>3. QED
    BY <1>3, <2>1, <2>2
<1>7. /\ one.states[2].hp = 0 => m = one
      /\ one.states[2].hp # 0 =>
           /\ m.res.illegal_actions = one.res.illegal_actions + bad2
           /\ m.res.decisions = one.res.decisions + Acts(a[2]) - bad2
  BY <1>1, <1>2, <1>4, ApplyCounts
<1>8. /\ states'[2].hp = one.states[2].hp
      /\ res'.illegal_actions = m.res.illegal_actions
      /\ res'.decisions = m.res.decisions
  <2>1. states' = m.states
    BY <1>5 DEF EndByDeath, Resume
  <2>2. res' = m.res \/ res' = EndedByDeath(m.res, tick_t)
    BY <1>5 DEF EndByDeath, Resume
  <2>3. QED
    BY <1>5, <2>1, <2>2 DEF EndedByDeath, MatchResult
<1>9. bad2 <= Rejected(states, 2, a[2])
  BY <1>6 DEF Rejected
<1>10. /\ bad2 \in Int /\ Acts(a[2]) \in Int /\ res.illegal_actions \in Nat /\ res.decisions \in Nat
       /\ Acts(a[1]) \in Int /\ Rejected(states, 1, a[1]) \in Int
  BY DEF Rejected, Acts, IInv, TypeOK, MatchResult
<1> HIDE DEF bad2
<1>11. CASE one.states[2].hp = 0
  BY <1>6, <1>7, <1>8, <1>9, <1>10, <1>11 DEF bad2, one
<1>12. CASE one.states[2].hp # 0
  BY <1>6, <1>7, <1>8, <1>9, <1>10, <1>12 DEF bad2, one
<1>13. QED
  BY <1>11, <1>12

\* Every submitted action is counted once, as a decision or as illegal, except
\* the second unit's when the first one's killed it (match.h:192-197).
THEOREM ActionsAreCounted == Spec => EveryActionCounted
<1> DEFINE Counts == status = "AwaitingActions" => \A a1, a2 \in Action, y \in Casts :
              Step(<<a1, a2>>, y) =>
                (res'.decisions - res.decisions) + (res'.illegal_actions - res.illegal_actions)
                  = (IF a1 = "None" THEN 0 ELSE 1)
                    + (IF a2 = "None" \/ states'[2].hp = 0 THEN 0 ELSE 1)
<1>1. ASSUME IInv PROVE Counts
  <2>1. SUFFICES ASSUME NEW a1 \in Action, NEW a2 \in Action, NEW y \in Casts, Step(<<a1, a2>>, y)
                 PROVE  (res'.decisions - res.decisions)
                          + (res'.illegal_actions - res.illegal_actions)
                          = Acts(a1) + (IF states'[2].hp = 0 THEN 0 ELSE Acts(a2))
    BY DEF Acts
  <2> DEFINE bad2 == Rejected(First(<<a1, a2>>, y).states, 2, a2)
             bad1 == Rejected(states, 1, a1)
  <2>2. /\ res'.illegal_actions
             = res.illegal_actions + bad1 + (IF states'[2].hp = 0 THEN 0 ELSE 1) * bad2
        /\ res'.decisions
             = res.decisions + Acts(a1) - bad1
               + (IF states'[2].hp = 0 THEN 0 ELSE 1) * (Acts(a2) - bad2)
        /\ res.illegal_actions \in Nat /\ res.decisions \in Nat
    BY <1>1, <2>1, StepCounts
  <2>3. bad1 \in Int /\ bad2 \in Int /\ Acts(a1) \in Int /\ Acts(a2) \in Int
    BY DEF Rejected, Acts
  <2> HIDE DEF bad1, bad2
  <2>4. CASE states'[2].hp = 0
    BY <2>2, <2>3, <2>4
  <2>5. CASE states'[2].hp # 0
    BY <2>2, <2>3, <2>5
  <2>6. QED
    BY <2>4, <2>5
<1>2. IInv /\ [Next]_vars => [Counts]_vars
  BY <1>1
<1>3. QED
  BY <1>2, Inductive, PTL DEF Spec, EveryActionCounted

\* What the first unit does in a tick never turns a legal action of the second
\* into a rejected one: only an action that was illegal in the observation it
\* was chosen on is ever counted illegal (match.h:250-252).
THEOREM OnlyIllegalIsRejected == Spec => RejectsOnlyIllegal
<1> DEFINE Rejects == status = "AwaitingActions" => \A a1, a2 \in Action, y \in Casts :
              Step(<<a1, a2>>, y) =>
                res'.illegal_actions - res.illegal_actions
                  <= (IF a1 \in Legal(states, 1, tick_t) THEN 0 ELSE 1)
                     + (IF a2 \in Legal(states, 2, tick_t) THEN 0 ELSE 1)
<1>1. ASSUME IInv PROVE Rejects
  <2>1. SUFFICES ASSUME NEW a1 \in Action, NEW a2 \in Action, NEW y \in Casts, Step(<<a1, a2>>, y)
                 PROVE  res'.illegal_actions - res.illegal_actions
                          <= Rejected(states, 1, a1) + Rejected(states, 2, a2)
    BY DEF Rejected
  <2> DEFINE bad2 == Rejected(First(<<a1, a2>>, y).states, 2, a2)
             bad1 == Rejected(states, 1, a1)
             was2 == Rejected(states, 2, a2)
  <2>2. /\ res'.illegal_actions
             = res.illegal_actions + bad1 + (IF states'[2].hp = 0 THEN 0 ELSE 1) * bad2
        /\ bad2 <= was2 /\ res.illegal_actions \in Nat
    BY <1>1, <2>1, StepCounts
  <2>3. bad1 \in 0..1 /\ bad2 \in 0..1 /\ was2 \in 0..1
    BY DEF Rejected
  <2> HIDE DEF bad1, bad2, was2
  <2>4. res'.illegal_actions - res.illegal_actions <= bad1 + was2
    BY <2>2, <2>3
  <2>5. QED
    BY <2>4 DEF bad1, was2
<1>2. IInv /\ [Next]_vars => [Rejects]_vars
  BY <1>1
<1>3. QED
  BY <1>2, Inductive, PTL DEF Spec, RejectsOnlyIllegal

\* A scripted policy never submits an action the engine rejects, on either
\* side, whatever legal action the other side submits with it (policy.h,
\* docs/observation_action_spec.md:94).
THEOREM ScriptsAreLegal == Spec => ScriptedNeverIllegal
<1> DEFINE Scripts == status = "AwaitingActions" => \A i \in Slots, y \in Casts :
              \A other \in Legal(states, Enemy(i), tick_t) :
                LET scripted == scripted_decide(Units[i].scripted_hs_min_rage_deci,
                                                observe(states, i, tick_t))
                IN  Step([s \in Slots |-> IF s = i THEN scripted ELSE other], y) =>
                      res'.illegal_actions = res.illegal_actions
<1>1. ASSUME IInv PROVE Scripts
  <2>1. SUFFICES ASSUME NEW i \in Slots, NEW y \in Casts,
                        NEW other \in Legal(states, Enemy(i), tick_t),
                        Step([s \in Slots |->
                                IF s = i THEN scripted_decide(Units[i].scripted_hs_min_rage_deci,
                                                              observe(states, i, tick_t))
                                         ELSE other], y)
                 PROVE  res'.illegal_actions = res.illegal_actions
    OBVIOUS
  <2> DEFINE scripted == scripted_decide(Units[i].scripted_hs_min_rage_deci,
                                         observe(states, i, tick_t))
             a == [s \in Slots |-> IF s = i THEN scripted ELSE other]
  <2>2. scripted \in Legal(states, i, tick_t)
    BY DEF scripted_decide, Legal, legal_action_mask
  <2>3. \A k : Legal(states, k, tick_t) \subseteq Action
    BY DEF Legal, legal_action_mask, Action
  <2>4. 1 \in Slots /\ 2 \in Slots /\ (i = 1 \/ i = 2) /\ Enemy(1) = 2 /\ Enemy(2) = 1
    BY DEF Slots, Enemy
  <2> HIDE DEF scripted
  <2>5. a[1] \in Legal(states, 1, tick_t) /\ a[2] \in Legal(states, 2, tick_t)
    BY <2>2, <2>4
  <2>6. Step(a, y)
    BY <2>1 DEF scripted
  <2> HIDE DEF a
  <2>7. a[1] \in Action /\ a[2] \in Action
    BY <2>3, <2>5
  <2> DEFINE bad2 == Rejected(First(a, y).states, 2, a[2])
  <2>8. /\ res'.illegal_actions = res.illegal_actions + Rejected(states, 1, a[1])
                                  + (IF states'[2].hp = 0 THEN 0 ELSE 1) * bad2
        /\ bad2 <= Rejected(states, 2, a[2]) /\ res.illegal_actions \in Nat
    BY <1>1, <2>6, <2>7, StepCounts
  <2>9. Rejected(states, 1, a[1]) = 0 /\ Rejected(states, 2, a[2]) = 0 /\ bad2 \in 0..1
    BY <2>5 DEF Rejected
  <2> HIDE DEF bad2
  <2>10. QED
    BY <2>8, <2>9
<1>2. IInv /\ [Next]_vars => [Scripts]_vars
  BY <1>1
<1>3. QED
  BY <1>2, Inductive, PTL DEF Spec, ScriptedNeverIllegal

=============================================================================
