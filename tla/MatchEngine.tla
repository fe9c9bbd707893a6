---------------------------- MODULE MatchEngine ----------------------------
(***************************************************************************)
(* The resumable duel engine of src/sim/mechanics/match.h.                 *)
(*                                                                         *)
(* One iteration of the event loop advance_() is one action, named for the *)
(* case of the switch it takes; step(), which the driver calls at a        *)
(* decision tick, is one action.                                           *)
(***************************************************************************)
EXTENDS EventQueue, DuelRules, FiniteSets

CHECKPOINT_INTERVAL_MS == 1000

\* The capacity the engine reserves for its queue.
QUEUE_RESERVE == 16

VARIABLES
  queue,    \* queue_
  states,   \* states_, by slot
  res,      \* res_
  status,   \* status_; "Advancing" while advance_() runs
  tick_t,   \* tick_t_
  last,     \* history: the last event popped
  swung     \* history: by slot, the time of its last resolved swing, or -1

vars == <<queue, states, res, status, tick_t, last, swung>>

-----------------------------------------------------------------------------
(* The constructor.                                                        *)

initial_queue(enable_ticks) ==
  LET end   == push(EmptyQueue, duration_ms, MatchEnd, 0, 0)
      cp    == IF CHECKPOINT_INTERVAL_MS <= duration_ms
               THEN push(end, CHECKPOINT_INTERVAL_MS, Checkpoint, 0, 0) ELSE end
      tick  == IF enable_ticks THEN push(cp, 0, Decide, 0, 0) ELSE cp
      first == IF Units[1].attacks THEN push(tick, 0, Swing, 1, 2) ELSE tick
  IN  IF Units[2].attacks THEN push(first, 0, Swing, 2, 1) ELSE first

Init ==
  /\ queue = initial_queue(run_ticks)
  /\ states = [i \in Slots |-> initial_state(Units[i])]
  /\ res = NoResult
  /\ status = "Advancing"
  /\ tick_t = 0
  /\ last = [time_ms |-> 0, kind |-> Checkpoint, source_id |-> 0, target_id |-> 0, seq |-> -1]
  /\ swung = [i \in Slots |-> -1]

-----------------------------------------------------------------------------
(* advance_(): one action per case.                                        *)

Pops(e, kind) ==
  /\ status = "Advancing"
  /\ e.kind = kind
  /\ IsTop(queue, e)
  /\ last' = e

rearm_checkpoint(q, t) ==
  IF t + CHECKPOINT_INTERVAL_MS <= duration_ms
  THEN push(q, t + CHECKPOINT_INTERVAL_MS, Checkpoint, 0, 0) ELSE q

CheckpointEvent(e) ==
  /\ Pops(e, Checkpoint)
  /\ res' = [res EXCEPT !.checkpoints = @ + 1]
  /\ queue' = rearm_checkpoint(pop(queue, e), e.time_ms)
  /\ UNCHANGED <<states, status, tick_t, swung>>

MatchEndEvent(e) ==
  /\ Pops(e, MatchEnd)
  /\ res' = [res EXCEPT !.end_ms = e.time_ms, !.end_reason = "duration"]
  /\ status' = "Ended"
  /\ queue' = pop(queue, e)
  /\ UNCHANGED <<states, tick_t, swung>>

rearm_decide(q, t) ==
  IF t + decision_tick_ms < duration_ms
  THEN push(q, t + decision_tick_ms, Decide, 0, 0) ELSE q

DecideEvent(e) ==
  /\ Pops(e, Decide)
  /\ tick_t' = e.time_ms
  /\ status' = "AwaitingActions"
  /\ queue' = pop(queue, e)
  /\ UNCHANGED <<states, res, swung>>

-----------------------------------------------------------------------------
(* handle_swing_()                                                         *)

\* Mutant: the superseded swing of a hastened unit still fires.
IsStale_Never(e) == FALSE

\* Lazy invalidation: parry-haste retimed this swing after it was queued.
IsStale(e) == e.time_ms # states[e.source_id].next_swing_ms

\* Mutant: a superseded swing is queued again at the unit's new ready-at.
StaleSwing_Requeued(e) ==
  /\ Pops(e, Swing)
  /\ IsStale(e)
  /\ queue' = push(pop(queue, e), states[e.source_id].next_swing_ms, Swing, e.source_id, e.target_id)
  /\ UNCHANGED <<states, res, status, tick_t, swung>>

\* Mutant: a superseded swing is skipped, but not taken out of the queue.
StaleSwing_NotPopped(e) ==
  /\ Pops(e, Swing)
  /\ IsStale(e)
  /\ UNCHANGED <<queue, states, res, status, tick_t, swung>>

StaleSwing(e) ==
  /\ Pops(e, Swing)
  /\ IsStale(e)
  /\ queue' = pop(queue, e)
  /\ UNCHANGED <<states, res, status, tick_t, swung>>

\* A swing event that still counts.
Lands(e) == Pops(e, Swing) /\ ~IsStale(e) /\ swung' = [swung EXCEPT ![e.source_id] = e.time_ms]

\* Mutant: the ready-at moves but no event is queued for it.
push_hastened_Forgotten(q, i, outcome, t) == q

push_hastened(q, i, outcome, t) ==
  IF IsHastened(states[i], i, outcome, t)
  THEN push(q, HastenedSwing(states[i], i, t), Swing, i, Enemy(i)) ELSE q

\* Mutant: nobody looks whether the target survived.
FinishSwing_NoDeathCheck(e, sts, q, counted) ==
  /\ queue' = push(q, sts[e.source_id].next_swing_ms, Swing, e.source_id, e.target_id)
  /\ res' = counted
  /\ UNCHANGED status

\* The common tail of both kinds of swing: the match ends if the target died,
\* otherwise the unit's next swing is queued.
FinishSwing(e, sts, q, counted) ==
  IF sts[e.target_id].hp = 0
  THEN /\ res' = EndedByDeath(counted, e.time_ms)
       /\ status' = "Ended"
       /\ queue' = q
  ELSE /\ res' = counted
       /\ queue' = push(q, sts[e.source_id].next_swing_ms, Swing, e.source_id, e.target_id)
       /\ UNCHANGED status

HeroicSwing(e, y) ==
  LET src == e.source_id
      sts == AfterHeroic(states, src, y, e.time_ms)
  IN  /\ Lands(e)
      /\ UsesHeroicStrike(states[src])
      /\ states' = sts
      /\ FinishSwing(e, sts, pop(queue, e), [res EXCEPT !.abilities = @ + 1])
      /\ UNCHANGED tick_t

WhiteSwing(e, w) ==
  LET src == e.source_id
      sts == AfterWhite(states, src, w, e.time_ms)
      q   == push_hastened(pop(queue, e), e.target_id, w.outcome, e.time_ms)
  IN  /\ Lands(e)
      /\ ~UsesHeroicStrike(states[src])
      /\ states' = sts
      /\ FinishSwing(e, sts, q, [res EXCEPT !.swings = @ + 1])
      /\ UNCHANGED tick_t

-----------------------------------------------------------------------------
(* step(): the driver submits one action per slot at a decision tick.      *)

\* An action killed its target.
EndByDeath(m) ==
  /\ states' = m.states
  /\ res' = EndedByDeath(m.res, tick_t)
  /\ status' = "Ended"
  /\ UNCHANGED queue

Resume(m) ==
  /\ states' = m.states
  /\ res' = m.res
  /\ status' = "Advancing"
  /\ queue' = rearm_decide(queue, tick_t)

Step(a, y) ==
  LET one == apply_action([states |-> states, res |-> res], 1, a[1], tick_t, y[1])
      two == apply_action(one, 2, a[2], tick_t, y[2])
  IN  /\ status = "AwaitingActions"
      /\ \/ one.states[2].hp = 0 /\ EndByDeath(one)
         \/ one.states[2].hp > 0 /\ two.states[1].hp = 0 /\ EndByDeath(two)
         \/ one.states[2].hp > 0 /\ two.states[1].hp > 0 /\ Resume(two)
      /\ UNCHANGED <<tick_t, last, swung>>

\* step() on a finished match returns at once.
StepAfterEnd == status = "Ended" /\ UNCHANGED vars

\* MatchEngine::observe(): the terminal state is seen at the end time.
observation(i) == observe(states, i, IF status = "Ended" THEN res.end_ms ELSE tick_t)

-----------------------------------------------------------------------------
Driver == \E a1 \in Choices(states, 1, tick_t), a2 \in Choices(states, 2, tick_t), y \in Casts :
            Step(<<a1, a2>>, y)

Advance ==
  \/ \E e \in queue.heap : CheckpointEvent(e) \/ MatchEndEvent(e) \/ DecideEvent(e)
  \/ \E e \in Queued(queue, Swing) :
       \/ StaleSwing(e)
       \/ \E y \in HeroicResults[e.source_id] : HeroicSwing(e, y)
       \/ \E w \in WhiteResults[e.source_id] : WhiteSwing(e, w)

Next == Advance \/ Driver \/ StepAfterEnd

Spec == Init /\ [][Next]_vars

\* advance_() is a plain loop and run_match drives the engine until it ends.
FairSpec == Spec /\ WF_vars(Advance) /\ WF_vars(Driver)

-----------------------------------------------------------------------------
(* Properties.                                                             *)

now == last.time_ms

\* Every variable has its type; rage stays within its bounds because an
\* ability is only ever paid for after its gate was checked on the same state.
TypeOK ==
  /\ queue \in [heap: SUBSET Event, next_seq: Nat]
  /\ states \in [Slots -> UnitState]
  /\ res \in MatchResult
  /\ status \in {"Advancing", "AwaitingActions", "Ended"}
  /\ tick_t \in Nat
  /\ last \in [time_ms: Nat, kind: Kind, source_id: EntityId, target_id: EntityId, seq: Int]
  /\ swung \in [Slots -> Int]

\* Lazy invalidation never loses a swing: while the match runs, each unit that
\* attacks has a queued swing at exactly its ready-at (match.h:326-331, 377-385).
NoLostSwing ==
  status # "Ended" =>
    \A i \in Slots : Units[i].attacks =>
      \E e \in Queued(queue, Swing) : e.source_id = i /\ e.time_ms = states[i].next_swing_ms

\* The queue holds nothing that comes before the event handled last, so no
\* handler ever schedules into the past or into an instant's finished part
\* (event_queue.h:27-32: one total order of simultaneous events).
NothingInThePast == \A e \in queue.heap : event_before(last, e)

\* The whole second that is recorded next.
second == (res.checkpoints + 1) * CHECKPOINT_INTERVAL_MS

\* What a step may do within an instant, told from what was recorded, asked and
\* resolved so far: a second is recorded before its instant has a tick or a
\* swing, and none is missing when a tick is offered, a swing resolves or the
\* match times out; a tick is offered before any swing of its instant; of two
\* swings the first unit's resolves first; none resolves at the duration itself.
InItsTurn ==
  /\ res'.checkpoints # res.checkpoints =>
       now' = second /\ tick_t < now' /\ \A i \in Slots : swung[i] < now'
  /\ status = "Advancing" /\ status' = "AwaitingActions" =>
       now' < second /\ \A i \in Slots : swung[i] < now'
  /\ \A i \in Slots : swung'[i] # swung[i] =>
       /\ now' < second /\ now' < duration_ms
       /\ run_ticks => now' < tick_t + decision_tick_ms
       /\ \A j \in Slots : j < i /\ Units[j].attacks => states[j].next_swing_ms > now'
  /\ status = "Advancing" /\ status' = "Ended" /\ res'.end_reason = "duration" =>
       now' < second /\ \A i \in Slots : swung[i] < now'

\* Simultaneous events have the effects the documented total order promises,
\* whatever the handlers push in between (event_queue.h:27-32).
InstantOrder == [][InItsTurn]_vars

\* The least time between two swings of a unit: a fifth of its weapon speed.
SwingGap(i) ==
  IF Units[i].weapon_speed_ms < 5 THEN 1 ELSE Units[i].weapon_speed_ms \div 5

\* However often a unit parries, and however many superseded events are queued
\* for it, two of its swings are at least 20% of its weapon speed apart
\* (parry_haste.h:31-37 with the stale test of match.h:330).
SwingSpacing ==
  [][\A i \in Slots :
       swung'[i] # swung[i] /\ swung[i] >= 0 => swung'[i] - swung[i] >= SwingGap(i)]_vars

\* A unit is dead exactly when the match ended by death, and the other one
\* lives: nothing is resolved by or against a dead unit (match.h:193-197, 359, 399).
DeathEndsMatch ==
  /\ (\E i \in Slots : states[i].hp = 0) <=> (status = "Ended" /\ res.end_reason = "death")
  /\ \E i \in Slots : states[i].hp > 0

\* Whoever looks at the engine between two steps sees exact times: the clamps
\* of build_observation hide neither a swing that is overdue nor a match that
\* is past its end (match.h:178-185, observation.h:91-102).
ObservationExact ==
  status # "Advancing" =>
    \A i \in Slots :
      /\ observation(i).match_remaining_ms = duration_ms - observation(i).t_ms
      /\ Units[i].attacks =>
           observation(i).self_swing_remaining_ms = states[i].next_swing_ms - observation(i).t_ms

\* The live events fit the queue's reserve (event_queue.h:59-60).
QueueFits == Cardinality(queue.heap) <= QUEUE_RESERVE

\* Only an action that was illegal in the observation it was chosen on is ever
\* counted illegal: the other unit's action of the same tick cannot invalidate
\* it (the case the re-validation of match.h:250-252 is written for).
RejectsOnlyIllegal ==
  [][status = "AwaitingActions" => \A a1, a2 \in Action, y \in Casts :
       Step(<<a1, a2>>, y) =>
         res'.illegal_actions - res.illegal_actions
           <= (IF a1 \in Legal(states, 1, tick_t) THEN 0 ELSE 1) + (IF a2 \in Legal(states, 2, tick_t) THEN 0 ELSE 1)]_vars

\* Every submitted action is counted once, as a decision or as illegal, except
\* the second unit's when the first one's killed it (match.h:192-197).
EveryActionCounted ==
  [][status = "AwaitingActions" => \A a1, a2 \in Action, y \in Casts :
       Step(<<a1, a2>>, y) =>
         (res'.decisions - res.decisions) + (res'.illegal_actions - res.illegal_actions)
           = (IF a1 = "None" THEN 0 ELSE 1)
             + (IF a2 = "None" \/ states'[2].hp = 0 THEN 0 ELSE 1)]_vars

\* docs/observation_action_spec.md: legality is computed from the observation
\* only, snapshotted before any action of the tick applies; an illegal
\* submission becomes None.
AppliesOnlySnapshotLegal ==
  [][status = "AwaitingActions" => \A a1, a2 \in Action, y \in Casts :
       Step(<<a1, a2>>, y) =>
         res'.decisions - res.decisions
           <= (IF a1 \in Legal(states, 1, tick_t) THEN 1 ELSE 0) + (IF a2 \in Legal(states, 2, tick_t) THEN 1 ELSE 0)]_vars

\* docs/observation_action_spec.md:94: a scripted policy never submits an action
\* the engine rejects: in whatever state a driver brought the match, what it
\* chooses is accepted, although the engine checks the second unit's action on
\* a state its policy has not seen.
ScriptedNeverIllegal ==
  [][status = "AwaitingActions" => \A i \in Slots, y \in Casts :
       \A other \in Legal(states, Enemy(i), tick_t) :
         LET scripted == scripted_decide(Units[i].scripted_hs_min_rage_deci, observe(states, i, tick_t))
         IN  Step([s \in Slots |-> IF s = i THEN scripted ELSE other], y) =>
               res'.illegal_actions = res.illegal_actions]_vars

\* Every match ends (match.h:319: the MatchEnd event always terminates the loop).
MatchEnds == <>(status = "Ended")
=============================================================================
