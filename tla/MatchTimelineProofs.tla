------------------------ MODULE MatchTimelineProofs ------------------------
(***************************************************************************)
(* The engine implements the timeline, for any pair of units, any          *)
(* duration, any tick and any hit results.                                 *)
(*                                                                         *)
(* The inductive invariant of MatchEngineProofs speaks of the swings; the  *)
(* schedule below adds the three chains of the match itself: its end, its  *)
(* seconds and its ticks.                                                  *)
(***************************************************************************)
EXTENDS MatchTimeline, MatchEngineProofs

-----------------------------------------------------------------------------
(* The schedule of the match.                                              *)

OfTheMatch(e) == e.source_id = 0 /\ e.target_id = 0

\* While the match runs its end is queued, at its duration.
EndQueued ==
  status # "Ended" =>
    /\ Queued(queue, MatchEnd) # {}
    /\ \A e \in Queued(queue, MatchEnd) : e.time_ms = duration_ms /\ OfTheMatch(e)

\* While the match runs the next whole second is queued once, if it comes.
SecondQueued ==
  status # "Ended" =>
    /\ \A e \in Queued(queue, Checkpoint) :
         /\ e.time_ms = second /\ second <= duration_ms /\ OfTheMatch(e)
         /\ \A o \in Queued(queue, Checkpoint) : o = e
    /\ second <= duration_ms => Queued(queue, Checkpoint) # {}

\* While the match runs one tick is queued at most; none while the driver is
\* asked about one, nor when the next would come too late.
TickQueued(on) ==
  status # "Ended" =>
    /\ \A e \in Queued(queue, Decide) :
         /\ on /\ e.time_ms < duration_ms /\ OfTheMatch(e)
         /\ \A o \in Queued(queue, Decide) : o = e
    /\ status = "AwaitingActions" => on /\ Queued(queue, Decide) = {}
    /\ status = "Advancing" /\ on /\ Queued(queue, Decide) = {}
         => tick_t + decision_tick_ms >= duration_ms

\* The match ends within its duration, and no swing was due before its end.
EndIsTimely ==
  status = "Ended" =>
    /\ res.end_ms <= duration_ms
    /\ \A i \in Slots : Units[i].attacks => states[i].next_swing_ms >= res.end_ms

Schedule(on) ==
  /\ EndQueued
  /\ SecondQueued
  /\ TickQueued(on)
  /\ EndIsTimely

\* The inductive invariant.
TInv(on) == IInv /\ Schedule(on)

-----------------------------------------------------------------------------
(* The events of one kind.                                                 *)

LEMMA PopQueued ==
  ASSUME NEW q \in QueueType, NEW e, NEW k
  PROVE  Queued(pop(q, e), k) = Queued(q, k) \ {e}
  BY PopType DEF Queued

\* A push adds one event, to the events of its kind.
LEMMA PushQueued ==
  ASSUME NEW q \in QueueType, NEW t \in Nat, NEW kind \in Kind,
         NEW s \in EntityId, NEW d \in EntityId, NEW k
  PROVE  LET n == push(q, t, kind, s, d)
             p == [time_ms |-> t, kind |-> kind, source_id |-> s, target_id |-> d,
                   seq |-> q.next_seq]
         IN  /\ n \in QueueType
             /\ k # kind => Queued(n, k) = Queued(q, k)
             /\ k = kind => Queued(n, k) = Queued(q, k) \cup {p}
<1> DEFINE n == push(q, t, kind, s, d)
           p == [time_ms |-> t, kind |-> kind, source_id |-> s, target_id |-> d,
                 seq |-> q.next_seq]
<1>1. n \in QueueType /\ n.heap = q.heap \cup {p} /\ p.kind = kind
  BY PushType
<1> HIDE DEF n, p
<1>2. QED
  BY <1>1 DEF Queued, n, p

\* One event in an otherwise empty chain of the match.
LEMMA FirstOfChain ==
  ASSUME NEW q \in QueueType, NEW t \in Nat, NEW kind \in Kind, Queued(q, kind) = {}
  PROVE  LET n == push(q, t, kind, 0, 0)
         IN  /\ n \in QueueType
             /\ Queued(n, kind) # {}
             /\ \A e \in Queued(n, kind) :
                  e.time_ms = t /\ OfTheMatch(e) /\ \A o \in Queued(n, kind) : o = e
             /\ \A k \in Kind \ {kind} : Queued(n, k) = Queued(q, k)
<1> DEFINE n == push(q, t, kind, 0, 0)
           p == [time_ms |-> t, kind |-> kind, source_id |-> 0, target_id |-> 0,
                 seq |-> q.next_seq]
<1>1. 0 \in EntityId
  BY DEF EntityId
<1>2. n \in QueueType /\ \A k \in Kind \ {kind} : Queued(n, k) = Queued(q, k)
  BY <1>1, PushQueued
<1>3. Queued(n, kind) = {p}
  BY <1>1, PushQueued
<1>4. p.time_ms = t /\ OfTheMatch(p)
  BY DEF OfTheMatch
<1> HIDE DEF n, p
<1>5. QED
  BY <1>2, <1>3, <1>4 DEF n

-----------------------------------------------------------------------------
(* The schedule is kept.                                                   *)

\* The constructor opens the three chains; the first tick is at time 0.
LEMMA InitSchedule ==
  ASSUME NEW on \in BOOLEAN, Constructed(on)
  PROVE  /\ Schedule(on)
         /\ on <=> Queued(queue, Decide) # {}
         /\ \A e \in Queued(queue, Decide) : e.time_ms = 0
<1> DEFINE end   == push(EmptyQueue, duration_ms, MatchEnd, 0, 0)
           cp    == IF CHECKPOINT_INTERVAL_MS <= duration_ms
                    THEN push(end, CHECKPOINT_INTERVAL_MS, Checkpoint, 0, 0) ELSE end
           tick  == IF on THEN push(cp, 0, Decide, 0, 0) ELSE cp
           first == IF Units[1].attacks THEN push(tick, 0, Swing, 1, 2) ELSE tick
           both  == IF Units[2].attacks THEN push(first, 0, Swing, 2, 1) ELSE first
           Chain(q, kind, t) ==
             /\ Queued(q, kind) # {}
             /\ \A e \in Queued(q, kind) :
                  e.time_ms = t /\ OfTheMatch(e) /\ \A o \in Queued(q, kind) : o = e
<1>2. /\ Checkpoint \in Kind /\ MatchEnd \in Kind /\ Decide \in Kind /\ Swing \in Kind
      /\ 0 \in EntityId /\ 1 \in EntityId /\ 2 \in EntityId
      /\ 0 \in Nat /\ duration_ms \in Nat /\ duration_ms > 0
      /\ CHECKPOINT_INTERVAL_MS \in Nat
  BY TimesAssumption DEF Kind, EntityId, CHECKPOINT_INTERVAL_MS
<1>3. /\ MatchEnd # Checkpoint /\ Decide # Checkpoint /\ Decide # MatchEnd
      /\ Swing # Checkpoint /\ Swing # MatchEnd /\ Swing # Decide
  BY DEF Checkpoint, MatchEnd, Decide, Swing
<1>4. EmptyQueue \in QueueType /\ \A k \in Kind : Queued(EmptyQueue, k) = {}
  BY DEF EmptyQueue, QueueType, Queued
<1>5. /\ end \in QueueType /\ Chain(end, MatchEnd, duration_ms)
      /\ Queued(end, Checkpoint) = {} /\ Queued(end, Decide) = {}
  BY <1>2, <1>3, <1>4, FirstOfChain
<1> HIDE DEF end
<1>6. /\ cp \in QueueType /\ Queued(cp, MatchEnd) = Queued(end, MatchEnd)
      /\ IF CHECKPOINT_INTERVAL_MS <= duration_ms
         THEN Chain(cp, Checkpoint, CHECKPOINT_INTERVAL_MS) ELSE Queued(cp, Checkpoint) = {}
      /\ Queued(cp, Decide) = {}
  BY <1>2, <1>3, <1>5, FirstOfChain
<1> HIDE DEF cp
<1>7. /\ tick \in QueueType /\ Queued(tick, MatchEnd) = Queued(end, MatchEnd)
      /\ Queued(tick, Checkpoint) = Queued(cp, Checkpoint)
      /\ IF on THEN Chain(tick, Decide, 0) ELSE Queued(tick, Decide) = {}
  BY <1>2, <1>3, <1>6, FirstOfChain
<1> HIDE DEF tick
<1>8. first \in QueueType /\ \A k \in Kind \ {Swing} : Queued(first, k) = Queued(tick, k)
  BY <1>2, <1>7, PushQueued, SMTT(30)
<1> HIDE DEF first
<1>9. both \in QueueType /\ \A k \in Kind \ {Swing} : Queued(both, k) = Queued(tick, k)
  BY <1>2, <1>8, PushQueued, SMTT(30)
<1>10. queue = both
  BY DEF Constructed, initial_queue, both, first, tick, cp, end
<1> HIDE DEF both
<1>11. /\ Queued(queue, MatchEnd) = Queued(end, MatchEnd)
       /\ Queued(queue, Checkpoint) = Queued(cp, Checkpoint)
       /\ Queued(queue, Decide) = Queued(tick, Decide)
  BY <1>2, <1>3, <1>7, <1>9, <1>10
<1>12. second = CHECKPOINT_INTERVAL_MS /\ status = "Advancing" /\ tick_t = 0
  BY DEF Constructed, second, NoResult, CHECKPOINT_INTERVAL_MS
<1>13. EndQueued /\ EndIsTimely
  BY <1>5, <1>11, <1>12 DEF EndQueued, EndIsTimely
<1>14. SecondQueued
  BY <1>6, <1>11, <1>12 DEF SecondQueued
<1>15. TickQueued(on)
  BY <1>2, <1>7, <1>11, <1>12 DEF TickQueued
<1>16. /\ on <=> Queued(queue, Decide) # {}
       /\ \A e \in Queued(queue, Decide) : e.time_ms = 0
  BY <1>7, <1>11
<1>17. QED
  BY <1>13, <1>14, <1>15, <1>16 DEF Schedule

\* What a swing does to the queue leaves the three chains alone.
LEMMA ChainsKept ==
  ASSUME NEW on, Schedule(on), status = "Advancing",
         \A k \in Kind \ {Swing} : Queued(queue', k) = Queued(queue, k),
         res'.checkpoints = res.checkpoints, UNCHANGED tick_t,
         status' \in {"Advancing", "Ended"}
  PROVE  EndQueued' /\ SecondQueued' /\ TickQueued(on)'
<1>1. /\ Queued(queue', MatchEnd) = Queued(queue, MatchEnd)
      /\ Queued(queue', Checkpoint) = Queued(queue, Checkpoint)
      /\ Queued(queue', Decide) = Queued(queue, Decide)
  BY DEF Kind, Checkpoint, MatchEnd, Decide, Swing
<1>2. second' = second
  BY DEF second
<1>3. QED
  BY <1>1, <1>2 DEF Schedule, EndQueued, SecondQueued, TickQueued

\* Every event is handled within the duration of the match.
LEMMA HandledInTime ==
  ASSUME NEW on, TInv(on), status # "Ended"
  PROVE  /\ now <= duration_ms
         /\ \A e \in queue.heap : IsTop(queue, e) => e.time_ms <= duration_ms
<1>1. PICK o \in queue.heap : o.time_ms = duration_ms
  BY DEF TInv, Schedule, EndQueued, Queued
<1>2. duration_ms \in Nat /\ now \in Nat
  BY TimesAssumption DEF TInv, IInv, TypeOK, now
<1>3. now <= duration_ms
  BY <1>1, <1>2 DEF TInv, IInv, NothingInThePast, event_before, now
<1>4. \A e \in queue.heap : IsTop(queue, e) => e.time_ms <= duration_ms
  BY <1>1, TopIsFirst DEF TInv, IInv
<1>5. QED
  BY <1>3, <1>4

\* No swing is overdue, neither when an event is handled nor while the driver
\* is asked.
LEMMA SwingsAhead ==
  ASSUME IInv, status # "Ended", NEW t \in Nat,
         t = now \/ \E e \in queue.heap : IsTop(queue, e) /\ e.time_ms = t
  PROVE  \A i \in Slots : Units[i].attacks => states[i].next_swing_ms >= t
<1>1. SUFFICES ASSUME NEW i \in Slots, Units[i].attacks
               PROVE  states[i].next_swing_ms >= t
  OBVIOUS
<1>2. PICK o \in queue.heap : o.time_ms = states[i].next_swing_ms
  BY <1>1 DEF IInv, NoLostSwing, Queued
<1>3. o.time_ms \in Nat /\ now \in Nat /\ event_before(last, o)
  BY DEF IInv, TypeOK, NothingInThePast, now, Event
<1>4. CASE t = now
  BY <1>2, <1>3, <1>4 DEF event_before, now
<1>5. CASE \E e \in queue.heap : IsTop(queue, e) /\ e.time_ms = t
  BY <1>2, <1>5, TopIsFirst DEF IInv
<1>6. QED
  BY <1>4, <1>5

\* The tail of a swing: at most swings are queued, and a match that ends does
\* so at the time of the event.
LEMMA FinishSchedule ==
  ASSUME NEW on, TInv(on), IInv', NEW e \in Queued(queue, Swing), Lands(e),
         NEW sts, NEW counted, NEW q \in QueueType,
         \A k \in Kind \ {Swing} : Queued(q, k) = Queued(queue, k),
         states' = sts, UNCHANGED tick_t, FinishSwing(e, sts, q, counted),
         counted \in MatchResult, counted.checkpoints = res.checkpoints,
         \A i \in Slots : Units[i].attacks => sts[i].next_swing_ms >= e.time_ms
  PROVE  Schedule(on)'
<1>1. /\ e \in queue.heap /\ IsTop(queue, e) /\ status = "Advancing"
      /\ e.source_id \in EntityId /\ e.target_id \in EntityId /\ e.time_ms \in Nat
  BY DEF Lands, Pops, TInv, IInv, TypeOK, Event, Queued
<1>2. e.time_ms <= duration_ms
  BY <1>1, HandledInTime
<1>3. /\ res'.checkpoints = res.checkpoints
      /\ status' \in {"Advancing", "Ended"}
      /\ status' = "Ended" => res'.end_ms = e.time_ms
  BY <1>1 DEF FinishSwing, EndedByDeath, MatchResult
<1>4. \A k \in Kind \ {Swing} : Queued(queue', k) = Queued(queue, k)
  <2>1. CASE queue' = q
    BY <2>1
  <2>2. CASE queue' = push(q, sts[e.source_id].next_swing_ms, Swing, e.source_id, e.target_id)
    BY <2>2 DEF push, Queued
  <2>3. QED
    BY <2>1, <2>2 DEF FinishSwing
<1>5. EndQueued' /\ SecondQueued' /\ TickQueued(on)'
  BY <1>1, <1>3, <1>4, ChainsKept DEF TInv
<1>6. EndIsTimely'
  BY <1>2, <1>3 DEF EndIsTimely
<1>7. QED
  BY <1>5, <1>6 DEF Schedule

LEMMA HeroicSchedule ==
  ASSUME NEW on, TInv(on), IInv', NEW e \in Queued(queue, Swing), NEW y \in HeroicResults[e.source_id],
         HeroicSwing(e, y)
  PROVE  Schedule(on)'
<1> DEFINE i       == e.source_id
           sts     == AfterHeroic(states, i, y, e.time_ms)
           counted == [res EXCEPT !.abilities = @ + 1]
           q       == pop(queue, e)
<1>1. /\ i \in Slots /\ Enemy(i) \in Slots /\ e.time_ms \in Nat
      /\ \A k \in Slots : k = i \/ k = Enemy(i)
      /\ states \in [Slots -> UnitState] /\ res \in MatchResult
      /\ queue \in QueueType /\ e.kind = Swing /\ e \in queue.heap
  BY SwingOfAnAttacker, EnemyIsOther DEF TInv, IInv, TypeOK, QueueType, Queued
<1>2. y \in YellowResult
  BY <1>1, ResultsAssumption
<1>3. /\ Lands(e) /\ UsesHeroicStrike(states[i]) /\ states' = sts /\ UNCHANGED tick_t
      /\ FinishSwing(e, sts, q, counted)
  BY DEF HeroicSwing
<1>4. /\ sts[i].next_swing_ms = e.time_ms + Units[i].weapon_speed_ms
      /\ sts[Enemy(i)].next_swing_ms = states[Enemy(i)].next_swing_ms
  BY <1>1, <1>2, <1>3, AfterHeroicType
<1>5. counted \in MatchResult /\ counted.checkpoints = res.checkpoints
  BY <1>1 DEF MatchResult
<1>6. q \in QueueType /\ \A k \in Kind \ {Swing} : Queued(q, k) = Queued(queue, k)
  BY <1>1 DEF pop, QueueType, Queued
<1>7. \A k \in Slots : Units[k].attacks => sts[k].next_swing_ms >= e.time_ms
  <2>1. \A k \in Slots : Units[k].attacks => states[k].next_swing_ms >= e.time_ms
    BY <1>1, <1>3, SwingsAhead DEF TInv, Lands, Pops
  <2>2. Units[i].weapon_speed_ms \in Nat
    BY <1>1, UnitsAssumption DEF UnitSpec
  <2>3. QED
    BY <1>1, <1>4, <2>1, <2>2
<1> HIDE DEF sts, counted, q
<1>8. QED
  BY <1>3, <1>5, <1>6, <1>7, FinishSchedule

LEMMA WhiteSchedule ==
  ASSUME NEW on, TInv(on), IInv', NEW e \in Queued(queue, Swing), NEW w \in WhiteResults[e.source_id],
         WhiteSwing(e, w)
  PROVE  Schedule(on)'
<1> DEFINE i       == e.source_id
           j       == Enemy(i)
           t       == e.time_ms
           sts     == AfterWhite(states, i, w, t)
           counted == [res EXCEPT !.swings = @ + 1]
           popped  == pop(queue, e)
           q       == push_hastened(popped, j, w.outcome, t)
<1>1. /\ i \in Slots /\ j \in Slots /\ e.target_id = j /\ t \in Nat
      /\ \A k \in Slots : k = i \/ k = j
      /\ states \in [Slots -> UnitState] /\ res \in MatchResult
      /\ queue \in QueueType /\ e.kind = Swing /\ e \in queue.heap
  BY SwingOfAnAttacker, EnemyIsOther DEF TInv, IInv, TypeOK, QueueType, Queued
<1>2. w \in SwingResult
  BY <1>1, ResultsAssumption
<1>3. /\ Lands(e) /\ states' = sts /\ UNCHANGED tick_t
      /\ FinishSwing(e, sts, q, counted)
  BY <1>1 DEF WhiteSwing
<1>4. /\ sts[i].next_swing_ms = t + Units[i].weapon_speed_ms
      /\ sts[j].next_swing_ms = IF IsHastened(states[j], j, w.outcome, t)
                                THEN HastenedSwing(states[j], j, t)
                                ELSE states[j].next_swing_ms
  BY <1>1, <1>2, AfterWhiteType
<1>5. counted \in MatchResult /\ counted.checkpoints = res.checkpoints
  BY <1>1 DEF MatchResult
<1>6. \A k \in Slots : Units[k].attacks => states[k].next_swing_ms >= t
  BY <1>1, <1>3, SwingsAhead DEF TInv, Lands, Pops
<1>7. IsHastened(states[j], j, w.outcome, t) =>
        HastenedSwing(states[j], j, t) \in Nat /\ HastenedSwing(states[j], j, t) > t
  <2>1. SUFFICES ASSUME IsHastened(states[j], j, w.outcome, t)
                 PROVE  /\ HastenedSwing(states[j], j, t) \in Nat
                        /\ HastenedSwing(states[j], j, t) > t
    OBVIOUS
  <2>2. states[j] \in UnitState /\ states[j].next_swing_ms >= 0
    BY <1>1, <2>1 DEF IsHastened
  <2>3. states[j].next_swing_ms >= t
    BY <1>1, <1>3, <2>2, NobodyOverdue DEF TInv, Lands, Pops
  <2>4. QED
    BY <1>1, <2>1, <2>2, <2>3, HastenedLater
<1>8. popped \in QueueType /\ \A k \in Kind \ {Swing} : Queued(popped, k) = Queued(queue, k)
  BY <1>1 DEF pop, QueueType, Queued
<1> HIDE DEF popped
<1>9. q \in QueueType /\ \A k \in Kind \ {Swing} : Queued(q, k) = Queued(popped, k)
  <2>1. CASE ~IsHastened(states[j], j, w.outcome, t)
    BY <1>8, <2>1 DEF push_hastened
  <2>2. CASE IsHastened(states[j], j, w.outcome, t)
    <3>1. Swing \in Kind /\ j \in EntityId /\ Enemy(j) \in EntityId
      BY <1>1, EnemyIsOther DEF Kind, EntityId, Slots
    <3>2. q = push(popped, HastenedSwing(states[j], j, t), Swing, j, Enemy(j))
      BY <2>2 DEF push_hastened
    <3>3. QED
      BY <1>7, <1>8, <2>2, <3>1, <3>2, PushQueued
  <2>3. QED
    BY <2>1, <2>2
<1>10. \A k \in Slots : Units[k].attacks => sts[k].next_swing_ms >= t
  <2>1. Units[i].weapon_speed_ms \in Nat
    BY <1>1, UnitsAssumption DEF UnitSpec
  <2>2. QED
    BY <1>1, <1>4, <1>6, <1>7, <2>1
<1> HIDE DEF sts, counted, q
<1>11. QED
  BY <1>3, <1>5, <1>8, <1>9, <1>10, FinishSchedule

LEMMA CheckpointSchedule ==
  ASSUME NEW on, TInv(on), NEW e \in queue.heap, CheckpointEvent(e)
  PROVE  Schedule(on)'
<1> DEFINE t == e.time_ms
           q == pop(queue, e)
<1>1. /\ EndQueued /\ SecondQueued /\ TickQueued(on) /\ queue \in QueueType /\ res \in MatchResult
  BY DEF TInv, Schedule, IInv, TypeOK, QueueType
<1>2. /\ status = "Advancing" /\ UNCHANGED <<states, status, tick_t>>
      /\ res' = [res EXCEPT !.checkpoints = @ + 1]
      /\ queue' = rearm_checkpoint(q, t)
      /\ e \in Queued(queue, Checkpoint)
  BY DEF CheckpointEvent, Pops, Queued
<1>3. /\ t = second /\ second <= duration_ms
      /\ Queued(queue, Checkpoint) = {e}
  BY <1>1, <1>2 DEF SecondQueued
<1>4. second' = t + CHECKPOINT_INTERVAL_MS /\ t + CHECKPOINT_INTERVAL_MS \in Nat
  BY <1>1, <1>2, <1>3 DEF second, MatchResult, CHECKPOINT_INTERVAL_MS
<1>5. /\ Checkpoint \in Kind /\ MatchEnd \in Kind \ {Checkpoint} /\ Decide \in Kind \ {Checkpoint}
  BY DEF Kind, Checkpoint, MatchEnd, Decide
<1>6. /\ q \in QueueType /\ Queued(q, Checkpoint) = {}
      /\ \A k \in Kind \ {Checkpoint} : Queued(q, k) = Queued(queue, k)
  BY <1>1, <1>2, <1>3, PopType, PopQueued DEF Queued
<1> HIDE DEF q, t
<1>7. /\ \A k \in Kind \ {Checkpoint} : Queued(queue', k) = Queued(queue, k)
      /\ IF second' <= duration_ms
         THEN /\ Queued(queue', Checkpoint) # {}
              /\ \A o \in Queued(queue', Checkpoint) :
                   o.time_ms = second' /\ OfTheMatch(o) /\ \A p \in Queued(queue', Checkpoint) : p = o
         ELSE Queued(queue', Checkpoint) = {}
  <2>1. CASE second' <= duration_ms
    <3>1. queue' = push(q, second', Checkpoint, 0, 0)
      BY <1>2, <1>4, <2>1 DEF rearm_checkpoint
    <3>2. QED
      BY <1>4, <1>5, <1>6, <2>1, <3>1, FirstOfChain
  <2>2. CASE ~(second' <= duration_ms)
    BY <1>2, <1>4, <1>6, <2>2 DEF rearm_checkpoint
  <2>3. QED
    BY <2>1, <2>2
<1>8. SecondQueued'
  BY <1>7 DEF SecondQueued
<1>9. EndQueued' /\ TickQueued(on)'
  BY <1>1, <1>2, <1>5, <1>7 DEF EndQueued, TickQueued
<1>10. EndIsTimely'
  BY <1>2 DEF EndIsTimely
<1>11. QED
  BY <1>8, <1>9, <1>10 DEF Schedule

LEMMA EndSchedule ==
  ASSUME NEW on, TInv(on), NEW e \in queue.heap, MatchEndEvent(e)
  PROVE  Schedule(on)'
<1>1. /\ status = "Advancing" /\ IsTop(queue, e) /\ status' = "Ended" /\ states' = states
      /\ res' = [res EXCEPT !.end_ms = e.time_ms, !.end_reason = "duration"]
  BY DEF MatchEndEvent, Pops
<1>2. res \in MatchResult /\ e.time_ms \in Nat
  BY DEF TInv, IInv, TypeOK, Event
<1>3. res'.end_ms = e.time_ms
  BY <1>1, <1>2 DEF MatchResult
<1>4. e.time_ms <= duration_ms
  BY <1>1, HandledInTime
<1>5. \A i \in Slots : Units[i].attacks => states[i].next_swing_ms >= e.time_ms
  BY <1>1, <1>2, SwingsAhead DEF TInv
<1>6. QED
  BY <1>1, <1>3, <1>4, <1>5 DEF Schedule, EndQueued, SecondQueued, TickQueued, EndIsTimely

LEMMA DecideSchedule ==
  ASSUME NEW on, TInv(on), NEW e \in queue.heap, DecideEvent(e)
  PROVE  Schedule(on)' /\ Queued(queue', Decide) = {} /\ Queued(queue, Decide) = {e}
<1>1. EndQueued /\ SecondQueued /\ TickQueued(on) /\ queue \in QueueType
  BY DEF TInv, Schedule, IInv, TypeOK, QueueType
<1>2. /\ status = "Advancing" /\ status' = "AwaitingActions" /\ UNCHANGED <<states, res>>
      /\ queue' = pop(queue, e) /\ e \in Queued(queue, Decide)
  BY DEF DecideEvent, Pops, Queued
<1>3. Queued(queue, Decide) = {e}
  BY <1>1, <1>2 DEF TickQueued
<1>4. /\ Queued(queue', MatchEnd) = Queued(queue, MatchEnd)
      /\ Queued(queue', Checkpoint) = Queued(queue, Checkpoint)
      /\ Queued(queue', Decide) = {}
  BY <1>1, <1>2, <1>3, PopType, PopQueued DEF Queued, Checkpoint, MatchEnd, Decide
<1>5. second' = second
  BY <1>2 DEF second
<1>6. QED
  BY <1>1, <1>2, <1>3, <1>4, <1>5 DEF Schedule, EndQueued, SecondQueued, TickQueued, EndIsTimely

LEMMA StaleSchedule ==
  ASSUME NEW on, TInv(on), NEW e \in Queued(queue, Swing), StaleSwing(e)
  PROVE  Schedule(on)' /\ \A k \in Kind \ {Swing} : Queued(queue', k) = Queued(queue, k)
<1>1. /\ status = "Advancing" /\ UNCHANGED <<states, res, status, tick_t>>
      /\ queue' = pop(queue, e) /\ e.kind = Swing
  BY DEF StaleSwing, Pops
<1>2. \A k \in Kind \ {Swing} : Queued(queue', k) = Queued(queue, k)
  BY <1>1 DEF pop, Queued
<1>3. QED
  BY <1>1, <1>2, ChainsKept DEF Schedule, EndIsTimely, TInv

LEMMA StepSchedule ==
  ASSUME NEW on, TInv(on), NEW a, a[1] \in Action, a[2] \in Action, NEW y \in Casts, Step(a, y)
  PROVE  Schedule(on)'
<1> DEFINE m == Outcome(a, y)
<1>1. /\ status = "AwaitingActions" /\ UNCHANGED <<tick_t, last, swung>>
      /\ m \in [states: [Slots -> UnitState], res: MatchResult]
      /\ \A k \in Slots : m.states[k].next_swing_ms = states[k].next_swing_ms
      /\ m.res.checkpoints = res.checkpoints
      /\ EndByDeath(m) \/ Resume(m)
  BY StepOutcome DEF TInv
<1>2. /\ EndQueued /\ SecondQueued /\ TickQueued(on) /\ queue \in QueueType /\ tick_t \in Nat
  BY DEF TInv, Schedule, IInv, TypeOK, QueueType
<1> HIDE DEF m
<1>3. CASE EndByDeath(m)
  <2>1. status' = "Ended" /\ states' = m.states /\ res' = EndedByDeath(m.res, tick_t)
    BY <1>3 DEF EndByDeath
  <2>2. res'.end_ms = tick_t
    BY <1>1, <2>1 DEF EndedByDeath, MatchResult
  <2>3. tick_t = now
    BY <1>1 DEF TInv, IInv, AwaitsNow
  <2>4. tick_t <= duration_ms
    BY <1>1, <2>3, HandledInTime
  <2>5. \A i \in Slots : Units[i].attacks => states[i].next_swing_ms >= tick_t
    BY <1>1, <1>2, <2>3, SwingsAhead DEF TInv
  <2>6. QED
    BY <1>1, <2>1, <2>2, <2>4, <2>5 DEF Schedule, EndQueued, SecondQueued, TickQueued, EndIsTimely
<1>4. CASE Resume(m)
  <2>1. /\ states' = m.states /\ res' = m.res /\ status' = "Advancing"
        /\ queue' = rearm_decide(queue, tick_t)
    BY <1>4 DEF Resume
  <2>2. Decide \in Kind /\ MatchEnd \in Kind \ {Decide} /\ Checkpoint \in Kind \ {Decide}
        /\ tick_t + decision_tick_ms \in Nat
    BY <1>2, TimesAssumption DEF Kind, Decide, MatchEnd, Checkpoint
  <2>3. Queued(queue, Decide) = {}
    BY <1>1, <1>2 DEF TickQueued
  <2>4. on /\ second' = second
    BY <1>1, <1>2, <2>1 DEF TickQueued, second
  <2>5. CASE tick_t + decision_tick_ms < duration_ms
    <3>1. queue' = push(queue, tick_t + decision_tick_ms, Decide, 0, 0)
      BY <2>1, <2>5 DEF rearm_decide
    <3>2. /\ \A o \in Queued(queue', Decide) :
               /\ o.time_ms = tick_t + decision_tick_ms /\ OfTheMatch(o)
               /\ \A p \in Queued(queue', Decide) : p = o
          /\ Queued(queue', Decide) # {}
          /\ \A k \in Kind \ {Decide} : Queued(queue', k) = Queued(queue, k)
      BY <1>2, <2>2, <2>3, <3>1, FirstOfChain
    <3>3. TickQueued(on)'
      BY <2>1, <2>4, <2>5, <3>2 DEF TickQueued
    <3>4. EndQueued' /\ SecondQueued' /\ EndIsTimely'
      BY <1>1, <1>2, <2>1, <2>2, <2>4, <3>2 DEF EndQueued, SecondQueued, EndIsTimely
    <3>5. QED
      BY <3>3, <3>4 DEF Schedule
  <2>6. CASE ~(tick_t + decision_tick_ms < duration_ms)
    <3>1. queue' = queue /\ tick_t' + decision_tick_ms >= duration_ms
      BY <1>1, <1>2, <2>1, <2>6, TimesAssumption DEF rearm_decide
    <3>2. QED
      BY <1>1, <1>2, <2>1, <2>3, <2>4, <3>1
         DEF Schedule, EndQueued, SecondQueued, TickQueued, EndIsTimely
  <2>7. QED
    BY <2>5, <2>6
<1>5. QED
  BY <1>1, <1>3, <1>4

LEMMA StepTInv ==
  ASSUME NEW on, TInv(on), [Next]_vars
  PROVE  TInv(on)'
<1>2. IInv'
  BY StepIInv DEF TInv
<1>3. CASE UNCHANGED vars
  BY <1>2, <1>3 DEF TInv, vars, Schedule, EndQueued, SecondQueued, TickQueued, EndIsTimely,
                          Queued, second
<1>4. CASE Advance
  <2>1. ASSUME NEW e \in queue.heap, CheckpointEvent(e) \/ MatchEndEvent(e) \/ DecideEvent(e)
        PROVE  Schedule(on)'
    BY <2>1, CheckpointSchedule, EndSchedule, DecideSchedule
  <2>2. ASSUME NEW e \in Queued(queue, Swing), StaleSwing(e) PROVE Schedule(on)'
    BY <2>2, StaleSchedule
  <2>3. ASSUME NEW e \in Queued(queue, Swing), NEW y \in HeroicResults[e.source_id],
               HeroicSwing(e, y)
        PROVE  Schedule(on)'
    BY <1>2, <2>3, HeroicSchedule
  <2>4. ASSUME NEW e \in Queued(queue, Swing), NEW w \in WhiteResults[e.source_id],
               WhiteSwing(e, w)
        PROVE  Schedule(on)'
    BY <1>2, <2>4, WhiteSchedule
  <2>5. QED
    BY <1>2, <1>4, <2>1, <2>2, <2>3, <2>4 DEF Advance, TInv
<1>5. CASE Driver
  <2>1. PICK a1 \in Choices(states, 1, tick_t), a2 \in Choices(states, 2, tick_t), y \in Casts :
          Step(<<a1, a2>>, y)
    BY <1>5 DEF Driver
  <2>2. a1 \in Action /\ a2 \in Action
    BY ChoicesAreActions DEF Slots
  <2>3. QED
    BY <1>2, <2>1, <2>2, StepSchedule DEF TInv
<1>6. CASE StepAfterEnd
  BY <1>3, <1>6 DEF StepAfterEnd
<1>7. QED
  BY <1>3, <1>4, <1>5, <1>6 DEF Next

\* The engine keeps its schedule: whatever is parried and whatever the driver
\* submits, the end, the next second and the next tick are queued exactly when
\* they are still to come (match.h:139-176, 202-207, 286-321).
THEOREM ScheduleIsKept == Spec => []TInv(run_ticks)
<1>1. Init => TInv(run_ticks)
  BY InitIInv, InitSchedule DEF TInv, Init, Constructed, run_ticks
<1>2. TInv(run_ticks) /\ [Next]_vars => TInv(run_ticks)'
  BY StepTInv
<1>3. QED
  BY <1>1, <1>2, PTL DEF Spec

-----------------------------------------------------------------------------
(* Every tick is offered, in its turn.                                     *)

Grid == {k * decision_tick_ms : k \in Nat}

\* The place of an event in the total order of events, which up to its sequence
\* number is that of (time, kind, unit).
place(t, kind, unit) == 12 * t + 3 * kind + unit

PlaceOf(e) == place(e.time_ms, e.kind, e.source_id)

\* How far the match has come; a tick that was answered takes in both actions.
passed == PlaceOf(last) + IF last.kind = Decide /\ status # "AwaitingActions" THEN 2 ELSE 0

\* The queued tick is one of the grid and still to come, and if ticks run then
\* none of the grid is left out.
Ticks(on) ==
  /\ status # "Ended" =>
       \A e \in Queued(queue, Decide) : e.time_ms \in Grid /\ passed < PlaceOf(e)
  /\ status = "AwaitingActions" => last.kind = Decide /\ tick_t \in Grid /\ tick_t < duration_ms
  /\ last.kind = Decide => last.source_id = 0
  /\ status = "Advancing" /\ on =>
       \A t \in Grid : t < duration_ms /\ passed < place(t, Decide, 0) =>
         \E e \in Queued(queue, Decide) : e.time_ms <= t

\* What an engine keeps whoever drives it, with ticks or without.
Runs(on) == TInv(on) /\ Ticks(on)

LEMMA GridIsNat == Grid \subseteq Nat
  BY TimesAssumption DEF Grid

LEMMA GridStart == 0 \in Grid
<1>1. decision_tick_ms \in Nat /\ 0 * decision_tick_ms = 0
  BY TimesAssumption
<1>2. QED
  BY <1>1 DEF Grid

LEMMA GridStep ==
  ASSUME NEW t \in Grid
  PROVE  t + decision_tick_ms \in Grid
<1>1. PICK k \in Nat : t = k * decision_tick_ms
  BY DEF Grid
<1>2. k + 1 \in Nat /\ t + decision_tick_ms = (k + 1) * decision_tick_ms
  BY <1>1, TimesAssumption
<1>3. QED
  BY <1>2 DEF Grid

\* Between a tick and the next there is no other.
LEMMA GridGap ==
  ASSUME NEW s \in Grid, NEW t \in Grid, s < t
  PROVE  s + decision_tick_ms <= t
<1> DEFINE d == decision_tick_ms
<1>1. PICK k \in Nat : s = k * d
  BY DEF Grid
<1>2. PICK l \in Nat : t = l * d
  BY DEF Grid
<1>3. d \in Nat /\ d > 0
  BY TimesAssumption
<1> HIDE DEF d
<1>4. ASSUME l <= k PROVE FALSE
  <2>1. PICK m \in Nat : k = l + m
    BY <1>4
  <2>2. k * d = l * d + m * d /\ m * d >= 0
    BY <1>3, <2>1
  <2>3. QED
    BY <1>1, <1>2, <1>3, <2>2
<1>5. PICK m \in Nat : l = (k + 1) + m
  <2>1. l - (k + 1) \in Nat
    BY <1>4
  <2>2. QED
    BY <2>1
<1>6. l * d = (k * d + d) + m * d /\ m * d >= 0
  BY <1>3, <1>5
<1>7. QED
  BY <1>1, <1>2, <1>3, <1>6 DEF d

\* The first event of the queue comes after everything that was handled.
LEMMA PopPasses ==
  ASSUME NEW on, Runs(on), status = "Advancing", NEW e \in queue.heap, IsTop(queue, e)
  PROVE  /\ passed <= PlaceOf(e)
         /\ passed \in Int /\ PlaceOf(e) \in Int
         /\ \A o \in queue.heap : PlaceOf(e) <= PlaceOf(o)
         /\ \A o \in queue.heap : o.kind # e.kind => PlaceOf(e) < PlaceOf(o)
<1>1. queue.heap \subseteq Event /\ event_before(last, e)
      /\ last.time_ms \in Nat /\ last.kind \in Kind /\ last.source_id \in EntityId
  BY DEF Runs, TInv, IInv, TypeOK, NothingInThePast
<1>2. \A o \in queue.heap : o.time_ms \in Nat /\ o.kind \in 0..3 /\ o.source_id \in 0..2
  BY <1>1 DEF Event, Kind, EntityId, Checkpoint, MatchEnd, Decide, Swing
<1>3. last.kind \in 0..3 /\ last.source_id \in 0..2
  BY <1>1 DEF Kind, EntityId, Checkpoint, MatchEnd, Decide, Swing
<1>4. /\ \A o \in queue.heap : PlaceOf(e) <= PlaceOf(o)
      /\ \A o \in queue.heap : o.kind # e.kind => PlaceOf(e) < PlaceOf(o)
  <2>1. SUFFICES ASSUME NEW o \in queue.heap, o # e
                 PROVE  PlaceOf(e) <= PlaceOf(o) /\ (o.kind # e.kind => PlaceOf(e) < PlaceOf(o))
    BY <1>2 DEF PlaceOf, place
  <2>2. event_before(e, o)
    BY <2>1 DEF IsTop
  <2>3. QED
    BY <1>2, <2>2 DEF event_before, PlaceOf, place
<1>5. passed <= PlaceOf(e)
  <2>1. CASE e.kind = Decide
    BY <1>1, <1>2, <1>3, <2>1 DEF Runs, Ticks, Queued, passed, PlaceOf, place
  <2>2. CASE e.kind # Decide
    <3>1. last.kind = Decide => last.source_id = 0
      BY DEF Runs, Ticks
    <3>2. QED
      BY <1>1, <1>2, <1>3, <2>2, <3>1 DEF event_before, passed, PlaceOf, place, Decide
  <2>3. QED
    BY <2>1, <2>2
<1>6. passed \in Int /\ PlaceOf(e) \in Int
  BY <1>1, <1>2, <1>3 DEF passed, PlaceOf, place
<1>7. QED
  BY <1>4, <1>5, <1>6

LEMMA FreshRuns ==
  ASSUME NEW on \in BOOLEAN, Constructed(on)
  PROVE  Runs(on)
<1>1. Fresh
  BY DEF Fresh
<1>2. TInv(on)
  BY <1>1, FreshIInv, InitSchedule DEF TInv
<1>3. /\ \A e \in Queued(queue, Decide) : e.time_ms = 0 /\ e.kind = Decide /\ e.source_id = 0
      /\ on => Queued(queue, Decide) # {}
  BY <1>2, InitSchedule DEF Queued, TInv, Schedule, TickQueued, OfTheMatch, Constructed
<1>4. status = "Advancing" /\ passed = 0
  BY DEF Constructed, passed, PlaceOf, place, Checkpoint, Decide
<1>5. \A e \in Queued(queue, Decide) : e.time_ms \in Grid /\ passed < PlaceOf(e)
  BY <1>3, <1>4, GridStart DEF PlaceOf, place, Decide
<1>6. on => \A t \in Grid : \E e \in Queued(queue, Decide) : e.time_ms <= t
  BY <1>3, GridIsNat
<1>7. last.kind # Decide
  BY DEF Constructed, Checkpoint, Decide
<1>8. QED
  BY <1>2, <1>4, <1>5, <1>6, <1>7 DEF Runs, Ticks

LEMMA StandsRuns ==
  ASSUME NEW on, Runs(on), UNCHANGED vars
  PROVE  Runs(on)'
<1>1. TInv(on)'
  BY StepTInv DEF Runs
<1>2. Ticks(on)'
  BY DEF Runs, Ticks, vars, Queued, passed, PlaceOf
<1>3. QED
  BY <1>1, <1>2 DEF Runs

\* An event that is no tick leaves the chain of ticks alone.
LEMMA OtherEvents ==
  ASSUME NEW on, Runs(on), Advance, ~\E e \in queue.heap : DecideEvent(e)
  PROVE  /\ last' \in queue.heap /\ IsTop(queue, last') /\ last'.kind # Decide
         /\ status = "Advancing" /\ status' \in {"Advancing", "Ended"}
         /\ Queued(queue', Decide) = Queued(queue, Decide)
<1> DEFINE Claim == /\ last' \in queue.heap /\ IsTop(queue, last') /\ last'.kind # Decide
                    /\ status = "Advancing" /\ status' \in {"Advancing", "Ended"}
                    /\ Queued(queue', Decide) = Queued(queue, Decide)
<1>1. queue \in QueueType
  BY DEF Runs, TInv, IInv, TypeOK, QueueType
<1>2. Decide # Checkpoint /\ Decide # MatchEnd /\ Decide # Swing
  BY DEF Decide, Checkpoint, MatchEnd, Swing
<1>3. \A q, t, k, s, d : k # Decide => Queued(push(q, t, k, s, d), Decide) = Queued(q, Decide)
  BY DEF Queued, push
<1>4. \A e : e.kind # Decide => Queued(pop(queue, e), Decide) = Queued(queue, Decide)
  BY <1>1 DEF Queued, pop, QueueType
<1>5. ASSUME NEW e \in queue.heap, CheckpointEvent(e) PROVE Claim
  BY <1>2, <1>3, <1>4, <1>5 DEF CheckpointEvent, Pops, rearm_checkpoint
<1>6. ASSUME NEW e \in queue.heap, MatchEndEvent(e) PROVE Claim
  BY <1>2, <1>4, <1>6 DEF MatchEndEvent, Pops
<1>7. ASSUME NEW e \in Queued(queue, Swing), StaleSwing(e) PROVE Claim
  BY <1>2, <1>4, <1>7 DEF StaleSwing, Pops, Queued
<1>8. ASSUME NEW e \in Queued(queue, Swing), Lands(e), NEW sts, NEW q, NEW counted,
             Queued(q, Decide) = Queued(queue, Decide), FinishSwing(e, sts, q, counted)
      PROVE  Claim
  <2>1. /\ e \in queue.heap /\ last' = e /\ IsTop(queue, e) /\ e.kind = Swing
        /\ status = "Advancing"
    BY <1>8 DEF Lands, Pops, Queued
  <2>2. status' \in {"Advancing", "Ended"}
    BY <1>8, <2>1 DEF FinishSwing
  <2>3. queue' = q \/ queue' = push(q, sts[e.source_id].next_swing_ms, Swing, e.source_id, e.target_id)
    BY <1>8 DEF FinishSwing
  <2>4. Queued(queue', Decide) = Queued(queue, Decide)
    BY <1>2, <1>3, <1>8, <2>3
  <2>5. QED
    BY <1>2, <2>1, <2>2, <2>4
<1>9. ASSUME NEW e \in Queued(queue, Swing), NEW y \in HeroicResults[e.source_id], HeroicSwing(e, y)
      PROVE  Claim
  <2>1. Lands(e) /\ \E sts, counted : FinishSwing(e, sts, pop(queue, e), counted)
    BY <1>9 DEF HeroicSwing
  <2>2. Queued(pop(queue, e), Decide) = Queued(queue, Decide)
    BY <1>2, <1>4 DEF Queued
  <2>3. QED
    BY <1>8, <2>1, <2>2
<1>10. ASSUME NEW e \in Queued(queue, Swing), NEW w \in WhiteResults[e.source_id], WhiteSwing(e, w)
       PROVE  Claim
  <2> DEFINE q == push_hastened(pop(queue, e), e.target_id, w.outcome, e.time_ms)
  <2>1. Lands(e) /\ \E sts, counted : FinishSwing(e, sts, q, counted)
    BY <1>10 DEF WhiteSwing
  <2>2. Queued(pop(queue, e), Decide) = Queued(queue, Decide)
    BY <1>2, <1>4 DEF Queued
  <2>3. Queued(q, Decide) = Queued(queue, Decide)
    BY <1>2, <1>3, <2>2 DEF push_hastened
  <2> HIDE DEF q
  <2>4. QED
    BY <1>8, <2>1, <2>3
<1> HIDE DEF Claim
<1>11. Claim
  BY <1>5, <1>6, <1>7, <1>9, <1>10 DEF Advance
<1>12. QED
  BY <1>11 DEF Claim

LEMMA AdvanceRuns ==
  ASSUME NEW on, Runs(on), Advance
  PROVE  Runs(on)'
<1>1. TInv(on)'
  BY StepTInv DEF Runs, Next
<1>2. CASE \E e \in queue.heap : DecideEvent(e)
  <2>1. PICK e \in queue.heap : DecideEvent(e)
    BY <1>2
  <2>2. e \in Queued(queue, Decide) /\ e.kind = Decide /\ status = "Advancing"
    BY <2>1 DEF DecideEvent, Pops, Queued
  <2>3. e.time_ms \in Grid /\ e.time_ms < duration_ms /\ e.source_id = 0
    BY <2>2 DEF Runs, Ticks, TInv, Schedule, TickQueued, OfTheMatch
  <2>4. /\ last' = e /\ tick_t' = e.time_ms /\ status' = "AwaitingActions"
        /\ Queued(queue', Decide) = {}
    BY <2>1, DecideSchedule DEF DecideEvent, Pops, Runs
  <2>5. Ticks(on)'
    BY <2>2, <2>3, <2>4 DEF Ticks
  <2>6. QED
    BY <1>1, <2>5 DEF Runs
<1>3. CASE ~\E e \in queue.heap : DecideEvent(e)
  <2>1. /\ last' \in queue.heap /\ IsTop(queue, last') /\ last'.kind # Decide
        /\ status = "Advancing" /\ status' \in {"Advancing", "Ended"}
        /\ Queued(queue', Decide) = Queued(queue, Decide)
    BY <1>3, OtherEvents
  <2>2. PICK e \in queue.heap : e = last'
    BY <2>1
  <2>3. /\ passed <= PlaceOf(e) /\ passed \in Int /\ PlaceOf(e) \in Int
        /\ \A o \in queue.heap : o.kind # e.kind => PlaceOf(e) < PlaceOf(o)
    BY <2>1, <2>2, PopPasses
  <2>4. passed' = PlaceOf(e)
    BY <2>1, <2>2, <2>3 DEF passed, PlaceOf, place
  <2>5. \A o \in Queued(queue', Decide) : o.time_ms \in Grid /\ passed' < PlaceOf(o)
    BY <2>1, <2>2, <2>3, <2>4 DEF Runs, Ticks, Queued
  <2>6. \A t \in Grid : passed' < place(t, Decide, 0) => passed < place(t, Decide, 0)
    BY <2>3, <2>4, GridIsNat DEF place, Decide
  <2>7. Ticks(on)'
    BY <2>1, <2>5, <2>6 DEF Runs, Ticks, PlaceOf
  <2>8. QED
    BY <1>1, <2>7 DEF Runs
<1>4. QED
  BY <1>2, <1>3

\* After a tick the next of the grid is queued, unless it comes too late.
LEMMA StepRuns ==
  ASSUME NEW on, Runs(on), NEW a, a[1] \in Action, a[2] \in Action, NEW y \in Casts, Step(a, y)
  PROVE  Runs(on)'
<1> DEFINE m == Outcome(a, y)
           d == decision_tick_ms
<1>1. /\ status = "AwaitingActions" /\ UNCHANGED <<tick_t, last, swung>>
      /\ EndByDeath(m) \/ Resume(m)
  BY StepOutcome DEF Runs, TInv
<1>2. TInv(on)'
  <2>1. IInv'
    BY DriverStep DEF Runs, TInv
  <2>2. a[1] \in Action /\ a[2] \in Action /\ Step(a, y) /\ TInv(on)
    BY DEF Runs
  <2>3. Schedule(on)'
    BY <2>2, StepSchedule
  <2>4. QED
    BY <2>1, <2>3 DEF TInv
<1>3. /\ last.kind = Decide /\ last.source_id = 0 /\ last.time_ms = tick_t
      /\ tick_t \in Grid /\ tick_t < duration_ms /\ tick_t \in Nat
      /\ Queued(queue, Decide) = {} /\ queue \in QueueType
  BY <1>1 DEF Runs, Ticks, TInv, IInv, AwaitsNow, now, TypeOK, Schedule, TickQueued, QueueType
<1>4. status' # "AwaitingActions"
  BY <1>1 DEF EndByDeath, Resume
<1>5. passed' = place(tick_t, Decide, 0) + 2
  BY <1>1, <1>3, <1>4 DEF passed, PlaceOf, place
<1> HIDE DEF m
<1>6. CASE EndByDeath(m)
  BY <1>1, <1>2, <1>3, <1>4, <1>6 DEF EndByDeath, Runs, Ticks
<1>7. CASE Resume(m)
  <2>1. queue' = rearm_decide(queue, tick_t) /\ status' = "Advancing"
    BY <1>7 DEF Resume
  <2>2. d \in Nat /\ d > 0 /\ tick_t + d \in Grid /\ tick_t + d \in Nat /\ Decide \in Kind
    BY <1>3, GridStep, TimesAssumption DEF Kind
  <2>3. CASE tick_t + d < duration_ms
    <3>1. queue' = push(queue, tick_t + d, Decide, 0, 0)
      BY <2>1, <2>3 DEF rearm_decide
    <3>2. /\ Queued(queue', Decide) # {}
          /\ \A e \in Queued(queue', Decide) :
               e.time_ms = tick_t + d /\ e.source_id = 0 /\ e.kind = Decide
      BY <1>3, <2>2, <3>1, FirstOfChain DEF OfTheMatch, Queued
    <3>3. \A e \in Queued(queue', Decide) : e.time_ms \in Grid /\ passed' < PlaceOf(e)
      BY <1>3, <1>5, <2>2, <3>2 DEF PlaceOf, place, Decide
    <3>4. \A t \in Grid : passed' < place(t, Decide, 0) => tick_t + d <= t
      BY <1>3, <1>5, GridGap, GridIsNat DEF place, Decide
    <3>5. Ticks(on)'
      BY <1>1, <1>3, <2>1, <3>2, <3>3, <3>4 DEF Ticks, PlaceOf
    <3>6. QED
      BY <1>2, <3>5 DEF Runs
  <2>4. CASE ~(tick_t + d < duration_ms)
    <3>1. Queued(queue', Decide) = {}
      BY <1>3, <2>1, <2>4 DEF rearm_decide
    <3>2. \A t \in Grid : ~(t < duration_ms /\ passed' < place(t, Decide, 0))
      <4>1. SUFFICES ASSUME NEW t \in Grid, t < duration_ms, passed' < place(t, Decide, 0)
                     PROVE  FALSE
        OBVIOUS
      <4>2. tick_t < t /\ t \in Nat
        BY <1>3, <1>5, <4>1, GridIsNat DEF place, Decide
      <4>3. tick_t + d <= t
        BY <1>3, <4>2, GridGap
      <4>4. QED
        BY <1>3, <2>2, <2>4, <4>1, <4>2, <4>3, TimesAssumption
    <3>3. Ticks(on)'
      BY <1>1, <1>3, <2>1, <3>1, <3>2 DEF Ticks
    <3>4. QED
      BY <1>2, <3>3 DEF Runs
  <2>5. QED
    BY <2>3, <2>4
<1>8. QED
  BY <1>1, <1>6, <1>7

\* Every tick of the match is offered to the driver, at its own time and in
\* the order of the events, until the match ends (match.h:299-314, 202-207).
THEOREM TicksAreOffered == Spec => []Ticks(run_ticks)
<1>1. Init => Runs(run_ticks)
  BY FreshRuns DEF Init, Constructed, run_ticks
<1>2. Runs(run_ticks) /\ [Next]_vars => Runs(run_ticks)'
  <2>1. SUFFICES ASSUME Runs(run_ticks), [Next]_vars PROVE Runs(run_ticks)'
    OBVIOUS
  <2>2. CASE Driver
    <3>1. PICK a1 \in Choices(states, 1, tick_t), a2 \in Choices(states, 2, tick_t), y \in Casts :
            Step(<<a1, a2>>, y)
      BY <2>2 DEF Driver
    <3>2. a1 \in Action /\ a2 \in Action
      BY ChoicesAreActions DEF Slots
    <3>3. QED
      BY <2>1, <3>1, <3>2, StepRuns
  <2>3. QED
    BY <2>1, <2>2, AdvanceRuns, StandsRuns DEF Next, StepAfterEnd
<1>3. QED
  BY <1>1, <1>2, PTL DEF Spec, Runs

-----------------------------------------------------------------------------
(* The order within an instant.                                            *)

\* How far ticks and swings may be while the match runs: before the next second
\* and the end, and a swing before the tick that is queued or answered next.
Behind ==
  status # "Ended" =>
    /\ tick_t < second
    /\ \A i \in Slots : swung[i] < second /\ swung[i] < duration_ms
    /\ \A o \in Queued(queue, Decide) :
         o.time_ms <= tick_t + decision_tick_ms /\ \A i \in Slots : swung[i] < o.time_ms
    /\ status = "AwaitingActions" => \A i \in Slots : swung[i] < tick_t

\* What is queued keeps an event of another kind from being the first.
LEMMA TopWaits ==
  ASSUME NEW on, TInv(on), status = "Advancing", NEW e \in queue.heap, IsTop(queue, e)
  PROVE  /\ e.kind # Checkpoint => e.time_ms < second
         /\ e.kind = Swing => e.time_ms < duration_ms
         /\ e.kind = Swing => \A o \in Queued(queue, Decide) : e.time_ms < o.time_ms
         /\ \A o \in Queued(queue, Swing) :
              e.kind = Swing /\ o.source_id < e.source_id => e.time_ms < o.time_ms
<1>1. /\ EndQueued /\ SecondQueued /\ queue.heap \subseteq Event /\ res \in MatchResult
      /\ duration_ms \in Nat
  BY TimesAssumption DEF TInv, Schedule, IInv, TypeOK
<1>2. /\ \A o \in queue.heap : o.time_ms \in Nat /\ o.kind \in Kind /\ o.source_id \in EntityId
      /\ second \in Nat
  BY <1>1 DEF Event, MatchResult, second, CHECKPOINT_INTERVAL_MS
<1>3. \A o \in queue.heap \ {e} : event_before(e, o)
  BY DEF IsTop
<1>4. ASSUME e.kind # Checkpoint PROVE e.time_ms < second
  <2>1. CASE second <= duration_ms
    <3>1. PICK o \in queue.heap : o.kind = Checkpoint /\ o.time_ms = second
      BY <1>1, <2>1 DEF SecondQueued, Queued
    <3>2. QED
      BY <1>2, <1>3, <1>4, <3>1 DEF event_before, Kind, Checkpoint, MatchEnd, Decide, Swing
  <2>2. CASE ~(second <= duration_ms)
    BY <1>1, <1>2, <2>2, HandledInTime
  <2>3. QED
    BY <2>1, <2>2
<1>5. ASSUME e.kind = Swing PROVE e.time_ms < duration_ms
  <2>1. PICK o \in queue.heap : o.kind = MatchEnd /\ o.time_ms = duration_ms
    BY <1>1 DEF EndQueued, Queued
  <2>2. QED
    BY <1>2, <1>3, <1>5, <2>1 DEF event_before, MatchEnd, Swing
<1>6. ASSUME e.kind = Swing, NEW o \in Queued(queue, Decide) PROVE e.time_ms < o.time_ms
  BY <1>2, <1>3, <1>6 DEF event_before, Queued, Decide, Swing
<1>7. ASSUME e.kind = Swing, NEW o \in Queued(queue, Swing), o.source_id < e.source_id
      PROVE  e.time_ms < o.time_ms
  <2>1. /\ o \in queue.heap /\ o.kind = Swing
        /\ e.source_id \in 0..2 /\ o.source_id \in 0..2 /\ e.time_ms \in Nat /\ o.time_ms \in Nat
    BY <1>2, <1>7 DEF Queued, EntityId
  <2>2. e # o /\ event_before(e, o)
    BY <1>3, <1>7, <2>1
  <2>3. QED
    BY <1>7, <2>1, <2>2 DEF event_before, Swing
<1>8. QED
  BY <1>4, <1>5, <1>6, <1>7

LEMMA FreshBehind ==
  ASSUME NEW on \in BOOLEAN, Constructed(on)
  PROVE  Behind
<1>1. /\ tick_t = 0 /\ status = "Advancing" /\ res.checkpoints = 0
      /\ \A i \in Slots : swung[i] = -1
  BY DEF Constructed, NoResult
<1>2. \A o \in Queued(queue, Decide) : o.time_ms = 0
  BY InitSchedule
<1>3. QED
  BY <1>1, <1>2, TimesAssumption DEF Behind, second, CHECKPOINT_INTERVAL_MS

\* A second is recorded, or the match times out.
LEMMA CheckpointInTurn ==
  ASSUME Runs(run_ticks), Behind, NEW e \in queue.heap, CheckpointEvent(e)
  PROVE  Behind' /\ InItsTurn
<1>1. /\ status = "Advancing" /\ last' = e /\ UNCHANGED <<states, status, tick_t, swung>>
      /\ res' = [res EXCEPT !.checkpoints = @ + 1] /\ e \in Queued(queue, Checkpoint)
  BY DEF CheckpointEvent, Pops, Queued
<1>2. /\ e.time_ms = second /\ res \in MatchResult /\ swung \in [Slots -> Int] /\ tick_t \in Nat
  BY <1>1 DEF Runs, TInv, Schedule, SecondQueued, IInv, TypeOK
<1>3. second \in Nat /\ second' = second + CHECKPOINT_INTERVAL_MS
  BY <1>1, <1>2 DEF MatchResult, second, CHECKPOINT_INTERVAL_MS
<1>4. Queued(queue', Decide) = Queued(queue, Decide)
  <2>1. Advance /\ ~\E o \in queue.heap : DecideEvent(o)
    BY <1>1 DEF Advance, DecideEvent
  <2>2. QED
    BY <2>1, OtherEvents
<1>5. Behind'
  BY <1>1, <1>2, <1>3, <1>4 DEF Behind, CHECKPOINT_INTERVAL_MS
<1>6. InItsTurn
  BY <1>1, <1>2 DEF Behind, InItsTurn, now
<1>7. QED
  BY <1>5, <1>6

LEMMA EndInTurn ==
  ASSUME Runs(run_ticks), Behind, NEW e \in queue.heap, MatchEndEvent(e)
  PROVE  Behind' /\ InItsTurn
<1>1. /\ status = "Advancing" /\ IsTop(queue, e) /\ last' = e /\ status' = "Ended"
      /\ res' = [res EXCEPT !.end_ms = e.time_ms, !.end_reason = "duration"]
      /\ swung' = swung /\ e.kind = MatchEnd /\ e \in Queued(queue, MatchEnd)
  BY DEF MatchEndEvent, Pops, Queued
<1>2. res' \in MatchResult /\ res'.checkpoints = res.checkpoints
  <2>1. res \in MatchResult /\ e.time_ms \in Nat
    BY DEF Runs, TInv, IInv, TypeOK, Event
  <2>2. QED
    BY <1>1, <2>1 DEF MatchResult
<1>3. e.time_ms = duration_ms
  BY <1>1 DEF Runs, TInv, Schedule, EndQueued
<1>4. e.time_ms < second
  BY <1>1, TopWaits DEF Runs, Checkpoint, MatchEnd
<1>5. Behind'
  BY <1>1 DEF Behind
<1>6. InItsTurn
  BY <1>1, <1>2, <1>3, <1>4 DEF Behind, InItsTurn, now
<1>7. QED
  BY <1>5, <1>6

LEMMA DecideInTurn ==
  ASSUME Runs(run_ticks), Behind, NEW e \in queue.heap, DecideEvent(e)
  PROVE  Behind' /\ InItsTurn
<1>1. /\ status = "Advancing" /\ IsTop(queue, e) /\ last' = e /\ status' = "AwaitingActions"
      /\ tick_t' = e.time_ms /\ UNCHANGED <<states, res, swung>>
      /\ e.kind = Decide /\ e \in Queued(queue, Decide)
  BY DEF DecideEvent, Pops, Queued
<1>2. e.time_ms < second /\ second' = second
  BY <1>1, TopWaits DEF Runs, Checkpoint, Decide, second
<1>3. Queued(queue', Decide) = {}
  BY DecideSchedule DEF Runs
<1>4. \A i \in Slots : swung[i] < e.time_ms
  BY <1>1 DEF Behind
<1>5. Behind'
  BY <1>1, <1>2, <1>3, <1>4 DEF Behind
<1>6. InItsTurn
  BY <1>1, <1>2, <1>4 DEF InItsTurn, now
<1>7. QED
  BY <1>5, <1>6

\* A live swing resolves.
LEMMA SwingInTurn ==
  ASSUME Runs(run_ticks), Behind, Advance, NEW e \in Queued(queue, Swing), Lands(e),
         NEW sts, NEW q, NEW counted, FinishSwing(e, sts, q, counted),
         counted \in MatchResult, counted.checkpoints = res.checkpoints, UNCHANGED tick_t
  PROVE  Behind' /\ InItsTurn
<1>1. /\ status = "Advancing" /\ IsTop(queue, e) /\ last' = e /\ e.kind = Swing /\ e \in queue.heap
      /\ swung' = [swung EXCEPT ![e.source_id] = e.time_ms]
  BY DEF Lands, Pops, Queued
<1>2. /\ e.source_id \in Slots /\ e.time_ms \in Nat /\ swung \in [Slots -> Int]
      /\ tick_t \in Nat /\ decision_tick_ms \in Nat /\ duration_ms \in Nat
      /\ \A o \in queue.heap : o.time_ms \in Nat
  BY SwingOfAnAttacker, TimesAssumption DEF Runs, TInv, IInv, TypeOK, Event
<1>3. /\ e.time_ms < second /\ e.time_ms < duration_ms
      /\ \A o \in Queued(queue, Decide) : e.time_ms < o.time_ms
      /\ \A o \in Queued(queue, Swing) : o.source_id < e.source_id => e.time_ms < o.time_ms
  BY <1>1, TopWaits DEF Runs, Checkpoint, Swing
<1>4. /\ res'.checkpoints = res.checkpoints /\ second' = second
      /\ status' \in {"Advancing", "Ended"}
      /\ status' = "Ended" => res'.end_reason = "death"
  BY <1>1 DEF FinishSwing, EndedByDeath, MatchResult, second
<1>5. Queued(queue', Decide) = Queued(queue, Decide)
  <2>1. ~\E o \in queue.heap : DecideEvent(o)
    BY <1>1 DEF DecideEvent, Pops, Decide, Swing
  <2>2. QED
    BY <2>1, OtherEvents
<1>6. \A i \in Slots : swung'[i] = IF i = e.source_id THEN e.time_ms ELSE swung[i]
  BY <1>1, <1>2
<1>7. Behind'
  BY <1>1, <1>2, <1>3, <1>4, <1>5, <1>6 DEF Behind
<1>8. run_ticks => e.time_ms < tick_t + decision_tick_ms
  <2>1. CASE Queued(queue, Decide) = {}
    BY <1>1, <1>2, <1>3, <2>1 DEF Runs, TInv, Schedule, TickQueued
  <2>2. CASE Queued(queue, Decide) # {}
    <3>1. PICK o \in Queued(queue, Decide) : TRUE
      BY <2>2
    <3>2. o.time_ms <= tick_t + decision_tick_ms /\ o.time_ms \in Nat
      BY <1>1, <1>2, <3>1 DEF Behind, Queued
    <3>3. QED
      BY <1>2, <1>3, <3>1, <3>2
  <2>3. QED
    BY <2>1, <2>2
<1>9. ASSUME NEW j \in Slots, j < e.source_id, Units[j].attacks
      PROVE  states[j].next_swing_ms > e.time_ms
  <2>1. PICK o \in Queued(queue, Swing) : o.source_id = j /\ o.time_ms = states[j].next_swing_ms
    BY <1>1, <1>9 DEF Runs, TInv, IInv, NoLostSwing
  <2>2. o.time_ms \in Nat
    BY <1>2, <2>1 DEF Queued
  <2>3. QED
    BY <1>2, <1>3, <1>9, <2>1, <2>2
<1>10. now' = e.time_ms
  BY <1>1 DEF now
<1>11. InItsTurn
  BY <1>1, <1>3, <1>4, <1>6, <1>8, <1>9, <1>10 DEF InItsTurn
<1>12. QED
  BY <1>7, <1>11

\* The driver answers a tick: the next one is after every swing so far.
LEMMA AnswerInTurn ==
  ASSUME Runs(run_ticks), Behind, NEW a, a[1] \in Action, a[2] \in Action, NEW y \in Casts,
         Step(a, y)
  PROVE  Behind' /\ InItsTurn
<1> DEFINE m == Outcome(a, y)
<1>1. /\ status = "AwaitingActions" /\ UNCHANGED <<tick_t, last, swung>>
      /\ m.res \in MatchResult /\ m.res.checkpoints = res.checkpoints
      /\ EndByDeath(m) \/ Resume(m)
  BY StepOutcome DEF Runs, TInv
<1> HIDE DEF m
<1>2. /\ res'.checkpoints = res.checkpoints /\ second' = second /\ status' # "AwaitingActions"
  BY <1>1 DEF EndByDeath, Resume, EndedByDeath, MatchResult, second
<1>3. InItsTurn
  BY <1>1, <1>2 DEF InItsTurn
<1>4. CASE EndByDeath(m)
  BY <1>3, <1>4 DEF EndByDeath, Behind
<1>5. CASE Resume(m)
  <2>1. queue' = rearm_decide(queue, tick_t) /\ status' = "Advancing"
    BY <1>5 DEF Resume
  <2>2. /\ Queued(queue, Decide) = {} /\ tick_t \in Nat /\ swung \in [Slots -> Int]
        /\ decision_tick_ms \in Nat /\ decision_tick_ms > 0
    BY <1>1, TimesAssumption DEF Runs, TInv, IInv, TypeOK, Schedule, TickQueued
  <2>3. \A o \in Queued(queue', Decide) : o.time_ms = tick_t + decision_tick_ms
    BY <2>1, <2>2 DEF rearm_decide, push, Queued
  <2>4. Behind'
    BY <1>1, <1>2, <2>1, <2>2, <2>3 DEF Behind
  <2>5. QED
    BY <1>3, <2>4
<1>6. QED
  BY <1>1, <1>4, <1>5

LEMMA AdvanceInTurn ==
  ASSUME Runs(run_ticks), Behind, Advance
  PROVE  Behind' /\ InItsTurn
<1>1. ASSUME NEW e \in queue.heap, CheckpointEvent(e) \/ MatchEndEvent(e) \/ DecideEvent(e)
      PROVE  Behind' /\ InItsTurn
  BY <1>1, CheckpointInTurn, EndInTurn, DecideInTurn
<1>2. ASSUME NEW e \in Queued(queue, Swing), StaleSwing(e) PROVE Behind' /\ InItsTurn
  <2>1. /\ UNCHANGED <<states, res, status, tick_t, swung>> /\ status = "Advancing"
        /\ Queued(queue', Decide) = Queued(queue, Decide)
    BY <1>2, StaleSchedule DEF StaleSwing, Pops, Runs, Kind, Decide, Swing
  <2>2. second' = second
    BY <2>1 DEF second
  <2>3. QED
    BY <2>1, <2>2 DEF Behind, InItsTurn
<1>3. res \in MatchResult
  BY DEF Runs, TInv, IInv, TypeOK
<1>4. ASSUME NEW e \in Queued(queue, Swing), NEW y \in HeroicResults[e.source_id],
             HeroicSwing(e, y)
      PROVE  Behind' /\ InItsTurn
  <2> DEFINE counted == [res EXCEPT !.abilities = @ + 1]
  <2>1. counted \in MatchResult /\ counted.checkpoints = res.checkpoints
    BY <1>3 DEF MatchResult
  <2>2. Lands(e) /\ UNCHANGED tick_t /\ \E sts, q : FinishSwing(e, sts, q, counted)
    BY <1>4 DEF HeroicSwing
  <2> HIDE DEF counted
  <2>3. QED
    BY <2>1, <2>2, SwingInTurn
<1>5. ASSUME NEW e \in Queued(queue, Swing), NEW w \in WhiteResults[e.source_id],
             WhiteSwing(e, w)
      PROVE  Behind' /\ InItsTurn
  <2> DEFINE counted == [res EXCEPT !.swings = @ + 1]
  <2>1. counted \in MatchResult /\ counted.checkpoints = res.checkpoints
    BY <1>3 DEF MatchResult
  <2>2. Lands(e) /\ UNCHANGED tick_t /\ \E sts, q : FinishSwing(e, sts, q, counted)
    BY <1>5 DEF WhiteSwing
  <2> HIDE DEF counted
  <2>3. QED
    BY <2>1, <2>2, SwingInTurn
<1>6. QED
  BY <1>1, <1>2, <1>4, <1>5 DEF Advance

\* The effects of simultaneous events come in the documented order, whatever the
\* handlers push in between: checkpoints, the end, ticks, then swings by unit
\* (event_queue.h:27-38).
THEOREM InstantsAreOrdered == Spec => InstantOrder
<1>1. Init => Runs(run_ticks) /\ Behind
  BY FreshRuns, FreshBehind DEF Init, Constructed, run_ticks
<1>2. Runs(run_ticks) /\ Behind /\ [Next]_vars
        => Runs(run_ticks)' /\ Behind' /\ [InItsTurn]_vars
  <2>1. SUFFICES ASSUME Runs(run_ticks), Behind, [Next]_vars
                 PROVE  Runs(run_ticks)' /\ Behind' /\ [InItsTurn]_vars
    OBVIOUS
  <2>2. CASE Driver
    <3>1. PICK a1 \in Choices(states, 1, tick_t), a2 \in Choices(states, 2, tick_t), y \in Casts :
            Step(<<a1, a2>>, y)
      BY <2>2 DEF Driver
    <3>2. a1 \in Action /\ a2 \in Action
      BY ChoicesAreActions DEF Slots
    <3>3. QED
      BY <2>1, <3>1, <3>2, StepRuns, AnswerInTurn
  <2>3. CASE Advance
    BY <2>1, <2>3, AdvanceRuns, AdvanceInTurn
  <2>4. CASE UNCHANGED vars
    <3>1. Behind'
      BY <2>1, <2>4 DEF Behind, vars, Queued, second
    <3>2. QED
      BY <2>1, <2>4, <3>1, StandsRuns
  <2>5. QED
    BY <2>1, <2>2, <2>3, <2>4 DEF Next, StepAfterEnd
<1>3. QED
  BY <1>1, <1>2, PTL DEF Spec, InstantOrder

-----------------------------------------------------------------------------
(* What an observer sees.                                                  *)

\* The swing and match-end clamps of build_observation never hide anything:
\* whoever looks at the engine between two steps is told the exact time left of
\* the match and of every swing (match.h:178-185, observation.h:91-102).  The
\* clamps of the cooldowns do act: a cooldown that is over shows as 0.
THEOREM ObservationsAreExact == Spec => []ObservationExact
<1>1. ASSUME TInv(run_ticks) PROVE ObservationExact
  <2>1. SUFFICES ASSUME status # "Advancing", NEW i \in Slots
                 PROVE  /\ observation(i).match_remaining_ms = duration_ms - observation(i).t_ms
                        /\ Units[i].attacks =>
                             observation(i).self_swing_remaining_ms
                               = states[i].next_swing_ms - observation(i).t_ms
    BY DEF ObservationExact
  <2> DEFINE t == IF status = "Ended" THEN res.end_ms ELSE tick_t
  <2>2. TypeOK /\ SwingTimers /\ status \in {"AwaitingActions", "Ended"}
    BY <1>1, <2>1 DEF TInv, IInv, TypeOK
  <2>3. /\ t \in Nat /\ duration_ms \in Nat /\ states[i].next_swing_ms \in Int
    BY <2>2, TimesAssumption DEF TypeOK, MatchResult, UnitState
  <2>4. /\ t <= duration_ms
        /\ Units[i].attacks => states[i].next_swing_ms >= t /\ states[i].next_swing_ms >= 0
    <3>1. CASE status = "Ended"
      BY <1>1, <2>2, <3>1 DEF TInv, Schedule, EndIsTimely, SwingTimers
    <3>2. CASE status = "AwaitingActions"
      <4>1. t = now
        BY <1>1, <3>2 DEF TInv, IInv, AwaitsNow
      <4>2. t <= duration_ms
        BY <1>1, <3>2, <4>1, HandledInTime
      <4>3. Units[i].attacks => states[i].next_swing_ms >= t
        BY <1>1, <2>3, <3>2, <4>1, SwingsAhead DEF TInv
      <4>4. QED
        BY <2>2, <4>2, <4>3 DEF SwingTimers
    <3>3. QED
      BY <2>2, <3>1, <3>2
  <2>5. observation(i) = build_observation(Units[i], states[i], Units[Enemy(i)],
                                           states[Enemy(i)], t, duration_ms)
    BY DEF observation, observe
  <2> HIDE DEF t
  <2>6. QED
    BY <2>3, <2>4, <2>5 DEF build_observation, clamp0
<1>2. QED
  BY <1>1, ScheduleIsKept, PTL


-----------------------------------------------------------------------------
(* The timeline plays by the same rules.                                   *)

LEMMA SameHits ==
  ASSUME NEW sts, NEW i, NEW h, NEW t
  PROVE  /\ T!UsesHeroicStrike(h) = UsesHeroicStrike(h)
         /\ T!AfterHeroic(sts, i, h, t) = AfterHeroic(sts, i, h, t)
         /\ T!AfterWhite(sts, i, h, t) = AfterWhite(sts, i, h, t)
         /\ T!EndedByDeath(h, t) = EndedByDeath(h, t)
<1>1. T!UsesHeroicStrike(h) = UsesHeroicStrike(h)
  BY DEF T!UsesHeroicStrike, UsesHeroicStrike, T!HS_RAGE_COST_DECI, HS_RAGE_COST_DECI
<1>2. T!AfterHeroic(sts, i, h, t) = AfterHeroic(sts, i, h, t)
  BY DEF T!AfterHeroic, AfterHeroic, T!Swings, Swings, T!Struck, Struck, T!HpAfter, HpAfter,
         T!add_rage_deci, add_rage_deci, T!RAGE_CAP_DECI, RAGE_CAP_DECI, T!Enemy, Enemy,
         T!HS_RAGE_COST_DECI, HS_RAGE_COST_DECI, T!Slots, Slots
<1>3. T!AfterWhite(sts, i, h, t) = AfterWhite(sts, i, h, t)
  BY DEF T!AfterWhite, AfterWhite, T!Swings, Swings, T!Struck, Struck, T!HpAfter, HpAfter,
         T!add_rage_deci, add_rage_deci, T!RAGE_CAP_DECI, RAGE_CAP_DECI, T!Enemy, Enemy,
         T!Slots, Slots, T!IsHastened, IsHastened, T!HastenedSwing, HastenedSwing,
         T!parry_hastened_remaining, parry_hastened_remaining
<1>4. T!EndedByDeath(h, t) = EndedByDeath(h, t)
  BY DEF T!EndedByDeath, EndedByDeath
<1>5. QED
  BY <1>1, <1>2, <1>3, <1>4

LEMMA SameActions ==
  ASSUME NEW sts, NEW m, NEW i, NEW a, NEW y, NEW t
  PROVE  /\ T!apply_action(m, i, a, t, y) = apply_action(m, i, a, t, y)
         /\ T!Choices(sts, i, t) = Choices(sts, i, t)
<1>1. \A s : T!Legal(s, i, t) = Legal(s, i, t) /\ T!observe(s, i, t) = observe(s, i, t)
  BY DEF T!Legal, Legal, T!observe, observe, T!build_observation, build_observation,
         T!clamp0, clamp0, T!Enemy, Enemy, T!legal_action_mask, legal_action_mask,
         T!MS_RAGE_COST_DECI, MS_RAGE_COST_DECI
<1>2. \A s : T!Performed(s, i, a, t, y) = Performed(s, i, a, t, y)
  BY DEF T!Performed, Performed, T!cast_mortal_strike, cast_mortal_strike,
         T!MS_RAGE_COST_DECI, MS_RAGE_COST_DECI, T!MS_COOLDOWN_MS, MS_COOLDOWN_MS,
         T!GCD_MS, GCD_MS, T!Enemy, Enemy, T!Slots, Slots, T!Struck, Struck, T!HpAfter, HpAfter,
         T!add_rage_deci, add_rage_deci, T!RAGE_CAP_DECI, RAGE_CAP_DECI
<1>3. \A r : T!Counted(r, a) = Counted(r, a)
  BY DEF T!Counted, Counted
<1>4. T!apply_action(m, i, a, t, y) = apply_action(m, i, a, t, y)
  BY <1>1, <1>2, <1>3 DEF T!apply_action, apply_action
<1>5. \A thr, o : T!scripted_decide(thr, o) = scripted_decide(thr, o)
  BY DEF T!scripted_decide, scripted_decide, T!legal_action_mask, legal_action_mask,
         T!MS_RAGE_COST_DECI, MS_RAGE_COST_DECI
<1>6. T!Choices(sts, i, t) = Choices(sts, i, t)
  BY <1>1, <1>5 DEF T!Choices, Choices, T!Action, Action
<1>7. QED
  BY <1>4, <1>6


-----------------------------------------------------------------------------
(* What is due is queued.                                                  *)

due(t, kind, unit) == [time |-> t, kind |-> kind, unit |-> unit]

\* The members of the timeline's set of what is due.
LEMMA DueIs ==
  ASSUME NEW d
  PROVE  d \in T!Due <=>
           \/ d = due(duration_ms, MatchEnd, 0)
           \/ second \in 0..duration_ms /\ d = due(second, Checkpoint, 0)
           \/ run_ticks /\ next_tick \in 0..duration_ms - 1 /\ d = due(next_tick, Decide, 0)
           \/ \E i \in Slots : Units[i].attacks /\ d = due(states[i].next_swing_ms, Swing, i)
<1>1. T!run_ticks = run_ticks /\ T!Slots = Slots
  BY DEF T!run_ticks, run_ticks, T!Slots, Slots
<1> DEFINE ticks == IF run_ticks THEN {next_tick} \cap 0..duration_ms - 1 ELSE {}
<1>2. d \in T!Due <=>
        \/ d = due(duration_ms, MatchEnd, 0)
        \/ d \in {due(t, Checkpoint, 0) : t \in {second} \cap 0..duration_ms}
        \/ d \in {due(t, Decide, 0) : t \in ticks}
        \/ d \in {due(states[i].next_swing_ms, Swing, i) : i \in {j \in Slots : Units[j].attacks}}
  BY <1>1 DEF T!Due, due, second
<1> HIDE DEF due, second, next_tick, Slots
<1>3. d \in {due(t, Checkpoint, 0) : t \in {second} \cap 0..duration_ms}
        <=> second \in 0..duration_ms /\ d = due(second, Checkpoint, 0)
  OBVIOUS
<1>4. d \in {due(t, Decide, 0) : t \in ticks}
        <=> run_ticks /\ next_tick \in 0..duration_ms - 1 /\ d = due(next_tick, Decide, 0)
  OBVIOUS
<1>5. d \in {due(states[i].next_swing_ms, Swing, i) : i \in {j \in Slots : Units[j].attacks}}
        <=> \E i \in Slots : Units[i].attacks /\ d = due(states[i].next_swing_ms, Swing, i)
  OBVIOUS
<1>6. QED
  BY <1>2, <1>3, <1>4, <1>5

\* Everything the timeline says is due has an event in the queue.
LEMMA DueIsQueued ==
  ASSUME TInv(run_ticks), status = "Advancing", NEW d \in T!Due
  PROVE  \E o \in queue.heap : d = due(o.time_ms, o.kind, o.source_id)
<1>1. EndQueued /\ SecondQueued /\ TickQueued(run_ticks) /\ NoLostSwing /\ tick_t \in Nat
  BY DEF TInv, Schedule, IInv, TypeOK
<1>2. CASE d = due(duration_ms, MatchEnd, 0)
  BY <1>1, <1>2 DEF EndQueued, OfTheMatch, Queued
<1>3. CASE second \in 0..duration_ms /\ d = due(second, Checkpoint, 0)
  <2>1. PICK o \in Queued(queue, Checkpoint) : o.time_ms = second /\ o.source_id = 0
    BY <1>1, <1>3 DEF SecondQueued, OfTheMatch
  <2>2. QED
    BY <1>3, <2>1 DEF Queued
<1>4. CASE run_ticks /\ next_tick \in 0..duration_ms - 1 /\ d = due(next_tick, Decide, 0)
  <2>1. Queued(queue, Decide) # {}
    <3>1. SUFFICES ASSUME Queued(queue, Decide) = {} PROVE FALSE
      OBVIOUS
    <3>2. next_tick = tick_t + decision_tick_ms /\ next_tick >= duration_ms
      BY <1>1, <1>4, <3>1 DEF next_tick, TickQueued
    <3>3. QED
      BY <1>4, <3>2, TimesAssumption
  <2>2. PICK o \in Queued(queue, Decide) : next_tick = o.time_ms
    BY <2>1 DEF next_tick
  <2>3. o.source_id = 0
    BY <1>1 DEF TickQueued, OfTheMatch
  <2>4. QED
    BY <1>4, <2>2, <2>3 DEF Queued
<1>5. CASE \E i \in Slots : Units[i].attacks /\ d = due(states[i].next_swing_ms, Swing, i)
  <2>1. PICK i \in Slots : Units[i].attacks /\ d = due(states[i].next_swing_ms, Swing, i)
    BY <1>5
  <2>2. PICK o \in Queued(queue, Swing) : o.source_id = i /\ o.time_ms = states[i].next_swing_ms
    BY <1>1, <2>1 DEF NoLostSwing
  <2>3. QED
    BY <2>1, <2>2 DEF Queued
<1>6. QED
  BY <1>2, <1>3, <1>4, <1>5, DueIs

\* So the event popped, if it is due at all, is due before everything else.
LEMMA TopHappens ==
  ASSUME TInv(run_ticks), status = "Advancing", NEW e \in queue.heap, IsTop(queue, e),
         due(e.time_ms, e.kind, e.source_id) \in T!Due
  PROVE  T!Happens(due(e.time_ms, e.kind, e.source_id), e.kind)
<1> DEFINE d == due(e.time_ms, e.kind, e.source_id)
<1>1. ASSUME NEW o \in T!Due \ {d}
      PROVE  \/ d.time < o.time
             \/ d.time = o.time /\ d.kind < o.kind
             \/ d.time = o.time /\ d.kind = o.kind /\ d.unit < o.unit
  <2>1. PICK f \in queue.heap : o = due(f.time_ms, f.kind, f.source_id)
    BY <1>1, DueIsQueued
  <2>2. event_before(e, f)
    BY <1>1, <2>1 DEF IsTop
  <2>3. ~(e.time_ms = f.time_ms /\ e.kind = f.kind /\ e.source_id = f.source_id)
    BY <1>1, <2>1
  <2>4. /\ d.time = e.time_ms /\ d.kind = e.kind /\ d.unit = e.source_id
        /\ o.time = f.time_ms /\ o.kind = f.kind /\ o.unit = f.source_id
    BY <2>1 DEF due
  <2> HIDE DEF d
  <2>5. QED
    BY <2>2, <2>3, <2>4 DEF event_before
<1>2. d.kind = e.kind
  BY DEF due
<1> HIDE DEF d
<1>3. QED
  BY <1>1, <1>2 DEF T!Happens, T!IsFirst, d

-----------------------------------------------------------------------------
(* Every step of the engine is a step of the timeline, or none.            *)

LEMMA SameTick ==
  ASSUME Queued(queue', Decide) = Queued(queue, Decide), UNCHANGED tick_t
  PROVE  UNCHANGED next_tick
  BY DEF next_tick

LEMMA CheckpointMaps ==
  ASSUME TInv(run_ticks), NEW e \in queue.heap, CheckpointEvent(e)
  PROVE  T!Next
<1> DEFINE d == due(e.time_ms, Checkpoint, 0)
<1>1. /\ status = "Advancing" /\ IsTop(queue, e) /\ e.kind = Checkpoint
      /\ res' = [res EXCEPT !.checkpoints = @ + 1] /\ UNCHANGED <<states, status, tick_t>>
      /\ queue' = rearm_checkpoint(pop(queue, e), e.time_ms)
      /\ queue \in QueueType
  BY DEF CheckpointEvent, Pops, TInv, IInv, TypeOK, QueueType
<1>2. e.source_id = 0 /\ e.time_ms = second /\ second <= duration_ms /\ e.time_ms \in Nat
  BY <1>1 DEF TInv, IInv, TypeOK, Event, Schedule, SecondQueued, OfTheMatch, Queued
<1>3. d \in T!Due
  BY <1>2, DueIs, TimesAssumption
<1>4. T!Happens(d, Checkpoint)
  BY <1>1, <1>2, <1>3, TopHappens
<1>5. Queued(queue', Decide) = Queued(queue, Decide)
  BY <1>1 DEF rearm_checkpoint, pop, push, Queued, QueueType, Decide, Checkpoint
<1>6. UNCHANGED next_tick
  BY <1>1, <1>5, SameTick
<1> HIDE DEF d
<1>7. T!TakeCheckpoint(d)
  BY <1>1, <1>4, <1>6 DEF T!TakeCheckpoint
<1>8. QED
  BY <1>3, <1>7 DEF T!Next

LEMMA EndMaps ==
  ASSUME TInv(run_ticks), NEW e \in queue.heap, MatchEndEvent(e)
  PROVE  T!Next
<1> DEFINE d == due(e.time_ms, MatchEnd, 0)
<1>1. /\ status = "Advancing" /\ IsTop(queue, e) /\ e.kind = MatchEnd
      /\ res' = [res EXCEPT !.end_ms = e.time_ms, !.end_reason = "duration"]
      /\ status' = "Ended" /\ UNCHANGED <<states, tick_t>>
      /\ queue' = pop(queue, e) /\ queue \in QueueType
  BY DEF MatchEndEvent, Pops, TInv, IInv, TypeOK, QueueType
<1>2. e.source_id = 0 /\ e.time_ms = duration_ms
  BY <1>1 DEF TInv, Schedule, EndQueued, OfTheMatch, Queued
<1>3. d \in T!Due
  BY <1>2, DueIs
<1>4. T!Happens(d, MatchEnd) /\ d.time = e.time_ms
  BY <1>1, <1>2, <1>3, TopHappens DEF due
<1>5. Queued(queue', Decide) = Queued(queue, Decide)
  BY <1>1 DEF pop, Queued, QueueType, Decide, MatchEnd
<1>6. UNCHANGED next_tick
  BY <1>1, <1>5, SameTick
<1> HIDE DEF d
<1>7. T!TimeOut(d)
  BY <1>1, <1>4, <1>6 DEF T!TimeOut
<1>8. QED
  BY <1>3, <1>7 DEF T!Next

LEMMA DecideMaps ==
  ASSUME TInv(run_ticks), NEW e \in queue.heap, DecideEvent(e)
  PROVE  T!Next
<1> DEFINE d == due(e.time_ms, Decide, 0)
<1>1. /\ status = "Advancing" /\ IsTop(queue, e) /\ e.kind = Decide
      /\ tick_t' = e.time_ms /\ status' = "AwaitingActions" /\ UNCHANGED <<states, res>>
      /\ queue' = pop(queue, e) /\ queue \in QueueType
  BY DEF DecideEvent, Pops, TInv, IInv, TypeOK, QueueType
<1>2. Queued(queue, Decide) = {e} /\ Queued(queue', Decide) = {}
  BY DecideSchedule
<1>3. next_tick = e.time_ms /\ next_tick' = e.time_ms + decision_tick_ms
  <2>1. (CHOOSE o \in {e} : TRUE) = e
    OBVIOUS
  <2>2. QED
    BY <1>1, <1>2, <2>1 DEF next_tick
<1>4. e.source_id = 0 /\ run_ticks /\ e.time_ms \in 0..duration_ms - 1
  BY <1>1, TimesAssumption DEF TInv, IInv, TypeOK, Event, Schedule, TickQueued, OfTheMatch, Queued
<1>5. d \in T!Due
  BY <1>3, <1>4, DueIs
<1>6. T!Happens(d, Decide) /\ d.time = e.time_ms
  BY <1>1, <1>4, <1>5, TopHappens DEF due
<1> HIDE DEF d
<1>7. T!OfferTick(d)
  BY <1>1, <1>3, <1>6 DEF T!OfferTick
<1>8. QED
  BY <1>5, <1>7 DEF T!Next

LEMMA StaleMaps ==
  ASSUME TInv(run_ticks), NEW e \in Queued(queue, Swing), StaleSwing(e)
  PROVE  UNCHANGED T!vars
<1>1. Queued(queue', Decide) = Queued(queue, Decide) /\ UNCHANGED <<states, res, status, tick_t>>
  BY StaleSchedule DEF StaleSwing, Kind, Decide, Swing
<1>2. QED
  BY <1>1, SameTick DEF T!vars

\* A live swing is what is due first, and only its target can be dead after it.
LEMMA LandsMaps ==
  ASSUME TInv(run_ticks), NEW e \in Queued(queue, Swing), Lands(e),
         NEW sts \in [Slots -> UnitState], NEW counted, NEW q,
         states' = sts, UNCHANGED tick_t, FinishSwing(e, sts, q, counted),
         sts[e.source_id].hp = states[e.source_id].hp,
         Queued(q, Decide) = Queued(queue, Decide)
  PROVE  LET d == due(e.time_ms, Swing, e.source_id)
         IN  /\ d \in T!Due
             /\ T!Happens(d, Swing)
             /\ T!Settles(sts, counted, e.time_ms, "Advancing")
             /\ UNCHANGED <<tick_t, next_tick>>
<1> DEFINE i == e.source_id
           d == due(e.time_ms, Swing, i)
<1>1. /\ e \in queue.heap /\ e.kind = Swing /\ status = "Advancing" /\ IsTop(queue, e)
      /\ e.time_ms = states[i].next_swing_ms
  BY DEF Lands, Pops, IsStale, Queued
<1>2. /\ i \in Slots /\ Units[i].attacks /\ e.target_id = Enemy(i)
      /\ Enemy(i) \in Slots /\ \A k \in Slots : k = i \/ k = Enemy(i)
  BY EnemyIsOther DEF TInv, IInv, SwingEvents
<1>3. d \in T!Due
  BY <1>1, <1>2, DueIs
<1>4. T!Happens(d, Swing)
  BY <1>1, <1>3, TopHappens
<1>5. T!Settles(sts, counted, e.time_ms, "Advancing")
  <2>1. states[i].hp > 0
    BY <1>1, <1>2 DEF TInv, IInv, TypeOK, UnitState, DeathEndsMatch
  <2>2. (\E k \in Slots : sts[k].hp = 0) <=> sts[e.target_id].hp = 0
    BY <1>2, <2>1
  <2>3. T!Slots = Slots /\ T!EndedByDeath(counted, e.time_ms) = EndedByDeath(counted, e.time_ms)
    BY SameHits DEF T!Slots, Slots
  <2>4. QED
    BY <1>1, <2>2, <2>3 DEF T!Settles, FinishSwing
<1>6. Queued(queue', Decide) = Queued(queue, Decide)
  <2>1. CASE queue' = q
    BY <2>1
  <2>2. CASE queue' = push(q, sts[i].next_swing_ms, Swing, i, e.target_id)
    BY <2>2 DEF push, Queued, Decide, Swing
  <2>3. QED
    BY <2>1, <2>2 DEF FinishSwing
<1>7. QED
  BY <1>3, <1>4, <1>5, <1>6, SameTick

LEMMA HeroicMaps ==
  ASSUME TInv(run_ticks), NEW e \in Queued(queue, Swing), NEW y \in HeroicResults[e.source_id],
         HeroicSwing(e, y)
  PROVE  T!Next
<1> DEFINE i       == e.source_id
           sts     == AfterHeroic(states, i, y, e.time_ms)
           counted == [res EXCEPT !.abilities = @ + 1]
           d       == due(e.time_ms, Swing, i)
<1>1. /\ i \in Slots /\ e.time_ms \in Nat /\ states \in [Slots -> UnitState]
      /\ queue \in QueueType /\ e.kind = Swing
  BY SwingOfAnAttacker DEF TInv, IInv, TypeOK, QueueType, Queued
<1>2. y \in YellowResult
  BY <1>1, ResultsAssumption
<1>3. /\ Lands(e) /\ UsesHeroicStrike(states[i]) /\ states' = sts /\ UNCHANGED tick_t
      /\ FinishSwing(e, sts, pop(queue, e), counted)
  BY DEF HeroicSwing
<1>4. sts \in [Slots -> UnitState] /\ sts[i].hp = states[i].hp
  BY <1>1, <1>2, <1>3, AfterHeroicType
<1>5. Queued(pop(queue, e), Decide) = Queued(queue, Decide)
  BY <1>1 DEF pop, QueueType, Queued, Swing, Decide
<1>6. /\ d.unit = i /\ d.time = e.time_ms
      /\ T!UsesHeroicStrike(states[i]) = UsesHeroicStrike(states[i])
      /\ T!AfterHeroic(states, i, y, e.time_ms) = sts
  BY SameHits DEF due
<1> HIDE DEF sts, counted
<1>7. /\ d \in T!Due /\ T!Happens(d, Swing)
      /\ T!Settles(sts, counted, e.time_ms, "Advancing")
      /\ UNCHANGED <<tick_t, next_tick>>
  BY <1>3, <1>4, <1>5, LandsMaps
<1> HIDE DEF d
<1>8. T!Attack(d)
  BY <1>3, <1>6, <1>7 DEF T!Attack, counted
<1>9. QED
  BY <1>7, <1>8 DEF T!Next

LEMMA WhiteMaps ==
  ASSUME TInv(run_ticks), NEW e \in Queued(queue, Swing), NEW w \in WhiteResults[e.source_id],
         WhiteSwing(e, w)
  PROVE  T!Next
<1> DEFINE i       == e.source_id
           sts     == AfterWhite(states, i, w, e.time_ms)
           counted == [res EXCEPT !.swings = @ + 1]
           q       == push_hastened(pop(queue, e), e.target_id, w.outcome, e.time_ms)
           d       == due(e.time_ms, Swing, i)
<1>1. /\ i \in Slots /\ e.time_ms \in Nat /\ states \in [Slots -> UnitState]
      /\ queue \in QueueType /\ e.kind = Swing
  BY SwingOfAnAttacker DEF TInv, IInv, TypeOK, QueueType, Queued
<1>2. w \in SwingResult
  BY <1>1, ResultsAssumption
<1>3. /\ Lands(e) /\ ~UsesHeroicStrike(states[i]) /\ states' = sts /\ UNCHANGED tick_t
      /\ FinishSwing(e, sts, q, counted)
  BY DEF WhiteSwing
<1>4. sts \in [Slots -> UnitState] /\ sts[i].hp = states[i].hp
  BY <1>1, <1>2, AfterWhiteType
<1>5. Queued(q, Decide) = Queued(queue, Decide)
  <2>1. Queued(pop(queue, e), Decide) = Queued(queue, Decide)
    BY <1>1 DEF pop, QueueType, Queued, Swing, Decide
  <2>2. QED
    BY <2>1 DEF push_hastened, push, Queued, Swing, Decide
<1>6. /\ d.unit = i /\ d.time = e.time_ms
      /\ T!UsesHeroicStrike(states[i]) = UsesHeroicStrike(states[i])
      /\ T!AfterWhite(states, i, w, e.time_ms) = sts
  BY SameHits DEF due
<1> HIDE DEF sts, counted, q
<1>7. /\ d \in T!Due /\ T!Happens(d, Swing)
      /\ T!Settles(sts, counted, e.time_ms, "Advancing")
      /\ UNCHANGED <<tick_t, next_tick>>
  BY <1>3, <1>4, <1>5, LandsMaps
<1> HIDE DEF d
<1>8. T!Attack(d)
  BY <1>3, <1>6, <1>7 DEF T!Attack, counted
<1>9. QED
  BY <1>7, <1>8 DEF T!Next

LEMMA DriverMaps ==
  ASSUME TInv(run_ticks), NEW a1 \in Choices(states, 1, tick_t), NEW a2 \in Choices(states, 2, tick_t),
         NEW y \in Casts, Step(<<a1, a2>>, y)
  PROVE  T!Next
<1> DEFINE m == Outcome(<<a1, a2>>, y)
<1>1. a1 \in Action /\ a2 \in Action
  BY ChoicesAreActions DEF Slots
<1>2. /\ status = "AwaitingActions" /\ UNCHANGED tick_t
      /\ IF \E k \in Slots : m.states[k].hp = 0 THEN EndByDeath(m) ELSE Resume(m)
  BY <1>1, StepOutcome DEF TInv
<1>3. m = LET one == T!apply_action([states |-> states, res |-> res], 1, a1, tick_t, y[1])
          IN  IF one.states[2].hp = 0 THEN one ELSE T!apply_action(one, 2, a2, tick_t, y[2])
  BY SameActions DEF Outcome, First
<1>4. /\ T!Slots = Slots /\ T!Casts = Casts
      /\ a1 \in T!Choices(states, 1, tick_t) /\ a2 \in T!Choices(states, 2, tick_t)
      /\ T!EndedByDeath(m.res, tick_t) = EndedByDeath(m.res, tick_t)
  BY SameActions, SameHits DEF T!Slots, Slots, T!Casts, Casts
<1> HIDE DEF m
<1>5. T!Settles(m.states, m.res, tick_t, "Advancing")
  BY <1>2, <1>4 DEF T!Settles, EndByDeath, Resume
<1>6. next_tick = tick_t + decision_tick_ms /\ next_tick' = tick_t + decision_tick_ms
  <2>1. /\ Queued(queue, Decide) = {} /\ queue \in QueueType
        /\ tick_t + decision_tick_ms \in Nat
    BY <1>2, TimesAssumption DEF TInv, Schedule, TickQueued, IInv, TypeOK, QueueType
  <2>2. next_tick = tick_t + decision_tick_ms
    BY <2>1 DEF next_tick
  <2>3. CASE Queued(queue', Decide) = {}
    BY <1>2, <2>2, <2>3 DEF next_tick
  <2>4. CASE queue' = push(queue, tick_t + decision_tick_ms, Decide, 0, 0)
    <3>1. /\ Queued(queue', Decide) # {}
          /\ \A o \in Queued(queue', Decide) : o.time_ms = tick_t + decision_tick_ms
      BY <2>1, <2>4, FirstOfChain DEF Kind
    <3>2. QED
      BY <2>2, <3>1 DEF next_tick
  <2>5. queue' = queue \/ queue' = push(queue, tick_t + decision_tick_ms, Decide, 0, 0)
    BY <1>2 DEF EndByDeath, Resume, rearm_decide
  <2>6. QED
    BY <2>1, <2>2, <2>3, <2>4, <2>5
<1>7. T!Act
  BY <1>2, <1>3, <1>4, <1>5, <1>6 DEF T!Act
<1>8. QED
  BY <1>7 DEF T!Next

LEMMA InitMaps == Init => T!Init
<1>1. SUFFICES ASSUME Init PROVE T!Init
  OBVIOUS
<1>2. T!initial_state(Units[1]) = initial_state(Units[1]) /\ T!NoResult = NoResult
      /\ T!Slots = Slots /\ T!run_ticks = run_ticks
      /\ \A i \in Slots : T!initial_state(Units[i]) = initial_state(Units[i])
  BY DEF T!initial_state, initial_state, T!NoResult, NoResult, T!Slots, Slots, T!run_ticks, run_ticks
<1>3. next_tick = IF run_ticks THEN 0 ELSE decision_tick_ms
  <2>1. /\ tick_t = 0 /\ decision_tick_ms \in Nat
        /\ run_ticks <=> Queued(queue, Decide) # {}
        /\ \A e \in Queued(queue, Decide) : e.time_ms = 0
    BY <1>1, InitSchedule, TimesAssumption DEF Init, Constructed, run_ticks
  <2>2. CASE Queued(queue, Decide) = {}
    BY <2>1, <2>2 DEF next_tick
  <2>3. CASE Queued(queue, Decide) # {}
    BY <2>1, <2>3 DEF next_tick
  <2>4. QED
    BY <2>2, <2>3
<1>4. QED
  BY <1>1, <1>2, <1>3 DEF Init, T!Init


LEMMA StepMaps == TInv(run_ticks) /\ [Next]_vars => [T!Next]_(T!vars)
<1>1. SUFFICES ASSUME TInv(run_ticks), [Next]_vars PROVE [T!Next]_(T!vars)
  OBVIOUS
<1>2. CASE UNCHANGED vars
  BY <1>2 DEF vars, T!vars, next_tick, Queued
<1>3. CASE Advance
  <2>1. ASSUME NEW e \in queue.heap, CheckpointEvent(e) \/ MatchEndEvent(e) \/ DecideEvent(e)
        PROVE  T!Next
    BY <1>1, <2>1, CheckpointMaps, EndMaps, DecideMaps
  <2>2. ASSUME NEW e \in Queued(queue, Swing), StaleSwing(e) PROVE UNCHANGED T!vars
    BY <1>1, <2>2, StaleMaps
  <2>3. ASSUME NEW e \in Queued(queue, Swing), NEW y \in HeroicResults[e.source_id],
               HeroicSwing(e, y)
        PROVE  T!Next
    BY <1>1, <2>3, HeroicMaps
  <2>4. ASSUME NEW e \in Queued(queue, Swing), NEW w \in WhiteResults[e.source_id],
               WhiteSwing(e, w)
        PROVE  T!Next
    BY <1>1, <2>4, WhiteMaps
  <2>5. QED
    BY <1>3, <2>1, <2>2, <2>3, <2>4 DEF Advance
<1>4. CASE Driver
  BY <1>1, <1>4, DriverMaps DEF Driver
<1>5. CASE StepAfterEnd
  BY <1>2, <1>5 DEF StepAfterEnd
<1>6. QED
  BY <1>1, <1>2, <1>3, <1>4, <1>5 DEF Next

\* The engine implements the timeline: with its queue, its superseded events
\* and its re-armed chains it does what is due first, at the time it is due,
\* and nothing else (match.h:286-405).
THEOREM EngineImplementsTimeline == Spec => ImplementsTimeline
<1>1. Init => T!Init
  BY InitMaps
<1>2. TInv(run_ticks) /\ [Next]_vars => [T!Next]_(T!vars)
  BY StepMaps
<1>3. QED
  BY <1>1, <1>2, ScheduleIsKept, PTL DEF Spec, ImplementsTimeline, T!Spec
=============================================================================
