------------------------------ MODULE Timeline ------------------------------
(***************************************************************************)
(* What the match engine promises, without its queue: at every moment the  *)
(* next thing to happen is the one that is due first, read off the state   *)
(* of the match itself.  A unit swings exactly at its ready-at, a parry    *)
(* moves the ready-at, checkpoints and ticks fall on their grids, and the  *)
(* match ends at its duration or at the first death.                       *)
(*                                                                         *)
(* MatchEngine implements this with a queue of events, some of which have  *)
(* been superseded by the time they are popped (module MatchTimeline).     *)
(***************************************************************************)
EXTENDS DuelRules

CONSTANTS CHECKPOINT_INTERVAL_MS, Checkpoint, MatchEnd, Decide, Swing

VARIABLES
  states,     \* the two units
  res,        \* the counters of the match
  status,     \* "Advancing", "AwaitingActions" or "Ended"
  tick_t,     \* the decision tick the driver is asked about
  next_tick   \* the decision tick after that

vars == <<states, res, status, tick_t, next_tick>>

Init ==
  /\ states = [i \in Slots |-> initial_state(Units[i])]
  /\ res = NoResult
  /\ status = "Advancing"
  /\ tick_t = 0
  /\ next_tick = IF run_ticks THEN 0 ELSE decision_tick_ms

\* Everything that is due, now or later; unit 0 stands for the match.
Due ==
  LET due(t, kind, unit) == [time |-> t, kind |-> kind, unit |-> unit]
      second == (res.checkpoints + 1) * CHECKPOINT_INTERVAL_MS
  IN  {due(duration_ms, MatchEnd, 0)}
      \cup {due(t, Checkpoint, 0) : t \in {second} \cap 0..duration_ms}
      \cup {due(t, Decide, 0) : t \in IF run_ticks THEN {next_tick} \cap 0..duration_ms - 1 ELSE {}}
      \cup {due(states[i].next_swing_ms, Swing, i) : i \in {j \in Slots : Units[j].attacks}}

\* d is due before everything else: earlier, or at the same time of a kind
\* with priority, or of the same kind for the unit with the smaller id.
IsFirst(d) ==
  \A o \in Due \ {d} :
    \/ d.time < o.time
    \/ d.time = o.time /\ d.kind < o.kind
    \/ d.time = o.time /\ d.kind = o.kind /\ d.unit < o.unit

Happens(d, kind) == status = "Advancing" /\ d.kind = kind /\ IsFirst(d)

TakeCheckpoint(d) ==
  /\ Happens(d, Checkpoint)
  /\ res' = [res EXCEPT !.checkpoints = @ + 1]
  /\ UNCHANGED <<states, status, tick_t, next_tick>>

TimeOut(d) ==
  /\ Happens(d, MatchEnd)
  /\ res' = [res EXCEPT !.end_ms = d.time, !.end_reason = "duration"]
  /\ status' = "Ended"
  /\ UNCHANGED <<states, tick_t, next_tick>>

OfferTick(d) ==
  /\ Happens(d, Decide)
  /\ status' = "AwaitingActions"
  /\ tick_t' = d.time
  /\ next_tick' = d.time + decision_tick_ms
  /\ UNCHANGED <<states, res>>

\* The match with units sts and counters r at time t: over if a unit is dead.
Settles(sts, r, t, goes_on) ==
  /\ states' = sts
  /\ IF \E i \in Slots : sts[i].hp = 0
     THEN res' = EndedByDeath(r, t) /\ status' = "Ended"
     ELSE res' = r /\ status' = goes_on

Attack(d) ==
  /\ Happens(d, Swing)
  /\ IF UsesHeroicStrike(states[d.unit])
     THEN \E y \in HeroicResults[d.unit] :
            Settles(AfterHeroic(states, d.unit, y, d.time),
                    [res EXCEPT !.abilities = @ + 1], d.time, "Advancing")
     ELSE \E w \in WhiteResults[d.unit] :
            Settles(AfterWhite(states, d.unit, w, d.time),
                    [res EXCEPT !.swings = @ + 1], d.time, "Advancing")
  /\ UNCHANGED <<tick_t, next_tick>>

\* Both units act, the one with the smaller id first; the other one only if it
\* is still alive.
Act ==
  /\ status = "AwaitingActions"
  /\ \E a1 \in Choices(states, 1, tick_t), a2 \in Choices(states, 2, tick_t), y \in Casts :
       LET one == apply_action([states |-> states, res |-> res], 1, a1, tick_t, y[1])
           two == IF one.states[2].hp = 0 THEN one
                  ELSE apply_action(one, 2, a2, tick_t, y[2])
       IN  Settles(two.states, two.res, tick_t, "Advancing")
  /\ UNCHANGED <<tick_t, next_tick>>

Next ==
  \/ \E d \in Due : TakeCheckpoint(d) \/ TimeOut(d) \/ OfferTick(d) \/ Attack(d)
  \/ Act

Spec == Init /\ [][Next]_vars
=============================================================================
