------------------------------ MODULE TraceSink ------------------------------
(***************************************************************************)
(* The match engine with its sink and its keyed dice: what one run writes, *)
(* line by line, and why a second run with the same seed throws the same   *)
(* dice (src/sim/mechanics/match.h, trace_sink.h, src/sim/core/trace.cpp,  *)
(* rng.h).                                                                 *)
(*                                                                         *)
(* A trace line keeps its type and the fields that the verifier reads or   *)
(* that tell one match from another; the state hash of a checkpoint is the *)
(* state itself.                                                           *)
(***************************************************************************)
EXTENDS MatchEngine, Sequences

VARIABLES
  sunk,    \* what the sink of the current run has been given
  thrown,  \* by slot, the hits its dice decided in this run: its RngCursor
  drawn    \* the keyed dice thrown so far, in any run with this seed

sink_vars == <<sunk, thrown, drawn>>

-----------------------------------------------------------------------------
(* Lines.                                                                  *)

HeaderLine     == [type |-> "header", seed |-> "pinned"]
InitLine       == [type |-> "init", hash |-> [i \in Slots |-> initial_state(Units[i])]]
CheckpointLine == [type |-> "checkpoint", t |-> last'.time_ms, hash |-> states]

DecisionLine(i, a) == [type |-> "decision", t |-> tick_t, unit |-> i, action |-> a]

\* Rage and hit points of both units after the hit.
After(sts) == [i \in Slots |-> <<sts[i].hp, sts[i].rage_deci>>]

SwingLine(t, src, w, sts) ==
  [type |-> "swing", t |-> t, src |-> src, outcome |-> w.outcome, damage |-> w.damage,
   after |-> After(sts)]

AbilityLine(t, src, ability, y, sts) ==
  [type |-> "ability", t |-> t, src |-> src, ability |-> ability, damage |-> y.damage,
   after |-> After(sts)]

\* on_end, whatever ended the match.
EndLines ==
  IF status' = "Ended"
  THEN <<[type |-> "end", t |-> res'.end_ms, reason |-> res'.end_reason]>> ELSE <<>>

Sinks(lines) == sunk' = sunk \o lines \o EndLines

-----------------------------------------------------------------------------
(* Dice.                                                                   *)

\* Mutant: the dice are not keyed.
Rolled_Unkeyed(throws) ==
  /\ thrown' = [i \in Slots |->
                  IF i \in DOMAIN throws THEN Append(thrown[i], throws[i].result) ELSE thrown[i]]
  /\ UNCHANGED drawn

\* The slots of DOMAIN throws throw their dice.  Which numbers a hit uses is
\* fixed by the hits of its unit before it, so the same key always gives the
\* same result and a new one any.
Rolled(throws) ==
  LET key(i) == <<i, throws[i].kind, thrown[i]>>
  IN  /\ \A i \in DOMAIN throws : key(i) \in DOMAIN drawn => drawn[key(i)] = throws[i].result
      /\ drawn' = [k \in DOMAIN drawn \cup {key(i) : i \in DOMAIN throws} |->
                     IF k \in DOMAIN drawn THEN drawn[k] ELSE throws[k[1]].result]
      /\ thrown' = [i \in Slots |->
                      IF i \in DOMAIN throws THEN Append(thrown[i], throws[i].result) ELSE thrown[i]]

Throw(kind, result) == [kind |-> kind, result |-> result]

-----------------------------------------------------------------------------
(* The engine's steps with what they write and throw.                      *)

\* A run starts: the sink is empty and the cursors are at the beginning.
SinkInit == sunk = <<>> /\ thrown = [i \in Slots |-> <<>>]

RunsEvent ==
  \/ \E e \in queue.heap :
       \/ CheckpointEvent(e) /\ Sinks(<<CheckpointLine>>) /\ Rolled(<<>>)
       \/ MatchEndEvent(e) /\ Sinks(<<>>) /\ Rolled(<<>>)
       \/ DecideEvent(e) /\ Sinks(<<>>) /\ Rolled(<<>>)
  \/ \E e \in Queued(queue, Swing) :
       LET src == e.source_id
       IN  \/ StaleSwing(e) /\ Sinks(<<>>) /\ Rolled(<<>>)
           \/ \E y \in HeroicResults[src] :
                /\ HeroicSwing(e, y)
                /\ Sinks(<<AbilityLine(e.time_ms, src, "heroic_strike", y, states')>>)
                /\ Rolled([i \in {src} |-> Throw("heroic", y)])
           \/ \E w \in WhiteResults[src] :
                /\ WhiteSwing(e, w)
                /\ Sinks(<<SwingLine(e.time_ms, src, w, states')>>)
                /\ Rolled([i \in {src} |-> Throw("white", w)])

\* Slot i cast, or had an action applied, between the matches m and n.
CastIn(m, n)    == n.res.abilities # m.res.abilities
AppliedIn(m, n) == n.res.decisions # m.res.decisions

\* Mutant: a rejected action is written down like an applied one.
ActionLines_Submitted(m, n, i, a, y) ==
  (IF CastIn(m, n) THEN <<AbilityLine(tick_t, i, "mortal_strike", y, n.states)>> ELSE <<>>)
  \o (IF a # "None" THEN <<DecisionLine(i, a)>> ELSE <<>>)

\* A cast is written before the decision that made it; a rejected action is
\* not written at all.
ActionLines(m, n, i, a, y) ==
  (IF CastIn(m, n) THEN <<AbilityLine(tick_t, i, "mortal_strike", y, n.states)>> ELSE <<>>)
  \o (IF AppliedIn(m, n) THEN <<DecisionLine(i, a)>> ELSE <<>>)

RunsStep(a) ==
  \E y \in Casts :
    LET zero == [states |-> states, res |-> res]
        one  == apply_action(zero, 1, a[1], tick_t, y[1])
        two  == IF one.states[2].hp = 0 THEN one ELSE apply_action(one, 2, a[2], tick_t, y[2])
        cast == {i \in Slots : IF i = 1 THEN CastIn(zero, one) ELSE CastIn(one, two)}
    IN  /\ Step(a, y)
        /\ Sinks(ActionLines(zero, one, 1, a[1], y[1]) \o ActionLines(one, two, 2, a[2], y[2]))
        /\ Rolled([i \in cast |-> Throw("mortal", y[i])])
=============================================================================
