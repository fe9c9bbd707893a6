--------------------------- MODULE MatchTimeline ---------------------------
(***************************************************************************)
(* The event queue implements the timeline.  The next tick is the queued   *)
(* Decide event or, once that one was popped, a tick after it; everything  *)
(* else of the timeline is state the engine keeps.  A superseded swing     *)
(* event maps to a stuttering step.                                        *)
(***************************************************************************)
EXTENDS MatchEngine

next_tick ==
  IF Queued(queue, Decide) # {}
  THEN (CHOOSE e \in Queued(queue, Decide) : TRUE).time_ms
  ELSE tick_t + decision_tick_ms

T == INSTANCE Timeline WITH states <- states, res <- res, status <- status, tick_t <- tick_t,
                            next_tick <- next_tick

\* Every run of the engine is a run of the timeline: lazily invalidated events
\* never make a unit swing early, late, twice or not at all, and simultaneous
\* events keep their order (match.h:286-405).
ImplementsTimeline == T!Spec
=============================================================================
