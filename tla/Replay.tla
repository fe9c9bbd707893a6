------------------------------- MODULE Replay -------------------------------
(***************************************************************************)
(* What a recorded trace is good for: verify_trace_file of                 *)
(* src/sim/mechanics/replay.cpp runs the match again with its pinned       *)
(* policies and compares; PlaybackPolicy of src/sim/mechanics/policy.h     *)
(* runs it again with the decisions of the trace.                          *)
(***************************************************************************)
EXTENDS ArenaEnv

S == INSTANCE SequencesExt

CONSTANT Uses  \* what the trace is used for: a subset of {"verify", "playback"}

ASSUME UsesAssumption == Uses \subseteq {"verify", "playback"}

\* The policies are those of a scenario, and load_scenario takes no others
\* (scenario.cpp:126-132); an external driver takes their place in EnvStep.
ASSUME PinnedAssumption == \A i \in Slots : Policies[i] \in {"idle", "scripted"}

VARIABLES
  use,     \* what it is used for
  verdict  \* the error of verify_trace_file, "" when it is ok

replay_vars == <<use, verdict>>
all_vars == <<vars, sink_vars, env_vars, replay_vars>>

ReplayInit == EnvInit /\ use \in Uses /\ verdict = "none"

-----------------------------------------------------------------------------
(* Opening the trace.                                                      *)

\* Where the lines of a type stand, what they say, and how many they are.
At(seq, type)      == {k \in DOMAIN seq : seq[k].type = type}
LinesOf(seq, type) == {seq[k] : k \in At(seq, type)}
Count(seq, type)   == Cardinality(At(seq, type))

\* A header that lost its fields is malformed.
HeaderError(f) ==
  CASE f = <<>> -> "empty trace"
    [] f # <<>> /\ f[1] # HeaderLine -> "malformed header line"
    [] OTHER -> ""

\* The second run starts: a new engine for the scenario and seed of the header.
Rerun(ticks) ==
  /\ queue' = initial_queue(ticks)
  /\ states' = [i \in Slots |-> initial_state(Units[i])]
  /\ res' = NoResult
  /\ status' = "Advancing"
  /\ tick_t' = 0
  /\ last' = [time_ms |-> 0, kind |-> Checkpoint, source_id |-> 0, target_id |-> 0, seq |-> -1]
  /\ swung' = [i \in Slots |-> -1]
  /\ sunk' = <<>>
  /\ thrown' = [i \in Slots |-> <<>>]
  /\ UNCHANGED drawn

OpenTrace ==
  /\ phase \in {"closed", "killed"} /\ use = "verify"
  /\ IF HeaderError(file) # ""
     THEN /\ verdict' = HeaderError(file)
          /\ phase' = "done"
          /\ UNCHANGED <<vars, sink_vars>>
     ELSE /\ Rerun(run_ticks)
          /\ phase' = "rerunning"
          /\ UNCHANGED verdict
  /\ UNCHANGED <<recorder, file, use>>

\* A driver plays back a match that was recorded to its end.
OpenPlayback ==
  /\ phase = "closed" /\ use = "playback" /\ status = "Ended"
  /\ Rerun(TRUE)
  /\ phase' = "rerunning"
  /\ UNCHANGED <<recorder, file, use, verdict>>

-----------------------------------------------------------------------------
(* The second run.                                                         *)

\* PlaybackPolicy::decide on the script of the trace's decisions of unit i.
playback_decide(i, t) ==
  LET script == {l \in LinesOf(file, "decision") : l.unit = i}
  IN  IF \E l \in script : l.t = t THEN (CHOOSE l \in script : l.t = t).action ELSE "None"

Decided(i) == IF use = "verify" THEN Choices(states, i, tick_t) ELSE {playback_decide(i, tick_t)}

RerunEvent == phase = "rerunning" /\ RunsEvent /\ UNCHANGED <<env_vars, replay_vars>>

RerunStep ==
  /\ phase = "rerunning"
  /\ \E a1 \in Decided(1), a2 \in Decided(2) : RunsStep(<<a1, a2>>)
  /\ UNCHANGED <<env_vars, replay_vars>>

-----------------------------------------------------------------------------
(* The comparison.                                                         *)

\* Line k is the n-th of its type (next_checkpoint counts them as they are read).
Ordinal(seq, k) == Cardinality({j \in At(seq, seq[k].type) : j <= k})

\* What the loop over the lines finds wrong with line k; "" if it reads on.
LineError(k) ==
  LET line   == file[k]
      intact == DOMAIN line # {"type"}
      resim  == {j \in At(sunk, "checkpoint") : Ordinal(sunk, j) = Ordinal(file, k)}
  IN  CASE line.type = "garbled" -> "malformed trace line"
        [] line.type \in {"init", "checkpoint", "end"} /\ ~intact -> "malformed line"
        [] line.type = "init" /\ intact ->
             IF line = InitLine THEN "" ELSE "init state hash mismatch"
        [] line.type = "checkpoint" /\ intact ->
             IF resim = {} THEN "extra checkpoint"
             ELSE IF \A j \in resim : sunk[j] = line THEN "" ELSE "checkpoint mismatch"
        [] line.type = "end" /\ intact ->
             IF line.t = res.end_ms /\ line.reason = res.end_reason THEN "" ELSE "end mismatch"
        [] OTHER -> ""

BadLines == {k \in 2..Len(file) : LineError(k) # ""}

FirstError == LineError(CHOOSE k \in BadLines : \A j \in BadLines : k <= j)

\* Mutant: a trace that just stops is compared as far as it goes.
Verdict_EndOptional ==
  IF BadLines # {} THEN FirstError
  ELSE IF Count(file, "swing") # Count(sunk, "swing") THEN "swings" ELSE ""

\* The first error stands; a file without one is held against the second run.
Verdict ==
  CASE BadLines # {} -> FirstError
    [] BadLines = {} /\ At(file, "end") = {} -> "trace has no end line"
    [] BadLines = {} /\ At(file, "end") # {} ->
         IF \A type \in {"checkpoint", "swing", "ability", "decision"} :
              Count(file, type) = Count(sunk, type)
         THEN "" ELSE "counts differ"

Conclude ==
  /\ phase = "rerunning" /\ status = "Ended"
  /\ verdict' = IF use = "verify" THEN Verdict ELSE "played"
  /\ phase' = "done"
  /\ UNCHANGED <<vars, sink_vars, recorder, file, use>>

Done ==
  /\ \/ phase = "done"
     \/ phase \in {"closed", "killed"} /\ use = "playback"
  /\ UNCHANGED all_vars

ReplayNext ==
  \/ Records /\ UNCHANGED replay_vars
  \/ OpenTrace
  \/ OpenPlayback
  \/ RerunEvent
  \/ RerunStep
  \/ Conclude
  \/ Done

ReplaySpec == ReplayInit /\ [][ReplayNext]_all_vars

-----------------------------------------------------------------------------
(* Properties.                                                             *)

\* The trace of a match that was recorded to its end.
Whole == file # <<>> /\ LET line == file[Len(file)] IN line.type = "end" /\ DOMAIN line # {"type"}

\* The verifier accepts every whole trace of the pinned policies, and every
\* whole trace of an external driver that made the same decisions: nothing but
\* seed and applied decisions determines a match, whether or not the engine
\* runs a tick chain and whatever was submitted in vain (replay.h:34-38).
NoFalseAlarm ==
  phase = "done" /\ use = "verify" /\ Whole
    /\ (recorder = "arena_run" \/ LinesOf(file, "decision") = LinesOf(sunk, "decision"))
  => verdict = ""

\* The verifier accepts no trace that was cut or belongs to a match that went
\* otherwise: an accepted one has all checkpoints of the second run, its end,
\* and as many swings, abilities and decisions (replay.cpp:158-187).
AcceptedIsWhole ==
  verdict = "" =>
    /\ LinesOf(file, "end") = LinesOf(sunk, "end")
    /\ \A type \in {"checkpoint", "swing", "ability", "decision"} : Count(file, type) = Count(sunk, type)
    /\ \A j \in At(sunk, "checkpoint") : \E k \in At(file, "checkpoint") :
         Ordinal(file, k) = Ordinal(sunk, j) /\ file[k] = sunk[j]

\* docs/observation_action_spec.md: the full action stream is reconstructible
\* from the trace.  A match played back from its decision lines writes the same
\* trace, line by line to the end, and the engine rejects none of the decisions
\* (policy.h:58-68).
PlaybackReproduces ==
  use = "playback" /\ phase \in {"rerunning", "done"} =>
    /\ S!IsPrefix(<<HeaderLine, InitLine>> \o sunk, file)
    /\ phase = "done" => Len(file) = 2 + Len(sunk)
    /\ res.illegal_actions = 0

\* arena_c_api.h:61-62: an environment's trace is replayable by arena_replay.
DrivenTracesReplay ==
  phase = "done" /\ use = "verify" /\ recorder = "env" /\ Whole => verdict = ""
=============================================================================
