------------------------------ MODULE ArenaEnv ------------------------------
(***************************************************************************)
(* Who records a match: an environment of the C API                        *)
(* (src/sim/env/arena_c_api.cpp, driven through the Python wrapper of      *)
(* src/python/tbc_arena), which may be destroyed at any time, or the       *)
(* arena_run tool, which runs the pinned policies to the end.  Either may  *)
(* be killed, which leaves the part of the file that was already written.  *)
(***************************************************************************)
EXTENDS TraceSink

CONSTANTS
  Recorders,  \* who may record: a subset of {"env", "arena_run"}
  MayKill     \* whether the recorder may be killed

ASSUME RecordersAssumption == Recorders \subseteq {"env", "arena_run"} /\ MayKill \in BOOLEAN

VARIABLES
  recorder,  \* who records
  file,      \* the trace file once nobody writes to it any more
  phase      \* "recording", "closed", "killed" or a phase of Replay

env_vars == <<recorder, file, phase>>

\* An external driver always gets decision ticks, whatever the policies.
enable_ticks(r) == r = "env" \/ run_ticks

EnvInit ==
  /\ recorder \in Recorders
  /\ queue = initial_queue(enable_ticks(recorder))
  /\ states = [i \in Slots |-> initial_state(Units[i])]
  /\ res = NoResult
  /\ status = "Advancing"
  /\ tick_t = 0
  /\ last = [time_ms |-> 0, kind |-> Checkpoint, source_id |-> 0, target_id |-> 0, seq |-> -1]
  /\ swung = [i \in Slots |-> -1]
  /\ SinkInit
  /\ drawn = <<>>
  /\ file = <<>>
  /\ phase = "recording"

\* write_trace_prologue, then what the sink was given.
Written == <<HeaderLine, InitLine>> \o sunk

-----------------------------------------------------------------------------
RecordEvent == phase = "recording" /\ RunsEvent /\ UNCHANGED env_vars

\* arena_env_step with two action ids in range, on a match that awaits them.
EnvStep ==
  /\ phase = "recording" /\ recorder = "env"
  /\ \E a1, a2 \in Action : RunsStep(<<a1, a2>>)
  /\ UNCHANGED env_vars

\* arena_env_step returns -1 on a match that has ended and -2 for an action id
\* out of range.
EnvStepRefused ==
  phase = "recording" /\ recorder = "env" /\ status # "Advancing" /\ UNCHANGED <<vars, sink_vars, env_vars>>

\* One turn of the loop of run_match.
PolicyStep ==
  /\ phase = "recording" /\ recorder = "arena_run"
  /\ \E a1 \in Choices(states, 1, tick_t), a2 \in Choices(states, 2, tick_t) : RunsStep(<<a1, a2>>)
  /\ UNCHANGED env_vars

\* The file is closed: by arena_env_destroy whenever the driver likes, by
\* arena_run once the match has ended.
Close ==
  /\ phase = "recording"
  /\ IF recorder = "env" THEN status # "Advancing" ELSE status = "Ended"
  /\ file' = Written
  /\ phase' = "closed"
  /\ UNCHANGED <<vars, sink_vars, recorder>>

\* What may be left of a line that was cut: not even its type, or its type
\* without the fields after it.  Cut still later it is as good as whole.
CutLine(line) == {[type |-> "garbled"], [type |-> line.type]}

\* The recorder dies.  stdio has written some prefix of its output.
Kill ==
  /\ MayKill /\ phase = "recording"
  /\ \E n \in 0..Len(Written) :
       \/ file' = SubSeq(Written, 1, n)
       \/ n > 0 /\ \E cut \in CutLine(Written[n]) : file' = SubSeq(Written, 1, n - 1) \o <<cut>>
  /\ phase' = "killed"
  /\ UNCHANGED <<vars, sink_vars, recorder>>

Records == RecordEvent \/ EnvStep \/ EnvStepRefused \/ PolicyStep \/ Close \/ Kill

-----------------------------------------------------------------------------
(* What the API reports.                                                   *)

\* Mutant: the survivor is looked for from the other end.
winner_slot_Swapped == IF status # "Ended" \/ res.end_reason # "death" THEN -1
                       ELSE IF states[2].hp > 0 THEN 1 ELSE 2

\* arena_env_winner_slot, with slots counted from 1: -1 for a match that ended
\* by its duration or has not ended.
winner_slot == IF status # "Ended" \/ res.end_reason # "death" THEN -1
               ELSE IF states[1].hp > 0 THEN 1 ELSE 2

\* A winner is reported exactly when one unit is dead, and it is the other
\* one: nobody wins a match by time, and nobody loses one alive
\* (arena_c_api.cpp:143-148 looks at one of the two units only).
WinnerSurvives ==
  phase = "recording" /\ status = "Ended" =>
    \A i \in Slots : winner_slot = i <=> states[Enemy(i)].hp = 0
=============================================================================
