---------------------------- MODULE ReplayProofs ----------------------------
(***************************************************************************)
(* Proofs about recorded matches: the engine keeps its invariant whoever   *)
(* drives it, in the recorded run as in the run that verifies or plays     *)
(* back the trace, for any trace file and any pair of units.               *)
(***************************************************************************)
EXTENDS Replay, MatchTimelineProofs, FiniteSetTheorems

-----------------------------------------------------------------------------
(* The sink and the dice watch the engine, they do not steer it.           *)

LEMMA RunsEventKeeps ==
  ASSUME NEW on, Runs(on), RunsEvent
  PROVE  Runs(on)' /\ status = "Advancing"
<1>1. Advance
  BY DEF RunsEvent, Advance
<1>2. status = "Advancing"
  BY DEF RunsEvent, CheckpointEvent, MatchEndEvent, DecideEvent, StaleSwing, HeroicSwing, WhiteSwing,
         Lands, Pops
<1>3. QED
  BY <1>1, <1>2, AdvanceRuns

LEMMA RunsStepKeeps ==
  ASSUME NEW on, Runs(on), NEW a, a[1] \in Action, a[2] \in Action, RunsStep(a)
  PROVE  Runs(on)' /\ status = "AwaitingActions"
<1>1. PICK y \in Casts : Step(a, y)
  BY DEF RunsStep
<1>2. QED
  BY <1>1, StepRuns DEF Step

LEMMA StandsStill == IInv /\ UNCHANGED vars => IInv'
  BY StepIInv

LEMMA EitherRuns == (Constructed(TRUE) => Runs(TRUE)) /\ (Constructed(FALSE) => Runs(FALSE))
  BY FreshRuns

\* The second run starts with an engine as fresh as the first.
LEMMA RerunIsFresh ==
  ASSUME NEW ticks \in BOOLEAN, Rerun(ticks)
  PROVE  Runs(ticks)'
<1>1. Constructed(ticks)'
  BY DEF Rerun, Constructed
<1>2. (Constructed(TRUE)' => Runs(TRUE)') /\ (Constructed(FALSE)' => Runs(FALSE)')
  BY EitherRuns, PTL
<1>3. CASE ticks = TRUE
  BY <1>1, <1>2, <1>3
<1>4. CASE ticks = FALSE
  BY <1>1, <1>2, <1>4
<1>5. QED
  BY <1>3, <1>4

-----------------------------------------------------------------------------
(* Sequences.                                                              *)

LEMMA Joined ==
  ASSUME NEW X, NEW s \in Seq(X), NEW u \in Seq(X)
  PROVE  /\ s \o u \in Seq(X) /\ Len(s \o u) = Len(s) + Len(u)
         /\ \A k \in 1..Len(s) : (s \o u)[k] = s[k]
         /\ \A k \in 1..Len(u) : (s \o u)[Len(s) + k] = u[k]
  OBVIOUS

LEMMA InSequence ==
  ASSUME NEW X, NEW s \in Seq(X), NEW k \in DOMAIN s
  PROVE  s[k] \in X /\ k \in 1..Len(s) /\ k \in Nat /\ Len(s) \in Nat
  OBVIOUS

-----------------------------------------------------------------------------
(* What is written.                                                        *)

Pools == [Slots -> Nat \X (0..RAGE_CAP_DECI)]

\* The lines a sink may be given before the last.
PlainLine ==
  [type: {"checkpoint"}, t: Nat, hash: [Slots -> UnitState]]
    \cup [type: {"decision"}, t: Nat, unit: Slots, action: Action]
    \cup [type: {"swing"}, t: Nat, src: Slots, outcome: STRING, damage: Int, after: Pools]
    \cup [type: {"ability"}, t: Nat, src: Slots, ability: {"heroic_strike", "mortal_strike"},
          damage: Int, after: Pools]

SunkLine == PlainLine \cup [type: {"end"}, t: Nat, reason: {"duration", "death"}]

EndLine == [type |-> "end", t |-> res.end_ms, reason |-> res.end_reason]

\* The sink is told of the end once, and last.
EndIsLast ==
  /\ At(sunk, "end") = IF status = "Ended" THEN {Len(sunk)} ELSE {}
  /\ status = "Ended" => sunk[Len(sunk)] = EndLine

SinkOK == sunk \in Seq(SunkLine) /\ EndIsLast

LEMMA PoolsAfter ==
  ASSUME NEW sts \in [Slots -> UnitState]
  PROVE  After(sts) \in Pools
  BY DEF After, Pools, UnitState

LEMMA SinksType ==
  ASSUME SinkOK, NEW lines \in Seq(PlainLine), Sinks(lines), res' \in MatchResult, status # "Ended"
  PROVE  SinkOK'
<1> DEFINE plain == sunk \o lines
<1>1. sunk \in Seq(SunkLine) /\ \A k \in DOMAIN sunk : sunk[k].type # "end"
  BY DEF SinkOK, EndIsLast, At
<1>2. \A l \in PlainLine : l \in SunkLine /\ l.type # "end"
  BY DEF PlainLine, SunkLine
<1>3. lines \in Seq(SunkLine)
  BY <1>2
<1>4. plain \in Seq(SunkLine)
  BY <1>1, <1>3
<1>5. \A k \in 1..Len(plain) : plain[k].type # "end"
  <2>1. SUFFICES ASSUME NEW k \in 1..Len(plain) PROVE plain[k].type # "end"
    OBVIOUS
  <2>2. CASE k <= Len(sunk)
    BY <1>1, <2>1, <2>2
  <2>3. CASE k > Len(sunk)
    <3>1. k - Len(sunk) \in 1..Len(lines) /\ plain[k] = lines[k - Len(sunk)]
      BY <1>1, <2>1, <2>3
    <3>2. QED
      BY <1>2, <3>1
  <2>4. QED
    BY <1>1, <2>1, <2>2, <2>3
<1>6. sunk' = plain \o EndLines
  BY DEF Sinks
<1> HIDE DEF plain
<1>7. CASE status' = "Ended"
  <2>1. EndLines = <<EndLine'>> /\ EndLine' \in SunkLine /\ EndLine'.type = "end"
    BY <1>7 DEF EndLines, EndLine, SunkLine, MatchResult
  <2>2. sunk' \in Seq(SunkLine) /\ Len(sunk') = Len(plain) + 1
        /\ sunk'[Len(plain) + 1] = EndLine'
        /\ \A k \in 1..Len(plain) : sunk'[k] = plain[k]
    BY <1>4, <1>6, <2>1
  <2>3. DOMAIN sunk' = 1..Len(plain) + 1 /\ Len(plain) \in Nat
    BY <1>4, <2>2
  <2>4. At(sunk', "end") = {Len(sunk')}
    <3>0. PICK s : s = sunk'
      OBVIOUS
    <3>1. PICK n \in Nat : n = Len(plain) /\ s = sunk'
      BY <2>3, <3>0
    <3>2. /\ DOMAIN s = 1..(n + 1) /\ Len(s) = n + 1 /\ s[n + 1].type = "end"
          /\ \A k \in 1..n : s[k].type # "end"
      BY <1>5, <2>1, <2>2, <2>3, <3>1
    <3>3. \A k \in 1..(n + 1) : k \in 1..n \/ k = n + 1
      BY <3>1
    <3>4. n + 1 \in 1..(n + 1)
      BY <3>1
    <3>5. {k \in DOMAIN s : s[k].type = "end"} = {n + 1}
      BY <3>2, <3>3, <3>4
    <3>6. QED
      BY <3>1, <3>2, <3>5 DEF At
  <2>5. QED
    BY <1>7, <2>2, <2>4 DEF SinkOK, EndIsLast
<1>8. CASE status' # "Ended"
  <2>1. sunk' = plain
    BY <1>4, <1>6, <1>8 DEF EndLines
  <2>2. At(sunk', "end") = {}
    BY <1>4, <1>5, <2>1 DEF At
  <2>3. QED
    BY <1>4, <1>8, <2>1, <2>2 DEF SinkOK, EndIsLast
<1>9. QED
  BY <1>7, <1>8

LEMMA EventLines ==
  ASSUME NEW on, Runs(on), SinkOK, RunsEvent
  PROVE  SinkOK'
<1>1. status = "Advancing" /\ res' \in MatchResult /\ states' \in [Slots -> UnitState]
  BY RunsEventKeeps DEF Runs, TInv, IInv, TypeOK
<1>2. IInv /\ TypeOK
  BY DEF Runs, TInv, IInv
<1>3. CASE Sinks(<<>>)
  <2>1. <<>> \in Seq(PlainLine)
    OBVIOUS
  <2>2. QED
    BY <1>1, <1>3, <2>1, SinksType
<1>4. ASSUME NEW e \in queue.heap, CheckpointEvent(e), Sinks(<<CheckpointLine>>)
      PROVE  SinkOK'
  <2>1. last'.time_ms \in Nat
    BY <1>2, <1>4 DEF CheckpointEvent, Pops, TypeOK, Event
  <2>2. CheckpointLine \in PlainLine
    BY <1>2, <2>1 DEF CheckpointLine, PlainLine, TypeOK
  <2>3. <<CheckpointLine>> \in Seq(PlainLine)
    BY <2>2
  <2>4. QED
    BY <1>1, <1>4, <2>3, SinksType
<1>5. ASSUME NEW e \in Queued(queue, Swing), NEW y \in HeroicResults[e.source_id],
             Sinks(<<AbilityLine(e.time_ms, e.source_id, "heroic_strike", y, states')>>)
      PROVE  SinkOK'
  <2>1. e.source_id \in Slots /\ e.time_ms \in Nat
    BY <1>2, SwingOfAnAttacker
  <2>2. y \in YellowResult
    BY <2>1, ResultsAssumption
  <2>3. AbilityLine(e.time_ms, e.source_id, "heroic_strike", y, states') \in PlainLine
    BY <1>1, <2>1, <2>2, PoolsAfter DEF AbilityLine, PlainLine, YellowResult
  <2>4. <<AbilityLine(e.time_ms, e.source_id, "heroic_strike", y, states')>> \in Seq(PlainLine)
    BY <2>3
  <2>5. QED
    BY <1>1, <1>5, <2>4, SinksType
<1>6. ASSUME NEW e \in Queued(queue, Swing), NEW w \in WhiteResults[e.source_id],
             Sinks(<<SwingLine(e.time_ms, e.source_id, w, states')>>)
      PROVE  SinkOK'
  <2>1. e.source_id \in Slots /\ e.time_ms \in Nat
    BY <1>2, SwingOfAnAttacker
  <2>2. w \in SwingResult
    BY <2>1, ResultsAssumption
  <2>3. SwingLine(e.time_ms, e.source_id, w, states') \in PlainLine
    BY <1>1, <2>1, <2>2, PoolsAfter DEF SwingLine, PlainLine, SwingResult
  <2>4. <<SwingLine(e.time_ms, e.source_id, w, states')>> \in Seq(PlainLine)
    BY <2>3
  <2>5. QED
    BY <1>1, <1>6, <2>4, SinksType
<1>7. QED
  BY <1>3, <1>4, <1>5, <1>6 DEF RunsEvent

\* What one action writes: a cast, then the decision that made it.
LEMMA ActionLinesType ==
  ASSUME NEW m, NEW n, n.states \in [Slots -> UnitState], NEW i \in Slots, NEW a \in Action,
         NEW y \in YellowResult, tick_t \in Nat
  PROVE  ActionLines(m, n, i, a, y) \in Seq(PlainLine)
<1>1. AbilityLine(tick_t, i, "mortal_strike", y, n.states) \in PlainLine
  BY PoolsAfter DEF AbilityLine, PlainLine, YellowResult
<1>2. DecisionLine(i, a) \in PlainLine
  BY DEF DecisionLine, PlainLine
<1> DEFINE cast     == IF CastIn(m, n)
                       THEN <<AbilityLine(tick_t, i, "mortal_strike", y, n.states)>> ELSE <<>>
           decision == IF AppliedIn(m, n) THEN <<DecisionLine(i, a)>> ELSE <<>>
<1>3. cast \in Seq(PlainLine) /\ decision \in Seq(PlainLine)
  BY <1>1, <1>2
<1>4. ActionLines(m, n, i, a, y) = cast \o decision
  BY DEF ActionLines
<1> HIDE DEF cast, decision
<1>5. QED
  BY <1>3, <1>4

LEMMA StepLines ==
  ASSUME NEW on, Runs(on), SinkOK, NEW a, a[1] \in Action, a[2] \in Action, RunsStep(a)
  PROVE  SinkOK'
<1>0. IInv
  BY DEF Runs, TInv
<1>1. PICK y \in Casts :
        /\ Step(a, y)
        /\ Sinks(ActionLines([states |-> states, res |-> res], First(a, y), 1, a[1], y[1])
                   \o ActionLines(First(a, y), Outcome(a, y), 2, a[2], y[2]))
  BY DEF RunsStep, First, Outcome
<1>2. /\ Outcome(a, y).states \in [Slots -> UnitState]
      /\ First(a, y).states \in [Slots -> UnitState]
  BY <1>0, <1>1, StepOutcome
<1>3. 1 \in Slots /\ 2 \in Slots /\ y[1] \in YellowResult /\ y[2] \in YellowResult
  BY ResultsAssumption DEF Casts, Slots
<1>4. tick_t \in Nat /\ res' \in MatchResult /\ status = "AwaitingActions"
  BY RunsStepKeeps DEF Runs, TInv, IInv, TypeOK
<1> DEFINE one == ActionLines([states |-> states, res |-> res], First(a, y), 1, a[1], y[1])
           two == ActionLines(First(a, y), Outcome(a, y), 2, a[2], y[2])
<1>5. one \in Seq(PlainLine) /\ two \in Seq(PlainLine)
  BY <1>2, <1>3, <1>4, ActionLinesType
<1> HIDE DEF one, two
<1>6. one \o two \in Seq(PlainLine)
  BY <1>5
<1>7. QED
  BY <1>1, <1>4, <1>6, SinksType DEF one, two

-----------------------------------------------------------------------------
(* The inductive invariant: the engine's, what the sink was given and what *)
(* may stand in the file.                                                  *)

\* A cut line has nothing but its type.
LineType == {"header", "init", "checkpoint", "decision", "swing", "ability", "end", "garbled"}

FileLine == SunkLine \cup {HeaderLine, InitLine} \cup [type: LineType]

TellsActions(lines) ==
  \A k \in DOMAIN lines : lines[k].type = "decision" => lines[k].action \in Action

\* Whether the second run has ticks.
rerun_ticks == use = "playback" \/ run_ticks

RInv ==
  /\ IInv /\ SinkOK
  /\ recorder \in {"env", "arena_run"} /\ use \in {"verify", "playback"}
  /\ phase = "recording" => Runs(enable_ticks(recorder))
  /\ phase = "rerunning" => Runs(rerun_ticks)
  /\ phase = "closed" \/ (phase = "rerunning" /\ use = "playback") => TellsActions(file)
  /\ file \in Seq(FileLine)
  /\ phase = "rerunning" /\ use = "verify" => HeaderError(file) = ""

\* What is written after the prologue is what the sink was given.
LEMMA WrittenLines ==
  ASSUME sunk \in Seq(SunkLine)
  PROVE  /\ Written \in Seq(FileLine)
         /\ Len(Written) = Len(sunk) + 2
         /\ Written[1] = HeaderLine /\ Written[2] = InitLine
         /\ \A k \in 1..Len(sunk) : Written[k + 2] = sunk[k]
<1> DEFINE head == <<HeaderLine, InitLine>>
<1>1. head \in Seq(FileLine) /\ Len(head) = 2 /\ head[1] = HeaderLine /\ head[2] = InitLine
  BY DEF FileLine
<1>2. sunk \in Seq(FileLine)
  BY DEF FileLine
<1> HIDE DEF head
<1>3. Written = head \o sunk
  BY DEF Written, head
<1>3a. PICK h, u : h = head /\ u = sunk
  OBVIOUS
<1>3b. h \in Seq(FileLine) /\ u \in Seq(FileLine)
  BY <1>1, <1>2, <1>3a
<1>3c. PICK w : w = h \o u
  OBVIOUS
<1>3d. /\ w \in Seq(FileLine) /\ Len(w) = Len(h) + Len(u)
       /\ \A k \in 1..Len(h) : w[k] = h[k]
       /\ \A k \in 1..Len(u) : w[Len(h) + k] = u[k]
  BY ONLY <1>3b, <1>3c, Joined
<1>3e. Written = w
  BY ONLY <1>3, <1>3a, <1>3c
<1>4. /\ Written \in Seq(FileLine) /\ Len(Written) = Len(head) + Len(sunk)
      /\ \A k \in 1..Len(head) : Written[k] = head[k]
      /\ \A k \in 1..Len(sunk) : Written[Len(head) + k] = sunk[k]
  BY ONLY <1>3a, <1>3d, <1>3e
<1>5. Len(sunk) \in Nat
  OBVIOUS
<1>6. QED
  BY <1>1, <1>4, <1>5

LEMMA WrittenTells ==
  ASSUME sunk \in Seq(SunkLine)
  PROVE  TellsActions(Written)
<1>1. \A l \in SunkLine : l.type = "decision" => l.action \in Action
  BY DEF SunkLine, PlainLine
<1>2. HeaderLine.type = "header" /\ InitLine.type = "init"
  BY DEF HeaderLine, InitLine
<1>3. SUFFICES ASSUME NEW k \in DOMAIN Written, Written[k].type = "decision"
               PROVE  Written[k].action \in Action
  BY DEF TellsActions
<1>4. k \in 1..Len(sunk) + 2 /\ k # 1 /\ k # 2
  BY <1>2, <1>3, WrittenLines
<1>5. k - 2 \in 1..Len(sunk) /\ Written[(k - 2) + 2] = sunk[k - 2] /\ (k - 2) + 2 = k
  BY <1>4, WrittenLines
<1>6. QED
  BY <1>1, <1>3, <1>5

\* What is left of a file is a prefix of what was written, or one with its last
\* line cut.
LEMMA KilledType ==
  ASSUME sunk \in Seq(SunkLine), Kill
  PROVE  file' \in Seq(FileLine)
<1>1. Written \in Seq(FileLine)
  BY WrittenLines
<1>2. \A l \in FileLine : l.type \in LineType
  BY DEF FileLine, LineType, SunkLine, PlainLine, HeaderLine, InitLine
<1>3. PICK n \in 0..Len(Written) :
        \/ file' = SubSeq(Written, 1, n)
        \/ n > 0 /\ \E cut \in CutLine(Written[n]) : file' = SubSeq(Written, 1, n - 1) \o <<cut>>
  BY DEF Kill
<1>4. CASE file' = SubSeq(Written, 1, n)
  BY <1>1, <1>4
<1>5. CASE n > 0 /\ \E cut \in CutLine(Written[n]) : file' = SubSeq(Written, 1, n - 1) \o <<cut>>
  <2>1. PICK cut \in CutLine(Written[n]) : file' = SubSeq(Written, 1, n - 1) \o <<cut>>
    BY <1>5
  <2>2. Written[n] \in FileLine
    BY <1>1, <1>5
  <2>3. cut \in FileLine
    BY <1>2, <2>1, <2>2 DEF CutLine, FileLine, LineType
  <2>4. SubSeq(Written, 1, n - 1) \in Seq(FileLine) /\ <<cut>> \in Seq(FileLine)
    BY <1>1, <1>5, <2>3
  <2>5. QED
    BY <2>1, <2>4
<1>6. QED
  BY <1>3, <1>4, <1>5

\* Playback submits what a line of the trace says, or nothing.
LEMMA PlaybackActs ==
  ASSUME TellsActions(file), NEW i, NEW t
  PROVE  playback_decide(i, t) \in Action
<1> DEFINE script == {l \in LinesOf(file, "decision") : l.unit = i}
<1>1. \A l \in script : l.action \in Action
  BY DEF LinesOf, At, TellsActions
<1>2. "None" \in Action
  BY DEF Action
<1>3. playback_decide(i, t) = IF \E l \in script : l.t = t
                              THEN (CHOOSE l \in script : l.t = t).action ELSE "None"
  BY DEF playback_decide
<1> HIDE DEF script
<1>4. QED
  BY <1>1, <1>2, <1>3

LEMMA TicksAreBoolean == enable_ticks(recorder) \in BOOLEAN /\ run_ticks \in BOOLEAN
  BY DEF enable_ticks, run_ticks

LEMMA InitRInv == ReplayInit => RInv
<1>1. SUFFICES ASSUME ReplayInit PROVE RInv
  OBVIOUS
<1>2. Constructed(enable_ticks(recorder))
  BY <1>1 DEF ReplayInit, EnvInit, Constructed
<1>3. Runs(enable_ticks(recorder))
  BY <1>2, TicksAreBoolean, FreshRuns
<1>4. sunk = <<>> /\ file = <<>> /\ status = "Advancing" /\ phase = "recording"
      /\ recorder \in {"env", "arena_run"} /\ use \in {"verify", "playback"}
  BY <1>1, UsesAssumption, RecordersAssumption DEF ReplayInit, EnvInit, SinkInit
<1>5. SinkOK /\ file \in Seq(FileLine)
  BY <1>4 DEF SinkOK, EndIsLast, At
<1>6. QED
  BY <1>3, <1>4, <1>5 DEF RInv, Runs, TInv

LEMMA EventRInv ==
  ASSUME RInv, NEW on, Runs(on), RunsEvent
  PROVE  IInv' /\ Runs(on)' /\ SinkOK' /\ status = "Advancing"
<1>1. Runs(on)' /\ status = "Advancing"
  BY RunsEventKeeps
<1>2. SinkOK'
  BY EventLines DEF RInv
<1>3. QED
  BY <1>1, <1>2 DEF Runs, TInv

LEMMA ActsRInv ==
  ASSUME RInv, NEW on, Runs(on), NEW a1 \in Action, NEW a2 \in Action, RunsStep(<<a1, a2>>)
  PROVE  IInv' /\ Runs(on)' /\ SinkOK' /\ status = "AwaitingActions"
<1> DEFINE a == <<a1, a2>>
<1>1. a[1] \in Action /\ a[2] \in Action /\ RunsStep(a)
  OBVIOUS
<1> HIDE DEF a
<1>2. Runs(on)' /\ status = "AwaitingActions"
  BY <1>1, RunsStepKeeps
<1>3. SinkOK'
  BY <1>1, StepLines DEF RInv
<1>4. QED
  BY <1>2, <1>3 DEF Runs, TInv

LEMMA DecidedActs ==
  ASSUME RInv, phase = "rerunning"
  PROVE  \A i \in Slots : Decided(i) \subseteq Action
<1>1. CASE use = "verify"
  BY <1>1, ChoicesAreActions DEF Decided
<1>2. CASE use = "playback"
  BY <1>2, PlaybackActs DEF Decided, RInv
<1>3. QED
  BY <1>1, <1>2 DEF RInv

LEMMA StepRInv == RInv /\ [ReplayNext]_all_vars => RInv'
<1>1. SUFFICES ASSUME RInv, [ReplayNext]_all_vars PROVE RInv'
  OBVIOUS
<1>2. /\ IInv /\ SinkOK /\ file \in Seq(FileLine) /\ sunk \in Seq(SunkLine)
      /\ recorder \in {"env", "arena_run"} /\ use \in {"verify", "playback"}
      /\ phase = "recording" => Runs(enable_ticks(recorder))
      /\ phase = "rerunning" => Runs(rerun_ticks)
  BY <1>1 DEF RInv, SinkOK
<1>3. UNCHANGED <<vars, sink_vars>> => IInv' /\ SinkOK'
  BY <1>2, StandsStill DEF SinkOK, EndIsLast, EndLine, vars, sink_vars
<1>4. CASE UNCHANGED all_vars
  <2>1. \A on : Runs(on) => Runs(on)'
    BY <1>4, StandsRuns DEF all_vars
  <2>2. /\ UNCHANGED <<recorder, file, phase, use>> /\ IInv' /\ SinkOK'
    BY <1>3, <1>4 DEF all_vars, env_vars, replay_vars
  <2>3. QED
    BY <1>1, <2>1, <2>2 DEF RInv, enable_ticks, rerun_ticks, TellsActions, HeaderError
<1>5. ASSUME phase = "recording" \/ phase = "rerunning", UNCHANGED <<env_vars, replay_vars>>,
             \/ RunsEvent
             \/ \E a1, a2 \in Action : RunsStep(<<a1, a2>>)
      PROVE  RInv'
  <2>1. UNCHANGED <<recorder, file, phase, use>>
    BY <1>5 DEF env_vars, replay_vars
  <2>2. \A on : Runs(on) => IInv' /\ Runs(on)' /\ SinkOK'
    BY <1>1, <1>5, EventRInv, ActsRInv
  <2>3. enable_ticks(recorder)' = enable_ticks(recorder) /\ rerun_ticks' = rerun_ticks
    BY <2>1 DEF enable_ticks, rerun_ticks
  <2>4. CASE phase = "recording"
    BY <1>2, <2>1, <2>2, <2>3, <2>4 DEF RInv
  <2>5. CASE phase = "rerunning"
    BY <1>1, <1>2, <2>1, <2>2, <2>3, <2>5 DEF RInv, TellsActions, HeaderError
  <2>6. QED
    BY <1>5, <2>4, <2>5
<1>6. CASE Records /\ UNCHANGED replay_vars
  <2>1. CASE RecordEvent
    BY <1>5, <1>6, <2>1 DEF RecordEvent
  <2>2. CASE EnvStep
    BY <1>5, <1>6, <2>2 DEF EnvStep
  <2>3. CASE EnvStepRefused
    BY <1>4, <1>6, <2>3 DEF EnvStepRefused, all_vars
  <2>4. CASE PolicyStep
    <3>1. PICK a1 \in Choices(states, 1, tick_t), a2 \in Choices(states, 2, tick_t) :
            RunsStep(<<a1, a2>>)
      BY <2>4 DEF PolicyStep
    <3>2. a1 \in Action /\ a2 \in Action
      BY ChoicesAreActions DEF Slots
    <3>3. QED
      BY <1>5, <1>6, <2>4, <3>1, <3>2 DEF PolicyStep
  <2>5. CASE Close
    <3>1. /\ UNCHANGED <<vars, sink_vars, recorder, use>> /\ file' = Written /\ phase' = "closed"
      BY <1>6, <2>5 DEF Close, replay_vars
    <3>2. Written \in Seq(FileLine) /\ TellsActions(Written)
      BY <1>2, WrittenLines, WrittenTells
    <3>3. IInv' /\ SinkOK'
      BY <1>3, <3>1
    <3>4. QED
      BY <1>2, <3>1, <3>2, <3>3 DEF RInv, TellsActions
  <2>6. CASE Kill
    <3>1. /\ UNCHANGED <<vars, sink_vars, recorder, use>> /\ phase' = "killed"
          /\ file' \in Seq(FileLine)
      BY <1>2, <1>6, <2>6, KilledType DEF Kill, replay_vars
    <3>2. IInv' /\ SinkOK'
      BY <1>3, <3>1
    <3>3. QED
      BY <1>2, <3>1, <3>2 DEF RInv
  <2>7. QED
    BY <1>6, <2>1, <2>2, <2>3, <2>4, <2>5, <2>6 DEF Records
<1>7. ASSUME NEW ticks \in BOOLEAN, Rerun(ticks)
      PROVE  IInv' /\ SinkOK' /\ Runs(ticks)'
  <2>1. sunk' = <<>> /\ status' = "Advancing"
    BY <1>7 DEF Rerun
  <2>2. SinkOK'
    BY <2>1 DEF SinkOK, EndIsLast, At
  <2>3. QED
    BY <1>7, <2>2, RerunIsFresh DEF Runs, TInv
<1>8. CASE OpenTrace
  <2>1. /\ use = "verify" /\ UNCHANGED <<recorder, file, use>>
    BY <1>8 DEF OpenTrace
  <2>2. CASE HeaderError(file) # ""
    <3>1. UNCHANGED <<vars, sink_vars>> /\ phase' = "done"
      BY <1>8, <2>2 DEF OpenTrace
    <3>2. IInv' /\ SinkOK'
      BY <1>3, <3>1
    <3>3. QED
      BY <1>2, <2>1, <3>1, <3>2 DEF RInv
  <2>3. CASE HeaderError(file) = ""
    <3>1. Rerun(run_ticks) /\ phase' = "rerunning"
      BY <1>8, <2>3 DEF OpenTrace
    <3>2. IInv' /\ SinkOK' /\ Runs(run_ticks)'
      BY <1>7, <3>1, TicksAreBoolean
    <3>3. rerun_ticks' = run_ticks
      BY <2>1 DEF rerun_ticks, run_ticks
    <3>4. QED
      BY <1>2, <2>1, <2>3, <3>1, <3>2, <3>3 DEF RInv, HeaderError, run_ticks
  <2>4. QED
    BY <2>2, <2>3
<1>9. CASE OpenPlayback
  <2>1. /\ phase = "closed" /\ UNCHANGED <<use, file, recorder>> /\ Rerun(TRUE)
        /\ use = "playback" /\ phase' = "rerunning"
    BY <1>9 DEF OpenPlayback
  <2>2. IInv' /\ SinkOK' /\ Runs(TRUE)'
    BY <1>7, <2>1
  <2>3. rerun_ticks' = TRUE
    BY <2>1 DEF rerun_ticks
  <2>4. QED
    BY <1>1, <1>2, <2>1, <2>2, <2>3 DEF RInv, TellsActions
<1>10. CASE RerunEvent
  BY <1>5, <1>10 DEF RerunEvent
<1>11. CASE RerunStep
  <2>1. PICK a1 \in Decided(1), a2 \in Decided(2) : RunsStep(<<a1, a2>>)
    BY <1>11 DEF RerunStep
  <2>2. a1 \in Action /\ a2 \in Action
    BY <1>1, <1>11, DecidedActs DEF RerunStep, Slots
  <2>3. QED
    BY <1>5, <1>11, <2>1, <2>2 DEF RerunStep
<1>12. CASE Conclude
  <2>1. /\ UNCHANGED <<vars, sink_vars, recorder, file, use>> /\ phase' = "done"
    BY <1>12 DEF Conclude
  <2>2. IInv' /\ SinkOK'
    BY <1>3, <2>1
  <2>3. QED
    BY <1>2, <2>1, <2>2 DEF RInv
<1>13. CASE Done
  BY <1>4, <1>13 DEF Done
<1>14. QED
  BY <1>1, <1>4, <1>6, <1>8, <1>9, <1>10, <1>11, <1>12, <1>13 DEF ReplayNext

-----------------------------------------------------------------------------
(* Lines that are counted.                                                 *)

LEMMA AtIsFinite ==
  ASSUME NEW X, NEW s \in Seq(X), NEW type
  PROVE  At(s, type) \subseteq 1..Len(s) /\ IsFiniteSet(At(s, type)) /\ Count(s, type) \in Nat
<1>1. At(s, type) \subseteq 1..Len(s) /\ Len(s) \in Nat
  BY DEF At
<1>2. IsFiniteSet(1..Len(s))
  BY <1>1, FS_Interval
<1>3. IsFiniteSet(At(s, type))
  BY <1>1, <1>2, FS_Subset
<1>4. QED
  BY <1>1, <1>3, FS_CardinalityType DEF Count

\* The ordinals of the lines of a type increase along the sequence.
LEMMA OrdinalsDiffer ==
  ASSUME NEW X, NEW s \in Seq(X), NEW type, NEW j \in At(s, type), NEW k \in At(s, type)
  PROVE  Ordinal(s, j) = Ordinal(s, k) => j = k
<1> DEFINE upto(i) == {n \in At(s, type) : n <= i}
<1>1. /\ At(s, type) \subseteq 1..Len(s) /\ IsFiniteSet(At(s, type))
      /\ s[j].type = type /\ s[k].type = type
  BY AtIsFinite DEF At
<1>2. j \in Nat /\ k \in Nat
  BY <1>1
<1>3. Ordinal(s, j) = Cardinality(upto(j)) /\ Ordinal(s, k) = Cardinality(upto(k))
  BY <1>1 DEF Ordinal
<1>4. IsFiniteSet(upto(j)) /\ IsFiniteSet(upto(k))
  BY <1>1, FS_Subset
<1>5. ASSUME j < k, Cardinality(upto(j)) = Cardinality(upto(k)) PROVE FALSE
  <2>1. upto(j) \subseteq upto(k) /\ k \in upto(k) /\ k \notin upto(j)
    BY <1>1, <1>2, <1>5
  <2> HIDE DEF upto
  <2>2. upto(k) = upto(j)
    BY <1>4, <1>5, <2>1, FS_Subset
  <2>3. QED
    BY <2>1, <2>2
<1>6. ASSUME k < j, Cardinality(upto(j)) = Cardinality(upto(k)) PROVE FALSE
  <2>1. upto(k) \subseteq upto(j) /\ j \in upto(j) /\ j \notin upto(k)
    BY <1>1, <1>2, <1>6
  <2> HIDE DEF upto
  <2>2. upto(j) = upto(k)
    BY <1>4, <1>6, <2>1, FS_Subset
  <2>3. QED
    BY <2>1, <2>2
<1> HIDE DEF upto
<1>7. QED
  BY <1>2, <1>3, <1>5, <1>6

\* Every line of a type has one of its ordinal in the other sequence.
Paired(s, u, type) ==
  \A k \in At(s, type) : \E j \in At(u, type) : Ordinal(u, j) = Ordinal(s, k)

\* If both have as many lines of the type, none of the others is left over.
LEMMA NoneLeftOver ==
  ASSUME NEW X, NEW s \in Seq(X), NEW Y, NEW u \in Seq(Y), NEW type,
         Count(s, type) = Count(u, type), Paired(s, u, type)
  PROVE  Paired(u, s, type)
<1> DEFINE A == At(s, type)
           B == At(u, type)
           f == [k \in A |-> CHOOSE j \in B : Ordinal(u, j) = Ordinal(s, k)]
<1>1. IsFiniteSet(A) /\ IsFiniteSet(B) /\ Cardinality(A) = Cardinality(B)
  BY AtIsFinite DEF Count
<1>2. \A j, k \in A : Ordinal(s, j) = Ordinal(s, k) => j = k
  BY OrdinalsDiffer
<1> HIDE DEF A, B
<1>3. \A k \in A : f[k] \in B /\ Ordinal(u, f[k]) = Ordinal(s, k)
  BY DEF A, B, Paired
<1>4. f \in [A -> B] /\ \A j, k \in A : f[j] = f[k] => j = k
  BY <1>2, <1>3
<1> HIDE DEF f
<1>5. f \in Injection(A, B)
  BY <1>4 DEF Injection, IsInjective
<1>6. f \in Surjection(A, B)
  BY <1>1, <1>5, FS_Injection
<1>7. \A j \in B : \E k \in A : f[k] = j
  BY <1>6 DEF Surjection
<1>8. QED
  BY <1>3, <1>7 DEF A, B, Paired

\* A set of numbers has a least one.
LEMMA LeastNat ==
  ASSUME NEW B, B \subseteq Nat, B # {}
  PROVE  \E k \in B : \A j \in B : k <= j
<1> DEFINE smaller == StrictSubsetOrdering(Nat)
           finite  == FiniteSubsetsOf(Nat)
           upto(k) == {j \in B : j <= k}
           starts  == {upto(k) : k \in B}
<1>1. IsWellFoundedOn(smaller, finite)
  BY FS_StrictSubsetOrderingWellFounded
<1>2. \A k \in B : upto(k) \in finite
  <2>1. SUFFICES ASSUME NEW k \in B PROVE upto(k) \in finite
    OBVIOUS
  <2>2. k \in Nat
    OBVIOUS
  <2>3. \A j \in B : j \in Nat /\ (j <= k => j \in 0..k)
    BY <2>2
  <2>4. IsFiniteSet(0..k)
    BY <2>2, FS_Interval
  <2>5. upto(k) \subseteq 0..k
    BY ONLY <2>3
  <2>6. IsFiniteSet(upto(k)) /\ upto(k) \subseteq Nat
    BY <2>4, <2>5, FS_Subset
  <2>7. QED
    BY <2>6 DEF FiniteSubsetsOf
<1>3. starts \subseteq finite /\ starts # {}
  BY <1>2
<1> HIDE DEF finite, smaller
<1>4. PICK x \in starts : \A y \in starts : <<y, x>> \notin smaller
  <2> HIDE DEF starts
  <2>1. QED
    BY <1>1, <1>3, WFMin
<1>5. PICK k \in B : x = upto(k)
  BY <1>4
<1>6. ASSUME NEW j \in B, j < k PROVE FALSE
  <2>1. upto(j) \in starts /\ upto(j) \in finite /\ upto(k) \in finite
    BY <1>2
  <2>2. upto(j) \subseteq upto(k) /\ upto(j) # upto(k)
    <3>1. k \in upto(k) /\ k \notin upto(j)
      BY <1>6
    <3>2. j \in Nat /\ k \in Nat
      OBVIOUS
    <3>3. \A i \in B : i \in Nat /\ (i <= j => i <= k)
      BY <1>6, <3>2
    <3>4. upto(j) \subseteq upto(k)
      BY <3>3
    <3>5. QED
      BY <3>1, <3>4
  <2>3. <<upto(j), upto(k)>> \in smaller
    BY <2>1, <2>2 DEF StrictSubsetOrdering, smaller, finite, FiniteSubsetsOf
  <2>4. QED
    BY <1>4, <1>5, <2>1, <2>3
<1>7. QED
  BY <1>6

-----------------------------------------------------------------------------
(* What the verifier accepts.                                              *)

\* The first error is one.
LEMMA FirstErrorIsError ==
  ASSUME file \in Seq(FileLine), BadLines # {}
  PROVE  FirstError # ""
<1>1. BadLines \subseteq Nat
  <2>1. 2..Len(file) \subseteq Nat
    OBVIOUS
  <2>2. QED
    BY ONLY <2>1 DEF BadLines
<1>2. PICK b \in BadLines : TRUE
  OBVIOUS
<1>3. b \in Nat
  BY <1>1, <1>2
<1>4. \E k \in BadLines : \A j \in BadLines : k <= j
  BY <1>1, <1>2, LeastNat
<1>5. (CHOOSE k \in BadLines : \A j \in BadLines : k <= j) \in BadLines
  BY <1>4
<1>6. QED
  BY <1>5 DEF FirstError, BadLines

\* A line of the file that the verifier reads on from is intact.
LEMMA ReadOn ==
  ASSUME file \in Seq(FileLine), NEW k \in DOMAIN file, LineError(k) = ""
  PROVE  /\ file[k].type = "end" => file[k] = EndLine
         /\ file[k].type = "checkpoint" =>
              \E j \in At(sunk, "checkpoint") : Ordinal(sunk, j) = Ordinal(file, k) /\ sunk[j] = file[k]
<1> DEFINE line  == file[k]
           resim == {j \in At(sunk, "checkpoint") : Ordinal(sunk, j) = Ordinal(file, k)}
<1>1. line \in FileLine
  BY InSequence
<1>2. CASE line.type = "end"
  <2>1. DOMAIN line # {"type"} /\ line.t = res.end_ms /\ line.reason = res.end_reason
    BY <1>2 DEF LineError
  <2>2. \A l \in [type: LineType] : DOMAIN l = {"type"}
    OBVIOUS
  <2>3. (\A l \in PlainLine : l.type # "end") /\ HeaderLine.type # "end" /\ InitLine.type # "end"
    BY DEF PlainLine, HeaderLine, InitLine
  <2>4. line \in [type: {"end"}, t: Nat, reason: {"duration", "death"}]
    BY <1>1, <1>2, <2>1, <2>2, <2>3 DEF FileLine, SunkLine
  <2>5. line = EndLine
    BY <2>1, <2>4 DEF EndLine
  <2>6. QED
    BY <1>2, <2>5
<1>3. CASE line.type = "checkpoint"
  <2>1. resim # {} /\ \A j \in resim : sunk[j] = line
    BY <1>3 DEF LineError
  <2>2. QED
    BY <1>3, <2>1
<1>4. QED
  BY <1>2, <1>3

\* The lines of a file tell of the match that wrote the others.
TellOf(lines, written) ==
  /\ LinesOf(lines, "end") = LinesOf(written, "end")
  /\ \A type \in {"checkpoint", "swing", "ability", "decision"} :
       Count(lines, type) = Count(written, type)
  /\ \A j \in At(written, "checkpoint") : \E k \in At(lines, "checkpoint") :
       Ordinal(lines, k) = Ordinal(written, j) /\ lines[k] = written[j]

LEMMA AcceptedWhole ==
  ASSUME RInv, phase = "rerunning", use = "verify", status = "Ended", Verdict = ""
  PROVE  TellOf(file, sunk)
<1>1. /\ file \in Seq(FileLine) /\ sunk \in Seq(SunkLine) /\ HeaderError(file) = ""
      /\ At(sunk, "end") = {Len(sunk)} /\ sunk[Len(sunk)] = EndLine
  BY DEF RInv, SinkOK, EndIsLast
<1>2. file[1] = HeaderLine /\ HeaderLine.type = "header"
  BY <1>1 DEF HeaderError, HeaderLine
<1>3. BadLines = {}
  <2>1. SUFFICES ASSUME BadLines # {} PROVE FALSE
    OBVIOUS
  <2>2. FirstError = ""
    BY <2>1 DEF Verdict
  <2>3. QED
    BY <2>1, <2>2, FirstErrorIsError, <1>1
<1>4. /\ At(file, "end") # {}
      /\ \A type \in {"checkpoint", "swing", "ability", "decision"} :
           Count(file, type) = Count(sunk, type)
  BY <1>3 DEF Verdict
<1>5. \A k \in DOMAIN file : file[k].type \in {"end", "checkpoint"} => LineError(k) = ""
  <2>1. SUFFICES ASSUME NEW k \in DOMAIN file, file[k].type \in {"end", "checkpoint"}
                 PROVE  LineError(k) = ""
    OBVIOUS
  <2>2. k \in 1..Len(file) /\ k \in Nat /\ Len(file) \in Nat
    BY ONLY <1>1, <2>1, InSequence
  <2>3. k # 1
    BY ONLY <1>2, <2>1
  <2>4. k \in 2..Len(file)
    BY ONLY <2>2, <2>3
  <2>5. QED
    BY ONLY <1>3, <2>4 DEF BadLines
<1>6. LinesOf(file, "end") = LinesOf(sunk, "end")
  <2>1. LinesOf(sunk, "end") = {EndLine}
    BY <1>1 DEF LinesOf
  <2>2. \A k \in At(file, "end") : file[k] = EndLine
    BY <1>1, <1>5, ReadOn DEF At
  <2>3. QED
    BY <1>4, <2>1, <2>2 DEF LinesOf
<1>7. \A k \in At(file, "checkpoint") : \E j \in At(sunk, "checkpoint") :
        Ordinal(sunk, j) = Ordinal(file, k) /\ sunk[j] = file[k]
  BY <1>1, <1>5, ReadOn DEF At
<1>8. Paired(sunk, file, "checkpoint")
  <2>1. Count(file, "checkpoint") = Count(sunk, "checkpoint")
    BY <1>4
  <2>2. Paired(file, sunk, "checkpoint")
    BY <1>7 DEF Paired
  <2>3. QED
    BY ONLY <1>1, <2>1, <2>2, NoneLeftOver
<1>9. ASSUME NEW j \in At(sunk, "checkpoint")
      PROVE  \E k \in At(file, "checkpoint") : Ordinal(file, k) = Ordinal(sunk, j) /\ file[k] = sunk[j]
  <2>1. PICK k \in At(file, "checkpoint") : Ordinal(sunk, j) = Ordinal(file, k)
    BY <1>8 DEF Paired
  <2>2. PICK i \in At(sunk, "checkpoint") : Ordinal(sunk, i) = Ordinal(file, k) /\ sunk[i] = file[k]
    BY <1>7
  <2>3. i = j
    BY <1>1, <2>1, <2>2, OrdinalsDiffer
  <2>4. QED
    BY <2>1, <2>2, <2>3
<1>10. QED
  BY <1>4, <1>6, <1>9 DEF TellOf

\* "" is the verdict of a second run that came to its end, and of no other.
Accepted == verdict = "" => phase = "done" /\ TellOf(file, sunk)

LEMMA StepAccepted == RInv /\ Accepted /\ [ReplayNext]_all_vars => Accepted'
<1>1. SUFFICES ASSUME RInv, Accepted, [ReplayNext]_all_vars PROVE Accepted'
  OBVIOUS
<1>2. CASE phase = "done"
  <2>1. UNCHANGED all_vars
    BY <1>1, <1>2 DEF ReplayNext, Records, RecordEvent, EnvStep, EnvStepRefused, PolicyStep, Close, Kill,
                      OpenTrace, OpenPlayback, RerunEvent, RerunStep, Conclude, Done
  <2>2. UNCHANGED <<verdict, phase, file, sunk>>
    BY <2>1 DEF all_vars, sink_vars, env_vars, replay_vars
  <2>3. QED
    BY <1>1, <2>2 DEF Accepted
<1>3. CASE phase # "done"
  <2>1. verdict # ""
    BY <1>1, <1>3 DEF Accepted
  <2>2. CASE Conclude
    <3>1. /\ UNCHANGED <<file, sunk>> /\ phase' = "done" /\ phase = "rerunning" /\ status = "Ended"
          /\ verdict' = IF use = "verify" THEN Verdict ELSE "played"
      BY <2>2 DEF Conclude, sink_vars
    <3>2. CASE verdict' = ""
      <4>1. use = "verify" /\ Verdict = ""
        BY <3>1, <3>2
      <4>2. TellOf(file, sunk)
        BY <1>1, <3>1, <4>1, AcceptedWhole
      <4>3. QED
        BY <3>1, <4>2 DEF Accepted
    <3>3. QED
      BY <3>2 DEF Accepted
  <2>3. CASE ~Conclude
    <3>1. verdict' # ""
      BY <1>1, <2>1, <2>3 DEF ReplayNext, RerunEvent, RerunStep, OpenTrace, OpenPlayback, Done,
                              all_vars, replay_vars
    <3>2. QED
      BY <3>1 DEF Accepted
  <2>4. QED
    BY <2>2, <2>3
<1>4. QED
  BY <1>2, <1>3

-----------------------------------------------------------------------------
(* Moments of a match.  What happens at a spot of the timeline depends on   *)
(* the moment before, on the action submitted there and on the dice f.      *)

Now == [states |-> states, checkpoints |-> res.checkpoints, sunk |-> sunk, thrown |-> thrown,
        stands |-> IF status = "Ended" THEN "over" ELSE "on"]

Over(m) == m.stands = "over"

Spot   == [time: Nat, kind: Kind, unit: EntityId]
Pos(x) == place(x.time, x.kind, x.unit)
SpotOf(e) == due(e.time_ms, e.kind, e.source_id)

EndOf(t, reason) == [type |-> "end", t |-> t, reason |-> reason]
DecisionOf(x, a) == [type |-> "decision", t |-> x.time, unit |-> x.unit, action |-> a]

\* The next throw of unit i, and the cursors after it.
Draw(m, i, kind, f) == f[<<i, kind, m.thrown[i]>>]
Thrown(m, i, r)     == [k \in Slots |-> IF k = i THEN Append(m.thrown[k], r) ELSE m.thrown[k]]

\* A hit or an action of x.unit left the units as sts.
Settled(m, x, sts, lines, dice) ==
  [states |-> sts, checkpoints |-> m.checkpoints,
   sunk |-> m.sunk \o lines \o (IF sts[Enemy(x.unit)].hp = 0 THEN <<EndOf(x.time, "death")>> ELSE <<>>),
   thrown |-> dice,
   stands |-> IF sts[Enemy(x.unit)].hp = 0 THEN "over" ELSE "on"]

Swung(m, x, f) ==
  LET i      == x.unit
      y      == Draw(m, i, "heroic", f)
      w      == Draw(m, i, "white", f)
      heroic == AfterHeroic(m.states, i, y, x.time)
      white  == AfterWhite(m.states, i, w, x.time)
  IN  IF UsesHeroicStrike(m.states[i])
      THEN Settled(m, x, heroic, <<AbilityLine(x.time, i, "heroic_strike", y, heroic)>>, Thrown(m, i, y))
      ELSE Settled(m, x, white, <<SwingLine(x.time, i, w, white)>>, Thrown(m, i, w))

Acted(m, x, a, f) ==
  LET i   == x.unit
      y   == Draw(m, i, "mortal", f)
      sts == Performed(m.states, i, a, x.time, y)
  IN  IF a = "CastMortalStrike"
      THEN Settled(m, x, sts, <<AbilityLine(x.time, i, "mortal_strike", y, sts)>> \o <<DecisionOf(x, a)>>,
                   Thrown(m, i, y))
      ELSE Settled(m, x, sts, <<>> \o <<DecisionOf(x, a)>>, m.thrown)

\* Something of the match itself is due at x, or the action there is applied.
IsDue(m, x) ==
  \/ x.kind = Checkpoint /\ x.unit = 0 /\ x.time = (m.checkpoints + 1) * CHECKPOINT_INTERVAL_MS
  \/ x.kind = MatchEnd /\ x.unit = 0 /\ x.time = duration_ms
  \/ x.kind = Swing /\ x.unit \in Slots /\ Units[x.unit].attacks /\ x.time = m.states[x.unit].next_swing_ms

Applies(m, x, a) == x.kind = Decide /\ x.unit \in Slots /\ a \in Legal(m.states, x.unit, x.time) \ {"None"}

Effect(m, x, a, f) ==
  IF Over(m) \/ ~(IsDue(m, x) \/ Applies(m, x, a)) THEN m
  ELSE IF x.kind = Checkpoint
  THEN [states |-> m.states, checkpoints |-> m.checkpoints + 1,
        sunk |-> m.sunk \o <<[type |-> "checkpoint", t |-> x.time, hash |-> m.states]>>,
        thrown |-> m.thrown, stands |-> "on"]
  ELSE IF x.kind = MatchEnd
  THEN [states |-> m.states, checkpoints |-> m.checkpoints,
        sunk |-> m.sunk \o <<EndOf(x.time, "duration")>>, thrown |-> m.thrown, stands |-> "over"]
  ELSE IF x.kind = Swing THEN Swung(m, x, f) ELSE Acted(m, x, a, f)

Extends(f, dice) == \A k \in DOMAIN dice : f[k] = dice[k]

\* The cursors of both units.
ThrownOK == thrown = [i \in Slots |-> thrown[i]]

\* What was handled last is not due again.
Spent == status # "Ended" => ~IsDue(Now, SpotOf(last))

\* The event e was handled, with the effect of its spot.
Handled(e) ==
  /\ last' = e /\ IsTop(queue, e) /\ e \in queue.heap /\ status = "Advancing"
  /\ ThrownOK'
  /\ \A f : Extends(f, drawn') => Extends(f, drawn)
  /\ \A f, a : Extends(f, drawn') => Now' = Effect(Now, SpotOf(e), a, f)

LEMMA KindsDiffer ==
  /\ Checkpoint # MatchEnd /\ Checkpoint # Decide /\ Checkpoint # Swing
  /\ MatchEnd # Decide /\ MatchEnd # Swing /\ Decide # Swing
  BY DEF Checkpoint, MatchEnd, Decide, Swing

\* A run throws as every table that extends its dice says.
LEMMA RolledAgrees ==
  ASSUME NEW throws, Rolled(throws)
  PROVE  /\ ThrownOK'
         /\ \A f : Extends(f, drawn') =>
              Extends(f, drawn) /\ \A i \in DOMAIN throws : f[<<i, throws[i].kind, thrown[i]>>] = throws[i].result
<1> DEFINE key(i) == <<i, throws[i].kind, thrown[i]>>
<1>1. /\ \A i \in DOMAIN throws : key(i) \in DOMAIN drawn => drawn[key(i)] = throws[i].result
      /\ drawn' = [k \in DOMAIN drawn \cup {key(i) : i \in DOMAIN throws} |->
                     IF k \in DOMAIN drawn THEN drawn[k] ELSE throws[k[1]].result]
      /\ thrown' = [i \in Slots |->
                      IF i \in DOMAIN throws THEN Append(thrown[i], throws[i].result) ELSE thrown[i]]
  BY DEF Rolled
<1>2. \A i : key(i)[1] = i
  OBVIOUS
<1> HIDE DEF key
<1>3. ASSUME NEW f, Extends(f, drawn') PROVE Extends(f, drawn)
  BY <1>1, <1>3 DEF Extends
<1>4. ASSUME NEW f, Extends(f, drawn'), NEW i \in DOMAIN throws PROVE f[key(i)] = throws[i].result
  <2>1. key(i) \in DOMAIN drawn' /\ drawn'[key(i)] = throws[i].result
    BY <1>1, <1>2
  <2>2. QED
    BY <1>4, <2>1 DEF Extends
<1>5. ThrownOK'
  BY <1>1 DEF ThrownOK
<1>6. QED
  BY <1>3, <1>4, <1>5 DEF key

\* Without a throw the dice and the cursors stand still.
LEMMA NothingRolled ==
  ASSUME ThrownOK, Rolled(<<>>)
  PROVE  /\ ThrownOK' /\ thrown' = thrown
         /\ \A f : Extends(f, drawn') => Extends(f, drawn)
<1>1. DOMAIN <<>> = {}
  OBVIOUS
<1>2. thrown' = [i \in Slots |-> thrown[i]]
  BY <1>1 DEF Rolled
<1>3. QED
  BY <1>2, RolledAgrees DEF ThrownOK

LEMMA NoLines ==
  ASSUME sunk \in Seq(SunkLine), Sinks(<<>>), status' # "Ended"
  PROVE  sunk' = sunk
  BY DEF Sinks, EndLines

\* What a run keeps whoever drives it and wherever its dice come from.
Sound(on) == Runs(on) /\ SinkOK /\ ThrownOK /\ Spent

LEMMA SoundTypes ==
  ASSUME NEW on, Sound(on)
  PROVE  /\ IInv /\ TypeOK /\ EndQueued /\ SecondQueued /\ ThrownOK
         /\ sunk \in Seq(SunkLine) /\ res \in MatchResult /\ states \in [Slots -> UnitState]
  BY DEF Sound, Runs, TInv, Schedule, IInv, TypeOK, SinkOK

LEMMA CheckpointHandled ==
  ASSUME NEW on, Sound(on), NEW e \in queue.heap, CheckpointEvent(e), Sinks(<<CheckpointLine>>),
         Rolled(<<>>)
  PROVE  Handled(e)
<1>1. /\ last' = e /\ IsTop(queue, e) /\ status = "Advancing" /\ status' = "Advancing"
      /\ e.kind = Checkpoint /\ e \in Queued(queue, Checkpoint)
      /\ res' = [res EXCEPT !.checkpoints = @ + 1] /\ states' = states
  BY DEF CheckpointEvent, Pops, Queued
<1>2. ThrownOK' /\ thrown' = thrown /\ \A f : Extends(f, drawn') => Extends(f, drawn)
  BY NothingRolled DEF Sound
<1>3. e.time_ms = (res.checkpoints + 1) * CHECKPOINT_INTERVAL_MS /\ e.source_id = 0
  BY <1>1, SoundTypes DEF SecondQueued, second, OfTheMatch
<1>4. res'.checkpoints = res.checkpoints + 1
  BY <1>1, SoundTypes DEF MatchResult
<1>5. sunk' = sunk \o <<[type |-> "checkpoint", t |-> e.time_ms, hash |-> states]>>
  <2>1. CheckpointLine = [type |-> "checkpoint", t |-> e.time_ms, hash |-> states]
    BY <1>1 DEF CheckpointLine
  <2>2. sunk' = sunk \o <<CheckpointLine>> \o <<>>
    BY <1>1 DEF Sinks, EndLines
  <2>3. sunk \o <<CheckpointLine>> \in Seq(SunkLine \cup {CheckpointLine})
    BY SoundTypes
  <2>4. QED
    BY <2>1, <2>2, <2>3
<1>6. ASSUME NEW f, NEW a PROVE Now' = Effect(Now, SpotOf(e), a, f)
  <2>1. ~Over(Now) /\ IsDue(Now, SpotOf(e)) /\ SpotOf(e).kind = Checkpoint /\ SpotOf(e).time = e.time_ms
    BY <1>1, <1>3 DEF Over, Now, IsDue, SpotOf, due
  <2>2. QED
    BY <1>1, <1>2, <1>4, <1>5, <2>1 DEF Effect, Now
<1>7. QED
  BY <1>1, <1>2, <1>6 DEF Handled

LEMMA EndHandled ==
  ASSUME NEW on, Sound(on), NEW e \in queue.heap, MatchEndEvent(e), Sinks(<<>>), Rolled(<<>>)
  PROVE  Handled(e)
<1>1. /\ last' = e /\ IsTop(queue, e) /\ status = "Advancing" /\ status' = "Ended"
      /\ e.kind = MatchEnd /\ e \in Queued(queue, MatchEnd)
      /\ res' = [res EXCEPT !.end_ms = e.time_ms, !.end_reason = "duration"] /\ states' = states
  BY DEF MatchEndEvent, Pops, Queued
<1>2. ThrownOK' /\ thrown' = thrown /\ \A f : Extends(f, drawn') => Extends(f, drawn)
  BY NothingRolled DEF Sound
<1>3. e.time_ms = duration_ms /\ e.source_id = 0
  BY <1>1, SoundTypes DEF EndQueued, OfTheMatch
<1>4. /\ res'.checkpoints = res.checkpoints /\ res'.end_ms = e.time_ms /\ res'.end_reason = "duration"
  BY <1>1, SoundTypes DEF MatchResult
<1>5. sunk' = sunk \o <<EndOf(e.time_ms, "duration")>>
  <2>1. sunk' = sunk \o <<>> \o <<EndOf(e.time_ms, "duration")>>
    BY <1>1, <1>4 DEF Sinks, EndLines, EndOf
  <2>2. QED
    BY <2>1, SoundTypes
<1>6. ASSUME NEW f, NEW a PROVE Now' = Effect(Now, SpotOf(e), a, f)
  <2>1. ~Over(Now) /\ IsDue(Now, SpotOf(e)) /\ SpotOf(e).kind = MatchEnd /\ SpotOf(e).time = e.time_ms
    BY <1>1, <1>3 DEF Over, Now, IsDue, SpotOf, due
  <2>2. QED
    BY <1>1, <1>2, <1>4, <1>5, <2>1, KindsDiffer DEF Effect, Now
<1>7. QED
  BY <1>1, <1>2, <1>6 DEF Handled

LEMMA QuietHandled ==
  ASSUME NEW on, Sound(on), NEW e \in queue.heap, DecideEvent(e) \/ StaleSwing(e), Sinks(<<>>),
         Rolled(<<>>)
  PROVE  Handled(e)
<1>1. /\ last' = e /\ IsTop(queue, e) /\ status = "Advancing" /\ status' # "Ended"
      /\ states' = states /\ res' = res
      /\ \/ e.kind = Decide /\ e \in Queued(queue, Decide)
         \/ e.kind = Swing /\ IsStale(e)
  BY DEF DecideEvent, StaleSwing, Pops, Queued
<1>2. ThrownOK' /\ thrown' = thrown /\ \A f : Extends(f, drawn') => Extends(f, drawn)
  BY NothingRolled DEF Sound
<1>3. sunk' = sunk
  BY <1>1, NoLines, SoundTypes
<1>4. Now' = Now
  BY <1>1, <1>2, <1>3 DEF Now
<1>5. e.kind = Decide => e.source_id = 0
  BY <1>1, KindsDiffer DEF Sound, Runs, TInv, Schedule, TickQueued, OfTheMatch
<1>6. ASSUME NEW f, NEW a PROVE Now' = Effect(Now, SpotOf(e), a, f)
  <2>1. ~IsDue(Now, SpotOf(e))
    BY <1>1, KindsDiffer DEF IsDue, SpotOf, due, IsStale, Now
  <2>2. ~Applies(Now, SpotOf(e), a)
    BY <1>1, <1>5, KindsDiffer DEF Applies, SpotOf, due, Slots
  <2>3. QED
    BY <1>4, <2>1, <2>2 DEF Effect
<1>7. QED
  BY <1>1, <1>2, <1>6 DEF Handled

\* A swing that lands settles the moment.
LEMMA SettledNow ==
  ASSUME NEW on, Sound(on), NEW e \in queue.heap, NEW sts, NEW q, NEW counted \in MatchResult,
         NEW lines, NEW dice,
         FinishSwing(e, sts, q, counted), states' = sts, status = "Advancing",
         counted.checkpoints = res.checkpoints, e.target_id = Enemy(e.source_id),
         Sinks(lines), thrown' = dice
  PROVE  Now' = Settled(Now, SpotOf(e), sts, lines, dice)
<1> DEFINE dead == sts[Enemy(e.source_id)].hp = 0
<1>1. SpotOf(e).unit = e.source_id /\ SpotOf(e).time = e.time_ms
  BY DEF SpotOf, due
<1>2. CASE dead
  <2>1. res' = EndedByDeath(counted, e.time_ms) /\ status' = "Ended"
    BY <1>2 DEF FinishSwing
  <2>2. /\ res'.checkpoints = res.checkpoints /\ res'.end_ms = e.time_ms /\ res'.end_reason = "death"
    BY <2>1 DEF EndedByDeath, MatchResult
  <2>3. sunk' = sunk \o lines \o <<EndOf(e.time_ms, "death")>>
    BY <2>1, <2>2 DEF Sinks, EndLines, EndOf
  <2>4. QED
    BY <1>1, <1>2, <2>1, <2>2, <2>3 DEF Settled, Now
<1>3. CASE ~dead
  <2>1. res' = counted /\ status' = "Advancing"
    BY <1>3 DEF FinishSwing
  <2>2. sunk' = sunk \o lines \o <<>>
    BY <2>1 DEF Sinks, EndLines
  <2>3. QED
    BY <1>1, <1>3, <2>1, <2>2 DEF Settled, Now
<1>4. QED
  BY <1>2, <1>3

LEMMA AbilityCounted ==
  ASSUME NEW r \in MatchResult, NEW c, c = [r EXCEPT !.abilities = @ + 1]
  PROVE  c \in MatchResult /\ c.checkpoints = r.checkpoints
  BY DEF MatchResult

LEMMA SwingCounted ==
  ASSUME NEW r \in MatchResult, NEW c, c = [r EXCEPT !.swings = @ + 1]
  PROVE  c \in MatchResult /\ c.checkpoints = r.checkpoints
  BY DEF MatchResult

LEMMA HeroicHandled ==
  ASSUME NEW on, Sound(on), NEW e \in Queued(queue, Swing), NEW y \in HeroicResults[e.source_id],
         HeroicSwing(e, y),
         Sinks(<<AbilityLine(e.time_ms, e.source_id, "heroic_strike", y, states')>>),
         Rolled([i \in {e.source_id} |-> Throw("heroic", y)])
  PROVE  Handled(e)
<1> DEFINE src     == e.source_id
           sts     == AfterHeroic(states, src, y, e.time_ms)
           counted == [res EXCEPT !.abilities = @ + 1]
           lines   == <<AbilityLine(e.time_ms, src, "heroic_strike", y, sts)>>
           dice    == Thrown(Now, src, y)
<1>1. /\ Lands(e) /\ UsesHeroicStrike(states[src]) /\ states' = sts
      /\ FinishSwing(e, sts, pop(queue, e), counted)
  BY DEF HeroicSwing
<1>2. /\ last' = e /\ IsTop(queue, e) /\ status = "Advancing" /\ e \in queue.heap
      /\ e.kind = Swing /\ e.time_ms = states[src].next_swing_ms
  BY <1>1 DEF Lands, Pops, IsStale, Queued
<1>3. src \in Slots /\ e.target_id = Enemy(src) /\ Units[src].attacks
  BY SoundTypes, SwingOfAnAttacker DEF IInv, SwingEvents
<1>4. counted \in MatchResult /\ counted.checkpoints = res.checkpoints
  <2>1. PICK r : r = res /\ r \in MatchResult
    BY SoundTypes
  <2>2. PICK c : c = [r EXCEPT !.abilities = @ + 1]
    OBVIOUS
  <2>3. c \in MatchResult /\ c.checkpoints = r.checkpoints
    BY ONLY <2>1, <2>2, AbilityCounted
  <2>4. QED
    BY <2>1, <2>2, <2>3
<1>5. /\ ThrownOK'
      /\ \A f : Extends(f, drawn') => Extends(f, drawn) /\ f[<<src, "heroic", thrown[src]>>] = y
  BY RolledAgrees DEF Throw
<1>6. thrown' = dice
  BY DEF Rolled, Throw, Thrown, Now
<1>7. Now' = Settled(Now, SpotOf(e), sts, lines, dice)
  <2>1. Sinks(lines)
    BY <1>1
  <2> HIDE DEF sts, counted, lines, dice
  <2>2. QED
    BY <1>1, <1>2, <1>3, <1>4, <1>6, <2>1, SettledNow
<1>8. ASSUME NEW f, NEW a, Extends(f, drawn') PROVE Now' = Effect(Now, SpotOf(e), a, f)
  <2>1. ~Over(Now) /\ IsDue(Now, SpotOf(e)) /\ SpotOf(e).kind = Swing
        /\ SpotOf(e).unit = src /\ SpotOf(e).time = e.time_ms
    BY <1>2, <1>3 DEF Over, Now, IsDue, SpotOf, due
  <2>2. Effect(Now, SpotOf(e), a, f) = Swung(Now, SpotOf(e), f)
    BY <2>1, KindsDiffer DEF Effect
  <2>3. Draw(Now, src, "heroic", f) = y
    BY <1>5, <1>8 DEF Draw, Now
  <2>4. Now.states = states
    BY DEF Now
  <2>5. QED
    BY <1>1, <1>7, <2>1, <2>2, <2>3, <2>4 DEF Swung
<1>9. QED
  BY <1>2, <1>5, <1>8 DEF Handled

LEMMA WhiteHandled ==
  ASSUME NEW on, Sound(on), NEW e \in Queued(queue, Swing), NEW w \in WhiteResults[e.source_id],
         WhiteSwing(e, w),
         Sinks(<<SwingLine(e.time_ms, e.source_id, w, states')>>),
         Rolled([i \in {e.source_id} |-> Throw("white", w)])
  PROVE  Handled(e)
<1> DEFINE src     == e.source_id
           sts     == AfterWhite(states, src, w, e.time_ms)
           q       == push_hastened(pop(queue, e), e.target_id, w.outcome, e.time_ms)
           counted == [res EXCEPT !.swings = @ + 1]
           lines   == <<SwingLine(e.time_ms, src, w, sts)>>
           dice    == Thrown(Now, src, w)
<1>1. /\ Lands(e) /\ ~UsesHeroicStrike(states[src]) /\ states' = sts
      /\ FinishSwing(e, sts, q, counted)
  BY DEF WhiteSwing
<1>2. /\ last' = e /\ IsTop(queue, e) /\ status = "Advancing" /\ e \in queue.heap
      /\ e.kind = Swing /\ e.time_ms = states[src].next_swing_ms
  BY <1>1 DEF Lands, Pops, IsStale, Queued
<1>3. src \in Slots /\ e.target_id = Enemy(src) /\ Units[src].attacks
  BY SoundTypes, SwingOfAnAttacker DEF IInv, SwingEvents
<1>4. counted \in MatchResult /\ counted.checkpoints = res.checkpoints
  <2>1. PICK r : r = res /\ r \in MatchResult
    BY SoundTypes
  <2>2. PICK c : c = [r EXCEPT !.swings = @ + 1]
    OBVIOUS
  <2>3. c \in MatchResult /\ c.checkpoints = r.checkpoints
    BY ONLY <2>1, <2>2, SwingCounted
  <2>4. QED
    BY <2>1, <2>2, <2>3
<1>5. /\ ThrownOK'
      /\ \A f : Extends(f, drawn') => Extends(f, drawn) /\ f[<<src, "white", thrown[src]>>] = w
  BY RolledAgrees DEF Throw
<1>6. thrown' = dice
  BY DEF Rolled, Throw, Thrown, Now
<1>7. Now' = Settled(Now, SpotOf(e), sts, lines, dice)
  <2>1. Sinks(lines)
    BY <1>1
  <2> HIDE DEF sts, q, counted, lines, dice
  <2>2. QED
    BY <1>1, <1>2, <1>3, <1>4, <1>6, <2>1, SettledNow
<1>8. ASSUME NEW f, NEW a, Extends(f, drawn') PROVE Now' = Effect(Now, SpotOf(e), a, f)
  <2>1. ~Over(Now) /\ IsDue(Now, SpotOf(e)) /\ SpotOf(e).kind = Swing
        /\ SpotOf(e).unit = src /\ SpotOf(e).time = e.time_ms
    BY <1>2, <1>3 DEF Over, Now, IsDue, SpotOf, due
  <2>2. Effect(Now, SpotOf(e), a, f) = Swung(Now, SpotOf(e), f)
    BY <2>1, KindsDiffer DEF Effect
  <2>3. Draw(Now, src, "white", f) = w
    BY <1>5, <1>8 DEF Draw, Now
  <2>4. Now.states = states
    BY DEF Now
  <2>5. QED
    BY <1>1, <1>7, <2>1, <2>2, <2>3, <2>4 DEF Swung
<1>9. QED
  BY <1>2, <1>5, <1>8 DEF Handled

\* Every event has the effect of its spot.
LEMMA EventHandled ==
  ASSUME NEW on, Sound(on), RunsEvent
  PROVE  \E e \in queue.heap : Handled(e)
<1>1. ASSUME NEW e \in queue.heap,
             \/ CheckpointEvent(e) /\ Sinks(<<CheckpointLine>>) /\ Rolled(<<>>)
             \/ MatchEndEvent(e) /\ Sinks(<<>>) /\ Rolled(<<>>)
             \/ DecideEvent(e) /\ Sinks(<<>>) /\ Rolled(<<>>)
      PROVE  Handled(e)
  BY <1>1, CheckpointHandled, EndHandled, QuietHandled
<1>2. ASSUME NEW e \in Queued(queue, Swing),
             \/ StaleSwing(e) /\ Sinks(<<>>) /\ Rolled(<<>>)
             \/ \E y \in HeroicResults[e.source_id] :
                  /\ HeroicSwing(e, y)
                  /\ Sinks(<<AbilityLine(e.time_ms, e.source_id, "heroic_strike", y, states')>>)
                  /\ Rolled([i \in {e.source_id} |-> Throw("heroic", y)])
             \/ \E w \in WhiteResults[e.source_id] :
                  /\ WhiteSwing(e, w)
                  /\ Sinks(<<SwingLine(e.time_ms, e.source_id, w, states')>>)
                  /\ Rolled([i \in {e.source_id} |-> Throw("white", w)])
      PROVE  Handled(e) /\ e \in queue.heap
  <2>1. e \in queue.heap
    BY DEF Queued
  <2>2. QED
    BY <1>2, <2>1, QuietHandled, HeroicHandled, WhiteHandled
<1>3. QED
  BY <1>1, <1>2 DEF RunsEvent

-----------------------------------------------------------------------------
(* The order of the spots.                                                 *)

LEMMA SpotAt ==
  ASSUME NEW p \in Nat
  PROVE  \E x \in Spot : Pos(x) = p
<1> DEFINE t == p \div 12
           r == p % 12
           k == r \div 3
           u == r % 3
           x == due(t, k, u)
<1>1. t \in Nat /\ r \in 0..11 /\ p = 12 * t + r
  OBVIOUS
<1>2. k \in 0..3 /\ u \in 0..2 /\ r = 3 * k + u
  BY <1>1
<1> HIDE DEF t, r, k, u
<1>3. x \in Spot
  BY <1>1, <1>2 DEF due, Spot, Kind, EntityId, Checkpoint, MatchEnd, Decide, Swing
<1>4. Pos(x) = p
  BY <1>1, <1>2 DEF Pos, place, due
<1>5. QED
  BY <1>3, <1>4

LEMMA SpotParts ==
  ASSUME NEW x \in Spot
  PROVE  /\ x.time \in Nat /\ x.kind \in 0..3 /\ x.unit \in 0..2 /\ Pos(x) \in Nat
         /\ Pos(x) = 12 * x.time + 3 * x.kind + x.unit
<1>1. x.time \in Nat /\ x.kind \in 0..3 /\ x.unit \in 0..2
  BY DEF Spot, Kind, EntityId, Checkpoint, MatchEnd, Decide, Swing
<1>2. QED
  BY <1>1 DEF Pos, place

LEMMA SpotIsUnique ==
  ASSUME NEW x \in Spot, NEW z \in Spot, Pos(x) = Pos(z)
  PROVE  x = z
<1>1. x.time = z.time /\ x.kind = z.kind /\ x.unit = z.unit
  BY SpotParts, SMTT(30)
<1>2. QED
  BY <1>1 DEF Spot

LEMMA EventSpot ==
  ASSUME TypeOK, NEW e \in queue.heap
  PROVE  SpotOf(e) \in Spot /\ Pos(SpotOf(e)) = PlaceOf(e)
  BY DEF TypeOK, Event, SpotOf, due, Spot, Pos, PlaceOf

\* Where the run comes to with an event.
LEMMA EventPasses ==
  ASSUME NEW on, Sound(on), RunsEvent, NEW e \in queue.heap, Handled(e)
  PROVE  /\ passed' = PlaceOf(e) /\ passed <= PlaceOf(e) /\ passed \in Nat
         /\ SpotOf(e) \in Spot /\ Pos(SpotOf(e)) = PlaceOf(e)
<1>1. /\ last' = e /\ status = "Advancing" /\ IsTop(queue, e)
  BY DEF Handled
<1>2. /\ passed <= PlaceOf(e) /\ SpotOf(e) \in Spot /\ Pos(SpotOf(e)) = PlaceOf(e)
  BY <1>1, PopPasses, EventSpot, SoundTypes DEF Sound
<1>3. last.kind = Decide \/ last.kind # Decide
  OBVIOUS
<1>4. passed \in Nat
  <2>1. last.time_ms \in Nat /\ last.kind \in Kind /\ last.source_id \in EntityId
    BY SoundTypes DEF TypeOK
  <2>2. PICK t \in Nat, k \in 0..3, i \in 0..2 :
          t = last.time_ms /\ k = last.kind /\ i = last.source_id
    BY <2>1 DEF Kind, EntityId, Checkpoint, MatchEnd, Decide, Swing
  <2>3. PlaceOf(last) = 12 * t + 3 * k + i
    BY <2>2 DEF PlaceOf, place
  <2>4. 12 * t + 3 * k + i \in Nat /\ 12 * t + 3 * k + i + 2 \in Nat
    BY <2>2
  <2>5. PlaceOf(last) \in Nat /\ PlaceOf(last) + 0 \in Nat /\ PlaceOf(last) + 2 \in Nat
    BY <2>3, <2>4
  <2>6. QED
    BY <2>5 DEF passed
<1>5. e.kind = Decide => status' = "AwaitingActions"
  <2>1. SUFFICES ASSUME e.kind = Decide PROVE status' = "AwaitingActions"
    OBVIOUS
  <2>2. \A o \in queue.heap : CheckpointEvent(o) \/ MatchEndEvent(o) \/ StaleSwing(o) \/ Lands(o)
          => last' = o /\ o.kind # Decide
    BY KindsDiffer DEF CheckpointEvent, MatchEndEvent, StaleSwing, Lands, Pops
  <2>3. \E o \in queue.heap : DecideEvent(o)
    BY <1>1, <2>1, <2>2 DEF RunsEvent, Queued, HeroicSwing, WhiteSwing
  <2>4. QED
    BY <2>3 DEF DecideEvent
<1>6. passed' = PlaceOf(e)
  <2>1. PlaceOf(e) \in Nat
    BY <1>2, SpotParts
  <2>2. CASE e.kind = Decide
    BY <1>1, <1>5, <2>1, <2>2 DEF passed
  <2>3. CASE e.kind # Decide
    BY <1>1, <2>1, <2>3 DEF passed
  <2>4. QED
    BY <2>2, <2>3
<1>7. QED
  BY <1>2, <1>4, <1>6

\* Nothing is due before the first event of the queue.
LEMMA NothingDueBefore ==
  ASSUME NEW on, Sound(on), status = "Advancing", NEW e \in queue.heap, IsTop(queue, e),
         NEW x \in Spot, Pos(x) < PlaceOf(e)
  PROVE  ~IsDue(Now, x)
<1>1. /\ \A o \in queue.heap : PlaceOf(e) <= PlaceOf(o)
      /\ \A o \in queue.heap : PlaceOf(o) \in Int
      /\ PlaceOf(e) \in Int /\ Pos(x) \in Int
  BY PopPasses, SpotParts, EventSpot, SoundTypes DEF Sound
<1>2. SUFFICES ASSUME IsDue(Now, x) PROVE \E o \in queue.heap : PlaceOf(o) <= Pos(x)
  BY <1>1
<1>3. EndQueued /\ SecondQueued /\ NoLostSwing /\ res.checkpoints \in Nat /\ queue.heap \subseteq Event
  BY SoundTypes DEF IInv, TypeOK, MatchResult
<1>4. PICK end \in queue.heap : end.kind = MatchEnd /\ end.time_ms = duration_ms /\ end.source_id = 0
  BY <1>3 DEF EndQueued, OfTheMatch, Queued
<1>5. ASSUME NEW o \in queue.heap, SpotOf(o) = x PROVE PlaceOf(o) <= Pos(x)
  BY <1>1, <1>5, EventSpot, SoundTypes
<1>6. CASE x.kind = Checkpoint /\ x.unit = 0 /\ x.time = (res.checkpoints + 1) * CHECKPOINT_INTERVAL_MS
  <2>1. x.time = second
    BY <1>6 DEF second
  <2>2. CASE second <= duration_ms
    <3>1. PICK o \in queue.heap : o.kind = Checkpoint /\ o.time_ms = second /\ o.source_id = 0
      BY <1>3, <2>2 DEF SecondQueued, OfTheMatch, Queued
    <3>2. SpotOf(o) = x
      BY <1>6, <2>1, <3>1 DEF SpotOf, due, Spot
    <3>3. QED
      BY <1>5, <3>2
  <2>3. CASE ~(second <= duration_ms)
    <3>1. duration_ms < x.time /\ duration_ms \in Nat
      BY <2>1, <2>3, SpotParts, TimesAssumption
    <3>2. PlaceOf(end) = 12 * duration_ms + 3
      BY <1>4, <3>1 DEF PlaceOf, place, MatchEnd
    <3>3. PlaceOf(end) <= Pos(x)
      BY <3>1, <3>2, SpotParts
    <3>4. QED
      BY <3>3
  <2>4. QED
    BY <2>2, <2>3
<1>7. CASE x.kind = MatchEnd /\ x.unit = 0 /\ x.time = duration_ms
  <2>1. SpotOf(end) = x
    BY <1>4, <1>7 DEF SpotOf, due, Spot
  <2>2. QED
    BY <1>5, <2>1
<1>8. CASE x.kind = Swing /\ x.unit \in Slots /\ Units[x.unit].attacks
           /\ x.time = states[x.unit].next_swing_ms
  <2>1. PICK o \in Queued(queue, Swing) : o.source_id = x.unit /\ o.time_ms = states[x.unit].next_swing_ms
    BY <1>3, <1>8 DEF NoLostSwing
  <2>2. SpotOf(o) = x /\ o \in queue.heap
    BY <1>8, <2>1 DEF SpotOf, due, Spot, Queued
  <2>3. QED
    BY <1>5, <2>2
<1>9. QED
  BY <1>2, <1>6, <1>7, <1>8 DEF IsDue, Now

\* With ticks, no tick of the grid is left out.
LEMMA TicksInTurn ==
  ASSUME NEW on, on = TRUE, Sound(on), status = "Advancing", NEW e \in queue.heap, IsTop(queue, e),
         NEW x \in Spot, x.kind = Decide, x.unit \in Slots, x.time \in Grid, passed < Pos(x)
  PROVE  PlaceOf(e) < Pos(x)
<1>1. /\ \A o \in queue.heap : PlaceOf(e) <= PlaceOf(o)
      /\ \A o \in queue.heap : PlaceOf(o) \in Int
      /\ PlaceOf(e) \in Int
  <2>1. Runs(on) /\ TypeOK
    BY SoundTypes DEF Sound
  <2>2. \A o \in queue.heap : PlaceOf(o) \in Int
    BY <2>1, SpotParts, EventSpot
  <2>3. QED
    BY <2>1, <2>2, PopPasses
<1>2. x.time \in Nat /\ x.unit \in 1..2 /\ Pos(x) = 12 * x.time + 6 + x.unit
  BY SpotParts DEF Decide, Slots
<1>3. /\ last.time_ms \in Nat /\ last.kind \in 0..3 /\ last.source_id \in 0..2
      /\ last.kind = Decide => last.source_id = 0
  <2>1. last.time_ms \in Nat /\ last.kind \in Kind /\ last.source_id \in EntityId
    BY SoundTypes DEF TypeOK
  <2>2. last.kind = Decide => last.source_id = 0
    BY DEF Sound, Runs, Ticks
  <2>3. QED
    BY <2>1, <2>2 DEF Kind, EntityId, Checkpoint, MatchEnd, Decide, Swing
<1>4. CASE x.time < duration_ms
  <2>1. passed < place(x.time, Decide, 0)
    BY <1>2, <1>3 DEF passed, PlaceOf, place, Decide
  <2>2. PICK o \in Queued(queue, Decide) : o.time_ms <= x.time
    BY <1>4, <2>1 DEF Sound, Runs, Ticks
  <2>3. o \in queue.heap /\ o.kind = Decide /\ o.source_id = 0 /\ o.time_ms \in Nat
    BY <2>2, SoundTypes DEF Queued, Sound, Runs, TInv, Schedule, TickQueued, OfTheMatch, TypeOK, Event
  <2>4. PlaceOf(o) < Pos(x)
    BY <1>2, <2>2, <2>3 DEF PlaceOf, place, Decide
  <2>5. QED
    BY <1>1, <1>2, <2>3, <2>4
<1>5. CASE ~(x.time < duration_ms)
  <2>1. PICK end \in queue.heap : end.kind = MatchEnd /\ end.time_ms = duration_ms /\ end.source_id = 0
    BY SoundTypes DEF EndQueued, OfTheMatch, Queued
  <2>2. PlaceOf(end) = 12 * duration_ms + 3 /\ duration_ms \in Nat
    BY <2>1, TimesAssumption DEF PlaceOf, place, MatchEnd
  <2>3. PlaceOf(end) < Pos(x)
    BY <1>2, <1>5, <2>2
  <2>4. QED
    BY <1>1, <1>2, <2>1, <2>3
<1>6. QED
  BY <1>4, <1>5

\* A swing that landed is not due again before its weapon is ready.
LEMMA SwungLater ==
  ASSUME NEW sts \in [Slots -> UnitState], NEW i \in Slots, NEW y, NEW t \in Nat
  PROVE  AfterHeroic(sts, i, y, t)[i].next_swing_ms > t /\ AfterWhite(sts, i, y, t)[i].next_swing_ms > t
<1>1. Units[i].weapon_speed_ms \in Nat /\ Units[i].weapon_speed_ms > 0
  BY UnitsAssumption DEF UnitSpec
<1>2. sts[i] \in UnitState
  OBVIOUS
<1>3. /\ AfterHeroic(sts, i, y, t)[i].next_swing_ms = t + Units[i].weapon_speed_ms
      /\ AfterWhite(sts, i, y, t)[i].next_swing_ms = t + Units[i].weapon_speed_ms
  BY <1>2 DEF AfterHeroic, AfterWhite, Swings, UnitState
<1>4. QED
  BY <1>1, <1>3

LEMMA EventSpent ==
  ASSUME NEW on, Sound(on), RunsEvent, NEW e \in queue.heap, Handled(e)
  PROVE  Spent'
<1> DEFINE x == SpotOf(e)
           f == drawn'
           n == Now'
<1>1. last' = e /\ n = Effect(Now, x, "None", f) /\ ~Over(Now)
  BY DEF Handled, Extends, Over, Now
<1>2. x \in Spot /\ res.checkpoints \in Nat /\ states \in [Slots -> UnitState]
  BY EventPasses, SoundTypes DEF MatchResult
<1>3. SUFFICES ASSUME status' # "Ended", IsDue(n, x) PROVE FALSE
  BY <1>1 DEF Spent, SpotOf
<1>4. ~Over(n)
  BY <1>3 DEF Over, Now
<1>5. Now.states = states /\ Now.checkpoints = res.checkpoints
  BY DEF Now
<1>6. x.time \in Nat
  BY <1>2, SpotParts
<1> HIDE DEF n, f, x
<1>7. ~Applies(Now, x, "None")
  BY DEF Applies
<1>8. CASE ~IsDue(Now, x)
  <2>1. n = Now
    BY <1>1, <1>7, <1>8 DEF Effect
  <2>2. QED
    BY <1>3, <1>8, <2>1
<1>9. CASE IsDue(Now, x) /\ x.kind = Checkpoint
  <2>1. n.checkpoints = res.checkpoints + 1
    BY <1>1, <1>5, <1>9 DEF Effect
  <2>2. QED
    BY <1>2, <1>3, <1>5, <1>9, <2>1, KindsDiffer DEF IsDue, CHECKPOINT_INTERVAL_MS
<1>10. CASE IsDue(Now, x) /\ x.kind = MatchEnd
  <2>1. n.stands = "over"
    BY <1>1, <1>10, KindsDiffer DEF Effect
  <2>2. QED
    BY <1>4, <2>1 DEF Over
<1>11. CASE IsDue(Now, x) /\ x.kind = Swing
  <2>1. x.unit \in Slots /\ n = Swung(Now, x, f)
    BY <1>1, <1>11, KindsDiffer DEF Effect, IsDue
  <2>2. n.states[x.unit].next_swing_ms > x.time
    BY <1>2, <1>5, <1>6, <2>1, SwungLater DEF Swung, Settled
  <2>3. n.states[x.unit].next_swing_ms = x.time
    BY <1>3, <1>11, KindsDiffer DEF IsDue
  <2>4. QED
    BY <1>6, <2>2, <2>3
<1>12. QED
  BY <1>8, <1>9, <1>10, <1>11 DEF IsDue

LEMMA EventSound ==
  ASSUME NEW on, Sound(on), RunsEvent
  PROVE  Sound(on)' /\ status = "Advancing"
<1>1. PICK e \in queue.heap : Handled(e)
  BY EventHandled
<1>2. ThrownOK'
  BY <1>1 DEF Handled
<1>3. Spent'
  BY <1>1, EventSpent
<1>4. Runs(on)' /\ SinkOK' /\ status = "Advancing"
  BY RunsEventKeeps, EventLines DEF Sound
<1>5. QED
  BY <1>2, <1>3, <1>4 DEF Sound

-----------------------------------------------------------------------------
(* A tick is answered.                                                     *)

TickSpot(i) == due(tick_t, Decide, i)

LEMMA TickSpots ==
  ASSUME TypeOK, NEW i \in Slots
  PROVE  /\ TickSpot(i) \in Spot /\ Pos(TickSpot(i)) = place(tick_t, Decide, 0) + i
         /\ TickSpot(i).time = tick_t /\ TickSpot(i).kind = Decide /\ TickSpot(i).unit = i
<1>1. tick_t \in Nat /\ i \in 1..2
  BY DEF TypeOK, Slots
<1>2. TickSpot(i) \in Spot
  BY <1>1 DEF TickSpot, due, Spot, Kind, EntityId
<1>3. TickSpot(i).time = tick_t /\ TickSpot(i).kind = Decide /\ TickSpot(i).unit = i
  BY DEF TickSpot, due
<1>4. Pos(TickSpot(i)) = place(tick_t, Decide, 0) + i
  BY <1>1, <1>3 DEF Pos, place, Decide
<1>5. QED
  BY <1>2, <1>3, <1>4

\* The moment after the action a of unit i, with counters r and the cast y.
ActionMoment(m, r, i, a, y) ==
  LET z    == [states |-> m.states, res |-> r]
      n    == apply_action(z, i, a, tick_t, y)
      dead == n.states[Enemy(i)].hp = 0
  IN  [states |-> n.states, checkpoints |-> m.checkpoints,
       sunk |-> m.sunk \o ActionLines(z, n, i, a, y)
                  \o (IF dead THEN <<EndOf(tick_t, "death")>> ELSE <<>>),
       thrown |-> IF CastIn(z, n) THEN Thrown(m, i, y) ELSE m.thrown,
       stands |-> IF dead THEN "over" ELSE "on"]

MayAct(m, r, i) ==
  /\ TypeOK /\ r \in MatchResult
  /\ m.states \in [Slots -> UnitState] /\ m.sunk \in Seq(SunkLine) /\ m.stands = "on"
  /\ m = [states |-> m.states, checkpoints |-> m.checkpoints, sunk |-> m.sunk,
          thrown |-> m.thrown, stands |-> m.stands]
  /\ m.states[Enemy(i)].hp # 0

CastAs(m, r, i, a, y, f) ==
  LET z == [states |-> m.states, res |-> r]
  IN  CastIn(z, apply_action(z, i, a, tick_t, y)) => Draw(m, i, "mortal", f) = y

\* What one action does to the units and the counters it does to the moment.
LEMMA ActionEffect ==
  ASSUME NEW m, NEW r, NEW i \in Slots, NEW a, NEW y, NEW f, MayAct(m, r, i), CastAs(m, r, i, a, y, f)
  PROVE  Effect(m, TickSpot(i), a, f) = ActionMoment(m, r, i, a, y)
<1> DEFINE z    == [states |-> m.states, res |-> r]
           n    == apply_action(z, i, a, tick_t, y)
           dead == n.states[Enemy(i)].hp = 0
           x    == TickSpot(i)
           goal == [states |-> n.states, checkpoints |-> m.checkpoints,
                    sunk |-> m.sunk \o ActionLines(z, n, i, a, y)
                               \o (IF dead THEN <<EndOf(tick_t, "death")>> ELSE <<>>),
                    thrown |-> IF CastIn(z, n) THEN Thrown(m, i, y) ELSE m.thrown,
                    stands |-> IF dead THEN "over" ELSE "on"]
<1>0. /\ TypeOK /\ r \in MatchResult
      /\ m.states \in [Slots -> UnitState] /\ m.sunk \in Seq(SunkLine) /\ m.stands = "on"
      /\ m = [states |-> m.states, checkpoints |-> m.checkpoints, sunk |-> m.sunk,
              thrown |-> m.thrown, stands |-> m.stands]
      /\ m.states[Enemy(i)].hp # 0
      /\ CastIn(z, n) => Draw(m, i, "mortal", f) = y
  BY DEF MayAct, CastAs
<1>1. /\ x.time = tick_t /\ x.kind = Decide /\ x.unit = i /\ x \in Spot
  BY <1>0, TickSpots
<1>2. ~Over(m) /\ ~IsDue(m, x)
  BY <1>0, <1>1, KindsDiffer DEF Over, IsDue
<1>3. r.decisions \in Nat /\ r.abilities \in Nat
  BY <1>0 DEF MatchResult
<1>4. z.states = m.states /\ z.res = r
  OBVIOUS
<1>40. SUFFICES Effect(m, x, a, f) = goal
  BY DEF ActionMoment
<1> HIDE DEF z
<1>5. CASE a = "None" \/ a \notin Legal(m.states, i, tick_t)
  <2>1. ~Applies(m, x, a)
    BY <1>1, <1>5 DEF Applies
  <2>2. Effect(m, x, a, f) = m
    BY <1>2, <2>1 DEF Effect
  <2>3. /\ n.states = m.states /\ n.res.decisions = r.decisions /\ n.res.abilities = r.abilities
    <3>1. n = z \/ n = [z EXCEPT !.res.illegal_actions = @ + 1]
      BY <1>4, <1>5 DEF apply_action
    <3>2. QED
      BY <1>0, <1>4, <3>1 DEF MatchResult, z
  <2>4. ~CastIn(z, n) /\ ~AppliedIn(z, n)
    BY <1>4, <2>3 DEF CastIn, AppliedIn
  <2>5. ActionLines(z, n, i, a, y) = <<>>
    BY <2>4 DEF ActionLines
  <2>6. ~dead
    BY <1>0, <2>3
  <2>7. m.sunk \o <<>> \o <<>> = m.sunk
    BY <1>0
  <2> HIDE DEF n
  <2>8. goal = [states |-> m.states, checkpoints |-> m.checkpoints, sunk |-> m.sunk,
                thrown |-> m.thrown, stands |-> "on"]
    BY <2>3, <2>4, <2>5, <2>6, <2>7
  <2>9. QED
    BY <1>0, <2>2, <2>8
<1>6. CASE a # "None" /\ a \in Legal(m.states, i, tick_t)
  <2>1. Applies(m, x, a)
    BY <1>1, <1>6 DEF Applies
  <2>2. Effect(m, x, a, f) = Acted(m, x, a, f)
    BY <1>1, <1>2, <2>1, KindsDiffer DEF Effect
  <2>3. n = [states |-> Performed(m.states, i, a, tick_t, y), res |-> Counted(r, a)]
    BY <1>4, <1>6 DEF apply_action
  <2>4. n.states = Performed(m.states, i, a, tick_t, y) /\ n.res = Counted(r, a)
    BY <2>3
  <2>5. /\ n.res.decisions = r.decisions + 1
        /\ n.res.abilities = IF a = "CastMortalStrike" THEN r.abilities + 1 ELSE r.abilities
    BY <1>0, <2>4 DEF Counted, MatchResult
  <2>6. AppliedIn(z, n) /\ (CastIn(z, n) <=> a = "CastMortalStrike")
    BY <1>3, <1>4, <2>5 DEF AppliedIn, CastIn
  <2>7. DecisionLine(i, a) = DecisionOf(x, a)
    BY <1>1 DEF DecisionLine, DecisionOf
  <2>8. CASE a = "CastMortalStrike"
    <3>1. Draw(m, i, "mortal", f) = y
      BY <1>0, <2>6, <2>8
    <3>2. ActionLines(z, n, i, a, y)
            = <<AbilityLine(tick_t, i, "mortal_strike", y, n.states)>> \o <<DecisionOf(x, a)>>
      BY <2>6, <2>7, <2>8 DEF ActionLines
    <3> HIDE DEF n
    <3>3. Acted(m, x, a, f)
            = Settled(m, x, n.states, ActionLines(z, n, i, a, y), Thrown(m, i, y))
      BY <1>1, <2>4, <2>8, <3>1, <3>2 DEF Acted
    <3>4. QED
      BY <1>1, <2>2, <2>6, <2>8, <3>3 DEF Settled
  <2>9. CASE a # "CastMortalStrike"
    <3>1. n.states = Performed(m.states, i, a, tick_t, Draw(m, i, "mortal", f))
      BY <2>4, <2>9 DEF Performed
    <3>2. ActionLines(z, n, i, a, y) = <<>> \o <<DecisionOf(x, a)>>
      BY <2>6, <2>7, <2>9 DEF ActionLines
    <3> HIDE DEF n
    <3>3. Acted(m, x, a, f) = Settled(m, x, n.states, ActionLines(z, n, i, a, y), m.thrown)
      BY <1>1, <2>9, <3>1, <3>2 DEF Acted
    <3>4. QED
      BY <1>1, <2>2, <2>6, <2>9, <3>3 DEF Settled
  <2>10. QED
    BY <2>8, <2>9
<1>7. QED
  BY <1>5, <1>6

\* The moment between the two actions of a tick.
Middle(a, y) ==
  LET z    == [states |-> states, res |-> res]
      dead == First(a, y).states[2].hp = 0
  IN  [states |-> First(a, y).states, checkpoints |-> res.checkpoints,
       sunk |-> sunk \o ActionLines(z, First(a, y), 1, a[1], y[1])
                     \o (IF dead THEN <<EndOf(tick_t, "death")>> ELSE <<>>),
       thrown |-> IF CastIn(z, First(a, y)) THEN Thrown(Now, 1, y[1]) ELSE thrown,
       stands |-> IF dead THEN "over" ELSE "on"]

\* What is thrown and written in a step with the casts y.
Recorded(a, y) ==
  LET z    == [states |-> states, res |-> res]
      one  == First(a, y)
      two  == Outcome(a, y)
      cast == {i \in Slots : IF i = 1 THEN CastIn(z, one) ELSE CastIn(one, two)}
  IN  /\ Step(a, y)
      /\ Sinks(ActionLines(z, one, 1, a[1], y[1]) \o ActionLines(one, two, 2, a[2], y[2]))
      /\ Rolled([i \in cast |-> Throw("mortal", y[i])])

LEMMA StepFacts ==
  ASSUME NEW on, Sound(on), NEW a, a[1] \in Action, a[2] \in Action, NEW y \in Casts, Recorded(a, y)
  PROVE  LET one == First(a, y)
             two == Outcome(a, y)
         IN  /\ status = "AwaitingActions" /\ tick_t \in Nat
             /\ one \in [states: [Slots -> UnitState], res: MatchResult]
             /\ two \in [states: [Slots -> UnitState], res: MatchResult]
             /\ one.states[1].hp # 0 /\ states[2].hp # 0 /\ two.states[2].hp = one.states[2].hp
             /\ two.res.checkpoints = res.checkpoints /\ one.res.checkpoints = res.checkpoints
             /\ states' = two.states /\ res'.checkpoints = res.checkpoints
             /\ IF two.states[1].hp = 0 \/ two.states[2].hp = 0
                THEN status' = "Ended" /\ res'.end_ms = tick_t /\ res'.end_reason = "death"
                ELSE status' = "Advancing"
             /\ two = IF one.states[2].hp = 0 THEN one ELSE apply_action(one, 2, a[2], tick_t, y[2])
             /\ y[1] \in YellowResult /\ y[2] \in YellowResult
<1> DEFINE was == [states |-> states, res |-> res]
           one == First(a, y)
           two == Outcome(a, y)
<1>1. IInv /\ Step(a, y) /\ TypeOK
  BY SoundTypes DEF Recorded
<1>2. /\ status = "AwaitingActions"
      /\ two \in [states: [Slots -> UnitState], res: MatchResult]
      /\ two.res.checkpoints = res.checkpoints
      /\ IF \E k \in Slots : two.states[k].hp = 0 THEN EndByDeath(two) ELSE Resume(two)
      /\ one \in [states: [Slots -> UnitState], res: MatchResult]
      /\ two.states[2].hp = one.states[2].hp
  BY <1>1, StepOutcome
<1>3. 1 \in Slots /\ 2 \in Slots /\ \A k \in Slots : k = 1 \/ k = 2
  BY DEF Slots
<1>4. y[1] \in YellowResult /\ y[2] \in YellowResult
  BY <1>3, ResultsAssumption DEF Casts
<1>5. was \in [states: [Slots -> UnitState], res: MatchResult] /\ was.states = states /\ was.res = res
      /\ tick_t \in Nat
  BY <1>1 DEF TypeOK
<1>6. one = apply_action(was, 1, a[1], tick_t, y[1])
  BY DEF First
<1>7. two = IF one.states[2].hp = 0 THEN one ELSE apply_action(one, 2, a[2], tick_t, y[2])
  BY DEF Outcome
<1> HIDE DEF was, one, two
<1>8. one.states[1].hp = states[1].hp /\ one.res.checkpoints = res.checkpoints
  BY <1>3, <1>4, <1>5, <1>6, ApplyType
<1>9. states[1].hp # 0 /\ states[2].hp # 0
  BY <1>1, <1>2, <1>3 DEF IInv, DeathEndsMatch
<1>10. (\E k \in Slots : two.states[k].hp = 0) <=> two.states[1].hp = 0 \/ two.states[2].hp = 0
  BY <1>3
<1>11. states' = two.states /\ res'.checkpoints = res.checkpoints
  <2>1. states' = two.states /\ (res' = two.res \/ res' = EndedByDeath(two.res, tick_t))
    BY <1>2 DEF EndByDeath, Resume
  <2>2. QED
    BY <1>2, <2>1 DEF EndedByDeath, MatchResult
<1>12. IF two.states[1].hp = 0 \/ two.states[2].hp = 0
       THEN status' = "Ended" /\ res'.end_ms = tick_t /\ res'.end_reason = "death"
       ELSE status' = "Advancing"
  BY <1>2, <1>10 DEF EndByDeath, Resume, EndedByDeath, MatchResult
<1>13. QED
  BY <1>2, <1>4, <1>5, <1>7, <1>8, <1>9, <1>11, <1>12 DEF one, two

LEMMA FirstEffect ==
  ASSUME NEW on, Sound(on), NEW a, a[1] \in Action, a[2] \in Action, NEW y \in Casts, Recorded(a, y),
         NEW f, Extends(f, drawn')
  PROVE  Middle(a, y) = Effect(Now, TickSpot(1), a[1], f)
<1> DEFINE z == [states |-> states, res |-> res]
           m == Now
<1>1. /\ m.states = states /\ m.sunk = sunk /\ m.thrown = thrown /\ m.checkpoints = res.checkpoints
      /\ m = [states |-> m.states, checkpoints |-> m.checkpoints, sunk |-> m.sunk,
              thrown |-> m.thrown, stands |-> m.stands]
  BY DEF Now
<1>2. m.stands = "on" /\ states[2].hp # 0
  BY StepFacts DEF Now
<1>3. First(a, y) = apply_action(z, 1, a[1], tick_t, y[1]) /\ 1 \in Slots /\ Enemy(1) = 2
  BY DEF First, Slots, Enemy
<1>4. CastIn(z, First(a, y)) => Draw(m, 1, "mortal", f) = y[1]
  <2> DEFINE cast == {i \in Slots : IF i = 1 THEN CastIn(z, First(a, y))
                                    ELSE CastIn(First(a, y), Outcome(a, y))}
  <2>1. Rolled([i \in cast |-> Throw("mortal", y[i])])
    BY DEF Recorded
  <2> HIDE DEF cast
  <2>2. \A i \in cast : f[<<i, "mortal", thrown[i]>>] = y[i]
    BY <2>1, RolledAgrees DEF Throw
  <2>3. CastIn(z, First(a, y)) => 1 \in cast
    BY <1>3 DEF cast
  <2>4. QED
    BY <1>1, <2>2, <2>3 DEF Draw
<1>5. TypeOK /\ res \in MatchResult /\ states \in [Slots -> UnitState] /\ sunk \in Seq(SunkLine)
  BY SoundTypes
<1> HIDE DEF m
<1>6. MayAct(m, res, 1) /\ CastAs(m, res, 1, a[1], y[1], f)
  BY <1>1, <1>2, <1>3, <1>4, <1>5 DEF MayAct, CastAs
<1>7. Effect(m, TickSpot(1), a[1], f) = ActionMoment(m, res, 1, a[1], y[1])
  BY <1>3, <1>6, ActionEffect
<1>8. ActionMoment(m, res, 1, a[1], y[1]) = Middle(a, y)
  BY <1>1, <1>3 DEF ActionMoment, Middle, m
<1>9. QED
  BY <1>7, <1>8 DEF m

LEMMA MiddleType ==
  ASSUME NEW on, Sound(on), NEW a, a[1] \in Action, a[2] \in Action, NEW y \in Casts, Recorded(a, y)
  PROVE  Middle(a, y).sunk \in Seq(SunkLine)
<1> DEFINE z     == [states |-> states, res |-> res]
           lines == ActionLines(z, First(a, y), 1, a[1], y[1])
           end   == IF First(a, y).states[2].hp = 0 THEN <<EndOf(tick_t, "death")>> ELSE <<>>
<1>1. First(a, y).states \in [Slots -> UnitState] /\ y[1] \in YellowResult /\ tick_t \in Nat /\ 1 \in Slots
  BY StepFacts DEF Slots
<1>2. lines \in Seq(PlainLine)
  BY <1>1, ActionLinesType
<1>3. lines \in Seq(SunkLine)
  BY <1>2 DEF SunkLine
<1>4. end \in Seq(SunkLine)
  <2>1. EndOf(tick_t, "death") \in SunkLine
    BY <1>1 DEF EndOf, SunkLine
  <2>2. QED
    BY <2>1
<1>5. sunk \in Seq(SunkLine)
  BY SoundTypes
<1>6. Middle(a, y).sunk = sunk \o lines \o end
  BY DEF Middle
<1> HIDE DEF lines, end
<1>7. QED
  BY <1>3, <1>4, <1>5, <1>6

LEMMA SecondEffect ==
  ASSUME NEW on, Sound(on), NEW a, a[1] \in Action, a[2] \in Action, NEW y \in Casts, Recorded(a, y),
         NEW f, Extends(f, drawn')
  PROVE  Now' = Effect(Middle(a, y), TickSpot(2), a[2], f)
<1> DEFINE z     == [states |-> states, res |-> res]
           one   == First(a, y)
           two   == Outcome(a, y)
           m     == Middle(a, y)
           first == ActionLines(z, one, 1, a[1], y[1])
           then  == ActionLines(one, two, 2, a[2], y[2])
           cast  == {i \in Slots : IF i = 1 THEN CastIn(z, one) ELSE CastIn(one, two)}
<1>1. /\ one \in [states: [Slots -> UnitState], res: MatchResult]
      /\ two \in [states: [Slots -> UnitState], res: MatchResult]
      /\ one.states[1].hp # 0 /\ two.states[2].hp = one.states[2].hp
      /\ one.res.checkpoints = res.checkpoints
      /\ states' = two.states /\ res'.checkpoints = res.checkpoints
      /\ IF two.states[1].hp = 0 \/ two.states[2].hp = 0
         THEN status' = "Ended" /\ res'.end_ms = tick_t /\ res'.end_reason = "death"
         ELSE status' = "Advancing"
      /\ two = IF one.states[2].hp = 0 THEN one ELSE apply_action(one, 2, a[2], tick_t, y[2])
      /\ y[1] \in YellowResult /\ y[2] \in YellowResult /\ tick_t \in Nat
  BY StepFacts
<1>2. /\ m.states = one.states /\ m.checkpoints = res.checkpoints
      /\ m.sunk = sunk \o first \o (IF one.states[2].hp = 0 THEN <<EndOf(tick_t, "death")>> ELSE <<>>)
      /\ m.thrown = (IF CastIn(z, one) THEN Thrown(Now, 1, y[1]) ELSE thrown)
      /\ m.stands = (IF one.states[2].hp = 0 THEN "over" ELSE "on")
      /\ m = [states |-> m.states, checkpoints |-> m.checkpoints, sunk |-> m.sunk,
              thrown |-> m.thrown, stands |-> m.stands]
  BY DEF Middle
<1>3. /\ Sinks(first \o then) /\ Rolled([i \in cast |-> Throw("mortal", y[i])])
      /\ thrown = [i \in Slots |-> thrown[i]]
  BY SoundTypes DEF Recorded, ThrownOK
<1>4. 1 \in Slots /\ 2 \in Slots /\ Enemy(2) = 1 /\ Slots = {1, 2}
  BY DEF Slots, Enemy
<1>5. m.sunk \in Seq(SunkLine) /\ sunk \in Seq(SunkLine)
  BY MiddleType, SoundTypes
<1> HIDE DEF m
<1>6. thrown' = [i \in Slots |-> IF i \in cast THEN Append(thrown[i], y[i]) ELSE thrown[i]]
  BY <1>3 DEF Rolled, Throw
<1>7. /\ m.thrown[2] = thrown[2]
      /\ CastIn(z, one) => m.thrown = [i \in Slots |-> IF i = 1 THEN Append(thrown[i], y[1]) ELSE thrown[i]]
      /\ ~CastIn(z, one) => m.thrown = [i \in Slots |-> thrown[i]]
  BY <1>2, <1>3, <1>4 DEF Thrown, Now
<1>8. \A i \in cast : f[<<i, "mortal", thrown[i]>>] = y[i]
  BY <1>3, RolledAgrees DEF Throw
<1>9. CASE one.states[2].hp = 0
  <2>1. two = one
    BY <1>1, <1>9
  <2>2. ~CastIn(one, two) /\ ~AppliedIn(one, two)
    BY <2>1 DEF CastIn, AppliedIn
  <2>3. then = <<>>
    BY <2>2 DEF ActionLines
  <2>4. status' = "Ended" /\ EndLines = <<EndOf(tick_t, "death")>>
    BY <1>1, <1>9, <2>1 DEF EndLines, EndOf
  <2>5. first \in Seq(PlainLine)
    BY <1>1, <1>4, ActionLinesType
  <2>6. first \o <<>> = first
    BY <2>5
  <2>7. sunk' = m.sunk
    BY <1>2, <1>3, <1>9, <2>3, <2>4, <2>6 DEF Sinks
  <2>8. thrown' = m.thrown
    <3>1. \A i \in Slots : i \in cast <=> i = 1 /\ CastIn(z, one)
      BY <2>2 DEF cast
    <3>2. CASE CastIn(z, one)
      BY <1>4, <1>6, <1>7, <3>1, <3>2
    <3>3. CASE ~CastIn(z, one)
      BY <1>6, <1>7, <3>1, <3>3
    <3>4. QED
      BY <3>2, <3>3
  <2>9. Now' = m
    BY <1>1, <1>2, <1>9, <2>1, <2>4, <2>7, <2>8 DEF Now
  <2>10. Over(m)
    BY <1>2, <1>9 DEF Over
  <2>11. QED
    BY <2>9, <2>10 DEF Effect, m
<1>10. CASE one.states[2].hp # 0
  <2>1. two = apply_action(one, 2, a[2], tick_t, y[2]) /\ two.states[2].hp # 0
    BY <1>1, <1>10
  <2>2. one = [states |-> m.states, res |-> one.res]
    BY <1>1, <1>2
  <2>3. CastIn(one, two) => Draw(m, 2, "mortal", f) = y[2]
    <3>1. CastIn(one, two) => 2 \in cast
      BY <1>4 DEF cast
    <3>2. QED
      BY <1>7, <1>8, <3>1 DEF Draw
  <2>4. TypeOK /\ one.res \in MatchResult /\ m.states \in [Slots -> UnitState]
        /\ m.stands = "on" /\ m.states[Enemy(2)].hp # 0
    BY <1>1, <1>2, <1>4, <1>10, SoundTypes
  <2> DEFINE end == IF two.states[1].hp = 0 THEN <<EndOf(tick_t, "death")>> ELSE <<>>
  <2>5. Effect(m, TickSpot(2), a[2], f)
          = [states |-> two.states, checkpoints |-> m.checkpoints,
             sunk |-> m.sunk \o then \o end,
             thrown |-> IF CastIn(one, two) THEN Thrown(m, 2, y[2]) ELSE m.thrown,
             stands |-> IF two.states[1].hp = 0 THEN "over" ELSE "on"]
    <3> HIDE DEF one, two
    <3> DEFINE r == one.res
    <3>1. MayAct(m, r, 2)
      BY <1>2, <1>5, <2>4 DEF MayAct
    <3>2. CastAs(m, r, 2, a[2], y[2], f)
      BY <2>1, <2>2, <2>3 DEF CastAs
    <3>3. Effect(m, TickSpot(2), a[2], f) = ActionMoment(m, r, 2, a[2], y[2])
      BY <1>4, <3>1, <3>2, ActionEffect
    <3>4. QED
      BY <1>4, <2>1, <2>2, <3>3 DEF ActionMoment
  <2>6. status' = (IF two.states[1].hp = 0 THEN "Ended" ELSE "Advancing") /\ EndLines = end
    BY <1>1, <2>1 DEF EndLines, EndOf
  <2>7. /\ first \in Seq(PlainLine) /\ then \in Seq(PlainLine)
    BY <1>1, <1>4, ActionLinesType
  <2>8. first \in Seq(SunkLine) /\ then \in Seq(SunkLine)
    BY <2>7 DEF SunkLine
  <2>9. end \in Seq(SunkLine)
    <3>1. EndOf(tick_t, "death") \in SunkLine
      BY <1>1 DEF EndOf, SunkLine
    <3>2. QED
      BY <3>1
  <2>10. sunk' = m.sunk \o then \o end
    <3>1. sunk' = sunk \o (first \o then) \o end
      BY <1>3, <2>6 DEF Sinks
    <3>2. m.sunk = sunk \o first \o <<>>
      BY <1>2, <1>10
    <3> HIDE DEF end, first, then
    <3>3. QED
      <4>1. sunk \o (first \o then) \o end = sunk \o first \o <<>> \o then \o end
        BY ONLY <1>5, <2>8, <2>9
      <4>2. QED
        BY ONLY <3>1, <3>2, <4>1
  <2>11. thrown' = IF CastIn(one, two) THEN Thrown(m, 2, y[2]) ELSE m.thrown
    <3> HIDE DEF one, two
    <3>1. \A i \in Slots : i \in cast <=> IF i = 1 THEN CastIn(z, one) ELSE CastIn(one, two)
      BY DEF cast
    <3> HIDE DEF cast, z
    <3>2. \A i \in Slots : thrown'[i] = IF i \in cast THEN Append(thrown[i], y[i]) ELSE thrown[i]
      BY <1>6
    <3>2a. m.thrown[1] = thrown'[1]
      <4>1. thrown'[1] = IF CastIn(z, one) THEN Append(thrown[1], y[1]) ELSE thrown[1]
        BY <1>4, <3>1, <3>2
      <4>2. CASE CastIn(z, one)
        BY <1>4, <1>7, <4>1, <4>2
      <4>3. CASE ~CastIn(z, one)
        BY <1>4, <1>7, <4>1, <4>3
      <4>4. QED
        BY <4>2, <4>3
    <3>3. CASE CastIn(one, two)
      <4>1. Thrown(m, 2, y[2])[1] = thrown'[1]
        <5>1. Thrown(m, 2, y[2])[1] = m.thrown[1]
          BY <1>4 DEF Thrown
        <5>2. QED
          BY <3>2a, <5>1
      <4>2. Thrown(m, 2, y[2])[2] = thrown'[2]
        BY <1>4, <1>7, <3>1, <3>2, <3>3 DEF Thrown
      <4>3. \A i \in Slots : Thrown(m, 2, y[2])[i] = thrown'[i]
        BY <1>4, <4>1, <4>2
      <4>4. QED
        BY <1>6, <3>3, <4>3 DEF Thrown
    <3>4. CASE ~CastIn(one, two)
      <4>0. m.thrown[2] = thrown'[2]
        BY <1>4, <1>7, <3>1, <3>2, <3>4
      <4>1. \A i \in Slots : m.thrown[i] = thrown'[i]
        BY <1>4, <3>2a, <4>0
      <4>2. DOMAIN m.thrown = Slots /\ m.thrown = [i \in Slots |-> m.thrown[i]]
        BY <1>7
      <4>3. QED
        BY <1>6, <3>4, <4>1, <4>2
    <3>5. QED
      BY <3>3, <3>4
  <2> HIDE DEF one, two, end, then
  <2>12. Now' = [states |-> two.states, checkpoints |-> m.checkpoints,
                 sunk |-> m.sunk \o then \o end,
                 thrown |-> IF CastIn(one, two) THEN Thrown(m, 2, y[2]) ELSE m.thrown,
                 stands |-> IF two.states[1].hp = 0 THEN "over" ELSE "on"]
    BY <1>1, <1>2, <2>6, <2>10, <2>11 DEF Now
  <2>13. QED
    BY <2>5, <2>12 DEF m
<1>11. QED
  BY <1>9, <1>10

-----------------------------------------------------------------------------
(* What a moment tells of the decisions.                                   *)

\* The decision lines of spot x, and what is said there if a is submitted.
Said(lines, x) == {l \in LinesOf(lines, "decision") : l.t = x.time /\ l.unit = x.unit /\ x.kind = Decide}

Says(m, x, a) == IF ~Over(m) /\ Applies(m, x, a) THEN {DecisionOf(x, a)} ELSE {}

Begins(s, u) == Len(s) <= Len(u) /\ \A k \in 1..Len(s) : u[k] = s[k]

LEMMA SaidJoined ==
  ASSUME NEW X, NEW s \in Seq(X), NEW u \in Seq(X), NEW x
  PROVE  Said(s \o u, x) = Said(s, x) \cup Said(u, x)
<1> DEFINE j == s \o u
<1>1. /\ j \in Seq(X) /\ Len(j) = Len(s) + Len(u)
      /\ \A k \in 1..Len(s) : j[k] = s[k]
      /\ \A k \in 1..Len(u) : j[Len(s) + k] = u[k]
  BY Joined
<1>2. /\ DOMAIN j = 1..Len(s) + Len(u) /\ DOMAIN s = 1..Len(s) /\ DOMAIN u = 1..Len(u)
      /\ Len(s) \in Nat /\ Len(u) \in Nat
  BY <1>1
<1> HIDE DEF j
<1>3. ASSUME NEW l \in LinesOf(j, "decision")
      PROVE  l \in LinesOf(s, "decision") \cup LinesOf(u, "decision")
  <2>1. PICK k \in 1..Len(s) + Len(u) : l = j[k] /\ j[k].type = "decision"
    BY <1>2, <1>3 DEF LinesOf, At
  <2>2. CASE k <= Len(s)
    <3>1. k \in 1..Len(s)
      BY <1>2, <2>2
    <3>2. QED
      BY <1>1, <1>2, <2>1, <3>1 DEF LinesOf, At
  <2>3. CASE k > Len(s)
    <3>1. k - Len(s) \in 1..Len(u) /\ Len(s) + (k - Len(s)) = k
      BY <1>2, <2>3
    <3>2. l = u[k - Len(s)]
      BY <1>1, <2>1, <3>1
    <3>3. QED
      BY <1>2, <2>1, <3>1, <3>2 DEF LinesOf, At
  <2>4. QED
    BY <1>2, <2>2, <2>3
<1>4. ASSUME NEW l \in LinesOf(s, "decision") PROVE l \in LinesOf(j, "decision")
  <2>1. PICK k \in 1..Len(s) : l = s[k] /\ s[k].type = "decision"
    BY <1>2, <1>4 DEF LinesOf, At
  <2>2. k \in 1..Len(s) + Len(u) /\ j[k] = l
    BY <1>1, <1>2, <2>1
  <2>3. QED
    BY <1>2, <2>1, <2>2 DEF LinesOf, At
<1>5. ASSUME NEW l \in LinesOf(u, "decision") PROVE l \in LinesOf(j, "decision")
  <2>1. PICK k \in 1..Len(u) : l = u[k] /\ u[k].type = "decision"
    BY <1>2, <1>5 DEF LinesOf, At
  <2>2. Len(s) + k \in 1..Len(s) + Len(u) /\ j[Len(s) + k] = l
    BY <1>1, <1>2, <2>1
  <2>3. QED
    BY <1>2, <2>1, <2>2 DEF LinesOf, At
<1>6. LinesOf(j, "decision") = LinesOf(s, "decision") \cup LinesOf(u, "decision")
  BY <1>3, <1>4, <1>5
<1>7. QED
  BY <1>6 DEF Said, j

LEMMA SaidOnce ==
  ASSUME NEW l, NEW x
  PROVE  /\ Said(<<>>, x) = {}
         /\ Said(<<l>>, x) = IF l.type = "decision" /\ l.t = x.time /\ l.unit = x.unit /\ x.kind = Decide
                             THEN {l} ELSE {}
<1>1. LinesOf(<<>>, "decision") = {}
  BY DEF LinesOf, At
<1>2. LinesOf(<<l>>, "decision") = IF l.type = "decision" THEN {l} ELSE {}
  BY DEF LinesOf, At
<1>3. QED
  BY <1>1, <1>2 DEF Said

\* Lines appended to a sink.
LEMMA Appended ==
  ASSUME NEW X, NEW s \in Seq(X), NEW u \in Seq(X)
  PROVE  Begins(s, s \o u)
<1>1. Len(s \o u) = Len(s) + Len(u) /\ Len(s) \in Nat /\ Len(u) \in Nat
      /\ \A k \in 1..Len(s) : (s \o u)[k] = s[k]
  BY Joined
<1> DEFINE j == s \o u
<1> HIDE DEF j
<1>2. Len(j) = Len(s) + Len(u) /\ \A k \in 1..Len(s) : j[k] = s[k]
  BY <1>1 DEF j
<1>3. QED
  BY <1>1, <1>2 DEF Begins, j

LEMMA JoinedFour ==
  ASSUME NEW X, NEW s \in Seq(X), NEW b \in Seq(X), NEW c \in Seq(X), NEW e \in Seq(X)
  PROVE  /\ Begins(s, s \o (b \o c) \o e)
         /\ \A z : Said(s \o (b \o c) \o e, z) = Said(s, z) \cup Said(b, z) \cup Said(c, z) \cup Said(e, z)
<1>1. b \o c \in Seq(X)
  OBVIOUS
<1>2. ASSUME NEW z PROVE Said(b \o c, z) = Said(b, z) \cup Said(c, z)
  BY SaidJoined
<1> DEFINE u == b \o c
<1> HIDE DEF u
<1>3. u \in Seq(X) /\ s \o u \in Seq(X) /\ u \o e \in Seq(X) /\ s \o u \o e = s \o (u \o e)
  <2>1. u \in Seq(X)
    BY <1>1 DEF u
  <2>2. s \o u \in Seq(X) /\ u \o e \in Seq(X)
    BY ONLY <2>1, s \in Seq(X), e \in Seq(X)
  <2>3. s \o u \o e = s \o (u \o e)
    BY ONLY <2>1, s \in Seq(X), e \in Seq(X)
  <2>4. QED
    BY <2>1, <2>2, <2>3
<1>4. ASSUME NEW z PROVE Said(s \o u, z) = Said(s, z) \cup Said(u, z)
  BY <1>3, SaidJoined
<1>5. ASSUME NEW z PROVE Said((s \o u) \o e, z) = Said(s \o u, z) \cup Said(e, z)
  <2> DEFINE v == s \o u
  <2> HIDE DEF v
  <2>1. v \in Seq(X)
    BY <1>3 DEF v
  <2>2. Said(v \o e, z) = Said(v, z) \cup Said(e, z)
    BY <2>1, SaidJoined
  <2>3. QED
    BY <2>2 DEF v
<1>6. Begins(s, s \o (u \o e))
  <2> DEFINE v == u \o e
  <2> HIDE DEF v
  <2>1. v \in Seq(X)
    BY <1>3 DEF v
  <2>2. Begins(s, s \o v)
    BY <2>1, Appended
  <2>3. QED
    BY <2>2 DEF v
<1>7. QED
  BY <1>2, <1>3, <1>4, <1>5, <1>6 DEF u

\* What an effect appends, and which of its lines are decisions.
Adds(m, n, x, a) ==
  /\ Begins(m.sunk, n.sunk)
  /\ \A z \in Spot : Said(n.sunk, z) = Said(m.sunk, z) \cup (IF z = x THEN Says(m, x, a) ELSE {})

LEMMA Associative ==
  ASSUME NEW X, NEW s \in Seq(X), NEW u \in Seq(X), NEW v \in Seq(X)
  PROVE  (s \o u) \o v = s \o (u \o v) /\ u \o v \in Seq(X) /\ s \o u \in Seq(X)
  OBVIOUS

\* Lines that are no decisions.
LEMMA AddsQuietly ==
  ASSUME NEW m, m.sunk \in Seq(SunkLine), NEW n, NEW X, NEW u \in Seq(X), NEW v \in Seq(X),
         n.sunk = m.sunk \o u \o v,
         \A k \in DOMAIN u : u[k].type # "decision", \A k \in DOMAIN v : v[k].type # "decision",
         NEW x, NEW a, Says(m, x, a) = {}
  PROVE  Adds(m, n, x, a)
<1> DEFINE Y == SunkLine \cup X
           s == m.sunk
           j == s \o u
           w == u \o v
<1>1. s \in Seq(Y) /\ u \in Seq(Y) /\ v \in Seq(Y)
  OBVIOUS
<1> HIDE DEF Y, s
<1>2. j \in Seq(Y) /\ w \in Seq(Y) /\ j \o v = s \o w
  BY <1>1, Associative
<1>3. \A z : Said(u, z) = {} /\ Said(v, z) = {}
  BY DEF Said, LinesOf, At
<1>4. ASSUME NEW z PROVE Said(j, z) = Said(s, z)
  <2>1. Said(s \o u, z) = Said(s, z) \cup Said(u, z)
    BY ONLY <1>1, SaidJoined
  <2>2. QED
    BY <1>3, <2>1
<1>5. Begins(s, s \o w)
  <2> HIDE DEF w
  <2>1. QED
    BY <1>1, <1>2, Appended
<1>6. n.sunk = j \o v
  BY DEF s
<1> HIDE DEF j
<1>7. ASSUME NEW z PROVE Said(j \o v, z) = Said(j, z) \cup Said(v, z)
  <2>1. j \in Seq(Y) /\ v \in Seq(Y)
    BY <1>1, <1>2
  <2>2. QED
    BY ONLY <2>1, SaidJoined
<1>8. \A z \in Spot : Said(n.sunk, z) = Said(s, z)
  BY <1>3, <1>4, <1>6, <1>7
<1>9. Begins(s, n.sunk)
  BY <1>2, <1>5, <1>6
<1>10. QED
  BY <1>8, <1>9 DEF Adds, s

LEMMA EffectAdds ==
  ASSUME NEW m, m.sunk \in Seq(SunkLine), NEW x \in Spot, NEW a, NEW f
  PROVE  Adds(m, Effect(m, x, a, f), x, a)
<1> DEFINE n == Effect(m, x, a, f)
<1>1. CASE Over(m) \/ ~(IsDue(m, x) \/ Applies(m, x, a))
  <2>1. n = m /\ Says(m, x, a) = {}
    BY <1>1 DEF Effect, Says
  <2>2. Begins(m.sunk, m.sunk)
    BY DEF Begins
  <2> HIDE DEF n
  <2>3. QED
    BY <2>1, <2>2 DEF Adds, n
<1>2. CASE ~Over(m) /\ IsDue(m, x)
  <2>1. Says(m, x, a) = {} /\ x.kind \in {Checkpoint, MatchEnd, Swing}
    BY <1>2, KindsDiffer DEF Says, Applies, IsDue
  <2>2. CASE x.kind = Checkpoint
    <3> DEFINE l == [type |-> "checkpoint", t |-> x.time, hash |-> m.states]
    <3>1. n.sunk = m.sunk \o <<l>>
      BY <1>2, <2>2 DEF Effect
    <3>2. l.type # "decision"
      OBVIOUS
    <3> HIDE DEF l, n
    <3> DEFINE u == <<l>>
               v == <<>>
    <3>3. /\ u \in Seq({l}) /\ \A k \in DOMAIN u : u[k].type # "decision"
          /\ v \in Seq({l}) /\ \A k \in DOMAIN v : v[k].type # "decision"
          /\ n.sunk = m.sunk \o u \o v
      BY <3>1, <3>2
    <3> HIDE DEF u, v
    <3>4. QED
      BY <2>1, <3>3, AddsQuietly DEF n
  <2>3. CASE x.kind = MatchEnd
    <3> DEFINE l == EndOf(x.time, "duration")
    <3>1. n.sunk = m.sunk \o <<l>>
      BY <1>2, <2>3, KindsDiffer DEF Effect
    <3>2. l.type # "decision"
      BY DEF EndOf
    <3> HIDE DEF l, n
    <3> DEFINE u == <<l>>
               v == <<>>
    <3>3. /\ u \in Seq({l}) /\ \A k \in DOMAIN u : u[k].type # "decision"
          /\ v \in Seq({l}) /\ \A k \in DOMAIN v : v[k].type # "decision"
          /\ n.sunk = m.sunk \o u \o v
      BY <3>1, <3>2
    <3> HIDE DEF u, v
    <3>4. QED
      BY <2>1, <3>3, AddsQuietly DEF n
  <2>4. CASE x.kind = Swing
    <3>1. n = Swung(m, x, f)
      BY <1>2, <2>4, KindsDiffer DEF Effect
    <3>2. \E l, sts, dice : l.type # "decision" /\ n = Settled(m, x, sts, <<l>>, dice)
      BY <3>1 DEF Swung, AbilityLine, SwingLine
    <3>3. PICK l, sts, dice : l.type # "decision" /\ n = Settled(m, x, sts, <<l>>, dice)
      BY <3>2
    <3> DEFINE end  == EndOf(x.time, "death")
               dead == sts[Enemy(x.unit)].hp = 0
               X    == SunkLine \cup {l, end}
    <3> HIDE DEF n
    <3>4. n.sunk = m.sunk \o <<l>> \o (IF dead THEN <<end>> ELSE <<>>)
      BY <3>3 DEF Settled
    <3>5. end.type # "decision"
      BY DEF EndOf
    <3> HIDE DEF end, dead
    <3>6. m.sunk \in Seq(X) /\ l \in X /\ end \in X
      OBVIOUS
    <3> HIDE DEF X
    <3> DEFINE u == <<l>>
               v == IF dead THEN <<end>> ELSE <<>>
    <3>7. /\ u \in Seq(X) /\ \A k \in DOMAIN u : u[k].type # "decision"
          /\ v \in Seq(X) /\ \A k \in DOMAIN v : v[k].type # "decision"
          /\ n.sunk = m.sunk \o u \o v
      <4>1. u \in Seq(X) /\ \A k \in DOMAIN u : u[k].type # "decision"
        BY <3>3, <3>6
      <4>2. <<end>> \in Seq(X) /\ \A k \in DOMAIN <<end>> : <<end>>[k].type # "decision"
        BY <3>5, <3>6
      <4>3. <<>> \in Seq(X) /\ \A k \in DOMAIN <<>> : <<>>[k].type # "decision"
        OBVIOUS
      <4>4. QED
        BY <3>4, <4>1, <4>2, <4>3
    <3> HIDE DEF u, v
    <3>8. QED
      BY <2>1, <3>7, AddsQuietly DEF n
  <2>5. QED
    BY <2>1, <2>2, <2>3, <2>4
<1>3. CASE ~Over(m) /\ ~IsDue(m, x) /\ Applies(m, x, a)
  <2> DEFINE d == DecisionOf(x, a)
  <2>1. Says(m, x, a) = {d} /\ x.kind = Decide
    BY <1>3 DEF Says, Applies
  <2>2. n = Acted(m, x, a, f)
    BY <1>3, <2>1, KindsDiffer DEF Effect
  <2>3. d.type = "decision" /\ d.t = x.time /\ d.unit = x.unit
    BY DEF DecisionOf
  <2> HIDE DEF n, d
  <2>4. \E before, l, sts :
          /\ before = <<>> \/ (before = <<l>> /\ l.type # "decision")
          /\ n.sunk = m.sunk \o (before \o <<d>>)
                        \o (IF sts[Enemy(x.unit)].hp = 0 THEN <<EndOf(x.time, "death")>> ELSE <<>>)
    <3> DEFINE i   == x.unit
               y   == Draw(m, i, "mortal", f)
               sts == Performed(m.states, i, a, x.time, y)
               l   == AbilityLine(x.time, i, "mortal_strike", y, sts)
    <3>1. l.type # "decision"
      BY DEF AbilityLine
    <3>2. CASE a = "CastMortalStrike"
      <4>1. n = Settled(m, x, sts, <<l>> \o <<d>>, Thrown(m, i, y))
        BY <2>2, <3>2 DEF Acted, d
      <4> HIDE DEF l, sts
      <4>2. n.sunk = m.sunk \o (<<l>> \o <<d>>)
                        \o (IF sts[Enemy(x.unit)].hp = 0 THEN <<EndOf(x.time, "death")>> ELSE <<>>)
        BY <4>1 DEF Settled
      <4>3. QED
        BY <3>1, <4>2
    <3>3. CASE a # "CastMortalStrike"
      <4>1. n = Settled(m, x, sts, <<>> \o <<d>>, m.thrown)
        BY <2>2, <3>3 DEF Acted, d
      <4> HIDE DEF l, sts
      <4>2. n.sunk = m.sunk \o (<<>> \o <<d>>)
                        \o (IF sts[Enemy(x.unit)].hp = 0 THEN <<EndOf(x.time, "death")>> ELSE <<>>)
        BY <4>1 DEF Settled
      <4>3. QED
        BY <3>1, <4>2
    <3>4. QED
      BY <3>2, <3>3
  <2>5. PICK before, l, sts :
          /\ before = <<>> \/ (before = <<l>> /\ l.type # "decision")
          /\ n.sunk = m.sunk \o (before \o <<d>>)
                        \o (IF sts[Enemy(x.unit)].hp = 0 THEN <<EndOf(x.time, "death")>> ELSE <<>>)
    BY <2>4
  <2> DEFINE end   == EndOf(x.time, "death")
             after == IF sts[Enemy(x.unit)].hp = 0 THEN <<end>> ELSE <<>>
             said  == <<d>>
             X     == SunkLine \cup {l, d, end}
  <2>6. end.type # "decision"
    BY DEF EndOf
  <2>7. n.sunk = m.sunk \o (before \o said) \o after
    BY <2>5
  <2>8. after = <<>> \/ after = <<end>>
    OBVIOUS
  <2> HIDE DEF end, after
  <2>9. m.sunk \in Seq(X) /\ before \in Seq(X) /\ said \in Seq(X) /\ after \in Seq(X)
    <3>1. l \in X /\ d \in X /\ end \in X /\ m.sunk \in Seq(X)
      OBVIOUS
    <3> HIDE DEF X
    <3>2. <<l>> \in Seq(X) /\ <<d>> \in Seq(X) /\ <<end>> \in Seq(X) /\ <<>> \in Seq(X)
      BY <3>1
    <3>3. QED
      BY <2>5, <2>8, <3>1, <3>2
  <2>10. \A z : /\ Said(before, z) = {} /\ Said(after, z) = {}
                /\ Said(said, z) = IF d.t = z.time /\ d.unit = z.unit /\ z.kind = Decide THEN {d} ELSE {}
    <3>1. ASSUME NEW z PROVE Said(<<>>, z) = {} /\ Said(<<l>>, z) = (IF l.type # "decision" THEN {} ELSE Said(<<l>>, z))
                             /\ Said(<<end>>, z) = {}
                             /\ Said(said, z) = IF d.t = z.time /\ d.unit = z.unit /\ z.kind = Decide THEN {d} ELSE {}
      BY <2>3, <2>6, SaidOnce
    <3>2. QED
      BY <2>5, <2>8, <3>1
  <2> HIDE DEF X, said
  <2>11. /\ Begins(m.sunk, n.sunk)
         /\ \A z : Said(n.sunk, z) = Said(m.sunk, z) \cup Said(before, z) \cup Said(said, z) \cup Said(after, z)
    BY <2>7, <2>9, JoinedFour
  <2>12. ASSUME NEW z \in Spot
         PROVE  Said(n.sunk, z) = Said(m.sunk, z) \cup (IF z = x THEN {d} ELSE {})
    <3>1. d.t = z.time /\ d.unit = z.unit /\ z.kind = Decide <=> z = x
      BY <2>1, <2>3 DEF Spot
    <3>2. QED
      BY <2>10, <2>11, <3>1
  <2>13. Says(m, x, a) = {d}
    BY <2>1
  <2>14. QED
    BY <2>11, <2>12, <2>13 DEF Adds, n
<1>4. QED
  BY <1>1, <1>2, <1>3

-----------------------------------------------------------------------------
(* The story of a match: the moment H[p] before each place p of the        *)
(* timeline and the action D[p] submitted there, for the N places that the *)
(* match has passed.                                                       *)

Start == [states |-> [i \in Slots |-> initial_state(Units[i])], checkpoints |-> 0, sunk |-> <<>>,
          thrown |-> [i \in Slots |-> <<>>], stands |-> "on"]

\* An action belongs to a tick of the grid.
IsTick(x) == x.kind = Decide /\ x.unit \in Slots /\ x.time \in Grid

Story(H, D, N, dice, m) ==
  /\ N \in Nat /\ H[0] = Start
  /\ \A p \in Nat : /\ H[p].sunk \in Seq(SunkLine) /\ Begins(H[p].sunk, m.sunk)
                    /\ p >= N => H[p] = m /\ D[p] = "None"
  /\ \A p, q \in Nat : p <= q /\ Over(H[p]) => H[q] = m
  /\ \A x \in Spot :
       /\ Pos(x) < N => \A f : Extends(f, dice) => H[Pos(x) + 1] = Effect(H[Pos(x)], x, D[Pos(x)], f)
       /\ Said(m.sunk, x) = Says(H[Pos(x)], x, D[Pos(x)])
       /\ D[Pos(x)] # "None" => IsTick(x)

\* The story goes on with the moment n after place p, where a is submitted.
Put(H, p, n)  == [k \in Nat |-> IF k <= p THEN H[k] ELSE n]
Mark(D, p, a) == [k \in Nat |-> IF k = p THEN a ELSE D[k]]

LEMMA BeginsOn ==
  ASSUME NEW s, NEW u, NEW v, Len(s) \in Nat, Len(u) \in Nat, Len(v) \in Nat, Begins(s, u), Begins(u, v)
  PROVE  Begins(s, v)
  BY DEF Begins

LEMMA NothingSaid ==
  ASSUME NEW m, NEW x
  PROVE  Says(m, x, "None") = {} /\ \A f : ~IsDue(m, x) => Effect(m, x, "None", f) = m
  BY DEF Says, Applies, Effect

\* With a longer table of dice there is less to say.
LEMMA StoryStays ==
  ASSUME NEW H, NEW D, NEW N, NEW dice, NEW m, Story(H, D, N, dice, m), NEW more,
         \A f : Extends(f, more) => Extends(f, dice)
  PROVE  Story(H, D, N, more, m)
  BY DEF Story

\* What the match does next.
Follows(m, N, dice, x, a, n, more) ==
  /\ x \in Spot /\ N <= Pos(x)
  /\ \A z \in Spot : N <= Pos(z) /\ Pos(z) < Pos(x) => ~IsDue(m, z)
  /\ \A f : Extends(f, more) => Extends(f, dice) /\ n = Effect(m, x, a, f)
  /\ n.sunk \in Seq(SunkLine)
  /\ a # "None" => IsTick(x)

LEMMA StoryGoesOn ==
  ASSUME NEW H, NEW D, NEW N, NEW dice, NEW m, Story(H, D, N, dice, m),
         NEW x, NEW a, NEW n, NEW more, Follows(m, N, dice, x, a, n, more)
  PROVE  Story(Put(H, Pos(x), n), Mark(D, Pos(x), a), Pos(x) + 1, more, n)
<1> DEFINE p  == Pos(x)
           H2 == Put(H, p, n)
           D2 == Mark(D, p, a)
<1>1. /\ N \in Nat /\ H[0] = Start
      /\ \A k \in Nat : /\ H[k].sunk \in Seq(SunkLine) /\ Begins(H[k].sunk, m.sunk)
                        /\ k >= N => H[k] = m /\ D[k] = "None"
      /\ \A k, q \in Nat : k <= q /\ Over(H[k]) => H[q] = m
  BY DEF Story
<1>2. \A z \in Spot :
        /\ Pos(z) < N => \A f : Extends(f, dice) => H[Pos(z) + 1] = Effect(H[Pos(z)], z, D[Pos(z)], f)
        /\ Said(m.sunk, z) = Says(H[Pos(z)], z, D[Pos(z)])
        /\ D[Pos(z)] # "None" => IsTick(z)
  BY DEF Story
<1>3. /\ x \in Spot /\ N <= p /\ p \in Nat /\ p + 1 \in Nat
      /\ \A z \in Spot : N <= Pos(z) /\ Pos(z) < p => ~IsDue(m, z)
      /\ \A f : Extends(f, more) => Extends(f, dice) /\ n = Effect(m, x, a, f)
      /\ n.sunk \in Seq(SunkLine)
      /\ a # "None" => IsTick(x)
  BY SpotParts DEF Follows
<1>4. n = Effect(m, x, a, more)
  BY <1>3 DEF Extends
<1>5. m.sunk \in Seq(SunkLine) /\ H[N] = m /\ H[p] = m /\ D[p] = "None"
  BY <1>1, <1>3
<1>6. Adds(m, n, x, a)
  BY <1>3, <1>4, <1>5, EffectAdds
<1>7. \A z \in Spot : Pos(z) \in Nat
  BY SpotParts
<1>8. Over(m) => n = m
  BY <1>4 DEF Effect
<1> HIDE DEF p
<1>9. /\ \A k \in Nat : k <= p => H2[k] = H[k]
      /\ \A k \in Nat : k > p => H2[k] = n
      /\ \A k \in Nat : D2[k] = IF k = p THEN a ELSE D[k]
      /\ H2[p + 1] = n /\ H2[p] = m /\ D2[p] = a
  <2>1. \A k \in Nat : H2[k] = IF k <= p THEN H[k] ELSE n
    BY DEF Put
  <2>2. \A k \in Nat : D2[k] = IF k = p THEN a ELSE D[k]
    BY DEF Mark
  <2>3. QED
    BY <1>3, <1>5, <2>1, <2>2
<1> HIDE DEF H2, D2
<1>10. H2[0] = Start
  BY <1>1, <1>3, <1>9
<1>11. ASSUME NEW k \in Nat
       PROVE  /\ H2[k].sunk \in Seq(SunkLine) /\ Begins(H2[k].sunk, n.sunk)
              /\ k >= p + 1 => H2[k] = n /\ D2[k] = "None"
  <2>1. CASE k <= p
    <3>1. H2[k] = H[k] /\ Begins(H[k].sunk, m.sunk) /\ Begins(m.sunk, n.sunk) /\ H[k].sunk \in Seq(SunkLine)
      BY <1>1, <1>6, <1>9, <2>1 DEF Adds
    <3>2. Len(H[k].sunk) \in Nat /\ Len(m.sunk) \in Nat /\ Len(n.sunk) \in Nat
      BY <1>3, <1>5, <3>1
    <3>3. Begins(H[k].sunk, n.sunk)
      BY <3>1, <3>2, BeginsOn
    <3>4. QED
      BY <1>3, <2>1, <3>1, <3>3
  <2>2. CASE k > p
    <3>1. H2[k] = n /\ D2[k] = "None"
      BY <1>1, <1>3, <1>9, <2>2, SMTT(30)
    <3>2. Begins(n.sunk, n.sunk)
      BY <1>3 DEF Begins
    <3>3. QED
      BY <1>3, <3>1, <3>2
  <2>3. QED
    BY <1>3, <2>1, <2>2
<1>12. ASSUME NEW k \in Nat, NEW q \in Nat, k <= q, Over(H2[k])
       PROVE  H2[q] = n
  <2>1. CASE k <= p
    <3>1. Over(H[k]) /\ H[q] = m /\ H[p] = m /\ Over(m)
      BY <1>1, <1>3, <1>9, <1>12, <2>1
    <3>2. QED
      BY <1>3, <1>8, <1>9, <3>1
  <2>2. CASE k > p
    BY <1>3, <1>9, <1>12, <2>2
  <2>3. QED
    BY <1>3, <2>1, <2>2
<1>13. ASSUME NEW z \in Spot
       PROVE  /\ Pos(z) < p + 1 =>
                   \A f : Extends(f, more) => H2[Pos(z) + 1] = Effect(H2[Pos(z)], z, D2[Pos(z)], f)
              /\ Said(n.sunk, z) = Says(H2[Pos(z)], z, D2[Pos(z)])
              /\ D2[Pos(z)] # "None" => IsTick(z)
  <2> DEFINE k == Pos(z)
  <2>1. k \in Nat /\ k + 1 \in Nat
    BY <1>7
  <2>2. k = p => z = x
    BY <1>3, SpotIsUnique DEF p
  <2>3. Said(n.sunk, z) = Said(m.sunk, z) \cup (IF z = x THEN Says(m, x, a) ELSE {})
    BY <1>6 DEF Adds
  <2>4. z = x => k = p
    BY DEF p
  <2>5. /\ k < N => \A f : Extends(f, dice) => H[k + 1] = Effect(H[k], z, D[k], f)
        /\ Said(m.sunk, z) = Says(H[k], z, D[k])
        /\ D[k] # "None" => IsTick(z)
        /\ N <= k /\ k < p => ~IsDue(m, z)
    BY <1>2, <1>3
  <2> HIDE DEF k
  <2>6. CASE k = p
    <3>1. z = x /\ H2[k] = m /\ D2[k] = a /\ H2[k + 1] = n /\ D[k] = "None"
      BY <1>5, <1>9, <2>2, <2>6
    <3>2. Said(m.sunk, z) = {}
      BY <2>5, <3>1, NothingSaid
    <3>3. QED
      BY <1>3, <2>3, <3>1, <3>2 DEF k
  <2>7. CASE k < N
    <3>1. H2[k] = H[k] /\ D2[k] = D[k] /\ H2[k + 1] = H[k + 1] /\ z # x
      BY <1>1, <1>3, <1>9, <2>1, <2>4, <2>7
    <3>2. QED
      BY <1>3, <2>3, <2>5, <2>7, <3>1 DEF k
  <2>8. CASE N <= k /\ k < p
    <3>1. H2[k] = m /\ D2[k] = "None" /\ H2[k + 1] = m /\ z # x /\ H[k] = m /\ D[k] = "None"
      <4>1. H[k] = m /\ D[k] = "None" /\ H[k + 1] = m
        BY <1>1, <2>1, <2>8
      <4>2. QED
        BY <1>1, <1>3, <1>9, <2>1, <2>4, <2>8, <4>1
    <3>2. QED
      BY <2>3, <2>5, <2>8, <3>1, NothingSaid DEF k
  <2>9. CASE k > p
    <3>1. H2[k] = n /\ D2[k] = "None" /\ z # x /\ D[k] = "None" /\ H[k] = m
      BY <1>1, <1>3, <1>9, <2>1, <2>4, <2>9
    <3>2. Said(m.sunk, z) = {} /\ Says(n, z, "None") = {}
      BY <2>5, <3>1, NothingSaid
    <3>3. ~(k < p + 1)
      BY <1>3, <2>1, <2>9
    <3>4. QED
      BY <2>3, <3>1, <3>2, <3>3 DEF k
  <2>10. QED
    BY <1>1, <1>3, <2>1, <2>6, <2>7, <2>8, <2>9
<1>14. QED
  BY <1>3, <1>10, <1>11, <1>12, <1>13 DEF Story, p, H2, D2

-----------------------------------------------------------------------------
(* Every run tells its story.                                              *)

\* What a playback of the lines decides, and what may be decided at a tick.
Replayed(lines, i, t) ==
  LET script == {l \in LinesOf(lines, "decision") : l.unit = i}
  IN  IF \E l \in script : l.t = t THEN (CHOOSE l \in script : l.t = t).action ELSE "None"

Answers(played, lines, sts, i, t) ==
  IF played THEN {Replayed(lines, i, t)} ELSE Choices(sts, i, t)

\* Without ticks nothing is submitted; with ticks an answer at every one of the
\* grid until the match is over.
Chosen(on, played, lines, H, D, N) ==
  /\ on = FALSE => \A p \in Nat : D[p] = "None"
  /\ on = TRUE => \A t \in Grid, i \in Slots :
       place(t, Decide, i) < N /\ ~Over(H[place(t, Decide, 1)])
         => D[place(t, Decide, i)] \in Answers(played, lines, H[place(t, Decide, 1)].states, i, t)

Tells(on, picks, played, lines, H, D, N, dice, m) ==
  Story(H, D, N, dice, m) /\ (picks => Chosen(on, played, lines, H, D, N))

Told(on, picks, played, lines) ==
  \E H, D : Tells(on, picks, played, lines, H, D, passed + 1, drawn, Now)

LEMMA TickPlaces ==
  ASSUME NEW t \in Grid, NEW i \in Slots
  PROVE  /\ due(t, Decide, i) \in Spot /\ Pos(due(t, Decide, i)) = place(t, Decide, i)
         /\ due(t, Decide, i).time = t /\ due(t, Decide, i).kind = Decide /\ due(t, Decide, i).unit = i
         /\ place(t, Decide, i) = 12 * t + 6 + i /\ place(t, Decide, 1) = 12 * t + 7
         /\ t \in Nat /\ i \in 1..2 /\ IsTick(due(t, Decide, i))
<1>1. t \in Nat /\ i \in 1..2
  BY GridIsNat DEF Slots
<1>2. due(t, Decide, i).time = t /\ due(t, Decide, i).kind = Decide /\ due(t, Decide, i).unit = i
  BY DEF due
<1>3. due(t, Decide, i) \in Spot
  BY <1>1 DEF due, Spot, Kind, EntityId
<1>4. place(t, Decide, i) = 12 * t + 6 + i /\ place(t, Decide, 1) = 12 * t + 7
  BY <1>1 DEF place, Decide
<1>5. QED
  BY <1>1, <1>2, <1>3, <1>4 DEF Pos, IsTick

LEMMA ChosenGoesOn ==
  ASSUME NEW on, NEW played, NEW lines, NEW H, NEW D, NEW N \in Nat, Chosen(on, played, lines, H, D, N),
         NEW p \in Nat, N <= p, NEW n,
         on = TRUE => \A t \in Grid, i \in Slots : N <= place(t, Decide, i) => p < place(t, Decide, i)
  PROVE  Chosen(on, played, lines, Put(H, p, n), Mark(D, p, "None"), p + 1)
<1>1. ASSUME on = FALSE, NEW k \in Nat PROVE Mark(D, p, "None")[k] = "None"
  BY <1>1 DEF Chosen, Mark
<1>2. ASSUME on = TRUE, NEW t \in Grid, NEW i \in Slots, place(t, Decide, i) < p + 1,
             ~Over(Put(H, p, n)[place(t, Decide, 1)])
      PROVE  Mark(D, p, "None")[place(t, Decide, i)]
               \in Answers(played, lines, Put(H, p, n)[place(t, Decide, 1)].states, i, t)
  <2> DEFINE k == place(t, Decide, i)
             l == place(t, Decide, 1)
  <2>1. k \in Nat /\ l \in Nat /\ l <= k /\ k < p + 1 /\ (N <= k => p < k)
    BY <1>2, TickPlaces
  <2> HIDE DEF k, l
  <2>2. k < N /\ k # p /\ k <= p /\ l <= p
    BY <2>1
  <2>3. Put(H, p, n)[l] = H[l] /\ Mark(D, p, "None")[k] = D[k]
    BY <2>1, <2>2 DEF Put, Mark
  <2>4. ~Over(H[l]) => D[k] \in Answers(played, lines, H[l].states, i, t)
    BY <1>2, <2>2 DEF Chosen, k, l
  <2>5. QED
    BY <1>2, <2>3, <2>4 DEF k, l
<1>3. QED
  BY <1>1, <1>2 DEF Chosen

LEMMA EventTold ==
  ASSUME NEW on, Sound(on), RunsEvent, NEW picks, NEW played, NEW lines, Told(on, picks, played, lines)
  PROVE  Told(on, picks, played, lines)'
<1>1. PICK H, D : Tells(on, picks, played, lines, H, D, passed + 1, drawn, Now)
  BY DEF Told
<1>2. PICK e \in queue.heap : Handled(e)
  BY EventHandled
<1> DEFINE x == SpotOf(e)
           p == Pos(x)
<1>3. /\ passed' = p /\ passed <= p /\ passed \in Nat /\ x \in Spot /\ p = PlaceOf(e)
  BY <1>2, EventPasses
<1>4. /\ status = "Advancing" /\ IsTop(queue, e)
      /\ \A f : Extends(f, drawn') => Extends(f, drawn) /\ Now' = Effect(Now, x, "None", f)
      /\ Now' = Effect(Now, x, "None", drawn')
  BY <1>2 DEF Handled, Extends
<1>5. SUFFICES \E H2, D2 : Tells(on, picks, played, lines, H2, D2, passed' + 1, drawn', Now')
  BY DEF Told
<1> DEFINE n    == Now'
           m    == Now
           more == drawn'
<1>6. Story(H, D, passed + 1, drawn, m) /\ (picks => Chosen(on, played, lines, H, D, passed + 1))
  BY <1>1 DEF Tells
<1>7. CASE passed = p
  <2>1. ~IsDue(m, x)
    <3>1. last.time_ms \in Nat /\ last.kind \in Kind /\ last.source_id \in EntityId
      BY SoundTypes DEF TypeOK
    <3>2. SpotOf(last) \in Spot /\ Pos(SpotOf(last)) = PlaceOf(last) /\ PlaceOf(last) \in Int
      <4>1. SpotOf(last) \in Spot
        BY <3>1 DEF SpotOf, due, Spot
      <4>2. Pos(SpotOf(last)) = PlaceOf(last)
        BY DEF SpotOf, due, Pos, PlaceOf
      <4>3. QED
        BY <4>1, <4>2, SpotParts
    <3>3. CASE last.kind = Decide
      <4>1. Pos(x) = place(last.time_ms, Decide, 0) + 2
        BY <1>3, <1>4, <1>7, <3>3 DEF passed, PlaceOf, place, Sound, Runs, Ticks
      <4>2. x.time = last.time_ms /\ x.kind = Decide
        BY <1>3, <3>1, <4>1, SpotParts DEF place, Decide
      <4>3. QED
        BY <4>2, KindsDiffer DEF IsDue
    <3>4. CASE last.kind # Decide
      <4>1. Pos(SpotOf(last)) = Pos(x)
        BY <1>3, <1>7, <3>2, <3>4 DEF passed
      <4>2. SpotOf(last) = x
        BY <1>3, <3>2, <4>1, SpotIsUnique
      <4>3. QED
        BY <1>4, <4>2 DEF Sound, Spent
    <3>5. QED
      BY <3>3, <3>4
  <2> HIDE DEF m, x, n
  <2>2. n = m
    BY <1>4, <2>1, NothingSaid DEF n, m
  <2> HIDE DEF more, p
  <2>3. Story(H, D, passed + 1, more, m)
    BY <1>4, <1>6, StoryStays DEF more
  <2>4. QED
    BY <1>3, <1>6, <1>7, <2>2, <2>3 DEF Tells, n, more
<1>8. CASE passed < p
  <2> DEFINE N == passed + 1
  <2>1. N \in Nat /\ N <= p /\ p \in Nat
    BY <1>3, <1>8, SpotParts
  <2>2. \A z \in Spot : N <= Pos(z) /\ Pos(z) < p => ~IsDue(m, z)
    BY <1>3, <1>4, NothingDueBefore
  <2>3. n.sunk \in Seq(SunkLine)
    BY EventSound DEF Sound, SinkOK, Now
  <2>4. on = TRUE => \A t \in Grid, i \in Slots : N <= place(t, Decide, i) => p < place(t, Decide, i)
    <3>1. SUFFICES ASSUME on = TRUE, NEW t \in Grid, NEW i \in Slots, N <= place(t, Decide, i)
                   PROVE  p < place(t, Decide, i)
      OBVIOUS
    <3> DEFINE z == due(t, Decide, i)
    <3>2. z \in Spot /\ Pos(z) = place(t, Decide, i) /\ z.kind = Decide /\ z.unit \in Slots /\ z.time \in Grid
          /\ place(t, Decide, i) \in Nat
      BY TickPlaces
    <3>3. passed < Pos(z)
      BY <1>3, <3>1, <3>2
    <3> HIDE DEF z
    <3>4. PlaceOf(e) < Pos(z)
      BY <1>4, <3>1, <3>2, <3>3, TicksInTurn
    <3>5. QED
      BY <1>3, <3>2, <3>4
  <2>5. Follows(m, N, drawn, x, "None", n, more)
    BY <1>3, <1>4, <2>1, <2>2, <2>3 DEF Follows
  <2> HIDE DEF m, n, more, N, x
  <2>6. Story(Put(H, p, n), Mark(D, p, "None"), p + 1, more, n)
    BY <1>6, <2>5, StoryGoesOn DEF N
  <2> HIDE DEF p
  <2>7. picks => Chosen(on, played, lines, Put(H, p, n), Mark(D, p, "None"), p + 1)
    BY <1>6, <2>1, <2>4, ChosenGoesOn DEF N
  <2>8. Tells(on, picks, played, lines, Put(H, p, n), Mark(D, p, "None"), p + 1, more, n)
    BY <2>6, <2>7 DEF Tells
  <2>9. QED
    BY <1>3, <2>8 DEF n, more
<1>9. QED
  BY <1>3, <1>7, <1>8, SpotParts

\* Where the run stands at a tick, and where its answer brings it.
LEMMA StepPasses ==
  ASSUME NEW on, Sound(on), NEW a, a[1] \in Action, a[2] \in Action, NEW y \in Casts, Recorded(a, y)
  PROVE  /\ passed = place(tick_t, Decide, 0) /\ passed' = passed + 2 /\ passed \in Nat
         /\ tick_t \in Grid /\ tick_t \in Nat /\ on # FALSE
<1>1. /\ status = "AwaitingActions" /\ UNCHANGED <<tick_t, last, swung>>
      /\ EndByDeath(Outcome(a, y)) \/ Resume(Outcome(a, y))
  BY StepOutcome, SoundTypes DEF Recorded
<1>2. /\ last.kind = Decide /\ last.source_id = 0 /\ last.time_ms = tick_t
      /\ tick_t \in Grid /\ tick_t \in Nat /\ on
  BY <1>1 DEF Sound, Runs, Ticks, TInv, IInv, AwaitsNow, now, TypeOK, Schedule, TickQueued
<1>3. status' # "AwaitingActions"
  BY <1>1 DEF EndByDeath, Resume
<1>5. place(tick_t, Decide, 0) \in Nat
  BY <1>2 DEF place, Decide
<1>4. passed = place(tick_t, Decide, 0) /\ passed' = place(tick_t, Decide, 0) + 2
  <2>1. PlaceOf(last) = place(tick_t, Decide, 0) /\ PlaceOf(last') = place(tick_t, Decide, 0)
        /\ last'.kind = Decide
    BY <1>1, <1>2 DEF PlaceOf
  <2>2. PlaceOf(last)' = PlaceOf(last')
    BY DEF PlaceOf
  <2>3. passed = place(tick_t, Decide, 0)
    BY <1>1, <1>5, <2>1 DEF passed
  <2>4. passed' = place(tick_t, Decide, 0) + 2
    BY <1>3, <2>1, <2>2 DEF passed
  <2>5. QED
    BY <2>3, <2>4
<1>6. QED
  BY <1>2, <1>4, <1>5

LEMMA StepSound ==
  ASSUME NEW on, Sound(on), NEW a, a[1] \in Action, a[2] \in Action, RunsStep(a)
  PROVE  Sound(on)' /\ status = "AwaitingActions" /\ \E y \in Casts : Recorded(a, y)
<1>1. Runs(on)' /\ SinkOK' /\ status = "AwaitingActions"
  BY RunsStepKeeps, StepLines DEF Sound
<1>2. PICK y \in Casts : Recorded(a, y)
  BY DEF RunsStep, Recorded, First, Outcome
<1>3. ThrownOK'
  BY <1>2, RolledAgrees DEF Recorded
<1>4. Spent'
  <2>1. last' = last
    BY <1>2, StepOutcome, SoundTypes DEF Recorded
  <2>2. last.kind = Decide
    BY <1>1 DEF Sound, Runs, Ticks
  <2>3. SpotOf(last)'.kind = Decide
    BY <2>1, <2>2 DEF SpotOf, due
  <2>4. QED
    BY <2>3, KindsDiffer DEF Spent, IsDue
<1>5. QED
  BY <1>1, <1>2, <1>3, <1>4 DEF Sound

LEMMA StepTold ==
  ASSUME NEW on, Sound(on), NEW a, a[1] \in Action, a[2] \in Action, RunsStep(a),
         NEW picks, NEW played, NEW lines, Told(on, picks, played, lines),
         picks => /\ a[1] \in Answers(played, lines, states, 1, tick_t)
                  /\ a[2] \in Answers(played, lines, states, 2, tick_t)
  PROVE  Told(on, picks, played, lines)'
<1>1. PICK H, D : Tells(on, picks, played, lines, H, D, passed + 1, drawn, Now)
  BY DEF Told
<1>2. PICK y \in Casts : Recorded(a, y)
  BY StepSound
<1>3. SUFFICES \E H2, D2 : Tells(on, picks, played, lines, H2, D2, passed' + 1, drawn', Now')
  BY DEF Told
<1> DEFINE x1   == TickSpot(1)
           x2   == TickSpot(2)
           N    == passed + 1
           mid  == Middle(a, y)
           n    == Now'
           m    == Now
           more == drawn'
           H1   == Put(H, N, mid)
           D1   == Mark(D, N, a[1])
           H2   == Put(H1, N + 1, n)
           D2   == Mark(D1, N + 1, a[2])
<1>4. /\ passed = place(tick_t, Decide, 0) /\ passed' = passed + 2 /\ passed \in Nat
      /\ tick_t \in Grid /\ tick_t \in Nat /\ on # FALSE
  BY <1>2, StepPasses
<1>5. /\ x1 \in Spot /\ Pos(x1) = N /\ x2 \in Spot /\ Pos(x2) = N + 1 /\ IsTick(x1) /\ IsTick(x2)
      /\ N \in Nat
  BY <1>4, TickSpots, SoundTypes DEF IsTick, Slots
<1>6. Story(H, D, N, drawn, m) /\ (picks => Chosen(on, played, lines, H, D, N))
  BY <1>1 DEF Tells
<1>7. \A f : Extends(f, more) => /\ Extends(f, drawn) /\ mid = Effect(m, x1, a[1], f)
                                 /\ n = Effect(mid, x2, a[2], f)
  <2>1. \A f : Extends(f, drawn') => Extends(f, drawn)
    BY <1>2, RolledAgrees DEF Recorded
  <2>2. QED
    BY <1>2, <2>1, FirstEffect, SecondEffect
<1>8. mid.sunk \in Seq(SunkLine)
  BY <1>2, MiddleType
<1>9. n.sunk \in Seq(SunkLine)
  BY StepSound DEF Sound, SinkOK, Now
<1>10. m.states = states
  BY DEF Now
<1>11. N = place(tick_t, Decide, 1) /\ N + 1 = place(tick_t, Decide, 2) /\ passed' + 1 = N + 2
  BY <1>4 DEF place, Decide
<1>19. \A z \in Spot : ~(N <= Pos(z) /\ Pos(z) < Pos(x1)) /\ ~(N + 1 <= Pos(z) /\ Pos(z) < Pos(x2))
  BY <1>5, SpotParts
<1>20. N <= Pos(x1) /\ N + 1 <= Pos(x2)
  BY <1>5
<1> HIDE DEF mid, n, m, more, N, x1, x2
<1>12. Follows(m, N, drawn, x1, a[1], mid, more)
  BY <1>5, <1>7, <1>8, <1>19, <1>20 DEF Follows
<1>13. Story(H1, D1, N + 1, more, mid)
  BY <1>5, <1>6, <1>12, StoryGoesOn
<1>14. Follows(mid, N + 1, more, x2, a[2], n, more)
  BY <1>5, <1>7, <1>9, <1>19, <1>20 DEF Follows
<1> HIDE DEF H1, D1
<1>15. Story(H2, D2, N + 2, more, n)
  <2>1. Story(H2, D2, (N + 1) + 1, more, n)
    BY <1>5, <1>13, <1>14, StoryGoesOn
  <2>2. (N + 1) + 1 = N + 2
    BY <1>5
  <2>3. QED
    BY <2>1, <2>2
<1>16. ASSUME picks PROVE Chosen(on, played, lines, H2, D2, N + 2)
  <2>1. /\ \A k \in Nat : k <= N => H2[k] = H[k]
        /\ \A k \in Nat : D2[k] = IF k = N + 1 THEN a[2] ELSE IF k = N THEN a[1] ELSE D[k]
    BY <1>5 DEF H1, D1, Put, Mark
  <2>2. H[N] = m
    BY <1>5, <1>6 DEF Story
  <2> HIDE DEF H2, D2
  <2>3. SUFFICES ASSUME on = TRUE, NEW t \in Grid, NEW i \in Slots, place(t, Decide, i) < N + 2,
                        ~Over(H2[place(t, Decide, 1)])
                 PROVE  D2[place(t, Decide, i)] \in Answers(played, lines, H2[place(t, Decide, 1)].states, i, t)
    BY <1>4 DEF Chosen
  <2> DEFINE k == place(t, Decide, i)
             l == place(t, Decide, 1)
  <2>4. /\ k = 12 * t + 6 + i /\ l = 12 * t + 7 /\ t \in Nat /\ i \in 1..2
        /\ N = 12 * tick_t + 7
    BY <1>4, <1>11, TickPlaces DEF place, Decide
  <2>5. k < N + 2
    BY <2>3
  <2>6. ~Over(H2[l])
    BY <2>3
  <2>7. k < N /\ ~Over(H[l]) => D[k] \in Answers(played, lines, H[l].states, i, t)
    BY <1>6, <1>16, <2>3 DEF Chosen
  <2> HIDE DEF k, l
  <2>8. CASE k < N
    <3>1. H2[l] = H[l] /\ D2[k] = D[k]
      BY <1>5, <2>1, <2>4, <2>8
    <3>2. QED
      BY <2>6, <2>7, <2>8, <3>1 DEF k, l
  <2>9. CASE k = N
    <3>1. t = tick_t /\ i = 1 /\ l = N
      BY <1>4, <2>4, <2>9
    <3>2. H2[l] = m /\ D2[k] = a[1]
      BY <1>5, <2>1, <2>2, <2>9, <3>1
    <3>3. QED
      BY <1>10, <1>16, <3>1, <3>2 DEF k, l
  <2>10. CASE k = N + 1
    <3>1. t = tick_t /\ i = 2 /\ l = N
      BY <1>4, <2>4, <2>10
    <3>2. H2[l] = m /\ D2[k] = a[2]
      BY <1>5, <2>1, <2>2, <2>10, <3>1
    <3>3. QED
      BY <1>10, <1>16, <3>1, <3>2 DEF k, l
  <2>11. QED
    BY <1>5, <2>4, <2>5, <2>8, <2>9, <2>10
<1> HIDE DEF H2, D2
<1>17. Tells(on, picks, played, lines, H2, D2, N + 2, more, n)
  BY <1>15, <1>16 DEF Tells
<1>18. QED
  BY <1>11, <1>17 DEF n, more

-----------------------------------------------------------------------------
(* A run begins its story.                                                 *)

LEMMA StoryBegins ==
  ASSUME NEW dice, NEW on, NEW picks, NEW played, NEW lines
  PROVE  Tells(on, picks, played, lines, [p \in Nat |-> Start], [p \in Nat |-> "None"], 1, dice, Start)
<1> DEFINE H == [p \in Nat |-> Start]
           D == [p \in Nat |-> "None"]
<1>1. Start.sunk = <<>> /\ Start.checkpoints = 0 /\ ~Over(Start)
  BY DEF Start, Over
<1>2. \A p \in Nat : H[p] = Start /\ D[p] = "None"
  OBVIOUS
<1>3. Start.sunk \in Seq(SunkLine) /\ Begins(Start.sunk, Start.sunk)
  BY <1>1 DEF Begins
<1> HIDE DEF H, D
<1>4. ASSUME NEW x \in Spot
      PROVE  /\ Pos(x) < 1 => \A f : Extends(f, dice) => H[Pos(x) + 1] = Effect(H[Pos(x)], x, D[Pos(x)], f)
             /\ Said(Start.sunk, x) = Says(H[Pos(x)], x, D[Pos(x)])
             /\ D[Pos(x)] # "None" => IsTick(x)
  <2>1. Pos(x) \in Nat /\ Pos(x) + 1 \in Nat
    BY SpotParts
  <2>2. H[Pos(x)] = Start /\ H[Pos(x) + 1] = Start /\ D[Pos(x)] = "None"
    BY <1>2, <2>1
  <2>3. Said(Start.sunk, x) = Says(H[Pos(x)], x, D[Pos(x)])
    BY <1>1, <2>2, NothingSaid, SaidOnce
  <2>4. ASSUME Pos(x) < 1 PROVE ~IsDue(Start, x)
    <3>1. x.time = 0 /\ x.kind = 0
      BY <2>4, SpotParts
    <3>2. x.time # (Start.checkpoints + 1) * CHECKPOINT_INTERVAL_MS
      BY <1>1, <3>1 DEF CHECKPOINT_INTERVAL_MS
    <3>3. QED
      BY <3>1, <3>2 DEF IsDue, MatchEnd, Swing
  <2>5. QED
    BY <2>2, <2>3, <2>4, NothingSaid
<1>5. Story(H, D, 1, dice, Start)
  <2>1. /\ 1 \in Nat /\ H[0] = Start
        /\ \A p \in Nat : /\ H[p].sunk \in Seq(SunkLine) /\ Begins(H[p].sunk, Start.sunk)
                          /\ p >= 1 => H[p] = Start /\ D[p] = "None"
    BY <1>2, <1>3
  <2>2. \A p, q \in Nat : p <= q /\ Over(H[p]) => H[q] = Start
    BY <1>2
  <2>3. QED
    BY ONLY <1>4, <2>1, <2>2 DEF Story
<1>6. Chosen(on, played, lines, H, D, 1)
  <2>1. \A t \in Grid, i \in Slots : ~(place(t, Decide, i) < 1)
    BY TickPlaces
  <2>2. QED
    BY <1>2, <2>1 DEF Chosen
<1>7. QED
  BY <1>5, <1>6 DEF Tells, H, D

\* The engine was constructed and the sink is empty.
Opens(on) == Constructed(on) /\ SinkInit

LEMMA Opened ==
  ASSUME NEW on \in BOOLEAN, Opens(on)
  PROVE  Sound(on) /\ Now = Start /\ passed + 1 = 1
<1>1. Runs(on)
  BY FreshRuns DEF Opens
<1>2. /\ sunk = <<>> /\ thrown = [i \in Slots |-> <<>>] /\ status = "Advancing"
      /\ states = [i \in Slots |-> initial_state(Units[i])] /\ res.checkpoints = 0
      /\ last.time_ms = 0 /\ last.kind = Checkpoint /\ last.source_id = 0
  BY DEF Opens, SinkInit, Constructed, NoResult
<1>3. SinkOK /\ ThrownOK
  BY <1>2 DEF SinkOK, EndIsLast, At, ThrownOK
<1>4. Now = Start
  BY <1>2 DEF Now, Start
<1>5. Spent
  <2>1. SpotOf(last).time = 0 /\ SpotOf(last).kind = Checkpoint /\ Now.checkpoints = 0
    BY <1>2 DEF SpotOf, due, Now
  <2>2. QED
    BY <2>1, KindsDiffer DEF Spent, IsDue, CHECKPOINT_INTERVAL_MS
<1>6. passed + 1 = 1
  BY <1>2 DEF passed, PlaceOf, place, Checkpoint, Decide
<1>7. QED
  BY <1>1, <1>3, <1>4, <1>5, <1>6 DEF Sound

OpenedEither == \A on \in BOOLEAN : Opens(on) => Sound(on) /\ Now = Start /\ passed + 1 = 1

LEMMA EitherOpened == OpenedEither
  BY Opened DEF OpenedEither

LEMMA RunStarts ==
  ASSUME NEW on \in BOOLEAN, Opens(on), NEW picks, NEW played, NEW lines
  PROVE  Sound(on) /\ Told(on, picks, played, lines)
<1>1. Sound(on) /\ Now = Start /\ passed + 1 = 1
  BY Opened
<1>2. Told(on, picks, played, lines)
  BY <1>1, StoryBegins DEF Told
<1>3. QED
  BY <1>1, <1>2

LEMMA RerunStarts ==
  ASSUME NEW on \in BOOLEAN, Rerun(on), NEW picks, NEW played, NEW lines
  PROVE  Sound(on)' /\ \E H, D : Tells(on, picks, played, lines, H, D, passed' + 1, drawn', Now')
<1>1. Opens(on)'
  BY DEF Rerun, Opens, Constructed, SinkInit
<1>2. OpenedEither'
  BY EitherOpened, PTL
<1>3. Sound(on)' /\ Now' = Start /\ passed' + 1 = 1
  BY <1>1, <1>2 DEF OpenedEither, Start
<1>4. QED
  BY <1>3, StoryBegins

-----------------------------------------------------------------------------
(* Two runs with the same dice and the same applied actions.               *)

\* An action counts for what is applied.
LEMMA EffectSame ==
  ASSUME NEW m, NEW x, NEW a, NEW b, NEW f, Says(m, x, a) = Says(m, x, b)
  PROVE  Effect(m, x, a, f) = Effect(m, x, b, f)
<1>1. CASE Over(m)
  BY <1>1 DEF Effect
<1>2. CASE ~Over(m) /\ Applies(m, x, a)
  <2>1. DecisionOf(x, a) = DecisionOf(x, b) /\ Applies(m, x, b)
    BY <1>2 DEF Says
  <2>2. DecisionOf(x, a).action = a /\ DecisionOf(x, b).action = b
    BY DEF DecisionOf
  <2>3. a = b
    BY <2>1, <2>2
  <2>4. QED
    BY <2>3
<1>3. CASE ~Over(m) /\ ~Applies(m, x, a)
  <2>1. ~Applies(m, x, b)
    BY <1>3 DEF Says
  <2>2. CASE IsDue(m, x)
    <3>1. x.kind # Decide
      BY <2>2, KindsDiffer DEF IsDue
    <3>2. x.kind \in {Checkpoint, MatchEnd, Swing}
      BY <2>2 DEF IsDue
    <3>3. QED
      BY <2>2, <3>2 DEF Effect
  <2>3. CASE ~IsDue(m, x)
    BY <1>3, <2>1, <2>3 DEF Effect
  <2>4. QED
    BY <2>2, <2>3
<1>4. QED
  BY <1>1, <1>2, <1>3

\* Two stories that were the same up to a place say the same there.
Agree(H1, D1, N1, H2, D2, N2) ==
  \A x \in Spot :
    Pos(x) < N1 /\ Pos(x) < N2 /\ (\A q \in Nat : q <= Pos(x) => H1[q] = H2[q])
      => Says(H1[Pos(x)], x, D1[Pos(x)]) = Says(H2[Pos(x)], x, D2[Pos(x)])

LEMMA SameStory ==
  ASSUME NEW H1, NEW D1, NEW N1, NEW m1, NEW H2, NEW D2, NEW N2, NEW m2, NEW dice,
         Story(H1, D1, N1, dice, m1), Story(H2, D2, N2, dice, m2), Agree(H1, D1, N1, H2, D2, N2)
  PROVE  \A p \in Nat : p <= N1 /\ p <= N2 => H1[p] = H2[p]
<1> DEFINE B == {p \in Nat : p <= N1 /\ p <= N2 /\ H1[p] # H2[p]}
<1>1. SUFFICES ASSUME B # {} PROVE FALSE
  OBVIOUS
<1>2. PICK p \in B : \A j \in B : p <= j
  <2>1. B \subseteq Nat
    OBVIOUS
  <2> HIDE DEF B
  <2>2. QED
    BY <1>1, <2>1, LeastNat
<1>3. p \in Nat /\ p <= N1 /\ p <= N2 /\ H1[p] # H2[p] /\ N1 \in Nat /\ N2 \in Nat
      /\ H1[0] = Start /\ H2[0] = Start
  BY <1>2 DEF Story
<1>4. p # 0 /\ p - 1 \in Nat /\ p - 1 < N1 /\ p - 1 < N2 /\ (p - 1) + 1 = p
  BY <1>3
<1>5. ASSUME NEW q \in Nat, q <= p - 1 PROVE H1[q] = H2[q]
  <2>1. q <= N1 /\ q <= N2 /\ ~(p <= q)
    BY <1>3, <1>5
  <2>2. QED
    BY <1>2, <1>5, <2>1
<1>6. PICK x \in Spot : Pos(x) = p - 1
  BY <1>4, SpotAt
<1> HIDE DEF B
<1>7. Says(H1[Pos(x)], x, D1[Pos(x)]) = Says(H2[Pos(x)], x, D2[Pos(x)])
  BY <1>4, <1>5, <1>6 DEF Agree
<1>8. H1[Pos(x)] = H2[Pos(x)]
  BY <1>4, <1>5, <1>6
<1>9. Effect(H1[Pos(x)], x, D1[Pos(x)], dice) = Effect(H2[Pos(x)], x, D2[Pos(x)], dice)
  BY <1>7, <1>8, EffectSame
<1>10. Extends(dice, dice)
  BY DEF Extends
<1>11. H1[Pos(x) + 1] = Effect(H1[Pos(x)], x, D1[Pos(x)], dice)
  BY <1>4, <1>6, <1>10 DEF Story
<1>12. H2[Pos(x) + 1] = Effect(H2[Pos(x)], x, D2[Pos(x)], dice)
  BY <1>4, <1>6, <1>10 DEF Story
<1>13. QED
  BY <1>3, <1>4, <1>6, <1>9, <1>11, <1>12

\* If one of them is over the other cannot have gone further, and has come to
\* the same if it is over too.
LEMMA SameEnd ==
  ASSUME NEW H1, NEW D1, NEW N1, NEW m1, NEW H2, NEW D2, NEW N2, NEW m2, NEW dice,
         Story(H1, D1, N1, dice, m1), Story(H2, D2, N2, dice, m2), Agree(H1, D1, N1, H2, D2, N2),
         Over(m1)
  PROVE  /\ Begins(m2.sunk, m1.sunk)
         /\ Over(m2) => m2 = m1
         /\ ~Over(m2) => N2 < N1 /\ H1[N2] = m2
<1>1. \A p \in Nat : p <= N1 /\ p <= N2 => H1[p] = H2[p]
  BY SameStory
<1>2. /\ N1 \in Nat /\ N2 \in Nat
      /\ \A p \in Nat : /\ Begins(H1[p].sunk, m1.sunk)
                        /\ p >= N1 => H1[p] = m1
                        /\ p >= N2 => H2[p] = m2
      /\ \A p, q \in Nat : p <= q /\ Over(H1[p]) => H1[q] = m1
      /\ \A p, q \in Nat : p <= q /\ Over(H2[p]) => H2[q] = m2
      /\ H1[N1].sunk \in Seq(SunkLine)
  BY DEF Story
<1>3. Begins(m1.sunk, m1.sunk)
  BY <1>2 DEF Begins
<1>4. CASE N2 < N1
  <2>1. H1[N2] = m2
    BY <1>1, <1>2, <1>4
  <2>2. Over(m2) => H1[N1] = m1 /\ m2 = m1
    <3>1. ASSUME Over(m2) PROVE m2 = m1
      <4>1. H1[N2] = m1
        BY <1>2, <2>1, <3>1
      <4>2. QED
        BY <2>1, <4>1
    <3>2. QED
      BY <1>2, <3>1
  <2>3. QED
    BY <1>2, <1>4, <2>1, <2>2
<1>5. CASE N1 <= N2
  <2>1. H2[N1] = m1
    BY <1>1, <1>2, <1>5
  <2>2. H2[N2] = m2
    BY <1>2
  <2>3. m2 = m1
    <3>1. H2[N1] = m2
      BY <1>2, <2>1
    <3>2. QED
      BY <2>1, <3>1
  <2>4. QED
    BY <1>3, <2>3
<1>6. QED
  BY <1>2, <1>4, <1>5

\* The traces name the same decisions.
LEMMA SaidAgree ==
  ASSUME NEW H1, NEW D1, NEW N1, NEW m1, NEW H2, NEW D2, NEW N2, NEW m2, NEW dice,
         Story(H1, D1, N1, dice, m1), Story(H2, D2, N2, dice, m2),
         LinesOf(m1.sunk, "decision") = LinesOf(m2.sunk, "decision")
  PROVE  Agree(H1, D1, N1, H2, D2, N2)
<1>1. \A x \in Spot : Said(m1.sunk, x) = Said(m2.sunk, x)
  BY DEF Said
<1>2. \A x \in Spot : /\ Said(m1.sunk, x) = Says(H1[Pos(x)], x, D1[Pos(x)])
                      /\ Said(m2.sunk, x) = Says(H2[Pos(x)], x, D2[Pos(x)])
  BY DEF Story
<1>3. \A x \in Spot : Says(H1[Pos(x)], x, D1[Pos(x)]) = Says(H2[Pos(x)], x, D2[Pos(x)])
  BY ONLY <1>1, <1>2
<1>4. QED
  BY ONLY <1>3 DEF Agree

\* What is submitted at a tick that comes before the end is one of the answers
\* of that tick; elsewhere nothing is said.
LEMMA AnswersAt ==
  ASSUME NEW on \in BOOLEAN, NEW played, NEW lines, NEW H, NEW D, NEW N, NEW m, NEW dice,
         Story(H, D, N, dice, m), Chosen(on, played, lines, H, D, N),
         NEW x \in Spot, Pos(x) < N
  PROVE  \/ D[Pos(x)] = "None" /\ ~(on /\ IsTick(x))
         \/ Over(H[Pos(x)]) /\ on /\ IsTick(x)
         \/ /\ on /\ IsTick(x) /\ place(x.time, Decide, 1) \in Nat /\ place(x.time, Decide, 1) <= Pos(x)
            /\ D[Pos(x)] \in Answers(played, lines, H[place(x.time, Decide, 1)].states, x.unit, x.time)
<1>1. Pos(x) \in Nat /\ (D[Pos(x)] # "None" => IsTick(x))
  BY SpotParts DEF Story
<1>2. CASE ~IsTick(x)
  BY <1>1, <1>2
<1>3. CASE IsTick(x) /\ ~on
  <2>1. on = FALSE
    BY <1>3
  <2>2. D[Pos(x)] = "None"
    BY <1>1, <2>1 DEF Chosen
  <2>3. QED
    BY <1>3, <2>2
<1>4. CASE IsTick(x) /\ on
  <2>1. x.time \in Grid /\ x.unit \in Slots /\ x.kind = Decide /\ Pos(x) = place(x.time, Decide, x.unit)
    BY <1>4 DEF IsTick, Pos
  <2>2. place(x.time, Decide, 1) \in Nat /\ place(x.time, Decide, 1) <= Pos(x)
    BY <2>1, TickPlaces
  <2>3. Over(H[place(x.time, Decide, 1)]) => Over(H[Pos(x)])
    <3>1. ASSUME Over(H[place(x.time, Decide, 1)])
          PROVE  Over(H[Pos(x)])
      <4>1. H[place(x.time, Decide, 1)] = m /\ H[Pos(x)] = m
        BY <1>1, <2>2, <3>1 DEF Story
      <4>2. QED
        BY <3>1, <4>1
    <3>2. QED
      BY <3>1
  <2>4. ~Over(H[place(x.time, Decide, 1)]) =>
          D[Pos(x)] \in Answers(played, lines, H[place(x.time, Decide, 1)].states, x.unit, x.time)
    <3>1. on = TRUE
      BY <1>4
    <3>2. QED
      BY <2>1, <3>1 DEF Chosen
  <2>5. QED
    BY <1>4, <2>2, <2>3, <2>4
<1>5. QED
  BY <1>2, <1>3, <1>4

\* A pinned policy has one answer.
LEMMA PinnedChoose ==
  ASSUME NEW sts, NEW i \in Slots, NEW t,
         NEW a \in Choices(sts, i, t), NEW b \in Choices(sts, i, t)
  PROVE  a = b
  BY PinnedAssumption DEF Choices

\* Both follow the pinned policies.
LEMMA PinnedAgree ==
  ASSUME NEW on \in BOOLEAN, NEW lines1, NEW lines2,
         NEW H1, NEW D1, NEW N1, NEW m1, NEW H2, NEW D2, NEW N2, NEW m2, NEW dice,
         Story(H1, D1, N1, dice, m1), Story(H2, D2, N2, dice, m2),
         Chosen(on, FALSE, lines1, H1, D1, N1), Chosen(on, FALSE, lines2, H2, D2, N2)
  PROVE  Agree(H1, D1, N1, H2, D2, N2)
<1>1. SUFFICES ASSUME NEW x \in Spot, Pos(x) < N1, Pos(x) < N2,
                      \A q \in Nat : q <= Pos(x) => H1[q] = H2[q]
               PROVE  Says(H1[Pos(x)], x, D1[Pos(x)]) = Says(H2[Pos(x)], x, D2[Pos(x)])
  BY DEF Agree
<1> DEFINE p == Pos(x)
           l == place(x.time, Decide, 1)
<1>2. \/ D1[p] = "None" /\ ~(on /\ IsTick(x))
      \/ Over(H1[p]) /\ on /\ IsTick(x)
      \/ /\ on /\ IsTick(x) /\ l \in Nat /\ l <= p
         /\ D1[p] \in Answers(FALSE, lines1, H1[l].states, x.unit, x.time)
  BY <1>1, AnswersAt
<1>3. \/ D2[p] = "None" /\ ~(on /\ IsTick(x))
      \/ Over(H2[p]) /\ on /\ IsTick(x)
      \/ /\ on /\ IsTick(x) /\ l \in Nat /\ l <= p
         /\ D2[p] \in Answers(FALSE, lines2, H2[l].states, x.unit, x.time)
  BY <1>1, AnswersAt
<1>4. p \in Nat /\ H1[p] = H2[p]
  BY <1>1, SpotParts
<1>5. l \in Nat /\ l <= p => H1[l] = H2[l]
  BY <1>1
<1>6. IsTick(x) => x.unit \in Slots
  BY DEF IsTick
<1>7. SUFFICES Says(H1[p], x, D1[p]) = Says(H1[p], x, D2[p])
  BY <1>4
<1> HIDE DEF p, l
<1>8. CASE Over(H1[p])
  BY <1>8 DEF Says
<1>9. CASE ~(on /\ IsTick(x))
  BY <1>2, <1>3, <1>9
<1>10. CASE ~Over(H1[p]) /\ on /\ IsTick(x)
  <2>1. /\ D1[p] \in Choices(H1[l].states, x.unit, x.time)
        /\ D2[p] \in Choices(H1[l].states, x.unit, x.time)
    <3>1. ~Over(H2[p])
      BY <1>4, <1>10
    <3>2. /\ l \in Nat /\ l <= p
          /\ D1[p] \in Answers(FALSE, lines1, H1[l].states, x.unit, x.time)
          /\ D2[p] \in Answers(FALSE, lines2, H2[l].states, x.unit, x.time)
      BY <1>2, <1>3, <1>10, <3>1
    <3>3. H1[l] = H2[l]
      BY <1>5, <3>2
    <3>4. QED
      BY <3>2, <3>3 DEF Answers
  <2>2. D1[p] = D2[p]
    BY <1>6, <1>10, <2>1, PinnedChoose
  <2>3. QED
    BY <2>2
<1>11. QED
  BY <1>8, <1>9, <1>10

\* A playback submits at a tick what the trace says was applied there.
LEMMA ReplayedSaid ==
  ASSUME NEW lines, NEW x, x.kind = Decide, NEW m, NEW a, Said(lines, x) = Says(m, x, a)
  PROVE  Says(m, x, a) = Says(m, x, Replayed(lines, x.unit, x.time))
<1> DEFINE script == {l \in LinesOf(lines, "decision") : l.unit = x.unit}
<1>1. Said(lines, x) = {l \in script : l.t = x.time}
  BY DEF Said
<1>2. Replayed(lines, x.unit, x.time) = IF \E l \in script : l.t = x.time
                                        THEN (CHOOSE l \in script : l.t = x.time).action ELSE "None"
  BY DEF Replayed
<1> HIDE DEF script
<1>3. CASE Says(m, x, a) = {}
  <2>1. Replayed(lines, x.unit, x.time) = "None"
    BY <1>1, <1>2, <1>3
  <2>2. QED
    BY <1>3, <2>1, NothingSaid
<1>4. CASE Says(m, x, a) # {}
  <2>1. Said(lines, x) = {DecisionOf(x, a)}
    BY <1>4 DEF Says
  <2>2. (CHOOSE l \in script : l.t = x.time) = DecisionOf(x, a) /\ \E l \in script : l.t = x.time
    <3>1. \E l \in script : l.t = x.time
      BY <1>1, <2>1
    <3>2. (CHOOSE l \in script : l.t = x.time) \in Said(lines, x)
      BY <1>1, <3>1
    <3>3. QED
      BY <2>1, <3>1, <3>2
  <2>3. Replayed(lines, x.unit, x.time) = a
    <3>1. DecisionOf(x, a).action = a
      BY DEF DecisionOf
    <3>2. QED
      BY <1>2, <2>2, <3>1
  <2>4. QED
    BY <2>3
<1>5. QED
  BY <1>3, <1>4

\* The second is a playback of the first.
LEMMA PlayedAgree ==
  ASSUME NEW lines, NEW H1, NEW D1, NEW N1, NEW m1, NEW H2, NEW D2, NEW N2, NEW m2, NEW dice,
         Story(H1, D1, N1, dice, m1), Story(H2, D2, N2, dice, m2),
         LinesOf(lines, "decision") = LinesOf(m1.sunk, "decision"),
         Chosen(TRUE, TRUE, lines, H2, D2, N2)
  PROVE  Agree(H1, D1, N1, H2, D2, N2)
<1>1. SUFFICES ASSUME NEW x \in Spot, Pos(x) < N1, Pos(x) < N2,
                      \A q \in Nat : q <= Pos(x) => H1[q] = H2[q]
               PROVE  Says(H1[Pos(x)], x, D1[Pos(x)]) = Says(H2[Pos(x)], x, D2[Pos(x)])
  BY DEF Agree
<1> DEFINE p   == Pos(x)
           l   == place(x.time, Decide, 1)
           sts == H2[l].states
<1>20. TRUE \in BOOLEAN
  OBVIOUS
<1>2. \/ D2[p] = "None" /\ ~IsTick(x)
      \/ Over(H2[p]) /\ IsTick(x)
      \/ IsTick(x) /\ D2[p] \in Answers(TRUE, lines, sts, x.unit, x.time)
  BY <1>1, <1>20, AnswersAt
<1>3. p \in Nat /\ H1[p] = H2[p]
  BY <1>1, SpotParts
<1>4. Said(m1.sunk, x) = Says(H1[p], x, D1[p]) /\ (D1[p] # "None" => IsTick(x))
  BY DEF Story
<1>5. Said(lines, x) = Said(m1.sunk, x)
  BY DEF Said
<1>6. SUFFICES Says(H1[p], x, D1[p]) = Says(H1[p], x, D2[p])
  BY <1>3
<1> HIDE DEF p, l, sts
<1>7. CASE Over(H1[p])
  BY <1>7 DEF Says
<1>8. CASE ~IsTick(x)
  BY <1>2, <1>4, <1>8
<1>9. CASE ~Over(H1[p]) /\ IsTick(x)
  <2>1. D2[p] = Replayed(lines, x.unit, x.time)
    <3>1. ~Over(H2[p])
      BY <1>3, <1>9
    <3>2. QED
      BY <1>2, <1>9, <3>1 DEF Answers
  <2>2. x.kind = Decide
    BY <1>9 DEF IsTick
  <2>3. Said(lines, x) = Says(H1[p], x, D1[p])
    BY <1>4, <1>5
  <2>4. QED
    BY <2>1, <2>2, <2>3, ReplayedSaid
<1>10. QED
  BY <1>7, <1>8, <1>9

-----------------------------------------------------------------------------
(* The trace of a whole match.                                             *)

Prologue == <<HeaderLine, InitLine>>

\* What stands in a file after the prologue.
LEMMA FileLines ==
  ASSUME NEW lines \in Seq(SunkLine), NEW f, f = Prologue \o lines
  PROVE  /\ f \in Seq(FileLine) /\ Len(f) = Len(lines) + 2 /\ Len(lines) \in Nat
         /\ f[1] = HeaderLine /\ f[2] = InitLine
         /\ \A k \in 1..Len(lines) : f[k + 2] = lines[k]
<1>1. Prologue \in Seq(FileLine) /\ Len(Prologue) = 2
      /\ Prologue[1] = HeaderLine /\ Prologue[2] = InitLine
  BY DEF FileLine, Prologue
<1>2. lines \in Seq(FileLine)
  BY DEF FileLine
<1>3. LET j == Prologue \o lines
      IN  /\ j \in Seq(FileLine) /\ Len(j) = Len(Prologue) + Len(lines)
          /\ \A k \in 1..Len(Prologue) : j[k] = Prologue[k]
          /\ \A k \in 1..Len(lines) : j[Len(Prologue) + k] = lines[k]
  BY ONLY <1>1, <1>2, Joined, SMTT(30)
<1>4. /\ f \in Seq(FileLine) /\ Len(f) = Len(Prologue) + Len(lines)
      /\ \A k \in 1..Len(Prologue) : f[k] = Prologue[k]
      /\ \A k \in 1..Len(lines) : f[Len(Prologue) + k] = lines[k]
  BY <1>3
<1>5. Len(lines) \in Nat
  OBVIOUS
<1>6. QED
  BY <1>1, <1>4, <1>5

Shifted(A) == {j + 2 : j \in A}

LEMMA ShiftedCount ==
  ASSUME NEW A, A \subseteq Nat, IsFiniteSet(A)
  PROVE  Cardinality(Shifted(A)) = Cardinality(A)
<1> DEFINE g == [j \in A |-> j + 2]
           B == Shifted(A)
<1>1. \A j \in A : j \in Nat
  OBVIOUS
<1>2. g \in [A -> B] /\ \A j \in A : g[j] = j + 2
  BY DEF Shifted
<1>3. \A b \in B : \E j \in A : b = j + 2
  BY DEF Shifted
<1> HIDE DEF g, B
<1>4. \A j, k \in A : g[j] = g[k] => j = k
  BY <1>1, <1>2
<1>5. \A b \in B : \E j \in A : g[j] = b
  BY <1>2, <1>3
<1>6. g \in Injection(A, B)
  BY <1>2, <1>4 DEF Injection, IsInjective
<1>7. g \in Surjection(A, B)
  BY <1>2, <1>5 DEF Surjection
<1>8. ExistsBijection(A, B)
  BY <1>6, <1>7 DEF ExistsBijection, Bijection
<1>9. QED
  BY <1>8, FS_Bijection DEF B

\* The lines of a type stand in the file two places further on.
LEMMA FileAt ==
  ASSUME NEW lines \in Seq(SunkLine), NEW f, f = Prologue \o lines,
         NEW type, type \notin {"header", "init"}
  PROVE  At(f, type) = Shifted(At(lines, type))
<1>1. /\ DOMAIN f = 1..Len(lines) + 2 /\ DOMAIN lines = 1..Len(lines) /\ Len(lines) \in Nat
      /\ f[1] = HeaderLine /\ f[2] = InitLine
      /\ \A k \in 1..Len(lines) : f[k + 2] = lines[k]
  BY FileLines, SMTT(30)
<1>2. f[1].type # type /\ f[2].type # type
  BY <1>1 DEF HeaderLine, InitLine
<1>3. ASSUME NEW k \in At(f, type) PROVE k \in Shifted(At(lines, type))
  <2>1. k \in 1..Len(lines) + 2 /\ f[k].type = type
    BY <1>1 DEF At
  <2>2. k # 1 /\ k # 2
    BY <1>2, <2>1
  <2>3. k - 2 \in 1..Len(lines) /\ (k - 2) + 2 = k
    BY <1>1, <2>1, <2>2
  <2>4. lines[k - 2].type = type
    BY <1>1, <2>1, <2>3
  <2>5. k - 2 \in At(lines, type)
    BY <1>1, <2>3, <2>4 DEF At
  <2>6. QED
    BY <2>3, <2>5 DEF Shifted
<1>4. ASSUME NEW j \in At(lines, type) PROVE j + 2 \in At(f, type)
  <2>1. j \in 1..Len(lines) /\ lines[j].type = type
    BY <1>1 DEF At
  <2>2. j + 2 \in 1..Len(lines) + 2 /\ f[j + 2] = lines[j]
    BY <1>1, <2>1
  <2>3. QED
    BY <1>1, <2>1, <2>2 DEF At
<1>5. QED
  BY <1>3, <1>4 DEF Shifted

LEMMA FileCount ==
  ASSUME NEW lines \in Seq(SunkLine), NEW f, f = Prologue \o lines,
         NEW type, type \notin {"header", "init"}
  PROVE  Count(f, type) = Count(lines, type) /\ LinesOf(f, type) = LinesOf(lines, type)
<1>1. At(f, type) = Shifted(At(lines, type))
  BY FileAt
<1>2. At(lines, type) \subseteq 1..Len(lines) /\ IsFiniteSet(At(lines, type)) /\ Len(lines) \in Nat
  BY AtIsFinite
<1>3. At(lines, type) \subseteq Nat
  BY <1>2
<1>4. Count(f, type) = Count(lines, type)
  BY <1>1, <1>2, <1>3, ShiftedCount DEF Count
<1>5. \A j \in At(lines, type) : f[j + 2] = lines[j]
  BY <1>2, FileLines
<1>6. LinesOf(f, type) = LinesOf(lines, type)
  <2>1. \A k \in At(f, type) : \E j \in At(lines, type) : k = j + 2
    BY <1>1 DEF Shifted
  <2>2. \A j \in At(lines, type) : j + 2 \in At(f, type)
    BY <1>1 DEF Shifted
  <2>3. ASSUME NEW l \in LinesOf(f, type) PROVE l \in LinesOf(lines, type)
    <3>1. PICK k \in At(f, type) : l = f[k]
      BY DEF LinesOf
    <3>2. PICK j \in At(lines, type) : k = j + 2
      BY <2>1
    <3>3. l = lines[j]
      BY <1>5, <3>1, <3>2
    <3>4. QED
      BY <3>3 DEF LinesOf
  <2>4. LinesOf(lines, type) \subseteq LinesOf(f, type)
    BY <1>5, <2>2 DEF LinesOf
  <2>5. QED
    BY <2>3, <2>4
<1>7. QED
  BY <1>4, <1>6

LEMMA FileOrdinal ==
  ASSUME NEW lines \in Seq(SunkLine), NEW f, f = Prologue \o lines, NEW j \in 1..Len(lines),
         lines[j].type \notin {"header", "init"}
  PROVE  Ordinal(f, j + 2) = Ordinal(lines, j)
<1> DEFINE type == lines[j].type
           A    == At(lines, type)
           upto == {n \in A : n <= j}
           B    == At(f, type)
<1>1. f[j + 2] = lines[j] /\ type \notin {"header", "init"}
  BY FileLines
<1> HIDE DEF type
<1>2. /\ A \subseteq 1..Len(lines) /\ IsFiniteSet(A) /\ Len(lines) \in Nat
      /\ B = Shifted(A)
  <2>1. A \subseteq 1..Len(lines) /\ IsFiniteSet(A)
    BY AtIsFinite
  <2>2. B = Shifted(A)
    BY <1>1, FileAt
  <2>3. QED
    BY <2>1, <2>2
<1>3. IsFiniteSet(upto) /\ upto \subseteq Nat
  <2> HIDE DEF A
  <2>1. upto \subseteq A
    OBVIOUS
  <2>2. A \subseteq Nat
    BY <1>2
  <2>3. QED
    BY <1>2, <2>1, <2>2, FS_Subset
<1>4. Ordinal(lines, j) = Cardinality(upto) /\ Ordinal(f, j + 2) = Cardinality({n \in B : n <= j + 2})
  BY <1>1 DEF Ordinal, type
<1> HIDE DEF A, B
<1>5. {n \in B : n <= j + 2} = Shifted(upto)
  <2>1. \A n \in A : n \in Nat
    BY <1>2
  <2>2. \A n \in Nat : n + 2 <= j + 2 <=> n <= j
    OBVIOUS
  <2>3. {n \in B : n <= j + 2} = {n \in Shifted(A) : n <= j + 2}
    BY <1>2
  <2>4. QED
    BY <2>1, <2>2, <2>3 DEF Shifted
<1> HIDE DEF upto
<1>6. QED
  BY <1>3, <1>4, <1>5, ShiftedCount

\* The verifier accepts what the second run would itself have written.
LEMMA OwnTraceAccepted ==
  ASSUME SinkOK, status = "Ended", file = Prologue \o sunk
  PROVE  Verdict = ""
<1>1. /\ sunk \in Seq(SunkLine) /\ At(sunk, "end") = {Len(sunk)} /\ sunk[Len(sunk)] = EndLine
  BY DEF SinkOK, EndIsLast
<1>2. /\ Len(file) = Len(sunk) + 2 /\ Len(sunk) \in Nat /\ file[2] = InitLine
      /\ \A k \in 1..Len(sunk) : file[k + 2] = sunk[k]
  BY <1>1, FileLines
<1>3. LineError(2) = ""
  <2>1. InitLine.type = "init" /\ "hash" \in DOMAIN InitLine
    BY DEF InitLine
  <2>2. DOMAIN InitLine # {"type"}
    BY <2>1
  <2>3. QED
    BY <1>2, <2>1, <2>2 DEF LineError
<1>4. ASSUME NEW j \in 1..Len(sunk) PROVE LineError(j + 2) = ""
  <2> DEFINE line  == sunk[j]
             resim == {i \in At(sunk, "checkpoint") : Ordinal(sunk, i) = Ordinal(file, j + 2)}
  <2>1. line \in SunkLine /\ file[j + 2] = line /\ j \in DOMAIN sunk
    BY <1>1, <1>2
  <2>2. line.type \in {"checkpoint", "decision", "swing", "ability", "end"}
    BY <2>1 DEF SunkLine, PlainLine
  <2>3. CASE line.type = "checkpoint"
    <3>1. "t" \in DOMAIN line
      BY <2>1, <2>3 DEF SunkLine, PlainLine
    <3>2. DOMAIN line # {"type"}
      BY <3>1
    <3>3. Ordinal(file, j + 2) = Ordinal(sunk, j) /\ j \in At(sunk, "checkpoint")
      BY <1>1, <2>1, <2>3, FileOrdinal DEF At
    <3>4. j \in resim /\ \A i \in resim : i = j
      BY <1>1, <3>3, OrdinalsDiffer
    <3>5. resim # {} /\ \A i \in resim : sunk[i] = line
      BY <3>4
    <3>6. QED
      BY <2>1, <2>3, <3>2, <3>5 DEF LineError
  <2>4. CASE line.type = "end"
    <3>1. j \in At(sunk, "end")
      BY <2>1, <2>4 DEF At
    <3>2. line = EndLine
      BY <1>1, <3>1
    <3>3. line.t = res.end_ms /\ line.reason = res.end_reason /\ "t" \in DOMAIN line
      BY <3>2 DEF EndLine
    <3>4. DOMAIN line # {"type"}
      BY <3>3
    <3>5. QED
      BY <2>1, <2>4, <3>3, <3>4 DEF LineError
  <2>5. CASE line.type \in {"decision", "swing", "ability"}
    <3> HIDE DEF line
    <3>1. QED
      BY <2>1, <2>5 DEF LineError
  <2>6. QED
    BY <2>2, <2>3, <2>4, <2>5
<1>5. BadLines = {}
  <2>1. SUFFICES ASSUME NEW k \in 2..Len(file) PROVE LineError(k) = ""
    BY DEF BadLines
  <2>2. CASE k = 2
    BY <1>3, <2>2
  <2>3. CASE k # 2
    <3>1. k - 2 \in 1..Len(sunk) /\ (k - 2) + 2 = k
      BY <1>2, <2>1, <2>3
    <3>2. QED
      BY <1>4, <3>1
  <2>4. QED
    BY <2>2, <2>3
<1>6. \A type \in {"checkpoint", "swing", "ability", "decision"} : Count(file, type) = Count(sunk, type)
  BY <1>1, FileCount
<1>7. At(file, "end") # {}
  <2>1. At(file, "end") = Shifted({Len(sunk)})
    BY <1>1, FileAt
  <2>2. QED
    BY <2>1 DEF Shifted
<1>8. QED
  BY <1>5, <1>6, <1>7 DEF Verdict

-----------------------------------------------------------------------------
(* When a file is whole.                                                   *)

\* Only the trace of a match that has ended is whole.
LEMMA ClosedWhole ==
  ASSUME SinkOK, file' = Written
  PROVE  Whole' <=> status = "Ended"
<1> DEFINE n == Len(sunk)
<1>1. /\ sunk \in Seq(SunkLine)
      /\ At(sunk, "end") = IF status = "Ended" THEN {n} ELSE {}
      /\ status = "Ended" => sunk[n] = EndLine
  BY DEF SinkOK, EndIsLast
<1>2. /\ Len(Written) = n + 2 /\ n \in Nat /\ Written[2] = InitLine
      /\ \A k \in 1..n : Written[k + 2] = sunk[k]
  BY <1>1, FileLines DEF Written, Prologue
<1>3. Whole' <=> Written # <<>> /\ Written[n + 2].type = "end" /\ DOMAIN Written[n + 2] # {"type"}
  BY <1>2 DEF Whole
<1>4. CASE status = "Ended"
  <2>1. n \in 1..n
    <3>1. n \in At(sunk, "end") /\ At(sunk, "end") \subseteq 1..n
      BY <1>1, <1>4, AtIsFinite
    <3>2. QED
      BY <3>1
  <2>2. Written[n + 2] = EndLine
    BY <1>1, <1>2, <1>4, <2>1
  <2>3. EndLine.type = "end" /\ "t" \in DOMAIN EndLine
    BY DEF EndLine
  <2>4. Written # <<>>
    BY <1>2
  <2>5. DOMAIN EndLine # {"type"}
    BY <2>3
  <2>6. QED
    BY <1>3, <1>4, <2>2, <2>3, <2>4, <2>5
<1>5. CASE status # "Ended"
  <2>1. Written[n + 2].type # "end"
    <3>1. CASE n = 0
      BY <1>2, <3>1 DEF InitLine
    <3>2. CASE n # 0
      <4>1. n \in 1..n /\ DOMAIN sunk = 1..n
        BY <1>1, <1>2, <3>2
      <4>2. n \notin At(sunk, "end")
        BY <1>1, <1>5
      <4>3. Written[n + 2] = sunk[n] /\ sunk[n].type # "end"
        BY <1>2, <4>1, <4>2 DEF At
      <4>4. QED
        BY <4>3
    <3>3. QED
      BY <3>1, <3>2
  <2>2. QED
    BY <1>3, <1>5, <2>1
<1>6. QED
  BY <1>4, <1>5

\* A killed recorder leaves a whole trace only if it had written everything.
LEMMA KilledWhole ==
  ASSUME SinkOK, Kill, Whole'
  PROVE  status = "Ended" /\ file' = Written
<1> DEFINE n == Len(sunk)
<1>1. sunk \in Seq(SunkLine) /\ At(sunk, "end") = IF status = "Ended" THEN {n} ELSE {}
  BY DEF SinkOK, EndIsLast
<1>2. /\ Written \in Seq(FileLine) /\ Len(Written) = n + 2 /\ n \in Nat
      /\ Written[1] = HeaderLine /\ Written[2] = InitLine
      /\ \A k \in 1..n : Written[k + 2] = sunk[k]
  BY <1>1, FileLines DEF Written, Prologue
<1>3. file' # <<>> /\ file'[Len(file')].type = "end" /\ DOMAIN file'[Len(file')] # {"type"}
  BY DEF Whole
<1>4. PICK l \in 0..Len(Written) :
        \/ file' = SubSeq(Written, 1, l)
        \/ l > 0 /\ \E cut \in CutLine(Written[l]) : file' = SubSeq(Written, 1, l - 1) \o <<cut>>
  BY DEF Kill
<1>5. CASE file' = SubSeq(Written, 1, l)
  <2>1. Len(file') = l /\ (l # 0 => file'[l] = Written[l])
    BY <1>2, <1>4, <1>5
  <2>2. l # 0 /\ Written[l].type = "end"
    <3>1. l # 0
      <4>1. SUFFICES ASSUME l = 0 PROVE FALSE
        OBVIOUS
      <4>2. file' = <<>>
        BY <1>2, <1>5, <4>1
      <4>3. QED
        BY <1>3, <4>2
    <3>2. QED
      BY <1>3, <2>1, <3>1
  <2>3. l # 1 /\ l # 2
    BY <1>2, <2>2 DEF HeaderLine, InitLine
  <2>4. l - 2 \in 1..n /\ (l - 2) + 2 = l
    BY <1>2, <1>4, <2>2, <2>3
  <2>5. l - 2 \in At(sunk, "end")
    BY <1>1, <1>2, <2>2, <2>4 DEF At
  <2>6. status = "Ended" /\ l = n + 2
    BY <1>1, <1>2, <2>4, <2>5
  <2>7. SubSeq(Written, 1, Len(Written)) = Written
    BY <1>2
  <2>8. QED
    BY <1>2, <1>5, <2>6, <2>7
<1>6. CASE l > 0 /\ \E cut \in CutLine(Written[l]) : file' = SubSeq(Written, 1, l - 1) \o <<cut>>
  <2>1. PICK cut \in CutLine(Written[l]) : file' = SubSeq(Written, 1, l - 1) \o <<cut>>
    BY <1>6
  <2>2. Len(file') = l /\ file'[l] = cut
    <3> DEFINE head == SubSeq(Written, 1, l - 1)
               X    == FileLine \cup {cut}
               tail == <<cut>>
    <3>1. head \in Seq(FileLine) /\ Len(head) = l - 1 /\ l \in Nat
      <4>1. l \in 0..n + 2 /\ n \in Nat /\ l > 0
        BY <1>2, <1>6
      <4>3. l - 1 \in 0..Len(Written) /\ l \in Nat
        BY ONLY <1>2, <4>1
      <4>2. QED
        BY <1>2, <4>3
    <3>2. tail \in Seq(X) /\ Len(tail) = 1 /\ tail[1] = cut
      OBVIOUS
    <3> HIDE DEF head, tail
    <3>3. head \in Seq(X)
      BY <3>1
    <3>4. file' = head \o tail
      BY <2>1 DEF head, tail
    <3> HIDE DEF X
    <3>5. /\ Len(head \o tail) = Len(head) + Len(tail)
          /\ \A k \in 1..Len(tail) : (head \o tail)[Len(head) + k] = tail[k]
      BY ONLY <3>2, <3>3, Joined, SMTT(30)
    <3>6. QED
      BY <3>1, <3>2, <3>4, <3>5
  <2>3. DOMAIN cut = {"type"}
    BY <2>1 DEF CutLine
  <2>4. QED
    BY <1>3, <2>2, <2>3
<1>7. QED
  BY <1>4, <1>5, <1>6

-----------------------------------------------------------------------------
(* The two runs of a trace.                                                *)

\* The lines f are the trace of a match that is over, with its pinned choices
\* if picks.
FileTells(f, on, picks, dice) ==
  \E H, D, N, m : /\ Story(H, D, N, dice, m) /\ Over(m) /\ f = Prologue \o m.sunk
                  /\ picks => Chosen(on, FALSE, <<>>, H, D, N)

FileTold == Whole => FileTells(file, run_ticks, recorder = "arena_run", drawn)

LEMMA FileFromRun ==
  ASSUME NEW on, NEW picks, Told(on, picks, FALSE, <<>>), status = "Ended"
  PROVE  FileTells(Written, on, picks, drawn)
<1>1. PICK H, D : Tells(on, picks, FALSE, <<>>, H, D, passed + 1, drawn, Now)
  BY DEF Told
<1>2. Story(H, D, passed + 1, drawn, Now) /\ (picks => Chosen(on, FALSE, <<>>, H, D, passed + 1))
  BY <1>1 DEF Tells
<1>3. Over(Now) /\ Written = Prologue \o Now.sunk
  BY DEF Over, Now, Written, Prologue
<1>4. QED
  BY <1>2, <1>3 DEF FileTells

LEMMA FileStays ==
  ASSUME NEW f, NEW on, NEW picks, NEW dice, FileTells(f, on, picks, dice), NEW more,
         \A g : Extends(g, more) => Extends(g, dice)
  PROVE  FileTells(f, on, picks, more)
<1>1. PICK H, D, N, m : /\ Story(H, D, N, dice, m) /\ Over(m) /\ f = Prologue \o m.sunk
                        /\ picks => Chosen(on, FALSE, <<>>, H, D, N)
  BY DEF FileTells
<1>2. Story(H, D, N, more, m)
  BY <1>1, StoryStays
<1>3. QED
  BY <1>1, <1>2 DEF FileTells

LEMMA StorySunk ==
  ASSUME NEW H, NEW D, NEW N, NEW dice, NEW m, Story(H, D, N, dice, m)
  PROVE  m.sunk \in Seq(SunkLine)
<1>1. N \in Nat /\ H[N] = m /\ H[N].sunk \in Seq(SunkLine)
  BY DEF Story
<1>2. QED
  BY <1>1

\* A second run of the pinned policies, or one with the same decisions in its
\* trace, writes the same trace.
LEMMA SecondRunSame ==
  ASSUME NEW on, on = run_ticks, NEW picks, FileTells(file, on, picks, drawn),
         Told(on, TRUE, FALSE, file), status = "Ended", SinkOK,
         picks \/ LinesOf(file, "decision") = LinesOf(sunk, "decision")
  PROVE  file = Prologue \o sunk
<1>1. PICK H1, D1, N1, m1 : /\ Story(H1, D1, N1, drawn, m1) /\ Over(m1) /\ file = Prologue \o m1.sunk
                            /\ picks => Chosen(on, FALSE, <<>>, H1, D1, N1)
  BY DEF FileTells
<1>2. PICK H2, D2 : Tells(on, TRUE, FALSE, file, H2, D2, passed + 1, drawn, Now)
  BY DEF Told
<1>3. Story(H2, D2, passed + 1, drawn, Now) /\ Chosen(on, FALSE, file, H2, D2, passed + 1)
  BY <1>2 DEF Tells
<1>4. Over(Now) /\ Now.sunk = sunk
  BY DEF Over, Now
<1>5. Agree(H1, D1, N1, H2, D2, passed + 1)
  <2>1. CASE picks
    <3>1. on \in BOOLEAN
      BY TicksAreBoolean
    <3>2. QED
      BY <1>1, <1>3, <2>1, <3>1, PinnedAgree
  <2>2. CASE ~picks
    <3>1. m1.sunk \in Seq(SunkLine) /\ "decision" \notin {"header", "init"}
      BY <1>1, StorySunk
    <3>2. LinesOf(file, "decision") = LinesOf(m1.sunk, "decision")
      BY <1>1, <3>1, FileCount
    <3>3. LinesOf(m1.sunk, "decision") = LinesOf(Now.sunk, "decision")
      BY <1>4, <2>2, <3>2
    <3>4. QED
      BY <1>1, <1>3, <3>3, SaidAgree
  <2>3. QED
    BY <2>1, <2>2
<1>6. Now = m1
  BY <1>1, <1>3, <1>4, <1>5, SameEnd
<1>7. QED
  BY <1>1, <1>4, <1>6

\* What a playback shares with the match it plays back.
LEMMA PlaybackShares ==
  ASSUME NEW on, NEW picks, FileTells(file, on, picks, drawn), Told(TRUE, TRUE, TRUE, file)
  PROVE  \E H1, D1, N1, m1, H2, D2 :
           /\ Story(H1, D1, N1, drawn, m1) /\ file = Prologue \o m1.sunk
           /\ m1.sunk \in Seq(SunkLine) /\ LinesOf(file, "decision") = LinesOf(m1.sunk, "decision")
           /\ Story(H2, D2, passed + 1, drawn, Now)
           /\ Begins(sunk, m1.sunk)
           /\ status = "Ended" => m1.sunk = sunk
           /\ status # "Ended" => passed + 1 < N1 /\ H1[passed + 1] = Now
<1>1. PICK H1, D1, N1, m1 : Story(H1, D1, N1, drawn, m1) /\ Over(m1) /\ file = Prologue \o m1.sunk
  BY DEF FileTells
<1>2. PICK H2, D2 : Tells(TRUE, TRUE, TRUE, file, H2, D2, passed + 1, drawn, Now)
  BY DEF Told
<1>3. Story(H2, D2, passed + 1, drawn, Now) /\ Chosen(TRUE, TRUE, file, H2, D2, passed + 1)
  BY <1>2 DEF Tells
<1>4. m1.sunk \in Seq(SunkLine) /\ "decision" \notin {"header", "init"}
  BY <1>1, StorySunk
<1>5. LinesOf(file, "decision") = LinesOf(m1.sunk, "decision")
  BY <1>1, <1>4, FileCount
<1>6. Agree(H1, D1, N1, H2, D2, passed + 1)
  BY <1>1, <1>3, <1>5, PlayedAgree
<1>7. /\ Begins(Now.sunk, m1.sunk)
      /\ Over(Now) => Now = m1
      /\ ~Over(Now) => passed + 1 < N1 /\ H1[passed + 1] = Now
  BY <1>1, <1>3, <1>6, SameEnd
<1>8. (Over(Now) <=> status = "Ended") /\ Now.sunk = sunk
  BY DEF Over, Now
<1>9. QED
  BY <1>1, <1>3, <1>4, <1>5, <1>7, <1>8

LEMMA BeginsPrefix ==
  ASSUME NEW X, NEW s \in Seq(X), NEW t \in Seq(X), Begins(s, t)
  PROVE  S!IsPrefix(s, t)
<1>1. Len(s) \in Nat /\ Len(t) \in Nat /\ Len(s) <= Len(t) /\ \A k \in 1..Len(s) : t[k] = s[k]
  BY DEF Begins
<1>2. SubSeq(t, 1, Len(s)) = SubSeq(s, 1, Len(s))
  BY <1>1
<1>3. QED
  BY <1>1, <1>2 DEF S!IsPrefix

LEMMA PrologueBegins ==
  ASSUME NEW s \in Seq(SunkLine), NEW t \in Seq(SunkLine), Begins(s, t)
  PROVE  S!IsPrefix(Prologue \o s, Prologue \o t)
<1> DEFINE f == Prologue \o s
           g == Prologue \o t
<1>1. /\ f \in Seq(FileLine) /\ Len(f) = Len(s) + 2 /\ Len(s) \in Nat
      /\ f[1] = HeaderLine /\ f[2] = InitLine
      /\ \A k \in 1..Len(s) : f[k + 2] = s[k]
  BY FileLines
<1>2. /\ g \in Seq(FileLine) /\ Len(g) = Len(t) + 2 /\ Len(t) \in Nat
      /\ g[1] = HeaderLine /\ g[2] = InitLine
      /\ \A k \in 1..Len(t) : g[k + 2] = t[k]
  BY FileLines
<1> HIDE DEF f, g
<1>3. Len(s) <= Len(t) /\ \A k \in 1..Len(s) : t[k] = s[k]
  BY DEF Begins
<1>4. ASSUME NEW k \in 1..Len(f) PROVE g[k] = f[k]
  <2>1. CASE k = 1 \/ k = 2
    BY <1>1, <1>2, <2>1
  <2>2. CASE k # 1 /\ k # 2
    <3>1. k - 2 \in 1..Len(s) /\ k - 2 \in 1..Len(t) /\ (k - 2) + 2 = k
      BY <1>1, <1>2, <1>3, <2>2
    <3>2. f[k] = s[k - 2] /\ g[k] = t[k - 2] /\ t[k - 2] = s[k - 2]
      BY <1>1, <1>2, <1>3, <3>1
    <3>3. QED
      BY <3>2
  <2>3. QED
    BY <2>1, <2>2
<1>5. Begins(f, g)
  BY <1>1, <1>2, <1>3, <1>4 DEF Begins
<1>6. QED
  BY <1>1, <1>2, <1>5, BeginsPrefix DEF f, g

\* A playback writes the trace that it plays back.
LEMMA PlaybackWrites ==
  ASSUME NEW on, NEW picks, FileTells(file, on, picks, drawn), Told(TRUE, TRUE, TRUE, file), SinkOK
  PROVE  /\ S!IsPrefix(<<HeaderLine, InitLine>> \o sunk, file)
         /\ status = "Ended" => Len(file) = 2 + Len(sunk)
<1>1. PICK m1 : /\ file = Prologue \o m1.sunk /\ m1.sunk \in Seq(SunkLine)
                /\ Begins(sunk, m1.sunk)
                /\ status = "Ended" => m1.sunk = sunk
  BY PlaybackShares
<1>2. sunk \in Seq(SunkLine)
  BY DEF SinkOK
<1>3. S!IsPrefix(Prologue \o sunk, Prologue \o m1.sunk)
  BY <1>1, <1>2, PrologueBegins
<1>4. Len(file) = Len(m1.sunk) + 2 /\ Len(m1.sunk) \in Nat
  BY <1>1, FileLines
<1>5. QED
  BY <1>1, <1>3, <1>4 DEF Prologue

\* An action that a playback takes from the trace applies.
LEMMA ReplayedApplies ==
  ASSUME NEW lines, NEW x, x.kind = Decide, NEW m, NEW a, Said(lines, x) = Says(m, x, a),
         Replayed(lines, x.unit, x.time) # "None"
  PROVE  Applies(m, x, Replayed(lines, x.unit, x.time))
<1>1. Says(m, x, a) = Says(m, x, Replayed(lines, x.unit, x.time))
  BY ReplayedSaid
<1>2. Said(lines, x) # {}
  <2>1. \E l \in LinesOf(lines, "decision") : l.unit = x.unit /\ l.t = x.time
    BY DEF Replayed
  <2>2. QED
    BY <2>1 DEF Said
<1>3. QED
  BY <1>1, <1>2 DEF Says

LEMMA PlaybackLegal ==
  ASSUME NEW on, NEW picks, NEW ticks, Sound(ticks),
         NEW a, a[1] \in Action, a[2] \in Action, NEW y \in Casts, Recorded(a, y),
         FileTells(file, on, picks, drawn), Told(TRUE, TRUE, TRUE, file),
         a[1] = Replayed(file, 1, tick_t), a[2] = Replayed(file, 2, tick_t)
  PROVE  res'.illegal_actions = res.illegal_actions
<1> DEFINE N  == passed + 1
           x1 == TickSpot(1)
           x2 == TickSpot(2)
<1>1. PICK H1, D1, N1, m1 :
        /\ Story(H1, D1, N1, drawn, m1)
        /\ LinesOf(file, "decision") = LinesOf(m1.sunk, "decision")
        /\ status # "Ended" => N < N1 /\ H1[N] = Now
  BY PlaybackShares
<1>2. status = "AwaitingActions" /\ IInv /\ Step(a, y) /\ TypeOK
  BY StepFacts, SoundTypes DEF Recorded
<1>3. /\ N = place(tick_t, Decide, 0) + 1 /\ N \in Nat
      /\ x1 \in Spot /\ Pos(x1) = N /\ x1.kind = Decide /\ x1.unit = 1 /\ x1.time = tick_t
      /\ x2 \in Spot /\ Pos(x2) = N + 1 /\ x2.kind = Decide /\ x2.unit = 2 /\ x2.time = tick_t
  <2>1. passed = place(tick_t, Decide, 0) /\ passed \in Nat
    BY StepPasses
  <2>2. 1 \in Slots /\ 2 \in Slots
    BY DEF Slots
  <2>3. /\ x1 \in Spot /\ Pos(x1) = place(tick_t, Decide, 0) + 1
        /\ x1.kind = Decide /\ x1.unit = 1 /\ x1.time = tick_t
    BY <1>2, <2>2, TickSpots
  <2>4. /\ x2 \in Spot /\ Pos(x2) = place(tick_t, Decide, 0) + 2
        /\ x2.kind = Decide /\ x2.unit = 2 /\ x2.time = tick_t
    BY <1>2, <2>2, TickSpots
  <2> HIDE DEF x1, x2
  <2>5. QED
    BY <2>1, <2>3, <2>4
<1>4. N < N1 /\ H1[N] = Now /\ N1 \in Nat
  BY <1>1, <1>2 DEF Story
<1>5. \A x \in Spot : Said(file, x) = Said(m1.sunk, x)
  BY <1>1 DEF Said
<1>6. \A x \in Spot : Said(file, x) = Says(H1[Pos(x)], x, D1[Pos(x)])
  BY <1>1, <1>5 DEF Story
<1> HIDE DEF N, x1, x2
<1>7. Says(Now, x1, D1[N]) = Says(Now, x1, a[1]) /\ (a[1] # "None" => Applies(Now, x1, a[1]))
  <2>1. Said(file, x1) = Says(Now, x1, D1[N])
    BY <1>3, <1>4, <1>6
  <2>2. a[1] = Replayed(file, x1.unit, x1.time)
    BY <1>3
  <2>3. QED
    BY <1>3, <2>1, <2>2, ReplayedSaid, ReplayedApplies
<1>8. H1[N + 1] = Middle(a, y)
  <2>1. \A g : Extends(g, drawn') => Extends(g, drawn)
    BY RolledAgrees DEF Recorded
  <2>2. Extends(drawn', drawn')
    BY DEF Extends
  <2>3. H1[N + 1] = Effect(Now, x1, D1[N], drawn')
    BY <1>1, <1>3, <1>4, <2>1, <2>2 DEF Story
  <2>4. Effect(Now, x1, D1[N], drawn') = Effect(Now, x1, a[1], drawn')
    BY <1>7, EffectSame
  <2>5. Middle(a, y) = Effect(Now, x1, a[1], drawn')
    BY <2>2, FirstEffect DEF x1
  <2>6. QED
    BY <2>3, <2>4, <2>5
<1>9. a[2] # "None" => Applies(Middle(a, y), x2, a[2])
  <2>1. Said(file, x2) = Says(Middle(a, y), x2, D1[N + 1])
    BY <1>3, <1>6, <1>8
  <2>2. a[2] = Replayed(file, x2.unit, x2.time)
    BY <1>3
  <2>3. QED
    BY <1>3, <2>1, <2>2, ReplayedApplies
<1>10. a[1] \in Legal(states, 1, tick_t) /\ a[2] \in Legal(First(a, y).states, 2, tick_t)
  <2>1. \A sts, i : "None" \in Legal(sts, i, tick_t)
    BY DEF Legal, legal_action_mask
  <2>2. Now.states = states /\ Middle(a, y).states = First(a, y).states
    BY DEF Now, Middle
  <2>3. QED
    BY <1>3, <1>7, <1>9, <2>1, <2>2 DEF Applies
<1>11. Rejected(states, 1, a[1]) = 0 /\ Rejected(First(a, y).states, 2, a[2]) = 0
  BY <1>10 DEF Rejected
<1>12. /\ res'.illegal_actions = res.illegal_actions + Rejected(states, 1, a[1])
            + (IF states'[2].hp = 0 THEN 0 ELSE 1) * Rejected(First(a, y).states, 2, a[2])
       /\ res.illegal_actions \in Nat
  BY <1>2, StepCounts
<1>13. QED
  BY <1>11, <1>12

\* The loop of the engine rejects nothing.
LEMMA EventLegal ==
  ASSUME TypeOK, RunsEvent
  PROVE  res'.illegal_actions = res.illegal_actions
<1>1. res \in MatchResult
  BY DEF TypeOK
<1>2. \/ res' = res
      \/ \E e \in queue.heap : CheckpointEvent(e) \/ MatchEndEvent(e)
      \/ \E e, sts, q : \/ FinishSwing(e, sts, q, [res EXCEPT !.abilities = @ + 1])
                        \/ FinishSwing(e, sts, q, [res EXCEPT !.swings = @ + 1])
  BY DEF RunsEvent, DecideEvent, StaleSwing, HeroicSwing, WhiteSwing
<1>3. QED
  BY <1>1, <1>2 DEF MatchResult, CheckpointEvent, MatchEndEvent, FinishSwing, EndedByDeath

-----------------------------------------------------------------------------
(* The inductive invariant of a recording and its second run.              *)

Recording ==
  \E on, picks : /\ on \in BOOLEAN /\ on = enable_ticks(recorder) /\ picks = (recorder = "arena_run")
                 /\ Sound(on) /\ Told(on, picks, FALSE, <<>>)

Rerunning ==
  \E on, played, lines : /\ on \in BOOLEAN /\ on = rerun_ticks
                         /\ played = (use = "playback") /\ lines = file
                         /\ Sound(on) /\ Told(on, TRUE, played, lines)

CInv ==
  /\ phase \in {"recording", "closed", "killed", "rerunning", "done"}
  /\ phase = "recording" => Recording
  /\ phase # "recording" => FileTold
  /\ phase = "closed" /\ status = "Ended" => Whole
  /\ phase = "rerunning" => Rerunning
  /\ phase = "rerunning" /\ use = "playback" => Whole /\ res.illegal_actions = 0
  /\ phase = "done" => NoFalseAlarm /\ PlaybackReproduces

LEMMA SoundStands ==
  ASSUME UNCHANGED <<vars, sink_vars>>
  PROVE  /\ \A on : Sound(on) => Sound(on)'
         /\ \A on, picks, played, lines : Told(on, picks, played, lines) => Told(on, picks, played, lines)'
<1>1. UNCHANGED <<queue, states, res, status, tick_t, last, swung, sunk, thrown, drawn>>
  BY DEF vars, sink_vars
<1>2. Now' = Now /\ passed' = passed /\ SpotOf(last)' = SpotOf(last)
  BY <1>1 DEF Now, passed, PlaceOf, SpotOf
<1>3. ASSUME NEW on, Sound(on) PROVE Sound(on)'
  <2>1. Runs(on)'
    BY <1>3, StandsRuns DEF Sound
  <2>2. SinkOK' /\ ThrownOK' /\ Spent'
    BY <1>1, <1>2, <1>3 DEF Sound, SinkOK, EndIsLast, EndLine, ThrownOK, Spent
  <2>3. QED
    BY <2>1, <2>2 DEF Sound
<1>4. ASSUME NEW on, NEW picks, NEW played, NEW lines, Told(on, picks, played, lines)
      PROVE  Told(on, picks, played, lines)'
  <2>1. PICK H, D : Tells(on, picks, played, lines, H, D, passed + 1, drawn, Now)
    BY <1>4 DEF Told
  <2>2. Tells(on, picks, played, lines, H, D, passed' + 1, drawn', Now')
    BY <1>1, <1>2, <2>1
  <2>3. QED
    BY <2>2 DEF Told
<1>5. QED
  BY <1>3, <1>4

LEMMA MoreDice ==
  ASSUME RunsEvent \/ \E a : RunsStep(a)
  PROVE  \A f : Extends(f, drawn') => Extends(f, drawn)
<1>1. PICK throws : Rolled(throws)
  BY DEF RunsEvent, RunsStep
<1>2. QED
  BY <1>1, RolledAgrees

LEMMA RecordingGoesOn ==
  ASSUME Recording, UNCHANGED recorder,
         \/ RunsEvent
         \/ \E a1, a2 \in Action :
              /\ RunsStep(<<a1, a2>>)
              /\ recorder = "arena_run" =>
                   a1 \in Choices(states, 1, tick_t) /\ a2 \in Choices(states, 2, tick_t)
  PROVE  Recording'
<1>1. PICK on, picks : /\ on \in BOOLEAN /\ on = enable_ticks(recorder) /\ picks = (recorder = "arena_run")
                       /\ Sound(on) /\ Told(on, picks, FALSE, <<>>)
  BY DEF Recording
<1>2. Sound(on)' /\ Told(on, picks, FALSE, <<>>)'
  <2>1. CASE RunsEvent
    BY <1>1, <2>1, EventSound, EventTold
  <2>2. ASSUME NEW a1 \in Action, NEW a2 \in Action, RunsStep(<<a1, a2>>),
               recorder = "arena_run" =>
                 a1 \in Choices(states, 1, tick_t) /\ a2 \in Choices(states, 2, tick_t)
        PROVE  Sound(on)' /\ Told(on, picks, FALSE, <<>>)'
    <3> DEFINE a == <<a1, a2>>
    <3>1. /\ a[1] \in Action /\ a[2] \in Action /\ RunsStep(a)
          /\ picks => /\ a[1] \in Answers(FALSE, <<>>, states, 1, tick_t)
                      /\ a[2] \in Answers(FALSE, <<>>, states, 2, tick_t)
      BY <1>1, <2>2 DEF Answers
    <3> HIDE DEF a
    <3>2. QED
      BY <1>1, <3>1, StepSound, StepTold
  <2>3. QED
    BY <2>1, <2>2
<1>3. on = enable_ticks(recorder)' /\ picks = (recorder' = "arena_run")
  BY <1>1 DEF enable_ticks
<1>4. QED
  BY <1>1, <1>2, <1>3 DEF Recording

LEMMA RerunningGoesOn ==
  ASSUME Rerunning, UNCHANGED <<use, file>>, use \in {"verify", "playback"},
         \/ RunsEvent
         \/ \E a1, a2 \in Action : /\ RunsStep(<<a1, a2>>)
                                   /\ a1 \in Decided(1) /\ a2 \in Decided(2)
  PROVE  Rerunning'
<1>1. PICK on, played, lines : /\ on \in BOOLEAN /\ on = rerun_ticks
                               /\ played = (use = "playback") /\ lines = file
                               /\ Sound(on) /\ Told(on, TRUE, played, lines)
  BY DEF Rerunning
<1>2. Sound(on)' /\ Told(on, TRUE, played, lines)'
  <2>1. CASE RunsEvent
    BY <1>1, <2>1, EventSound, EventTold
  <2>2. ASSUME NEW a1 \in Action, NEW a2 \in Action, RunsStep(<<a1, a2>>),
               a1 \in Decided(1) /\ a2 \in Decided(2)
        PROVE  Sound(on)' /\ Told(on, TRUE, played, lines)'
    <3> DEFINE a == <<a1, a2>>
    <3>1. \A i : Decided(i) \subseteq Answers(played, lines, states, i, tick_t)
      <4>1. \A i : playback_decide(i, tick_t) = Replayed(file, i, tick_t)
        BY DEF playback_decide, Replayed
      <4>2. CASE use = "playback"
        BY <1>1, <4>1, <4>2 DEF Decided, Answers
      <4>3. CASE use = "verify"
        BY <1>1, <4>3 DEF Decided, Answers
      <4>4. QED
        BY <4>2, <4>3
    <3>2. /\ a[1] \in Action /\ a[2] \in Action /\ RunsStep(a)
          /\ a[1] \in Answers(played, lines, states, 1, tick_t)
          /\ a[2] \in Answers(played, lines, states, 2, tick_t)
      BY <2>2, <3>1
    <3> HIDE DEF a
    <3>3. QED
      BY <1>1, <3>2, StepSound, StepTold
  <2>3. QED
    BY <2>1, <2>2
<1>3. on = rerun_ticks' /\ played = (use' = "playback") /\ lines = file'
  BY <1>1 DEF rerun_ticks
<1>4. QED
  BY <1>1, <1>2, <1>3 DEF Rerunning

LEMMA RerunningBegins ==
  ASSUME NEW on \in BOOLEAN, Rerun(on), on = rerun_ticks'
  PROVE  Rerunning'
<1> DEFINE played == (use' = "playback")
           lines  == file'
<1>1. Sound(on)' /\ \E H, D : Tells(on, TRUE, played, lines, H, D, passed' + 1, drawn', Now')
  BY RerunStarts
<1>2. QED
  BY <1>1 DEF Rerunning, Told

\* A whole file is told of, so its header is in order.
LEMMA WholeHeader ==
  ASSUME FileTold, Whole
  PROVE  HeaderError(file) = ""
<1>1. PICK H, D, N, m : Story(H, D, N, drawn, m) /\ file = Prologue \o m.sunk
  BY DEF FileTold, FileTells
<1>2. m.sunk \in Seq(SunkLine)
  BY <1>1, StorySunk
<1>3. file[1] = HeaderLine /\ Len(file) = Len(m.sunk) + 2 /\ Len(m.sunk) \in Nat
  BY <1>1, <1>2, FileLines
<1>4. file # <<>>
  BY <1>3
<1>5. QED
  BY <1>3, <1>4 DEF HeaderError

\* With more dice the file tells the same.
LEMMA FileToldStays ==
  ASSUME FileTold, UNCHANGED <<file, recorder>>, \A f : Extends(f, drawn') => Extends(f, drawn)
  PROVE  FileTold'
<1>1. Whole' <=> Whole
  BY DEF Whole
<1>2. ASSUME Whole PROVE FileTells(file, run_ticks, recorder = "arena_run", drawn')
  BY <1>2, FileStays DEF FileTold
<1>3. run_ticks' = run_ticks
  BY DEF run_ticks
<1>4. QED
  BY <1>1, <1>2, <1>3 DEF FileTold

\* The file is what was written, or it is not whole.
LEMMA FileIsTold ==
  ASSUME Recording, SinkOK, UNCHANGED <<vars, sink_vars, recorder>>,
         recorder \in {"env", "arena_run"},
         Whole' => status = "Ended" /\ file' = Written
  PROVE  FileTold'
<1>1. SUFFICES ASSUME Whole' PROVE FileTells(file', run_ticks', recorder' = "arena_run", drawn')
  BY DEF FileTold
<1>2. PICK on, picks : /\ on \in BOOLEAN /\ on = enable_ticks(recorder) /\ picks = (recorder = "arena_run")
                       /\ Told(on, picks, FALSE, <<>>)
  BY DEF Recording
<1>3. FileTells(file', on, picks, drawn')
  <2>1. FileTells(Written, on, picks, drawn)
    BY <1>1, <1>2, FileFromRun
  <2>2. QED
    BY <1>1, <2>1 DEF sink_vars
<1>4. PICK H, D, N, m : /\ Story(H, D, N, drawn', m) /\ Over(m) /\ file' = Prologue \o m.sunk
                        /\ picks => Chosen(on, FALSE, <<>>, H, D, N)
  BY <1>3 DEF FileTells
<1>5. picks => on = run_ticks /\ run_ticks' = run_ticks
  BY <1>2, TicksAreBoolean DEF enable_ticks, run_ticks
<1>6. picks = (recorder' = "arena_run")
  BY <1>2
<1>7. picks => Chosen(run_ticks', FALSE, <<>>, H, D, N)
  BY <1>4, <1>5
<1>8. QED
  BY <1>4, <1>6, <1>7 DEF FileTells

LEMMA InitCInv == ReplayInit => CInv
<1>1. SUFFICES ASSUME ReplayInit PROVE CInv
  OBVIOUS
<1>2. phase = "recording" /\ enable_ticks(recorder) \in BOOLEAN
  BY <1>1, TicksAreBoolean DEF ReplayInit, EnvInit
<1>3. Opens(enable_ticks(recorder))
  BY <1>1 DEF ReplayInit, EnvInit, Opens, Constructed
<1> DEFINE on    == enable_ticks(recorder)
           picks == (recorder = "arena_run")
<1>4. Sound(on) /\ Told(on, picks, FALSE, <<>>)
  BY <1>2, <1>3, RunStarts
<1>5. Recording
  BY <1>2, <1>4 DEF Recording
<1>6. QED
  BY <1>2, <1>5 DEF CInv

\* What the second run shows when it is compared.
LEMMA ConcludeShows ==
  ASSUME RInv, CInv, phase = "rerunning"
  PROVE  /\ use = "verify" /\ status = "Ended" /\ Whole
              /\ (recorder = "arena_run" \/ LinesOf(file, "decision") = LinesOf(sunk, "decision"))
            => Verdict = ""
         /\ use = "playback" =>
              /\ S!IsPrefix(<<HeaderLine, InitLine>> \o sunk, file)
              /\ status = "Ended" => Len(file) = 2 + Len(sunk)
              /\ res.illegal_actions = 0
<1>1. PICK on, played, lines : /\ on \in BOOLEAN /\ on = rerun_ticks
                               /\ played = (use = "playback") /\ lines = file
                               /\ Sound(on) /\ Told(on, TRUE, played, lines)
  BY DEF CInv, Rerunning
<1>2. FileTold /\ SinkOK /\ run_ticks \in BOOLEAN
  BY <1>1, TicksAreBoolean DEF CInv, Sound
<1> DEFINE picks == (recorder = "arena_run")
<1>3. ASSUME use = "verify", status = "Ended", Whole,
             picks \/ LinesOf(file, "decision") = LinesOf(sunk, "decision")
      PROVE  Verdict = ""
  <2>1. on = run_ticks /\ played = FALSE
    BY <1>1, <1>2, <1>3 DEF rerun_ticks
  <2>2. FileTells(file, on, picks, drawn)
    BY <1>2, <1>3, <2>1 DEF FileTold
  <2>3. Told(on, TRUE, FALSE, file)
    BY <1>1, <2>1
  <2> HIDE DEF picks
  <2>4. file = Prologue \o sunk
    BY <1>2, <1>3, <2>1, <2>2, <2>3, SecondRunSame
  <2>5. QED
    BY <1>2, <1>3, <2>4, OwnTraceAccepted
<1>4. ASSUME use = "playback"
      PROVE  /\ S!IsPrefix(<<HeaderLine, InitLine>> \o sunk, file)
             /\ status = "Ended" => Len(file) = 2 + Len(sunk)
             /\ res.illegal_actions = 0
  <2>1. Whole /\ res.illegal_actions = 0
    BY <1>4 DEF CInv
  <2>2. FileTells(file, run_ticks, picks, drawn)
    BY <1>2, <2>1 DEF FileTold
  <2>3. on = TRUE /\ played = TRUE
    BY <1>1, <1>4 DEF rerun_ticks
  <2>4. Told(TRUE, TRUE, TRUE, file)
    BY <1>1, <2>3
  <2> HIDE DEF picks
  <2>5. QED
    BY <1>2, <2>1, <2>2, <2>4, PlaybackWrites
<1>5. QED
  BY <1>3, <1>4

\* The engine accepts every decision that is played back.
LEMMA PlaybackAccepted ==
  ASSUME RInv, CInv, phase = "rerunning", use = "playback", RerunStep
  PROVE  res'.illegal_actions = 0
<1>1. PICK on, played, lines : /\ on \in BOOLEAN /\ on = rerun_ticks
                               /\ played = (use = "playback") /\ lines = file
                               /\ Sound(on) /\ Told(on, TRUE, played, lines)
  BY DEF CInv, Rerunning
<1>2. on = TRUE /\ played = TRUE
  BY <1>1 DEF rerun_ticks
<1>3. Sound(on) /\ Told(TRUE, TRUE, TRUE, file)
  BY <1>1, <1>2
<1>4. Whole /\ FileTold /\ res.illegal_actions = 0
  BY DEF CInv
<1> DEFINE picks == (recorder = "arena_run")
           ticks == run_ticks
<1>5. FileTells(file, ticks, picks, drawn)
  BY <1>4 DEF FileTold
<1>6. PICK a1 \in Decided(1), a2 \in Decided(2) : RunsStep(<<a1, a2>>)
  BY DEF RerunStep
<1>7. a1 \in Action /\ a2 \in Action
  BY <1>6, DecidedActs DEF Slots
<1>8. a1 = Replayed(file, 1, tick_t) /\ a2 = Replayed(file, 2, tick_t)
  BY <1>6 DEF Decided, playback_decide, Replayed
<1> DEFINE a == <<a1, a2>>
<1>9. a[1] \in Action /\ a[2] \in Action /\ RunsStep(a)
      /\ a[1] = Replayed(file, 1, tick_t) /\ a[2] = Replayed(file, 2, tick_t)
  BY <1>6, <1>7, <1>8
<1> HIDE DEF a, picks, ticks
<1>10. PICK y \in Casts : Recorded(a, y)
  BY <1>3, <1>9, StepSound
<1>11. res'.illegal_actions = res.illegal_actions
  BY <1>3, <1>5, <1>9, <1>10, PlaybackLegal
<1>12. QED
  BY <1>4, <1>11

LEMMA StepCInv == RInv /\ CInv /\ [ReplayNext]_all_vars => CInv'
<1>1. SUFFICES ASSUME RInv, CInv, [ReplayNext]_all_vars PROVE CInv'
  OBVIOUS
<1>2. /\ SinkOK /\ recorder \in {"env", "arena_run"} /\ use \in {"verify", "playback"}
  BY <1>1 DEF RInv
<1>3. \A f : Extends(f, drawn) => Extends(f, drawn)
  OBVIOUS
<1>4. CASE UNCHANGED all_vars
  <2>1. /\ UNCHANGED <<vars, sink_vars>> /\ UNCHANGED <<drawn, recorder, file, phase, use, verdict, res, sunk, status>>
    BY <1>4 DEF all_vars, env_vars, replay_vars, sink_vars, vars
  <2>2. Recording => Recording'
    BY <2>1, SoundStands DEF Recording, enable_ticks
  <2>3. Rerunning => Rerunning'
    <3>1. SUFFICES ASSUME Rerunning PROVE Rerunning'
      OBVIOUS
    <3>2. PICK on, played, lines : /\ on \in BOOLEAN /\ on = rerun_ticks
                                   /\ played = (use = "playback") /\ lines = file
                                   /\ Sound(on) /\ Told(on, TRUE, played, lines)
      BY <3>1 DEF Rerunning
    <3>3. on = rerun_ticks' /\ played = (use' = "playback") /\ lines = file'
      BY <2>1, <3>2 DEF rerun_ticks
    <3>4. Sound(on)' /\ Told(on, TRUE, played, lines)'
      BY <2>1, <3>2, SoundStands
    <3>5. QED
      BY <3>2, <3>3, <3>4 DEF Rerunning
  <2>4. FileTold => FileTold'
    BY <2>1, FileToldStays
  <2>5. Whole' <=> Whole
    BY <2>1 DEF Whole
  <2>6. (NoFalseAlarm => NoFalseAlarm') /\ (PlaybackReproduces => PlaybackReproduces')
    <3>1. /\ LinesOf(file, "decision")' = LinesOf(file, "decision")
          /\ LinesOf(sunk, "decision")' = LinesOf(sunk, "decision")
      BY <2>1 DEF LinesOf, At
    <3>2. NoFalseAlarm => NoFalseAlarm'
      BY <2>1, <2>5, <3>1 DEF NoFalseAlarm
    <3>3. PlaybackReproduces => PlaybackReproduces'
      BY <2>1 DEF PlaybackReproduces
    <3>4. QED
      BY <3>2, <3>3
  <2>7. QED
    BY <1>1, <2>1, <2>2, <2>3, <2>4, <2>5, <2>6 DEF CInv
<1>5. ASSUME phase = "recording", UNCHANGED <<env_vars, replay_vars>>, Recording' PROVE CInv'
  <2>1. phase' = "recording"
    BY <1>5 DEF env_vars
  <2>2. QED
    BY <1>5, <2>1 DEF CInv
<1>6. CASE Records /\ UNCHANGED replay_vars
  <2>1. CASE RecordEvent
    <3>1. Recording'
      BY <1>1, <2>1, RecordingGoesOn DEF RecordEvent, CInv, env_vars
    <3>2. QED
      BY <1>5, <1>6, <2>1, <3>1 DEF RecordEvent
  <2>2. CASE EnvStep
    <3>1. Recording'
      BY <1>1, <2>2, RecordingGoesOn DEF EnvStep, CInv, env_vars
    <3>2. QED
      BY <1>5, <1>6, <2>2, <3>1 DEF EnvStep
  <2>3. CASE EnvStepRefused
    BY <1>4, <1>6, <2>3 DEF EnvStepRefused, all_vars
  <2>4. CASE PolicyStep
    <3>1. PICK a1 \in Choices(states, 1, tick_t), a2 \in Choices(states, 2, tick_t) :
            RunsStep(<<a1, a2>>)
      BY <2>4 DEF PolicyStep
    <3>2. a1 \in Action /\ a2 \in Action
      BY ChoicesAreActions DEF Slots
    <3>3. Recording'
      BY <1>1, <2>4, <3>1, <3>2, RecordingGoesOn DEF PolicyStep, CInv, env_vars
    <3>4. QED
      BY <1>5, <1>6, <2>4, <3>3 DEF PolicyStep
  <2>5. CASE Close
    <3>1. /\ UNCHANGED <<vars, sink_vars, recorder>> /\ file' = Written /\ phase' = "closed"
          /\ phase = "recording" /\ UNCHANGED status
      BY <2>5 DEF Close, vars
    <3>2. Whole' <=> status = "Ended"
      BY <1>2, <3>1, ClosedWhole
    <3>3. FileTold'
      BY <1>1, <1>2, <3>1, <3>2, FileIsTold DEF CInv
    <3>4. QED
      BY <3>1, <3>2, <3>3 DEF CInv
  <2>6. CASE Kill
    <3>1. /\ UNCHANGED <<vars, sink_vars, recorder>> /\ phase' = "killed" /\ phase = "recording"
      BY <2>6 DEF Kill
    <3>2. Whole' => status = "Ended" /\ file' = Written
      BY <1>2, <2>6, KilledWhole
    <3>3. FileTold'
      BY <1>1, <1>2, <3>1, <3>2, FileIsTold DEF CInv
    <3>4. QED
      BY <3>1, <3>3 DEF CInv
  <2>7. QED
    BY <1>6, <2>1, <2>2, <2>3, <2>4, <2>5, <2>6 DEF Records
<1>7. CASE OpenTrace
  <2>1. /\ use = "verify" /\ UNCHANGED <<recorder, file, use>> /\ FileTold /\ (Whole' <=> Whole)
    BY <1>1, <1>7 DEF OpenTrace, CInv, Whole
  <2>2. CASE HeaderError(file) # ""
    <3>1. UNCHANGED drawn /\ phase' = "done"
      BY <1>7, <2>2 DEF OpenTrace, sink_vars
    <3>2. FileTold'
      BY <2>1, <3>1, FileToldStays
    <3>3. ~Whole'
      BY <2>1, <2>2, WholeHeader
    <3>4. NoFalseAlarm' /\ PlaybackReproduces'
      BY <2>1, <3>3 DEF NoFalseAlarm, PlaybackReproduces
    <3>5. QED
      BY <3>1, <3>2, <3>4 DEF CInv
  <2>3. CASE HeaderError(file) = ""
    <3>1. Rerun(run_ticks) /\ phase' = "rerunning"
      BY <1>7, <2>3 DEF OpenTrace
    <3>2. FileTold'
      BY <2>1, <3>1, FileToldStays DEF Rerun
    <3>3. rerun_ticks' = run_ticks
      BY <2>1, TicksAreBoolean DEF rerun_ticks, run_ticks
    <3>4. Rerunning'
      BY <3>1, <3>3, TicksAreBoolean, RerunningBegins
    <3>5. QED
      BY <2>1, <3>1, <3>2, <3>4 DEF CInv
  <2>4. QED
    BY <2>2, <2>3
<1>8. CASE OpenPlayback
  <2>1. /\ phase = "closed" /\ UNCHANGED <<use, file, recorder>> /\ Rerun(TRUE)
        /\ use = "playback" /\ status = "Ended" /\ phase' = "rerunning"
    BY <1>8 DEF OpenPlayback
  <2>2. FileTold'
    BY <1>1, <2>1, FileToldStays DEF Rerun, CInv
  <2>3. Whole'
    BY <1>1, <2>1 DEF CInv, Whole
  <2>4. Rerunning'
    <3>1. TRUE = rerun_ticks'
      BY <2>1 DEF rerun_ticks
    <3>2. QED
      BY <2>1, <3>1, RerunningBegins
  <2>5. res'.illegal_actions = 0
    BY <2>1 DEF Rerun, NoResult
  <2>6. QED
    BY <2>1, <2>2, <2>3, <2>4, <2>5 DEF CInv
<1>9. ASSUME phase = "rerunning", UNCHANGED <<env_vars, replay_vars>>, Rerunning',
             \A f : Extends(f, drawn') => Extends(f, drawn),
             use = "playback" => res'.illegal_actions = 0
      PROVE  CInv'
  <2>1. phase' = "rerunning" /\ UNCHANGED <<file, recorder, use>>
    BY <1>9 DEF env_vars, replay_vars
  <2>2. FileTold'
    BY <1>1, <1>9, <2>1, FileToldStays DEF CInv
  <2>3. Whole' <=> Whole
    BY <2>1 DEF Whole
  <2>4. QED
    BY <1>1, <1>9, <2>1, <2>2, <2>3 DEF CInv
<1>10. CASE RerunEvent
  <2>1. phase = "rerunning" /\ RunsEvent /\ UNCHANGED <<env_vars, replay_vars>> /\ UNCHANGED <<use, file>>
    BY <1>10 DEF RerunEvent, env_vars, replay_vars
  <2>2. Rerunning'
    BY <1>1, <1>2, <2>1, RerunningGoesOn DEF CInv
  <2>3. res'.illegal_actions = res.illegal_actions
    BY <1>1, <2>1, EventLegal DEF RInv, IInv
  <2>4. QED
    BY <1>1, <1>9, <2>1, <2>2, <2>3, MoreDice DEF CInv
<1>11. CASE RerunStep
  <2>1. /\ phase = "rerunning" /\ UNCHANGED <<env_vars, replay_vars>> /\ UNCHANGED <<use, file>>
    BY <1>11 DEF RerunStep, env_vars, replay_vars
  <2>2. PICK a1 \in Decided(1), a2 \in Decided(2) : RunsStep(<<a1, a2>>)
    BY <1>11 DEF RerunStep
  <2>3. a1 \in Action /\ a2 \in Action
    BY <1>1, <2>1, <2>2, DecidedActs DEF Slots
  <2>4. Rerunning'
    BY <1>1, <1>2, <2>1, <2>2, <2>3, RerunningGoesOn DEF CInv
  <2>5. use = "playback" => res'.illegal_actions = 0
    BY <1>1, <1>11, <2>1, PlaybackAccepted
  <2>6. QED
    BY <1>9, <2>1, <2>2, <2>4, <2>5, MoreDice
<1>12. CASE Conclude
  <2>1. /\ UNCHANGED <<vars, sink_vars, recorder, file, use>> /\ phase' = "done" /\ phase = "rerunning"
        /\ status = "Ended" /\ verdict' = IF use = "verify" THEN Verdict ELSE "played"
        /\ UNCHANGED <<res, sunk, drawn>>
    BY <1>12 DEF Conclude, vars, sink_vars
  <2>2. FileTold'
    BY <1>1, <2>1, FileToldStays DEF CInv
  <2>3. Whole' <=> Whole
    BY <2>1 DEF Whole
  <2>4. /\ LinesOf(file, "decision")' = LinesOf(file, "decision")
        /\ LinesOf(sunk, "decision")' = LinesOf(sunk, "decision")
    BY <2>1 DEF LinesOf, At
  <2>5. NoFalseAlarm'
    BY <1>1, <2>1, <2>3, <2>4, ConcludeShows DEF NoFalseAlarm
  <2>6. PlaybackReproduces'
    BY <1>1, <2>1, ConcludeShows DEF PlaybackReproduces
  <2>7. QED
    BY <2>1, <2>2, <2>5, <2>6 DEF CInv
<1>13. CASE Done
  BY <1>4, <1>13 DEF Done
<1>14. QED
  BY <1>1, <1>4, <1>6, <1>7, <1>8, <1>10, <1>11, <1>12, <1>13 DEF ReplayNext

\* The stories of the two runs are kept.
LEMMA Coupled == ReplaySpec => [](RInv /\ CInv)
<1>1. ReplayInit => CInv
  BY InitCInv
<1>2. RInv /\ CInv /\ [ReplayNext]_all_vars => CInv'
  BY StepCInv
<1>3. QED
  BY <1>1, <1>2, InitRInv, StepRInv, PTL DEF ReplaySpec

-----------------------------------------------------------------------------
(* The theorems.                                                           *)

\* Whoever drives a match, and whatever the trace it is run again from, the
\* engine keeps every part of its invariant, and the sink is only ever given
\* well-formed lines (arena_c_api.cpp, replay.cpp:158-187, policy.h:58-68).
THEOREM EngineInvariantEverywhere == ReplaySpec => []RInv
<1>1. ReplayInit => RInv
  BY InitRInv
<1>2. RInv /\ [ReplayNext]_all_vars => RInv'
  BY StepRInv
<1>3. QED
  BY <1>1, <1>2, PTL DEF ReplaySpec

\* A winner is reported exactly when one unit is dead, and it is the other
\* one, although the code looks at one of the two units only
\* (arena_c_api.cpp:143-148).
THEOREM WinnersSurvive == ReplaySpec => []WinnerSurvives
<1>1. ASSUME RInv PROVE WinnerSurvives
  <2>1. SUFFICES ASSUME status = "Ended", NEW i \in Slots
                 PROVE  winner_slot = i <=> states[Enemy(i)].hp = 0
    BY DEF WinnerSurvives
  <2>2. DeathEndsMatch /\ 1 \in Slots /\ 2 \in Slots
        /\ states[1].hp \in Nat /\ states[2].hp \in Nat
    BY <1>1 DEF RInv, IInv, TypeOK, UnitState, Slots
  <2>3. CASE i = 1
    BY <2>1, <2>2, <2>3 DEF winner_slot, DeathEndsMatch, Enemy, Slots
  <2>4. CASE i = 2
    BY <2>1, <2>2, <2>4 DEF winner_slot, DeathEndsMatch, Enemy, Slots
  <2>5. QED
    BY <2>3, <2>4 DEF Slots
<1>2. QED
  BY <1>1, EngineInvariantEverywhere, PTL

\* The verifier accepts no trace that was cut or belongs to a match that went
\* otherwise, whatever is left of the file of whichever match: an accepted one
\* has the end and every checkpoint of the second run (replay.cpp:95-155, 158-187).
THEOREM AcceptedTracesAreWhole == ReplaySpec => []AcceptedIsWhole
<1>1. ReplayInit => Accepted
  BY DEF ReplayInit, Accepted
<1>2. RInv /\ Accepted /\ [ReplayNext]_all_vars => Accepted'
  BY StepAccepted
<1>3. Accepted => AcceptedIsWhole
  BY DEF Accepted, TellOf, AcceptedIsWhole
<1>4. QED
  BY <1>1, <1>2, <1>3, EngineInvariantEverywhere, PTL DEF ReplaySpec

\* The verifier accepts every whole trace of the pinned policies, and every whole
\* trace of an external driver whose decisions the second run makes again: seed,
\* units and applied decisions determine the match line by line, on an engine
\* with or without the tick chain (replay.h:34-38, match.h:50-53).
THEOREM HonestTracesAccepted == ReplaySpec => []NoFalseAlarm
<1>1. RInv /\ CInv => NoFalseAlarm
  BY DEF CInv, NoFalseAlarm
<1>2. QED
  BY <1>1, Coupled, PTL

\* A playback of a whole trace writes that trace again, a prefix of it while it
\* runs and all of it at its end, and the engine rejects none of the decisions
\* that are read back (policy.h:58-68).
THEOREM PlaybackIsFaithful == ReplaySpec => []PlaybackReproduces
<1>1. ASSUME RInv, CInv PROVE PlaybackReproduces
  <2>1. CASE phase = "rerunning" /\ use = "playback"
    BY <1>1, <2>1, ConcludeShows DEF PlaybackReproduces
  <2>2. CASE phase = "done"
    BY <1>1, <2>2 DEF CInv
  <2>3. QED
    BY <2>1, <2>2 DEF PlaybackReproduces
<1>2. QED
  BY <1>1, Coupled, PTL

=============================================================================
