# Verification of tbc-arena-lab

TLA+ models of the deterministic duel simulator in `src/sim`, the TLC runs that
check them and the TLAPS proofs about them. Times are milliseconds, chances are
per-myriad and rage is in tenths of a point, as in the source.

## 1. Inventory

| component | state it keeps | operations | what makes it correct |
|---|---|---|---|
| Event queue (`core/event_queue.h`) | heap, `next_seq` | push, pop | one total order of simultaneous events |
| Match engine (`mechanics/match.h`) | queue, two units, counters, status, tick time, RNG cursors | construct, `advance_`, `handle_swing_`, `step`, `observe`, `run_match` | no swing lost, doubled or late; death ends the match at once; ticks and checkpoints on their grids; it always ends |
| Unit state (`core/unit_state.h`) | hp, rage, timers, queued strike | `initial_state`, serialise | ranges |
| Observation and actions (`mechanics/observation.h`) | none | `build_observation`, `legal_action_mask` | exact at the time reported; legality from what is visible |
| Policies (`mechanics/policy.h`) | playback script | `decide` | scripted policies never submit an illegal action |
| Attack table, abilities, damage, rage, parry-haste, swing (`mechanics/*.h`) | RNG cursors | tables, damage, gains | the tables agree; damage and haste bounds; each stream advances only when its die is thrown |
| RNG (`core/rng.h`) | none (keyed) | `roll_*` | same key, same value |
| Fixed-point trigonometry (`core/fixed_trig.h`) | none | `sin_mrad`, `in_frontal_arc` | tells front from behind as geometry does |
| Distribution report (`mechanics/dist.cpp`, `arena_dist`) | tallies, histogram, file | two sampling loops, intervals, `write_json` | indexes in range, cursors; what is written can be read back |
| Differential oracle (`oracle/cmangos_model.cpp`, `arena_diff`) | none | independent tables, damage and rage; the comparison | equal tables, damage within the tolerance, the same judgement of the same counts |
| Scenario loader (`core/scenario.cpp`) | parsed document | `load_scenario` | rejects what the engine could not run |
| Trace, replay (`core/trace.*`, `mechanics/trace_sink.h`, `mechanics/replay.cpp`) | file, position | sink callbacks, `verify_trace_file` | accepts the traces the engine writes |
| C API, Python wrapper (`env/`, `python/tbc_arena`) | engine, trace file, last error | create, observe, mask, step, destroy | life cycle, complete traces |
| Training (`python/train`) | environments, seeds, checkpoint, slices | collect, train and resume, slice, aggregate, criterion | seeds never reused, slices cover exactly, the verdict is about the policy tested |
| State hash, ruleset manifest, the other tools | - | hashing, constant text, I/O | - |

The engine is single-threaded. What makes it hard is order: four kinds of event
on one clock, events that are superseded but stay queued, two actors moving at
the same tick on observations taken before it, deaths in the middle of an
instant, and a loop that is left and re-entered at every decision tick. Around
it the hard parts are life cycles: a match abandoned half-way, a training run
killed between two files, an evaluation done in slices, a report that one tool
writes and another takes apart again.

Interaction: a driver (policies of `run_match`, or the C API for Python)
alternates `observe` and `step`; `step` applies both actions in entity order and
runs the event loop to the next tick; the loop calls the resolution functions,
which throw keyed dice, and hands records to a sink that writes the trace.

`PROJECT.json` lists every component with its status, and every hazard with the
line where it bites and the properties that watch it.

## 2. Modules

| module | models | extends |
|---|---|---|
| `EventQueue` | `core/event_queue.h`; the heap as the set of queued events | |
| `Rules` | unit state, rage cap, parry-haste, observation, mask, scripted policy | |
| `DuelRules` | what a swing, a cast and an action do to the two units; the constants of a duel and what the loader guarantees of them | `Rules` |
| `MatchEngine` | `mechanics/match.h`: one action per case of the event loop, one for `step()` | `EventQueue`, `DuelRules` |
| `Timeline` | abstract specification of a match, without a queue | `DuelRules` |
| `MatchTimeline` | the refinement mapping from `MatchEngine` to `Timeline` | `MatchEngine` |
| `MCMatch` | the duels TLC runs | `MatchTimeline` |
| `MatchEngineProofs` | theorems about `MatchEngine` | `MatchEngine`, TLAPS |
| `MatchTimelineProofs` | the schedule of a match, and that the engine implements the timeline | `MatchTimeline`, `MatchEngineProofs` |
| `Combat` | tables, damage and rage of one hit, as pure operators | |
| `Facing` | `core/fixed_trig.h` | |
| `Oracle` | tables, damage and rage of `oracle/cmangos_model.cpp`, in exact fractions | `Combat` |
| `Sampler` | the sampling loops of `dist.cpp` with `RngCursor` and keyed dice | `Combat`, `Facing` |
| `Differential` | the report of `arena_dist`, whole or torn, and `arena_diff` that reads it and compares it with the oracle | `Sampler`, `Oracle` |
| `MCDifferential` | the stats and poses TLC samples | `Differential` |
| `DifferentialProofs` | theorems about tables, damage, tallies and dice | `Differential`, TLAPS |
| `TraceSink` | the engine with the lines it writes (`core/trace.cpp`, `mechanics/trace_sink.h`) and its keyed dice | `MatchEngine` |
| `ArenaEnv` | who records: the life of an environment of the C API, or `arena_run`; either may be killed | `TraceSink` |
| `Replay` | `verify_trace_file` and `PlaybackPolicy` on what was recorded | `ArenaEnv` |
| `MCReplay` | the matches TLC records and replays | `Replay` |
| `ReplayProofs` | theorems about recorded matches and the runs that verify or play them back | `Replay`, `MatchTimelineProofs` |
| `Matchup` | `play_matchup` of `evaluate.py` | |
| `Verdict` | `build_report` of `evaluate.py`: from scores to PASS, MATCH or FAIL | |
| `EvalSlices` | `run_slice` and `aggregate` of `evaluate.py`: processes, files, kills | `Verdict` |
| `SelfPlay` | `VecSelfPlay`, `collect` and `gae`: rewards and advantages of environments that are replaced | |
| `TrainRun` | `train`: segments, checkpoint, log, kills | |
| `EvalProofs`, `SelfPlayProofs`, `TrainRunProofs` | theorems about evaluation, self-play and training runs | the three modules above, TLAPS |
| `Scenario` | `load_scenario` (`core/scenario.cpp`) and the second reader of the same file, `parse_scripted_thresholds` of `envs.py` | `Rules` |
| `ScenarioProofs` | theorems about the loader and about both readers | `Scenario`, TLAPS |
| `MCMatchup`, `MCEval`, `MCSelfPlay`, `MCTrain`, `MCScenario` | their instances | |

### MatchEngine and the code

`queue`, `states`, `res`, `status`, `tick_t` are the members `queue_`, `states_`,
`res_`, `status_`, `tick_t_`. Slots are the code's indices plus one and stand for
the entity ids too. `status` is `"Advancing"` while `advance_()` runs; the code
has no such value because nobody can look then. `last` and `swung` are history
for the properties. The actions:

| action | code |
|---|---|
| `CheckpointEvent`, `MatchEndEvent`, `DecideEvent` | the cases of `advance_` (match.h:290-312) |
| `StaleSwing` | the early return of `handle_swing_` (330) |
| `HeroicSwing`, `WhiteSwing` | the two ways through `handle_swing_` (331-404), parry-haste and the death check included |
| `Step` | `step()` with both `apply_action_` calls (189-203, 253-283) |
| `StepAfterEnd` | the early return of `step()` (190) |

A popped event is the one before all others in `event_before`; a heap that
honours its comparator returns that one. Dice are a choice: `WhiteResults`,
`MortalResults` and `HeroicResults` give, by slot, the results `resolve_swing`
and `resolve_yellow` may return, so a run covers every seed with such results. An
external driver may submit any action, legal or not; a scripted one submits what
`ScriptedPolicy::decide` returns. Records handed to the sink and the state hash
are left out; so are positions, which never change in a match.

### Timeline

What the engine promises without its queue: at every moment the next thing to
happen is read off the state itself - the swing due at a unit's ready-at, the
next whole second, the next tick, the end - and of several at one instant the
one with priority. `MatchTimeline` instantiates it (`T == INSTANCE Timeline WITH ...`,
a member of the engine for each of its variables), and `ImplementsTimeline` checks that every run of
the engine is a run of the timeline: superseded events map to stuttering, and no
parry, death or re-entry makes a unit swing early, late, twice or never.

### Combat, Sampler, Oracle and Differential

`Combat` computes with the real constants: the white table clamped left to
right, the yellow die, armor, crit, block, rage. `Sampler` runs the loops of
`run_distribution` and `run_yellow_distribution` as `arena_dist` does, each with
a fresh cursor. `drawn` maps a key of the RNG (subsystem, sequence number) to
its value: a key rolled for the first time gives any value, a key rolled again
gives the same one. That is all the model knows of the hash. Of a report only
the counts and the damage range are kept. `Facing` does the integer divisions of
Bhaskara's sine as the source does and decides whether the two units of a
scenario face each other.

`Oracle` is translated from the oracle's own code, which shares none with the
engine: chances without the engine's clamping order, a table of widths, attack
power inside the weapon's bounds, fractions until an assignment to an integer.
The oracle computes these formulas mostly in float32; `Oracle` takes them in exact
fractions, so what is said of them is said of the formulas. They have a pole:
`dr / (1 + dr)` is more than one for an armor below -10557, which the loader allows,
and is clamped to three quarters there, where the simulator absorbs nothing. The
tolerance is therefore stated for armor above it (`AbovePole`).
A weapon roll is one of `S` equal steps of [0, 1), and `CoupledWithinTwo` gives both
models the same step.

In `Differential` the report is one line, a sequence of tokens: the keys in the
order `write_json` prints them, braces, and for each value the place in the
report it stands for. Square brackets of the arrays tell nothing and are left out.
`Found` follows the searches of `arena_diff` - first occurrence of a key, matching
or next closing brace, a row by its outcome - and yields the place of what was
read. A kill of `arena_dist` leaves a prefix (`Cuts`). An interval is compared
as a square: z is 2.5758, its square 6.635 in thousandths.

### TraceSink, ArenaEnv and Replay

`sunk` is what the sink of the current run was given. A line keeps its type and
the fields that the verifier reads or that tell matches apart; the hash of a
checkpoint is the state itself, so collisions are left out. `thrown` is, by slot,
the results of the hits its dice decided so far: which numbers a hit uses is
fixed by the hits of its unit before it, so unit, kind of hit and that history
stand for the key of `roll_u64`. `drawn` remembers what each key gave and is kept
from the recording to the second run, everything else starts again.

`ArenaEnv` records with an external driver, who may submit anything and close at
any time, or with the pinned policies to the end. `Kill` leaves any prefix of the
file; a cut line may lack its type or its fields. `Replay` then verifies the file
or plays it back. The loop of `verify_trace_file` over the lines is stated line by
line: `LineError` says what is wrong with a line, where the n-th checkpoint of the file is
held against the n-th of the second run (`Ordinal`), and the first line with an
error decides (`FirstError`). The loop reads nothing else of what came before. The
policies of the second run are those a scenario can name, idle and scripted
(`PinnedAssumption`). The phases follow each other; nothing runs concurrently here.

### Evaluation and training

In `Matchup` an action is known by the observation it was chosen on, so that a
row, environment or seed that is mistaken for another one sends a match astray.
`EvalSlices` takes from it that a score depends on seed and policies only. Its
processes save (`OpenScores`, `WriteScores`: the file is truncated, then
written), append their row and may be killed before each of these steps; several
may run at once, but the operator runs no two on one file. A file is known by
what its name tells, and a torn one is a sequence without scores. `aggregate` reads the
rows first (`StartAggregate`), then lists the files of a matchup (`StartMatchup`)
and reads them one by one (`AddFile`), while slices may be writing them. `finished` (the
files whose last process came to its end) and `undisturbed` (no slice ran since the
aggregating process began) are history; `FinishedSlicesAggregate` says of its
steps, not of what it would compute, that none raises. `SelfPlay` keeps,
beside the arrays of `collect`, an account of each running match: the discounted
sum of the rewards it was given. Its discounts are integers, which is enough for
identities of polynomials. `TrainRun` knows parameters by their history: for each
iteration its number, the position of the random stream and the seeds started.
`SelfPlay!act` samples as `net.py` does, from a cumulative sum whose last entry
may fall short of one.

`Verdict` holds the results of a matchup as shares of wins, draws and losses,
from which its mean and its spread follow for any number of matches; every bound
of the criterion is then a comparison of squares of integers. The code rounds a
bound to four digits before it compares it. Limits are multiples of 0.02, an
even number of last digits, so a tie is rounded to the limit: a bound is above
it if it is more than half a digit above (`Beyond`), and at least the limit if
it is at most half a digit below (`Reaches`). Left out are the errors of the doubles,
which could matter only where a bound lies within them of such a half digit.

### Scenario

The file is read a line at a time, as both readers do. A line that assigns is a
function from keys to values, so that one `UnitLine` may stand for a whole
section; values are numbers, truth values, policy names or `Garbled`. The native
reader keeps the last value of a key (`Assigned`), takes a header without a value as the start
of a section (or its continuation), trims the keys and stops at the first line it does not
understand; the Python reader appends every threshold it meets to `vals`,
knows no sections and does not trim: with a blank before the colon
(`SpacedThreshold`) it passes the line over. `hidden` is history, the sections whose
threshold stands in such a line. `Accepted` is the list of checks after the last line. A line
stands for the keys of one section at a time, which the readers treat alike
whatever their order.

## 3. Runs

| run | instance | question | bounds |
|---|---|---|---|
| `duel` | two warriors driven from outside with every pair of actions at ticks 0, 3000 and 6000 | abilities, deaths by swing and cast, rejected actions; is the engine the timeline, and does the match end whatever the driver does? | 9000 ms and a speed of 3000 ms: swings, ticks and checkpoints fall on the same instants, at 3000 and 6000, and a swing, a tick and a checkpoint would fall on the end; both cooldowns elapse; hp for four or five hits, so that every kind of death happens |
| `fast` | auto-attack, a 44 ms weapon parrying a 5 ms one | superseded swings in every pattern of parries | 80 ms: the slow unit is retimed until its floor, with several superseded events queued at once |
| `snapshot` | as `duel` | the statement of the docs below; expected to be violated | |
| `diff` | two trials per loop, five scenarios of stats and poses, a report whole, short of its last brace or cut in its last section | tables against the oracle, coupled damage, damage bounds, what is read from a report and how it is judged, front and behind | rolls at each range of the tables and weapon rolls at both ends; 32 steps of the weapon die for the coupling; every prefix of the report for reading; 65 facings in two turns |
| `driven` | an external driver with every pair of actions or the pinned policies, 2000 ms, ticks every 900 ms, killed anywhere; then verified or played back | is an honest trace accepted, a cut one ever, does a playback write the same trace, is the winner the survivor? | two decision ticks, swings with two results, a cast, heroic strikes and deaths of both kinds; every prefix of the file and every cut of its last line |
| `unlike` | as `driven` | a statement of the docs below; expected to be violated | |
| `matchup` | four matches in chunks of one to five | do scores depend on the chunk size? | four kinds of match, of three lengths; up to four chunks |
| `slices` | three seeds, a learned and a scripted matchup, two processes, three slice runs, one new checkpoint | is a report the one-shot report, are seeds covered exactly, can finished slices be aggregated, does a verdict speak of the policy tested? | slices that cover, partition, overlap and reach past the end; three runs let a partition of two slices be completed after a kill, or a slice be played again under the aggregate's hands; every result of four duels and three of four games against Idle in each matchup, weighed as 1204 matches: two matchups that win every other game miss a tolerance of 4% only because the bound is rounded |
| `pinned` | the pinned numbers of matches, tolerances and z; the scores the docs report | a statement of the docs below; expected to be violated | |
| `selfplay` | two environments, one with a fixed opponent, five steps, horizon two | rewards, advantages, seeds, the sampled action | matches of one to three ticks: they end in the same step, in one horizon, and across two; probabilities in eighths, any set of legal actions |
| `train` | three iterations, four segments | seeds, iterations, log | every segment may be killed at every point |
| `loader` | every file of up to seven lines from a set of headers, assignments and malformed lines | does the loader let through only what the engine's models assume, do both readers find the same thresholds? | a whole file needs five; two more open a section again, assign a key again, outside a section, with a blank before its colon, or garble it |

What each property says stands above its definition. Grouped by question:

- *Nothing lost or doubled*: `NoLostSwing`, `SwingSpacing`, `EveryActionCounted`.
- *Order*: `InstantOrder` (the effects within an instant, told from what was recorded,
  offered and resolved), `NothingInThePast`, `ImplementsTimeline` (which also
  tells a tick or checkpoint that is doubled, dropped or off its grid).
- *Death and end*: `DeathEndsMatch`, `MatchEnds`.
- *Observation and legality*: `ObservationExact`, `RejectsOnlyIllegal`, `ScriptedNeverIllegal`.
- *Traces*: `NoFalseAlarm`, `AcceptedIsWhole`, `PlaybackReproduces`, `WinnerSurvives`.
- *Evaluation*: `WidthHasNoEffect`, `ReportIsOneShot`, `ExactSeedCoverage`,
  `FinishedSlicesAggregate`, `CriterionSound`.
- *Training*: `ActsOnPresent`, `SampledIsLegal`, `ShapingTelescopes`, `AdvantagesStayInMatch`,
  `SeedsAreOwn`, `NoSeedReused`, `IterationsOnce`, `LogTellsCheckpoint`.
- *Scenario files*: `LoaderGuarantees`, `ThresholdsBySlot`.
- *Bounds*: `TypeOK`, `QueueFits`, `DamageInHistogram`, `UnblockedHitsHurt`.
- *Hit pipeline and its oracle*: `TablesMatchOracle`, `CoupledWithinTwo`, `FrontIsGeometric`,
  `AbilitiesShareRolls`.
- *Reports between tools*: `ReadsWhatWasWritten`, `SelfTestAgrees`.

`TablesMatchOracle`, `CoupledWithinTwo`, `ReadsWhatWasWritten`, `FrontIsGeometric`,
`CriterionSound` and `SampledIsLegal` are about pure functions: they quantify over
inputs and are looked at once, in the initial states. The tables are compared for
all 10,000 rolls.

Every one of them is broken by a named mutant of the code (`PROJECT.json`
"mutants"; the mutated operator stands before the one it replaces).

Fairness: `MatchEnds` is checked in `duel` under weak fairness of `Advance` and
`Driver` (`FairSpec`): `advance_()` is a loop without waits, and whoever drives,
`run_match` or a training loop, steps while the engine awaits actions. Nothing is
assumed of which actions are submitted. All other properties need none. Deadlock is checked in every
run but those of `MCEval` and `MCSelfPlay`, which stop at their bounds
(`MaxRuns`, `MaxSteps`); a finished match may be stepped (`StepAfterEnd`), a
finished report, replay, matchup or training run stutters (`Done`, `Return`,
`Rest`).

### What the docs say and the code does not

`docs/observation_action_spec.md` (36-38, 92-94) says that both units act on
snapshots taken before the tick and that an action illegal in the observation
becomes `None`. `step()` validates the second unit's action on the state the first
one's left. In the run `snapshot` the first unit's Mortal Strike gives the second
the rage for its own, which it submitted though its mask forbade it, and the
engine casts it. The other direction the docs mention - an action that was legal
becomes illegal - never happens: `RejectsOnlyIllegal` holds, because an enemy's
action can raise a unit's rage but never lower it or touch its cooldowns.

`arena_c_api.h:61-62` promises a trace "replayable by arena_replay". The verifier
runs the pinned policies again (replay.cpp:87) and never looks at the recorded
actions, so it rejects a whole and correct trace of a driver that decided
otherwise (run `unlike`). `NoFalseAlarm` gives the condition under which it
accepts, and `PlaybackReproduces` shows that the trace holds all that is needed.

`config.py:64-66` asks that bars be "feasibility-checked against a reference policy
before being pinned". Scripted slot 1 wins every other match against Idle, so with
the pinned 2000 matches the interval of a difference is 3.1% wide to each side,
more than the tolerance of 2%: a policy that plays exactly as the reference fails
the bar (run `pinned`). `ReferenceMatches` in `Verdict` gives the condition under which
it would match.

Two smaller ones have no run of their own. `arena_c_api.cpp:45` says that
destroying the engine will "flush on_end before closing"; the engine has no
destructor and calls `on_end` only when the match ends, so the trace of an
abandoned match has no end line (`Close` of `ArenaEnv`). And `evaluate.py:27` says
that slicing "only changes scheduling": neither scores nor rows record their
checkpoint, so after the checkpoint file was replaced, slices of two policies are
reported under the hash of one. `ReportIsOneShot` is therefore stated for one
checkpoint; `ExactSeedCoverage` holds always.

`envs.py` reads the thresholds by their order in the file, the engine by the order of
the entity ids. The pinned scenarios have both orders alike; `ThresholdsBySlot` is
stated for such files. It also excludes files in which a unit has its threshold from a
line with a blank before the colon: `envs.py:78` passes that line over, and with
another line for the same key, or one outside the two sections, it may still find
two numbers, but not those the engine plays with. Without that hypothesis TLC
finds such a file.

A checkpoint is overwritten in place (selfplay.py:103): a kill inside the write
leaves a file that does not load and ends the run (`Torn` in `TrainRun`). Nothing in
the repository says otherwise, so no property is stated about it.

## 4. Proofs

Eight modules hold theorems; each is about every value of the constants that meets
the named assumptions of the modelled module, where a run is about one instance.

### The engine (`MatchEngineProofs`, `MatchTimelineProofs`, `ScenarioProofs`)

For all units, hit results, durations and ticks that meet the assumptions of
`DuelRules` (what the loader guarantees: `UnitsAssumption`, `TimesAssumption`,
`PoliciesAssumption`, and the types of the hit results, `ResultsAssumption`):

| theorem | statement |
|---|---|
| `Inductive` | `Spec => []IInv` |
| `ScheduleIsKept` | `Spec => []TInv(run_ticks)`: `IInv` and the `Schedule` |
| `TicksAreOffered` | `Spec => []Ticks(run_ticks)`: ticks are those of the grid, in order, and none is left out |
| `TypeCorrect` | `Spec => []TypeOK` |
| `SwingsAreNeverLost` | `Spec => []NoLostSwing` |
| `NothingIsLate` | `Spec => []NothingInThePast` |
| `DeathIsFinal` | `Spec => []DeathEndsMatch` |
| `InstantsAreOrdered` | `Spec => InstantOrder` |
| `SwingsAreSpaced` | `Spec => SwingSpacing` |
| `ActionsAreCounted` | `Spec => EveryActionCounted` |
| `OnlyIllegalIsRejected` | `Spec => RejectsOnlyIllegal` |
| `ScriptsAreLegal` | `Spec => ScriptedNeverIllegal` |
| `ObservationsAreExact` | `Spec => []ObservationExact` |
| `EngineImplementsTimeline` | `Spec => ImplementsTimeline` |

`ScenarioProofs` proves two theorems for every file. `LoaderIsEnough`,
`Spec => []LoaderGuarantees`: what the loader lets through meets `UnitsAssumption` and
`TimesAssumption`, so the theorems above hold for every scenario that loads. Its
invariant is that a loaded file stays accepted; `ParsedUnit` derives the ranges from
the checks. `ReadersOfOneFile`, `Spec => []ThresholdsBySlot`: the Python
reader keeps an order and the native one keeps sections. `Finds` relates them: it says
where in the list the last threshold of each section stands, and that sections opened
one after the other stand there in that order, for sections that are not
`hidden`. With two thresholds and two sections the
places can only be the first and the second.

None of these is inductive alone. `NoLostSwing` needs to know that a timer is
never in the past, which needs `NothingInThePast`, whose step for a parry needs
`HastenedBounds`: a hastened swing stays strictly later than now unless it was
due now, in which case it is not retimed. `IInv` is the conjunction of `TypeOK`,
`NoLostSwing`, `NothingInThePast`, `DeathEndsMatch` and four parts: `SwingEvents`
(a queued swing belongs to a unit that attacks and names its enemy), `SwingTimers`
(a unit that attacks has a timer, one that does not has -1), `Spaced` (a unit's
next swing is at least its gap after its last) and `AwaitsNow` (the tick offered
is the event handled last). The lemmas go bottom-up: arithmetic of the rules,
types of the state transformers, push and pop, the common step of both swings
(`SwingStep`), the driver's step (`DriverStep`), the quiet events (`QuietSteps`),
then `StepIInv`.

`InstantsAreOrdered` does not speak of the queue, its proof does: an event of the
`Schedule` keeps every event of a later kind from being popped (`TopWaits`). `Behind`
says how far ticks and swings can be while the next second, the next tick and the
end are still queued, and each handler is then shown to act in its turn.

`ObservationsAreExact` says that of the clamps of `build_observation` those of the
swing timers and of the match's end are never active; those of the cooldowns are.

The other action properties follow from what one action does to its own unit and to
the enemy: it never lowers the enemy's rage and leaves the enemy's cooldowns and
queued strike alone, so what was legal stays legal.

The refinement needs `TInv`, which adds the `Schedule`: the end is queued at
`duration_ms`, the next whole second and the next tick exactly once and exactly
while they are due before the end (the tick only where a tick chain runs). With it
the event popped is, for each kind, the next of the timeline; a superseded swing maps to a stutter because its time
is not the timer of its unit. There is one lemma per action and kind of event.

### Recorded matches (`ReplayProofs`)

| theorem | statement |
|---|---|
| `EngineInvariantEverywhere` | `ReplaySpec => []RInv`: `IInv`, whoever records and whatever file the second run is fed |
| `WinnersSurvive` | `ReplaySpec => []WinnerSurvives` |
| `AcceptedTracesAreWhole` | `ReplaySpec => []AcceptedIsWhole` |
| `HonestTracesAccepted` | `ReplaySpec => []NoFalseAlarm` |
| `PlaybackIsFaithful` | `ReplaySpec => []PlaybackReproduces` |

Under the assumptions of `DuelRules` and `PinnedAssumption`, for two units of any
kind, two idle ones included, whose recording and second run differ in their tick chain.

*The engine in two runs.* Every step of `TraceSink` that moves the engine is a step of
`MatchEngine`, so `StepIInv` carries over; what is new is the second run, whose actions
come from the lines of a file. `RInv` therefore says that a file that can be played
back tells only actions (`TellsActions`), which follows from the type of what the sink
was given, and that the sink is told of the end once and last (`SinkOK`).

*What is accepted.* If no line has an error and the counts agree, each checkpoint of
the file met the one of the same ordinal, so both sets of ordinals are 1..n with one n
(`OrdinalsDiffer`, `NoneLeftOver`).

*That two runs agree* cannot be shown step by step: one may have a tick chain
where the other has none, and each pops events that do nothing. They are compared
at the places of the timeline instead. `place(t, kind, unit)` numbers the instants at which
something can be due, `Now` is what matters of a state (units, checkpoints, lines, cursors,
over or not), and `Effect(m, x, a, f)` is what becomes of moment `m` at spot `x` if
action `a` is submitted there and the dice are `f`: nothing, where nothing is due
and the action is not applied. The argument has five parts.

1. Every event handled has the effect of its spot, for all dice that extend those drawn so far
   (`EventHandled`), and so has each action of a step (`FirstEffect`, `SecondEffect`).
   Of the places between two events none has an effect: what would be due there would
   be queued (`NothingDueBefore`, from `NoLostSwing` and the `Schedule`), and a tick would have
   been offered (`TicksInTurn`, from `Ticks`).
2. So every run tells a `Story(H, D, N, dice, m)`: the moment `H[p]` before each place `p`
   and the action `D[p]` submitted there, up to place `N`, where it stands at `m`. `Chosen` says that
   the answers are the policies' (or those of the file that is played back) at every
   tick of the grid. `StoryGoesOn` adds an event or an action.
3. Two stories with the same dice and the same applied actions have the same moments
   (`SameStory`, by the least place where they differ), and stories of matches that are over
   end alike (`SameEnd`). The dice are the same because `drawn` only grows:
   the story of the recording is one with the dice of the second run too (`FileTold`).
4. The applied actions are the same because both runs follow the pinned policies (`PinnedAgree`: the
   observations agree as long as the stories do), because their decision lines are
   equal (the hypothesis of `NoFalseAlarm`), or because one plays back the other's lines
   (`PlayedAgree`: a spot has at most one decision line, `SaidOnce`).
5. The verifier finds no error in a run's own trace (`OwnTraceAccepted`), and the lines of a
   playback so far are a prefix of the file, whose decisions are legal when they are
   submitted again (`PlaybackShares`, `PlaybackLegal`).

`CInv` puts it together: what is recorded tells its story, a file that is no longer written is
that of such a story cut somewhere (`FileTold`), and the second run tells one of its own.

### The hit pipeline (`DifferentialProofs`)

| theorem | statement |
|---|---|
| `TablesAgree` | `DiffSpec => []TablesMatchOracle` |
| `TalliesAreSound` | `NaturalScenarios /\ DiffSpec => []SInv` |
| `HistogramHasRoom` | `NaturalScenarios /\ DiffSpec => []DamageInHistogram` |
| `EveryContactHurts` | `NaturalScenarios /\ DiffSpec => []UnblockedHitsHurt` |
| `AbilitiesRollAlike` | `DiffSpec => []AbilitiesShareRolls` |
| `DamagesMeet` | `NaturalScenarios /\ DiffSpec => []CoupledWithinTwo` |

For all units of the type the loader gives them, any number of trials and any
rolls. `TablesAgree` rests on `FillsWhatIsLeft`: clamping a chance to 0..10000 and
then to what is left, as the oracle does, ends a row where clamping its end does.
`NaturalScenarios` says that attack power and block value are not negative; the
loader does not check that (scenario.cpp:134), so it is a hypothesis of the
theorems and not an assumption of the model. Under it armor and crit never turn a
weapon roll below one, and the damage is monotone in the roll, which is what
`SInv` needs of each tally: no more blocks than contacts, a minimum below the maximum,
both at least one as far as there were contacts without a block, and no swing
above the bound of the histogram. `AbilitiesShareRolls` compares two loops that
run one after the other: `DiceInv` says that the tallies of the first were told by
some run through the dice already drawn (`Tells`), and that those of the second are
at trial `i` what the first had at trial `i`. Since keys keep their values and both
loops ask for the same keys, the second cannot differ. A die that both loops threw too
often would not show there: `DueInv` says that the cursor of every loop, the white one
included, is what its tallies call for (`DiceDue`).

`DamagesMeet` follows the two pipelines stage by stage. `PartsOfRoll`: truncating
the weapon's roll and the attack power's share apart, as the simulator does, or
together, as the oracle does, makes a difference of at most one, and after a crit
of at most two. `ArmorsAgree`: although one bounds what is left and the other
the reduction, both take off the same, for any armor above the pole. `ArmorIsGentle`: armor does not widen a difference.
`RagesMeet` divides what is left.

### Training and evaluation (`TrainRunProofs`, `SelfPlayProofs`, `EvalProofs`)

| theorem | statement |
|---|---|
| `HistoriesAreExact` | `Spec => []IInv` of `TrainRun` |
| `SeedsAreFresh` | `Spec => []NoSeedReused` |
| `NothingIsRepeated` | `Spec => []IterationsOnce` |
| `LogIsTrue` | `Spec => []LogTellsCheckpoint` |
| `OnlyLegalIsSampled` | `Spec => []SampledIsLegal` |
| `PoliciesSeeThePresent` | `Spec => []ActsOnPresent` |
| `SeedsStayApart` | `Spec => []SeedsAreOwn` |
| `RewardsTelescope` | `Spec => []ShapingTelescopes` |
| `CriterionSpeaksOfPolicy` | `Spec => []CriterionSound` |
| `SeedsAreCovered` | `Spec => []ExactSeedCoverage` |
| `SlicesAreOneShot` | `Spec => []ReportIsOneShot` |
| `FinishedSlicesAssemble` | `Spec => FinishedSlicesAggregate` |

*Training runs*, under `TrainAssumption`: a history is `Exact` when it has each
iteration once, in order, with random numbers and seeds of its own, and the log
`Tells` it when the last row of each of its iterations is the one that made it.
The invariant says so of the checkpoint, and of the running process, whose
history is at least as long as the checkpoint's: that is why the rows a killed
process leaves behind are overtaken by those of the one that resumes.

*Self-play*, under `SelfPlayAssumption`: `SeedInv` adds that seeds lie below the
number handed out, and environments that end in one step are counted off by
their index (`Cardinality` of those before). `AccountInv` says that at any moment of a
match the discounted rewards come to the weighted potential now less the one at
its start (`Balanced`). Discounts and rewards are integers there; the identity is
one of polynomials.

*Evaluation*, under `EvalAssumption` and `VerdictAssumption` (the scores tried are
shares of wins, draws and losses, those of one kind in equal shares): `CriterionSound` is algebra on squares of
bounds rounded as in the code; `SpreadIsNat` is the inequality of Cauchy and Schwarz for three values.
`SliceInv` says of every file and every row whose seeds it holds, with policies no
later than the checkpoint, that a row never stands without the file that was
saved before it, and of the aggregating process that what it has added so far is
the seeds from 0 on without a gap. Its counts come from rows it read earlier, which
may be of a slice of another length than the file; then the file of that slice is
still to be read, starts before the seeds read so far end, and makes the loop fail
(`Doomed`). `FinishedSlicesAssemble` needs `QuietInv` beside it: a finished file is whole and
has its row unless it is being run again, no two processes write one file, no slice reaches
past the last seed, and while nothing disturbs the aggregating process its rows are those
on disk and the files it has not read yet begin where those it read end (`ReadUpTo`). Of files
that partition the seeds the first one left must then start there (`NextFile`), and
when none is left every seed was read (`NothingLeft`).

### How the proofs and the runs go together

Inductive invariants were checked by TLC as invariants of the run of their
module before they were proved, except where they quantify over what TLC cannot
enumerate: `SliceInv` over all rows, `CInv` over all stories and dice, `ReadersInv` over all
places of sections. The modules that are proved about have no `RECURSIVE` operator;
where the code accumulates over a sequence they use the folds of the community
modules or partial sums.

Only model-checked, and why:

- `MatchEnds`: liveness under fairness.
- `WidthHasNoEffect`, `AdvantagesStayInMatch`, `ReadsWhatWasWritten`, `SelfTestAgrees`: what
  folds, recursive functions or searches compute over data of any length, which is
  induction over data.
- `QueueFits`: a statement about the instance. How many superseded swings can be
  queued depends on how often a unit can parry within its own swing.
- `FrontIsGeometric`: the error of an approximation of the sine over a table of angles.

## 5. Not modelled, and why

For two idle units `run_match` starts no chain of decision ticks, an environment
always does (match.h:451-455); no run verifies the trace of such an environment,
`HonestTracesAccepted` covers it.
Integers are unbounded: the fields are 32-bit and no pinned scenario comes near
their limits. Of the state hash and the RNG's mixing only that they are functions is
known. A match takes the results of its hits as a choice, so its facing is in what
may be chosen; the report decides with `Facing`. The oracle computes mostly in
float32, `Oracle` in exact fractions. How often the dice of a match are thrown is not
modelled either: its hits are choices, and what `AbilitiesShareRolls` says of cursors it
says of the report's loops. The rows of `arena_diff` that compare
means and extremes with a Monte Carlo sample are statistics of a float generator and
are left out, as are means, deviations and quantiles of a report; `CoupledWithinTwo`
checks what those rows rely on. The ruleset manifest is a constant text and its hash:
it tells two versions of the source apart, and a model is of one. The network, the
features and the optimiser are floating point. The tools parse arguments and print. Of
the verifier, traces of another ruleset or of a scenario that no longer loads are
left out: they are refused before anything runs.

## 6. Plan

Built: the engine with its abstract timeline, the hit pipeline with its report and
oracle, traces and their replay, evaluation up to the verdict, training, and the
proofs above. Every safety property that a run checks of the engine, its traces and
their replay, the loader, the slices and the training run is now a theorem too, but
for those listed in section 4. What is left, in this order:

1. The 32-bit arithmetic of the damage pipeline at the limits the loader admits:
   it does not bound `attack_power` or `block_value`.
2. `WidthHasNoEffect` and `AdvantagesStayInMatch`, with the arrays of `play_matchup` and
   `collect` as partial sums.
3. The size of the event queue for given units: a bound on how many superseded
   swings a unit's parries can leave behind.

## 7. How to run

    tlc -workers 2 -config MCMatch_duel.cfg MCMatch      # and the other configurations
    tlapm MatchEngineProofs.tla                          # and the other *Proofs.tla
