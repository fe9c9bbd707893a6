----------------------------- MODULE EvalSlices -----------------------------
(***************************************************************************)
(* Evaluation in slices (run_slice and aggregate of                        *)
(* src/python/train/evaluate.py): processes that play parts of a matchup   *)
(* and leave their scores in files, may be killed at any time and run      *)
(* again, and one that puts the files together.  Matchup shows that the    *)
(* scores of a slice depend on nothing but its seeds and its policies, so  *)
(* here a score is known by its seed and its policy; what the scores of    *)
(* seven matchups come to is in Verdict.                                   *)
(***************************************************************************)
EXTENDS Verdict, SequencesExt

CONSTANTS
  Process,      \* slice processes; several may run at once
  Learned,      \* the matchups that a learned policy plays in, and
  Baseline,     \* those it does not
  N,            \* number of seeds of a matchup
  Specs,        \* the slices the operator runs: {[start, count]}
  MaxRuns,      \* bound on the slice processes started
  MaxRetrains   \* bound on the times the checkpoint file is replaced

Matchups == Learned \cup Baseline

ASSUME EvalAssumption ==
  /\ N \in Nat \ {0} /\ MaxRuns \in Nat /\ MaxRetrains \in Nat
  /\ \A s \in Specs : s.start \in 0..(N - 1) /\ s.count \in Nat \ {0}

VARIABLES
  checkpoint,  \* the policy in the checkpoint file: how often training replaced it
  disk,        \* by file name [matchup, start, count]: its scores, or Torn
  rows,        \* slices.jsonl as aggregate reads it: the last row by <<matchup, start>>
  proc,        \* by process: what it is doing
  adder,       \* the aggregating process: what it has read
  report,      \* eval.json, or NoReport
  runs,        \* slice processes started so far
  finished,    \* history: the files whose last process to stop had finished
  undisturbed  \* history: no slice ran since the aggregating process began

eval_vars == <<checkpoint, disk, rows, proc, adder, report, runs, finished, undisturbed>>

Idle == [pc |-> "idle"]
NoReport == [verdict |-> "none"]
Torn == <<>>  \* an empty or a cut file: no scores can be loaded from it
Scripted == -1

Init ==
  /\ checkpoint = 0
  /\ disk = <<>> /\ rows = <<>>
  /\ proc = [p \in Process |-> Idle]
  /\ adder = Idle
  /\ report = NoReport
  /\ runs = 0
  /\ finished = {} /\ undisturbed = FALSE

-----------------------------------------------------------------------------
(* run_slice.                                                              *)

\* The policy that decides the scores of a matchup.
player(matchup, policy) == IF matchup \in Learned THEN policy ELSE Scripted

\* The matches of seeds start .. start + count - 1.
played(matchup, policy, start, count) ==
  [k \in 1..count |-> <<player(matchup, policy), start + k - 1>>]

\* Mutant: a slice may reach past the last seed.
clipped_NotAtAll(s) == s.count

clipped(s) == Min({s.count, N - s.start})

File(matchup, start, count) == [matchup |-> matchup, start |-> start, count |-> count]

Name(p) == File(proc[p].matchup, proc[p].start, proc[p].count)

Scores(p) == played(proc[p].matchup, proc[p].policy, proc[p].start, proc[p].count)

\* The map f with value stored under key.
Put(f, key, value) == [k \in DOMAIN f \cup {key} |-> IF k = key THEN value ELSE f[k]]

Goes(p, pc) == proc' = [proc EXCEPT ![p].pc = pc]

\* Mutant: the row is written before the scores are saved.
StartSlice_RowFirst(p, matchup, s) ==
  /\ proc[p] = Idle /\ runs < MaxRuns
  /\ \A q \in Process : proc[q] # Idle => Name(q) # File(matchup, s.start, clipped(s))
  /\ proc' = [proc EXCEPT ![p] = [pc |-> "playing", policy |-> checkpoint, matchup |-> matchup,
                                  start |-> s.start, count |-> clipped(s)]]
  /\ rows' = Put(rows, <<matchup, s.start>>, played(matchup, checkpoint, s.start, clipped(s)))
  /\ runs' = runs + 1 /\ undisturbed' = FALSE
  /\ UNCHANGED <<checkpoint, disk, adder, report, finished>>

\* The operator does not start a slice while another process writes its file.
StartSlice(p, matchup, s) ==
  /\ proc[p] = Idle /\ runs < MaxRuns
  /\ \A q \in Process : proc[q] # Idle => Name(q) # File(matchup, s.start, clipped(s))
  /\ proc' = [proc EXCEPT ![p] = [pc |-> "playing", policy |-> checkpoint, matchup |-> matchup,
                                  start |-> s.start, count |-> clipped(s)]]
  /\ runs' = runs + 1 /\ undisturbed' = FALSE
  /\ UNCHANGED <<checkpoint, disk, rows, adder, report, finished>>

\* np.save creates or truncates the file and then writes it.
OpenScores(p) ==
  /\ proc[p].pc = "playing"
  /\ disk' = Put(disk, Name(p), Torn)
  /\ Goes(p, "saving")
  /\ UNCHANGED <<checkpoint, rows, adder, report, runs, finished, undisturbed>>

WriteScores(p) ==
  /\ proc[p].pc = "saving"
  /\ disk' = Put(disk, Name(p), Scores(p))
  /\ Goes(p, "saved")
  /\ UNCHANGED <<checkpoint, rows, adder, report, runs, finished, undisturbed>>

\* The row is appended in one write.
AppendRow(p) ==
  /\ proc[p].pc = "saved"
  /\ rows' = Put(rows, <<proc[p].matchup, proc[p].start>>, Scores(p))
  /\ proc' = [proc EXCEPT ![p] = Idle]
  /\ finished' = finished \cup {Name(p)}
  /\ UNCHANGED <<checkpoint, disk, adder, report, runs, undisturbed>>

KillSlice(p) ==
  /\ proc[p] # Idle
  /\ proc' = [proc EXCEPT ![p] = Idle]
  /\ finished' = finished \ {Name(p)}
  /\ UNCHANGED <<checkpoint, disk, rows, adder, report, runs, undisturbed>>

\* Training goes on and writes the checkpoint file again.
Retrain ==
  /\ checkpoint < MaxRetrains
  /\ checkpoint' = checkpoint + 1
  /\ UNCHANGED <<disk, rows, proc, adder, report, runs, finished, undisturbed>>

-----------------------------------------------------------------------------
(* aggregate.                                                              *)

\* glob.
Parts(matchup) == {f \in DOMAIN disk : f.matchup = matchup}

\* sorted: by start, which is padded with zeros.  Of two parts with one start
\* the second raises, whichever comes first; here the shorter one does.
Before(f, g) == f.start < g.start \/ (f.start = g.start /\ f.count < g.count)

Nothing == [scores |-> <<>>, stats |-> <<>>]
Failed == [failed |-> TRUE]

\* Mutant: only the number of seeds is compared, not where each part starts.
AddPart_AnyStart(known, sum, f) ==
  IF \/ sum = Failed \/ disk[f] = Torn \/ <<f.matchup, f.start>> \notin DOMAIN known
  THEN Failed
  ELSE [scores |-> sum.scores \o disk[f], stats |-> sum.stats \o known[<<f.matchup, f.start>>]]

\* One turn of the loop over the files: a gap or an overlap, a file that does
\* not load and a missing row all raise.
AddPart(known, sum, f) ==
  IF \/ sum = Failed
     \/ f.start # Len(sum.scores)
     \/ disk[f] = Torn \/ Len(disk[f]) # f.count
     \/ <<f.matchup, f.start>> \notin DOMAIN known
  THEN Failed
  ELSE [scores |-> sum.scores \o disk[f], stats |-> sum.stats \o known[<<f.matchup, f.start>>]]

\* The checkpoint is loaded and the rows are read before any scores are.
StartAggregate ==
  /\ adder = Idle /\ rows # <<>>
  /\ adder' = [pc |-> "adding", policy |-> checkpoint, rows |-> rows, parts |-> <<>>]
  /\ undisturbed' = \A p \in Process : proc[p] = Idle
  /\ UNCHANGED <<checkpoint, disk, rows, proc, report, runs, finished>>

\* One turn of the loop over the matchups: the files are listed,
StartMatchup ==
  /\ adder.pc = "adding" /\ DOMAIN adder.parts # Matchups
  /\ adder' = [pc |-> "reading", policy |-> adder.policy, rows |-> adder.rows,
               parts |-> adder.parts, sum |-> Nothing,
               matchup |-> CHOOSE m \in Matchups : m \notin DOMAIN adder.parts,
               left |-> Parts(CHOOSE m \in Matchups : m \notin DOMAIN adder.parts)]
  /\ UNCHANGED <<checkpoint, disk, rows, proc, report, runs, finished, undisturbed>>

\* read one by one, while slices may be writing them,
AddFile ==
  /\ adder.pc = "reading"
  /\ \E f \in adder.left :
       LET sum == AddPart(adder.rows, adder.sum, f)
       IN  /\ \A g \in adder.left \ {f} : Before(f, g)
           /\ adder' = IF sum = Failed THEN Idle
                       ELSE [adder EXCEPT !.left = @ \ {f}, !.sum = sum]
  /\ UNCHANGED <<checkpoint, disk, rows, proc, report, runs, finished, undisturbed>>

\* and must have covered every seed.
EndMatchup ==
  /\ adder.pc = "reading" /\ adder.left = {}
  /\ adder' = IF Len(adder.sum.scores) # N THEN Idle
              ELSE [pc |-> "adding", policy |-> adder.policy, rows |-> adder.rows,
                    parts |-> Put(adder.parts, adder.matchup, adder.sum)]
  /\ UNCHANGED <<checkpoint, disk, rows, proc, report, runs, finished, undisturbed>>

WriteReport ==
  /\ adder.pc = "adding" /\ DOMAIN adder.parts = Matchups
  /\ report' = [verdict |-> "written", policy |-> adder.policy, parts |-> adder.parts]
  /\ adder' = Idle
  /\ UNCHANGED <<checkpoint, disk, rows, proc, runs, finished, undisturbed>>

Next ==
  \/ \E p \in Process :
       \/ \E m \in Matchups, s \in Specs : StartSlice(p, m, s)
       \/ OpenScores(p)
       \/ WriteScores(p)
       \/ AppendRow(p)
       \/ KillSlice(p)
  \/ Retrain
  \/ StartAggregate
  \/ StartMatchup
  \/ AddFile
  \/ EndMatchup
  \/ WriteReport

Spec == Init /\ [][Next]_eval_vars

-----------------------------------------------------------------------------
(* Properties.                                                             *)

\* The verdict that aggregate writes (config.py:20-40) is about the policy that
\* was tested, although every score it is made of is slot 0's: it passes no
\* policy that is worse than the scripted one in its own slot (see Verdict).
\* Looked at once, since it does not depend on the state.
CriterionSound == runs = 0 /\ checkpoint = 0 /\ rows = <<>> => VerdictSpeaksOfPolicy

\* config.py:64-66: bars must be "feasibility-checked against a reference policy
\* before being pinned; relative bars don't have that failure mode" of failing
\* every policy, the reference included.
BarsAreFeasible == runs = 0 /\ checkpoint = 0 /\ rows = <<>> => ReferenceFeasible

\* evaluate.py:27: "One-shot in-process evaluation (evaluate()) gives identical
\* results".  As long as the checkpoint file is the one that the slices were
\* played with, however the seeds were sliced, whatever was killed and run again
\* and whatever else was running, a report that was written has the scores and
\* the counts that evaluate() has.
ReportIsOneShot ==
  report # NoReport /\ checkpoint = 0 =>
    \A m \in Matchups :
      LET whole == played(m, report.policy, 0, N)
      IN  report.parts[m] = [scores |-> whole, stats |-> whole]

\* evaluate.py:26, "checks exact seed coverage": even when the checkpoint file
\* changed between the slices, a report scores and counts every seed once.
ExactSeedCoverage ==
  report # NoReport =>
    \A m \in Matchups : \A part \in {report.parts[m].scores, report.parts[m].stats} :
      [k \in DOMAIN part |-> part[k][2]] = [k \in 1..N |-> k - 1]

\* The finished slices of a matchup are a partition of its seeds, and no other
\* slice left a file.
FinishedPartition(matchup) ==
  LET done == {f \in finished : f.matchup = matchup}
  IN  /\ Parts(matchup) = done
      /\ \A k \in 0..(N - 1) :
           \E f \in done : {g \in done : k \in g.start..(g.start + g.count - 1)} = {f}

\* evaluate.py:24, "Evaluation is resumable": once every slice of a partition was
\* run to its end, perhaps after some were killed, and nothing is running, the
\* loop over the files of a matchup raises nowhere.
FinishedSlicesAggregate ==
  [][undisturbed /\ adder.pc = "reading" /\ FinishedPartition(adder.matchup)
       => adder' # Idle]_eval_vars
=============================================================================
