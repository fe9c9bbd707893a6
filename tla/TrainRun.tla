------------------------------ MODULE TrainRun ------------------------------
(***************************************************************************)
(* The life of a training run (train of src/python/train/selfplay.py):     *)
(* iterations, the checkpoint at the end of a segment, kills in between    *)
(* and resumption.                                                         *)
(*                                                                         *)
(* Parameters are known by their history: one entry per iteration that     *)
(* updated them, with the position of the random stream it drew from and   *)
(* the seeds of the matches it started.                                    *)
(***************************************************************************)
EXTENDS Integers, SequencesExt

CONSTANTS
  num_envs,
  Iterations,  \* iterations of the whole run (iters)
  Starts,      \* matches that an iteration may start anew: a set of numbers
  MaxSegments  \* bound: processes started

ASSUME TrainAssumption ==
  /\ {num_envs, Iterations} \subseteq Nat \ {0} /\ MaxSegments \in Nat
  /\ Starts \subseteq Nat

VARIABLES
  ckpt,     \* checkpoint.npz: NoCheckpoint, Torn or what was saved
  log,      \* log.jsonl: the history entries of its rows
  proc,     \* the running process, or Stopped
  segments  \* processes started

train_vars == <<ckpt, log, proc, segments>>

NoCheckpoint == [state |-> "none"]
Torn         == [state |-> "torn"]
Stopped      == [pc |-> "stopped"]

\* A fresh network: its random stream is at the beginning.
Fresh == [params |-> <<>>, rng |-> 0, iters_done |-> 0, episodes_started |-> 0]

Init == ckpt = NoCheckpoint /\ log = <<>> /\ proc = Stopped /\ segments = 0

-----------------------------------------------------------------------------
\* Mutant: the seeds start again from the beginning.
Restored_SeedsAgain ==
  IF ckpt = NoCheckpoint THEN Fresh
  ELSE [params |-> ckpt.params, rng |-> ckpt.rng, iters_done |-> ckpt.iters_done,
        episodes_started |-> 0]

\* What train starts from, with resume.
Restored ==
  IF ckpt = NoCheckpoint THEN Fresh
  ELSE [params |-> ckpt.params, rng |-> ckpt.rng, iters_done |-> ckpt.iters_done,
        episodes_started |-> ckpt.episodes_started]

\* A process starts: its environments take the next seeds.  A checkpoint that
\* does not load raises.
StartSegment ==
  /\ proc = Stopped /\ ckpt # Torn /\ segments < MaxSegments
  /\ LET first == Restored.episodes_started
     IN  proc' = [pc |-> "training", params |-> Restored.params, rng |-> Restored.rng,
                  iters_done |-> Restored.iters_done, episodes_started |-> first + num_envs,
                  fresh |-> first..(first + num_envs - 1)]
  /\ segments' = segments + 1
  /\ UNCHANGED <<ckpt, log>>

\* One iteration: collect, in which n matches end and are replaced, the epochs of
\* updates, and the row of the log.
Iterate(n) ==
  /\ proc.pc = "training" /\ proc.iters_done < Iterations
  /\ LET next  == proc.episodes_started
         entry == [iter |-> proc.iters_done + 1, rng |-> proc.rng,
                   seeds |-> proc.fresh \cup next..(next + n - 1)]
     IN  /\ proc' = [proc EXCEPT !.params = Append(@, entry), !.rng = @ + 1,
                                 !.iters_done = @ + 1, !.episodes_started = next + n, !.fresh = {}]
         /\ log' = Append(log, entry)
  /\ UNCHANGED <<ckpt, segments>>

\* After the last iteration, or after one that went over max_wall_s, the
\* checkpoint is written over the old one; a run that had nothing left to do
\* writes it at once.
OpenCheckpoint ==
  /\ proc.pc = "training"
  /\ proc.iters_done = Iterations \/ proc.fresh = {}
  /\ ckpt' = Torn
  /\ proc' = [proc EXCEPT !.pc = "saving"]
  /\ UNCHANGED <<log, segments>>

\* Mutant: the number of the last iteration is saved instead of their count.
Saved_LastIndex ==
  [state |-> "saved", params |-> proc.params, rng |-> proc.rng, iters_done |-> proc.iters_done - 1,
   episodes_started |-> proc.episodes_started]

\* Mutant: the random stream is not part of the checkpoint.
Saved_NoRng ==
  [state |-> "saved", params |-> proc.params, rng |-> 0, iters_done |-> proc.iters_done,
   episodes_started |-> proc.episodes_started]

\* _save_checkpoint.
Saved ==
  [state |-> "saved", params |-> proc.params, rng |-> proc.rng, iters_done |-> proc.iters_done,
   episodes_started |-> proc.episodes_started]

WriteCheckpoint ==
  /\ proc.pc = "saving"
  /\ ckpt' = Saved
  /\ proc' = Stopped
  /\ UNCHANGED <<log, segments>>

Kill == proc # Stopped /\ proc' = Stopped /\ UNCHANGED <<ckpt, log, segments>>

\* Nothing can be resumed any more, or nobody does.
Rest ==
  /\ proc = Stopped
  /\ ckpt = Torn \/ segments = MaxSegments
  /\ UNCHANGED train_vars

Next ==
  \/ StartSegment
  \/ \E n \in Starts : Iterate(n)
  \/ OpenCheckpoint
  \/ WriteCheckpoint
  \/ Kill
  \/ Rest

Spec == Init /\ [][Next]_train_vars

-----------------------------------------------------------------------------
(* Properties.                                                             *)

\* The histories that are in memory and on disk.
Lineages ==
  (IF proc = Stopped THEN {} ELSE {proc.params})
  \cup (IF ckpt.state = "saved" THEN {ckpt.params} ELSE {})

\* selfplay.py:118-119, "the episode seed counter continues, so no seed is
\* reused": no match that shaped the parameters has the seed of another one,
\* however often the run was killed and resumed.
NoSeedReused ==
  \A params \in Lineages : \A m, n \in DOMAIN params :
    m # n => params[m].seeds \cap params[n].seeds = {}

\* selfplay.py:119-120, "restores params/Adam/numpy-rng exactly": parameters went
\* through each iteration once, in order, and no random number was drawn twice.
IterationsOnce ==
  \A params \in Lineages : \A k \in DOMAIN params :
    params[k].iter = k /\ \A m \in DOMAIN params : params[m].rng = params[k].rng => m = k

\* The log of a run that was killed has rows of lost iterations, but the last row
\* of each iteration that is in the checkpoint is the one that made it
\* (selfplay.py:169-192).
LogTellsCheckpoint ==
  ckpt.state = "saved" =>
    \A k \in DOMAIN ckpt.params :
      LET last == SelectLastInSeq(log, LAMBDA row : row.iter = k)
      IN  last # 0 /\ log[last] = ckpt.params[k]
=============================================================================
