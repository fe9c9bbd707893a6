--------------------------- MODULE TrainRunProofs ---------------------------
(***************************************************************************)
(* Proofs about the life of a training run, for any number of              *)
(* environments, iterations, matches and processes.                        *)
(***************************************************************************)
EXTENDS TrainRun, TLAPS

Entry == [iter: Nat, rng: Nat, seeds: SUBSET Nat]

\* What a history h claims to have done, it did: once, in order, with random
\* numbers and seeds of its own.
Exact(h) ==
  /\ h.params \in Seq(Entry) /\ h.episodes_started \in Nat
  /\ h.iters_done = Len(h.params) /\ h.rng = Len(h.params)
  /\ \A k \in 1..Len(h.params) :
       /\ h.params[k].iter = k /\ h.params[k].rng = k - 1
       /\ h.params[k].seeds \subseteq 0..(h.episodes_started - 1)
  /\ \A m, n \in 1..Len(h.params) : m # n => h.params[m].seeds \cap h.params[n].seeds = {}

\* The last row of each iteration of the history is the one that made it.
Tells(rows, params) ==
  \A k \in 1..Len(params) : \E i \in 1..Len(rows) :
    rows[i] = params[k] /\ \A j \in 1..Len(rows) : rows[j].iter = k => j <= i

Process ==
  [pc: {"training", "saving"}, params: Seq(Entry), rng: Nat, iters_done: Nat,
   episodes_started: Nat, fresh: SUBSET Nat]

Running ==
  /\ proc \in Process /\ Exact(proc) /\ Tells(log, proc.params)
  /\ proc.fresh \subseteq 0..(proc.episodes_started - 1)
  /\ \A k \in 1..Len(proc.params) : proc.params[k].seeds \cap proc.fresh = {}
  /\ ckpt.state = "saved" => Len(ckpt.params) <= Len(proc.params)

IInv ==
  /\ log \in Seq(Entry)
  /\ \/ ckpt \in {NoCheckpoint, Torn}
     \/ ckpt.state = "saved" /\ Exact(ckpt) /\ Tells(log, ckpt.params)
  /\ proc = Stopped \/ Running

-----------------------------------------------------------------------------
LEMMA InitIInv == Init => IInv
  BY DEF Init, IInv

\* An iteration goes on from a history that is exact and leaves one that is.
LEMMA IterateExact ==
  ASSUME IInv, NEW n \in Starts, Iterate(n)
  PROVE  Running'
<1> DEFINE next  == proc.episodes_started
           len   == Len(proc.params)
           entry == [iter |-> proc.iters_done + 1, rng |-> proc.rng,
                     seeds |-> proc.fresh \cup next..(next + n - 1)]
<1>1. Running /\ n \in Nat /\ log \in Seq(Entry)
  BY TrainAssumption DEF IInv, Iterate, Stopped
<1>2. /\ next \in Nat /\ len \in Nat /\ proc.params \in Seq(Entry) /\ proc \in Process
      /\ proc.iters_done = len /\ proc.rng = len
  BY <1>1 DEF Running, Exact, Process
<1>3. entry \in Entry /\ entry.seeds \subseteq 0..(next + n - 1)
  BY <1>1, <1>2 DEF Entry, Running
<1>4. /\ proc' = [proc EXCEPT !.params = Append(@, entry), !.rng = @ + 1,
                              !.iters_done = @ + 1, !.episodes_started = next + n, !.fresh = {}]
      /\ log' = Append(log, entry) /\ UNCHANGED ckpt
  BY DEF Iterate
<1>5. /\ proc'.params = Append(proc.params, entry) /\ proc'.rng = len + 1
      /\ proc'.iters_done = len + 1 /\ proc'.episodes_started = next + n /\ proc'.fresh = {}
      /\ proc' \in Process
  <2> HIDE DEF entry
  <2>1. /\ Append(proc.params, entry) \in Seq(Entry) /\ len + 1 \in Nat /\ next + n \in Nat
        /\ proc.pc \in {"training", "saving"}
    BY <1>1, <1>2, <1>3 DEF Process
  <2>2. proc' = [pc |-> proc.pc, params |-> Append(proc.params, entry), rng |-> len + 1,
                 iters_done |-> len + 1, episodes_started |-> next + n, fresh |-> {}]
    BY <1>2, <1>4 DEF Process
  <2>3. QED
    BY <2>1, <2>2 DEF Process
<1>6. /\ entry.iter = len + 1 /\ entry.rng = len
      /\ \A k \in 1..len : proc.params[k].seeds \cap entry.seeds = {}
  BY <1>1, <1>2, SMTT(30) DEF Running, Exact, Entry
<1> HIDE DEF entry, next, len
<1>7. /\ Len(proc'.params) = len + 1 /\ proc'.params \in Seq(Entry)
      /\ proc'.params[len + 1] = entry
      /\ \A k \in 1..len : proc'.params[k] = proc.params[k]
  BY <1>2, <1>3, <1>5 DEF len
<1>8. /\ \A k \in 1..len : proc.params[k].iter = k /\ proc.params[k].rng = k - 1
                           /\ proc.params[k].seeds \subseteq 0..(next - 1)
      /\ \A m, k \in 1..len : m # k => proc.params[m].seeds \cap proc.params[k].seeds = {}
  BY <1>1 DEF Running, Exact, len, next
<1>9. Exact(proc)'
  <2>1. \A k \in 1..(len + 1) :
          /\ proc'.params[k].iter = k /\ proc'.params[k].rng = k - 1
          /\ proc'.params[k].seeds \subseteq 0..(next + n - 1)
    <3>1. TAKE k \in 1..(len + 1)
    <3>2. CASE k = len + 1
      BY <1>2, <1>3, <1>6, <1>7, <3>2
    <3>3. CASE k \in 1..len
      <4>1. 0..(next - 1) \subseteq 0..(next + n - 1)
        BY <1>1, <1>2
      <4>2. QED
        BY <1>7, <1>8, <3>3, <4>1
    <3>4. QED
      BY <1>2, <3>2, <3>3
  <2>2. ASSUME NEW m \in 1..(len + 1), NEW k \in 1..(len + 1), m # k
        PROVE  proc'.params[m].seeds \cap proc'.params[k].seeds = {}
    <3>1. m \in 1..len \/ m = len + 1
      BY <1>2
    <3>2. k \in 1..len \/ k = len + 1
      BY <1>2
    <3>3. CASE m \in 1..len /\ k \in 1..len
      BY <1>7, <1>8, <2>2, <3>3
    <3>4. CASE m = len + 1 \/ k = len + 1
      BY <1>6, <1>7, <1>8, <2>2, <3>1, <3>2, <3>4
    <3>5. QED
      BY <3>1, <3>2, <3>3, <3>4
  <2>3. /\ proc'.params \in Seq(Entry) /\ Len(proc'.params) = len + 1
        /\ proc'.episodes_started = next + n /\ proc'.episodes_started \in Nat
        /\ proc'.iters_done = len + 1 /\ proc'.rng = len + 1
        /\ len \in Nat /\ next \in Nat /\ n \in Nat
    BY <1>1, <1>2, <1>5, <1>7
  <2>4. QED
    BY ONLY <2>1, <2>2, <2>3 DEF Exact
<1>10. \A k \in 1..Len(proc'.params) : \E i \in 1..Len(log') :
         /\ log'[i] = proc'.params[k]
         /\ \A j \in 1..Len(log') : log'[j].iter = k => j <= i
  <2>1. /\ Len(log') = Len(log) + 1 /\ log'[Len(log) + 1] = entry /\ Len(log) \in Nat
        /\ \A i \in 1..Len(log) : log'[i] = log[i]
    BY <1>1, <1>3, <1>4
  <2>2. TAKE k \in 1..Len(proc'.params)
  <2>3. CASE k = len + 1
    <3>1. Len(log) + 1 \in 1..Len(log') /\ log'[Len(log) + 1] = proc'.params[k]
      BY <1>7, <2>1, <2>3
    <3>2. \A j \in 1..Len(log') : j <= Len(log) + 1
      BY <2>1
    <3>3. QED
      BY <3>1, <3>2
  <2>4. CASE k \in 1..len
    <3>1. PICK i \in 1..Len(log) :
            log[i] = proc.params[k] /\ \A j \in 1..Len(log) : log[j].iter = k => j <= i
      BY <1>1, <2>4 DEF Running, Tells, len
    <3>2. i \in 1..Len(log') /\ log'[i] = proc'.params[k]
      BY <1>7, <2>1, <2>4, <3>1
    <3>3. ASSUME NEW j \in 1..Len(log'), log'[j].iter = k
          PROVE  j <= i
      <4>1. j # Len(log) + 1
        BY <1>2, <1>6, <2>1, <2>4, <3>3
      <4>2. j \in 1..Len(log)
        BY <2>1, <4>1
      <4>3. QED
        BY <2>1, <3>1, <3>3, <4>2
    <3>4. QED
      BY <3>2, <3>3
  <2>5. k = len + 1 \/ k \in 1..len
    BY <1>2, <1>7
  <2>6. QED
    BY ONLY <2>3, <2>4, <2>5
<1>11. ckpt'.state = "saved" => Len(ckpt'.params) <= Len(proc'.params)
  <2>1. ckpt.state = "saved" => Len(ckpt.params) <= len /\ Len(ckpt.params) \in Nat
    BY <1>1 DEF Running, IInv, NoCheckpoint, Torn, Exact, len
  <2>2. QED
    BY <1>2, <1>4, <1>7, <2>1
<1>12. QED
  BY <1>5, <1>9, <1>10, <1>11 DEF Running, Tells

\* A row of a later iteration does not disturb what the log tells of a history.
LEMMA LaterRow ==
  ASSUME NEW rows \in Seq(Entry), NEW params \in Seq(Entry), Tells(rows, params),
         NEW entry \in Entry, entry.iter > Len(params)
  PROVE  Tells(Append(rows, entry), params)
<1> DEFINE more == Append(rows, entry)
<1>1. /\ Len(more) = Len(rows) + 1 /\ more[Len(rows) + 1] = entry /\ Len(rows) \in Nat
      /\ \A i \in 1..Len(rows) : more[i] = rows[i]
  OBVIOUS
<1> HIDE DEF more
<1>2. SUFFICES ASSUME NEW k \in 1..Len(params)
               PROVE  \E i \in 1..Len(more) : /\ more[i] = params[k]
                                              /\ \A j \in 1..Len(more) : more[j].iter = k => j <= i
  BY DEF Tells, more
<1>3. PICK i \in 1..Len(rows) :
        rows[i] = params[k] /\ \A j \in 1..Len(rows) : rows[j].iter = k => j <= i
  BY DEF Tells
<1>4. i \in 1..Len(more) /\ more[i] = params[k]
  BY <1>1, <1>3
<1>5. ASSUME NEW j \in 1..Len(more), more[j].iter = k
      PROVE  j <= i
  <2>1. j # Len(rows) + 1
    <3>1. k <= Len(params) /\ k \in Nat /\ Len(params) \in Nat /\ entry.iter \in Nat
      BY DEF Entry
    <3>2. k # entry.iter
      BY <3>1
    <3>3. QED
      BY <1>1, <1>5, <3>2
  <2>2. j \in 1..Len(rows)
    BY <1>1, <2>1, SMTT(30)
  <2>3. QED
    BY <1>1, <1>3, <1>5, <2>2
<1>6. QED
  BY <1>4, <1>5

-----------------------------------------------------------------------------
LEMMA StepIInv == IInv /\ [Next]_train_vars => IInv'
<1> SUFFICES ASSUME IInv, [Next]_train_vars PROVE IInv'
  OBVIOUS
<1>1. CASE StartSegment
  <2>1. /\ proc = Stopped /\ UNCHANGED <<ckpt, log>>
        /\ proc' = [pc |-> "training", params |-> Restored.params, rng |-> Restored.rng,
                    iters_done |-> Restored.iters_done,
                    episodes_started |-> Restored.episodes_started + num_envs,
                    fresh |-> Restored.episodes_started..(Restored.episodes_started + num_envs - 1)]
        /\ ckpt # Torn
    BY <1>1 DEF StartSegment
  <2>2. /\ Exact(Restored) /\ Tells(log, Restored.params)
        /\ ckpt.state = "saved" => Restored.params = ckpt.params
    <3>1. CASE ckpt = NoCheckpoint
      BY <3>1 DEF Restored, Fresh, NoCheckpoint, Exact, Tells
    <3>2. CASE ckpt # NoCheckpoint
      BY <2>1, <3>2 DEF Restored, IInv, Exact
    <3>3. QED
      BY <3>1, <3>2
  <2> DEFINE next == Restored.episodes_started
             len  == Len(Restored.params)
  <2>3. next \in Nat /\ len \in Nat /\ num_envs \in Nat /\ Restored.params \in Seq(Entry)
        /\ Restored.rng = len /\ Restored.iters_done = len
    BY <2>2, TrainAssumption DEF Exact
  <2>4. /\ proc'.params = Restored.params /\ proc'.rng = len /\ proc'.iters_done = len
        /\ proc'.episodes_started = next + num_envs
        /\ proc'.fresh = next..(next + num_envs - 1) /\ proc' \in Process
    BY <2>1, <2>3 DEF Process
  <2>5. \A k \in 1..len : Restored.params[k].seeds \subseteq 0..(next - 1)
    BY <2>2 DEF Exact
  <2>6. 0..(next - 1) \subseteq 0..(next + num_envs - 1)
        /\ (0..(next - 1)) \cap (next..(next + num_envs - 1)) = {}
        /\ next..(next + num_envs - 1) \subseteq 0..(next + num_envs - 1)
    BY <2>3
  <2>7. Exact(proc)'
    <3>1. /\ \A k \in 1..len : Restored.params[k].iter = k /\ Restored.params[k].rng = k - 1
          /\ \A m, n \in 1..len : m # n => Restored.params[m].seeds \cap Restored.params[n].seeds = {}
      BY <2>2 DEF Exact
    <3>2. \A k \in 1..len : Restored.params[k].seeds \subseteq 0..(next + num_envs - 1)
      BY <2>5, <2>6
    <3>3. Len(proc'.params) = len /\ next + num_envs \in Nat
      BY <2>3, <2>4
    <3> HIDE DEF next, len
    <3>4. QED
      BY <2>3, <2>4, <3>1, <3>2, <3>3, SMTT(30) DEF Exact
  <2>8. /\ \A k \in 1..len : Restored.params[k].seeds \cap (next..(next + num_envs - 1)) = {}
        /\ ckpt.state = "saved" => Len(ckpt.params) <= len
    BY <2>2, <2>3, <2>5, <2>6
  <2>9. Running'
    <3>1. Tells(log, proc.params)'
      BY <2>1, <2>2, <2>4
    <3>2. Len(proc'.params) = len
      BY <2>4
    <3> HIDE DEF next, len
    <3>3. /\ proc'.fresh \subseteq 0..(proc'.episodes_started - 1)
          /\ \A k \in 1..Len(proc'.params) : proc'.params[k].seeds \cap proc'.fresh = {}
          /\ ckpt'.state = "saved" => Len(ckpt'.params) <= Len(proc'.params)
      <4>1. proc'.fresh \subseteq 0..(proc'.episodes_started - 1)
        BY <2>3, <2>4
      <4>2. \A k \in 1..len : proc'.params[k].seeds \cap proc'.fresh = {}
        BY <2>4, <2>8
      <4>3. ckpt'.state = "saved" => Len(ckpt'.params) <= len
        BY <2>1, <2>8
      <4>4. QED
        BY <3>2, <4>1, <4>2, <4>3
    <3>4. QED
      BY <2>4, <2>7, <3>1, <3>3 DEF Running
  <2>10. QED
    BY <2>1, <2>9 DEF IInv
<1>2. ASSUME NEW n \in Starts, Iterate(n)
      PROVE  IInv'
  <2>1. Running'
    BY <1>2, IterateExact
  <2> DEFINE entry == [iter |-> proc.iters_done + 1, rng |-> proc.rng,
                       seeds |-> proc.fresh \cup proc.episodes_started..(proc.episodes_started + n - 1)]
  <2>2. /\ UNCHANGED ckpt /\ log' = Append(log, entry) /\ Running /\ n \in Nat
    BY <1>2, TrainAssumption DEF Iterate, IInv, Stopped
  <2>3. entry \in Entry /\ entry.iter = Len(proc.params) + 1 /\ Len(proc.params) \in Nat
    BY <2>2 DEF Running, Exact, Entry, Process
  <2> HIDE DEF entry
  <2>4. ASSUME ckpt \notin {NoCheckpoint, Torn}
        PROVE  ckpt'.state = "saved" /\ Exact(ckpt)' /\ Tells(log', ckpt'.params)
    <3>1. ckpt.state = "saved" /\ Exact(ckpt) /\ Tells(log, ckpt.params) /\ log \in Seq(Entry)
      BY <2>4 DEF IInv
    <3>2. Len(ckpt.params) <= Len(proc.params) /\ ckpt.params \in Seq(Entry)
      BY <2>2, <3>1 DEF Running, Exact
    <3>3. entry.iter > Len(ckpt.params)
      BY <2>3, <3>2
    <3>4. Tells(log', ckpt.params)
      BY <2>2, <2>3, <3>1, <3>2, <3>3, LaterRow
    <3>5. QED
      BY <2>2, <3>1, <3>4 DEF Exact
  <2>5. log' \in Seq(Entry)
    BY <2>2, <2>3 DEF IInv
  <2>6. QED
    BY <2>1, <2>2, <2>4, <2>5 DEF IInv
<1>3. CASE OpenCheckpoint
  <2>1. /\ ckpt' = Torn /\ proc' = [proc EXCEPT !.pc = "saving"] /\ UNCHANGED log /\ Running
    BY <1>3 DEF OpenCheckpoint, IInv, Stopped
  <2>2. proc' \in Process /\ proc'.params = proc.params /\ proc'.rng = proc.rng
        /\ proc'.iters_done = proc.iters_done /\ proc'.fresh = proc.fresh
        /\ proc'.episodes_started = proc.episodes_started
    BY <2>1 DEF Running, Process
  <2>3. Running'
    BY <2>1, <2>2 DEF Running, Exact, Torn
  <2>4. QED
    BY <2>1, <2>3 DEF IInv
<1>4. CASE WriteCheckpoint
  <2>1. /\ ckpt' = Saved /\ proc' = Stopped /\ UNCHANGED log /\ Running
    BY <1>4 DEF WriteCheckpoint, IInv, Stopped
  <2>2. Saved.state = "saved" /\ Exact(Saved) /\ Tells(log, Saved.params)
    BY <2>1 DEF Saved, Running, Exact
  <2>3. ckpt'.state = "saved" /\ Exact(ckpt)' /\ Tells(log, ckpt'.params)
    BY <2>1, <2>2 DEF Exact
  <2>4. QED
    BY <2>1, <2>3 DEF IInv
<1>5. CASE Kill
  BY <1>5 DEF Kill, IInv, Exact
<1>6. CASE Rest \/ UNCHANGED train_vars
  <2>1. UNCHANGED <<ckpt, log, proc>>
    BY <1>6 DEF Rest, train_vars
  <2>2. QED
    BY <2>1 DEF IInv, Running, Exact
<1>7. QED
  BY <1>1, <1>2, <1>3, <1>4, <1>5, <1>6 DEF Next

-----------------------------------------------------------------------------
(* The theorems.                                                           *)

\* Every history, in memory and on disk, is exact and told by the log, however
\* often the process is killed and resumed (train, selfplay.py:109-199).
THEOREM HistoriesAreExact == Spec => []IInv
<1>1. QED
  BY InitIInv, StepIInv, PTL DEF Spec

LEMMA LineagesAreExact ==
  ASSUME IInv, NEW params \in Lineages
  PROVE  /\ params \in Seq(Entry)
         /\ \A k \in 1..Len(params) : params[k].iter = k /\ params[k].rng = k - 1
         /\ \A m, n \in 1..Len(params) : m # n => params[m].seeds \cap params[n].seeds = {}
<1>1. \/ proc # Stopped /\ params = proc.params
      \/ ckpt.state = "saved" /\ params = ckpt.params
  BY DEF Lineages
<1>2. ckpt.state = "saved" => Exact(ckpt)
  BY DEF IInv, NoCheckpoint, Torn
<1>3. QED
  BY <1>1, <1>2 DEF IInv, Running, Exact

\* No match that shaped the parameters has the seed of another one
\* (selfplay.py:118-119), for any number of environments and of processes.
THEOREM SeedsAreFresh == Spec => []NoSeedReused
<1>1. IInv => NoSeedReused
  BY LineagesAreExact DEF NoSeedReused
<1>2. QED
  BY <1>1, HistoriesAreExact, PTL

\* Parameters went through each iteration once, in order, and no random number
\* was drawn twice (selfplay.py:119-120).
THEOREM NothingIsRepeated == Spec => []IterationsOnce
<1>1. IInv => IterationsOnce
  <2>1. SUFFICES ASSUME IInv, NEW params \in Lineages, NEW k \in DOMAIN params
                 PROVE  /\ params[k].iter = k
                        /\ \A m \in DOMAIN params : params[m].rng = params[k].rng => m = k
    BY DEF IterationsOnce
  <2>2. DOMAIN params = 1..Len(params)
    BY <2>1, LineagesAreExact
  <2>3. \A m \in 1..Len(params) : params[m].iter = m /\ params[m].rng = m - 1
    BY <2>1, LineagesAreExact
  <2>4. ASSUME NEW m \in 1..Len(params), params[m].rng = params[k].rng
        PROVE  m = k
    <3>1. m - 1 = k - 1 /\ m \in Int /\ k \in Int
      BY <2>2, <2>3, <2>4
    <3>2. QED
      BY <3>1
  <2>5. QED
    BY <2>2, <2>3, <2>4
<1>2. QED
  BY <1>1, HistoriesAreExact, PTL

\* The last row of each iteration in the checkpoint is the one that made it, in
\* a log that also has the rows of what was lost (selfplay.py:169-192).
THEOREM LogIsTrue == Spec => []LogTellsCheckpoint
<1>1. IInv => LogTellsCheckpoint
  <2>1. SUFFICES ASSUME IInv, ckpt.state = "saved", NEW k \in DOMAIN ckpt.params
                 PROVE  LET last == SelectLastInSeq(log, LAMBDA row : row.iter = k)
                        IN  last # 0 /\ log[last] = ckpt.params[k]
    BY DEF LogTellsCheckpoint
  <2>2. Exact(ckpt) /\ Tells(log, ckpt.params) /\ log \in Seq(Entry)
    BY <2>1 DEF IInv, NoCheckpoint, Torn
  <2>3. k \in 1..Len(ckpt.params) /\ ckpt.params[k].iter = k
    BY <2>2 DEF Exact
  <2>4. PICK i \in 1..Len(log) :
          log[i] = ckpt.params[k] /\ \A j \in 1..Len(log) : log[j].iter = k => j <= i
    BY <2>2, <2>3 DEF Tells
  <2> DEFINE rows == {j \in 1..Len(log) : log[j].iter = k}
  <2>5. i \in rows /\ \A j \in rows : i >= j
    BY <2>3, <2>4
  <2>6. \A j \in rows : (\A l \in rows : j >= l) => j = i
    BY <2>5
  <2>7. Max(rows) = i
    BY <2>5, <2>6 DEF Max
  <2>8. SelectLastInSeq(log, LAMBDA row : row.iter = k) = i
    BY <2>5, <2>7 DEF SelectLastInSeq
  <2>9. QED
    BY <2>4, <2>8
<1>2. QED
  BY <1>1, HistoriesAreExact, PTL
=============================================================================
