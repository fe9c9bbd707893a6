----------------------------- MODULE EvalProofs -----------------------------
(***************************************************************************)
(* Proofs about the evaluation: the criterion, for any numbers of matches, *)
(* any results, any tolerances and any width of the confidence intervals,  *)
(* and the slices, for any number of seeds, slices, processes and          *)
(* checkpoints.                                                            *)
(***************************************************************************)
EXTENDS EvalSlices, SequenceTheorems, TLAPS

LEMMA ResultIs ==
  ASSUME NEW s \in Result
  PROVE  /\ s.win \in Nat /\ s.draw \in Nat /\ s.loss \in Nat
         /\ Shares(s) \in Nat /\ Points(s) \in Nat
         /\ flipped(s) \in Result /\ flipped(flipped(s)) = s /\ Shares(flipped(s)) = Shares(s)
  BY DEF Result, Shares, Points, flipped

\* Cauchy and Schwarz: variances are not negative.
LEMMA SpreadIsNat ==
  ASSUME NEW s \in Result
  PROVE  Spread(s) \in Nat
<1>1. s.win \in Nat /\ s.draw \in Nat /\ s.loss \in Nat
  BY DEF Result
<1>2. PICK w \in Nat, d \in Nat, l \in Nat : w = s.win /\ d = s.draw /\ l = s.loss
  BY <1>1
<1>3. (w + d + l) * (4 * w + d) - (2 * w + d) * (2 * w + d) = w * d + 4 * (w * l) + d * l
  OBVIOUS
<1>4. w * d \in Nat /\ w * l \in Nat /\ d * l \in Nat
  OBVIOUS
<1>5. w * d + 4 * (w * l) + d * l \in Nat
  BY <1>4
<1>6. Spread(s) = (w + d + l) * (4 * w + d) - (2 * w + d) * (2 * w + d)
  BY <1>2 DEF Spread, Shares, Points
<1>7. QED
  BY <1>3, <1>5, <1>6

\* The scores of slot 1's policies are turned around and back again.
LEMMA ViewIsOwn ==
  ASSUME NEW own, NEW m \in DOMAIN own, own[m] \in Result
  PROVE  /\ view(ScoresOf(own), m) = own[m]
         /\ m \notin InverseView => ScoresOf(own)[m] = own[m]
<1>1. ScoresOf(own)[m] = IF m \in InverseView THEN flipped(own[m]) ELSE own[m]
  BY DEF ScoresOf, InverseView, flipped
<1>2. flipped(flipped(own[m])) = own[m]
  BY ResultIs
<1>3. QED
  BY <1>1, <1>2 DEF view

Seven(base, slot0, slot1, idle0, idle0_base, idle1, idle1_base) ==
  [base |-> base, slot0 |-> slot0, slot1 |-> slot1, idle0 |-> idle0,
   idle0_base |-> idle0_base, idle1 |-> idle1, idle1_base |-> idle1_base]

\* The verdict in terms of what the policies made of their own slots.
Decision(base, slot0, slot1, idle0, idle0_base, idle1, idle1_base, illegal) ==
  LET base1 == flipped(base)
      idle_ok == /\ mean_lb_at_least(n_idle, idle0, idle_lb_min)
                 /\ lb_above(n_idle, idle0, idle0_base, -regress_tol)
                 /\ lb_above(n_idle, idle1, idle1_base, -regress_tol)
      no_regress == /\ lb_above(n_eval, slot0, base, -regress_tol)
                    /\ lb_above(n_eval, slot1, base1, -regress_tol)
      strict_improve == \/ lb_above(n_eval, slot0, base, 0)
                        \/ lb_above(n_eval, slot1, base1, 0)
      contains_zero == /\ delta_has_zero(n_eval, slot0, base)
                       /\ delta_has_zero(n_eval, slot1, base1)
  IN  IF illegal > 0 \/ ~idle_ok THEN "FAIL"
      ELSE IF no_regress /\ strict_improve THEN "PASS"
      ELSE IF contains_zero THEN "MATCH" ELSE "FAIL"

LEMMA VerdictIs ==
  ASSUME NEW base, NEW slot0, NEW slot1, NEW idle0, NEW idle0_base, NEW idle1, NEW idle1_base,
         NEW illegal \in Nat,
         {base, slot0, slot1, idle0, idle0_base, idle1, idle1_base} \subseteq Result
  PROVE  verdict_of(ScoresOf(Seven(base, slot0, slot1, idle0, idle0_base, idle1, idle1_base)), illegal)
           = Decision(base, slot0, slot1, idle0, idle0_base, idle1, idle1_base, illegal)
<1> DEFINE own == Seven(base, slot0, slot1, idle0, idle0_base, idle1, idle1_base)
<1>1. /\ own["base"] = base /\ own["slot0"] = slot0 /\ own["slot1"] = slot1
      /\ own["idle0"] = idle0 /\ own["idle0_base"] = idle0_base
      /\ own["idle1"] = idle1 /\ own["idle1_base"] = idle1_base
      /\ DOMAIN own = {"base", "slot0", "slot1", "idle0", "idle0_base", "idle1", "idle1_base"}
  BY DEF Seven
<1> HIDE DEF own
<1>2. /\ view(ScoresOf(own), "slot0") = slot0 /\ view(ScoresOf(own), "slot1") = slot1
      /\ view(ScoresOf(own), "idle0") = idle0 /\ view(ScoresOf(own), "idle0_base") = idle0_base
      /\ view(ScoresOf(own), "idle1") = idle1 /\ view(ScoresOf(own), "idle1_base") = idle1_base
  BY <1>1, ViewIsOwn
<1>3. ScoresOf(own)["base"] = base
  <2>1. "base" \notin InverseView
    BY DEF InverseView
  <2>2. QED
    BY <1>1, <2>1, ViewIsOwn
<1> DEFINE scores == ScoresOf(own)
<1>4. verdict_of(scores, illegal)
        = Decision(base, slot0, slot1, idle0, idle0_base, idle1, idle1_base, illegal)
  <2> HIDE DEF scores
  <2>1. /\ view(scores, "slot0") = slot0 /\ view(scores, "slot1") = slot1
        /\ view(scores, "idle0") = idle0 /\ view(scores, "idle0_base") = idle0_base
        /\ view(scores, "idle1") = idle1 /\ view(scores, "idle1_base") = idle1_base
        /\ scores["base"] = base
    BY <1>2, <1>3 DEF scores
  <2>2. QED
    BY <2>1 DEF verdict_of, Decision
<1>5. QED
  BY <1>4 DEF own

-----------------------------------------------------------------------------
(* What a bound of a confidence interval says of the means.                 *)

\* A lower bound above minus the tolerance: no worse by more than it.  A lower
\* bound above zero: better.
LEMMA BoundSpeaksOfMeans ==
  ASSUME NEW n, NEW a \in Result, NEW b \in Result
  PROVE  /\ lb_above(n, a, b, -regress_tol) => ~Regresses(a, b)
         /\ lb_above(n, a, b, 0) => Points(a) > Points(b)
<1>1. Points(a) \in Nat /\ Points(b) \in Nat /\ Shares(a) \in Nat /\ regress_tol \in Nat
  BY ResultIs, VerdictAssumption
<1>2. PICK p \in Nat, q \in Nat, s \in Nat, t \in Nat :
        p = Points(a) /\ q = Points(b) /\ s = Shares(a) /\ t = regress_tol
  BY <1>1
<1>3. ASSUME lb_above(n, a, b, -regress_tol)  PROVE  ~Regresses(a, b)
  <2>1. 200 * (50 * (p - q) - 2 * s * (-t)) > s
    BY <1>2, <1>3 DEF lb_above, Beyond
  <2>2. 2 * s * (-t) = -(2 * s * t) /\ 2 * s * t \in Int
    OBVIOUS
  <2>3. ~(50 * (q - p) > 2 * s * t)
    BY <2>1, <2>2
  <2>4. QED
    BY <1>2, <2>3 DEF Regresses
<1>4. ASSUME lb_above(n, a, b, 0)  PROVE  Points(a) > Points(b)
  <2>1. 200 * (50 * (p - q) - 2 * s * 0) > s
    BY <1>2, <1>4 DEF lb_above, Beyond
  <2>2. 2 * s * 0 = 0
    OBVIOUS
  <2>3. QED
    BY <1>2, <2>1, <2>2
<1>5. QED
  BY <1>3, <1>4

\* A mean whose lower bound reaches the absolute bar reaches it itself.
LEMMA MeanReaches ==
  ASSUME NEW n, NEW a, mean_lb_at_least(n, a, idle_lb_min)
  PROVE  Decided(a)
BY DEF mean_lb_at_least, Reaches, Decided

\* Against itself a policy is neither better nor worse, and it is within the
\* tolerance exactly if half the width of the interval is.
LEMMA AgainstItself ==
  ASSUME NEW n, NEW a \in Result
  PROVE  /\ ~lb_above(n, a, a, 0) /\ delta_has_zero(n, a, a)
         /\ lb_above(n_idle, a, a, -regress_tol) <=> Tight(a)
<1>1. Points(a) \in Nat /\ Shares(a) \in Nat /\ regress_tol \in Nat /\ n_idle \in Nat /\ z \in Nat
  BY ResultIs, VerdictAssumption
<1>2. ~lb_above(n, a, a, 0)
  BY <1>1, BoundSpeaksOfMeans
<1>3. PICK p \in Nat, s \in Nat, t \in Nat, v \in Nat :
        p = Points(a) /\ s = Shares(a) /\ t = regress_tol /\ v = Spread(a)
  BY <1>1, SpreadIsNat
<1>4. PICK x \in Nat : x = 2 * s * t
  OBVIOUS
<1>5. 50 * (p - p) - 2 * s * (-t) = x
  BY <1>4
<1>6. v + v = 2 * v
  OBVIOUS
<1>7. lb_above(n_idle, a, a, -regress_tol) <=> Beyond(x, s, 2 * v, n_idle)
  BY <1>3, <1>5, <1>6 DEF lb_above
<1>8. Tight(a) <=> Beyond(x, s, 2 * v, n_idle)
  BY <1>3, <1>4 DEF Tight
<1>9. QED
  BY <1>2, <1>7, <1>8 DEF delta_has_zero

-----------------------------------------------------------------------------
(* The criterion.                                                          *)

LEMMA PassingIsNoWorse ==
  ASSUME NEW base \in Result, NEW slot0 \in Result, NEW slot1 \in Result, NEW idle0 \in Result,
         NEW idle0_base \in Result, NEW idle1 \in Result, NEW idle1_base \in Result
  PROVE  PassIsNoWorse(Seven(base, slot0, slot1, idle0, idle0_base, idle1, idle1_base))
<1> DEFINE own == Seven(base, slot0, slot1, idle0, idle0_base, idle1, idle1_base)
<1>1. /\ own["base"] = base /\ own["slot0"] = slot0 /\ own["slot1"] = slot1
      /\ own["idle0"] = idle0 /\ own["idle0_base"] = idle0_base
      /\ own["idle1"] = idle1 /\ own["idle1_base"] = idle1_base
  BY DEF Seven
<1> DEFINE decided(illegal) ==
             Decision(base, slot0, slot1, idle0, idle0_base, idle1, idle1_base, illegal)
<1>1a. verdict_of(ScoresOf(own), 0) = decided(0) /\ verdict_of(ScoresOf(own), 1) = decided(1)
  BY VerdictIs
<1>2. verdict_of(ScoresOf(own), 1) # "PASS"
  BY <1>1a DEF Decision
<1>3. ASSUME verdict_of(ScoresOf(own), 0) = "PASS"
      PROVE  /\ ~Regresses(slot0, base) /\ ~Regresses(slot1, flipped(base))
             /\ ~Regresses(idle0, idle0_base) /\ ~Regresses(idle1, idle1_base)
             /\ Decided(idle0)
             /\ Points(slot0) > Points(base) \/ Points(slot1) > Points(flipped(base))
  <2>1. /\ mean_lb_at_least(n_idle, idle0, idle_lb_min)
        /\ lb_above(n_idle, idle0, idle0_base, -regress_tol)
        /\ lb_above(n_idle, idle1, idle1_base, -regress_tol)
        /\ lb_above(n_eval, slot0, base, -regress_tol)
        /\ lb_above(n_eval, slot1, flipped(base), -regress_tol)
        /\ \/ lb_above(n_eval, slot0, base, 0)
           \/ lb_above(n_eval, slot1, flipped(base), 0)
    BY <1>3, <1>1a DEF Decision
  <2>2. flipped(base) \in Result
    BY ResultIs
  <2>3. Decided(idle0)
    BY <2>1, MeanReaches
  <2>4. ~Regresses(idle0, idle0_base) /\ ~Regresses(idle1, idle1_base)
    BY <2>1, BoundSpeaksOfMeans
  <2>5. ~Regresses(slot0, base) /\ ~Regresses(slot1, flipped(base))
    BY <2>1, <2>2, BoundSpeaksOfMeans
  <2>6. Points(slot0) > Points(base) \/ Points(slot1) > Points(flipped(base))
    BY <2>1, <2>2, BoundSpeaksOfMeans
  <2>7. QED
    BY <2>3, <2>4, <2>5, <2>6
<1> HIDE DEF own
<1>4. PassIsNoWorse(own)
  BY <1>1, <1>2, <1>3 DEF PassIsNoWorse
<1>5. QED
  BY <1>4 DEF own

LEMMA ScriptedMatches ==
  ASSUME NEW base \in Result, NEW idle0 \in Result, NEW idle1 \in Result
  PROVE  ReferenceMatches(base, idle0, idle1)
<1>1. flipped(base) \in Result
  BY ResultIs
<1>2. AsScripted(base, idle0, idle1)
        = Seven(base, base, flipped(base), idle0, idle0, idle1, idle1)
  BY DEF AsScripted, Seven
<1>3. /\ ~lb_above(n_eval, base, base, 0) /\ delta_has_zero(n_eval, base, base)
      /\ ~lb_above(n_eval, flipped(base), flipped(base), 0)
      /\ delta_has_zero(n_eval, flipped(base), flipped(base))
      /\ lb_above(n_idle, idle0, idle0, -regress_tol) <=> Tight(idle0)
      /\ lb_above(n_idle, idle1, idle1, -regress_tol) <=> Tight(idle1)
  BY <1>1, AgainstItself
<1> DEFINE ok == mean_lb_at_least(n_idle, idle0, idle_lb_min) /\ Tight(idle0) /\ Tight(idle1)
<1>4. verdict_of(ScoresOf(Seven(base, base, flipped(base), idle0, idle0, idle1, idle1)), 0)
        = IF ok THEN "MATCH" ELSE "FAIL"
  BY <1>1, <1>3, VerdictIs DEF Decision
<1>5. QED
  BY <1>2, <1>4 DEF ReferenceMatches

\* The verdict speaks of the policy that was tested, for any numbers of matches,
\* results, tolerances and width of the intervals: what passes is in no slot
\* worse than the scripted policy by more than the tolerance and better in one,
\* and whatever plays like the scripted policy matches where the widths allow it
\* (build_report of src/python/train/evaluate.py, config.py:20-40).
THEOREM CriterionSpeaksOfPolicy == Spec => []CriterionSound
<1>1. VerdictSpeaksOfPolicy
  <2>1. Duels \subseteq Result /\ IdleGames \subseteq Result
    BY VerdictAssumption
  <2>2. \A base, slot0, slot1 \in Duels, idle0, idle0_base, idle1, idle1_base \in IdleGames :
          PassIsNoWorse(Seven(base, slot0, slot1, idle0, idle0_base, idle1, idle1_base))
    BY <2>1, PassingIsNoWorse
  <2>3. \A base \in Duels, idle0, idle1 \in IdleGames : ReferenceMatches(base, idle0, idle1)
    BY <2>1, ScriptedMatches
  <2>4. QED
    BY <2>2, <2>3 DEF VerdictSpeaksOfPolicy, Seven
<1>2. CriterionSound
  BY <1>1 DEF CriterionSound
<1>3. QED
  BY <1>2, PTL

-----------------------------------------------------------------------------
(* The slices.  A file that loads holds the scores its name says; a row was *)
(* appended after its file was saved; what was read so far covers the seeds *)
(* from 0 on in order.                                                      *)

\* top is the newest policy so far, files are the names on disk.

\* The scores of a seed range, by some policy that was in the checkpoint file.
SomePolicys(top, scores, matchup, start, count) ==
  \E policy \in 0..top : scores = played(matchup, policy, start, count)

FilesAreNamed ==
  \A f \in DOMAIN disk :
    /\ f.start \in Nat /\ f.count \in Nat \ {0}
    /\ disk[f] = Torn \/ SomePolicys(checkpoint, disk[f], f.matchup, f.start, f.count)

\* The row of a slice is newer than its file.
Backed(top, files, known) ==
  \A m, start : <<m, start>> \in DOMAIN known =>
    \E count \in Nat :
      File(m, start, count) \in files /\ SomePolicys(top, known[<<m, start>>], m, start, count)

Running ==
  [pc: {"playing", "saving", "saved"}, policy: Nat, matchup: Matchups, start: Nat,
   count: Nat \ {0}]

SlicesAreSane ==
  /\ DOMAIN proc = Process
  /\ \A p \in Process : proc[p] # Idle =>
       /\ proc[p] \in Running /\ proc[p].policy <= checkpoint
       /\ proc[p].pc = "saved" => Name(p) \in DOMAIN disk

\* The matches of the seeds from 0 on, in order, each by some policy.
Covers(top, part, matchup) ==
  /\ part \in Seq(Int \X Int)
  /\ \A k \in 1..Len(part) :
       \E policy \in 0..top : part[k] = <<player(matchup, policy), k - 1>>

IsSum(sum) == sum = [scores |-> sum.scores, stats |-> sum.stats]

AllWhole(top, parts) ==
  \A m \in DOMAIN parts :
    /\ IsSum(parts[m])
    /\ Covers(top, parts[m].scores, m) /\ Len(parts[m].scores) = N
    /\ Covers(top, parts[m].stats, m) /\ Len(parts[m].stats) = N

\* A file is left that starts before the seeds that were read end: the loop fails.
Doomed(left, sum) == \E g \in left : g.start < Len(sum.scores)

\* While the files of matchup m are read: the scores cover the seeds, and so do
\* the rows, or the loop will fail; a file with a known row is still to be read
\* or its start was passed.
ReadingIsSane(top, files, m, known, left, sum) ==
  /\ m \in Matchups
  /\ left \subseteq files /\ \A f \in left : f.matchup = m /\ f.start \in Nat
  /\ IsSum(sum)
  /\ Covers(top, sum.scores, m)
  /\ \/ Covers(top, sum.stats, m) /\ Len(sum.stats) = Len(sum.scores)
     \/ Doomed(left, sum)
  /\ \A start : <<m, start>> \in DOMAIN known =>
       \E count \in Nat :
         /\ SomePolicys(top, known[<<m, start>>], m, start, count)
         /\ File(m, start, count) \in left \/ (start \in Nat /\ start < Len(sum.scores))

AdderIsSane(top, files, a) ==
  /\ a.pc \in {"idle", "adding", "reading"}
  /\ a.pc # "idle" =>
       /\ a.policy \in 0..top
       /\ Backed(top, files, a.rows)
       /\ DOMAIN a.parts \subseteq Matchups
       /\ AllWhole(top, a.parts)
  /\ a.pc = "reading" =>
       /\ DOMAIN a = {"pc", "policy", "rows", "parts", "sum", "matchup", "left"}
       /\ ReadingIsSane(top, files, a.matchup, a.rows, a.left, a.sum)

ReportIsSane(top, r) ==
  r # NoReport =>
    r.policy \in 0..top /\ DOMAIN r.parts = Matchups /\ AllWhole(top, r.parts)

SliceInv ==
  /\ checkpoint \in Nat
  /\ FilesAreNamed
  /\ Backed(checkpoint, DOMAIN disk, rows)
  /\ SlicesAreSane
  /\ AdderIsSane(checkpoint, DOMAIN disk, adder)
  /\ ReportIsSane(checkpoint, report)

\* What holds of the adder and of the report still holds when training or a
\* slice goes on.
LEMMA Grows ==
  ASSUME NEW top \in Nat, NEW more \in Nat, top <= more, NEW files, NEW all, files \subseteq all
  PROVE  /\ \A scores, m, s, c :
              SomePolicys(top, scores, m, s, c) => SomePolicys(more, scores, m, s, c)
         /\ \A known : Backed(top, files, known) => Backed(more, all, known)
         /\ \A parts : AllWhole(top, parts) => AllWhole(more, parts)
         /\ \A a : AdderIsSane(top, files, a) => AdderIsSane(more, all, a)
         /\ \A r : ReportIsSane(top, r) => ReportIsSane(more, r)
<1>1. 0..top \subseteq 0..more
  OBVIOUS
<1>2. ASSUME NEW scores, NEW m, NEW s, NEW c, SomePolicys(top, scores, m, s, c)
      PROVE  SomePolicys(more, scores, m, s, c)
  BY <1>1, <1>2 DEF SomePolicys
<1>3. ASSUME NEW known, Backed(top, files, known)  PROVE  Backed(more, all, known)
  BY <1>2, <1>3 DEF Backed
<1>4. ASSUME NEW part, NEW m, Covers(top, part, m)  PROVE  Covers(more, part, m)
  BY <1>1, <1>4 DEF Covers
<1>5. ASSUME NEW parts, AllWhole(top, parts)  PROVE  AllWhole(more, parts)
  BY <1>4, <1>5 DEF AllWhole
<1>6. ASSUME NEW m, NEW known, NEW left, NEW sum, ReadingIsSane(top, files, m, known, left, sum)
      PROVE  ReadingIsSane(more, all, m, known, left, sum)
  <2>1. left \subseteq all /\ Covers(more, sum.scores, m)
    BY <1>4, <1>6 DEF ReadingIsSane
  <2>2. \A start : <<m, start>> \in DOMAIN known =>
          \E count \in Nat :
            /\ SomePolicys(more, known[<<m, start>>], m, start, count)
            /\ File(m, start, count) \in left \/ (start \in Nat /\ start < Len(sum.scores))
    BY <1>2, <1>6 DEF ReadingIsSane
  <2>3. \/ Covers(more, sum.stats, m) /\ Len(sum.stats) = Len(sum.scores)
        \/ Doomed(left, sum)
    BY <1>4, <1>6 DEF ReadingIsSane
  <2>4. QED
    BY <1>6, <2>1, <2>2, <2>3 DEF ReadingIsSane
<1>7. ASSUME NEW a, AdderIsSane(top, files, a)  PROVE  AdderIsSane(more, all, a)
  BY <1>1, <1>3, <1>5, <1>6, <1>7 DEF AdderIsSane
<1>8. ASSUME NEW r, ReportIsSane(top, r)  PROVE  ReportIsSane(more, r)
  BY <1>1, <1>5, <1>8 DEF ReportIsSane
<1>9. QED
  BY <1>2, <1>3, <1>5, <1>7, <1>8

\* The matches of a seed range that follows on those that were read.
LEMMA Follows ==
  ASSUME NEW top \in Nat, NEW m
  PROVE  \A part, count, scores :
           Covers(top, part, m) /\ count \in Nat /\ SomePolicys(top, scores, m, Len(part), count) =>
           Covers(top, part \o scores, m) /\ Len(part \o scores) = Len(part) + count
<1> SUFFICES ASSUME NEW part, NEW count \in Nat, NEW scores, Covers(top, part, m),
                    SomePolicys(top, scores, m, Len(part), count)
             PROVE  Covers(top, part \o scores, m) /\ Len(part \o scores) = Len(part) + count
  OBVIOUS
<1>1. PICK policy \in 0..top : scores = played(m, policy, Len(part), count)
  BY DEF SomePolicys
<1>2. part \in Seq(Int \X Int) /\ Len(part) \in Nat
  BY LenProperties DEF Covers
<1>3. PICK base \in Nat : base = Len(part)
  BY <1>2
<1>4. player(m, policy) \in Int
  BY <1>1 DEF player, Scripted
<1>5. /\ scores \in Seq(Int \X Int) /\ Len(scores) = count
      /\ \A k \in 1..count : scores[k] = <<player(m, policy), base + k - 1>>
  <2>1. scores = [k \in 1..count |-> <<player(m, policy), base + k - 1>>]
    BY <1>1, <1>3 DEF played
  <2>2. scores \in [1..count -> Int \X Int]
    BY <1>4, <2>1
  <2>3. scores \in Seq(Int \X Int) /\ Len(scores) = count
    <3>1. scores \in Seq(Int \X Int)
      BY <2>2, SeqDef
    <3>2. DOMAIN scores = 1..count /\ DOMAIN scores = 1..Len(scores) /\ Len(scores) \in Nat
      BY <2>2, <3>1, LenProperties
    <3>3. QED
      BY <3>1, <3>2
  <2>4. QED
    BY <2>1, <2>3
<1>6. /\ part \o scores \in Seq(Int \X Int)
      /\ Len(part \o scores) = Len(part) + Len(scores)
      /\ \A k \in 1..(Len(part) + Len(scores)) :
           (part \o scores)[k] = IF k <= Len(part) THEN part[k] ELSE scores[k - Len(part)]
  BY <1>2, <1>5, ConcatProperties
<1>7. ASSUME NEW k \in 1..(base + count)
      PROVE  \E p \in 0..top : (part \o scores)[k] = <<player(m, p), k - 1>>
  <2>1. CASE k <= base
    <3>1. k \in 1..Len(part) /\ (part \o scores)[k] = part[k]
      BY <1>3, <1>5, <1>6, <2>1
    <3>2. QED
      BY <3>1 DEF Covers
  <2>2. CASE k > base
    <3>1. k - base \in 1..count /\ (part \o scores)[k] = scores[k - base]
      BY <1>3, <1>5, <1>6, <2>2
    <3>2. scores[k - base] = <<player(m, policy), base + (k - base) - 1>>
      BY <1>5, <3>1
    <3>3. base + (k - base) - 1 = k - 1
      OBVIOUS
    <3>4. QED
      BY <3>1, <3>2, <3>3
  <2>3. k <= base \/ k > base
    BY <1>3
  <2>4. QED
    BY <2>1, <2>2, <2>3, Zenon
<1>8. QED
  BY <1>3, <1>5, <1>6, <1>7 DEF Covers

\* One turn of the loop over the files either raises, or leaves what was read
\* covering the seeds.  A row that is of another slice with the same start than
\* the file is dooms the loop: the other slice's file is still to be read.
LEMMA ReadingContinues ==
  ASSUME NEW top \in Nat, NEW files, NEW m, NEW known, NEW left, NEW sum, NEW f \in left,
         ReadingIsSane(top, files, m, known, left, sum),
         f.start \in Nat, f.count \in Nat \ {0},
         disk[f] = Torn \/ SomePolicys(top, disk[f], f.matchup, f.start, f.count),
         AddPart(known, sum, f) # Failed
  PROVE  ReadingIsSane(top, files, m, known, left \ {f}, AddPart(known, sum, f))
<1>0. \A part, count, scores :
        Covers(top, part, m) /\ count \in Nat /\ SomePolicys(top, scores, m, Len(part), count) =>
        Covers(top, part \o scores, m) /\ Len(part \o scores) = Len(part) + count
  BY Follows
<1>1. PICK next : next = AddPart(known, sum, f)
  OBVIOUS
<1>2. /\ f.start = Len(sum.scores) /\ disk[f] # Torn
      /\ <<f.matchup, f.start>> \in DOMAIN known
      /\ next = [scores |-> sum.scores \o disk[f],
                 stats |-> sum.stats \o known[<<f.matchup, f.start>>]]
  BY <1>1 DEF AddPart
<1>3. f.matchup = m /\ Covers(top, sum.scores, m)
  BY DEF ReadingIsSane
<1>4. /\ next.scores = sum.scores \o disk[f]
      /\ next.stats = sum.stats \o known[<<m, f.start>>]
      /\ IsSum(next)
  BY <1>2, <1>3 DEF IsSum
<1>5. Covers(top, next.scores, m) /\ Len(next.scores) = f.start + f.count
  <2>1. SomePolicys(top, disk[f], m, Len(sum.scores), f.count)
    BY <1>2, <1>3
  <2>2. f.count \in Nat
    OBVIOUS
  <2>3. /\ Covers(top, sum.scores \o disk[f], m)
        /\ Len(sum.scores \o disk[f]) = Len(sum.scores) + f.count
    BY <1>0, <1>3, <2>1, <2>2
  <2>4. QED
    BY <1>2, <1>4, <2>3
<1>5a. PICK at \in Nat, more \in Nat \ {0} :
         at = f.start /\ at = Len(sum.scores) /\ more = f.count /\ Len(next.scores) = at + more
  BY <1>2, <1>5
<1>6. PICK count \in Nat :
        /\ SomePolicys(top, known[<<m, f.start>>], m, f.start, count)
        /\ File(m, f.start, count) \in left \/ f.start < Len(sum.scores)
  BY <1>2, <1>3 DEF ReadingIsSane
<1>7. File(m, f.start, count) \in left
  BY <1>2, <1>6
<1>8. \/ Covers(top, next.stats, m) /\ Len(next.stats) = Len(next.scores)
      \/ Doomed(left \ {f}, next)
  <2>1. CASE Doomed(left, sum)
    <3>1. PICK g \in left : g.start < Len(sum.scores)
      BY <2>1 DEF Doomed
    <3>2. g \in left \ {f} /\ g.start < Len(next.scores)
      <4>1. g # f
        BY <1>2, <3>1
      <4>2. g.start \in Nat
        BY <3>1 DEF ReadingIsSane
      <4>3. QED
        BY <1>5a, <3>1, <4>1, <4>2
    <3>3. QED
      BY <3>2 DEF Doomed
  <2>2. CASE count = f.count /\ ~Doomed(left, sum)
    <3>1. Covers(top, sum.stats, m) /\ Len(sum.stats) = Len(sum.scores)
      BY <2>2 DEF ReadingIsSane
    <3>2. SomePolicys(top, known[<<m, f.start>>], m, Len(sum.stats), f.count)
      BY <1>2, <1>6, <2>2, <3>1
    <3>3. Covers(top, next.stats, m) /\ Len(next.stats) = Len(sum.stats) + f.count
      <4>1. f.count \in Nat
        OBVIOUS
      <4>2. /\ Covers(top, sum.stats \o known[<<m, f.start>>], m)
            /\ Len(sum.stats \o known[<<m, f.start>>]) = Len(sum.stats) + f.count
        BY <1>0, <3>1, <3>2, <4>1
      <4>3. QED
        BY <1>4, <4>2
    <3>4. QED
      BY <1>2, <1>5, <3>1, <3>3
  <2>3. CASE count # f.count
    <3>1. File(m, f.start, count).count = count /\ File(m, f.start, count).start = f.start
      BY DEF File
    <3>2. File(m, f.start, count) \in left \ {f}
      BY <1>7, <2>3, <3>1
    <3>3. f.start < Len(next.scores)
      BY <1>5
    <3>4. QED
      BY <3>1, <3>2, <3>3 DEF Doomed
  <2>4. QED
    BY <2>1, <2>2, <2>3
<1>9. ASSUME NEW start, <<m, start>> \in DOMAIN known
      PROVE  \E c \in Nat :
               /\ SomePolicys(top, known[<<m, start>>], m, start, c)
               /\ File(m, start, c) \in left \ {f} \/ (start \in Nat /\ start < Len(next.scores))
  <2>1. PICK c \in Nat :
          /\ SomePolicys(top, known[<<m, start>>], m, start, c)
          /\ File(m, start, c) \in left \/ (start \in Nat /\ start < Len(sum.scores))
    BY <1>9 DEF ReadingIsSane
  <2>2. CASE File(m, start, c) = f /\ ~(start \in Nat /\ start < Len(sum.scores))
    <3>1. f.start = start
      BY <2>2 DEF File
    <3>2. start = at /\ Len(next.scores) = at + more
      BY <1>5a, <3>1
    <3>3. start \in Nat /\ start < Len(next.scores)
      BY <3>2
    <3>4. QED
      BY <2>1, <3>3
  <2>3. CASE start \in Nat /\ start < Len(sum.scores)
    <3>1. start \in Nat /\ start < Len(next.scores)
      BY <1>5a, <2>3
    <3>2. QED
      BY <2>1, <3>1
  <2>4. QED
    BY <2>1, <2>2, <2>3
<1>10. QED
  <2>1. /\ m \in Matchups /\ left \ {f} \subseteq files
        /\ \A g \in left \ {f} : g.matchup = m /\ g.start \in Nat
    BY DEF ReadingIsSane
  <2>2. ReadingIsSane(top, files, m, known, left \ {f}, next)
    BY <1>4, <1>5, <1>8, <1>9, <2>1 DEF ReadingIsSane
  <2>3. QED
    BY <1>1, <2>2

LEMMA PutIs ==
  ASSUME NEW f, NEW key, NEW value
  PROVE  /\ DOMAIN Put(f, key, value) = DOMAIN f \cup {key}
         /\ Put(f, key, value)[key] = value
         /\ \A k \in DOMAIN f : k # key => Put(f, key, value)[k] = f[k]
  BY DEF Put

LEMMA SliceInit == Init => SliceInv
<1> SUFFICES ASSUME Init  PROVE  SliceInv
  OBVIOUS
<1>1. DOMAIN disk = {} /\ DOMAIN rows = {}
  BY DEF Init
<1>2. checkpoint = 0 /\ FilesAreNamed /\ Backed(checkpoint, DOMAIN disk, rows)
  BY <1>1 DEF Init, FilesAreNamed, Backed
<1>3. SlicesAreSane
  BY DEF Init, SlicesAreSane
<1>4. adder.pc = "idle"
  BY DEF Init, Idle
<1>5. AdderIsSane(checkpoint, DOMAIN disk, adder)
  BY <1>4 DEF AdderIsSane
<1>6. ReportIsSane(checkpoint, report)
  BY DEF Init, ReportIsSane
<1>7. QED
  BY <1>2, <1>3, <1>5, <1>6 DEF SliceInv

LEMMA ClippedIsPositive ==
  ASSUME NEW s \in Specs
  PROVE  s.start \in Nat /\ clipped(s) \in Nat \ {0} /\ s.start + clipped(s) <= N
<1>1. PICK left \in Nat \ {0}, count \in Nat \ {0} : left = N - s.start /\ count = s.count
  BY EvalAssumption
<1>2. s.start \in Nat
  BY EvalAssumption
<1>3. \E x \in {count, left} : \A y \in {count, left} : x <= y
  <2>1. CASE count <= left
    BY <2>1
  <2>2. CASE left <= count
    BY <2>2
  <2>3. QED
    BY <2>1, <2>2
<1>4. Min({count, left}) \in {count, left} /\ Min({count, left}) <= left
  BY <1>3 DEF Min
<1>5. clipped(s) \in Nat \ {0} /\ clipped(s) <= left
  BY <1>1, <1>4 DEF clipped
<1>6. N \in Nat
  BY EvalAssumption
<1>7. QED
  BY <1>1, <1>2, <1>5, <1>6

\* A slice begins, with the policy that is in the checkpoint file.
LEMMA SliceBegins ==
  ASSUME SliceInv, NEW p \in Process, NEW m \in Matchups, NEW s \in Specs, StartSlice(p, m, s)
  PROVE  SliceInv'
<1>1. UNCHANGED <<checkpoint, disk, rows, adder, report>>
  BY DEF StartSlice
<1>2. PICK q : q = [pc |-> "playing", policy |-> checkpoint, matchup |-> m, start |-> s.start,
                    count |-> clipped(s)]
  OBVIOUS
<1>3. q \in Running /\ q.policy <= checkpoint /\ q.pc # "saved"
  BY <1>2, ClippedIsPositive DEF SliceInv, Running
<1>4. proc' = [proc EXCEPT ![p] = q]
  BY <1>2 DEF StartSlice
<1>5. SlicesAreSane'
  BY <1>1, <1>3, <1>4 DEF SliceInv, SlicesAreSane, Name
<1>6. QED
  BY <1>1, <1>5 DEF SliceInv, FilesAreNamed

\* It opens its file, or writes its scores into it.
LEMMA SliceSaves ==
  ASSUME SliceInv, NEW p \in Process, OpenScores(p) \/ WriteScores(p)
  PROVE  SliceInv'
<1>1. checkpoint' = checkpoint /\ rows' = rows /\ adder' = adder /\ report' = report
  BY DEF OpenScores, WriteScores
<1>2. PICK q : q = proc[p]
  OBVIOUS
<1>3. q \in Running /\ q.policy <= checkpoint
  BY <1>2 DEF OpenScores, WriteScores, SliceInv, SlicesAreSane, Idle
<1>4. PICK file : file = Name(p)
  OBVIOUS
<1>5. /\ file.matchup = q.matchup /\ file.start = q.start /\ file.count = q.count
      /\ file.start \in Nat /\ file.count \in Nat \ {0}
  BY <1>2, <1>3, <1>4 DEF Name, File, Running
<1>6. PICK scores, pc :
        /\ pc \in {"saving", "saved"}
        /\ disk' = Put(disk, file, scores)
        /\ scores = Torn \/ SomePolicys(checkpoint, scores, file.matchup, file.start, file.count)
        /\ proc' = [proc EXCEPT ![p].pc = pc]
  <2>1. CASE OpenScores(p)
    BY <1>4, <2>1 DEF OpenScores, Goes
  <2>2. CASE WriteScores(p)
    <3>1. Scores(p) = played(file.matchup, q.policy, file.start, file.count)
      BY <1>2, <1>5 DEF Scores
    <3>2. q.policy \in 0..checkpoint
      BY <1>3 DEF Running, SliceInv
    <3>3. SomePolicys(checkpoint, Scores(p), file.matchup, file.start, file.count)
      BY <3>1, <3>2 DEF SomePolicys
    <3>4. QED
      BY <1>4, <2>2, <3>3 DEF WriteScores, Goes
  <2>3. QED
    BY <2>1, <2>2
<1>7. DOMAIN disk' = DOMAIN disk \cup {file}
  BY <1>6, PutIs
<1>8. FilesAreNamed'
  <2>1. disk'[file] = scores /\ \A f \in DOMAIN disk : f # file => disk'[f] = disk[f]
    BY <1>6 DEF Put
  <2>2. QED
    BY <1>1, <1>5, <1>6, <1>7, <2>1 DEF FilesAreNamed, SliceInv
<1>9. SlicesAreSane'
  <2>1. PICK r : r = [q EXCEPT !.pc = pc]
    OBVIOUS
  <2>2. /\ r \in Running /\ r.policy = q.policy
        /\ r.matchup = q.matchup /\ r.start = q.start /\ r.count = q.count
    BY <1>3, <1>6, <2>1 DEF Running
  <2>3. proc' = [proc EXCEPT ![p] = r]
    BY <1>2, <1>6, <2>1
  <2>4. DOMAIN proc' = Process /\ proc'[p] = r /\ \A o \in Process : o # p => proc'[o] = proc[o]
    BY <2>3 DEF SliceInv, SlicesAreSane
  <2>5. Name(p)' = file
    BY <1>2, <1>4, <2>2, <2>4 DEF Name
  <2>6. \A o \in Process : o # p => Name(o)' = Name(o)
    BY <2>4 DEF Name
  <2>7. QED
    BY <1>1, <1>3, <1>7, <2>2, <2>4, <2>5, <2>6 DEF SliceInv, SlicesAreSane
<1>10. /\ Backed(checkpoint, DOMAIN disk', rows)
       /\ AdderIsSane(checkpoint, DOMAIN disk', adder)
  BY <1>7, Grows DEF SliceInv
<1>11. QED
  BY <1>1, <1>8, <1>9, <1>10 DEF SliceInv

\* It appends its row when its file is saved, and ends.
LEMMA SliceEnds ==
  ASSUME SliceInv, NEW p \in Process, AppendRow(p)
  PROVE  SliceInv'
<1>1. UNCHANGED <<checkpoint, disk, adder, report>>
  BY DEF AppendRow
<1>2. PICK q : q = proc[p]
  OBVIOUS
<1>3. q \in Running /\ q.policy <= checkpoint /\ Name(p) \in DOMAIN disk
  BY <1>2 DEF AppendRow, SliceInv, SlicesAreSane, Idle
<1>4. PICK scores : scores = Scores(p)
  OBVIOUS
<1>5. rows' = Put(rows, <<q.matchup, q.start>>, scores)
  BY <1>2, <1>4 DEF AppendRow
<1>6. q.count \in Nat /\ File(q.matchup, q.start, q.count) \in DOMAIN disk
  BY <1>2, <1>3 DEF Name, File, Running
<1>7. SomePolicys(checkpoint, scores, q.matchup, q.start, q.count)
  <2>1. q.policy \in 0..checkpoint
    BY <1>3 DEF Running, SliceInv
  <2>2. scores = played(q.matchup, q.policy, q.start, q.count)
    BY <1>2, <1>4 DEF Scores
  <2>3. QED
    BY <2>1, <2>2 DEF SomePolicys
<1>8. ASSUME NEW m, NEW start, <<m, start>> \in DOMAIN rows'
      PROVE  \E count \in Nat :
               /\ File(m, start, count) \in DOMAIN disk
               /\ SomePolicys(checkpoint, rows'[<<m, start>>], m, start, count)
  <2>1. CASE <<m, start>> = <<q.matchup, q.start>>
    <3>1. m = q.matchup /\ start = q.start
      BY <2>1
    <3>2. rows'[<<m, start>>] = scores
      BY <1>5, <2>1 DEF Put
    <3>3. QED
      BY <1>6, <1>7, <3>1, <3>2
  <2>2. CASE <<m, start>> # <<q.matchup, q.start>>
    <3>1. <<m, start>> \in DOMAIN rows /\ rows'[<<m, start>>] = rows[<<m, start>>]
      BY <1>5, <1>8, <2>2 DEF Put
    <3>2. QED
      BY <3>1 DEF SliceInv, Backed
  <2>3. QED
    BY <2>1, <2>2
<1>9. Backed(checkpoint, DOMAIN disk, rows')
  BY <1>8 DEF Backed
<1>10. proc' = [proc EXCEPT ![p] = Idle]
  BY DEF AppendRow
<1>11. SlicesAreSane'
  BY <1>1, <1>10 DEF SliceInv, SlicesAreSane, Name
<1>12. QED
  BY <1>1, <1>9, <1>11 DEF SliceInv, FilesAreNamed

LEMMA SliceDies ==
  ASSUME SliceInv, NEW p \in Process, KillSlice(p)
  PROVE  SliceInv'
<1>1. UNCHANGED <<checkpoint, disk, rows, adder, report>>
  BY DEF KillSlice
<1>2. proc' = [proc EXCEPT ![p] = Idle]
  BY DEF KillSlice
<1>3. SlicesAreSane'
  BY <1>1, <1>2 DEF SliceInv, SlicesAreSane, Name
<1>4. QED
  BY <1>1, <1>3 DEF SliceInv, FilesAreNamed

LEMMA TrainingGoesOn ==
  ASSUME SliceInv, Retrain
  PROVE  SliceInv'
<1>1. UNCHANGED <<disk, rows, proc, adder, report>> /\ checkpoint' = checkpoint + 1
  BY DEF Retrain
<1>2. checkpoint \in Nat /\ checkpoint' \in Nat /\ checkpoint <= checkpoint'
  BY <1>1 DEF SliceInv
<1>3. /\ \A scores, m, s, c :
           SomePolicys(checkpoint, scores, m, s, c) => SomePolicys(checkpoint', scores, m, s, c)
      /\ Backed(checkpoint', DOMAIN disk, rows)
      /\ AdderIsSane(checkpoint', DOMAIN disk, adder)
      /\ ReportIsSane(checkpoint', report)
  BY <1>2, Grows DEF SliceInv
<1>4. FilesAreNamed'
  BY <1>1, <1>3 DEF SliceInv, FilesAreNamed
<1>5. SlicesAreSane'
  <2>1. \A p : Name(p)' = Name(p)
    BY <1>1 DEF Name
  <2>2. \A p \in Process : proc[p] \in Running /\ proc[p].policy <= checkpoint =>
          proc[p].policy <= checkpoint'
    BY <1>1, <1>2 DEF Running
  <2>3. QED
    BY <1>1, <2>1, <2>2 DEF SliceInv, SlicesAreSane
<1>6. QED
  BY <1>1, <1>2, <1>3, <1>4, <1>5 DEF SliceInv

\* The steps of aggregate leave the slices alone.
LEMMA OnlyAggregates ==
  ASSUME SliceInv, UNCHANGED <<checkpoint, disk, rows, proc>>,
         AdderIsSane(checkpoint, DOMAIN disk, adder'), ReportIsSane(checkpoint, report')
  PROVE  SliceInv'
<1>1. FilesAreNamed' /\ SlicesAreSane'
  BY DEF SliceInv, FilesAreNamed, SlicesAreSane, Name
<1>2. QED
  BY <1>1 DEF SliceInv

LEMMA IdleIsSane == AdderIsSane(checkpoint, DOMAIN disk, Idle)
  BY DEF AdderIsSane, Idle

LEMMA AggregateBegins ==
  ASSUME SliceInv, StartAggregate
  PROVE  SliceInv'
<1>1. UNCHANGED <<checkpoint, disk, rows, proc, report>>
  BY DEF StartAggregate
<1>2. PICK none : none = <<>> /\ DOMAIN none = {}
  OBVIOUS
<1>3. PICK a : a = [pc |-> "adding", policy |-> checkpoint, rows |-> rows, parts |-> none]
  OBVIOUS
<1>4. AllWhole(checkpoint, none)
  BY <1>2 DEF AllWhole
<1>5. AdderIsSane(checkpoint, DOMAIN disk, a)
  BY <1>2, <1>3, <1>4 DEF AdderIsSane, SliceInv
<1>6. adder' = a
  BY <1>2, <1>3 DEF StartAggregate
<1>7. ReportIsSane(checkpoint, report')
  BY <1>1 DEF SliceInv
<1>8. QED
  BY <1>1, <1>5, <1>6, <1>7, OnlyAggregates

LEMMA MatchupBegins ==
  ASSUME SliceInv, StartMatchup
  PROVE  SliceInv'
<1>1. UNCHANGED <<checkpoint, disk, rows, proc, report>>
  BY DEF StartMatchup
<1>2. PICK m : m = CHOOSE x \in Matchups : x \notin DOMAIN adder.parts
  OBVIOUS
<1>3. adder.pc = "adding" /\ DOMAIN adder.parts # Matchups
  BY DEF StartMatchup
<1>4. /\ adder.policy \in 0..checkpoint /\ Backed(checkpoint, DOMAIN disk, adder.rows)
      /\ DOMAIN adder.parts \subseteq Matchups /\ AllWhole(checkpoint, adder.parts)
  BY <1>3 DEF SliceInv, AdderIsSane
<1>5. m \in Matchups
  BY <1>2, <1>3, <1>4
<1>6. PICK sum, left, known : sum = Nothing /\ left = Parts(m) /\ known = adder.rows
  OBVIOUS
<1>7. PICK a : a = [pc |-> "reading", policy |-> adder.policy, rows |-> known,
                    parts |-> adder.parts, sum |-> sum, matchup |-> m, left |-> left]
  OBVIOUS
<1>8. adder' = a
  BY <1>2, <1>6, <1>7 DEF StartMatchup
<1>9. /\ Covers(checkpoint, sum.scores, m) /\ Covers(checkpoint, sum.stats, m)
      /\ Len(sum.stats) = Len(sum.scores) /\ IsSum(sum)
  <2>1. sum.scores = <<>> /\ sum.stats = <<>> /\ IsSum(sum)
    BY <1>6 DEF Nothing, IsSum
  <2>2. PICK none : none = <<>>
    OBVIOUS
  <2>3. none \in Seq(Int \X Int) /\ 1..Len(none) = {}
    BY <2>2, EmptySeq
  <2>4. Covers(checkpoint, none, m)
    BY <2>3 DEF Covers
  <2>5. QED
    BY <2>1, <2>2, <2>4
<1>10. left \subseteq DOMAIN disk /\ \A f \in left : f.matchup = m /\ f.start \in Nat
  BY <1>6 DEF Parts, SliceInv, FilesAreNamed
<1>11. ASSUME NEW start, <<m, start>> \in DOMAIN known
       PROVE  \E count \in Nat :
                /\ SomePolicys(checkpoint, known[<<m, start>>], m, start, count)
                /\ File(m, start, count) \in left \/ (start \in Nat /\ start < Len(sum.scores))
  <2>1. PICK count \in Nat :
          /\ File(m, start, count) \in DOMAIN disk
          /\ SomePolicys(checkpoint, known[<<m, start>>], m, start, count)
    BY <1>4, <1>6, <1>11 DEF Backed
  <2>2. File(m, start, count).matchup = m
    BY DEF File
  <2>3. File(m, start, count) \in left
    BY <1>6, <2>1, <2>2 DEF Parts
  <2>4. QED
    BY <2>1, <2>3
<1>12. ReadingIsSane(checkpoint, DOMAIN disk, m, known, left, sum)
  BY <1>5, <1>9, <1>10, <1>11 DEF ReadingIsSane
<1>13. AdderIsSane(checkpoint, DOMAIN disk, a)
  BY <1>4, <1>6, <1>7, <1>12 DEF AdderIsSane
<1>14. ReportIsSane(checkpoint, report')
  BY <1>1 DEF SliceInv
<1>15. QED
  BY <1>1, <1>8, <1>13, <1>14, OnlyAggregates

LEMMA FileIsAdded ==
  ASSUME SliceInv, AddFile
  PROVE  SliceInv'
<1>1. UNCHANGED <<checkpoint, disk, rows, proc, report>> /\ adder.pc = "reading"
  BY DEF AddFile
<1>2. PICK f, sum :
        /\ f \in adder.left
        /\ sum = AddPart(adder.rows, adder.sum, f)
        /\ adder' = IF sum = Failed THEN Idle ELSE [adder EXCEPT !.left = @ \ {f}, !.sum = sum]
  BY DEF AddFile
<1>3. ReportIsSane(checkpoint, report')
  BY <1>1 DEF SliceInv
<1>4. CASE sum = Failed
  BY <1>1, <1>2, <1>3, <1>4, IdleIsSane, OnlyAggregates
<1>5. CASE sum # Failed
  <2>1. /\ adder.policy \in 0..checkpoint /\ Backed(checkpoint, DOMAIN disk, adder.rows)
        /\ DOMAIN adder.parts \subseteq Matchups /\ AllWhole(checkpoint, adder.parts)
        /\ DOMAIN adder = {"pc", "policy", "rows", "parts", "sum", "matchup", "left"}
        /\ ReadingIsSane(checkpoint, DOMAIN disk, adder.matchup, adder.rows, adder.left, adder.sum)
    BY <1>1 DEF SliceInv, AdderIsSane
  <2>2. f \in DOMAIN disk
    BY <1>2, <2>1 DEF ReadingIsSane
  <2>3. /\ f.start \in Nat /\ f.count \in Nat \ {0}
        /\ disk[f] = Torn \/ SomePolicys(checkpoint, disk[f], f.matchup, f.start, f.count)
    BY <2>2 DEF SliceInv, FilesAreNamed
  <2>4. PICK m, known, left, old :
          m = adder.matchup /\ known = adder.rows /\ left = adder.left /\ old = adder.sum
    OBVIOUS
  <2>5. ReadingIsSane(checkpoint, DOMAIN disk, m, known, left \ {f}, sum)
    <3>1. checkpoint \in Nat
      BY DEF SliceInv
    <3>2. ReadingIsSane(checkpoint, DOMAIN disk, m, known, left, old)
      BY <2>1, <2>4
    <3>3. AddPart(known, old, f) # Failed /\ f \in left /\ sum = AddPart(known, old, f)
      BY <1>2, <1>5, <2>4
    <3>4. QED
      BY <2>3, <3>1, <3>2, <3>3, ReadingContinues
  <2>6. PICK a : a = [adder EXCEPT !.left = @ \ {f}, !.sum = sum]
    OBVIOUS
  <2>7. /\ a.pc = "reading" /\ a.policy = adder.policy /\ a.rows = known /\ a.parts = adder.parts
        /\ a.matchup = m /\ a.left = left \ {f} /\ a.sum = sum
        /\ DOMAIN a = {"pc", "policy", "rows", "parts", "sum", "matchup", "left"}
    BY <1>1, <2>1, <2>4, <2>6
  <2>8. AdderIsSane(checkpoint, DOMAIN disk, a)
    BY <2>1, <2>4, <2>5, <2>7 DEF AdderIsSane
  <2>9. adder' = a
    BY <1>2, <1>5, <2>6
  <2>10. QED
    BY <1>1, <1>3, <2>8, <2>9, OnlyAggregates
<1>6. QED
  BY <1>4, <1>5

LEMMA MatchupEnds ==
  ASSUME SliceInv, EndMatchup
  PROVE  SliceInv'
<1>1. UNCHANGED <<checkpoint, disk, rows, proc, report>> /\ adder.pc = "reading" /\ adder.left = {}
  BY DEF EndMatchup
<1>2. ReportIsSane(checkpoint, report')
  BY <1>1 DEF SliceInv
<1>3. CASE Len(adder.sum.scores) # N
  <2>1. adder' = Idle
    BY <1>3 DEF EndMatchup
  <2>2. QED
    BY <1>1, <1>2, <2>1, IdleIsSane, OnlyAggregates
<1>4. CASE Len(adder.sum.scores) = N
  <2>1. /\ adder.policy \in 0..checkpoint /\ Backed(checkpoint, DOMAIN disk, adder.rows)
        /\ DOMAIN adder.parts \subseteq Matchups /\ AllWhole(checkpoint, adder.parts)
        /\ ReadingIsSane(checkpoint, DOMAIN disk, adder.matchup, adder.rows, {}, adder.sum)
    BY <1>1 DEF SliceInv, AdderIsSane
  <2>2. PICK m, sum, parts : m = adder.matchup /\ sum = adder.sum /\ parts = Put(adder.parts, m, sum)
    OBVIOUS
  <2>3. /\ m \in Matchups /\ Len(sum.scores) = N /\ Len(sum.stats) = N
        /\ Covers(checkpoint, sum.scores, m) /\ Covers(checkpoint, sum.stats, m)
        /\ IsSum(sum)
    BY <1>4, <2>1, <2>2 DEF ReadingIsSane, Doomed
  <2>4. /\ DOMAIN parts = DOMAIN adder.parts \cup {m} /\ parts[m] = sum
        /\ \A k \in DOMAIN adder.parts : k # m => parts[k] = adder.parts[k]
    BY <2>2 DEF Put
  <2>5. DOMAIN parts \subseteq Matchups /\ AllWhole(checkpoint, parts)
    BY <2>1, <2>3, <2>4 DEF AllWhole
  <2>6. PICK a : a = [pc |-> "adding", policy |-> adder.policy, rows |-> adder.rows, parts |-> parts]
    OBVIOUS
  <2>7. AdderIsSane(checkpoint, DOMAIN disk, a)
    BY <2>1, <2>5, <2>6 DEF AdderIsSane
  <2>8. adder' = a
    BY <1>4, <2>2, <2>6 DEF EndMatchup
  <2>9. QED
    BY <1>1, <1>2, <2>7, <2>8, OnlyAggregates
<1>5. QED
  BY <1>3, <1>4

LEMMA ReportIsWritten ==
  ASSUME SliceInv, WriteReport
  PROVE  SliceInv'
<1>1. UNCHANGED <<checkpoint, disk, rows, proc>> /\ adder' = Idle
  BY DEF WriteReport
<1>2. PICK r : r = [verdict |-> "written", policy |-> adder.policy, parts |-> adder.parts]
  OBVIOUS
<1>3. /\ r.policy \in 0..checkpoint /\ DOMAIN r.parts = Matchups
      /\ AllWhole(checkpoint, r.parts) /\ report' = r
  BY <1>2 DEF WriteReport, SliceInv, AdderIsSane
<1>4. ReportIsSane(checkpoint, report')
  BY <1>3 DEF ReportIsSane
<1>5. QED
  BY <1>1, <1>4, IdleIsSane, OnlyAggregates

LEMMA SliceNext == SliceInv /\ [Next]_eval_vars => SliceInv'
<1> SUFFICES ASSUME SliceInv, [Next]_eval_vars  PROVE  SliceInv'
  OBVIOUS
<1>1. ASSUME NEW p \in Process, NEW m \in Matchups, NEW s \in Specs, StartSlice(p, m, s)
      PROVE  SliceInv'
  BY <1>1, SliceBegins
<1>2. ASSUME NEW p \in Process, OpenScores(p) \/ WriteScores(p)  PROVE  SliceInv'
  BY <1>2, SliceSaves
<1>3. ASSUME NEW p \in Process, AppendRow(p)  PROVE  SliceInv'
  BY <1>3, SliceEnds
<1>4. ASSUME NEW p \in Process, KillSlice(p)  PROVE  SliceInv'
  BY <1>4, SliceDies
<1>5. CASE Retrain
  BY <1>5, TrainingGoesOn
<1>6. CASE StartAggregate
  BY <1>6, AggregateBegins
<1>7. CASE StartMatchup
  BY <1>7, MatchupBegins
<1>8. CASE AddFile
  BY <1>8, FileIsAdded
<1>9. CASE EndMatchup
  BY <1>9, MatchupEnds
<1>10. CASE WriteReport
  BY <1>10, ReportIsWritten
<1>11. CASE UNCHANGED eval_vars
  <2>1. UNCHANGED <<checkpoint, disk, rows, proc, adder, report>>
    BY <1>11 DEF eval_vars
  <2>2. FilesAreNamed' /\ SlicesAreSane'
    BY <2>1 DEF SliceInv, FilesAreNamed, SlicesAreSane, Name
  <2>3. QED
    BY <2>1, <2>2 DEF SliceInv
<1>12. QED
  BY <1>1, <1>2, <1>3, <1>4, <1>5, <1>6, <1>7, <1>8, <1>9, <1>10, <1>11 DEF Next

LEMMA SlicesStaySane == Spec => []SliceInv
  BY SliceInit, SliceNext, PTL DEF Spec

\* Even if the checkpoint file changes between the slices, a report scores and
\* counts every seed of a matchup exactly once, for any number of seeds, any
\* slices, any number of processes, kills and repetitions, and while slices are
\* still being written (aggregate of src/python/train/evaluate.py).
THEOREM SeedsAreCovered == Spec => []ExactSeedCoverage
<1>1. ASSUME SliceInv  PROVE  ExactSeedCoverage
  <2> SUFFICES ASSUME report # NoReport, NEW m \in Matchups,
                      NEW part \in {report.parts[m].scores, report.parts[m].stats}
               PROVE  [k \in DOMAIN part |-> part[k][2]] = [k \in 1..N |-> k - 1]
    BY DEF ExactSeedCoverage
  <2>1. Covers(checkpoint, part, m) /\ Len(part) = N
    BY <1>1 DEF SliceInv, ReportIsSane, AllWhole
  <2>2. DOMAIN part = 1..N
    BY <2>1, LenProperties DEF Covers
  <2>3. \A k \in 1..N : part[k][2] = k - 1
    BY <2>1 DEF Covers
  <2>4. QED
    BY <2>2, <2>3
<1>2. QED
  BY <1>1, SlicesStaySane, PTL

\* As long as the checkpoint file is the one that the slices were played with, a
\* report has the scores and the counts that evaluate() has, however the seeds
\* were sliced and whatever was killed, run again or running (run_slice,
\* aggregate and evaluate of src/python/train/evaluate.py).
THEOREM SlicesAreOneShot == Spec => []ReportIsOneShot
<1>1. ASSUME SliceInv  PROVE  ReportIsOneShot
  <2> SUFFICES ASSUME report # NoReport, checkpoint = 0, NEW m \in Matchups
               PROVE  LET whole == played(m, report.policy, 0, N)
                      IN  report.parts[m] = [scores |-> whole, stats |-> whole]
    BY DEF ReportIsOneShot
  <2>1. PICK sum, whole : sum = report.parts[m] /\ whole = played(m, report.policy, 0, N)
    OBVIOUS
  <2>2. /\ report.policy = 0 /\ sum = [scores |-> sum.scores, stats |-> sum.stats]
        /\ Covers(0, sum.scores, m) /\ Len(sum.scores) = N
        /\ Covers(0, sum.stats, m) /\ Len(sum.stats) = N
    BY <1>1, <2>1 DEF SliceInv, ReportIsSane, AllWhole, IsSum
  <2>3. whole = [k \in 1..N |-> <<player(m, 0), k - 1>>]
    <3>1. whole = [k \in 1..N |-> <<player(m, 0), 0 + k - 1>>]
      BY <2>1, <2>2 DEF played
    <3>2. \A k \in 1..N : 0 + k - 1 = k - 1
      OBVIOUS
    <3>3. QED
      BY <3>1, <3>2
  <2>4. ASSUME NEW part, Covers(0, part, m), Len(part) = N  PROVE  part = whole
    <3>1. DOMAIN part = 1..N /\ part = [k \in 1..N |-> part[k]]
      BY <2>4, LenProperties DEF Covers
    <3>2. \A k \in 1..N : part[k] = <<player(m, 0), k - 1>>
      BY <2>4 DEF Covers
    <3>3. QED
      BY <2>3, <3>1, <3>2
  <2>5. sum = [scores |-> whole, stats |-> whole]
    BY <2>2, <2>4
  <2>6. QED
    BY <2>1, <2>5
<1>2. QED
  BY <1>1, SlicesStaySane, PTL

-----------------------------------------------------------------------------
(* The loop over finished slices.                                          *)

\* What finished has been saved whole and has a row, unless it is run again.
FinishedAreWhole ==
  \A f \in finished :
    /\ f \in DOMAIN disk /\ <<f.matchup, f.start>> \in DOMAIN rows
    /\ disk[f] # Torn \/ \E p \in Process : proc[p] # Idle /\ Name(p) = f

SavedAreWhole ==
  \A p \in Process : proc[p] # Idle /\ proc[p].pc = "saved" =>
    Name(p) \in DOMAIN disk /\ disk[Name(p)] # Torn

OneProcessPerFile ==
  \A p, q \in Process : proc[p] # Idle /\ proc[q] # Idle /\ p # q => Name(p) # Name(q)

SlicesFit ==
  /\ \A f \in DOMAIN disk : f.start + f.count <= N
  /\ \A p \in Process : proc[p] # Idle => proc[p].start + proc[p].count <= N

NothingElseRuns ==
  undisturbed =>
    /\ \A p \in Process : proc[p] = Idle
    /\ adder.pc # "idle" => adder.rows = rows

\* What was read ends where what is left of all the files begins.
ReadUpTo(left, at, all) ==
  /\ at <= N /\ left \subseteq all
  /\ \A f \in left : f.start >= at
  /\ \A f \in all \ left : f.start + f.count <= at

ReadInOrder ==
  undisturbed /\ adder.pc = "reading" /\ FinishedPartition(adder.matchup) =>
    ReadUpTo(adder.left, Len(adder.sum.scores), Parts(adder.matchup))

QuietInv ==
  /\ FinishedAreWhole
  /\ SavedAreWhole
  /\ OneProcessPerFile
  /\ SlicesFit
  /\ NothingElseRuns
  /\ ReadInOrder

Covered(f, k) == k \in f.start..(f.start + f.count - 1)

\* all is a set of slices, of which every seed is in exactly one.
IsPartition(all) ==
  /\ \A f \in all : f.start \in Nat /\ f.count \in Nat \ {0} /\ f.start + f.count <= N
  /\ \A k \in 0..(N - 1) : \E f \in all : Covered(f, k)
  /\ \A k \in 0..(N - 1) : \A f, g \in all : Covered(f, k) /\ Covered(g, k) => f = g

LEMMA PartitionIs ==
  ASSUME NEW m, SliceInv, QuietInv, FinishedPartition(m)
  PROVE  IsPartition(Parts(m)) /\ Parts(m) \subseteq finished
<1>1. PICK all : all = {f \in finished : f.matchup = m}
  OBVIOUS
<1>2. /\ Parts(m) = all
      /\ \A k \in 0..(N - 1) : \E f \in all : {g \in all : Covered(g, k)} = {f}
  BY <1>1 DEF FinishedPartition, Covered
<1>3. \A k \in 0..(N - 1) : \E f \in all : Covered(f, k)
  BY <1>2
<1>4. ASSUME NEW k \in 0..(N - 1), NEW f \in all, NEW g \in all, Covered(f, k), Covered(g, k)
      PROVE  f = g
  <2>1. PICK h : {o \in all : Covered(o, k)} = {h}
    BY <1>2
  <2>2. f \in {h} /\ g \in {h}
    BY <1>4, <2>1
  <2>3. QED
    BY <2>2
<1>5. \A f \in all : f.start \in Nat /\ f.count \in Nat \ {0} /\ f.start + f.count <= N
  BY <1>2 DEF Parts, SliceInv, FilesAreNamed, QuietInv, SlicesFit
<1>6. QED
  BY <1>1, <1>2, <1>3, <1>4, <1>5 DEF IsPartition

\* The next file begins where what was read ends, and what follows it is left.
LEMMA NextFile ==
  ASSUME NEW all, IsPartition(all), NEW left, NEW at \in Nat, ReadUpTo(left, at, all),
         NEW f \in left, \A g \in left \ {f} : Before(f, g)
  PROVE  f.start = at /\ ReadUpTo(left \ {f}, at + f.count, all)
<1>1. f \in all /\ N \in Nat
  BY EvalAssumption DEF ReadUpTo
<1>2. PICK s \in Nat, c \in Nat \ {0} : s = f.start /\ c = f.count /\ s + c <= N /\ s >= at
  BY <1>1 DEF IsPartition, ReadUpTo
<1>3. at \in 0..(N - 1)
  BY <1>1, <1>2
<1>4. PICK first \in all : Covered(first, at)
  BY <1>3 DEF IsPartition
<1>5. PICK fs \in Nat, fc \in Nat \ {0} : fs = first.start /\ fc = first.count /\ fs <= at /\ at < fs + fc
  BY <1>4 DEF IsPartition, Covered
<1>6. first \in left
  BY <1>4, <1>5 DEF ReadUpTo
<1>7. fs = at
  BY <1>5, <1>6 DEF ReadUpTo
<1>8. f = first
  <2>1. SUFFICES ASSUME f # first  PROVE  FALSE
    OBVIOUS
  <2>2. Before(f, first)
    BY <1>6, <2>1
  <2>3. s = at
    BY <1>2, <1>5, <1>7, <2>2 DEF Before
  <2>4. Covered(f, at)
    BY <1>2, <2>3 DEF Covered
  <2>5. QED
    BY <1>1, <1>3, <1>4, <2>1, <2>4 DEF IsPartition
<1>9. s = at
  BY <1>2, <1>5, <1>7, <1>8
<1>10. ASSUME NEW g \in left \ {f}  PROVE  g.start >= at + c
  <2>1. g \in all
    BY DEF ReadUpTo
  <2>2. PICK gs \in Nat, gc \in Nat \ {0} : gs = g.start /\ gc = g.count /\ gs + gc <= N /\ gs >= at
    BY <2>1 DEF IsPartition, ReadUpTo
  <2>3. SUFFICES ASSUME gs < at + c  PROVE  FALSE
    BY <2>2
  <2>4. Covered(f, gs) /\ Covered(g, gs) /\ gs \in 0..(N - 1)
    BY <1>1, <1>2, <1>9, <2>2, <2>3 DEF Covered
  <2>5. QED
    BY <1>1, <2>1, <2>4 DEF IsPartition
<1>11. ASSUME NEW g \in all \ (left \ {f})  PROVE  g.start + g.count <= at + c
  <2>1. CASE g = f
    <3>1. g.start = s /\ g.count = c /\ s + c = at + c
      BY <1>2, <1>9, <2>1
    <3>2. s + c <= at + c
      BY <1>9
    <3>3. QED
      BY <3>1, <3>2
  <2>2. CASE g # f
    <3>1. g \in all \ left
      BY <2>2
    <3>2. PICK gs \in Nat, gc \in Nat \ {0} : gs = g.start /\ gc = g.count /\ gs + gc <= at
      BY <3>1 DEF IsPartition, ReadUpTo
    <3>3. gs + gc <= at + c
      BY <3>2
    <3>4. QED
      BY <3>2, <3>3
  <2>3. QED
    BY <2>1, <2>2
<1>12. at + c <= N /\ left \ {f} \subseteq all
  BY <1>2, <1>9 DEF ReadUpTo
<1>13. ReadUpTo(left \ {f}, at + c, all)
  BY <1>10, <1>11, <1>12 DEF ReadUpTo
<1>14. QED
  BY <1>2, <1>9, <1>13

\* When no file is left, every seed was read.
LEMMA NothingLeft ==
  ASSUME NEW all, IsPartition(all), NEW at \in Nat, ReadUpTo({}, at, all)
  PROVE  at = N
<1>1. N \in Nat /\ at <= N
  BY EvalAssumption DEF ReadUpTo
<1>2. SUFFICES ASSUME at < N  PROVE  FALSE
  BY <1>1
<1>3. PICK f \in all : Covered(f, at)
  BY <1>1, <1>2 DEF IsPartition
<1>4. PICK s \in Nat, c \in Nat : s = f.start /\ c = f.count /\ s + c <= at /\ at <= s + c - 1
  BY <1>3 DEF IsPartition, ReadUpTo, Covered
<1>5. QED
  BY <1>4

\* A file of a finished partition does not raise.
LEMMA PartIsAdded ==
  ASSUME SliceInv, QuietInv, undisturbed, adder.pc = "reading", FinishedPartition(adder.matchup),
         NEW f \in adder.left, \A g \in adder.left \ {f} : Before(f, g)
  PROVE  /\ AddPart(adder.rows, adder.sum, f) # Failed
         /\ Len(AddPart(adder.rows, adder.sum, f).scores) = Len(adder.sum.scores) + f.count
         /\ ReadUpTo(adder.left \ {f}, Len(adder.sum.scores) + f.count, Parts(adder.matchup))
<1>1. PICK m, left, sum, known, all :
        m = adder.matchup /\ left = adder.left /\ sum = adder.sum /\ known = adder.rows /\ all = Parts(m)
  OBVIOUS
<1>2. ReadingIsSane(checkpoint, DOMAIN disk, m, known, left, sum)
  BY <1>1 DEF SliceInv, AdderIsSane
<1>3. /\ IsSum(sum) /\ sum.scores \in Seq(Int \X Int) /\ f.matchup = m
  BY <1>1, <1>2 DEF ReadingIsSane, Covers
<1>4. PICK at \in Nat : at = Len(sum.scores)
  BY <1>3, LenProperties
<1>5. IsPartition(all) /\ all \subseteq finished
  BY <1>1, PartitionIs
<1>6. ReadUpTo(left, at, all)
  BY <1>1, <1>4 DEF QuietInv, ReadInOrder
<1>7. f.start = at /\ ReadUpTo(left \ {f}, at + f.count, all)
  <2>1. f \in left /\ at \in Nat /\ \A g \in left \ {f} : Before(f, g)
    BY <1>1
  <2>2. IsPartition(all)
    BY <1>5
  <2>3. QED
    BY ONLY <1>6, <2>1, <2>2, NextFile
<1>8. f \in all /\ f \in finished
  BY <1>1, <1>5, <1>6 DEF ReadUpTo
<1>9. /\ f \in DOMAIN disk /\ disk[f] # Torn /\ <<f.matchup, f.start>> \in DOMAIN known
  BY <1>1, <1>8 DEF QuietInv, FinishedAreWhole, NothingElseRuns
<1>9a. f.count \in Nat \ {0} /\ SomePolicys(checkpoint, disk[f], f.matchup, f.start, f.count)
  BY <1>9 DEF SliceInv, FilesAreNamed
<1>9b. PICK policy \in 0..checkpoint : disk[f] = played(f.matchup, policy, f.start, f.count)
  BY <1>9a DEF SomePolicys
<1>9c. PICK scores : scores = disk[f]
  OBVIOUS
<1>10. PICK c \in Nat \ {0} : c = f.count /\ scores = played(f.matchup, policy, f.start, c)
  BY <1>9a, <1>9b, <1>9c
<1>11. scores \in Seq(Int \X Int) /\ Len(scores) = c
  <2>1. player(f.matchup, policy) \in Int /\ f.start \in Nat
    BY <1>4, <1>7, <1>10 DEF SliceInv, player, Scripted
  <2>2. scores \in [1..c -> Int \X Int]
    BY <1>10, <2>1 DEF played
  <2>3. scores \in Seq(Int \X Int)
    BY <2>2, SeqDef
  <2>4. DOMAIN scores = 1..c /\ DOMAIN scores = 1..Len(scores) /\ Len(scores) \in Nat
    BY <2>2, <2>3, LenProperties
  <2>5. QED
    BY <2>3, <2>4
<1>12. sum # Failed
  <2>1. "scores" \in DOMAIN sum
    BY <1>3 DEF IsSum
  <2>2. "scores" \notin DOMAIN Failed
    BY DEF Failed
  <2>3. QED
    BY <2>1, <2>2
<1>13. PICK next : next = AddPart(known, sum, f)
  OBVIOUS
<1>14. next = [scores |-> sum.scores \o disk[f], stats |-> sum.stats \o known[<<f.matchup, f.start>>]]
  BY <1>4, <1>7, <1>9, <1>9c, <1>10, <1>11, <1>12, <1>13 DEF AddPart
<1>15. next # Failed
  <2>1. "scores" \in DOMAIN next
    BY <1>14
  <2>2. "scores" \notin DOMAIN Failed
    BY DEF Failed
  <2>3. QED
    BY <2>1, <2>2
<1>16. Len(next.scores) = at + c
  <2>1. next.scores = sum.scores \o scores
    BY <1>9c, <1>14
  <2>2. Len(sum.scores \o scores) = Len(sum.scores) + Len(scores)
    BY ONLY <1>3, <1>11, ConcatProperties
  <2>3. QED
    BY <1>4, <1>11, <2>1, <2>2
<1>17. QED
  BY <1>1, <1>4, <1>7, <1>10, <1>13, <1>15, <1>16

LEMMA QuietInit == Init => QuietInv
<1> SUFFICES ASSUME Init  PROVE  QuietInv
  OBVIOUS
<1>1. DOMAIN disk = {} /\ finished = {} /\ ~undisturbed /\ \A p \in Process : proc[p] = Idle
  BY DEF Init
<1>2. QED
  BY <1>1 DEF QuietInv, FinishedAreWhole, SavedAreWhole, OneProcessPerFile, SlicesFit, NothingElseRuns,
              ReadInOrder

\* While a slice runs, the aggregating process is disturbed.
LEMMA Disturbed ==
  ASSUME QuietInv, NEW p \in Process, proc[p] # Idle
  PROVE  ~undisturbed
  BY DEF QuietInv, NothingElseRuns

LEMMA QuietBegins ==
  ASSUME SliceInv, QuietInv, NEW p \in Process, NEW m \in Matchups, NEW s \in Specs, StartSlice(p, m, s)
  PROVE  QuietInv'
<1>1. PICK q : q = [pc |-> "playing", policy |-> checkpoint, matchup |-> m, start |-> s.start,
                    count |-> clipped(s)]
  OBVIOUS
<1>2. /\ proc' = [proc EXCEPT ![p] = q] /\ disk' = disk /\ rows' = rows /\ finished' = finished
      /\ undisturbed' = FALSE /\ proc[p] = Idle
      /\ \A o \in Process : proc[o] # Idle => Name(o) # File(m, s.start, clipped(s))
  BY <1>1 DEF StartSlice
<1>3. /\ DOMAIN proc = Process /\ proc'[p] = q /\ \A o \in Process : o # p => proc'[o] = proc[o]
  BY <1>2 DEF SliceInv, SlicesAreSane
<1>4. /\ Name(p)' = File(m, s.start, clipped(s))
      /\ \A o \in Process : o # p => Name(o)' = Name(o)
  BY <1>1, <1>3 DEF Name
<1>5. q.pc # "saved" /\ q.start = s.start /\ q.count = clipped(s)
  BY <1>1
<1>6. FinishedAreWhole'
  <2>1. q # Idle
    BY <1>1 DEF Idle
  <2>2. ASSUME NEW f \in finished, \E o \in Process : proc[o] # Idle /\ Name(o) = f
        PROVE  \E o \in Process : proc'[o] # Idle /\ Name(o)' = f
    <3>1. PICK o \in Process : proc[o] # Idle /\ Name(o) = f
      BY <2>2
    <3>2. o # p
      BY <1>2, <3>1
    <3>3. proc'[o] # Idle /\ Name(o)' = f
      BY <1>3, <1>4, <3>1, <3>2
    <3>4. QED
      BY <3>3
  <2>3. QED
    BY <1>2, <2>2 DEF QuietInv, FinishedAreWhole
<1>7. SavedAreWhole'
  BY <1>2, <1>3, <1>4, <1>5 DEF QuietInv, SavedAreWhole
<1>8. OneProcessPerFile'
  BY <1>2, <1>3, <1>4 DEF QuietInv, OneProcessPerFile
<1>9. SlicesFit'
  BY <1>2, <1>3, <1>5, ClippedIsPositive DEF QuietInv, SlicesFit
<1>10. NothingElseRuns' /\ ReadInOrder'
  BY <1>2 DEF NothingElseRuns, ReadInOrder
<1>11. QED
  BY <1>6, <1>7, <1>8, <1>9, <1>10 DEF QuietInv

LEMMA QuietSaves ==
  ASSUME SliceInv, QuietInv, NEW p \in Process, OpenScores(p) \/ WriteScores(p)
  PROVE  QuietInv'
<1>1. PICK q : q = proc[p]
  OBVIOUS
<1>2. q # Idle /\ q \in Running
  BY <1>1 DEF OpenScores, WriteScores, SliceInv, SlicesAreSane, Idle
<1>3. PICK file : file = Name(p)
  OBVIOUS
<1>4. PICK scores, pc :
        /\ pc \in {"saving", "saved"} /\ (pc = "saved" => scores # Torn)
        /\ disk' = Put(disk, file, scores)
        /\ proc' = [proc EXCEPT ![p].pc = pc]
  <2>1. CASE OpenScores(p)
    <3>1. PICK scores, pc : scores = Torn /\ pc = "saving"
      OBVIOUS
    <3>2. /\ pc \in {"saving", "saved"} /\ (pc = "saved" => scores # Torn)
          /\ disk' = Put(disk, file, scores)
          /\ proc' = [proc EXCEPT ![p].pc = pc]
      BY <1>3, <2>1, <3>1 DEF OpenScores, Goes
    <3>3. QED
      BY <3>2
  <2>2. CASE WriteScores(p)
    <3>1. PICK start \in Nat, count \in Nat \ {0} : start = q.start /\ count = q.count
      BY <1>2 DEF Running
    <3>2. Scores(p) = [k \in 1..count |-> <<player(q.matchup, q.policy), start + k - 1>>]
      BY <1>1, <3>1 DEF Scores, played
    <3>3. 1 \in DOMAIN Scores(p)
      BY <3>2
    <3>4. DOMAIN Torn = {}
      BY DEF Torn
    <3>5. Scores(p) # Torn
      BY <3>3, <3>4
    <3>6. QED
      BY <1>3, <2>2, <3>5 DEF WriteScores, Goes
  <2>3. QED
    BY <2>1, <2>2
<1>5. PICK r : r = [q EXCEPT !.pc = pc]
  OBVIOUS
<1>6. /\ r.pc = pc /\ r.matchup = q.matchup /\ r.start = q.start /\ r.count = q.count /\ r # Idle
  <2>1. DOMAIN q = {"pc", "policy", "matchup", "start", "count"}
    BY <1>2 DEF Running
  <2>2. r.pc = pc /\ r.matchup = q.matchup /\ r.start = q.start /\ r.count = q.count
    BY <1>5, <2>1
  <2>3. pc # "idle"
    BY <1>4
  <2>4. QED
    BY <2>2, <2>3 DEF Idle
<1>7. proc' = [proc EXCEPT ![p] = r]
  BY <1>1, <1>4, <1>5
<1>8. /\ proc'[p] = r /\ \A o \in Process : o # p => proc'[o] = proc[o]
  BY <1>7 DEF SliceInv, SlicesAreSane
<1>9. Name(p)' = file /\ \A o \in Process : o # p => Name(o)' = Name(o)
  BY <1>1, <1>3, <1>6, <1>8 DEF Name
<1>10. /\ DOMAIN disk' = DOMAIN disk \cup {file} /\ disk'[file] = scores
       /\ \A f \in DOMAIN disk : f # file => disk'[f] = disk[f]
  BY <1>4 DEF Put
<1>11. rows' = rows /\ finished' = finished /\ undisturbed' = undisturbed
  BY DEF OpenScores, WriteScores
<1>12. \A o \in Process : proc[o] # Idle /\ o # p => Name(o) # file
  BY <1>1, <1>2, <1>3 DEF QuietInv, OneProcessPerFile
<1>13. ASSUME NEW f \in finished
       PROVE  /\ f \in DOMAIN disk' /\ <<f.matchup, f.start>> \in DOMAIN rows
              /\ disk'[f] # Torn \/ \E o \in Process : proc'[o] # Idle /\ Name(o)' = f
  <2>1. /\ f \in DOMAIN disk /\ <<f.matchup, f.start>> \in DOMAIN rows
        /\ disk[f] # Torn \/ \E o \in Process : proc[o] # Idle /\ Name(o) = f
    BY DEF QuietInv, FinishedAreWhole
  <2>2. CASE f = file
    BY <1>6, <1>8, <1>9, <1>10, <2>1, <2>2
  <2>3. CASE f # file /\ disk[f] # Torn
    BY <1>10, <2>1, <2>3
  <2>4. CASE f # file /\ \E o \in Process : proc[o] # Idle /\ Name(o) = f
    <3>1. PICK o \in Process : proc[o] # Idle /\ Name(o) = f
      BY <2>4
    <3>2. o # p
      BY <1>3, <2>4, <3>1
    <3>3. proc'[o] # Idle /\ Name(o)' = f
      BY <1>8, <1>9, <3>1, <3>2
    <3>4. QED
      BY <1>10, <2>1, <3>3
  <2>5. QED
    BY <2>1, <2>2, <2>3, <2>4
<1>13a. FinishedAreWhole'
  BY <1>11, <1>13 DEF FinishedAreWhole
<1>14. SavedAreWhole'
  BY <1>4, <1>6, <1>8, <1>9, <1>10, <1>12 DEF QuietInv, SavedAreWhole
<1>15. OneProcessPerFile'
  BY <1>3, <1>8, <1>9, <1>12 DEF QuietInv, OneProcessPerFile
<1>16. SlicesFit'
  <2>1. q.start + q.count <= N /\ file.start = q.start /\ file.count = q.count
    BY <1>1, <1>2, <1>3 DEF QuietInv, SlicesFit, Name, File
  <2>2. QED
    BY <1>6, <1>8, <1>10, <2>1 DEF QuietInv, SlicesFit
<1>17. ~undisturbed'
  BY <1>1, <1>2, <1>11, Disturbed
<1>18. QED
  BY <1>13a, <1>14, <1>15, <1>16, <1>17 DEF QuietInv, NothingElseRuns, ReadInOrder

LEMMA QuietEnds ==
  ASSUME SliceInv, QuietInv, NEW p \in Process, AppendRow(p) \/ KillSlice(p)
  PROVE  QuietInv'
<1>1. proc[p] # Idle
  BY DEF AppendRow, KillSlice, Idle
<1>2. PICK file : file = Name(p)
  OBVIOUS
<1>3. /\ proc' = [proc EXCEPT ![p] = Idle] /\ disk' = disk /\ undisturbed' = undisturbed
  BY DEF AppendRow, KillSlice
<1>4. /\ proc'[p] = Idle /\ \A o \in Process : o # p => proc'[o] = proc[o]
      /\ \A o \in Process : o # p => Name(o)' = Name(o)
  BY <1>3 DEF SliceInv, SlicesAreSane, Name
<1>5. DOMAIN rows \subseteq DOMAIN rows'
  BY DEF AppendRow, KillSlice, Put
<1>6. ASSUME NEW f \in finished'
      PROVE  /\ f \in DOMAIN disk /\ <<f.matchup, f.start>> \in DOMAIN rows'
             /\ disk[f] # Torn \/ \E o \in Process : proc'[o] # Idle /\ Name(o)' = f
  <2>1. CASE f # file
    <3>1. f \in finished
      BY <1>2, <1>6, <2>1 DEF AppendRow, KillSlice
    <3>2. QED
      BY <1>2, <1>4, <1>5, <2>1, <3>1 DEF QuietInv, FinishedAreWhole
  <2>2. CASE f = file
    <3>1. AppendRow(p)
      BY <1>2, <1>6, <2>2 DEF KillSlice
    <3>2. f \in DOMAIN disk /\ disk[f] # Torn
      BY <1>1, <1>2, <2>2, <3>1 DEF QuietInv, SavedAreWhole, AppendRow
    <3>3. f.matchup = proc[p].matchup /\ f.start = proc[p].start
      BY <1>2, <2>2 DEF Name, File
    <3>4. <<f.matchup, f.start>> \in DOMAIN rows'
      BY <3>1, <3>3 DEF AppendRow, Put
    <3>5. QED
      BY <3>2, <3>4
  <2>3. QED
    BY <2>1, <2>2
<1>7. FinishedAreWhole'
  BY <1>3, <1>6 DEF FinishedAreWhole
<1>8. SavedAreWhole'
  BY <1>3, <1>4 DEF QuietInv, SavedAreWhole
<1>9. OneProcessPerFile'
  BY <1>4 DEF QuietInv, OneProcessPerFile
<1>10. SlicesFit'
  BY <1>3, <1>4 DEF QuietInv, SlicesFit
<1>11. ~undisturbed'
  BY <1>1, <1>3, Disturbed
<1>12. QED
  BY <1>7, <1>8, <1>9, <1>10, <1>11 DEF QuietInv, NothingElseRuns, ReadInOrder

\* The steps of aggregate and of training change nothing that a slice writes.
LEMMA QuietReads ==
  ASSUME QuietInv, UNCHANGED <<disk, rows, proc, finished>>, NothingElseRuns', ReadInOrder'
  PROVE  QuietInv'
<1>1. \A p : Name(p)' = Name(p)
  BY DEF Name
<1>2. FinishedAreWhole' /\ SavedAreWhole' /\ OneProcessPerFile' /\ SlicesFit'
  BY <1>1 DEF QuietInv, FinishedAreWhole, SavedAreWhole, OneProcessPerFile, SlicesFit
<1>3. QED
  BY <1>2 DEF QuietInv

LEMMA SameParts ==
  ASSUME UNCHANGED <<disk, finished>>
  PROVE  \A m : Parts(m)' = Parts(m) /\ (FinishedPartition(m)' <=> FinishedPartition(m))
  BY DEF Parts, FinishedPartition

LEMMA QuietStays ==
  ASSUME QuietInv, UNCHANGED <<disk, rows, proc, adder, finished, undisturbed>>
  PROVE  QuietInv'
<1>1. NothingElseRuns'
  BY DEF QuietInv, NothingElseRuns
<1>2. FinishedPartition(adder.matchup)' <=> FinishedPartition(adder.matchup)
  BY DEF Parts, FinishedPartition
<1>3. Parts(adder.matchup)' = Parts(adder.matchup)
  BY DEF Parts
<1>4. ReadInOrder'
  BY <1>2, <1>3 DEF QuietInv, ReadInOrder
<1>5. QED
  BY <1>1, <1>4, QuietReads

LEMMA QuietAggregates ==
  ASSUME QuietInv, StartAggregate
  PROVE  QuietInv'
<1>1. /\ UNCHANGED <<disk, rows, proc, finished>> /\ adder'.pc = "adding" /\ adder'.rows = rows
      /\ undisturbed' = \A p \in Process : proc[p] = Idle
  BY DEF StartAggregate
<1>2. NothingElseRuns' /\ ReadInOrder'
  BY <1>1 DEF NothingElseRuns, ReadInOrder
<1>3. QED
  BY <1>1, <1>2, QuietReads

LEMMA QuietMatchup ==
  ASSUME SliceInv, QuietInv, StartMatchup
  PROVE  QuietInv'
<1>1. PICK m : m = CHOOSE x \in Matchups : x \notin DOMAIN adder.parts
  OBVIOUS
<1>2. /\ UNCHANGED <<disk, rows, proc, finished, undisturbed>> /\ adder.pc = "adding"
      /\ adder'.pc = "reading" /\ adder'.rows = adder.rows /\ adder'.matchup = m
      /\ adder'.left = Parts(m) /\ adder'.sum.scores = <<>>
  BY <1>1 DEF StartMatchup, Nothing
<1>3. NothingElseRuns'
  BY <1>2 DEF QuietInv, NothingElseRuns
<1>4. PICK all : all = Parts(m)
  OBVIOUS
<1>5. \A f \in all : f.start \in Nat
  BY <1>4 DEF Parts, SliceInv, FilesAreNamed
<1>6. ReadUpTo(all, 0, all)
  BY <1>5, EvalAssumption DEF ReadUpTo
<1>7. Parts(m)' = all
  BY <1>2, <1>4 DEF Parts
<1>8. Parts(adder.matchup)' = all
  BY <1>2, <1>4 DEF Parts
<1>9. Len(adder'.sum.scores) = 0
  BY <1>2
<1>10. ReadInOrder'
  BY <1>2, <1>4, <1>6, <1>8, <1>9 DEF ReadInOrder
<1>11. QED
  BY <1>2, <1>3, <1>10, QuietReads

LEMMA QuietFile ==
  ASSUME SliceInv, QuietInv, AddFile
  PROVE  /\ QuietInv'
         /\ undisturbed /\ FinishedPartition(adder.matchup) => adder' # Idle
<1>1. UNCHANGED <<disk, rows, proc, finished, undisturbed>> /\ adder.pc = "reading"
  BY DEF AddFile
<1>2. PICK f, sum :
        /\ f \in adder.left
        /\ sum = AddPart(adder.rows, adder.sum, f)
        /\ \A g \in adder.left \ {f} : Before(f, g)
        /\ adder' = IF sum = Failed THEN Idle ELSE [adder EXCEPT !.left = @ \ {f}, !.sum = sum]
  BY DEF AddFile
<1>3. DOMAIN adder = {"pc", "policy", "rows", "parts", "sum", "matchup", "left"}
  BY <1>1 DEF SliceInv, AdderIsSane
<1>4. CASE sum = Failed
  <2>1. adder' = Idle /\ adder'.pc = "idle"
    BY <1>2, <1>4 DEF Idle
  <2>2. NothingElseRuns' /\ ReadInOrder'
    BY <1>1, <2>1 DEF QuietInv, NothingElseRuns, ReadInOrder
  <2>3. ~(undisturbed /\ FinishedPartition(adder.matchup))
    BY <1>1, <1>2, <1>4, PartIsAdded
  <2>4. QED
    BY <1>1, <2>2, <2>3, QuietReads
<1>5. CASE sum # Failed
  <2>1. PICK a : a = [adder EXCEPT !.left = @ \ {f}, !.sum = sum]
    OBVIOUS
  <2>2. /\ a.pc = "reading" /\ a.rows = adder.rows /\ a.matchup = adder.matchup
        /\ a.left = adder.left \ {f} /\ a.sum = sum
    BY <1>1, <1>3, <2>1
  <2>3. adder' = a
    BY <1>2, <1>5, <2>1
  <2>4. adder' # Idle
    BY <2>2, <2>3 DEF Idle
  <2>5. NothingElseRuns'
    BY <1>1, <2>2, <2>3 DEF QuietInv, NothingElseRuns
  <2>6. PICK all : all = Parts(adder.matchup)
    OBVIOUS
  <2>7. undisturbed /\ FinishedPartition(adder.matchup) => ReadUpTo(a.left, Len(sum.scores), all)
    BY <1>1, <1>2, <2>2, <2>6, PartIsAdded
  <2>8. Parts(adder.matchup)' = all
    BY <1>1, <2>2, <2>3, <2>6 DEF Parts
  <2>9. FinishedPartition(adder.matchup)' <=> FinishedPartition(adder.matchup)
    BY <1>1, <2>2, <2>3 DEF FinishedPartition, Parts
  <2>10. ReadInOrder'
    BY <1>1, <2>2, <2>3, <2>7, <2>8, <2>9 DEF ReadInOrder
  <2>11. QED
    BY <1>1, <2>4, <2>5, <2>10, QuietReads
<1>6. QED
  BY <1>4, <1>5

LEMMA QuietEndMatchup ==
  ASSUME SliceInv, QuietInv, EndMatchup
  PROVE  /\ QuietInv'
         /\ undisturbed /\ FinishedPartition(adder.matchup) => adder' # Idle
<1>1. /\ UNCHANGED <<disk, rows, proc, finished, undisturbed>>
      /\ adder.pc = "reading" /\ adder.left = {}
  BY DEF EndMatchup
<1>1a. /\ adder' = Idle \/ (adder'.pc = "adding" /\ adder'.rows = adder.rows)
       /\ Len(adder.sum.scores) = N => adder'.pc = "adding"
  <2>1. CASE Len(adder.sum.scores) # N
    BY <2>1 DEF EndMatchup
  <2>2. CASE Len(adder.sum.scores) = N
    <3>1. PICK a : a = [pc |-> "adding", policy |-> adder.policy, rows |-> adder.rows,
                        parts |-> Put(adder.parts, adder.matchup, adder.sum)]
      OBVIOUS
    <3>2. adder' = a
      BY <2>2, <3>1 DEF EndMatchup
    <3>3. a.pc = "adding" /\ a.rows = adder.rows
      BY <3>1
    <3>4. QED
      BY <3>2, <3>3
  <2>3. QED
    BY <2>1, <2>2
<1>2. adder'.pc # "reading" /\ (adder'.pc # "idle" => adder'.rows = adder.rows)
  BY <1>1a DEF Idle
<1>3. NothingElseRuns' /\ ReadInOrder'
  BY <1>1, <1>2 DEF QuietInv, NothingElseRuns, ReadInOrder
<1>4. ASSUME undisturbed, FinishedPartition(adder.matchup)  PROVE  adder' # Idle
  <2>1. PICK at, all : at = Len(adder.sum.scores) /\ all = Parts(adder.matchup)
    OBVIOUS
  <2>2. at \in Nat
    <3>1. adder.sum.scores \in Seq(Int \X Int)
      BY <1>1 DEF SliceInv, AdderIsSane, ReadingIsSane, Covers
    <3>2. QED
      BY <2>1, <3>1, LenProperties
  <2>3. ReadUpTo({}, at, all)
    BY <1>1, <1>4, <2>1 DEF QuietInv, ReadInOrder
  <2>4. IsPartition(all)
    BY <1>4, <2>1, PartitionIs
  <2>5. at = N
    BY <2>2, <2>3, <2>4, NothingLeft
  <2>6. QED
    BY <1>1a, <2>1, <2>5 DEF Idle
<1>5. QED
  BY <1>1, <1>3, <1>4, QuietReads

LEMMA QuietReport ==
  ASSUME QuietInv, WriteReport
  PROVE  QuietInv'
<1>1. UNCHANGED <<disk, rows, proc, finished, undisturbed>> /\ adder'.pc = "idle"
  BY DEF WriteReport, Idle
<1>2. NothingElseRuns' /\ ReadInOrder'
  BY <1>1 DEF QuietInv, NothingElseRuns, ReadInOrder
<1>3. QED
  BY <1>1, <1>2, QuietReads

LEMMA QuietNext ==
  SliceInv /\ QuietInv /\ [Next]_eval_vars =>
    /\ QuietInv'
    /\ undisturbed /\ adder.pc = "reading" /\ FinishedPartition(adder.matchup) => adder' # Idle
<1> SUFFICES ASSUME SliceInv, QuietInv, [Next]_eval_vars
             PROVE  /\ QuietInv'
                    /\ undisturbed /\ adder.pc = "reading" /\ FinishedPartition(adder.matchup)
                         => adder' # Idle
  OBVIOUS
<1>0. adder.pc = "reading" => adder # Idle
  BY DEF Idle
<1>1. ASSUME NEW p \in Process, NEW m \in Matchups, NEW s \in Specs, StartSlice(p, m, s)
      PROVE  QuietInv' /\ adder' = adder
  BY <1>1, QuietBegins DEF StartSlice
<1>2. ASSUME NEW p \in Process, OpenScores(p) \/ WriteScores(p)
      PROVE  QuietInv' /\ adder' = adder
  BY <1>2, QuietSaves DEF OpenScores, WriteScores
<1>3. ASSUME NEW p \in Process, AppendRow(p) \/ KillSlice(p)
      PROVE  QuietInv' /\ adder' = adder
  BY <1>3, QuietEnds DEF AppendRow, KillSlice
<1>4. CASE Retrain \/ UNCHANGED eval_vars
  <2>1. UNCHANGED <<disk, rows, proc, adder, finished, undisturbed>>
    BY <1>4 DEF Retrain, eval_vars
  <2>2. QED
    BY <1>0, <2>1, QuietStays
<1>5. CASE StartAggregate \/ StartMatchup \/ WriteReport
  <2>1. adder.pc # "reading"
    <3>1. StartAggregate => adder = Idle
      BY DEF StartAggregate
    <3>2. StartMatchup \/ WriteReport => adder.pc = "adding"
      BY DEF StartMatchup, WriteReport
    <3>3. QED
      BY <1>5, <3>1, <3>2 DEF Idle
  <2>2. QED
    BY <1>5, <2>1, QuietAggregates, QuietMatchup, QuietReport
<1>6. CASE AddFile
  BY <1>6, QuietFile
<1>7. CASE EndMatchup
  BY <1>7, QuietEndMatchup
<1>8. QED
  BY <1>0, <1>1, <1>2, <1>3, <1>4, <1>5, <1>6, <1>7 DEF Next

\* Once every slice of a partition was run to its end, whatever was killed and
\* run again before, the loop over the files of a matchup raises nowhere as long
\* as no slice runs beside it, for any number of seeds, slices and processes
\* (aggregate of src/python/train/evaluate.py).
THEOREM FinishedSlicesAssemble == Spec => FinishedSlicesAggregate
<1>1. Init => QuietInv
  BY QuietInit
<1>2. SliceInv /\ QuietInv /\ [Next]_eval_vars =>
        QuietInv' /\ [undisturbed /\ adder.pc = "reading" /\ FinishedPartition(adder.matchup)
                        => adder' # Idle]_eval_vars
  BY QuietNext
<1>3. QED
  BY <1>1, <1>2, SlicesStaySane, PTL DEF Spec, FinishedSlicesAggregate
=============================================================================
