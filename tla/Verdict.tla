------------------------------ MODULE Verdict ------------------------------
(***************************************************************************)
(* The pinned criterion (build_report of src/python/train/evaluate.py,      *)
(* config.py): from the scores of seven matchups to PASS, MATCH or FAIL.    *)
(*                                                                         *)
(* Means and variances depend only on which part of the matches was won,    *)
(* drawn and lost.  Scores are doubled: win 2, draw 1, loss 0.  The bounds   *)
(* of confidence intervals are compared as the code compares them, rounded   *)
(* to four digits, a tie to the even one, but with exact roots (squares      *)
(* are compared): the errors of doubles are left out.                       *)
(***************************************************************************)
EXTENDS Integers

CONSTANTS
  n_eval, n_idle,               \* matches against a scripted opponent, and against Idle
  idle_lb_min, regress_tol, z,  \* in fiftieths
  Duels, IdleGames              \* results tried, of matchups of the two kinds

\* What slot 0 made of a matchup: [win, draw, loss], in equal shares of its matches.
Result == [win: Nat, draw: Nat, loss: Nat]
Shares(s) == s.win + s.draw + s.loss

ASSUME VerdictAssumption ==
  /\ {n_eval, n_idle} \subseteq Nat \ {0}
  /\ {idle_lb_min, regress_tol, z} \subseteq Nat
  /\ Duels \subseteq Result /\ IdleGames \subseteq Result
  \* Results that are compared are told in the same shares.
  /\ \A a, b \in Duels : Shares(a) = Shares(b)
  /\ \A a, b \in IdleGames : Shares(a) = Shares(b)

\* matchup_table: whose scores are turned around.
InverseView == {"slot1", "idle1", "idle1_base"}

Points(s) == 2 * s.win + s.draw
flipped(s) == [win |-> s.loss, draw |-> s.draw, loss |-> s.win]

\* The variance of the scores, times the square of their shares.
Spread(s) == Shares(s) * (4 * s.win + s.draw) - Points(s) * Points(s)

\* How the square of x compares with that of half the width of an interval of
\* that spread over n matches.  x is a mean, or a difference of two, above a
\* limit, in units in which 1 is 100 * shares.
Margin(x, spread, n) == x * x * (n - 1) - z * z * spread

\* Half of the last digit is shares / 200 of these units.  x, less the half width,
\* is more than that: to four digits, the lower bound is above the limit.  The
\* limit is an even number of last digits, and a tie is rounded to it.
\*   (x - shares / 200)^2 * (n - 1) > z^2 * spread
Beyond(x, shares, spread, n) ==
  /\ 200 * x > shares
  /\ Margin(x, spread, n) > (shares * (400 * x - shares) * (n - 1)) \div 40000

\* Likewise, with half a digit to spare: to four digits it is at least the limit.
Reaches(x, shares, spread, n) ==
  /\ 200 * x + shares >= 0
  /\ Margin(x, spread, n) >= -((shares * (400 * x + shares) * (n - 1)) \div 40000)

\* delta_ci of matchups of n matches each: the lower bound is above limit, the
\* interval contains zero.
lb_above(n, a, b, limit) ==
  Beyond(50 * (Points(a) - Points(b)) - 2 * Shares(a) * limit, Shares(a), Spread(a) + Spread(b), n)
delta_has_zero(n, a, b) == ~lb_above(n, a, b, 0) /\ ~lb_above(n, b, a, 0)

\* mean_ci: the lower bound is at least limit.
mean_lb_at_least(n, a, limit) ==
  Reaches(50 * Points(a) - 2 * Shares(a) * limit, Shares(a), Spread(a), n)

\* Mutant: only the matchups against scripted opponents are turned around.
view_NotIdle(scores, m) == IF m = "slot1" THEN flipped(scores[m]) ELSE scores[m]

view(scores, m) == IF m \in InverseView THEN flipped(scores[m]) ELSE scores[m]

\* build_report: illegal is the number of illegal actions over all matchups.
verdict_of(scores, illegal) ==
  LET v(m)  == view(scores, m)
      base1 == flipped(scores["base"])
      idle_ok == /\ mean_lb_at_least(n_idle, v("idle0"), idle_lb_min)
                 /\ lb_above(n_idle, v("idle0"), v("idle0_base"), -regress_tol)
                 /\ lb_above(n_idle, v("idle1"), v("idle1_base"), -regress_tol)
      no_regress == /\ lb_above(n_eval, v("slot0"), scores["base"], -regress_tol)
                    /\ lb_above(n_eval, v("slot1"), base1, -regress_tol)
      strict_improve == \/ lb_above(n_eval, v("slot0"), scores["base"], 0)
                        \/ lb_above(n_eval, v("slot1"), base1, 0)
      contains_zero == /\ delta_has_zero(n_eval, v("slot0"), scores["base"])
                       /\ delta_has_zero(n_eval, v("slot1"), base1)
  IN  IF illegal > 0 \/ ~idle_ok THEN "FAIL"
      ELSE IF no_regress /\ strict_improve THEN "PASS"
      ELSE IF contains_zero THEN "MATCH" ELSE "FAIL"

-----------------------------------------------------------------------------
(* Properties.                                                             *)

\* What play_matchup scores, always for slot 0, if own is what the policies in
\* question made of it, each in its own slot (base: slot 0).
ScoresOf(own) ==
  [m \in DOMAIN own |->
     IF m \in {"slot1", "idle1", "idle1_base"}
     THEN [win |-> own[m].loss, draw |-> own[m].draw, loss |-> own[m].win] ELSE own[m]]

\* The mean of a is worse than that of b by more than the tolerance.
Regresses(a, b) == 50 * (Points(b) - Points(a)) > 2 * Shares(a) * regress_tol

\* The absolute bar: the mean against Idle, to four digits.
Decided(a) == 200 * (50 * Points(a) - 2 * Shares(a) * idle_lb_min) + Shares(a) >= 0

\* The criterion of config.py:20-40 in terms of what a policy makes of its own
\* slot: it passes only if it is in no slot worse than the scripted policy in
\* that slot, and better in one, decides its games against Idle, and only
\* without an illegal action.
PassIsNoWorse(own) ==
  LET scripted1 == flipped(own["base"])
      passes(illegal) == verdict_of(ScoresOf(own), illegal) = "PASS"
  IN  /\ ~passes(1)
      /\ passes(0) =>
           /\ ~Regresses(own["slot0"], own["base"]) /\ ~Regresses(own["slot1"], scripted1)
           /\ ~Regresses(own["idle0"], own["idle0_base"])
           /\ ~Regresses(own["idle1"], own["idle1_base"])
           /\ Decided(own["idle0"])
           /\ \/ Points(own["slot0"]) > Points(own["base"])
              \/ Points(own["slot1"]) > Points(scripted1)

\* A policy that plays as the scripted one does.
AsScripted(base, idle0, idle1) ==
  [base |-> base, slot0 |-> base, slot1 |-> flipped(base), idle0 |-> idle0, idle0_base |-> idle0,
   idle1 |-> idle1, idle1_base |-> idle1]

\* Half the width of an interval between two matchups like s is below the
\* tolerance, to four digits.
Tight(s) == Beyond(2 * Shares(s) * regress_tol, Shares(s), 2 * Spread(s), n_idle)

\* "Beats-or-matches": it matches if its games against Idle were decided enough,
\* and if not, it fails for the width of the interval alone.
ReferenceMatches(base, idle0, idle1) ==
  verdict_of(ScoresOf(AsScripted(base, idle0, idle1)), 0) =
    IF mean_lb_at_least(n_idle, idle0, idle_lb_min) /\ Tight(idle0) /\ Tight(idle1)
    THEN "MATCH" ELSE "FAIL"

\* The reference policy is held to no bar it cannot meet: where it meets the
\* absolute one, a policy that plays exactly as it does does not fail.
ReferenceFeasible ==
  \A base \in Duels, idle0, idle1 \in IdleGames :
    mean_lb_at_least(n_idle, idle0, idle_lb_min) =>
      verdict_of(ScoresOf(AsScripted(base, idle0, idle1)), 0) # "FAIL"

\* The verdict speaks of the policy that was tested, whichever slot it had: of
\* all results tried, none passes that is worse than the scripted policy's, and
\* a policy that plays like it matches where the tolerance lets it.
VerdictSpeaksOfPolicy ==
  /\ \A base, slot0, slot1 \in Duels, idle0, idle0_base, idle1, idle1_base \in IdleGames :
       PassIsNoWorse([base |-> base, slot0 |-> slot0, slot1 |-> slot1, idle0 |-> idle0,
                      idle0_base |-> idle0_base, idle1 |-> idle1, idle1_base |-> idle1_base])
  /\ \A base \in Duels, idle0, idle1 \in IdleGames : ReferenceMatches(base, idle0, idle1)
=============================================================================
