------------------------- MODULE DifferentialProofs -------------------------
(***************************************************************************)
(* Proofs about hits and about the harness that compares them: for every   *)
(* pair of units the loader lets through, any number of trials and any     *)
(* random numbers.                                                         *)
(***************************************************************************)
EXTENDS Differential, TLAPS

-----------------------------------------------------------------------------
(* The two models' tables.                                                 *)

\* A number from lo to hi.
Within(lo, x, hi) == x \in Int /\ lo <= x /\ x <= hi

\* A row of the oracle ends where the same row of the simulator ends, whatever
\* the chance c: the oracle clamps it to 0..10000 first and then to what is
\* left, the simulator clamps it to 0 and then the end of the row.
LEMMA FillsWhatIsLeft ==
  ASSUME NEW acc, Within(0, acc, 10000), NEW c \in Int
  PROVE  /\ Within(acc, Fill(acc, pm_clamp0(c)), 10000)
         /\ Left(acc, clamp_chance(c)) = Fill(acc, pm_clamp0(c)) - acc
  BY DEF Fill, Left, pm_clamp0, clamp_chance, Within

\* A row that is not there has no width in either.
LEMMA FillsNothing ==
  ASSUME NEW acc, Within(0, acc, 10000)
  PROVE  Fill(acc, 0) = acc /\ Left(acc, 0) = 0
  BY DEF Fill, Left, Within

LEMMA RollsAreMyriad ==
  ASSUME NEW roll \in Myriad
  PROVE  roll \in Int /\ 0 <= roll /\ roll < 10000
  BY DEF Myriad

\* The chances before they are clamped.
skill_pm(a, d)  == 4 * (d.defense_skill - a.weapon_skill)
raw_miss(a, d)  == 500 + skill_pm(a, d) - a.hit_pm
raw_dodge(a, d) == d.dodge_pm + skill_pm(a, d)
raw_parry(a, d) == d.parry_pm + skill_pm(a, d)
raw_block(a, d) == d.block_pm + skill_pm(a, d)
raw_crit(a, d)  == a.crit_pm + 4 * (350 - d.defense_skill)

LEMMA RawChances ==
  ASSUME NEW a \in HitStats, NEW d \in HitStats
  PROVE  /\ raw_miss(a, d) \in Int /\ raw_dodge(a, d) \in Int /\ raw_parry(a, d) \in Int
         /\ raw_block(a, d) \in Int /\ raw_crit(a, d) \in Int /\ d.has_shield \in BOOLEAN
         /\ chance_miss_pm(a, d) = pm_clamp0(raw_miss(a, d))
         /\ chance_dodge_pm(a, d) = pm_clamp0(raw_dodge(a, d))
         /\ chance_parry_pm(a, d) = pm_clamp0(raw_parry(a, d))
         /\ chance_block_pm(a, d) = pm_clamp0(raw_block(a, d))
         /\ chance_crit_pm(a, d) = pm_clamp0(raw_crit(a, d))
<1>1. /\ a.weapon_skill \in Int /\ d.defense_skill \in Int /\ a.hit_pm \in Int /\ a.level = 70
      /\ d.dodge_pm \in Int /\ d.parry_pm \in Int /\ d.block_pm \in Int /\ a.crit_pm \in Int
      /\ d.has_shield \in BOOLEAN
  BY DEF HitStats
<1>2. /\ raw_miss(a, d) \in Int /\ raw_dodge(a, d) \in Int /\ raw_parry(a, d) \in Int
      /\ raw_block(a, d) \in Int /\ raw_crit(a, d) \in Int
  BY <1>1 DEF raw_miss, raw_dodge, raw_parry, raw_block, raw_crit, skill_pm
<1>3. /\ BASE_MISS_PM + delta_pm(d, a.weapon_skill) - a.hit_pm = raw_miss(a, d)
      /\ d.dodge_pm + delta_pm(d, a.weapon_skill) = raw_dodge(a, d)
      /\ d.parry_pm + delta_pm(d, a.weapon_skill) = raw_parry(a, d)
      /\ d.block_pm + delta_pm(d, a.weapon_skill) = raw_block(a, d)
      /\ a.crit_pm - delta_pm(d, 5 * a.level) = raw_crit(a, d)
  BY <1>1 DEF raw_miss, raw_dodge, raw_parry, raw_block, raw_crit, skill_pm, delta_pm,
              BASE_MISS_PM, SKILL_DELTA_PM_PER_POINT
<1>4. QED
  BY <1>1, <1>2, <1>3 DEF chance_miss_pm, chance_dodge_pm, chance_parry_pm, chance_block_pm, chance_crit_pm

LEMMA RawEffective ==
  ASSUME NEW a \in HitStats, NEW d \in HitStats, NEW f \in BOOLEAN
  PROVE  /\ eff_miss(a, d) = clamp_chance(raw_miss(a, d))
         /\ f => /\ eff_dodge(a, d, f) = clamp_chance(raw_dodge(a, d))
                 /\ eff_parry(a, d, f) = clamp_chance(raw_parry(a, d))
         /\ ~f => eff_dodge(a, d, f) = 0 /\ eff_parry(a, d, f) = 0
         /\ f /\ d.has_shield => eff_block(a, d, f) = clamp_chance(raw_block(a, d))
         /\ ~(f /\ d.has_shield) => eff_block(a, d, f) = 0
         /\ eff_crit(a, d) = clamp_chance(raw_crit(a, d))
<1>1. /\ a.weapon_skill \in Int /\ d.defense_skill \in Int /\ a.hit_pm \in Int /\ a.level = 70
      /\ d.dodge_pm \in Int /\ d.parry_pm \in Int /\ d.block_pm \in Int /\ a.crit_pm \in Int
  BY DEF HitStats
<1>2. /\ 500 + Skill(d.defense_skill - a.weapon_skill) - a.hit_pm = raw_miss(a, d)
      /\ d.dodge_pm + Skill(d.defense_skill - a.weapon_skill) = raw_dodge(a, d)
      /\ d.parry_pm + Skill(d.defense_skill - a.weapon_skill) = raw_parry(a, d)
      /\ d.block_pm + Skill(d.defense_skill - a.weapon_skill) = raw_block(a, d)
      /\ a.crit_pm + Skill(5 * a.level - d.defense_skill) = raw_crit(a, d)
  BY <1>1 DEF raw_miss, raw_dodge, raw_parry, raw_block, raw_crit, skill_pm, Skill
<1>3. QED
  BY <1>2 DEF eff_miss, eff_dodge, eff_parry, eff_block, eff_crit

\* The ends of the rows, and the widths they make.
Ends(t) ==
  /\ Within(0, t.Miss, t.Dodge) /\ Within(t.Miss, t.Dodge, t.Parry)
  /\ Within(t.Dodge, t.Parry, t.Block) /\ Within(t.Parry, t.Block, t.Crit)
  /\ Within(t.Block, t.Crit, 10000)

WidthsOf(t) ==
  [Miss |-> t.Miss, Dodge |-> t.Dodge - t.Miss, Parry |-> t.Parry - t.Dodge,
   Block |-> t.Block - t.Parry, Crit |-> t.Crit - t.Block, Hit |-> 10000 - t.Crit]

\* The white tables have the same rows.
LEMMA SameWhite ==
  ASSUME NEW a \in HitStats, NEW d \in HitStats, NEW f \in BOOLEAN
  PROVE  /\ Ends(build_attack_table(a, d, f))
         /\ build_table(a, d, f) = WidthsOf(build_attack_table(a, d, f))
<1> DEFINE e1 == Fill(0, chance_miss_pm(a, d))
           e2 == Fill(e1, IF f THEN chance_dodge_pm(a, d) ELSE 0)
           e3 == Fill(e2, IF f THEN chance_parry_pm(a, d) ELSE 0)
           e4 == Fill(e3, IF f /\ d.has_shield THEN chance_block_pm(a, d) ELSE 0)
           e5 == Fill(e4, chance_crit_pm(a, d))
           o1 == Left(0, eff_miss(a, d))
           o2 == Left(o1, eff_dodge(a, d, f))
           o3 == Left(o1 + o2, eff_parry(a, d, f))
           o4 == Left(o1 + o2 + o3, eff_block(a, d, f))
           o5 == Left(o1 + o2 + o3 + o4, eff_crit(a, d))
<1> HIDE DEF e1, e2, e3, e4, e5, o1, o2, o3, o4, o5
<1>1. Within(0, e1, 10000) /\ o1 = e1
  <2>1. Within(0, 0, 10000)
    BY DEF Within
  <2>2. Within(0, e1, 10000) /\ o1 = e1 - 0
    BY <2>1, RawChances, RawEffective, FillsWhatIsLeft DEF e1, o1
  <2>3. QED
    BY <2>2 DEF Within
<1>2. Within(e1, e2, 10000) /\ o2 = e2 - e1
  <2>1. CASE f
    <3>1. e2 = Fill(e1, pm_clamp0(raw_dodge(a, d))) /\ raw_dodge(a, d) \in Int
      BY <2>1, RawChances DEF e2
    <3>2. o2 = Left(e1, clamp_chance(raw_dodge(a, d)))
      <4>1. eff_dodge(a, d, f) = clamp_chance(raw_dodge(a, d))
        BY <2>1, RawEffective, Zenon
      <4>2. QED
        BY <1>1, <4>1 DEF o2
    <3>3. QED
      BY <3>1, <3>2, <1>1, FillsWhatIsLeft
  <2>2. CASE ~f
    BY <2>2, <1>1, RawEffective, FillsNothing DEF e2, o2, Within
  <2>3. QED
    BY <2>1, <2>2
<1>3. Within(e2, e3, 10000) /\ o3 = e3 - e2
  <2>1. Within(0, e2, 10000) /\ o1 + o2 = e2
    BY <1>1, <1>2 DEF Within
  <2>2. CASE f
    <3>1. e3 = Fill(e2, pm_clamp0(raw_parry(a, d))) /\ raw_parry(a, d) \in Int
      BY <2>2, RawChances DEF e3
    <3>2. o3 = Left(e2, clamp_chance(raw_parry(a, d)))
      <4>1. eff_parry(a, d, f) = clamp_chance(raw_parry(a, d))
        BY <2>2, RawEffective, Zenon
      <4>2. QED
        BY <1>1, <2>1, <4>1 DEF o3
    <3>3. QED
      BY <3>1, <3>2, <2>1, FillsWhatIsLeft
  <2>3. CASE ~f
    BY <2>1, <2>3, RawEffective, FillsNothing DEF e3, o3, Within
  <2>4. QED
    BY <2>2, <2>3
<1>4. Within(e3, e4, 10000) /\ o4 = e4 - e3
  <2>1. Within(0, e3, 10000) /\ o1 + o2 + o3 = e3
    BY <1>1, <1>2, <1>3 DEF Within
  <2>2. CASE f /\ d.has_shield
    <3>1. e4 = Fill(e3, pm_clamp0(raw_block(a, d))) /\ raw_block(a, d) \in Int
      BY <2>2, RawChances DEF e4
    <3>2. o4 = Left(e3, clamp_chance(raw_block(a, d)))
      <4>1. eff_block(a, d, f) = clamp_chance(raw_block(a, d))
        BY <2>2, RawEffective, Zenon
      <4>2. QED
        BY <1>1, <2>1, <4>1 DEF o4
    <3>3. QED
      BY <3>1, <3>2, <2>1, FillsWhatIsLeft
  <2>3. CASE ~(f /\ d.has_shield)
    BY <2>1, <2>3, RawEffective, FillsNothing DEF e4, o4, Within
  <2>4. QED
    BY <2>2, <2>3
<1>5. Within(e4, e5, 10000) /\ o5 = e5 - e4
  <2>1. Within(0, e4, 10000) /\ o1 + o2 + o3 + o4 = e4
    BY <1>1, <1>2, <1>3, <1>4 DEF Within
  <2>2. QED
    BY <2>1, RawChances, RawEffective, FillsWhatIsLeft DEF e5, o5
<1>6. build_attack_table(a, d, f) = [Miss |-> e1, Dodge |-> e2, Parry |-> e3, Block |-> e4, Crit |-> e5]
  BY DEF build_attack_table, e1, e2, e3, e4, e5
<1>7. build_table(a, d, f) = [Miss |-> o1, Dodge |-> o2, Parry |-> o3, Block |-> o4, Crit |-> o5,
                              Hit |-> 10000 - (o1 + o2 + o3 + o4 + o5)]
  BY DEF build_table, o1, o2, o3, o4, o5
<1>8. /\ 10000 - (o1 + o2 + o3 + o4 + o5) = 10000 - e5
      /\ Within(0, e1, e2) /\ Within(e1, e2, e3) /\ Within(e2, e3, e4) /\ Within(e3, e4, e5)
  BY <1>1, <1>2, <1>3, <1>4, <1>5 DEF Within
<1>9. QED
  BY <1>1, <1>2, <1>3, <1>4, <1>5, <1>6, <1>7, <1>8 DEF Ends, WidthsOf

\* And so have the abilities' tables.
LEMMA SameYellow ==
  ASSUME NEW a \in HitStats, NEW d \in HitStats, NEW f \in BOOLEAN
  PROVE  LET t == build_attack_table(a, d, f)
         IN  /\ build_yellow_table(a, d, f) = [Miss |-> t.Miss, Dodge |-> t.Dodge, Parry |-> t.Parry]
             /\ build_yellow(a, d, f) = [Miss |-> t.Miss, Dodge |-> t.Dodge - t.Miss,
                                         Parry |-> t.Parry - t.Dodge, Hit |-> 10000 - t.Parry]
<1> DEFINE t == build_attack_table(a, d, f)
           w == build_table(a, d, f)
<1>1. build_yellow_table(a, d, f) = [Miss |-> t.Miss, Dodge |-> t.Dodge, Parry |-> t.Parry]
  BY DEF build_yellow_table, build_attack_table
<1>2. build_yellow(a, d, f) = [Miss |-> w.Miss, Dodge |-> w.Dodge, Parry |-> w.Parry,
                               Hit |-> 10000 - (w.Miss + w.Dodge + w.Parry)]
  <2> DEFINE o1 == Left(0, eff_miss(a, d))
             o2 == Left(o1, eff_dodge(a, d, f))
             o3 == Left(o1 + o2, eff_parry(a, d, f))
             o4 == Left(o1 + o2 + o3, eff_block(a, d, f))
             o5 == Left(o1 + o2 + o3 + o4, eff_crit(a, d))
  <2> HIDE DEF t, w, o1, o2, o3, o4, o5
  <2>1. w = [Miss |-> o1, Dodge |-> o2, Parry |-> o3, Block |-> o4, Crit |-> o5,
             Hit |-> 10000 - (o1 + o2 + o3 + o4 + o5)]
    BY DEF w, build_table, o1, o2, o3, o4, o5
  <2>2. build_yellow(a, d, f) = [Miss |-> o1, Dodge |-> o2, Parry |-> o3,
                                 Hit |-> 10000 - (o1 + o2 + o3)]
    BY DEF build_yellow, o1, o2, o3
  <2>3. w.Miss = o1 /\ w.Dodge = o2 /\ w.Parry = o3
    BY ONLY <2>1
  <2>4. QED
    BY ONLY <2>2, <2>3
<1>0. Ends(t) /\ w = WidthsOf(t)
  BY SameWhite
<1> HIDE DEF t, w
<1>3. /\ w.Miss = t.Miss /\ w.Dodge = t.Dodge - t.Miss /\ w.Parry = t.Parry - t.Dodge
      /\ t.Miss \in Int /\ t.Dodge \in Int /\ t.Parry \in Int
  BY ONLY <1>0 DEF WidthsOf, Ends, Within
<1>4. w.Miss + w.Dodge + w.Parry = t.Parry
  BY <1>3
<1>5. QED
  BY <1>1, <1>2, <1>3, <1>4 DEF t

-----------------------------------------------------------------------------
(* The two models' dice.                                                   *)

\* g sums up the widths w in that order, and so tells where the rows end.
SumsUp(g, w, order) ==
  g = [k \in 0..Len(order) |-> IF k = 0 THEN 0 ELSE g[k - 1] + w[order[k]]]
RowsEnd(g, w, order, len) ==
  /\ Len(order) = len /\ SumsUp(g, w, order) /\ \A e : SumsUp(e, w, order) => e = g
  /\ \A j \in 0..len : g[j] \in Int
  /\ \A j \in 1..len : w[order[j]] = g[j] - g[j - 1]
  /\ \A j, k \in 0..len : j <= k => g[j] <= g[k]

\* The die stops at row k if it is beyond the rows before it and not beyond k.
Stops(g, w, order, len) ==
  \A die \in Int, k \in 1..len :
    g[k - 1] < die /\ die <= g[k] => outcome_of(w, order, die) = order[k]

LEMMA DieStops ==
  ASSUME NEW w, NEW order, NEW len \in Nat, NEW g, RowsEnd(g, w, order, len)
  PROVE  Stops(g, w, order, len)
<1> SUFFICES ASSUME NEW die \in Int, NEW k \in 1..len, g[k - 1] < die, die <= g[k]
             PROVE  outcome_of(w, order, die) = order[k]
  BY DEF Stops
<1> DEFINE end     == CHOOSE e : e = [j \in 0..Len(order) |-> IF j = 0 THEN 0 ELSE e[j - 1] + w[order[j]]]
           reached == {j \in 1..len : w[order[j]] > 0 /\ die <= g[j]}
           least   == CHOOSE j \in reached : \A other \in reached : j <= other
<1>1. end = g
  BY DEF SumsUp, RowsEnd
<1>2. outcome_of(w, order, die) = IF reached = {} THEN "Hit" ELSE order[least]
  <2>1. outcome_of(w, order, die)
          = LET there == {j \in 1..Len(order) : w[order[j]] > 0 /\ die <= end[j]}
            IN  IF there = {} THEN "Hit"
                ELSE order[CHOOSE j \in there : \A other \in there : j <= other]
    BY DEF outcome_of
  <2> HIDE DEF end
  <2>2. QED
    BY <1>1, <2>1 DEF RowsEnd
<1>3. k - 1 \in 0..len /\ k \in 0..len
  OBVIOUS
<1>4. w[order[k]] > 0
  <2>1. g[k] \in Int /\ g[k - 1] \in Int
    BY <1>3 DEF RowsEnd
  <2>2. w[order[k]] = g[k] - g[k - 1]
    BY DEF RowsEnd
  <2>3. QED
    BY <2>1, <2>2
<1>5. k \in reached
  BY <1>4
<1>6. \A j \in reached : k <= j
  <2>1. SUFFICES ASSUME NEW j \in reached, j < k PROVE FALSE
    OBVIOUS
  <2>2. j <= k - 1 /\ j \in 0..len /\ die <= g[j]
    BY <2>1
  <2>3. g[j] <= g[k - 1] /\ g[j] \in Int /\ g[k - 1] \in Int
    BY <1>3, <2>2 DEF RowsEnd
  <2>4. QED
    BY <2>2, <2>3
<1>7. least = k
  BY <1>5, <1>6
<1>8. QED
  BY <1>2, <1>5, <1>7

LEMMA WhiteDie ==
  ASSUME NEW t, Ends(t), NEW roll \in Int, 0 <= roll, roll < 10000
  PROVE  classify(t, roll) = outcome_of(WidthsOf(t), RowNames("white"), roll + 1)
<1> DEFINE order == RowNames("white")
           w     == WidthsOf(t)
           g     == [k \in 0..6 |-> CASE k = 0 -> 0 [] k = 1 -> t.Miss [] k = 2 -> t.Dodge
                                      [] k = 3 -> t.Parry [] k = 4 -> t.Block [] k = 5 -> t.Crit
                                      [] k = 6 -> 10000]
<1>1. /\ Len(order) = 6 /\ order[1] = "Miss" /\ order[2] = "Dodge" /\ order[3] = "Parry"
      /\ order[4] = "Block" /\ order[5] = "Crit" /\ order[6] = "Hit"
  BY DEF RowNames
<1>2. /\ w["Miss"] = t.Miss /\ w["Dodge"] = t.Dodge - t.Miss /\ w["Parry"] = t.Parry - t.Dodge
      /\ w["Block"] = t.Block - t.Parry /\ w["Crit"] = t.Crit - t.Block /\ w["Hit"] = 10000 - t.Crit
  BY DEF WidthsOf
<1>3. /\ t.Miss \in Int /\ t.Dodge \in Int /\ t.Parry \in Int /\ t.Block \in Int /\ t.Crit \in Int
      /\ 0 <= t.Miss /\ t.Miss <= t.Dodge /\ t.Dodge <= t.Parry /\ t.Parry <= t.Block
      /\ t.Block <= t.Crit /\ t.Crit <= 10000
  BY DEF Ends, Within
<1>4. /\ g[0] = 0 /\ g[1] = t.Miss /\ g[2] = t.Dodge /\ g[3] = t.Parry /\ g[4] = t.Block
      /\ g[5] = t.Crit /\ g[6] = 10000
  OBVIOUS
<1> HIDE DEF order, w
<1>5. SumsUp(g, w, order)
  <2>1. \A k \in 0..6 : g[k] = IF k = 0 THEN 0 ELSE g[k - 1] + w[order[k]]
    <3>1. TAKE k \in 0..6
    <3> HIDE DEF g
    <3>2. \/ k = 0 \/ k = 1 \/ k = 2 \/ k = 3 \/ k = 4 \/ k = 5 \/ k = 6
      OBVIOUS
    <3>3. QED
      BY <1>1, <1>2, <1>3, <1>4, <3>2
  <2>2. QED
    BY <1>1, <2>1 DEF SumsUp
<1>6. ASSUME NEW e, SumsUp(e, w, order)
      PROVE  e = g
  <2>1. /\ e = [k \in 0..6 |-> e[k]]
        /\ \A k \in 0..6 : e[k] = IF k = 0 THEN 0 ELSE e[k - 1] + w[order[k]]
    BY <1>1, <1>6 DEF SumsUp
  <2>2. e[0] = 0
    BY <2>1
  <2>3. e[1] = t.Miss
    BY <1>1, <1>2, <1>3, <2>1, <2>2
  <2>4. e[2] = t.Dodge
    BY <1>1, <1>2, <1>3, <2>1, <2>3
  <2>5. e[3] = t.Parry
    BY <1>1, <1>2, <1>3, <2>1, <2>4
  <2>6. e[4] = t.Block
    BY <1>1, <1>2, <1>3, <2>1, <2>5
  <2>7. e[5] = t.Crit
    BY <1>1, <1>2, <1>3, <2>1, <2>6
  <2>8. e[6] = 10000
    BY <1>1, <1>2, <1>3, <2>1, <2>7
  <2>9. \A k \in 0..6 : e[k] = g[k]
    BY <1>4, <2>2, <2>3, <2>4, <2>5, <2>6, <2>7, <2>8
  <2>10. g = [k \in 0..6 |-> g[k]]
    OBVIOUS
  <2> HIDE DEF g
  <2>11. QED
    BY <2>1, <2>9, <2>10
<1> HIDE DEF g
<1>7. \A j \in 0..6 : g[j] \in Int
  BY <1>3, <1>4
<1>8. \A j, k \in 0..6 : j <= k => g[j] <= g[k]
  BY <1>3, <1>4
<1>9. \A j \in 1..6 : w[order[j]] = g[j] - g[j - 1]
  <2>1. TAKE j \in 1..6
  <2>2. j = 1 \/ j = 2 \/ j = 3 \/ j = 4 \/ j = 5 \/ j = 6
    OBVIOUS
  <2>3. QED
    BY <1>1, <1>2, <1>3, <1>4, <2>2
<1>10. ASSUME NEW k \in 1..6, g[k - 1] < roll + 1, roll + 1 <= g[k]
       PROVE  outcome_of(w, order, roll + 1) = order[k]
  <2>1. RowsEnd(g, w, order, 6)
    BY <1>1, <1>5, <1>6, <1>7, <1>8, <1>9 DEF RowsEnd
  <2>2. 6 \in Nat /\ roll + 1 \in Int
    OBVIOUS
  <2>3. Stops(g, w, order, 6)
    BY ONLY <2>1, <2>2, DieStops
  <2>4. QED
    BY <1>10, <2>2, <2>3 DEF Stops
<1>11. /\ roll < t.Miss => outcome_of(w, order, roll + 1) = "Miss"
       /\ t.Miss <= roll /\ roll < t.Dodge => outcome_of(w, order, roll + 1) = "Dodge"
       /\ t.Dodge <= roll /\ roll < t.Parry => outcome_of(w, order, roll + 1) = "Parry"
       /\ t.Parry <= roll /\ roll < t.Block => outcome_of(w, order, roll + 1) = "Block"
       /\ t.Block <= roll /\ roll < t.Crit => outcome_of(w, order, roll + 1) = "Crit"
       /\ t.Crit <= roll => outcome_of(w, order, roll + 1) = "Hit"
  BY <1>1, <1>3, <1>4, <1>10
<1>12. QED
  BY <1>3, <1>11 DEF classify, w, order

\* The order of the abilities' rows.
YellowOrder == <<"Miss", "Dodge", "Parry", "Hit">>

LEMMA YellowDie ==
  ASSUME NEW t, Ends(t), NEW roll \in Int, 0 <= roll, roll < 10000
  PROVE  LET y == [Miss |-> t.Miss, Dodge |-> t.Dodge, Parry |-> t.Parry]
             w == [Miss |-> t.Miss, Dodge |-> t.Dodge - t.Miss, Parry |-> t.Parry - t.Dodge,
                   Hit |-> 10000 - t.Parry]
         IN  classify_yellow(y, roll) = outcome_of(w, YellowOrder, roll + 1)
<1> DEFINE y     == [Miss |-> t.Miss, Dodge |-> t.Dodge, Parry |-> t.Parry]
           order == YellowOrder
           w     == [Miss |-> t.Miss, Dodge |-> t.Dodge - t.Miss, Parry |-> t.Parry - t.Dodge,
                     Hit |-> 10000 - t.Parry]
           g     == [k \in 0..4 |-> CASE k = 0 -> 0 [] k = 1 -> t.Miss [] k = 2 -> t.Dodge
                                      [] k = 3 -> t.Parry [] k = 4 -> 10000]
<1>1. /\ Len(order) = 4 /\ order[1] = "Miss" /\ order[2] = "Dodge" /\ order[3] = "Parry"
      /\ order[4] = "Hit"
  BY DEF YellowOrder
<1>2. /\ w["Miss"] = t.Miss /\ w["Dodge"] = t.Dodge - t.Miss /\ w["Parry"] = t.Parry - t.Dodge
      /\ w["Hit"] = 10000 - t.Parry
  OBVIOUS
<1>3. /\ t.Miss \in Int /\ t.Dodge \in Int /\ t.Parry \in Int
      /\ 0 <= t.Miss /\ t.Miss <= t.Dodge /\ t.Dodge <= t.Parry /\ t.Parry <= 10000
  BY DEF Ends, Within
<1>4. g[0] = 0 /\ g[1] = t.Miss /\ g[2] = t.Dodge /\ g[3] = t.Parry /\ g[4] = 10000
  OBVIOUS
<1> HIDE DEF order, w
<1>5. SumsUp(g, w, order)
  <2>1. \A k \in 0..4 : g[k] = IF k = 0 THEN 0 ELSE g[k - 1] + w[order[k]]
    <3>1. TAKE k \in 0..4
    <3> HIDE DEF g
    <3>2. k = 0 \/ k = 1 \/ k = 2 \/ k = 3 \/ k = 4
      OBVIOUS
    <3>3. QED
      BY <1>1, <1>2, <1>3, <1>4, <3>2
  <2>2. QED
    BY <1>1, <2>1 DEF SumsUp
<1>6. ASSUME NEW e, SumsUp(e, w, order)
      PROVE  e = g
  <2>1. /\ e = [k \in 0..4 |-> e[k]]
        /\ \A k \in 0..4 : e[k] = IF k = 0 THEN 0 ELSE e[k - 1] + w[order[k]]
    BY <1>1, <1>6 DEF SumsUp
  <2>2. e[0] = 0
    BY <2>1
  <2>3. e[1] = t.Miss
    BY <1>1, <1>2, <1>3, <2>1, <2>2
  <2>4. e[2] = t.Dodge
    BY <1>1, <1>2, <1>3, <2>1, <2>3
  <2>5. e[3] = t.Parry
    BY <1>1, <1>2, <1>3, <2>1, <2>4
  <2>6. e[4] = 10000
    BY <1>1, <1>2, <1>3, <2>1, <2>5
  <2>7. \A k \in 0..4 : e[k] = g[k]
    BY <1>4, <2>2, <2>3, <2>4, <2>5, <2>6
  <2>8. g = [k \in 0..4 |-> g[k]]
    OBVIOUS
  <2> HIDE DEF g
  <2>9. QED
    BY <2>1, <2>7, <2>8
<1> HIDE DEF g
<1>7. \A j \in 0..4 : g[j] \in Int
  BY <1>3, <1>4
<1>8. \A j, k \in 0..4 : j <= k => g[j] <= g[k]
  BY <1>3, <1>4
<1>9. \A j \in 1..4 : w[order[j]] = g[j] - g[j - 1]
  <2>1. TAKE j \in 1..4
  <2>2. j = 1 \/ j = 2 \/ j = 3 \/ j = 4
    OBVIOUS
  <2>3. QED
    BY <1>1, <1>2, <1>3, <1>4, <2>2
<1>10. ASSUME NEW k \in 1..4, g[k - 1] < roll + 1, roll + 1 <= g[k]
       PROVE  outcome_of(w, order, roll + 1) = order[k]
  <2>1. RowsEnd(g, w, order, 4)
    BY <1>1, <1>5, <1>6, <1>7, <1>8, <1>9 DEF RowsEnd
  <2>2. 4 \in Nat /\ roll + 1 \in Int
    OBVIOUS
  <2>3. Stops(g, w, order, 4)
    BY ONLY <2>1, <2>2, DieStops
  <2>4. QED
    BY <1>10, <2>2, <2>3 DEF Stops
<1>11. /\ roll < t.Miss => outcome_of(w, order, roll + 1) = "Miss"
       /\ t.Miss <= roll /\ roll < t.Dodge => outcome_of(w, order, roll + 1) = "Dodge"
       /\ t.Dodge <= roll /\ roll < t.Parry => outcome_of(w, order, roll + 1) = "Parry"
       /\ t.Parry <= roll => outcome_of(w, order, roll + 1) = "Hit"
  BY <1>1, <1>3, <1>4, <1>10
<1>12. QED
  BY <1>3, <1>11 DEF classify_yellow, w, order

-----------------------------------------------------------------------------
(* Every row of the reports.                                               *)

LEMMA RowIs ==
  ASSUME NEW row \in Rows
  PROVE  \/ row[1] = "white" /\ row[2] \in {"Miss", "Dodge", "Parry", "Block", "Crit", "Hit"}
         \/ row[1] # "white" /\ row[2] \in {"Miss", "Dodge", "Parry", "Hit", "crit|hit", "block|hit"}
<1>1. PICK j \in 1..6 : RowNames(row[1])[j] = row[2]
  BY DEF Rows
<1>2. j = 1 \/ j = 2 \/ j = 3 \/ j = 4 \/ j = 5 \/ j = 6
  OBVIOUS
<1>3. CASE row[1] = "white"
  BY <1>1, <1>2, <1>3 DEF RowNames
<1>4. CASE row[1] # "white"
  BY <1>1, <1>2, <1>4 DEF RowNames
<1>5. QED
  BY <1>3, <1>4

\* The two units, from the start of a run to its end.
Loaded == att \in HitStats /\ def \in HitStats /\ front \in BOOLEAN

LEMMA SameRows ==
  ASSUME Loaded
  PROVE  sim_pm = oracle_pm
<1> DEFINE t == build_attack_table(att, def, front)
           y == build_yellow_table(att, def, front)
           w == build_table(att, def, front)
           v == build_yellow(att, def, front)
<1>1. att \in HitStats /\ def \in HitStats /\ front \in BOOLEAN
  BY DEF Loaded
<1>2. /\ w.Miss = t.Miss /\ w.Dodge = t.Dodge - t.Miss /\ w.Parry = t.Parry - t.Dodge
      /\ w.Block = t.Block - t.Parry /\ w.Crit = t.Crit - t.Block /\ w.Hit = 10000 - t.Crit
  BY <1>1, SameWhite DEF WidthsOf
<1>3. /\ y = [Miss |-> t.Miss, Dodge |-> t.Dodge, Parry |-> t.Parry]
      /\ v = [Miss |-> t.Miss, Dodge |-> t.Dodge - t.Miss,
              Parry |-> t.Parry - t.Dodge, Hit |-> 10000 - t.Parry]
  BY <1>1, SameYellow
<1>4. AtMost10000(chance_crit_pm(att, def)) = yellow_crit_pm(att, def)
  <2>1. AtMost10000(pm_clamp0(raw_crit(att, def))) = clamp_chance(raw_crit(att, def))
    BY <1>1, RawChances DEF AtMost10000, pm_clamp0, clamp_chance
  <2>2. QED
    BY <1>1, <2>1, RawChances, RawEffective DEF yellow_crit_pm
<1>5. (IF can_block(def, front) THEN AtMost10000(chance_block_pm(att, def)) ELSE 0)
        = yellow_block_pm(att, def, front)
  <2>1. AtMost10000(pm_clamp0(raw_block(att, def))) = clamp_chance(raw_block(att, def))
    BY <1>1, RawChances DEF AtMost10000, pm_clamp0, clamp_chance
  <2>2. CASE front /\ def.has_shield
    <3>1. eff_block(att, def, front) = clamp_chance(raw_block(att, def))
      BY <1>1, <2>2, RawEffective, Zenon
    <3>2. QED
      BY <1>1, <2>1, <2>2, <3>1, RawChances DEF yellow_block_pm, can_block
  <2>3. CASE ~(front /\ def.has_shield)
    <3>1. eff_block(att, def, front) = 0
      BY <1>1, <2>3, RawEffective, Zenon
    <3>2. QED
      BY <2>3, <3>1 DEF yellow_block_pm, can_block
  <2>4. QED
    BY <2>2, <2>3
<1> HIDE DEF t, y, w, v
<1>6. ASSUME NEW row \in Rows
      PROVE  sim_pm[row] = oracle_pm[row]
  <2>1. CASE row[1] = "white" /\ row[2] \in {"Miss", "Dodge", "Parry", "Block", "Crit", "Hit"}
    BY <1>2, <2>1 DEF sim_pm, sim_width, oracle_pm, t, w
  <2>2. CASE row[1] # "white" /\ row[2] \in {"Miss", "Dodge", "Parry", "Hit"}
    BY <1>3, <2>2 DEF sim_pm, sim_width, oracle_pm, y, v
  <2>3. CASE row[1] # "white" /\ row[2] = "crit|hit"
    BY <1>4, <2>3 DEF sim_pm, sim_width, oracle_pm
  <2>4. CASE row[1] # "white" /\ row[2] = "block|hit"
    BY <1>5, <2>4 DEF sim_pm, sim_width, oracle_pm
  <2>5. QED
    BY <2>1, <2>2, <2>3, <2>4, RowIs
<1>7. sim_pm = [row \in Rows |-> sim_pm[row]]
  BY DEF sim_pm
<1>8. oracle_pm = [row \in Rows |-> oracle_pm[row]]
  BY DEF oracle_pm
<1>9. QED
  BY <1>6, <1>7, <1>8

LEMMA LoadedAtStart == Init => Loaded
<1>1. SUFFICES ASSUME Init PROVE Loaded
  OBVIOUS
<1>2. PICK s \in Scenarios : /\ att = s.att /\ def = s.def
                             /\ front = mutual_frontal_arc(s.def_pose, s.att_pose)
  BY <1>1 DEF Init
<1>3. mutual_frontal_arc(s.def_pose, s.att_pose) \in BOOLEAN
  BY DEF mutual_frontal_arc
<1>4. QED
  BY <1>2, <1>3, ScenariosAssumption DEF Loaded

LEMMA LoadedKept == Loaded /\ [DiffNext]_diffVars => Loaded'
<1> SUFFICES ASSUME Loaded, [DiffNext]_diffVars PROVE Loaded'
  OBVIOUS
<1>1. UNCHANGED <<att, def, front>>
  BY DEF DiffNext, diffVars, Sample, WhiteTrial, MortalTrial, HeroicTrial, YellowTrial, NextLoop,
         WriteReport, Compare, Finished
<1>2. QED
  BY <1>1 DEF Loaded

\* The tables of the simulator are those of the model that was ported on its
\* own, row by row and roll by roll (arena_diff.cpp:26), for any pair of units.
THEOREM TablesAgree == DiffSpec => []TablesMatchOracle
<1>1. Loaded => TablesMatchOracle
  <2> SUFFICES ASSUME Loaded PROVE TablesMatchOracle
    OBVIOUS
  <2> DEFINE t == build_attack_table(att, def, front)
             y == build_yellow_table(att, def, front)
             w == build_table(att, def, front)
             v == build_yellow(att, def, front)
  <2>1. Ends(t) /\ w = WidthsOf(t)
    BY SameWhite DEF Loaded
  <2>2. /\ y = [Miss |-> t.Miss, Dodge |-> t.Dodge, Parry |-> t.Parry]
        /\ v = [Miss |-> t.Miss, Dodge |-> t.Dodge - t.Miss,
                Parry |-> t.Parry - t.Dodge, Hit |-> 10000 - t.Parry]
    BY SameYellow DEF Loaded
  <2> HIDE DEF t, y, w, v
  <2>3. ASSUME NEW roll \in Myriad
        PROVE  /\ classify(t, roll) = outcome_of(w, RowNames("white"), roll + 1)
               /\ classify_yellow(y, roll) = outcome_of(v, <<"Miss", "Dodge", "Parry", "Hit">>, roll + 1)
    <3>1. roll \in Int /\ 0 <= roll /\ roll < 10000
      BY <2>3, RollsAreMyriad
    <3>2. QED
      BY <2>1, <2>2, <3>1, WhiteDie, YellowDie DEF YellowOrder
  <2>4. ASSUME NEW t1 \in {build_attack_table(att, def, front)},
               NEW w1 \in {build_table(att, def, front)}, NEW roll \in Myriad
        PROVE  classify(t1, roll) = outcome_of(w1, RowNames("white"), roll + 1)
    <3>1. t1 = t /\ w1 = w
      BY DEF t, w
    <3>2. QED
      BY <2>3, <3>1
  <2>5. ASSUME NEW y1 \in {build_yellow_table(att, def, front)},
               NEW v1 \in {build_yellow(att, def, front)}, NEW roll \in Myriad
        PROVE  classify_yellow(y1, roll) = outcome_of(v1, <<"Miss", "Dodge", "Parry", "Hit">>, roll + 1)
    <3>1. y1 = y /\ v1 = v
      BY DEF y, v
    <3>2. QED
      BY <2>3, <3>1
  <2>6. sim_pm = oracle_pm
    BY SameRows
  <2>7. QED
    BY <2>4, <2>5, <2>6 DEF TablesMatchOracle
<1>2. QED
  BY <1>1, LoadedAtStart, LoadedKept, PTL DEF DiffSpec, DiffInit

-----------------------------------------------------------------------------
(* The damage of one hit.                                                  *)

\* Armor keeps no more than there was.
LEMMA KeepsAtMost ==
  ASSUME NEW d \in Nat, NEW a \in Nat
  PROVE  /\ (d * ARMOR_K2_L70) \div (2 * a + ARMOR_K2_L70) \in Int
         /\ (d * ARMOR_K2_L70) \div (2 * a + ARMOR_K2_L70) <= d
<1> DEFINE y == 2 * a + 21115
           q == (d * 21115) \div y
<1>1. y \in Nat /\ y >= 21115
  OBVIOUS
<1> HIDE DEF y
<1>2. q \in Nat /\ y * q <= d * 21115
  BY <1>1
<1>3. q <= d
  <2>1. SUFFICES ASSUME q >= d + 1 PROVE FALSE
    BY <1>2
  <2>2. y * q >= y * (d + 1)
    BY <1>1, <1>2, <2>1
  <2>3. y * (d + 1) > 21115 * d
    BY <1>1
  <2>4. QED
    BY <1>1, <1>2, <2>2, <2>3
<1>4. QED
  BY <1>2, <1>3 DEF y, ARMOR_K2_L70

\* Armor leaves at least one point (damage.h:36-38).
LEMMA ArmorBounds ==
  ASSUME NEW d \in Nat \ {0}, NEW a \in Int
  PROVE  apply_armor(d, a) \in Int /\ 1 <= apply_armor(d, a) /\ apply_armor(d, a) <= d
<1>1. CASE a <= 0
  BY <1>1 DEF apply_armor
<1>2. CASE a > 0
  <2> DEFINE kept       == (d * ARMOR_K2_L70) \div (2 * a + ARMOR_K2_L70)
             floor_kept == (d * ARMOR_KEPT_MIN_PCT) \div 100
             reduced    == IF kept > floor_kept THEN kept ELSE floor_kept
  <2>1. kept \in Int /\ kept <= d
    BY <1>2, KeepsAtMost
  <2>2. floor_kept \in Int /\ floor_kept <= d
    BY DEF ARMOR_KEPT_MIN_PCT
  <2>3. apply_armor(d, a) = IF reduced > 1 THEN reduced ELSE 1
    BY <1>2 DEF apply_armor
  <2> HIDE DEF kept, floor_kept
  <2>4. QED
    BY <2>1, <2>2, <2>3
<1>3. QED
  BY <1>1, <1>2

LEMMA BonusIsNat ==
  ASSUME NEW ap \in Nat, NEW speed \in Nat
  PROVE  ap_bonus(ap, speed) \in Nat
<1>1. ap * speed \in Nat
  OBVIOUS
<1>2. ASSUME NEW m \in Nat PROVE Quot(m, 14000) \in Nat
  BY DEF Quot
<1>3. QED
  BY <1>1, <1>2 DEF ap_bonus

\* A blocked hit, or one that is not, of a defender whose block takes no less
\* than nothing.
LEMMA BlockedBounds ==
  ASSUME NEW armed \in Nat, NEW d, d.block_value \in Nat
  PROVE  Blocked(armed, d) \in Nat /\ Blocked(armed, d) <= armed
  BY DEF Blocked, pm_clamp0

\* Stats that are not negative, which is more than the loader checks.
Natural(a, d) ==
  a \in HitStats /\ d \in HitStats /\ a.attack_power >= 0 /\ d.block_value >= 0

LEMMA SwingDamage ==
  ASSUME NEW a, NEW d, Natural(a, d), NEW w \in {a.weapon_min, a.weapon_max}, NEW o
  PROVE  LET damage == resolve_damage(o, w, a, d)
         IN  damage \in Nat /\ damage <= max_damage(a) /\ (o # "Block" => damage >= 1)
<1>1. /\ a.attack_power \in Nat /\ a.weapon_speed_ms \in Nat /\ d.armor \in Int /\ d.block_value \in Nat
      /\ a.weapon_max \in Nat /\ w \in Nat \ {0} /\ w <= a.weapon_max
  BY DEF Natural, HitStats
<1> DEFINE bonus == ap_bonus(a.attack_power, a.weapon_speed_ms)
           base  == w + bonus
           armed == apply_armor(base, d.armor)
<1>2. bonus \in Nat
  BY <1>1, BonusIsNat
<1>3. /\ resolve_damage(o, w, a, d) = CASE o = "Crit"  -> armed * MELEE_CRIT_MULT
                                        [] o = "Block" -> Blocked(armed, d)
                                        [] OTHER       -> armed
      /\ max_damage(a) = (a.weapon_max + bonus) * MELEE_CRIT_MULT
  BY DEF resolve_damage, max_damage
<1> HIDE DEF bonus
<1>4. base \in Nat \ {0} /\ base <= a.weapon_max + bonus
  BY <1>1, <1>2
<1> HIDE DEF base
<1>5. armed \in Nat /\ 1 <= armed /\ armed <= base
  <2>1. armed \in Int /\ 1 <= armed /\ armed <= base
    BY ONLY <1>1, <1>4, ArmorBounds
  <2> HIDE DEF armed
  <2>2. QED
    BY <2>1
<1>6. Blocked(armed, d) \in Nat /\ Blocked(armed, d) <= armed
  BY <1>1, <1>5, BlockedBounds
<1> HIDE DEF armed
<1>7. QED
  BY <1>1, <1>2, <1>3, <1>4, <1>5, <1>6 DEF MELEE_CRIT_MULT

LEMMA AbilityDamage ==
  ASSUME NEW a, NEW d, Natural(a, d), NEW w \in {a.weapon_min, a.weapon_max},
         NEW crit \in BOOLEAN, NEW blocked \in BOOLEAN, NEW normalized \in BOOLEAN, NEW flat_bonus \in Nat
  PROVE  LET damage == resolve_yellow_damage(w, crit, blocked, a, d, normalized, flat_bonus)
         IN  damage \in Nat /\ (~blocked => damage >= 1)
<1>1. /\ a.attack_power \in Nat /\ a.weapon_speed_ms \in Nat /\ a.weapon_norm_ms \in Nat
      /\ d.armor \in Int /\ d.block_value \in Nat /\ w \in Nat \ {0}
  BY DEF Natural, HitStats
<1> DEFINE speed == IF normalized THEN a.weapon_norm_ms ELSE a.weapon_speed_ms
           bonus == ap_bonus(a.attack_power, speed)
           base  == flat_bonus + w + bonus
           hit   == IF crit THEN base * MELEE_CRIT_MULT ELSE base
           armed == apply_armor(hit, d.armor)
<1>2. speed \in Nat
  BY <1>1
<1> HIDE DEF speed
<1>3. bonus \in Nat
  BY <1>1, <1>2, BonusIsNat
<1>4. resolve_yellow_damage(w, crit, blocked, a, d, normalized, flat_bonus)
        = IF blocked THEN Blocked(armed, d) ELSE armed
  BY DEF resolve_yellow_damage, speed
<1> HIDE DEF bonus
<1>5. hit \in Nat \ {0}
  BY <1>1, <1>3 DEF MELEE_CRIT_MULT
<1> HIDE DEF hit
<1>6. armed \in Nat /\ 1 <= armed
  <2>1. armed \in Int /\ 1 <= armed
    BY ONLY <1>1, <1>5, ArmorBounds
  <2> HIDE DEF armed
  <2>2. QED
    BY <2>1
<1>7. Blocked(armed, d) \in Nat
  BY <1>1, <1>6, BlockedBounds
<1> HIDE DEF armed
<1>8. QED
  BY <1>4, <1>6, <1>7

-----------------------------------------------------------------------------
(* The tallies of a loop.                                                  *)

Tallies == [count: [Outcomes -> Nat], contacts: Nat, crits: Nat, blocks: Nat,
            damage_min: Int, damage_max: Int]

\* The contacts that were blocked: an outcome of a swing, a flag of an ability.
BlockedIn(r) == r.count["Block"] + r.blocks

Sound(r) ==
  /\ r \in Tallies /\ BlockedIn(r) <= r.contacts
  /\ r.contacts > 0 => 0 <= r.damage_min /\ r.damage_min <= r.damage_max
  /\ r.contacts > BlockedIn(r) =>
       r.damage_max >= 1 /\ (BlockedIn(r) = 0 => r.damage_min >= 1)

LEMMA CountedIs ==
  ASSUME NEW r \in Tallies, NEW o \in Outcomes
  PROVE  /\ Counted(r, o) \in Tallies
         /\ Counted(r, o) = [count |-> [r.count EXCEPT ![o] = @ + 1], contacts |-> r.contacts,
                             crits |-> r.crits, blocks |-> r.blocks,
                             damage_min |-> r.damage_min, damage_max |-> r.damage_max]
         /\ Counted(r, o).count["Block"] = IF o = "Block" THEN r.count["Block"] + 1 ELSE r.count["Block"]
<1>1. r.count \in [Outcomes -> Nat] /\ "Block" \in Outcomes
  BY DEF Tallies, Outcomes
<1> DEFINE count == [r.count EXCEPT ![o] = @ + 1]
<1>2. count \in [Outcomes -> Nat]
  BY <1>1
<1>3. count["Block"] = IF o = "Block" THEN r.count["Block"] + 1 ELSE r.count["Block"]
  BY <1>1
<1>4. Counted(r, o) = [r EXCEPT !.count = count]
  BY DEF Counted, Tallies
<1> HIDE DEF count
<1>5. Counted(r, o) = [count |-> count, contacts |-> r.contacts, crits |-> r.crits, blocks |-> r.blocks,
                       damage_min |-> r.damage_min, damage_max |-> r.damage_max]
  BY <1>4 DEF Tallies
<1>6. Counted(r, o) \in Tallies
  BY <1>2, <1>5 DEF Tallies
<1>7. QED
  BY <1>3, <1>5, <1>6 DEF count

LEMMA NoHitIsSound ==
  ASSUME NEW r, Sound(r), NEW o \in Outcomes \ {"Block"}
  PROVE  Sound(Counted(r, o))
<1>1. r \in Tallies
  BY DEF Sound
<1> DEFINE c == Counted(r, o)
<1>2. /\ c \in Tallies /\ c.contacts = r.contacts /\ c.blocks = r.blocks
      /\ c.damage_min = r.damage_min /\ c.damage_max = r.damage_max
      /\ c.count["Block"] = r.count["Block"]
  BY <1>1, CountedIs
<1> HIDE DEF c
<1>3. Sound(c)
  BY <1>2 DEF Sound, BlockedIn
<1>4. QED
  BY <1>3 DEF c

\* A contact keeps the range of the damage, and the highest one below a bound.
LEMMA HitIsSound ==
  ASSUME NEW r, Sound(r), NEW o \in Outcomes, NEW damage \in Nat, NEW new \in Tallies,
         NEW blocked \in BOOLEAN, blocked => o # "Block",
         o # "Block" /\ ~blocked => damage >= 1,
         new.contacts = r.contacts + 1,
         new.count["Block"] = Counted(r, o).count["Block"],
         new.blocks = IF blocked THEN r.blocks + 1 ELSE r.blocks,
         new.damage_min = IF r.contacts = 0 \/ damage < r.damage_min THEN damage ELSE r.damage_min,
         new.damage_max = IF r.contacts = 0 \/ damage > r.damage_max THEN damage ELSE r.damage_max
  PROVE  /\ Sound(new)
         /\ \A max \in Int : damage <= max /\ (r.contacts > 0 => r.damage_max <= max) => new.damage_max <= max
<1>1. /\ r \in Tallies /\ r.contacts \in Nat /\ r.blocks \in Nat /\ r.count["Block"] \in Nat
      /\ r.damage_min \in Int /\ r.damage_max \in Int
  BY DEF Sound, Tallies, Outcomes
<1>2. new.count["Block"] = IF o = "Block" THEN r.count["Block"] + 1 ELSE r.count["Block"]
  BY <1>1, CountedIs
<1>3. BlockedIn(new) = BlockedIn(r) + (IF o = "Block" \/ blocked THEN 1 ELSE 0) /\ BlockedIn(r) \in Nat
  BY <1>1, <1>2 DEF BlockedIn
<1>4. QED
  BY <1>1, <1>3 DEF Sound

\* The tallies with the damage of a hit.
LEMMA WithDamageIs ==
  ASSUME NEW r \in Tallies, NEW o \in Outcomes, NEW damage \in Nat
  PROVE  /\ WithDamage(Counted(r, o), damage) \in Tallies
         /\ WithDamage(Counted(r, o), damage).contacts = r.contacts + 1
         /\ WithDamage(Counted(r, o), damage).count = Counted(r, o).count
         /\ WithDamage(Counted(r, o), damage).crits = r.crits
         /\ WithDamage(Counted(r, o), damage).blocks = r.blocks
         /\ WithDamage(Counted(r, o), damage).damage_min
              = IF r.contacts = 0 \/ damage < r.damage_min THEN damage ELSE r.damage_min
         /\ WithDamage(Counted(r, o), damage).damage_max
              = IF r.contacts = 0 \/ damage > r.damage_max THEN damage ELSE r.damage_max
<1> DEFINE counted == Counted(r, o)
           hit     == WithDamage(counted, damage)
           min     == IF r.contacts = 0 \/ damage < r.damage_min THEN damage ELSE r.damage_min
           max     == IF r.contacts = 0 \/ damage > r.damage_max THEN damage ELSE r.damage_max
<1>1. /\ counted \in Tallies /\ counted.contacts = r.contacts /\ counted.crits = r.crits
      /\ counted.blocks = r.blocks /\ counted.damage_min = r.damage_min /\ counted.damage_max = r.damage_max
      /\ r.contacts \in Nat /\ r.crits \in Nat /\ r.blocks \in Nat /\ r.damage_min \in Int
      /\ r.damage_max \in Int
  BY CountedIs DEF Tallies
<1> HIDE DEF counted
<1>2. hit = [count |-> counted.count, contacts |-> r.contacts + 1, crits |-> r.crits,
             blocks |-> r.blocks, damage_min |-> min, damage_max |-> max]
  <2> DEFINE contacts == counted.contacts + 1
             low  == IF counted.contacts = 0 \/ damage < counted.damage_min
                     THEN damage ELSE counted.damage_min
             high == IF counted.contacts = 0 \/ damage > counted.damage_max
                     THEN damage ELSE counted.damage_max
  <2>1. hit = [counted EXCEPT !.contacts = contacts, !.damage_min = low, !.damage_max = high]
    BY DEF WithDamage
  <2>2. contacts = r.contacts + 1 /\ low = min /\ high = max
    BY <1>1
  <2> HIDE DEF contacts, low, high, min, max, hit
  <2>3. QED
    BY <1>1, <2>1, <2>2 DEF Tallies
<1>3. min \in Int /\ max \in Int /\ counted.count \in [Outcomes -> Nat]
  BY <1>1 DEF Tallies
<1> HIDE DEF min, max, hit
<1>4. hit \in Tallies
  BY <1>1, <1>2, <1>3 DEF Tallies
<1>5. QED
  BY <1>2, <1>4 DEF counted, hit, min, max

\* The crit and the block of an ability are counted with it.
LEMMA StruckIs ==
  ASSUME NEW hit \in Tallies, NEW crit \in BOOLEAN, NEW blocked \in BOOLEAN
  PROVE  /\ Struck(hit, crit, blocked) \in Tallies
         /\ Struck(hit, crit, blocked).contacts = hit.contacts
         /\ Struck(hit, crit, blocked).count = hit.count
         /\ Struck(hit, crit, blocked).damage_min = hit.damage_min
         /\ Struck(hit, crit, blocked).damage_max = hit.damage_max
         /\ Struck(hit, crit, blocked).crits = IF crit THEN hit.crits + 1 ELSE hit.crits
         /\ Struck(hit, crit, blocked).blocks = IF blocked THEN hit.blocks + 1 ELSE hit.blocks
<1> DEFINE crits  == IF crit THEN hit.crits + 1 ELSE hit.crits
           blocks == IF blocked THEN hit.blocks + 1 ELSE hit.blocks
           struck == Struck(hit, crit, blocked)
<1>1. struck = [hit EXCEPT !.crits = crits, !.blocks = blocks]
  BY DEF Struck
<1>2. crits \in Nat /\ blocks \in Nat
  BY DEF Tallies
<1> HIDE DEF crits, blocks, struck
<1>3. struck = [count |-> hit.count, contacts |-> hit.contacts, crits |-> crits, blocks |-> blocks,
                damage_min |-> hit.damage_min, damage_max |-> hit.damage_max]
  BY <1>1 DEF Tallies
<1>4. struck \in Tallies
  BY <1>2, <1>3 DEF Tallies
<1>5. QED
  BY <1>3, <1>4 DEF struck, crits, blocks

-----------------------------------------------------------------------------
(* The sampling loops.                                                     *)

WeaponKeys == {"weapon_damage", "yellow_damage"}

\* The weapon is never known to have rolled anything but what it can roll.
KnownRolls(d) == \A key \in DOMAIN d : key[1] \in WeaponKeys => d[key] \in WeaponRolls

LEMMA KnownRollsKept ==
  ASSUME NEW d, KnownRolls(d), NEW subsystem, NEW seq, NEW value,
         subsystem \in WeaponKeys => value \in WeaponRolls
  PROVE  KnownRolls(Known(d, subsystem, seq, value))
<1> DEFINE more == Known(d, subsystem, seq, value)
<1>1. /\ DOMAIN more = (DOMAIN d) \cup {<<subsystem, seq>>} /\ more[<<subsystem, seq>>] = value
      /\ \A key \in DOMAIN d : key # <<subsystem, seq>> => more[key] = d[key]
  BY DEF Known
<1> HIDE DEF more
<1>2. ASSUME NEW key \in DOMAIN more, key[1] \in WeaponKeys
      PROVE  more[key] \in WeaponRolls
  <2>1. CASE key = <<subsystem, seq>>
    BY <1>1, <1>2, <2>1
  <2>2. CASE key # <<subsystem, seq>>
    BY <1>1, <1>2, <2>2 DEF KnownRolls
  <2>3. QED
    BY <2>1, <2>2
<1>3. QED
  BY <1>2 DEF KnownRolls, more

LEMMA WeaponRolled ==
  ASSUME KnownRolls(drawn), NEW subsystem \in WeaponKeys, NEW seq,
         NEW w \in Rolls(subsystem, seq, WeaponRolls)
  PROVE  w \in WeaponRolls
<1>1. <<subsystem, seq>>[1] = subsystem
  OBVIOUS
<1>2. QED
  BY <1>1 DEF Rolls, KnownRolls

\* The highest damage of a swing that the white tallies hold.
BelowBound(r) == r.contacts > 0 => r.damage_max <= max_damage(att)

SInv ==
  /\ Natural(att, def) /\ front \in BOOLEAN
  /\ KnownRolls(drawn)
  /\ report \in [Loops -> Tallies]
  /\ \A l \in Loops : Sound(report[l])
  /\ BelowBound(report["white"])

LEMMA SwingIs ==
  ASSUME NEW a, NEW d, NEW f, NEW roll, NEW w
  PROVE  LET sw == resolve_swing(a, d, f, roll, w)
         IN  /\ sw.outcome \in Outcomes
             /\ sw.outcome \in {"Block", "Crit", "Hit"} => sw.damage = resolve_damage(sw.outcome, w, a, d)
<1> DEFINE o == classify(build_attack_table(a, d, f), roll)
<1>1. o \in Outcomes
  BY DEF classify, Outcomes
<1>2. /\ resolve_swing(a, d, f, roll, w).outcome = o
      /\ o \in {"Block", "Crit", "Hit"} =>
           resolve_swing(a, d, f, roll, w).damage = resolve_damage(o, w, a, d)
  <2> HIDE DEF o
  <2>1. resolve_swing(a, d, f, roll, w)
          = LET damage == resolve_damage(o, w, a, d)
            IN  IF ~outcome_makes_contact(o) THEN NoContact(o)
                ELSE [outcome |-> o, damage |-> damage,
                      rage_attacker_deci |-> rage_dealt_deci(damage, a.weapon_speed_ms, o = "Crit"),
                      rage_defender_deci |-> rage_taken_deci(damage)]
    BY DEF resolve_swing, o
  <2>2. QED
    BY <2>1 DEF outcome_makes_contact, NoContact
<1>3. QED
  BY <1>1, <1>2

LEMMA WhiteKeepsSInv ==
  ASSUME SInv, WhiteTrial
  PROVE  SInv'
<1>1. PICK roll \in Rolls("swing_table", cursor.table_seq, TableRolls),
           w \in Rolls("weapon_damage", cursor.damage_seq, WeaponRolls) :
        LET sw      == resolve_swing(att, def, front, roll, w)
            contact == outcome_makes_contact(sw.outcome)
            counted == Counted(report["white"], sw.outcome)
        IN  /\ report' = [report EXCEPT !["white"] =
                            IF contact THEN WithDamage(counted, sw.damage) ELSE counted]
            /\ drawn' = LET d == Known(drawn, "swing_table", cursor.table_seq, roll)
                        IN  IF contact THEN Known(d, "weapon_damage", cursor.damage_seq, w) ELSE d
  BY DEF WhiteTrial
<1>2. w \in WeaponRolls
  BY WeaponRolled DEF SInv, WeaponKeys
<1> DEFINE sw == resolve_swing(att, def, front, roll, w)
           r  == report["white"]
           o  == sw.outcome
<1>3. /\ o \in Outcomes
      /\ o \in {"Block", "Crit", "Hit"} => sw.damage = resolve_damage(o, w, att, def)
  BY SwingIs
<1>4. Natural(att, def) /\ r \in Tallies /\ Sound(r) /\ BelowBound(r) /\ report \in [Loops -> Tallies]
  BY DEF SInv, Loops
<1>5. KnownRolls(drawn)'
  <2>1. "swing_table" \notin WeaponKeys
    BY DEF WeaponKeys
  <2> DEFINE d == Known(drawn, "swing_table", cursor.table_seq, roll)
  <2>2. KnownRolls(d)
    BY <2>1, KnownRollsKept DEF SInv
  <2> HIDE DEF d
  <2>3. KnownRolls(Known(d, "weapon_damage", cursor.damage_seq, w))
    BY <1>2, <2>2, KnownRollsKept
  <2>4. KnownRolls(drawn')
    BY <1>1, <2>2, <2>3 DEF d
  <2>5. UNCHANGED att
    BY DEF WhiteTrial
  <2>6. QED
    BY <2>4, <2>5 DEF KnownRolls, WeaponRolls
<1> DEFINE counted == Counted(r, o)
           new     == IF outcome_makes_contact(o) THEN WithDamage(counted, sw.damage) ELSE counted
<1>6. report' = [report EXCEPT !["white"] = new]
  BY <1>1
<1> HIDE DEF sw, r
<1>7. new \in Tallies /\ Sound(new) /\ BelowBound(new)
  <2>1. CASE o \in {"Block", "Crit", "Hit"}
    <3>1. new = WithDamage(counted, sw.damage)
      BY <2>1 DEF outcome_makes_contact
    <3> DEFINE damage == sw.damage
    <3>2. damage = resolve_damage(o, w, att, def)
      BY <1>3, <2>1
    <3>3. damage \in Nat /\ damage <= max_damage(att) /\ (o # "Block" => damage >= 1)
      BY <1>2, <1>4, <3>2, SwingDamage DEF WeaponRolls
    <3> HIDE DEF damage, o, new
    <3>4. FALSE \in BOOLEAN
      OBVIOUS
    <3>5. /\ new \in Tallies /\ new.contacts = r.contacts + 1 /\ new.count = counted.count
          /\ new.blocks = r.blocks
          /\ new.damage_min = IF r.contacts = 0 \/ damage < r.damage_min THEN damage ELSE r.damage_min
          /\ new.damage_max = IF r.contacts = 0 \/ damage > r.damage_max THEN damage ELSE r.damage_max
      <4>1. new = WithDamage(Counted(r, o), damage)
        BY <3>1 DEF damage
      <4>2. o \in Outcomes /\ r \in Tallies
        BY <1>3, <1>4
      <4> HIDE DEF counted
      <4>3. /\ WithDamage(Counted(r, o), damage) \in Tallies
            /\ WithDamage(Counted(r, o), damage).contacts = r.contacts + 1
            /\ WithDamage(Counted(r, o), damage).count = Counted(r, o).count
            /\ WithDamage(Counted(r, o), damage).blocks = r.blocks
            /\ WithDamage(Counted(r, o), damage).damage_min
                 = IF r.contacts = 0 \/ damage < r.damage_min THEN damage ELSE r.damage_min
            /\ WithDamage(Counted(r, o), damage).damage_max
                 = IF r.contacts = 0 \/ damage > r.damage_max THEN damage ELSE r.damage_max
        BY <4>2, <3>3, WithDamageIs, Zenon
      <4>4. QED
        BY <4>1, <4>3 DEF counted
    <3>6. max_damage(att) \in Int
      <4>1. att.weapon_max \in Nat /\ att.attack_power \in Nat /\ att.weapon_speed_ms \in Nat
        BY <1>4 DEF Natural, HitStats
      <4>2. ap_bonus(att.attack_power, att.weapon_speed_ms) \in Nat
        BY <4>1, BonusIsNat
      <4>3. QED
        BY <4>1, <4>2 DEF max_damage, MELEE_CRIT_MULT
    <3>7. /\ Sound(new)
          /\ \A max \in Int : damage <= max /\ (r.contacts > 0 => r.damage_max <= max)
                                => new.damage_max <= max
      BY <1>3, <1>4, <3>3, <3>4, <3>5, HitIsSound
    <3>8. QED
      BY <1>4, <3>3, <3>5, <3>6, <3>7 DEF BelowBound
  <2>2. CASE o \notin {"Block", "Crit", "Hit"}
    <3>1. new = counted
      BY <2>2 DEF outcome_makes_contact
    <3>2. /\ counted \in Tallies /\ counted.contacts = r.contacts /\ counted.damage_max = r.damage_max
          /\ Sound(counted)
      BY <1>3, <1>4, <2>2, CountedIs, NoHitIsSound
    <3>3. QED
      BY <1>4, <3>1, <3>2 DEF BelowBound
  <2>3. QED
    BY <2>1, <2>2
<1> HIDE DEF new
<1>8. /\ report' \in [Loops -> Tallies] /\ \A l \in Loops : Sound(report'[l])
      /\ report'["white"] = new
  BY <1>4, <1>6, <1>7 DEF SInv, Loops
<1>9. UNCHANGED <<att, def, front>>
  BY DEF WhiteTrial
<1>10. BelowBound(report["white"])'
  BY <1>7, <1>8, <1>9 DEF BelowBound, max_damage
<1>11. QED
  BY <1>5, <1>8, <1>9, <1>10 DEF SInv

LEMMA AbilityIs ==
  ASSUME NEW a, NEW d, NEW f, NEW rolls, NEW normalized \in BOOLEAN, NEW flat_bonus \in Nat
  PROVE  LET yr == resolve_yellow(a, d, f, rolls, normalized, flat_bonus)
         IN  /\ yr.outcome \in Outcomes \ {"Block"}
             /\ yr.crit \in BOOLEAN /\ yr.blocked \in BOOLEAN
             /\ yr.outcome = "Hit" =>
                  yr.damage = resolve_yellow_damage(rolls.weapon, yr.crit, yr.blocked, a, d,
                                                    normalized, flat_bonus)
<1> DEFINE o       == classify_yellow(build_yellow_table(a, d, f), rolls.table)
           crit    == rolls.crit < chance_crit_pm(a, d)
           blocked == can_block(d, f) /\ rolls.block < chance_block_pm(a, d)
           damage  == resolve_yellow_damage(rolls.weapon, crit, blocked, a, d, normalized, flat_bonus)
           yr      == resolve_yellow(a, d, f, rolls, normalized, flat_bonus)
<1>1. o \in Outcomes \ {"Block"}
  BY DEF classify_yellow, Outcomes
<1>2. yr = IF o # "Hit"
           THEN [outcome |-> o, crit |-> FALSE, blocked |-> FALSE, damage |-> 0, rage_defender_deci |-> 0]
           ELSE [outcome |-> o, crit |-> crit, blocked |-> blocked, damage |-> damage,
                 rage_defender_deci |-> rage_taken_deci(damage)]
  BY DEF resolve_yellow
<1>3. crit \in BOOLEAN /\ blocked \in BOOLEAN
  OBVIOUS
<1>4. damage = resolve_yellow_damage(rolls.weapon, crit, blocked, a, d, normalized, flat_bonus)
  OBVIOUS
<1> HIDE DEF o, crit, blocked, damage, yr
<1>5. /\ yr.outcome \in Outcomes \ {"Block"} /\ yr.crit \in BOOLEAN /\ yr.blocked \in BOOLEAN
      /\ yr.outcome = "Hit" =>
           yr.damage = resolve_yellow_damage(rolls.weapon, yr.crit, yr.blocked, a, d, normalized, flat_bonus)
  <2>1. CASE o = "Hit"
    BY <1>1, <1>2, <1>3, <1>4, <2>1
  <2>2. CASE o # "Hit"
    BY <1>1, <1>2, <2>2
  <2>3. QED
    BY <2>1, <2>2
<1>6. QED
  BY <1>5 DEF yr

LEMMA YellowKeepsSInv ==
  ASSUME SInv, loop \in {"ms", "hs"}, NEW normalized \in BOOLEAN, NEW flat_bonus \in Nat,
         YellowTrial(normalized, flat_bonus)
  PROVE  SInv'
<1>1. PICK table \in Rolls("yellow_table", cursor.yellow_table_seq, TableRolls),
           crit \in Rolls("yellow_crit", cursor.yellow_crit_seq, ChanceRolls),
           block \in Rolls("yellow_block", cursor.yellow_block_seq, ChanceRolls),
           w \in Rolls("yellow_damage", cursor.yellow_damage_seq, WeaponRolls) :
        LET rolls     == [table |-> table, crit |-> crit, block |-> block, weapon |-> w]
            yr        == resolve_yellow(att, def, front, rolls, normalized, flat_bonus)
            hit       == yr.outcome = "Hit"
            blockable == can_block(def, front)
            counted   == Counted(report[loop], yr.outcome)
            struck    == Struck(WithDamage(counted, yr.damage), yr.crit, yr.blocked)
            d1        == Known(drawn, "yellow_table", cursor.yellow_table_seq, table)
            d2        == Known(Known(d1, "yellow_crit", cursor.yellow_crit_seq, crit),
                               "yellow_damage", cursor.yellow_damage_seq, w)
        IN  /\ report' = [report EXCEPT ![loop] = IF hit THEN struck ELSE counted]
            /\ cursor' = yellow_cursor(cursor, hit, blockable)
            /\ drawn' = IF ~hit THEN d1
                        ELSE IF ~blockable THEN d2
                        ELSE Known(d2, "yellow_block", cursor.yellow_block_seq, block)
  BY DEF YellowTrial
<1>2. w \in WeaponRolls
  BY WeaponRolled DEF SInv, WeaponKeys
<1> DEFINE rolls == [table |-> table, crit |-> crit, block |-> block, weapon |-> w]
           yr    == resolve_yellow(att, def, front, rolls, normalized, flat_bonus)
           r     == report[loop]
           o     == yr.outcome
<1>3. rolls.weapon = w
  OBVIOUS
<1>4. /\ o \in Outcomes \ {"Block"} /\ yr.crit \in BOOLEAN /\ yr.blocked \in BOOLEAN
      /\ o = "Hit" => yr.damage = resolve_yellow_damage(w, yr.crit, yr.blocked, att, def,
                                                        normalized, flat_bonus)
  <2> HIDE DEF rolls
  <2>1. QED
    BY <1>3, AbilityIs
<1>5. Natural(att, def) /\ r \in Tallies /\ Sound(r) /\ report \in [Loops -> Tallies] /\ loop \in Loops
  BY DEF SInv, Loops
<1>6. KnownRolls(drawn)'
  <2>1. /\ "yellow_table" \notin WeaponKeys /\ "yellow_crit" \notin WeaponKeys
        /\ "yellow_block" \notin WeaponKeys
    BY DEF WeaponKeys
  <2> DEFINE d1 == Known(drawn, "yellow_table", cursor.yellow_table_seq, table)
             dc == Known(d1, "yellow_crit", cursor.yellow_crit_seq, crit)
             d2 == Known(dc, "yellow_damage", cursor.yellow_damage_seq, w)
             d3 == Known(d2, "yellow_block", cursor.yellow_block_seq, block)
  <2>2. KnownRolls(d1)
    BY <2>1, KnownRollsKept DEF SInv
  <2>3. drawn' = d1 \/ drawn' = d2 \/ drawn' = d3
    BY <1>1
  <2> HIDE DEF d1
  <2>4. KnownRolls(dc)
    BY <2>1, <2>2, KnownRollsKept
  <2> HIDE DEF dc
  <2>5. KnownRolls(d2)
    BY <1>2, <2>4, KnownRollsKept
  <2> HIDE DEF d2
  <2>6. KnownRolls(d3)
    BY <2>1, <2>5, KnownRollsKept
  <2>7. KnownRolls(drawn')
    BY <2>2, <2>3, <2>5, <2>6
  <2>8. UNCHANGED att
    BY DEF YellowTrial
  <2>9. QED
    BY <2>7, <2>8 DEF KnownRolls, WeaponRolls
<1> DEFINE counted == Counted(r, o)
           struck  == Struck(WithDamage(counted, yr.damage), yr.crit, yr.blocked)
           new     == IF o = "Hit" THEN struck ELSE counted
<1>7. report' = [report EXCEPT ![loop] = new]
  BY <1>1
<1> HIDE DEF rolls, yr, r
<1>8. Sound(new)
  <2>1. CASE o = "Hit"
    <3> DEFINE damage  == yr.damage
               blocked == yr.blocked
               c       == yr.crit
               hit     == WithDamage(Counted(r, o), damage)
    <3>1. new = Struck(hit, c, blocked)
      BY <2>1
    <3>2. damage \in Nat /\ (~blocked => damage >= 1)
      <4>1. damage = resolve_yellow_damage(w, c, blocked, att, def, normalized, flat_bonus)
        BY <1>4, <2>1
      <4>2. c \in BOOLEAN /\ blocked \in BOOLEAN /\ w \in {att.weapon_min, att.weapon_max}
        BY <1>2, <1>4 DEF WeaponRolls
      <4> HIDE DEF c, blocked, damage
      <4>3. QED
        BY <1>5, <4>1, <4>2, AbilityDamage
    <3>3. c \in BOOLEAN /\ blocked \in BOOLEAN /\ o \in Outcomes /\ o # "Block" /\ r \in Tallies
      BY <1>4, <1>5
    <3> HIDE DEF damage, blocked, c, o, new, struck, counted
    <3>4. /\ hit \in Tallies
          /\ hit.contacts = r.contacts + 1
          /\ hit.count = Counted(r, o).count
          /\ hit.blocks = r.blocks
          /\ hit.damage_min = IF r.contacts = 0 \/ damage < r.damage_min THEN damage ELSE r.damage_min
          /\ hit.damage_max = IF r.contacts = 0 \/ damage > r.damage_max THEN damage ELSE r.damage_max
      BY <3>2, <3>3, WithDamageIs, Zenon
    <3> HIDE DEF hit
    <3>5. /\ Struck(hit, c, blocked) \in Tallies
          /\ Struck(hit, c, blocked).contacts = hit.contacts
          /\ Struck(hit, c, blocked).count = hit.count
          /\ Struck(hit, c, blocked).damage_min = hit.damage_min
          /\ Struck(hit, c, blocked).damage_max = hit.damage_max
          /\ Struck(hit, c, blocked).blocks = IF blocked THEN hit.blocks + 1 ELSE hit.blocks
      <4>1. hit \in Tallies /\ c \in BOOLEAN /\ blocked \in BOOLEAN
        BY <3>3, <3>4
      <4>2. QED
        BY ONLY <4>1, StruckIs
    <3>6. /\ new \in Tallies /\ new.contacts = r.contacts + 1
          /\ new.count["Block"] = Counted(r, o).count["Block"]
          /\ new.blocks = IF blocked THEN r.blocks + 1 ELSE r.blocks
          /\ new.damage_min = IF r.contacts = 0 \/ damage < r.damage_min THEN damage ELSE r.damage_min
          /\ new.damage_max = IF r.contacts = 0 \/ damage > r.damage_max THEN damage ELSE r.damage_max
      BY <3>1, <3>4, <3>5
    <3>7. QED
      BY <1>5, <3>2, <3>3, <3>6, HitIsSound
  <2>2. CASE o # "Hit"
    <3>1. new = counted
      BY <2>2
    <3>2. QED
      BY <1>4, <1>5, <3>1, NoHitIsSound
  <2>3. QED
    BY <2>1, <2>2
<1>9. new \in Tallies
  BY <1>8 DEF Sound
<1> HIDE DEF new
<1>10. /\ report' \in [Loops -> Tallies] /\ \A l \in Loops : Sound(report'[l])
       /\ report'["white"] = report["white"]
  BY <1>5, <1>7, <1>8, <1>9 DEF SInv, Loops
<1>11. UNCHANGED <<att, def, front>>
  BY DEF YellowTrial
<1>12. BelowBound(report["white"])'
  BY <1>10, <1>11 DEF BelowBound, max_damage, SInv
<1>13. QED
  BY <1>6, <1>10, <1>11, <1>12 DEF SInv

LEMMA SamplerKeepsSInv ==
  ASSUME SInv, [DiffNext]_diffVars
  PROVE  SInv'
<1>1. CASE WhiteTrial
  BY <1>1, WhiteKeepsSInv
<1>2. CASE MortalTrial
  <2>1. loop \in {"ms", "hs"} /\ YellowTrial(TRUE, MS_FLAT_BONUS)
    BY <1>2 DEF MortalTrial
  <2>2. MS_FLAT_BONUS \in Nat
    BY DEF MS_FLAT_BONUS
  <2>3. QED
    BY <2>1, <2>2, YellowKeepsSInv
<1>3. CASE HeroicTrial
  <2>1. loop \in {"ms", "hs"} /\ YellowTrial(FALSE, HS_FLAT_BONUS)
    BY <1>3 DEF HeroicTrial
  <2>2. HS_FLAT_BONUS \in Nat
    BY DEF HS_FLAT_BONUS
  <2>3. QED
    BY <2>1, <2>2, YellowKeepsSInv
<1>4. ASSUME UNCHANGED <<att, def, front, report>>, drawn' = drawn \/ drawn' = <<>>
      PROVE  SInv'
  <2>1. KnownRolls(drawn)'
    <3>1. CASE drawn' = drawn
      BY <1>4, <3>1 DEF SInv, KnownRolls, WeaponRolls
    <3>2. CASE drawn' = <<>>
      BY <3>2 DEF KnownRolls
    <3>3. QED
      BY <1>4, <3>1, <3>2
  <2>2. QED
    BY <1>4, <2>1 DEF SInv, BelowBound, max_damage
<1>5. CASE NextLoop \/ WriteReport \/ Compare \/ Finished \/ UNCHANGED diffVars
  BY <1>4, <1>5 DEF NextLoop, WriteReport, Compare, Finished, diffVars
<1>6. QED
  BY <1>1, <1>2, <1>3, <1>5 DEF DiffNext, Sample

\* The stats of every scenario are natural, where the loader lets negative
\* attack power and block value through (scenario.cpp:134).
NaturalScenarios == \A s \in Scenarios : s.att.attack_power >= 0 /\ s.def.block_value >= 0

LEMMA SamplerStartsInSInv == NaturalScenarios /\ Init => SInv
<1> SUFFICES ASSUME NaturalScenarios, Init PROVE SInv
  OBVIOUS
<1>1. Natural(att, def) /\ front \in BOOLEAN
  <2>1. PICK s \in Scenarios : att = s.att /\ def = s.def
    BY DEF Init
  <2>2. QED
    BY <2>1, LoadedAtStart, ScenariosAssumption DEF Natural, NaturalScenarios, Loaded
<1>2. KnownRolls(drawn)
  BY DEF Init, KnownRolls
<1>3. EmptyReport \in Tallies /\ Sound(EmptyReport)
  <2>1. EmptyReport \in Tallies
    BY DEF EmptyReport, Tallies
  <2>2. EmptyReport.contacts = 0 /\ EmptyReport.blocks = 0 /\ EmptyReport.count["Block"] = 0
    BY DEF EmptyReport, Outcomes
  <2>3. QED
    BY <2>1, <2>2 DEF Sound, BlockedIn
<1>4. report = [l \in Loops |-> EmptyReport]
  BY DEF Init
<1>5. BelowBound(report["white"])
  <2>1. report["white"].contacts = 0
    BY <1>4 DEF Loops, EmptyReport
  <2>2. QED
    BY <2>1 DEF BelowBound
<1>6. QED
  BY <1>1, <1>2, <1>3, <1>4, <1>5 DEF SInv

\* The tallies of every loop are sound, whatever is rolled.
THEOREM TalliesAreSound == NaturalScenarios /\ DiffSpec => []SInv
<1>1. NaturalScenarios /\ DiffInit => SInv
  BY SamplerStartsInSInv DEF DiffInit
<1>2. SInv /\ [DiffNext]_diffVars => SInv'
  BY SamplerKeepsSInv
<1>3. QED
  BY <1>1, <1>2, PTL DEF DiffSpec

\* The histogram of white swings has room for every damage, with armor,
\* crits and blocks (dist.cpp:57-60), for any stats that are natural.
THEOREM HistogramHasRoom == NaturalScenarios /\ DiffSpec => []DamageInHistogram
<1>1. SInv => DamageInHistogram
  BY DEF SInv, BelowBound, Sound, DamageInHistogram, Loops
<1>2. QED
  BY <1>1, TalliesAreSound, PTL

\* A contact that was not blocked hurts, through any armor (damage.h:36-38).
THEOREM EveryContactHurts == NaturalScenarios /\ DiffSpec => []UnblockedHitsHurt
<1>1. SInv => UnblockedHitsHurt
  BY DEF SInv, Sound, UnblockedHitsHurt, BlockedIn
<1>2. QED
  BY <1>1, TalliesAreSound, PTL

-----------------------------------------------------------------------------
(* The same hit in both models.                                            *)

LEMMA QuotientIs ==
  ASSUME NEW x \in Nat, NEW m \in Nat \ {0}
  PROVE  x \div m \in Nat /\ m * (x \div m) <= x /\ x < m * (x \div m) + m
  OBVIOUS

\* The quotient of a number between two multiples.
LEMMA QuotientBetween ==
  ASSUME NEW x \in Nat, NEW m \in Nat \ {0}, NEW lo \in Int, NEW hi \in Int,
         m * lo <= x, x < m * hi
  PROVE  x \div m \in Int /\ lo <= x \div m /\ x \div m < hi
<1> DEFINE q == x \div m
<1>1. q \in Nat /\ m * q <= x /\ x < m * q + m
  BY QuotientIs
<1> HIDE DEF q
<1>2. ASSUME q < lo PROVE FALSE
  <2>1. q + 1 <= lo
    BY <1>1, <1>2
  <2>2. m * (q + 1) <= m * lo
    BY <1>1, <2>1
  <2>3. QED
    BY <1>1, <2>2
<1>3. ASSUME hi <= q PROVE FALSE
  <2>1. m * hi <= m * q
    BY <1>1, <1>3
  <2>2. QED
    BY <1>1, <2>1
<1>4. QED
  BY <1>1, <1>2, <1>3 DEF q

\* The weapon's damage in its parts: the simulator truncates the roll and the
\* bonus of the attack power, the oracle their sum.
LEMMA PartsOfRoll ==
  ASSUME NEW lo \in Nat, NEW d \in Nat, NEW k \in 0..S - 1, NEW power \in Nat
  PROVE  LET p == (k * (d + 1)) \div S
             q == power \div 14000
             m == 14000 * S
             x == S * (14000 * lo + power) + k * 14000 * d
         IN  /\ p \in Nat /\ q \in Nat /\ m \in Nat \ {0} /\ x \in Nat
             /\ m * (lo + p + q) - m < x /\ x < m * (lo + p + q) + 2 * m
             /\ m * lo <= x
             /\ k \in {0, S - 1} => x < m * (lo + p + q) + m
<1>1. S \in Nat \ {0} /\ k \in Nat /\ k < S
  BY StepsAssumption
<1> DEFINE p == (k * (d + 1)) \div S
           q == power \div 14000
           m == 14000 * S
           kd == k * d
           sp == S * p
           sq == S * q
           sl == S * lo
           sw == S * power
           x == S * (14000 * lo + power) + k * 14000 * d
<1>2. kd \in Nat /\ k * (d + 1) = kd + k
  BY <1>1
<1>3. p \in Nat /\ sp <= kd + k /\ kd + k < sp + S
  BY <1>1, <1>2, QuotientIs
<1>4. q \in Nat /\ 14000 * q <= power /\ power < 14000 * q + 14000
  OBVIOUS
<1> HIDE DEF p, q, kd
<1>5. sq \in Nat /\ sp \in Nat /\ sl \in Nat /\ sw \in Nat
  BY <1>1, <1>3, <1>4
<1>6. 14000 * sq <= sw /\ sw < 14000 * sq + m
  <2>1. S * (14000 * q) <= S * power
    BY <1>1, <1>4
  <2>2. S * (power + 1) <= S * (14000 * q + 14000)
    BY <1>1, <1>4
  <2>3. QED
    BY <1>1, <1>4, <2>1, <2>2
<1>7. x = 14000 * sl + sw + 14000 * kd
  BY <1>1 DEF kd
<1>8. m * (lo + p + q) = 14000 * sl + 14000 * sp + 14000 * sq
  BY <1>1, <1>3, <1>4
<1>9. m * lo = 14000 * sl /\ m \in Nat \ {0} /\ m = 14000 * S
  BY <1>1
<1>10. k = 0 => kd <= sp
  BY <1>1, <1>5 DEF kd
<1> HIDE DEF sp, sq, sl, sw, x, m
<1>11. k = S - 1 => kd <= sp
  BY <1>1, <1>2, <1>3, <1>5
<1>12. k \in {0, S - 1} => x < m * (lo + p + q) + m
  BY <1>2, <1>5, <1>6, <1>7, <1>8, <1>9, <1>10, <1>11
<1>13. m * (lo + p + q) - m < x /\ x < m * (lo + p + q) + 2 * m
  BY <1>1, <1>2, <1>3, <1>5, <1>6, <1>7, <1>8, <1>9
<1>14. x \in Nat /\ m * lo <= x
  BY <1>2, <1>5, <1>7, <1>9
<1>15. QED
  BY <1>3, <1>4, <1>9, <1>12, <1>13, <1>14 DEF x, p, q, m

\* A blow of at least one point loses the same to armor in both models, as
\* long as the armor is above the pole of the oracle's share.
LEMMA ArmorsAgree ==
  ASSUME NEW d \in Nat \ {0}, NEW a \in Int, AbovePole(a)
  PROVE  apply_armor(d, a) = Armored(d, a)
<1>1. CASE a <= 0
  BY <1>1 DEF apply_armor, Armored, AbovePole
<1>2. CASE a > 0
  <2> DEFINE y          == 2 * a + 21115
             kept       == (d * 21115) \div y
             floor_kept == (d * 25) \div 100
             quarter    == d \div 4
  <2>1. apply_armor(d, a) = LET reduced == IF kept > floor_kept THEN kept ELSE floor_kept
                            IN  IF reduced > 1 THEN reduced ELSE 1
    BY <1>2 DEF apply_armor, ARMOR_K2_L70, ARMOR_KEPT_MIN_PCT
  <2>2. Armored(d, a) = LET left == IF 8 * a > 3 * y THEN quarter ELSE kept
                        IN  IF left < 1 THEN 1 ELSE left
    BY <1>2 DEF Armored, AbovePole
  <2>3. floor_kept = quarter /\ quarter \in Nat /\ 4 * quarter <= d /\ d < 4 * quarter + 4
    OBVIOUS
  <2>4. y \in Nat \ {0} /\ y = 2 * a + 21115 /\ d * 21115 \in Nat
    BY <1>2
  <2> HIDE DEF floor_kept, quarter, y
  <2>5. kept \in Nat /\ y * kept <= d * 21115 /\ d * 21115 < y * kept + y
    <3>1. d * 21115 \in Nat /\ y \in Nat \ {0}
      BY <2>4
    <3>2. QED
      BY ONLY <3>1, QuotientIs
  <2> HIDE DEF kept
  <2>6. CASE 8 * a > 3 * y
    <3>1. y > 4 * 21115
      BY <1>2, <2>4, <2>6
    <3>2. y * kept >= (4 * 21115) * kept
      BY <2>4, <2>5, <3>1
    <3>3. 4 * kept <= d
      BY <2>4, <2>5, <3>2
    <3>4. kept <= quarter
      BY <2>3, <2>5, <3>3
    <3>5. QED
      BY <2>1, <2>2, <2>3, <2>5, <2>6, <3>4
  <2>7. CASE ~(8 * a > 3 * y)
    <3>1. y <= 4 * 21115
      BY <1>2, <2>4, <2>7
    <3>2. y * quarter <= (4 * 21115) * quarter
      BY <2>3, <2>4, <3>1
    <3>3. y * quarter <= d * 21115
      BY <2>3, <2>4, <3>2
    <3>4. d * 21115 < y * (kept + 1)
      BY <2>4, <2>5
    <3>5. quarter <= kept
      <4>1. SUFFICES ASSUME kept + 1 <= quarter PROVE FALSE
        BY <2>3, <2>5
      <4>2. y * (kept + 1) <= y * quarter
        BY <2>3, <2>4, <2>5, <4>1
      <4>3. QED
        BY <2>3, <2>4, <2>5, <3>3, <3>4, <4>2
    <3>6. QED
      BY <2>1, <2>2, <2>3, <2>5, <2>7, <3>5
  <2>8. QED
    BY <2>6, <2>7
<1>3. QED
  BY <1>1, <1>2

\* Armor never makes two blows differ by more than they did.
LEMMA ArmorIsGentle ==
  ASSUME NEW d \in Nat \ {0}, NEW e \in Nat, NEW a \in Int
  PROVE  /\ Armored(d, a) \in Nat \ {0}
         /\ Armored(d, a) <= Armored(d + e, a) /\ Armored(d + e, a) <= Armored(d, a) + e
<1>1. CASE ~AbovePole(a)
  BY <1>1 DEF Armored, AbovePole
<1>2. CASE AbovePole(a) /\ a <= 0
  BY <1>2 DEF Armored, AbovePole
<1>3. CASE a > 0
  <2> DEFINE y == 2 * a + 21115
             f == (d * 21115) \div y
             g == ((d + e) * 21115) \div y
             c == 8 * a > 3 * y
  <2>1. /\ Armored(d, a) = LET left == IF c THEN d \div 4 ELSE f IN IF left < 1 THEN 1 ELSE left
        /\ Armored(d + e, a) = LET left == IF c THEN (d + e) \div 4 ELSE g IN IF left < 1 THEN 1 ELSE left
    BY <1>3 DEF Armored, AbovePole
  <2>2. y \in Nat /\ y >= 21115 /\ y \in Nat \ {0}
    BY <1>3
  <2> HIDE DEF y, c
  <2>3. f \in Nat /\ y * f <= d * 21115 /\ d * 21115 < y * f + y
    <3>1. d * 21115 \in Nat
      OBVIOUS
    <3>2. QED
      BY ONLY <2>2, <3>1, QuotientIs
  <2>4. y * e >= 21115 * e
    BY <2>2
  <2>5. y * (f + e + 1) = y * f + y * e + y /\ y * f \in Nat
    BY <2>2, <2>3
  <2>6. f <= g /\ g < f + e + 1 /\ g \in Int
    <3>1. y * f <= (d + e) * 21115
      BY <2>3, <2>5
    <3>2. (d + e) * 21115 < y * (f + e + 1)
      BY <2>2, <2>3, <2>4, <2>5
    <3>3. f \in Int /\ f + e + 1 \in Int /\ (d + e) * 21115 \in Nat
      BY <2>3
    <3> HIDE DEF f
    <3>4. QED
      BY <2>2, <3>1, <3>2, <3>3, QuotientBetween
  <2> HIDE DEF f, g
  <2>7. QED
    BY <2>1, <2>3, <2>6
<1>4. QED
  BY <1>1, <1>2, <1>3

LEMMA ArmoredWithin ==
  ASSUME NEW d \in Nat \ {0}, NEW e \in Nat \ {0}, NEW b \in Nat, NEW a \in Int,
         d <= e + b, e <= d + b
  PROVE  /\ Armored(d, a) \in Nat \ {0} /\ Armored(e, a) \in Nat \ {0}
         /\ Armored(d, a) <= Armored(e, a) + b /\ Armored(e, a) <= Armored(d, a) + b
<1>1. CASE d <= e
  <2>1. e - d \in Nat /\ d + (e - d) = e /\ e - d <= b
    BY <1>1
  <2>2. /\ Armored(d, a) \in Nat \ {0}
        /\ Armored(d, a) <= Armored(d + (e - d), a) /\ Armored(d + (e - d), a) <= Armored(d, a) + (e - d)
    BY <2>1, ArmorIsGentle
  <2>3. Armored(e, a) \in Nat \ {0}
    BY <2>1, ArmorIsGentle
  <2>4. QED
    BY <2>1, <2>2, <2>3
<1>2. CASE e <= d
  <2>1. d - e \in Nat /\ e + (d - e) = d /\ d - e <= b
    BY <1>2
  <2>2. /\ Armored(e, a) \in Nat \ {0}
        /\ Armored(e, a) <= Armored(e + (d - e), a) /\ Armored(e + (d - e), a) <= Armored(e, a) + (d - e)
    BY <2>1, ArmorIsGentle
  <2>3. Armored(d, a) \in Nat \ {0}
    BY <2>1, ArmorIsGentle
  <2>4. QED
    BY <2>1, <2>2, <2>3
<1>3. QED
  BY <1>1, <1>2

\* What both models make of the rage of two blows that differ by two at most.
LEMMA RagesMeet ==
  ASSUME NEW ours \in Nat \ {0}, NEW theirs \in Nat \ {0}, ours <= theirs + 2, theirs <= ours + 2,
         NEW speed \in Nat, NEW crit \in BOOLEAN
  PROVE  /\ rage_dealt_deci(ours, speed, crit) - rage_att_deci(theirs, speed, crit) \in -1..1
         /\ rage_taken_deci(ours) - rage_def_deci(theirs) \in -1..1
<1> DEFINE hf == IF crit THEN (speed * 7) \div 1000 ELSE (speed * 7) \div 2000
<1>1. hf \in Nat
  OBVIOUS
<1>2. ((IF crit THEN 14 ELSE 7) * speed) \div 2000 = hf
  OBVIOUS
<1>3. rage_dealt_deci(ours, speed, crit) = (375 * ours + 5 * hf * 2747) \div 2747
  BY <1>2 DEF rage_dealt_deci, RAGE_F2_CRIT, RAGE_F2_HIT, RAGE_C10_L70
<1>4. rage_att_deci(theirs, speed, crit) = (theirs * 375 + hf * 5 * 2747) \div 2747
  BY DEF rage_att_deci
<1> HIDE DEF hf
<1>5. (375 * ours + 5 * hf * 2747) \div 2747 - (theirs * 375 + hf * 5 * 2747) \div 2747 \in -1..1
  BY <1>1
<1>6. rage_taken_deci(ours) - rage_def_deci(theirs) \in -1..1
  BY DEF rage_taken_deci, rage_def_deci, RAGE_C10_L70
<1>7. QED
  BY <1>3, <1>4, <1>5, <1>6

\* A white swing's damage before armor in both models.
LEMMA RollsMeet ==
  ASSUME NEW a \in HitStats, a.attack_power >= 0, NEW k \in 0..S - 1
  PROVE  LET w      == a.weapon_min + (k * (a.weapon_max - a.weapon_min + 1)) \div S
             ours   == w + ap_bonus(a.attack_power, a.weapon_speed_ms)
             theirs == WeaponParts(a, a.weapon_speed_ms, k) \div (14000 * S)
         IN  /\ ours \in Nat \ {0} /\ theirs \in Nat \ {0}
             /\ ours <= theirs + 1 /\ theirs <= ours + 1
<1>1. /\ a.weapon_min \in Nat \ {0} /\ a.weapon_max \in Nat /\ a.weapon_min <= a.weapon_max
      /\ a.attack_power \in Nat /\ a.weapon_speed_ms \in Nat
  BY DEF HitStats
<1>2. PICK lo \in Nat, d \in Nat, power \in Nat :
        /\ lo = a.weapon_min /\ lo >= 1 /\ d = a.weapon_max - a.weapon_min
        /\ power = a.attack_power * a.weapon_speed_ms
  BY <1>1
<1> DEFINE p == (k * (d + 1)) \div S
           q == power \div 14000
           m == 14000 * S
           x == S * (14000 * lo + power) + k * 14000 * d
<1>3. /\ p \in Nat /\ q \in Nat /\ m \in Nat \ {0} /\ x \in Nat
      /\ m * (lo + p + q) - m < x /\ x < m * (lo + p + q) + 2 * m /\ m * lo <= x
  BY PartsOfRoll
<1>4. ap_bonus(a.attack_power, a.weapon_speed_ms) = q
  BY <1>2 DEF ap_bonus, Quot
<1>5. WeaponParts(a, a.weapon_speed_ms, k) = x
  BY <1>2 DEF WeaponParts
<1> HIDE DEF p, q, m, x
<1>6. x \div m \in Int /\ lo + p + q - 1 <= x \div m /\ x \div m < lo + p + q + 2
  <2>1. PICK least \in Int, most \in Int : least = lo + p + q - 1 /\ most = lo + p + q + 2
    BY <1>2, <1>3
  <2>2. m * least <= x /\ x < m * most
    BY <1>3, <2>1
  <2>3. x \in Nat /\ m \in Nat \ {0}
    BY <1>3
  <2>4. x \div m \in Int /\ least <= x \div m /\ x \div m < most
    BY ONLY <2>2, <2>3, QuotientBetween
  <2>5. QED
    BY <2>1, <2>4
<1>7. lo <= x \div m
  <2>1. PICK most \in Int : most = lo + p + q + 2
    BY <1>2, <1>3
  <2>2. m * lo <= x /\ x < m * most
    BY <1>3, <2>1
  <2>3. x \in Nat /\ m \in Nat \ {0} /\ lo \in Int
    BY <1>2, <1>3
  <2>4. QED
    BY ONLY <2>2, <2>3, QuotientBetween
<1>8. a.weapon_min + (k * (a.weapon_max - a.weapon_min + 1)) \div S = lo + p
  BY <1>2 DEF p
<1>9. QED
  BY <1>2, <1>3, <1>4, <1>5, <1>6, <1>7, <1>8 DEF m

\* What a block leaves of a blow.
LEMMA BlocksMeet ==
  ASSUME NEW d, d.block_value \in Int, NEW e \in Nat, NEW ours \in Nat, NEW theirs \in Nat,
         ours <= theirs + e, theirs <= ours + e
  PROVE  LET left == IF d.block_value < theirs THEN theirs - d.block_value ELSE 0
         IN  /\ Blocked(ours, d) \in Nat /\ left \in Nat
             /\ Blocked(ours, d) <= left + e /\ left <= Blocked(ours, d) + e
  BY DEF Blocked, pm_clamp0

LEMMA SwingsMeet ==
  ASSUME NEW a \in HitStats, a.attack_power >= 0, NEW d \in HitStats, NEW k \in 0..S - 1,
         NEW o \in {"Hit", "Crit", "Block"}, AbovePole(d.armor)
  PROVE  LET w      == a.weapon_min + (k * (a.weapon_max - a.weapon_min + 1)) \div S
             ours   == resolve_damage(o, w, a, d)
             theirs == white_mc(a, d, o, k)
         IN  ours \in Nat /\ theirs \in Nat /\ ours <= theirs + 2 /\ theirs <= ours + 2
<1> DEFINE w      == a.weapon_min + (k * (a.weapon_max - a.weapon_min + 1)) \div S
           base   == w + ap_bonus(a.attack_power, a.weapon_speed_ms)
           rolled == WeaponParts(a, a.weapon_speed_ms, k) \div (14000 * S)
           armed  == apply_armor(base, d.armor)
           other  == Armored(rolled, d.armor)
<1>1. d.armor \in Int /\ d.block_value \in Int
  BY DEF HitStats
<1>2. base \in Nat \ {0} /\ rolled \in Nat \ {0} /\ base <= rolled + 1 /\ rolled <= base + 1
  BY RollsMeet
<1>3. resolve_damage(o, w, a, d) = CASE o = "Crit"  -> armed * 2
                                     [] o = "Block" -> Blocked(armed, d)
                                     [] OTHER       -> armed
  BY DEF resolve_damage, MELEE_CRIT_MULT
<1>4. white_mc(a, d, o, k) = CASE o = "Crit"  -> 2 * other
                               [] o = "Block" -> IF d.block_value < other THEN other - d.block_value ELSE 0
                               [] OTHER       -> other
  BY DEF white_mc
<1> HIDE DEF base, rolled
<1>5. armed = Armored(base, d.armor)
  BY <1>1, <1>2, ArmorsAgree
<1>6. armed \in Nat \ {0} /\ other \in Nat \ {0} /\ armed <= other + 1 /\ other <= armed + 1
  <2>1. PICK x, y, armor, most : x = base /\ y = rolled /\ armor = d.armor /\ most = 1
    OBVIOUS
  <2>2. /\ x \in Nat \ {0} /\ y \in Nat \ {0} /\ most \in Nat /\ armor \in Int
        /\ x <= y + most /\ y <= x + most
    BY <1>1, <1>2, <2>1
  <2>3. /\ Armored(x, armor) \in Nat \ {0} /\ Armored(y, armor) \in Nat \ {0}
        /\ Armored(x, armor) <= Armored(y, armor) + most /\ Armored(y, armor) <= Armored(x, armor) + most
    BY ONLY <2>2, ArmoredWithin
  <2>4. QED
    BY <1>5, <2>1, <2>3
<1> HIDE DEF armed, other
<1>7. LET left == IF d.block_value < other THEN other - d.block_value ELSE 0
      IN  /\ Blocked(armed, d) \in Nat /\ left \in Nat
          /\ Blocked(armed, d) <= left + 1 /\ left <= Blocked(armed, d) + 1
  BY <1>1, <1>6, BlocksMeet
<1> HIDE DEF w
<1>8. /\ resolve_damage(o, w, a, d) \in Nat /\ white_mc(a, d, o, k) \in Nat
      /\ resolve_damage(o, w, a, d) <= white_mc(a, d, o, k) + 2
      /\ white_mc(a, d, o, k) <= resolve_damage(o, w, a, d) + 2
  BY <1>3, <1>4, <1>6, <1>7
<1>9. QED
  BY <1>8 DEF w

\* What an ability deals before armor, in both models.
AbilityMeets(a, k, crit, speed, flat) ==
  LET w      == a.weapon_min + (k * (a.weapon_max - a.weapon_min + 1)) \div S
      base   == flat + w + ap_bonus(a.attack_power, speed)
      ours   == IF crit THEN base * MELEE_CRIT_MULT ELSE base
      total  == 14000 * S * flat + WeaponParts(a, speed, k)
      theirs == (IF crit THEN 2 * total ELSE total) \div (14000 * S)
  IN  /\ ours \in Nat \ {0} /\ theirs \in Nat \ {0}
      /\ ours <= theirs + 2 /\ theirs <= ours + 2

\* It does at the ends of the weapon's range.
LEMMA AbilityRollsMeet ==
  ASSUME NEW a \in HitStats, a.attack_power >= 0, NEW k \in {0, S - 1}, NEW crit \in BOOLEAN,
         NEW speed \in Nat, NEW flat \in Nat
  PROVE  AbilityMeets(a, k, crit, speed, flat)
<1>1. /\ a.weapon_min \in Nat \ {0} /\ a.weapon_max \in Nat /\ a.weapon_min <= a.weapon_max
      /\ a.attack_power \in Nat /\ k \in 0..S - 1
  BY StepsAssumption DEF HitStats
<1>2. PICK lo \in Nat, d \in Nat, power \in Nat :
        /\ lo = a.weapon_min /\ lo >= 1 /\ d = a.weapon_max - a.weapon_min
        /\ power = a.attack_power * speed
  BY <1>1
<1> DEFINE p == (k * (d + 1)) \div S
           q == power \div 14000
           m == 14000 * S
           x == S * (14000 * lo + power) + k * 14000 * d
<1>3. /\ p \in Nat /\ q \in Nat /\ m \in Nat \ {0} /\ x \in Nat
      /\ m * (lo + p + q) - m < x /\ x < m * (lo + p + q) + m /\ m * lo <= x
  BY <1>1, PartsOfRoll
<1>4. ap_bonus(a.attack_power, speed) = q
  BY <1>2 DEF ap_bonus, Quot
<1>5. WeaponParts(a, speed, k) = x
  BY <1>2 DEF WeaponParts
<1>6. a.weapon_min + (k * (a.weapon_max - a.weapon_min + 1)) \div S = lo + p
  BY <1>2 DEF p
<1> DEFINE total == m * flat + x
<1> HIDE DEF p, q, m, x
<1>7. PICK base \in Nat : base = flat + (lo + p) + q
  BY <1>2, <1>3
<1>8. /\ total \in Nat /\ m * base - m < total /\ total < m * base + m
      /\ m * (flat + lo) <= total
  BY <1>2, <1>3, <1>7
<1> HIDE DEF total
<1>9. base >= 1 /\ flat + lo >= 1
  BY <1>2, <1>3, <1>7
<1>10. ASSUME NEW times \in {1, 2}
       PROVE  LET theirs == (times * total) \div m
              IN  theirs \in Nat \ {0} /\ times * base <= theirs + 2 /\ theirs <= times * base + 2
  <2>1. PICK least \in Int, most \in Int, first \in Int, y \in Nat :
          /\ least = times * base - 2 /\ most = times * base + 2
          /\ first = 1 /\ y = times * total
    BY <1>8
  <2>2. m * least <= y /\ y < m * most
    BY <1>3, <1>8, <2>1
  <2>3. m * first <= y
    <3>1. m <= m * (flat + lo)
      BY <1>2, <1>3, <1>9
    <3>2. total <= y
      BY <1>8, <2>1
    <3>3. QED
      BY <1>2, <1>3, <1>8, <2>1, <3>1, <3>2
  <2>4. m \in Nat \ {0}
    BY <1>3
  <2>5. y \div m \in Int /\ least <= y \div m /\ y \div m < most
    BY ONLY <2>2, <2>4, QuotientBetween
  <2>6. first <= y \div m
    BY ONLY <2>2, <2>3, <2>4, QuotientBetween
  <2>7. QED
    BY <2>1, <2>5, <2>6
<1>11. base * 2 = 2 * base /\ base = 1 * base /\ total = 1 * total
  BY <1>8
<1>12. /\ total \div m \in Nat \ {0} /\ base <= total \div m + 2 /\ total \div m <= base + 2
       /\ (2 * total) \div m \in Nat \ {0} /\ base * 2 <= (2 * total) \div m + 2
       /\ (2 * total) \div m <= base * 2 + 2
  BY <1>10, <1>11
<1>13. total = 14000 * S * flat + WeaponParts(a, speed, k)
  BY <1>5 DEF total, m
<1>14. m = 14000 * S
  BY DEF m
<1>15. flat + (a.weapon_min + (k * (a.weapon_max - a.weapon_min + 1)) \div S) + ap_bonus(a.attack_power, speed) = base
  BY <1>4, <1>6, <1>7
<1>16. QED
  BY <1>9, <1>12, <1>13, <1>14, <1>15 DEF MELEE_CRIT_MULT, AbilityMeets

LEMMA AbilitiesMeet ==
  ASSUME NEW a \in HitStats, a.attack_power >= 0, NEW d \in HitStats, NEW k \in {0, S - 1},
         NEW crit \in BOOLEAN, NEW blocked \in BOOLEAN, NEW normalized \in BOOLEAN, NEW flat \in Nat,
         AbovePole(d.armor)
  PROVE  LET w      == a.weapon_min + (k * (a.weapon_max - a.weapon_min + 1)) \div S
             ours   == resolve_yellow_damage(w, crit, blocked, a, d, normalized, flat)
             theirs == yellow_mc(a, d, crit, blocked, normalized, flat, k)
         IN  ours - theirs \in -2..2
<1> DEFINE w      == a.weapon_min + (k * (a.weapon_max - a.weapon_min + 1)) \div S
           speed  == IF normalized THEN a.weapon_norm_ms ELSE a.weapon_speed_ms
           base   == flat + w + ap_bonus(a.attack_power, speed)
           hit    == IF crit THEN base * MELEE_CRIT_MULT ELSE base
           total  == 14000 * S * flat + WeaponParts(a, speed, k)
           rolled == (IF crit THEN 2 * total ELSE total) \div (14000 * S)
           armed  == apply_armor(hit, d.armor)
           other  == Armored(rolled, d.armor)
<1>1. d.armor \in Int /\ d.block_value \in Int /\ speed \in Nat
  BY DEF HitStats
<1>2. resolve_yellow_damage(w, crit, blocked, a, d, normalized, flat) = IF blocked THEN Blocked(armed, d) ELSE armed
  BY DEF resolve_yellow_damage
<1>3. yellow_mc(a, d, crit, blocked, normalized, flat, k)
        = IF ~blocked THEN other ELSE IF d.block_value < other THEN other - d.block_value ELSE 0
  BY DEF yellow_mc
<1> HIDE DEF speed
<1>4. hit \in Nat \ {0} /\ rolled \in Nat \ {0} /\ hit <= rolled + 2 /\ rolled <= hit + 2
  <2>1. AbilityMeets(a, k, crit, speed, flat)
    BY <1>1, AbilityRollsMeet
  <2>2. QED
    BY <2>1 DEF AbilityMeets
<1> HIDE DEF hit, rolled
<1>5. armed = Armored(hit, d.armor)
  BY <1>1, <1>4, ArmorsAgree
<1>6. armed \in Nat \ {0} /\ other \in Nat \ {0} /\ armed <= other + 2 /\ other <= armed + 2
  <2>1. PICK x, y, armor, most : x = hit /\ y = rolled /\ armor = d.armor /\ most = 2
    OBVIOUS
  <2>2. /\ x \in Nat \ {0} /\ y \in Nat \ {0} /\ most \in Nat /\ armor \in Int
        /\ x <= y + most /\ y <= x + most
    BY <1>1, <1>4, <2>1
  <2>3. /\ Armored(x, armor) \in Nat \ {0} /\ Armored(y, armor) \in Nat \ {0}
        /\ Armored(x, armor) <= Armored(y, armor) + most /\ Armored(y, armor) <= Armored(x, armor) + most
    BY ONLY <2>2, ArmoredWithin
  <2>4. QED
    BY <1>5, <2>1, <2>3
<1> HIDE DEF armed, other
<1>7. LET left == IF d.block_value < other THEN other - d.block_value ELSE 0
      IN  /\ Blocked(armed, d) \in Nat /\ left \in Nat
          /\ Blocked(armed, d) <= left + 2 /\ left <= Blocked(armed, d) + 2
  BY <1>1, <1>6, BlocksMeet
<1> HIDE DEF w
<1>8. resolve_yellow_damage(w, crit, blocked, a, d, normalized, flat)
        - yellow_mc(a, d, crit, blocked, normalized, flat, k) \in -2..2
  BY <1>2, <1>3, <1>6, <1>7
<1>9. QED
  BY <1>8 DEF w

\* With one roll of the weapon for both, the damage of the simulator and of its
\* oracle are never more than two apart, and the rage by a tenth at most: the
\* tolerance of arena_diff.cpp:30, for any natural stats and any armor above the
\* pole of the oracle's share, its fractions taken as exact.
THEOREM DamagesMeet == NaturalScenarios /\ DiffSpec => []CoupledWithinTwo
<1>1. ASSUME SInv PROVE CoupledWithinTwo
  <2> SUFFICES ASSUME AbovePole(def.armor), NEW k \in 0..S - 1
               PROVE  LET w == att.weapon_min + (k * (att.weapon_max - att.weapon_min + 1)) \div S
                      IN  /\ \A o \in {"Hit", "Crit", "Block"} :
                               LET ours   == resolve_damage(o, w, att, def)
                                   theirs == white_mc(att, def, o, k)
                               IN  /\ ours - theirs \in -2..2
                                   /\ ours > 0 /\ theirs > 0 =>
                                        /\ rage_dealt_deci(ours, att.weapon_speed_ms, o = "Crit")
                                             - rage_att_deci(theirs, att.weapon_speed_ms, o = "Crit") \in -1..1
                                        /\ rage_taken_deci(ours) - rage_def_deci(theirs) \in -1..1
                          /\ k \in {0, S - 1} =>
                               \A crit, blocked \in BOOLEAN,
                                  ability \in {<<TRUE, MS_FLAT_BONUS>>, <<FALSE, HS_FLAT_BONUS>>} :
                                 resolve_yellow_damage(w, crit, blocked, att, def, ability[1], ability[2])
                                   - yellow_mc(att, def, crit, blocked, ability[1], ability[2], k) \in -2..2
    BY DEF CoupledWithinTwo
  <2>1. att \in HitStats /\ def \in HitStats /\ att.attack_power >= 0 /\ att.weapon_speed_ms \in Nat
    BY <1>1 DEF SInv, Natural, HitStats
  <2> DEFINE w == att.weapon_min + (k * (att.weapon_max - att.weapon_min + 1)) \div S
  <2>2. ASSUME NEW o \in {"Hit", "Crit", "Block"}
        PROVE  LET ours   == resolve_damage(o, w, att, def)
                   theirs == white_mc(att, def, o, k)
               IN  /\ ours - theirs \in -2..2
                   /\ ours > 0 /\ theirs > 0 =>
                        /\ rage_dealt_deci(ours, att.weapon_speed_ms, o = "Crit")
                             - rage_att_deci(theirs, att.weapon_speed_ms, o = "Crit") \in -1..1
                        /\ rage_taken_deci(ours) - rage_def_deci(theirs) \in -1..1
    <3>1. PICK ours \in Nat, theirs \in Nat :
            /\ ours = resolve_damage(o, w, att, def) /\ theirs = white_mc(att, def, o, k)
            /\ ours <= theirs + 2 /\ theirs <= ours + 2
      BY <2>1, SwingsMeet
    <3>2. ours - theirs \in -2..2
      BY <3>1
    <3>3. PICK crit \in BOOLEAN : crit = (o = "Crit")
      OBVIOUS
    <3>4. ASSUME ours > 0, theirs > 0
          PROVE  /\ rage_dealt_deci(ours, att.weapon_speed_ms, crit)
                      - rage_att_deci(theirs, att.weapon_speed_ms, crit) \in -1..1
                 /\ rage_taken_deci(ours) - rage_def_deci(theirs) \in -1..1
      BY <2>1, <3>1, <3>4, RagesMeet
    <3>5. QED
      BY <3>1, <3>2, <3>3, <3>4
  <2>3. ASSUME k \in {0, S - 1}, NEW crit \in BOOLEAN, NEW blocked \in BOOLEAN,
               NEW ability \in {<<TRUE, MS_FLAT_BONUS>>, <<FALSE, HS_FLAT_BONUS>>}
        PROVE  resolve_yellow_damage(w, crit, blocked, att, def, ability[1], ability[2])
                 - yellow_mc(att, def, crit, blocked, ability[1], ability[2], k) \in -2..2
    <3>1. ability[1] \in BOOLEAN /\ ability[2] \in Nat
      <4>1. CASE ability = <<TRUE, MS_FLAT_BONUS>>
        <5>1. ability[1] = TRUE /\ ability[2] = 210
          BY <4>1 DEF MS_FLAT_BONUS
        <5>2. ability[1] \in BOOLEAN
          BY <5>1, Zenon
        <5>3. ability[2] \in Nat
          BY <5>1
        <5>4. QED
          BY <5>2, <5>3
      <4>2. CASE ability = <<FALSE, HS_FLAT_BONUS>>
        <5>1. ability[1] = FALSE /\ ability[2] = 176
          BY <4>2 DEF HS_FLAT_BONUS
        <5>2. ability[1] \in BOOLEAN
          BY <5>1, Zenon
        <5>3. ability[2] \in Nat
          BY <5>1
        <5>4. QED
          BY <5>2, <5>3
      <4>3. QED
        BY <4>1, <4>2
    <3>2. QED
      BY <2>1, <2>3, <3>1, AbilitiesMeet
  <2>4. QED
    BY <2>2, <2>3
<1>2. QED
  BY <1>1, TalliesAreSound, PTL

-----------------------------------------------------------------------------
(* The dice the two abilities share.                                       *)

\* A tally has the fields of one; nothing is said of their values.
Shaped(r) ==
  r = [count |-> r.count, contacts |-> r.contacts, crits |-> r.crits, blocks |-> r.blocks,
       damage_min |-> r.damage_min, damage_max |-> r.damage_max]

LEMMA CountedIsShaped ==
  ASSUME NEW r, Shaped(r), NEW o
  PROVE  /\ Shaped(Counted(r, o)) /\ Counted(r, o).count = [r.count EXCEPT ![o] = @ + 1]
         /\ Counted(r, o).crits = r.crits /\ Counted(r, o).blocks = r.blocks
         /\ Counted(r, o).contacts = r.contacts
<1> DEFINE count   == [r.count EXCEPT ![o] = @ + 1]
           counted == Counted(r, o)
<1>1. counted = [r EXCEPT !.count = count]
  BY DEF Counted, Shaped
<1> HIDE DEF count, counted
<1>2. counted = [count |-> count, contacts |-> r.contacts, crits |-> r.crits, blocks |-> r.blocks,
                 damage_min |-> r.damage_min, damage_max |-> r.damage_max]
  BY <1>1 DEF Shaped
<1>3. /\ Shaped(counted) /\ counted.count = count /\ counted.crits = r.crits
      /\ counted.blocks = r.blocks /\ counted.contacts = r.contacts
  BY <1>2 DEF Shaped
<1>4. QED
  BY <1>3 DEF counted, count

LEMMA HitIsShaped ==
  ASSUME NEW counted, Shaped(counted), NEW damage
  PROVE  /\ Shaped(WithDamage(counted, damage)) /\ WithDamage(counted, damage).count = counted.count
         /\ WithDamage(counted, damage).crits = counted.crits
         /\ WithDamage(counted, damage).blocks = counted.blocks
         /\ WithDamage(counted, damage).contacts = counted.contacts + 1
<1> DEFINE hit      == WithDamage(counted, damage)
           contacts == counted.contacts + 1
           low  == IF counted.contacts = 0 \/ damage < counted.damage_min
                   THEN damage ELSE counted.damage_min
           high == IF counted.contacts = 0 \/ damage > counted.damage_max
                   THEN damage ELSE counted.damage_max
<1>1. hit = [counted EXCEPT !.contacts = contacts, !.damage_min = low, !.damage_max = high]
  BY DEF WithDamage
<1> HIDE DEF contacts, low, high, hit
<1>2. hit = [count |-> counted.count, contacts |-> contacts, crits |-> counted.crits,
             blocks |-> counted.blocks, damage_min |-> low, damage_max |-> high]
  BY <1>1 DEF Shaped
<1>3. /\ Shaped(hit) /\ hit.count = counted.count /\ hit.crits = counted.crits
      /\ hit.blocks = counted.blocks /\ hit.contacts = contacts
  BY <1>2 DEF Shaped
<1>4. QED
  BY <1>3 DEF hit, contacts

LEMMA StruckIsShaped ==
  ASSUME NEW hit, Shaped(hit), NEW crit \in BOOLEAN, NEW blocked \in BOOLEAN
  PROVE  /\ Shaped(Struck(hit, crit, blocked)) /\ Struck(hit, crit, blocked).count = hit.count
         /\ Struck(hit, crit, blocked).crits = IF crit THEN hit.crits + 1 ELSE hit.crits
         /\ Struck(hit, crit, blocked).blocks = IF blocked THEN hit.blocks + 1 ELSE hit.blocks
         /\ Struck(hit, crit, blocked).contacts = hit.contacts
<1> DEFINE new    == Struck(hit, crit, blocked)
           crits  == IF crit THEN hit.crits + 1 ELSE hit.crits
           blocks == IF blocked THEN hit.blocks + 1 ELSE hit.blocks
<1>1. new = [hit EXCEPT !.crits = crits, !.blocks = blocks]
  BY DEF Struck
<1> HIDE DEF crits, blocks, new
<1>2. new = [count |-> hit.count, contacts |-> hit.contacts, crits |-> crits, blocks |-> blocks,
             damage_min |-> hit.damage_min, damage_max |-> hit.damage_max]
  BY <1>1 DEF Shaped
<1>3. /\ Shaped(new) /\ new.count = hit.count /\ new.crits = crits /\ new.blocks = blocks
      /\ new.contacts = hit.contacts
  BY <1>2 DEF Shaped
<1>4. QED
  BY <1>3 DEF new, crits, blocks

LEMMA AbilityDice ==
  ASSUME NEW a, NEW d, NEW f, NEW rolls, NEW normalized, NEW flat_bonus
  PROVE  LET yr == resolve_yellow(a, d, f, rolls, normalized, flat_bonus)
             o  == classify_yellow(build_yellow_table(a, d, f), rolls.table)
         IN  /\ yr.outcome = o
             /\ yr.crit = (o = "Hit" /\ rolls.crit < chance_crit_pm(a, d))
             /\ yr.blocked = (o = "Hit" /\ can_block(d, f) /\ rolls.block < chance_block_pm(a, d))
<1> DEFINE o       == classify_yellow(build_yellow_table(a, d, f), rolls.table)
           crit    == rolls.crit < chance_crit_pm(a, d)
           blocked == can_block(d, f) /\ rolls.block < chance_block_pm(a, d)
           damage  == resolve_yellow_damage(rolls.weapon, crit, blocked, a, d, normalized, flat_bonus)
           yr      == resolve_yellow(a, d, f, rolls, normalized, flat_bonus)
<1>1. yr = IF o # "Hit"
           THEN [outcome |-> o, crit |-> FALSE, blocked |-> FALSE, damage |-> 0, rage_defender_deci |-> 0]
           ELSE [outcome |-> o, crit |-> crit, blocked |-> blocked, damage |-> damage,
                 rage_defender_deci |-> rage_taken_deci(damage)]
  BY DEF resolve_yellow
<1>2. crit \in BOOLEAN /\ blocked \in BOOLEAN
  OBVIOUS
<1> HIDE DEF o, crit, blocked, damage, yr
<1>3. yr.outcome = o /\ yr.crit = (o = "Hit" /\ crit) /\ yr.blocked = (o = "Hit" /\ blocked)
  <2>1. CASE o = "Hit"
    BY <1>1, <1>2, <2>1
  <2>2. CASE o # "Hit"
    BY <1>1, <2>2
  <2>3. QED
    BY <2>1, <2>2
<1>4. QED
  BY <1>3 DEF yr, o, crit, blocked

\* What is known is not forgotten and does not change.
Extends(d, e) == \A key \in DOMAIN d : key \in DOMAIN e /\ e[key] = d[key]

LEMMA KnownExtends ==
  ASSUME NEW d, NEW subsystem, NEW seq, NEW value, NEW e, Extends(d, e),
         <<subsystem, seq>> \in DOMAIN d => value = d[<<subsystem, seq>>]
  PROVE  /\ Extends(d, Known(e, subsystem, seq, value))
         /\ <<subsystem, seq>> \in DOMAIN Known(e, subsystem, seq, value)
         /\ Known(e, subsystem, seq, value)[<<subsystem, seq>>] = value
         /\ \A other \in DOMAIN e : other # <<subsystem, seq>> =>
              /\ other \in DOMAIN Known(e, subsystem, seq, value)
              /\ Known(e, subsystem, seq, value)[other] = e[other]
<1>1. /\ DOMAIN Known(e, subsystem, seq, value) = (DOMAIN e) \cup {<<subsystem, seq>>}
      /\ Known(e, subsystem, seq, value)[<<subsystem, seq>>] = value
      /\ \A key \in DOMAIN e : key # <<subsystem, seq>> => Known(e, subsystem, seq, value)[key] = e[key]
  BY DEF Known
<1>2. QED
  BY <1>1 DEF Extends

\* A moment of an ability's loop: its cursor and what it counted so far.
Start == [cursor |-> FreshCursor, count |-> EmptyReport.count, crits |-> 0, blocks |-> 0]

\* One trial from moment s to moment t, with the random numbers of d; neither
\* the weapon nor what tells one ability from the other plays a part.
Trial(d, s, t) ==
  LET table     == <<"yellow_table", s.cursor.yellow_table_seq>>
      crit      == <<"yellow_crit", s.cursor.yellow_crit_seq>>
      block     == <<"yellow_block", s.cursor.yellow_block_seq>>
      o         == classify_yellow(build_yellow_table(att, def, front), d[table])
      hit       == o = "Hit"
      blockable == can_block(def, front)
  IN  /\ table \in DOMAIN d
      /\ hit => crit \in DOMAIN d
      /\ hit /\ blockable => block \in DOMAIN d
      /\ t.cursor = yellow_cursor(s.cursor, hit, blockable)
      /\ t.count = [s.count EXCEPT ![o] = @ + 1]
      /\ t.crits = IF hit /\ d[crit] < chance_crit_pm(att, def) THEN s.crits + 1 ELSE s.crits
      /\ t.blocks = IF hit /\ blockable /\ d[block] < chance_block_pm(att, def)
                    THEN s.blocks + 1 ELSE s.blocks

LEMMA TrialStays ==
  ASSUME NEW d, NEW e, Extends(d, e), NEW s, NEW t, Trial(d, s, t)
  PROVE  Trial(e, s, t)
<1> DEFINE table == <<"yellow_table", s.cursor.yellow_table_seq>>
           crit  == <<"yellow_crit", s.cursor.yellow_crit_seq>>
           block == <<"yellow_block", s.cursor.yellow_block_seq>>
           o     == classify_yellow(build_yellow_table(att, def, front), d[table])
<1>1. table \in DOMAIN e /\ e[table] = d[table]
  BY DEF Extends, Trial
<1>2. o = "Hit" => crit \in DOMAIN e /\ e[crit] = d[crit]
  BY DEF Extends, Trial
<1>3. o = "Hit" /\ can_block(def, front) => block \in DOMAIN e /\ e[block] = d[block]
  BY DEF Extends, Trial
<1>4. o = classify_yellow(build_yellow_table(att, def, front), e[table])
  BY <1>1
<1>5. /\ t.cursor = yellow_cursor(s.cursor, o = "Hit", can_block(def, front))
      /\ t.count = [s.count EXCEPT ![o] = @ + 1]
      /\ t.crits = IF o = "Hit" /\ d[crit] < chance_crit_pm(att, def) THEN s.crits + 1 ELSE s.crits
      /\ t.blocks = IF o = "Hit" /\ can_block(def, front) /\ d[block] < chance_block_pm(att, def)
                    THEN s.blocks + 1 ELSE s.blocks
  BY DEF Trial
<1> HIDE DEF o, table, crit, block
<1>6. QED
  BY <1>1, <1>2, <1>3, <1>4, <1>5 DEF Trial, table, crit, block

LEMMA TrialIsDetermined ==
  ASSUME NEW d, NEW s, NEW t, NEW u, Trial(d, s, t), Trial(d, s, u)
  PROVE  t.cursor = u.cursor /\ t.count = u.count /\ t.crits = u.crits /\ t.blocks = u.blocks
  BY DEF Trial

\* Where the loop l stands.
At(l) == [cursor |-> cursor, count |-> report[l].count, crits |-> report[l].crits,
          blocks |-> report[l].blocks]

Same(s, t) == s.cursor = t.cursor /\ s.count = t.count /\ s.crits = t.crits /\ s.blocks = t.blocks

\* An ability's step is a trial, and forgets nothing.
LEMMA YellowIsTrial ==
  ASSUME \A l \in Loops : Shaped(report[l]), loop \in Loops,
         report = [l \in Loops |-> report[l]],
         NEW normalized, NEW flat_bonus, YellowTrial(normalized, flat_bonus)
  PROVE  /\ Extends(drawn, drawn')
         /\ Trial(drawn', At(loop), At(loop)')
         /\ report' = [l \in Loops |-> report'[l]]
         /\ \A l \in Loops : Shaped(report'[l])
         /\ \A l \in Loops \ {loop} : report'[l] = report[l]
<1>1. PICK table \in Rolls("yellow_table", cursor.yellow_table_seq, TableRolls),
           crit \in Rolls("yellow_crit", cursor.yellow_crit_seq, ChanceRolls),
           block \in Rolls("yellow_block", cursor.yellow_block_seq, ChanceRolls),
           w \in Rolls("yellow_damage", cursor.yellow_damage_seq, WeaponRolls) :
        LET rolls     == [table |-> table, crit |-> crit, block |-> block, weapon |-> w]
            yr        == resolve_yellow(att, def, front, rolls, normalized, flat_bonus)
            hit       == yr.outcome = "Hit"
            blockable == can_block(def, front)
            counted   == Counted(report[loop], yr.outcome)
            struck    == Struck(WithDamage(counted, yr.damage), yr.crit, yr.blocked)
            d1        == Known(drawn, "yellow_table", cursor.yellow_table_seq, table)
            d2        == Known(Known(d1, "yellow_crit", cursor.yellow_crit_seq, crit),
                               "yellow_damage", cursor.yellow_damage_seq, w)
        IN  /\ report' = [report EXCEPT ![loop] = IF hit THEN struck ELSE counted]
            /\ cursor' = yellow_cursor(cursor, hit, blockable)
            /\ drawn' = IF ~hit THEN d1
                        ELSE IF ~blockable THEN d2
                        ELSE Known(d2, "yellow_block", cursor.yellow_block_seq, block)
  BY DEF YellowTrial
<1> DEFINE Tk == <<"yellow_table", cursor.yellow_table_seq>>
           Ck == <<"yellow_crit", cursor.yellow_crit_seq>>
           Bk == <<"yellow_block", cursor.yellow_block_seq>>
           Wk == <<"yellow_damage", cursor.yellow_damage_seq>>
           rolls == [table |-> table, crit |-> crit, block |-> block, weapon |-> w]
           yr    == resolve_yellow(att, def, front, rolls, normalized, flat_bonus)
           o     == classify_yellow(build_yellow_table(att, def, front), table)
           hit   == o = "Hit"
           blockable == can_block(def, front)
           d1 == Known(drawn, "yellow_table", cursor.yellow_table_seq, table)
           dc == Known(d1, "yellow_crit", cursor.yellow_crit_seq, crit)
           d2 == Known(dc, "yellow_damage", cursor.yellow_damage_seq, w)
           d3 == Known(d2, "yellow_block", cursor.yellow_block_seq, block)
           r  == report[loop]
           crit_now  == hit /\ crit < chance_crit_pm(att, def)
           block_now == hit /\ blockable /\ block < chance_block_pm(att, def)
           struck    == Struck(WithDamage(Counted(r, o), yr.damage), crit_now, block_now)
<1>2. yr.outcome = o /\ yr.crit = crit_now /\ yr.blocked = block_now
  <2>1. rolls.table = table /\ rolls.crit = crit /\ rolls.block = block
    OBVIOUS
  <2> HIDE DEF rolls
  <2>2. QED
    BY <2>1, AbilityDice
<1>3. /\ report' = [report EXCEPT ![loop] = IF hit THEN struck ELSE Counted(r, o)]
      /\ cursor' = yellow_cursor(cursor, hit, blockable)
      /\ drawn' = IF ~hit THEN d1 ELSE IF ~blockable THEN d2 ELSE d3
  BY <1>1, <1>2
<1>4. /\ Tk \in DOMAIN drawn => table = drawn[Tk]
      /\ Ck \in DOMAIN drawn => crit = drawn[Ck]
      /\ Bk \in DOMAIN drawn => block = drawn[Bk]
      /\ Wk \in DOMAIN drawn => w = drawn[Wk]
  BY DEF Rolls
<1>5. Tk # Ck /\ Tk # Bk /\ Tk # Wk /\ Ck # Bk /\ Ck # Wk
  OBVIOUS
<1> HIDE DEF d1, dc, d2, d3, o, yr, rolls
<1>6. Extends(drawn, d1) /\ Tk \in DOMAIN d1 /\ d1[Tk] = table
  BY <1>4, KnownExtends DEF d1, Extends
<1>7. /\ Extends(drawn, dc) /\ Tk \in DOMAIN dc /\ dc[Tk] = table /\ Ck \in DOMAIN dc /\ dc[Ck] = crit
  BY <1>4, <1>5, <1>6, KnownExtends DEF dc
<1>8. /\ Extends(drawn, d2) /\ Tk \in DOMAIN d2 /\ d2[Tk] = table /\ Ck \in DOMAIN d2 /\ d2[Ck] = crit
  BY <1>4, <1>5, <1>7, KnownExtends DEF d2
<1>9. /\ Extends(drawn, d3) /\ Tk \in DOMAIN d3 /\ d3[Tk] = table /\ Ck \in DOMAIN d3 /\ d3[Ck] = crit
      /\ Bk \in DOMAIN d3 /\ d3[Bk] = block
  BY <1>4, <1>5, <1>8, KnownExtends DEF d3
<1>10. /\ Extends(drawn, drawn') /\ Tk \in DOMAIN drawn' /\ drawn'[Tk] = table
       /\ hit => Ck \in DOMAIN drawn' /\ drawn'[Ck] = crit
       /\ hit /\ blockable => Bk \in DOMAIN drawn' /\ drawn'[Bk] = block
  BY <1>3, <1>6, <1>8, <1>9
<1>11. Shaped(r)
  OBVIOUS
<1> DEFINE new == IF hit THEN struck ELSE Counted(r, o)
<1>12. /\ Shaped(new) /\ new.count = [r.count EXCEPT ![o] = @ + 1]
       /\ new.crits = IF crit_now THEN r.crits + 1 ELSE r.crits
       /\ new.blocks = IF block_now THEN r.blocks + 1 ELSE r.blocks
  <2> DEFINE damage == yr.damage
  <2>0. crit_now \in BOOLEAN /\ block_now \in BOOLEAN
    OBVIOUS
  <2>1. ~hit => ~crit_now /\ ~block_now
    OBVIOUS
  <2>2. struck = Struck(WithDamage(Counted(r, o), damage), crit_now, block_now)
    OBVIOUS
  <2> HIDE DEF damage, crit_now, block_now, struck, r
  <2>3. /\ Shaped(Counted(r, o)) /\ Counted(r, o).count = [r.count EXCEPT ![o] = @ + 1]
        /\ Counted(r, o).crits = r.crits /\ Counted(r, o).blocks = r.blocks
        /\ Shaped(struck) /\ struck.count = [r.count EXCEPT ![o] = @ + 1]
        /\ crit_now => struck.crits = r.crits + 1
        /\ ~crit_now => struck.crits = r.crits
        /\ block_now => struck.blocks = r.blocks + 1
        /\ ~block_now => struck.blocks = r.blocks
    <3> DEFINE counted == Counted(r, o)
               contact == WithDamage(counted, damage)
    <3> HIDE DEF hit
    <3>1. /\ Shaped(counted) /\ counted.count = [r.count EXCEPT ![o] = @ + 1]
          /\ counted.crits = r.crits /\ counted.blocks = r.blocks
      BY <1>11, CountedIsShaped
    <3> HIDE DEF counted
    <3>2. /\ Shaped(contact) /\ contact.count = counted.count
          /\ contact.crits = counted.crits /\ contact.blocks = counted.blocks
      BY <3>1, HitIsShaped
    <3>3. struck = Struck(contact, crit_now, block_now)
      BY <2>2 DEF counted
    <3> HIDE DEF contact
    <3>4. /\ Shaped(struck) /\ struck.count = contact.count
          /\ crit_now => struck.crits = contact.crits + 1
          /\ ~crit_now => struck.crits = contact.crits
          /\ block_now => struck.blocks = contact.blocks + 1
          /\ ~block_now => struck.blocks = contact.blocks
      BY ONLY <2>0, <3>2, <3>3, StruckIsShaped, Zenon
    <3>5. QED
      BY <3>1, <3>2, <3>4 DEF counted
  <2>4. QED
    BY <2>1, <2>3
<1>13. report' = [report EXCEPT ![loop] = new]
  BY <1>3
<1> HIDE DEF new
<1>14. /\ report' = [l \in Loops |-> report'[l]] /\ report'[loop] = new
       /\ \A l \in Loops \ {loop} : report'[l] = report[l]
  BY <1>13
<1>15. \A l \in Loops : Shaped(report'[l])
  BY <1>12, <1>14
<1>16. Trial(drawn', At(loop), At(loop)')
  <2> DEFINE s == At(loop)
             t == At(loop)'
  <2>1. s.cursor = cursor /\ s.count = r.count /\ s.crits = r.crits /\ s.blocks = r.blocks
    BY DEF At
  <2>2. loop' = loop
    BY DEF YellowTrial
  <2>3. t.cursor = cursor' /\ t.count = new.count /\ t.crits = new.crits /\ t.blocks = new.blocks
    BY <1>14, <2>2 DEF At
  <2>4. o = classify_yellow(build_yellow_table(att, def, front), drawn'[Tk])
    BY <1>10 DEF o
  <2> HIDE DEF s, t, r
  <2>5. /\ t.cursor = yellow_cursor(s.cursor, hit, blockable)
        /\ t.count = [s.count EXCEPT ![o] = @ + 1]
        /\ t.crits = IF hit /\ drawn'[Ck] < chance_crit_pm(att, def) THEN s.crits + 1 ELSE s.crits
        /\ t.blocks = IF hit /\ blockable /\ drawn'[Bk] < chance_block_pm(att, def)
                      THEN s.blocks + 1 ELSE s.blocks
    BY <1>3, <1>10, <1>12, <2>1, <2>3
  <2>6. Trial(drawn', s, t)
    BY <1>10, <2>1, <2>4, <2>5 DEF Trial
  <2>7. QED
    BY <2>6 DEF s, t
<1>17. QED
  BY <1>10, <1>14, <1>15, <1>16

LEMMA TrialOfSame ==
  ASSUME NEW d, NEW s, NEW u, Same(s, u), NEW t, Trial(d, s, t)
  PROVE  Trial(d, u, t)
  BY DEF Trial, Same

\* h tells the first len trials of an ability's loop from its start.
Tells(h, d, len) == Same(h[0], Start) /\ \A k \in 0..len - 1 : Trial(d, h[k], h[k + 1])

\* Mortal Strike's loop can be told by its moments; Heroic Strike's loop is as
\* far along the same moments.
Told ==
  \/ loop = "white" /\ \A l \in Abilities : Same([At(l) EXCEPT !.cursor = FreshCursor], Start)
  \/ /\ loop = "ms"
     /\ Same([At("hs") EXCEPT !.cursor = FreshCursor], Start)
     /\ \E h : Tells(h, drawn, i) /\ Same(At("ms"), h[i])
  \/ /\ loop = "hs"
     /\ \E h : /\ Tells(h, drawn, n) /\ Same(At("hs"), h[i])
               /\ Same([At("ms") EXCEPT !.cursor = h[n].cursor], h[n])
  \/ loop = "written" /\ i = 0

DiceInv ==
  /\ report = [l \in Loops |-> report[l]] /\ \A l \in Loops : Shaped(report[l])
  /\ i \in 0..n
  /\ Told

LEMMA TellsMore ==
  ASSUME NEW d, NEW e, Extends(d, e), NEW h, NEW len \in Nat, Tells(h, d, len)
  PROVE  Tells(h, e, len)
  BY TrialStays DEF Tells

\* Both units stay what they are, so the trials told do.
LEMMA TrialPrimed ==
  ASSUME UNCHANGED <<att, def, front>>, NEW s, NEW t, Trial(drawn', s, t)
  PROVE  Trial(drawn, s, t)'
  BY DEF Trial

LEMMA MortalKeepsTold ==
  ASSUME DiceInv, MortalTrial
  PROVE  DiceInv'
<1>1. /\ loop = "ms" /\ i \in Nat /\ i < n /\ n \in Nat /\ i' = i + 1 /\ loop' = loop
      /\ UNCHANGED <<att, def, front>>
  BY RollsAssumption DEF MortalTrial, YellowTrial, MoreTrials, DiceInv
<1>2. /\ Extends(drawn, drawn') /\ Trial(drawn', At("ms"), At("ms")')
      /\ report' = [l \in Loops |-> report'[l]] /\ \A l \in Loops : Shaped(report'[l])
      /\ report'["hs"] = report["hs"]
  <2>1. /\ loop \in Loops /\ "hs" \in Loops \ {loop} /\ YellowTrial(TRUE, MS_FLAT_BONUS)
        /\ report = [l \in Loops |-> report[l]] /\ \A l \in Loops : Shaped(report[l])
    BY <1>1 DEF Loops, MortalTrial, DiceInv
  <2>2. QED
    BY <1>1, <2>1, YellowIsTrial
<1>3. PICK h : Tells(h, drawn, i) /\ Same(At("ms"), h[i])
  BY <1>1 DEF DiceInv, Told
<1> DEFINE now  == At("ms")'
           more == [k \in 0..i + 1 |-> IF k <= i THEN h[k] ELSE now]
<1>4. Trial(drawn', h[i], now)
  BY <1>2, <1>3, TrialOfSame
<1>5. Tells(h, drawn', i)
  BY <1>1, <1>2, <1>3, TellsMore
<1> HIDE DEF now
<1>6. /\ more[0] = h[0] /\ more[i] = h[i] /\ more[i + 1] = now
      /\ \A k \in 0..i - 1 : more[k] = h[k] /\ more[k + 1] = h[k + 1]
  BY <1>1
<1> HIDE DEF more
<1>7. Tells(more, drawn', i + 1)
  <2>1. Same(more[0], Start)
    BY <1>5, <1>6 DEF Tells
  <2>2. ASSUME NEW k \in 0..(i + 1) - 1 PROVE Trial(drawn', more[k], more[k + 1])
    <3>1. CASE k = i
      BY <1>4, <1>6, <3>1
    <3>2. CASE k # i
      <4>1. k \in 0..i - 1
        BY <1>1, <3>2
      <4>2. QED
        BY <1>5, <1>6, <4>1 DEF Tells
    <3>3. QED
      BY <3>1, <3>2
  <2>3. QED
    BY <2>1, <2>2 DEF Tells
<1>8. Same(now, more[i'])
  BY <1>1, <1>6 DEF Same
<1>9. PICK g : g = more
  OBVIOUS
<1>10. Tells(g, drawn, i)'
  <2>1. Same(g[0], Start) /\ \A k \in 0..(i + 1) - 1 : Trial(drawn', g[k], g[k + 1])
    BY <1>7, <1>9 DEF Tells
  <2>2. \A k \in 0..i' - 1 : Trial(drawn, g[k], g[k + 1])'
    BY <1>1, <2>1, TrialPrimed
  <2>3. QED
    BY <2>1, <2>2 DEF Tells, Same, Start
<1>11. Same(At("ms"), g[i])'
  BY <1>8, <1>9 DEF now, Same
<1>12. Same([At("hs") EXCEPT !.cursor = FreshCursor], Start)'
  BY <1>1, <1>2 DEF DiceInv, Told, Same, At, Start, EmptyReport
<1>13. Told'
  BY <1>1, <1>10, <1>11, <1>12 DEF Told
<1>14. QED
  BY <1>1, <1>2, <1>13 DEF DiceInv

\* Heroic Strike rolls what Mortal Strike rolled, so it cannot but follow.
LEMMA HeroicKeepsTold ==
  ASSUME DiceInv, HeroicTrial
  PROVE  DiceInv'
<1>1. /\ loop = "hs" /\ i \in Nat /\ i < n /\ n \in Nat /\ i' = i + 1 /\ loop' = loop
      /\ UNCHANGED <<att, def, front>>
  BY RollsAssumption DEF HeroicTrial, YellowTrial, MoreTrials, DiceInv
<1>2. /\ Extends(drawn, drawn') /\ Trial(drawn', At("hs"), At("hs")')
      /\ report' = [l \in Loops |-> report'[l]] /\ \A l \in Loops : Shaped(report'[l])
      /\ report'["ms"] = report["ms"]
  <2>1. /\ loop \in Loops /\ "ms" \in Loops \ {loop} /\ YellowTrial(FALSE, HS_FLAT_BONUS)
        /\ report = [l \in Loops |-> report[l]] /\ \A l \in Loops : Shaped(report[l])
    BY <1>1 DEF Loops, HeroicTrial, DiceInv
  <2>2. QED
    BY <1>1, <2>1, YellowIsTrial
<1>3. PICK h : /\ Tells(h, drawn, n) /\ Same(At("hs"), h[i])
               /\ Same([At("ms") EXCEPT !.cursor = h[n].cursor], h[n])
  BY <1>1 DEF DiceInv, Told
<1> DEFINE now == At("hs")'
<1>4. Trial(drawn', h[i], now)
  BY <1>2, <1>3, TrialOfSame
<1>5. Tells(h, drawn', n)
  BY <1>1, <1>2, <1>3, TellsMore
<1> HIDE DEF now
<1>6. Trial(drawn', h[i], h[i + 1])
  <2>1. i \in 0..n - 1
    BY <1>1
  <2>2. QED
    BY <1>5, <2>1 DEF Tells
<1>7. Same(now, h[i + 1])
  BY <1>4, <1>6, TrialIsDetermined DEF Same
<1>8. Tells(h, drawn, n)'
  <2>1. Same(h[0], Start) /\ \A k \in 0..n - 1 : Trial(drawn', h[k], h[k + 1])
    BY <1>5 DEF Tells
  <2>2. \A k \in 0..n - 1 : Trial(drawn, h[k], h[k + 1])'
    BY <1>1, <2>1, TrialPrimed
  <2>3. QED
    BY <2>1, <2>2 DEF Tells, Same, Start
<1>9. Same(At("hs"), h[i])'
  BY <1>1, <1>7 DEF now, Same
<1>10. Same([At("ms") EXCEPT !.cursor = h[n].cursor], h[n])'
  BY <1>2, <1>3 DEF Same, At
<1>11. Told'
  BY <1>1, <1>8, <1>9, <1>10 DEF Told
<1>12. QED
  BY <1>1, <1>2, <1>11 DEF DiceInv

LEMMA WhiteKeepsTold ==
  ASSUME DiceInv, WhiteTrial
  PROVE  DiceInv'
<1>1. /\ loop = "white" /\ i \in Nat /\ i < n /\ n \in Nat /\ i' = i + 1 /\ loop' = loop
  BY RollsAssumption DEF WhiteTrial, MoreTrials, DiceInv
<1>2. PICK o, damage : LET counted == Counted(report["white"], o)
                       IN  \/ report' = [report EXCEPT !["white"] = WithDamage(counted, damage)]
                           \/ report' = [report EXCEPT !["white"] = counted]
  <2>1. PICK roll, w :
          LET sw      == resolve_swing(att, def, front, roll, w)
              contact == outcome_makes_contact(sw.outcome)
              counted == Counted(report["white"], sw.outcome)
          IN  report' = [report EXCEPT !["white"] =
                           IF contact THEN WithDamage(counted, sw.damage) ELSE counted]
    BY DEF WhiteTrial
  <2> DEFINE sw == resolve_swing(att, def, front, roll, w)
  <2>2. LET counted == Counted(report["white"], sw.outcome)
        IN  \/ report' = [report EXCEPT !["white"] = WithDamage(counted, sw.damage)]
            \/ report' = [report EXCEPT !["white"] = counted]
    BY <2>1
  <2> HIDE DEF sw
  <2>3. QED
    BY <2>2
<1> DEFINE counted == Counted(report["white"], o)
           struck  == WithDamage(counted, damage)
<1>3. Shaped(counted) /\ Shaped(struck)
  <2>1. Shaped(report["white"])
    BY DEF DiceInv, Loops
  <2>2. Shaped(counted)
    BY <2>1, CountedIsShaped
  <2> HIDE DEF counted
  <2>3. QED
    BY <2>2, HitIsShaped
<1>4. PICK new : Shaped(new) /\ report' = [report EXCEPT !["white"] = new]
  BY <1>2, <1>3
<1>5. /\ report' = [l \in Loops |-> report'[l]] /\ \A l \in Loops : Shaped(report'[l])
      /\ report'["ms"] = report["ms"] /\ report'["hs"] = report["hs"]
  <2>1. report = [l \in Loops |-> report[l]] /\ \A l \in Loops : Shaped(report[l])
    BY DEF DiceInv
  <2>2. QED
    BY <1>4, <2>1 DEF Loops
<1>6. Told'
  BY <1>1, <1>5 DEF DiceInv, Told, Same, At, Abilities, Start, EmptyReport
<1>7. QED
  BY <1>1, <1>5, <1>6 DEF DiceInv

\* Both ability loops start from a cursor of their own.
LEMMA NextLoopKeepsTold ==
  ASSUME DiceInv, NextLoop
  PROVE  DiceInv'
<1>1. /\ i = n /\ n \in Nat /\ i' = 0 /\ cursor' = FreshCursor
      /\ UNCHANGED <<att, def, front, drawn, report>>
  BY RollsAssumption DEF NextLoop
<1>2. CASE loop = "white"
  <2>1. loop' = "ms"
    BY <1>2 DEF NextLoop
  <2>2. \A l \in Abilities : Same([At(l) EXCEPT !.cursor = FreshCursor], Start)
    BY <1>2 DEF DiceInv, Told
  <2>3. Same([At("hs") EXCEPT !.cursor = FreshCursor], Start)'
    BY <1>1, <2>2 DEF Same, At, Start, Abilities, EmptyReport, FreshCursor
  <2>4. Same(At("ms"), Start)'
    BY <1>1, <2>2 DEF Same, At, Start, Abilities, EmptyReport
  <2>5. PICK h : h = [k \in {0} |-> Start]
    OBVIOUS
  <2>6. h[0] = Start /\ h[i'] = Start
    BY <1>1, <2>5
  <2>7. Tells(h, drawn, i)'
    BY <1>1, <2>6 DEF Tells, Same, Start
  <2>8. Same(At("ms"), h[i])'
    BY <2>4, <2>6 DEF Same
  <2>9. Told'
    BY <2>1, <2>3, <2>7, <2>8 DEF Told
  <2>10. QED
    BY <1>1, <2>9 DEF DiceInv
<1>3. CASE loop # "white"
  <2>1. loop = "ms" /\ loop' = "hs"
    BY <1>1, <1>3, RollsAssumption DEF DiceInv, Told, NextLoop
  <2>2. PICK h : Tells(h, drawn, i) /\ Same(At("ms"), h[i])
    BY <2>1 DEF DiceInv, Told
  <2>3. Same([At("hs") EXCEPT !.cursor = FreshCursor], Start)
    BY <2>1 DEF DiceInv, Told
  <2>4. Tells(h, drawn, n)'
    <3>1. Same(h[0], Start) /\ \A k \in 0..n - 1 : Trial(drawn', h[k], h[k + 1])
      BY <1>1, <2>2 DEF Tells
    <3>2. \A k \in 0..n - 1 : Trial(drawn, h[k], h[k + 1])'
      BY <1>1, <3>1, TrialPrimed
    <3>3. QED
      BY <3>1, <3>2 DEF Tells, Same, Start
  <2>5. Same(At("hs"), h[i])'
    <3>1. Same(h[0], Start)
      BY <2>2 DEF Tells
    <3>2. QED
      BY <1>1, <2>3, <3>1 DEF Same, At, Start
  <2>6. Same([At("ms") EXCEPT !.cursor = h[n].cursor], h[n])'
    BY <1>1, <2>2 DEF Same, At
  <2>7. Told'
    BY <2>1, <2>4, <2>5, <2>6 DEF Told
  <2>8. QED
    BY <1>1, <2>7 DEF DiceInv
<1>4. QED
  BY <1>2, <1>3

\* The dice of every loop are thrown when they are due; a loop that is yet to
\* start has no contacts.
DueInv ==
  /\ loop \in Loops => cursor = DiceDue(loop)
  /\ loop = "white" => report["ms"].contacts = 0
  /\ loop \in {"white", "ms"} => report["hs"].contacts = 0

LEMMA WhiteThrowsDue ==
  ASSUME DiceInv, DueInv, WhiteTrial
  PROVE  DueInv'
<1>1. /\ loop = "white" /\ i' = i + 1 /\ loop' = loop /\ cursor = DiceDue("white")
      /\ Shaped(report["white"]) /\ report = [l \in Loops |-> report[l]]
  BY DEF WhiteTrial, DueInv, DiceInv, Loops
<1>2. PICK o, damage, contact :
        /\ contact \in BOOLEAN
        /\ report' = [report EXCEPT !["white"] =
                        IF contact THEN WithDamage(Counted(report["white"], o), damage)
                        ELSE Counted(report["white"], o)]
        /\ cursor' = white_cursor(cursor, contact)
  <2>1. PICK roll, w :
          LET sw      == resolve_swing(att, def, front, roll, w)
              contact == outcome_makes_contact(sw.outcome)
              counted == Counted(report["white"], sw.outcome)
          IN  /\ report' = [report EXCEPT !["white"] =
                              IF contact THEN WithDamage(counted, sw.damage) ELSE counted]
              /\ cursor' = white_cursor(cursor, contact)
    BY DEF WhiteTrial
  <2> DEFINE sw  == resolve_swing(att, def, front, roll, w)
             one == outcome_makes_contact(sw.outcome)
  <2>2. one \in BOOLEAN
    BY DEF outcome_makes_contact
  <2>3. /\ report' = [report EXCEPT !["white"] =
                        IF one THEN WithDamage(Counted(report["white"], sw.outcome), sw.damage)
                        ELSE Counted(report["white"], sw.outcome)]
        /\ cursor' = white_cursor(cursor, one)
    BY <2>1
  <2> HIDE DEF sw, one
  <2>4. QED
    BY <2>2, <2>3
<1>3. report'["white"].contacts = IF contact THEN report["white"].contacts + 1
                                  ELSE report["white"].contacts
  <2> DEFINE counted == Counted(report["white"], o)
             struck  == WithDamage(counted, damage)
  <2>1. Shaped(counted) /\ counted.contacts = report["white"].contacts
    BY <1>1, CountedIsShaped
  <2> HIDE DEF counted
  <2>2. struck.contacts = counted.contacts + 1
    BY <2>1, HitIsShaped
  <2> HIDE DEF struck
  <2>3. report'["white"] = IF contact THEN struck ELSE counted
    BY <1>1, <1>2 DEF Loops, counted, struck
  <2>4. QED
    BY <2>1, <2>2, <2>3
<1>4. cursor' = DiceDue("white")'
  BY <1>1, <1>2, <1>3 DEF DiceDue, white_cursor, FreshCursor
<1>5. report'["ms"] = report["ms"] /\ report'["hs"] = report["hs"]
  BY <1>1, <1>2
<1>6. QED
  BY <1>1, <1>4, <1>5 DEF DueInv

LEMMA YellowThrowsDue ==
  ASSUME DiceInv, DueInv, loop \in Abilities,
         NEW normalized, NEW flat_bonus, YellowTrial(normalized, flat_bonus)
  PROVE  DueInv'
<1>1. /\ i' = i + 1 /\ loop' = loop /\ UNCHANGED <<def, front>> /\ loop \in Loops /\ loop # "white"
      /\ cursor = DiceDue(loop)
      /\ Shaped(report[loop]) /\ report = [l \in Loops |-> report[l]]
  BY DEF YellowTrial, DueInv, DiceInv, Loops, Abilities
<1>2. PICK o, damage, hit, crit, blocked :
        /\ hit \in BOOLEAN /\ crit \in BOOLEAN /\ blocked \in BOOLEAN
        /\ report' = [report EXCEPT ![loop] =
                        IF hit THEN Struck(WithDamage(Counted(report[loop], o), damage), crit, blocked)
                        ELSE Counted(report[loop], o)]
        /\ cursor' = yellow_cursor(cursor, hit, can_block(def, front))
  <2>1. PICK table \in Rolls("yellow_table", cursor.yellow_table_seq, TableRolls),
             crit \in Rolls("yellow_crit", cursor.yellow_crit_seq, ChanceRolls),
             block \in Rolls("yellow_block", cursor.yellow_block_seq, ChanceRolls),
             w \in Rolls("yellow_damage", cursor.yellow_damage_seq, WeaponRolls) :
          LET rolls     == [table |-> table, crit |-> crit, block |-> block, weapon |-> w]
              yr        == resolve_yellow(att, def, front, rolls, normalized, flat_bonus)
              hit       == yr.outcome = "Hit"
              blockable == can_block(def, front)
              counted   == Counted(report[loop], yr.outcome)
              struck    == Struck(WithDamage(counted, yr.damage), yr.crit, yr.blocked)
              d1        == Known(drawn, "yellow_table", cursor.yellow_table_seq, table)
              d2        == Known(Known(d1, "yellow_crit", cursor.yellow_crit_seq, crit),
                                 "yellow_damage", cursor.yellow_damage_seq, w)
          IN  /\ report' = [report EXCEPT ![loop] = IF hit THEN struck ELSE counted]
              /\ cursor' = yellow_cursor(cursor, hit, blockable)
              /\ drawn' = IF ~hit THEN d1
                          ELSE IF ~blockable THEN d2
                          ELSE Known(d2, "yellow_block", cursor.yellow_block_seq, block)
    BY DEF YellowTrial
  <2> DEFINE rolls == [table |-> table, crit |-> crit, block |-> block, weapon |-> w]
             yr    == resolve_yellow(att, def, front, rolls, normalized, flat_bonus)
             hit   == yr.outcome = "Hit"
  <2>2. yr.crit \in BOOLEAN /\ yr.blocked \in BOOLEAN /\ hit \in BOOLEAN
    <3> DEFINE contact == classify_yellow(build_yellow_table(att, def, front), rolls.table) = "Hit"
               crits   == contact /\ rolls.crit < chance_crit_pm(att, def)
               blocks  == contact /\ can_block(def, front) /\ rolls.block < chance_block_pm(att, def)
    <3>1. crits \in BOOLEAN /\ blocks \in BOOLEAN /\ hit \in BOOLEAN
      OBVIOUS
    <3> HIDE DEF rolls
    <3>2. yr.crit = crits /\ yr.blocked = blocks
      BY AbilityDice
    <3> HIDE DEF crits, blocks, yr, hit
    <3>3. QED
      BY <3>1, <3>2
  <2>3. /\ report' = [report EXCEPT ![loop] =
                        IF hit THEN Struck(WithDamage(Counted(report[loop], yr.outcome), yr.damage),
                                           yr.crit, yr.blocked)
                        ELSE Counted(report[loop], yr.outcome)]
        /\ cursor' = yellow_cursor(cursor, hit, can_block(def, front))
    BY <2>1
  <2> HIDE DEF yr, hit
  <2>4. QED
    BY <2>2, <2>3
<1>3. report'[loop].contacts = IF hit THEN report[loop].contacts + 1 ELSE report[loop].contacts
  <2> DEFINE counted == Counted(report[loop], o)
             touched == WithDamage(counted, damage)
             struck  == Struck(touched, crit, blocked)
  <2>1. Shaped(counted) /\ counted.contacts = report[loop].contacts
    BY <1>1, CountedIsShaped
  <2> HIDE DEF counted
  <2>2. Shaped(touched) /\ touched.contacts = counted.contacts + 1
    BY <2>1, HitIsShaped
  <2> HIDE DEF touched
  <2>3. crit \in BOOLEAN /\ blocked \in BOOLEAN
    BY <1>2
  <2>4. struck.contacts = touched.contacts
    BY <2>2, <2>3, StruckIsShaped
  <2> HIDE DEF struck
  <2>5. report'[loop] = IF hit THEN struck ELSE counted
    BY <1>1, <1>2 DEF counted, touched, struck
  <2>6. QED
    BY <2>1, <2>2, <2>4, <2>5
<1>4. cursor' = DiceDue(loop)'
  <2> DEFINE blockable == can_block(def, front)
             hits      == report[loop].contacts
             more      == report'[loop].contacts
  <2>1. cursor = [FreshCursor EXCEPT !.yellow_table_seq = i, !.yellow_crit_seq = hits,
                                     !.yellow_block_seq = IF blockable THEN hits ELSE 0,
                                     !.yellow_damage_seq = hits]
    BY <1>1 DEF DiceDue
  <2>2. DiceDue(loop)' = [FreshCursor EXCEPT !.yellow_table_seq = i + 1, !.yellow_crit_seq = more,
                                             !.yellow_block_seq = IF blockable THEN more ELSE 0,
                                             !.yellow_damage_seq = more]
    BY <1>1 DEF DiceDue
  <2>3. more = IF hit THEN hits + 1 ELSE hits
    BY <1>3
  <2>4. cursor' = yellow_cursor(cursor, hit, blockable)
    BY <1>2
  <2> HIDE DEF blockable, hits, more
  <2>5. QED
    BY <2>1, <2>2, <2>3, <2>4 DEF yellow_cursor, FreshCursor
<1>5. \A l \in Loops \ {loop} : report'[l] = report[l]
  BY <1>1, <1>2
<1>6. loop = "ms" => report'["hs"].contacts = 0
  BY <1>5 DEF DueInv, Loops
<1>7. QED
  BY <1>1, <1>4, <1>6 DEF DueInv

\* The two abilities report the same outcomes, crits and blocks, since their
\* loops roll the same dice (arena_dist.cpp:154-157), and every loop throws each
\* die as often as its tallies call for, for any number of trials.
THEOREM AbilitiesRollAlike == DiffSpec => []AbilitiesShareRolls
<1>1. DiffInit => DiceInv
  <2> SUFFICES ASSUME Init PROVE DiceInv
    BY DEF DiffInit
  <2>1. report = [l \in Loops |-> EmptyReport] /\ loop = "white" /\ i = 0
    BY DEF Init
  <2>2. Shaped(EmptyReport)
    BY DEF Shaped, EmptyReport
  <2>3. report = [l \in Loops |-> report[l]] /\ \A l \in Loops : Shaped(report[l])
    BY <2>1, <2>2
  <2>4. \A l \in Abilities : Same([At(l) EXCEPT !.cursor = FreshCursor], Start)
    BY <2>1 DEF Same, At, Start, Abilities, Loops, EmptyReport
  <2>5. i \in 0..n
    BY <2>1, RollsAssumption
  <2>6. QED
    BY <2>1, <2>3, <2>4, <2>5 DEF DiceInv, Told
<1>2. DiceInv /\ [DiffNext]_diffVars => DiceInv'
  <2> SUFFICES ASSUME DiceInv, [DiffNext]_diffVars PROVE DiceInv'
    OBVIOUS
  <2>1. CASE WriteReport
    <3>1. loop' = "written" /\ i' = 0 /\ report' = report
      BY <2>1 DEF WriteReport
    <3>2. i' \in 0..n
      BY <3>1, RollsAssumption
    <3>3. QED
      BY <3>1, <3>2 DEF DiceInv, Told
  <2>2. CASE Compare \/ Finished \/ UNCHANGED diffVars
    <3>1. UNCHANGED <<att, def, front, loop, i, cursor, drawn, report>>
      BY <2>2 DEF Compare, Finished, diffVars
    <3>2. ASSUME NEW h, NEW len \in {i, n}, Tells(h, drawn, len)
          PROVE  Same(h[0], Start)' /\ \A k \in 0..len - 1 : Trial(drawn, h[k], h[k + 1])'
      <4>1. Same(h[0], Start) /\ \A k \in 0..len - 1 : Trial(drawn', h[k], h[k + 1])
        BY <3>1, <3>2 DEF Tells
      <4>2. QED
        BY <3>1, <4>1, TrialPrimed DEF Same, Start
    <3>3. CASE loop = "ms"
      <4>1. PICK h : Tells(h, drawn, i) /\ Same(At("ms"), h[i])
        BY <3>3 DEF DiceInv, Told
      <4>2. Tells(h, drawn, i)' /\ Same(At("ms"), h[i])'
        BY <3>1, <3>2, <4>1 DEF Tells, Same, At
      <4>3. Same([At("hs") EXCEPT !.cursor = FreshCursor], Start)'
        BY <3>1, <3>3 DEF DiceInv, Told, Same, At, Start, EmptyReport
      <4>4. Told'
        BY <3>1, <3>3, <4>2, <4>3 DEF Told
      <4>5. QED
        BY <3>1, <4>4 DEF DiceInv
    <3>4. CASE loop = "hs"
      <4>1. PICK h : /\ Tells(h, drawn, n) /\ Same(At("hs"), h[i])
                     /\ Same([At("ms") EXCEPT !.cursor = h[n].cursor], h[n])
        BY <3>4 DEF DiceInv, Told
      <4>2. Tells(h, drawn, n)'
        BY <3>2, <4>1 DEF Tells
      <4>3. Same(At("hs"), h[i])' /\ Same([At("ms") EXCEPT !.cursor = h[n].cursor], h[n])'
        BY <3>1, <4>1 DEF Same, At
      <4>4. Told'
        BY <3>1, <3>4, <4>2, <4>3 DEF Told
      <4>5. QED
        BY <3>1, <4>4 DEF DiceInv
    <3>5. CASE loop = "white"
      <4>1. Told'
        BY <3>1, <3>5 DEF DiceInv, Told, Same, At, Start, EmptyReport, Abilities
      <4>2. QED
        BY <3>1, <4>1 DEF DiceInv
    <3>6. CASE loop = "written"
      BY <3>1, <3>6 DEF DiceInv, Told
    <3>7. QED
      BY <3>3, <3>4, <3>5, <3>6 DEF DiceInv, Told
  <2>3. QED
    BY <2>1, <2>2, WhiteKeepsTold, MortalKeepsTold, HeroicKeepsTold, NextLoopKeepsTold
    DEF DiffNext, Sample
<1>3. DiffInit => DueInv
  <2> SUFFICES ASSUME Init PROVE DueInv
    BY DEF DiffInit
  <2>1. /\ loop = "white" /\ i = 0 /\ cursor = FreshCursor
        /\ \A l \in Loops : report[l].contacts = 0
    BY DEF Init, EmptyReport
  <2>2. cursor = DiceDue("white")
    BY <2>1 DEF DiceDue, FreshCursor, Loops
  <2>3. QED
    BY <2>1, <2>2 DEF DueInv, Loops
<1>4. DiceInv /\ DueInv /\ [DiffNext]_diffVars => DueInv'
  <2> SUFFICES ASSUME DiceInv, DueInv, [DiffNext]_diffVars PROVE DueInv'
    OBVIOUS
  <2>1. CASE WhiteTrial
    BY <2>1, WhiteThrowsDue
  <2>2. CASE MortalTrial \/ HeroicTrial
    <3>1. loop \in Abilities
      BY <2>2 DEF MortalTrial, HeroicTrial, Abilities, Loops
    <3>2. QED
      BY <2>2, <3>1, YellowThrowsDue DEF MortalTrial, HeroicTrial
  <2>3. CASE NextLoop
    <3>1. /\ i' = 0 /\ cursor' = FreshCursor /\ UNCHANGED <<def, front, report>>
          /\ i = n /\ loop' = IF loop = "white" THEN "ms" ELSE "hs"
      BY <2>3 DEF NextLoop
    <3>2. loop # "written"
      BY <3>1, RollsAssumption DEF DiceInv, Told
    <3>3. loop' \in {"ms", "hs"} /\ report[loop'].contacts = 0 /\ (loop' = "ms" => loop = "white")
      BY <2>3, <3>1, <3>2 DEF DueInv, DiceInv, Told, NextLoop
    <3>4. cursor' = DiceDue(loop)'
      BY <3>1, <3>3 DEF DiceDue, FreshCursor
    <3>5. QED
      BY <3>1, <3>3, <3>4 DEF DueInv
  <2>4. CASE WriteReport
    BY <2>4 DEF WriteReport, DueInv, Loops
  <2>5. CASE Compare \/ Finished \/ UNCHANGED diffVars
    <3>1. UNCHANGED <<def, front, loop, i, cursor, report>>
      BY <2>5 DEF Compare, Finished, diffVars
    <3>2. QED
      BY <3>1 DEF DueInv, DiceDue
  <2>6. QED
    BY <2>1, <2>2, <2>3, <2>4, <2>5 DEF DiffNext, Sample
<1>5. DiceInv /\ DueInv => AbilitiesShareRolls
  <2> SUFFICES ASSUME DiceInv, DueInv, loop = "hs", i = n
               PROVE  /\ report["hs"].count = report["ms"].count
                      /\ report["hs"].crits = report["ms"].crits
                      /\ report["hs"].blocks = report["ms"].blocks
    BY DEF AbilitiesShareRolls, DueInv
  <2>1. PICK h : Same(At("hs"), h[i]) /\ Same([At("ms") EXCEPT !.cursor = h[n].cursor], h[n])
    BY DEF DiceInv, Told
  <2>2. QED
    BY <2>1 DEF Same, At
<1>6. QED
  BY <1>1, <1>2, <1>3, <1>4, <1>5, PTL DEF DiffSpec
=============================================================================
