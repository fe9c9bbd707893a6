---------------------------- MODULE Differential ----------------------------
(***************************************************************************)
(* The differential harness: arena_dist samples a scenario and writes its   *)
(* report, or is killed while it writes; then arena_diff reads the file     *)
(* and compares it with the independent model of Oracle.                    *)
(*                                                                         *)
(* A file is the sequence of the tokens of its one line, and a torn file a  *)
(* prefix of it; what a token stands for is written as the place of that    *)
(* value in the report.  Both programs are of one build and load the same   *)
(* scenario.  The rows that compare means and extremes with a Monte Carlo   *)
(* sample are left out: CoupledWithinTwo is about what they can show.       *)
(***************************************************************************)
EXTENDS Sampler, Oracle, FiniteSets
LOCAL INSTANCE SequencesExt

CONSTANT Cuts  \* lengths to which a file may be written, counted from its end

VARIABLES
  file,     \* the length of the file
  verdict   \* of arena_diff: how the file was read, and the rows that failed

diffVars == <<att, def, front, loop, i, cursor, drawn, report, file, verdict>>

-----------------------------------------------------------------------------
(* The rows.  Glance and crush have no width, and no swing has them.       *)

Abilities == {"ms", "hs"}
RowNames(l) ==
  IF l = "white" THEN <<"Miss", "Dodge", "Parry", "Block", "Crit", "Hit">>
  ELSE <<"Miss", "Dodge", "Parry", "Hit", "crit|hit", "block|hit">>
Rows == {row \in Loops \X (Outcomes \union {"crit|hit", "block|hit"}) :
           \E j \in 1..6 : RowNames(row[1])[j] = row[2]}

AtMost10000(pm) == IF pm > 10000 THEN 10000 ELSE pm

\* AttackTable::width, and the rows of YellowDistReport.
sim_width(row) ==
  LET t     == build_attack_table(att, def, front)
      y     == build_yellow_table(att, def, front)
      white == row[1] = "white"
  IN  CASE row[2] = "Miss"  -> IF white THEN t.Miss ELSE y.Miss
        [] row[2] = "Dodge" -> IF white THEN t.Dodge - t.Miss ELSE y.Dodge - y.Miss
        [] row[2] = "Parry" -> IF white THEN t.Parry - t.Dodge ELSE y.Parry - y.Dodge
        [] row[2] = "Block" -> t.Block - t.Parry
        [] row[2] = "Crit"  -> t.Crit - t.Block
        [] row[2] = "Hit"   -> 10000 - (IF white THEN t.Crit ELSE y.Parry)
        [] row[2] = "crit|hit"  -> AtMost10000(chance_crit_pm(att, def))
        [] row[2] = "block|hit" ->
             IF can_block(def, front) THEN AtMost10000(chance_block_pm(att, def)) ELSE 0

sim_pm == [row \in Rows |-> sim_width(row)]

oracle_pm ==
  LET t == build_table(att, def, front)
      y == build_yellow(att, def, front)
  IN  [row \in Rows |->
        CASE row[2] = "crit|hit"  -> yellow_crit_pm(att, def)
          [] row[2] = "block|hit" -> yellow_block_pm(att, def, front)
          [] row[1] = "white"     -> t[row[2]]
          [] OTHER                -> y[row[2]]]

\* What the report holds of a row: crits and blocks are counted over the hits.
Count(row) ==
  LET r == report[row[1]]
  IN  IF row[2] = "crit|hit" THEN r.crits
      ELSE IF row[2] = "block|hit" THEN r.blocks ELSE r.count[row[2]]
Trials(row) == IF row[2] \in {"crit|hit", "block|hit"} THEN report[row[1]].contacts ELSE n

\* Within the 99% interval: (count / trials - p)^2 <= 2.5758^2 * p * (1 - p) / trials.
WithinInterval(count, trials, pm) ==
  LET off == 10000 * count - pm * trials
  IN  IF pm = 0 THEN count = 0
      ELSE trials > 0 /\ off * off <= ((trials * pm * (10000 - pm)) \div 1000) * 6635

\* The rows arena_dist itself fails.
dist_failed == {row \in Rows : ~WithinInterval(Count(row), Trials(row), sim_pm[row])}

-----------------------------------------------------------------------------
(* The file.                                                               *)

OpenBrace  == <<"{">>
CloseBrace == <<"}">>
Missing    == <<>>

Leaves(place, keys) == [j \in 1..Len(keys) |-> [key |-> keys[j], is |-> Append(place, keys[j])]]
Object(key, body) ==
  <<[key |-> key, is |-> OpenBrace]>> \o body \o <<[key |-> "", is |-> CloseBrace]>>
RowObjects(l, keys) ==
  FlattenSeq([j \in 1..6 |->
    LET o == RowNames(l)[j]
    IN  Object("", <<[key |-> "outcome", is |-> <<o>>]>> \o Leaves(<<l, o>>, keys))])

\* write_yellow_json
YellowObject(l) ==
  Object(l, Leaves(<<l>>, <<"flat_bonus">>)
            \o Object("table_pm", Leaves(<<l, "table_pm">>, RowNames(l)))
            \o RowObjects(l, <<"expected_pm", "trials", "count", "pass">>)
            \o Object("damage", Leaves(<<l, "damage">>, <<"hits", "min", "max", "mean", "sd">>))
            \o Object("rage_def_deci", Leaves(<<l, "rage_def_deci">>, <<"mean", "sd">>))
            \o Leaves(<<l>>, <<"all_pass">>))

\* write_json
Document ==
  Object("", Leaves(<<"report">>, <<"type", "ruleset_hash", "scenario", "seed", "swings">>)
             \o Object("expected_table_pm", Leaves(<<"white", "table_pm">>, RowNames("white")))
             \o RowObjects("white", <<"expected_pm", "count", "pass">>)
             \o Object("damage", Leaves(<<"white", "damage">>,
                                        <<"contact_swings", "min", "max", "mean", "sd">>))
             \o Object("rage_deci_uncapped",
                       Leaves(<<"white", "rage_deci_uncapped">>,
                              <<"attacker_mean", "attacker_sd", "defender_mean", "defender_sd">>))
             \o YellowObject("ms") \o YellowObject("hs")
             \o Leaves(<<"report">>, <<"all_pass">>))

\* The least of the positions, 0 if there is none.
First(positions) ==
  IF positions = {} THEN 0 ELSE CHOOSE j \in positions : \A other \in positions : j <= other

Opening(f, key) == First({j \in 1..Len(f) : f[j].key = key /\ f[j].is = OpenBrace})

\* From the object at first to the first brace that closes, if there is one.
Flat(f, first) ==
  LET close == First({j \in first..Len(f) : first > 0 /\ f[j].is = CloseBrace})
  IN  IF close = 0 THEN <<>> ELSE SubSeq(f, first, close)

sub_object(f, key) == Flat(f, Opening(f, key))

\* From the object of that key to the brace that closes it.
nested_object(f, key) ==
  LET first == Opening(f, key)
      Braces(brace, last) == Cardinality({j \in first..last : f[j].is = brace})
      close == First({last \in first..Len(f) :
                        first > 0 /\ f[last].is = CloseBrace /\ Braces(OpenBrace, last) = Braces(CloseBrace, last)})
  IN  IF close = 0 THEN <<>> ELSE SubSeq(f, first, close)

\* The row of an outcome: a brace and, right after it, the outcome's name.
outcome_element(f, o) ==
  Flat(f, First({j \in 1..Len(f) - 1 : /\ f[j].is = OpenBrace
                                       /\ f[j + 1] = [key |-> "outcome", is |-> <<o>>]}))

\* get_double, trace_get_i64: the first value of that key.
get(f, key) ==
  LET at == First({j \in 1..Len(f) : f[j].key = key}) IN IF at = 0 THEN Missing ELSE f[at].is

\* Every value arena_diff asks for, by its place in the report.
Asked ==
  ({"report"} \X {"type", "scenario", "seed", "swings", "ruleset_hash"})
  \union {<<"white", RowNames("white")[j], "count">> : j \in 1..6}
  \union ({"white"} \X {"damage"} \X {"mean", "sd", "min", "max", "contact_swings"})
  \union ({"white"} \X {"rage_deci_uncapped"}
            \X {"attacker_mean", "attacker_sd", "defender_mean", "defender_sd"})
  \union (Abilities \X {"flat_bonus"})
  \union {<<l, RowNames(l)[j], k>> : l \in Abilities, j \in 1..6, k \in {"count", "trials"}}
  \union (Abilities \X {"damage"} \X {"hits", "mean", "sd", "min", "max"})
  \union (Abilities \X {"rage_def_deci"} \X {"mean", "sd"})

\* Mutant: the rage of the abilities is looked for in the whole line.
Found_RageAnywhere(f) ==
  LET section == [l \in Abilities |-> nested_object(f, l)] IN
  [p \in Asked |->
    CASE p[1] = "report" -> get(f, p[2])
      [] p[1] = "white" /\ p[2] \in {"damage", "rage_deci_uncapped"} -> get(sub_object(f, p[2]), p[3])
      [] p[1] = "white" /\ p[2] \in Outcomes -> get(outcome_element(f, p[2]), p[3])
      [] p[1] \in Abilities /\ Len(p) = 2 -> get(section[p[1]], p[2])
      [] p[1] \in Abilities /\ p[2] = "damage" -> get(nested_object(section[p[1]], p[2]), p[3])
      [] p[1] \in Abilities /\ p[2] = "rage_def_deci" -> get(nested_object(f, p[2]), p[3])
      [] OTHER -> get(outcome_element(section[p[1]], p[2]), p[3])]

\* Where each of them is found in a file, or Missing.
Found(f) ==
  LET section == [l \in Abilities |-> nested_object(f, l)] IN
  [p \in Asked |->
    CASE p[1] = "report" -> get(f, p[2])
      [] p[1] = "white" /\ p[2] \in {"damage", "rage_deci_uncapped"} -> get(sub_object(f, p[2]), p[3])
      [] p[1] = "white" /\ p[2] \in Outcomes -> get(outcome_element(f, p[2]), p[3])
      [] p[1] \in Abilities /\ Len(p) = 2 -> get(section[p[1]], p[2])
      [] p[1] \in Abilities /\ p[2] \in {"damage", "rage_def_deci"} ->
           get(nested_object(section[p[1]], p[2]), p[3])
      [] OTHER -> get(outcome_element(section[p[1]], p[2]), p[3])]

FoundAt(len) == Found(SubSeq(Document, 1, len))

\* A value that is missing ends arena_diff at once.
Refused(found) == \E p \in Asked : found[p] = Missing

-----------------------------------------------------------------------------
DiffInit ==
  /\ Init
  /\ file = 0
  /\ verdict = [read |-> "not yet", failed |-> {}]

Sample ==
  /\ WhiteTrial \/ MortalTrial \/ HeroicTrial \/ NextLoop
  /\ UNCHANGED <<file, verdict>>

\* arena_dist writes its report and exits, or is killed on the way.
WriteReport ==
  /\ loop = "hs" /\ i = n
  /\ \E cut \in Cuts : file' = Len(Document) - cut
  /\ loop' = "written"
  /\ i' = 0
  /\ cursor' = FreshCursor
  /\ drawn' = <<>>
  /\ UNCHANGED <<att, def, front, report, verdict>>

\* Mutant: the chances of crit and block are compared over all swings.
CountsRead_AllSwings(p) ==
  LET row == <<p[1], p[2]>> IN IF p[3] = "count" THEN Count(row) ELSE n

\* The value that stands at a place.
CountsRead(p) ==
  LET row == <<p[1], p[2]>> IN IF p[3] = "count" THEN Count(row) ELSE Trials(row)

\* main of arena_diff: the rows that need no Monte Carlo sample.
Compare ==
  /\ loop = "written" /\ verdict.read = "not yet"
  /\ \E found \in {FoundAt(file)} :
       LET count(row)  == CountsRead(found[<<row[1], row[2], "count">>])
           trials(row) == IF row[1] = "white" THEN n
                          ELSE CountsRead(found[<<row[1], row[2], "trials">>])
           fails(row)  == \/ sim_pm[row] # oracle_pm[row]
                          \/ ~WithinInterval(count(row), trials(row), oracle_pm[row])
       IN  verdict' = IF Refused(found) THEN [verdict EXCEPT !.read = "refused"]
                      ELSE [read |-> "whole", failed |-> {row \in Rows : fails(row)}]
  /\ UNCHANGED <<att, def, front, loop, i, cursor, drawn, report, file>>

Finished == verdict.read # "not yet" /\ UNCHANGED diffVars

DiffNext == Sample \/ WriteReport \/ Compare \/ Finished

DiffSpec == DiffInit /\ [][DiffNext]_diffVars

-----------------------------------------------------------------------------
(* Properties.                                                             *)

\* What does not change in a run is looked at once, at its start.
AtStart == loop = "white" /\ i = 0

\* "Per-outcome table widths: exact per-myriad equality, sim vs oracle"
\* (arena_diff.cpp:26): the rows of the white table and of both abilities'
\* tables, with their gates and when they overflow, are those of the model
\* that was ported on its own, and every roll of the one's die, which counts
\* from 0, has the outcome of the same roll of the other's, which counts from 1.
TablesMatchOracle ==
  AtStart =>
    /\ sim_pm = oracle_pm
    /\ \A t \in {build_attack_table(att, def, front)}, w \in {build_table(att, def, front)},
          roll \in Myriad :
         classify(t, roll) = outcome_of(w, RowNames("white"), roll + 1)
    /\ \A t \in {build_yellow_table(att, def, front)}, w \in {build_yellow(att, def, front)},
          roll \in Myriad :
         classify_yellow(t, roll) = outcome_of(w, <<"Miss", "Dodge", "Parry", "Hit">>, roll + 1)

\* Whether avoidance is in the tables at all is decided by the facing of both
\* units: the integer arc of fixed_trig.h is that of exact geometry, but for a
\* narrow strip along the shoulder line (see Facing).
FrontIsGeometric == AtStart => ArcIsGeometric

\* The tolerance of arena_diff.cpp:30, "within +/-2", is enough: with one
\* roll of the weapon for both, no kind of white swing differs by more, and
\* neither does an ability at the ends of its weapon's range; the rage of a
\* swing that hurts differs by a tenth at most.  This is of the oracle's formulas
\* in exact fractions, and of an armor above the pole of CalcArmorReducedDamage,
\* at -10557.5: below it, which the loader allows, the oracle absorbs three
\* quarters and the simulator nothing.
CoupledWithinTwo ==
  AtStart /\ AbovePole(def.armor) =>
    \A k \in 0..S - 1 :
      LET w == att.weapon_min + (k * (att.weapon_max - att.weapon_min + 1)) \div S
      IN  /\ \A o \in {"Hit", "Crit", "Block"} :
               LET ours   == resolve_damage(o, w, att, def)
                   theirs == white_mc(att, def, o, k)
               IN  /\ ours - theirs \in -2..2
                   /\ ours > 0 /\ theirs > 0 =>
                        /\ rage_dealt_deci(ours, att.weapon_speed_ms, o = "Crit")
                             - rage_att_deci(theirs, att.weapon_speed_ms, o = "Crit") \in -1..1
                        /\ rage_taken_deci(ours) - rage_def_deci(theirs) \in -1..1
          /\ k \in {0, S - 1} =>
               \A crit, blocked \in BOOLEAN, a \in {<<TRUE, MS_FLAT_BONUS>>, <<FALSE, HS_FLAT_BONUS>>} :
                 resolve_yellow_damage(w, crit, blocked, att, def, a[1], a[2])
                   - yellow_mc(att, def, crit, blocked, a[1], a[2], k) \in -2..2

\* arena_diff finds keys by their first occurrence, in a line that has the
\* same keys in several sections: it accepts a report that is whole, and
\* whatever it accepts, it read every value from where arena_dist put it, and
\* nothing but the overall flag at the end can be torn off unnoticed.
ReadsWhatWasWritten ==
  AtStart =>
    \A len \in 0..Len(Document) : \A found \in {FoundAt(len)} :
      IF Refused(found) THEN len < Len(Document)
      ELSE (\A p \in Asked : found[p] = p) /\ len >= Len(Document) - 2

\* "The sim's own builder (self-test semantics)" (dist.cpp:184) and the
\* harness judge the same counts: arena_diff never reads arena_dist's flags,
\* and fails exactly the rows that arena_dist fails.
SelfTestAgrees == verdict.read = "whole" => verdict.failed = dist_failed
=============================================================================
