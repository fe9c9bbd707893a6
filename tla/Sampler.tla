------------------------------ MODULE Sampler ------------------------------
(***************************************************************************)
(* The sampling loops of src/sim/mechanics/dist.cpp, run one after the     *)
(* other as src/tools/arena_dist.cpp does: n white swings, then n Mortal   *)
(* Strikes and n Heroic Strikes, each loop with a fresh RngCursor.         *)
(*                                                                         *)
(* The keyed random numbers are a function nobody knows: a value is chosen *)
(* the first time a key is rolled and is the same whenever the key is      *)
(* rolled again.  Means, deviations and confidence intervals are left out. *)
(***************************************************************************)
EXTENDS Combat, Facing

CONSTANTS
  Scenarios,    \* the scenarios sampled: both units' stats, and where they stand
  n,            \* trials per loop
  TableRolls,   \* values tried for the outcome die
  ChanceRolls   \* values tried for the crit and block dice

ASSUME ScenariosAssumption ==
  \A s \in Scenarios : s.att \in HitStats /\ s.def \in HitStats
ASSUME RollsAssumption ==
  /\ TableRolls \subseteq Myriad
  /\ ChanceRolls \subseteq Myriad
  /\ n \in Nat \ {0}

VARIABLES
  att, def, front,  \* the scenario
  loop,             \* the loop that runs
  i,                \* its trials so far
  cursor,           \* its RngCursor
  drawn,            \* the keyed random numbers rolled so far
  report            \* by loop, its tallies

vars == <<att, def, front, loop, i, cursor, drawn, report>>

Loops == {"white", "ms", "hs"}
Outcomes == {"Miss", "Dodge", "Parry", "Block", "Crit", "Hit"}

FreshCursor == [table_seq |-> 0, damage_seq |-> 0, yellow_table_seq |-> 0, yellow_crit_seq |-> 0,
                yellow_block_seq |-> 0, yellow_damage_seq |-> 0]

\* The tallies of a loop; a white crit or block is an outcome of its own.
EmptyReport == [count |-> [o \in Outcomes |-> 0], contacts |-> 0, crits |-> 0, blocks |-> 0,
                damage_min |-> 0, damage_max |-> 0]

Init ==
  /\ \E s \in Scenarios :
       /\ att = s.att
       /\ def = s.def
       /\ front = mutual_frontal_arc(s.def_pose, s.att_pose)
  /\ loop = "white"
  /\ i = 0
  /\ cursor = FreshCursor
  /\ drawn = <<>>
  /\ report = [l \in Loops |-> EmptyReport]

-----------------------------------------------------------------------------
\* Mutant: the crit is left out of the bound.
max_damage_NoCrit(a) == a.weapon_max + ap_bonus(a.attack_power, a.weapon_speed_ms)

\* The highest damage the histogram of white swings has room for.
max_damage(a) == (a.weapon_max + ap_bonus(a.attack_power, a.weapon_speed_ms)) * MELEE_CRIT_MULT

WeaponRolls == {att.weapon_min, att.weapon_max}

\* The values the key may roll.
Rolls(subsystem, seq, values) ==
  IF <<subsystem, seq>> \in DOMAIN drawn THEN {drawn[<<subsystem, seq>>]} ELSE values

\* What is known of the random numbers once key has rolled value.
Known(d, subsystem, seq, value) ==
  [key \in (DOMAIN d) \cup {<<subsystem, seq>>} |-> IF key = <<subsystem, seq>> THEN value ELSE d[key]]

\* RngCursor after a white swing: the damage die is thrown on contact only.
white_cursor(c, contact) ==
  [c EXCEPT !.table_seq = @ + 1, !.damage_seq = IF contact THEN @ + 1 ELSE @]

\* RngCursor after an ability: on a hit the crit and damage dice are thrown,
\* and the block die if the hit could be blocked at all.
yellow_cursor(c, hit, blockable) ==
  [c EXCEPT !.yellow_table_seq  = @ + 1,
            !.yellow_crit_seq   = IF hit THEN @ + 1 ELSE @,
            !.yellow_block_seq  = IF hit /\ blockable THEN @ + 1 ELSE @,
            !.yellow_damage_seq = IF hit THEN @ + 1 ELSE @]

\* The range of the damage, from the first contact on.
WithDamage(r, damage) ==
  [r EXCEPT !.contacts = @ + 1,
            !.damage_min = IF r.contacts = 0 \/ damage < @ THEN damage ELSE @,
            !.damage_max = IF r.contacts = 0 \/ damage > @ THEN damage ELSE @]

\* The crit and the block of an ability's hit.
Struck(r, crit, blocked) ==
  [r EXCEPT !.crits = IF crit THEN @ + 1 ELSE @, !.blocks = IF blocked THEN @ + 1 ELSE @]

Counted(r, outcome) == [r EXCEPT !.count[outcome] = @ + 1]

MoreTrials == i < n

\* One iteration of run_distribution.
WhiteTrial ==
  /\ loop = "white" /\ MoreTrials
  /\ \E roll \in Rolls("swing_table", cursor.table_seq, TableRolls),
        w \in Rolls("weapon_damage", cursor.damage_seq, WeaponRolls) :
       LET sw      == resolve_swing(att, def, front, roll, w)
           contact == outcome_makes_contact(sw.outcome)
           counted == Counted(report["white"], sw.outcome)
       IN  /\ report' = [report EXCEPT !["white"] =
                           IF contact THEN WithDamage(counted, sw.damage) ELSE counted]
           /\ cursor' = white_cursor(cursor, contact)
           /\ drawn' = LET d == Known(drawn, "swing_table", cursor.table_seq, roll)
                       IN  IF contact THEN Known(d, "weapon_damage", cursor.damage_seq, w) ELSE d
  /\ i' = i + 1
  /\ UNCHANGED <<att, def, front, loop>>

\* One iteration of run_yellow_distribution.
YellowTrial(normalized, flat_bonus) ==
  /\ MoreTrials
  /\ \E table \in Rolls("yellow_table", cursor.yellow_table_seq, TableRolls),
        crit \in Rolls("yellow_crit", cursor.yellow_crit_seq, ChanceRolls),
        block \in Rolls("yellow_block", cursor.yellow_block_seq, ChanceRolls),
        w \in Rolls("yellow_damage", cursor.yellow_damage_seq, WeaponRolls) :
       LET rolls     == [table |-> table, crit |-> crit, block |-> block, weapon |-> w]
           yr        == resolve_yellow(att, def, front, rolls, normalized, flat_bonus)
           hit       == yr.outcome = "Hit"
           blockable == can_block(def, front)
           counted   == Counted(report[loop], yr.outcome)
           struck    == Struck(WithDamage(counted, yr.damage), yr.crit, yr.blocked)
           d1        == Known(drawn, "yellow_table", cursor.yellow_table_seq, table)
           d2        == Known(Known(d1, "yellow_crit", cursor.yellow_crit_seq, crit),
                              "yellow_damage", cursor.yellow_damage_seq, w)
       IN  /\ report' = [report EXCEPT ![loop] = IF hit THEN struck ELSE counted]
           /\ cursor' = yellow_cursor(cursor, hit, blockable)
           /\ drawn' = IF ~hit THEN d1
                       ELSE IF ~blockable THEN d2
                       ELSE Known(d2, "yellow_block", cursor.yellow_block_seq, block)
  /\ i' = i + 1
  /\ UNCHANGED <<att, def, front, loop>>

MortalTrial == loop = "ms" /\ YellowTrial(TRUE, MS_FLAT_BONUS)
HeroicTrial == loop = "hs" /\ YellowTrial(FALSE, HS_FLAT_BONUS)

\* Mutant: the second ability goes on where the first one stopped.
NextLoop_KeepsCursor ==
  /\ i = n /\ loop # "hs"
  /\ loop' = IF loop = "white" THEN "ms" ELSE "hs"
  /\ i' = 0
  /\ UNCHANGED <<att, def, front, cursor, drawn, report>>

\* The next loop of arena_dist starts, with a cursor of its own.
NextLoop ==
  /\ i = n /\ loop # "hs"
  /\ loop' = IF loop = "white" THEN "ms" ELSE "hs"
  /\ i' = 0
  /\ cursor' = FreshCursor
  /\ UNCHANGED <<att, def, front, drawn, report>>

Done == loop = "hs" /\ i = n /\ UNCHANGED vars

Next == WhiteTrial \/ MortalTrial \/ HeroicTrial \/ NextLoop \/ Done

Spec == Init /\ [][Next]_vars

-----------------------------------------------------------------------------
(* Properties.                                                             *)

\* Every damage of a white swing indexes the histogram sized from the bound of
\* dist.cpp:57-60, although armor, crits and blocks come after the bound's roll.
DamageInHistogram ==
  LET r == report["white"]
  IN  r.contacts > 0 => 0 <= r.damage_min /\ r.damage_min <= r.damage_max /\ r.damage_max <= max_damage(att)

\* A contact that was not blocked does at least one point of damage, through
\* any armor (spec M-004, damage.h:36-38).
UnblockedHitsHurt ==
  \A l \in Loops :
    LET r == report[l]
    IN  r.contacts > r.count["Block"] + r.blocks =>
          /\ r.damage_max >= 1
          /\ r.count["Block"] + r.blocks = 0 => r.damage_min >= 1

\* The cursor after i trials of a loop, if each die was thrown when it was due:
\* "the damage counter advances only on contact outcomes", and for abilities
\* "crit/block/damage only on hit (block additionally only when blockable at
\* all)" (swing.h:33-36).
DiceDue(l) ==
  LET hits == report[l].contacts
  IN  IF l = "white" THEN [FreshCursor EXCEPT !.table_seq = i, !.damage_seq = hits]
      ELSE [FreshCursor EXCEPT !.yellow_table_seq  = i,
                               !.yellow_crit_seq   = hits,
                               !.yellow_block_seq  = IF can_block(def, front) THEN hits ELSE 0,
                               !.yellow_damage_seq = hits]

\* The two ability loops roll the same dice (same seed, same keys), so they
\* report the same outcomes, crits and blocks (arena_dist.cpp:154-157); and no
\* loop throws a die more or less often than its own tallies call for, which
\* would shift the stream of both abilities alike.
AbilitiesShareRolls ==
  /\ loop \in Loops => cursor = DiceDue(loop)
  /\ loop = "hs" /\ i = n =>
       /\ report["hs"].count = report["ms"].count
       /\ report["hs"].crits = report["ms"].crits
       /\ report["hs"].blocks = report["ms"].blocks
=============================================================================
