------------------------------ MODULE Scenario ------------------------------
(***************************************************************************)
(* Loading a scenario file: load_scenario of src/sim/core/scenario.cpp,    *)
(* and parse_scripted_thresholds of src/python/train/envs.py, which reads  *)
(* two values out of the same file in its own way.                         *)
(*                                                                         *)
(* The file is chosen line by line.  A line that assigns stands for any    *)
(* number of consecutive lines with one key each; blank lines and comments *)
(* are skipped by both readers and left out.  A key stands for itself with *)
(* any space around it, but for the one key that both readers look for: of *)
(* that one the two ways to write it that they take differently are kept.  *)
(***************************************************************************)
EXTENDS Rules, Sequences

CONSTANTS
  Headers,    \* section names that an unindented line without a value may give
  TopLines,   \* what unindented lines may assign: functions from keys to values
  UnitLines,  \* what indented lines may assign
  Garbled,    \* a value that is neither a number nor a truth value nor a policy
  MaxLines    \* bound on the length of a file

NoSection == ""

ASSUME GarbledAssumption ==
  Garbled \notin Int /\ Garbled \notin BOOLEAN /\ Garbled \notin {"idle", "scripted"}
ASSUME LinesAssumption == MaxLines \in Nat /\ NoSection \notin Headers

VARIABLES
  current_section,  \* the section that indented lines go to
  top,              \* the values outside sections
  sections,         \* by section, its values
  malformed,        \* the native reader has met a line it does not understand
  opened,           \* the headers in the order of the file
  vals,             \* the thresholds that the Python reader has found
  hidden,           \* history: the sections whose threshold it passed over
  read,             \* lines read
  verdict           \* "reading", then "loaded" or "refused"

scenario_vars == <<current_section, top, sections, malformed, opened, vals, hidden, read, verdict>>

Init ==
  /\ current_section = NoSection
  /\ top = <<>> /\ sections = <<>>
  /\ malformed = FALSE
  /\ opened = <<>>
  /\ vals = <<>>
  /\ hidden = {}
  /\ read = 0
  /\ verdict = "reading"

-----------------------------------------------------------------------------
(* The lines.                                                              *)

Threshold == "scripted_hs_min_rage_deci"

\* The same key with a space, a tab or a carriage return before its colon.
SpacedThreshold == "scripted_hs_min_rage_deci "

\* What the native reader takes from a line: it trims the keys.
Trimmed(assigned) ==
  [key \in (DOMAIN assigned \ {SpacedThreshold})
           \cup {k \in {Threshold} : SpacedThreshold \in DOMAIN assigned} |->
     IF key = Threshold /\ SpacedThreshold \in DOMAIN assigned
     THEN assigned[SpacedThreshold] ELSE assigned[key]]

\* values[key] = value for each key of the line: of two values the last one counts.
Assigned(values, assigned) ==
  LET new == Trimmed(assigned)
  IN  [key \in DOMAIN values \cup DOMAIN new |-> IF key \in DOMAIN new THEN new[key] ELSE values[key]]

\* What parse_scripted_thresholds takes from a line, whatever its indentation:
\* it wants the colon right behind the key.
Scanned(assigned) ==
  vals' = IF Threshold \in DOMAIN assigned THEN Append(vals, assigned[Threshold]) ELSE vals

\* Which thresholds it passed over, after a line of the section that is open.
Hides(assigned) ==
  hidden' = IF SpacedThreshold \in DOMAIN assigned THEN hidden \cup {current_section}
            ELSE IF Threshold \in DOMAIN assigned THEN hidden \ {current_section} ELSE hidden

\* The native reader stops at the first line it does not understand.
Reading == verdict = "reading" /\ ~malformed /\ read < MaxLines /\ read' = read + 1

\* An unindented key without a value opens a section, or opens it again; the
\* Python reader finds no number behind a key that it looks for.
SectionLine(name) ==
  /\ Reading
  /\ current_section' = name
  /\ sections' = [n \in DOMAIN sections \cup {name} |->
                   IF n \in DOMAIN sections THEN sections[n] ELSE <<>>]
  /\ opened' = Append(opened, name)
  /\ Scanned([key \in {name} |-> Garbled])
  /\ UNCHANGED <<top, malformed, hidden, verdict>>

\* An unindented assignment ends the section.
TopLine(assigned) ==
  /\ Reading
  /\ current_section' = NoSection
  /\ top' = Assigned(top, assigned)
  /\ Scanned(assigned)
  /\ UNCHANGED <<sections, malformed, opened, hidden, verdict>>

UnitLine(assigned) ==
  /\ Reading
  /\ IF current_section = NoSection
     THEN malformed' = TRUE /\ UNCHANGED <<sections, hidden>>
     ELSE /\ sections' = [sections EXCEPT ![current_section] = Assigned(@, assigned)]
          /\ Hides(assigned)
          /\ UNCHANGED malformed
  /\ Scanned(assigned)
  /\ UNCHANGED <<current_section, top, opened, verdict>>

\* No colon, or an indented key without a value.
MalformedLine ==
  /\ Reading
  /\ malformed' = TRUE
  /\ UNCHANGED <<current_section, top, sections, opened, vals, hidden, verdict>>

-----------------------------------------------------------------------------
(* The values.                                                             *)

INT32_MAX == 2147483647
Int32 == {v \in Int : -INT32_MAX - 1 <= v /\ v <= INT32_MAX}

Int32Keys ==
  {"entity_id", "level", "weapon_skill", "defense_skill", "attack_power", "crit_pm", "hit_pm",
   "weapon_min", "weapon_max", "weapon_speed_ms", "weapon_norm_ms", "armor", "dodge_pm",
   "parry_pm", "block_pm", "block_value", "max_hp", "initial_rage_deci", "facing_mrad", Threshold}
Int64Keys == {"pos_x_cm", "pos_y_cm"}
BoolKeys  == {"has_shield", "attacks", "knows_mortal_strike", "knows_heroic_strike"}

\* KV::get_*: the key was given, with a value of the right kind.
Gives(values, key, kind) == key \in DOMAIN values /\ values[key] \in kind

\* Mutant: a threshold below the cost of a Heroic Strike is let through.
InRange_AnyThreshold(u) ==
  /\ u.level = 70
  /\ u.weapon_min > 0 /\ u.weapon_max >= u.weapon_min
  /\ u.weapon_speed_ms > 0 /\ u.weapon_norm_ms > 0 /\ u.max_hp > 0
  /\ u.initial_rage_deci >= 0 /\ u.initial_rage_deci <= 1000

\* 150 is the cost of a Heroic Strike, copied.
InRange(u) ==
  /\ u.level = 70
  /\ u.weapon_min > 0 /\ u.weapon_max >= u.weapon_min
  /\ u.weapon_speed_ms > 0 /\ u.weapon_norm_ms > 0 /\ u.max_hp > 0
  /\ u.initial_rage_deci >= 0 /\ u.initial_rage_deci <= 1000
  /\ u[Threshold] # 0 => u[Threshold] >= 150 /\ u.knows_heroic_strike

parse_unit(values) ==
  /\ \A key \in Int32Keys : Gives(values, key, Int32)
  /\ \A key \in Int64Keys : Gives(values, key, Int)
  /\ \A key \in BoolKeys : Gives(values, key, BOOLEAN)
  /\ Gives(values, "policy", {"idle", "scripted"})
  /\ InRange(values)

\* The checks of load_scenario once the file was read.
Accepted ==
  /\ ~malformed
  /\ {"name", "ruleset"} \subseteq DOMAIN top
  /\ Gives(top, "duration_ms", Int) /\ top.duration_ms > 0
  /\ Gives(top, "decision_tick_ms", Int) /\ top.decision_tick_ms > 0
  /\ \A name \in {"attacker", "defender"} : name \in DOMAIN sections /\ parse_unit(sections[name])
  /\ sections["attacker"].entity_id # sections["defender"].entity_id
  /\ sections["attacker"].attacks

EndOfFile ==
  /\ verdict = "reading"
  /\ verdict' = IF Accepted THEN "loaded" ELSE "refused"
  /\ UNCHANGED <<current_section, top, sections, malformed, opened, vals, hidden, read>>

Done == verdict # "reading" /\ UNCHANGED scenario_vars

Next ==
  \/ \E name \in Headers : SectionLine(name)
  \/ \E assigned \in TopLines : TopLine(assigned)
  \/ \E assigned \in UnitLines : UnitLine(assigned)
  \/ MalformedLine
  \/ EndOfFile
  \/ Done

Spec == Init /\ [][Next]_scenario_vars

-----------------------------------------------------------------------------
(* What the engine takes from it.                                          *)

\* Mutant: the attacker always has the first slot.
slot_section_AttackerFirst(i) == IF i = 1 THEN "attacker" ELSE "defender"

\* The section of a slot: slots are in the order of the entity ids.
slot_section(i) ==
  LET attacker_first == sections["attacker"].entity_id < sections["defender"].entity_id
  IN  IF attacker_first <=> i = 1 THEN "attacker" ELSE "defender"

\* The UnitSpec of a slot, as far as the engine reads it.
unit_spec(i) ==
  LET u == sections[slot_section(i)]
  IN  [attacks |-> u.attacks, weapon_speed_ms |-> u.weapon_speed_ms, max_hp |-> u.max_hp,
       initial_rage_deci |-> u.initial_rage_deci,
       knows_mortal_strike |-> u.knows_mortal_strike, knows_heroic_strike |-> u.knows_heroic_strike,
       scripted_hs_min_rage_deci |-> u[Threshold]]

-----------------------------------------------------------------------------
(* Properties.                                                             *)

\* What the models of the match assume of its units and times is what the
\* loader ensures, and the scripted policy never queues a Heroic Strike that it
\* could not pay or does not know (scenario.cpp:134-157, 222-246).
LoaderGuarantees ==
  verdict = "loaded" =>
    /\ [i \in {1, 2} |-> unit_spec(i)] \in [{1, 2} -> UnitSpec]
    /\ top.duration_ms \in Nat \ {0} /\ top.decision_tick_ms \in Nat \ {0}
    /\ \A i \in {1, 2} :
         LET u == unit_spec(i)
         IN  u.scripted_hs_min_rage_deci # 0 =>
               u.knows_heroic_strike /\ u.scripted_hs_min_rage_deci >= HS_RAGE_COST_DECI

\* envs.py:68-73: the thresholds that the Python policies play with are those
\* of the native ones, slot by slot, whatever else the file holds, as long as
\* the two sections stand in the order of the entity ids, none is opened twice,
\* and neither has its threshold from a line with a blank before the colon.
\* (The Python reader refuses a file in which it does not find two numbers.)
ThresholdsBySlot ==
  LET units == {k \in DOMAIN opened : opened[k] \in {"attacker", "defender"}}
  IN  /\ verdict = "loaded" /\ Len(vals) = 2
      /\ \E i, j \in units : /\ units = {i, j} /\ i < j
                            /\ sections[opened[i]].entity_id < sections[opened[j]].entity_id
      /\ "attacker" \notin hidden /\ "defender" \notin hidden
      => vals = [i \in {1, 2} |-> unit_spec(i).scripted_hs_min_rage_deci]
=============================================================================
