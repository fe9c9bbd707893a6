--------------------------- MODULE ScenarioProofs ---------------------------
(* What the loader ensures, for every file.                                 *)
EXTENDS Scenario, TLAPS

\* The values that were accepted are those that were read.
AcceptedStands == verdict = "loaded" => Accepted

LEMMA StepAccepted ==
  ASSUME AcceptedStands, [Next]_scenario_vars
  PROVE  AcceptedStands'
<1>1. CASE verdict # "reading" /\ UNCHANGED scenario_vars
  BY <1>1 DEF AcceptedStands, Accepted, scenario_vars
<1>2. CASE UNCHANGED scenario_vars
  BY <1>2 DEF AcceptedStands, Accepted, scenario_vars
<1>3. CASE EndOfFile
  <2>1. Accepted' <=> Accepted
    BY <1>3 DEF EndOfFile, Accepted
  <2>2. QED
    BY <1>3, <2>1 DEF EndOfFile, AcceptedStands
<1>4. CASE \/ \E name \in Headers : SectionLine(name)
           \/ \E assigned \in TopLines : TopLine(assigned)
           \/ \E assigned \in UnitLines : UnitLine(assigned)
           \/ MalformedLine
  <2>1. verdict' = "reading"
    BY <1>4 DEF SectionLine, TopLine, UnitLine, MalformedLine, Reading
  <2>2. QED
    BY <2>1 DEF AcceptedStands
<1>5. QED
  BY <1>1, <1>2, <1>3, <1>4 DEF Next, Done

\* The checks of one section are enough for the UnitSpec made of it.
LEMMA ParsedUnit ==
  ASSUME NEW u, parse_unit(u)
  PROVE  /\ u.attacks \in BOOLEAN
         /\ u.knows_mortal_strike \in BOOLEAN /\ u.knows_heroic_strike \in BOOLEAN
         /\ u.weapon_speed_ms \in Nat \ {0} /\ u.max_hp \in Nat \ {0}
         /\ u.initial_rage_deci \in 0..RAGE_CAP_DECI
         /\ u[Threshold] \in Nat
         /\ u[Threshold] # 0 => u.knows_heroic_strike /\ u[Threshold] >= HS_RAGE_COST_DECI
<1>1. /\ u.weapon_speed_ms \in Int32 /\ u.max_hp \in Int32
      /\ u.initial_rage_deci \in Int32 /\ u[Threshold] \in Int32
  BY DEF parse_unit, Gives, Int32Keys, Threshold
<1>2. /\ u.attacks \in BOOLEAN
      /\ u.knows_mortal_strike \in BOOLEAN /\ u.knows_heroic_strike \in BOOLEAN
  BY DEF parse_unit, Gives, BoolKeys
<1>3. InRange(u)
  BY DEF parse_unit
<1>4. \A v \in Int32 : v \in Int
  BY DEF Int32
<1>5. u.weapon_speed_ms \in Nat \ {0} /\ u.max_hp \in Nat \ {0}
  BY <1>1, <1>3, <1>4 DEF InRange
<1>6. u.initial_rage_deci \in 0..RAGE_CAP_DECI
  BY <1>1, <1>3, <1>4, SMTT(30) DEF InRange, RAGE_CAP_DECI
<1>7. u[Threshold] # 0 => u.knows_heroic_strike /\ u[Threshold] >= HS_RAGE_COST_DECI
  BY <1>1, <1>3, <1>4 DEF InRange, HS_RAGE_COST_DECI
<1>8. u[Threshold] \in Nat
  BY <1>1, <1>4, <1>7 DEF HS_RAGE_COST_DECI
<1>9. QED
  BY <1>2, <1>5, <1>6, <1>7, <1>8

LEMMA AcceptedGuarantees == AcceptedStands => LoaderGuarantees
<1> SUFFICES ASSUME Accepted PROVE LoaderGuarantees
  BY DEF AcceptedStands, LoaderGuarantees
<1>1. \A i \in {1, 2} : parse_unit(sections[slot_section(i)])
  BY DEF Accepted, slot_section
<1>2. ASSUME NEW i \in {1, 2}
      PROVE  /\ unit_spec(i) \in UnitSpec
             /\ unit_spec(i).scripted_hs_min_rage_deci # 0 =>
                  /\ unit_spec(i).knows_heroic_strike
                  /\ unit_spec(i).scripted_hs_min_rage_deci >= HS_RAGE_COST_DECI
  <2> DEFINE u == sections[slot_section(i)]
  <2>1. parse_unit(u)
    BY <1>1
  <2> HIDE DEF u
  <2>2. unit_spec(i) =
          [attacks |-> u.attacks, weapon_speed_ms |-> u.weapon_speed_ms, max_hp |-> u.max_hp,
           initial_rage_deci |-> u.initial_rage_deci,
           knows_mortal_strike |-> u.knows_mortal_strike,
           knows_heroic_strike |-> u.knows_heroic_strike,
           scripted_hs_min_rage_deci |-> u[Threshold]]
    BY DEF unit_spec, u
  <2>3. QED
    BY <2>1, <2>2, ParsedUnit DEF UnitSpec
<1>3. top.duration_ms \in Nat \ {0} /\ top.decision_tick_ms \in Nat \ {0}
  BY DEF Accepted, Gives
<1>4. QED
  BY <1>2, <1>3 DEF LoaderGuarantees

-----------------------------------------------------------------------------
(* The two readers.                                                        *)

\* What stands behind the key of a threshold, in any line.
Value == {Garbled} \cup {line[Threshold] : line \in {l \in TopLines \cup UnitLines : Threshold \in DOMAIN l}}

\* Section n has a threshold, from a line that the Python reader took.
Has(n) == n \in DOMAIN sections /\ Threshold \in DOMAIN sections[n] /\ n \notin hidden

\* Every header of n stands before every header of m.
Before(n, m) == \A i, j \in DOMAIN opened : opened[i] = n /\ opened[j] = m => i < j

\* at tells where the threshold of each section stands among those that the
\* Python reader has found: in the order of the sections.
Finds(at) ==
  /\ \A n : Has(n) => at[n] \in 1..Len(vals) /\ vals[at[n]] = sections[n][Threshold]
  /\ \A n, m : Has(n) /\ Has(m) /\ n # m /\ Before(n, m) => at[n] < at[m]

ReadersInv ==
  /\ vals \in Seq(Value) /\ opened \in Seq(Headers)
  /\ current_section # NoSection => opened # <<>> /\ current_section = opened[Len(opened)]
                             /\ current_section \in DOMAIN sections
  /\ DOMAIN sections \subseteq Headers
  /\ \A n \in DOMAIN sections : \E k \in DOMAIN opened : opened[k] = n
  /\ \E at \in [Headers -> Nat] : Finds(at)

LEMMA InitReaders == Init => ReadersInv
<1>1. SUFFICES ASSUME Init PROVE ReadersInv
  OBVIOUS
<1>2. vals = <<>> /\ opened = <<>> /\ current_section = NoSection /\ DOMAIN sections = {}
  BY <1>1 DEF Init
<1>3. Finds([n \in Headers |-> 0])
  BY <1>2 DEF Finds, Has
<1>4. QED
  BY <1>2, <1>3 DEF ReadersInv

\* The Python reader appends what it finds.
LEMMA Scans ==
  ASSUME vals \in Seq(Value), NEW line, Scanned(line),
         Threshold \in DOMAIN line => line[Threshold] \in Value
  PROVE  /\ vals' \in Seq(Value) /\ Len(vals) \in Nat /\ Len(vals') >= Len(vals)
         /\ \A k \in 1..Len(vals) : vals'[k] = vals[k]
         /\ Threshold \in DOMAIN line => Len(vals') = Len(vals) + 1 /\ vals'[Len(vals')] = line[Threshold]
<1>1. CASE Threshold \in DOMAIN line
  <2>1. line[Threshold] \in Value
    BY <1>1
  <2>2. vals' = Append(vals, line[Threshold])
    BY <1>1 DEF Scanned
  <2>3. QED
    BY <2>1, <2>2
<1>2. CASE Threshold \notin DOMAIN line
  BY <1>2 DEF Scanned
<1>3. QED
  BY <1>1, <1>2

\* A line outside the sections.
LEMMA SectionsStand ==
  ASSUME ReadersInv, UNCHANGED <<sections, opened, hidden>>,
         vals' \in Seq(Value), Len(vals) \in Nat, Len(vals') >= Len(vals),
         \A k \in 1..Len(vals) : vals'[k] = vals[k],
         current_section' \in {NoSection, current_section}
  PROVE  ReadersInv'
<1>1. PICK at \in [Headers -> Nat] : Finds(at)
  BY DEF ReadersInv
<1>2. \A n : Has(n)' <=> Has(n)
  BY DEF Has
<1>3. \A n, m : Before(n, m)' <=> Before(n, m)
  BY DEF Before
<1>4. \A n : Has(n)' => at[n] \in 1..Len(vals') /\ vals'[at[n]] = sections'[n][Threshold]
  BY <1>1, <1>2, SMTT(30) DEF Finds, ReadersInv
<1>5. Finds(at)'
  BY <1>1, <1>2, <1>3, <1>4 DEF Finds
<1>6. QED
  BY <1>5 DEF ReadersInv

LEMMA SectionReaders ==
  ASSUME ReadersInv, NEW name \in Headers, SectionLine(name)
  PROVE  ReadersInv'
<1>1. PICK at \in [Headers -> Nat] : Finds(at)
  BY DEF ReadersInv
<1> DEFINE line == [key \in {name} |-> Garbled]
<1>2. /\ opened' = Append(opened, name) /\ Scanned(line) /\ current_section' = name
      /\ sections' = [n \in DOMAIN sections \cup {name} |->
                        IF n \in DOMAIN sections THEN sections[n] ELSE <<>>]
      /\ hidden' = hidden
  BY DEF SectionLine
<1>3. /\ vals' \in Seq(Value) /\ Len(vals) \in Nat /\ Len(vals') >= Len(vals)
      /\ \A k \in 1..Len(vals) : vals'[k] = vals[k]
  <2>1. Threshold \in DOMAIN line => line[Threshold] \in Value
    BY DEF Value
  <2> HIDE DEF line
  <2>2. QED
    BY <1>2, <2>1, Scans DEF ReadersInv
<1> HIDE DEF line
<1>4. \A n : Has(n)' => Has(n) /\ sections'[n] = sections[n]
  BY <1>2 DEF Has
<1>5. /\ opened \in Seq(Headers) /\ opened' \in Seq(Headers) /\ DOMAIN opened \subseteq DOMAIN opened'
      /\ \A k \in DOMAIN opened : opened'[k] = opened[k]
      /\ opened' # <<>> /\ opened'[Len(opened')] = name /\ Len(opened') \in DOMAIN opened'
  <2>1. opened \in Seq(Headers) /\ Len(opened) \in Nat
    BY DEF ReadersInv
  <2>2. /\ opened' \in Seq(Headers) /\ Len(opened') = Len(opened) + 1 /\ opened'[Len(opened) + 1] = name
        /\ \A k \in 1..Len(opened) : opened'[k] = opened[k]
    BY <1>2, <2>1
  <2>3. DOMAIN opened = 1..Len(opened) /\ DOMAIN opened' = 1..Len(opened')
    BY <2>1, <2>2
  <2>4. QED
    BY <2>1, <2>2, <2>3
<1>6. \A n, m : Before(n, m)' => Before(n, m)
  BY <1>5 DEF Before
<1>7. Finds(at)'
  <2>1. \A n : Has(n)' => at[n] \in 1..Len(vals') /\ vals'[at[n]] = sections'[n][Threshold]
    <3>1. SUFFICES ASSUME NEW n, Has(n)'
                   PROVE  at[n] \in 1..Len(vals') /\ vals'[at[n]] = sections'[n][Threshold]
      OBVIOUS
    <3>2. at[n] \in 1..Len(vals) /\ vals[at[n]] = sections[n][Threshold] /\ sections'[n] = sections[n]
      BY <1>1, <1>4, <3>1 DEF Finds
    <3>3. Len(vals') \in Nat
      BY <1>3
    <3>4. QED
      BY <1>3, <3>2, <3>3
  <2>2. \A n, m : Has(n)' /\ Has(m)' /\ n # m /\ Before(n, m)' => at[n] < at[m]
    BY <1>1, <1>4, <1>6 DEF Finds
  <2>3. QED
    BY <2>1, <2>2 DEF Finds
<1>8. \A n \in DOMAIN sections' : n \in Headers /\ \E k \in DOMAIN opened' : opened'[k] = n
  <2>1. name \in Headers /\ \E k \in DOMAIN opened' : opened'[k] = name
    BY <1>5
  <2>2. \A n \in DOMAIN sections : n \in Headers /\ \E k \in DOMAIN opened : opened[k] = n
    BY DEF ReadersInv
  <2>3. \A n \in DOMAIN sections : n \in Headers /\ \E k \in DOMAIN opened' : opened'[k] = n
    BY <1>5, <2>2
  <2>4. DOMAIN sections' = DOMAIN sections \cup {name}
    BY <1>2
  <2>5. QED
    BY <2>1, <2>3, <2>4
<1>9. QED
  BY <1>2, <1>3, <1>5, <1>7, <1>8 DEF ReadersInv

\* The threshold of the section that is open was found last, or not at all.
LEMMA UnitReaders ==
  ASSUME ReadersInv, NEW line \in UnitLines, UnitLine(line), current_section # NoSection
  PROVE  ReadersInv'
<1>1. PICK at \in [Headers -> Nat] : Finds(at)
  BY DEF ReadersInv
<1> DEFINE c == current_section
<1>2. /\ UNCHANGED <<opened, current_section>>
      /\ sections' = [sections EXCEPT ![c] = Assigned(sections[c], line)]
      /\ Scanned(line) /\ Hides(line)
  BY DEF UnitLine
<1>3. /\ vals \in Seq(Value) /\ opened \in Seq(Headers) /\ opened # <<>> /\ c = opened[Len(opened)]
      /\ c \in DOMAIN sections /\ c \in Headers /\ DOMAIN sections \subseteq Headers
  BY DEF ReadersInv
<1>4. /\ vals' \in Seq(Value) /\ Len(vals) \in Nat /\ Len(vals') >= Len(vals) /\ Len(vals') \in Nat
      /\ \A k \in 1..Len(vals) : vals'[k] = vals[k]
      /\ Threshold \in DOMAIN line => Len(vals') = Len(vals) + 1 /\ vals'[Len(vals')] = line[Threshold]
  <2>1. Threshold \in DOMAIN line => line[Threshold] \in Value
    BY DEF Value
  <2>2. QED
    BY <1>2, <1>3, <2>1, Scans
<1>5. \A n : n # c /\ n \in DOMAIN sections => sections'[n] = sections[n]
  BY <1>2
<1>6. DOMAIN sections' = DOMAIN sections /\ sections'[c] = Assigned(sections[c], line)
  BY <1>2, <1>3
<1>7. \A n, m : Before(n, m)' <=> Before(n, m)
  BY <1>2 DEF Before
<1>8. \A n : n # c => (Has(n)' <=> Has(n))
  <2>1. \A n : n # c => (n \in hidden' <=> n \in hidden)
    BY <1>2 DEF Hides
  <2>2. QED
    BY <1>5, <1>6, <2>1 DEF Has
<1>9. CASE SpacedThreshold \in DOMAIN line
  <2>1. c \in hidden'
    BY <1>2, <1>9 DEF Hides
  <2>2. \A n : Has(n)' => Has(n) /\ sections'[n] = sections[n]
    BY <1>5, <1>8, <2>1 DEF Has
  <2>3. \A n : Has(n)' => at[n] \in 1..Len(vals') /\ vals'[at[n]] = sections'[n][Threshold]
    <3>1. SUFFICES ASSUME NEW n, Has(n)'
                   PROVE  at[n] \in 1..Len(vals') /\ vals'[at[n]] = sections'[n][Threshold]
      OBVIOUS
    <3>2. at[n] \in 1..Len(vals) /\ vals[at[n]] = sections[n][Threshold] /\ sections'[n] = sections[n]
      BY <1>1, <2>2, <3>1 DEF Finds
    <3>3. QED
      BY <1>4, <3>2
  <2>4. Finds(at)'
    BY <1>1, <1>7, <2>2, <2>3 DEF Finds
  <2>5. QED
    BY <1>2, <1>3, <1>4, <1>6, <2>4 DEF ReadersInv
<1>10. CASE SpacedThreshold \notin DOMAIN line /\ Threshold \notin DOMAIN line
  <2>1. /\ Threshold \in DOMAIN sections'[c] <=> Threshold \in DOMAIN sections[c]
        /\ Threshold \in DOMAIN sections[c] => sections'[c][Threshold] = sections[c][Threshold]
    <3>1. Threshold \notin DOMAIN Trimmed(line)
      BY <1>10 DEF Trimmed
    <3>2. QED
      BY <1>6, <3>1 DEF Assigned
  <2>2. hidden' = hidden
    BY <1>2, <1>10 DEF Hides
  <2>3. \A n : Has(n)' <=> Has(n)
    BY <1>3, <1>6, <1>8, <2>1, <2>2 DEF Has
  <2>4. \A n : Has(n) => sections'[n][Threshold] = sections[n][Threshold]
    BY <1>5, <2>1 DEF Has
  <2>5. Finds(at)'
    BY <1>1, <1>4, <1>7, <2>3, <2>4 DEF Finds
  <2>6. QED
    BY <1>2, <1>4, <1>6, <2>5 DEF ReadersInv
<1>11. CASE SpacedThreshold \notin DOMAIN line /\ Threshold \in DOMAIN line
  <2>1. PICK at2 \in [Headers -> Nat] : at2[c] = Len(vals') /\ \A n \in Headers \ {c} : at2[n] = at[n]
    <3>1. [at EXCEPT ![c] = Len(vals')] \in [Headers -> Nat]
      BY <1>4
    <3>2. [at EXCEPT ![c] = Len(vals')][c] = Len(vals')
      BY <1>3
    <3>3. \A n \in Headers \ {c} : [at EXCEPT ![c] = Len(vals')][n] = at[n]
      OBVIOUS
    <3>4. QED
      BY <3>1, <3>2, <3>3
  <2>2. sections'[c][Threshold] = line[Threshold]
    <3>1. Threshold \in DOMAIN Trimmed(line) /\ Trimmed(line)[Threshold] = line[Threshold]
      BY <1>11 DEF Trimmed, Threshold, SpacedThreshold
    <3>2. QED
      BY <1>6, <3>1 DEF Assigned
  <2>3. \A n : Has(n)' => n \in Headers
    BY <1>3, <1>6 DEF Has
  <2>4. \A n : Has(n)' /\ n # c => at2[n] = at[n] /\ at[n] \in 1..Len(vals)
                                   /\ vals[at[n]] = sections[n][Threshold] /\ sections'[n] = sections[n]
    BY <1>1, <1>5, <1>8, <2>1, <2>3 DEF Finds, Has
  <2>5. \A n : Has(n)' => at2[n] \in 1..Len(vals') /\ vals'[at2[n]] = sections'[n][Threshold]
    <3>1. ASSUME NEW n, Has(n)', n # c
          PROVE  at2[n] \in 1..Len(vals') /\ vals'[at2[n]] = sections'[n][Threshold]
      <4>1. /\ at2[n] = at[n] /\ at[n] \in 1..Len(vals)
            /\ vals[at[n]] = sections[n][Threshold] /\ sections'[n] = sections[n]
        BY <2>4, <3>1
      <4>2. at[n] \in 1..Len(vals') /\ vals'[at[n]] = vals[at[n]]
        BY <1>4, <4>1
      <4>3. QED
        BY <4>1, <4>2
    <3>2. at2[c] \in 1..Len(vals') /\ vals'[at2[c]] = sections'[c][Threshold]
      BY <1>4, <1>11, <2>1, <2>2
    <3>3. QED
      BY <3>1, <3>2
  <2>6. ASSUME NEW n, NEW m, Has(n)', Has(m)', n # m, Before(n, m)'
        PROVE  at2[n] < at2[m]
    <3>1. CASE m = c
      BY <1>4, <1>11, <2>1, <2>4, <2>6, <3>1
    <3>2. CASE n = c
      <4>1. PICK k \in DOMAIN opened : opened[k] = m
        BY <1>6, <2>6 DEF Has, ReadersInv
      <4>2. Len(opened) \in DOMAIN opened /\ k <= Len(opened)
        BY <1>3, <4>1
      <4>3. Len(opened) < k
        BY <1>3, <1>7, <2>6, <3>2, <4>1, <4>2 DEF Before
      <4>4. QED
        BY <1>3, <4>1, <4>2, <4>3
    <3>3. CASE n # c /\ m # c
      <4>1. Has(n) /\ Has(m) /\ Before(n, m)
        BY <1>7, <1>8, <2>6, <3>3
      <4>2. at[n] < at[m]
        BY <1>1, <2>6, <4>1 DEF Finds
      <4>3. QED
        BY <2>4, <2>6, <3>3, <4>2
    <3>4. QED
      BY <3>1, <3>2, <3>3
  <2>7. Finds(at2)'
    BY <2>5, <2>6 DEF Finds
  <2>8. QED
    BY <1>2, <1>3, <1>4, <1>6, <2>7 DEF ReadersInv
<1>12. QED
  BY <1>9, <1>10, <1>11

LEMMA StepReaders == ReadersInv /\ [Next]_scenario_vars => ReadersInv'
<1>1. SUFFICES ASSUME ReadersInv, [Next]_scenario_vars PROVE ReadersInv'
  OBVIOUS
<1>2. Len(vals) \in Nat /\ vals \in Seq(Value)
  BY <1>1 DEF ReadersInv
<1>3. CASE UNCHANGED <<current_section, sections, opened, vals, hidden>>
  BY <1>1, <1>2, <1>3, SectionsStand
<1>4. ASSUME NEW name \in Headers, SectionLine(name) PROVE ReadersInv'
  BY <1>1, <1>4, SectionReaders
<1>5. ASSUME NEW line \in TopLines, TopLine(line) PROVE ReadersInv'
  <2>1. UNCHANGED <<sections, opened, hidden>> /\ current_section' = NoSection /\ Scanned(line)
    BY <1>5 DEF TopLine
  <2>2. Threshold \in DOMAIN line => line[Threshold] \in Value
    BY DEF Value
  <2>3. QED
    BY <1>1, <1>2, <2>1, <2>2, Scans, SectionsStand
<1>6. ASSUME NEW line \in UnitLines, UnitLine(line) PROVE ReadersInv'
  <2>1. CASE current_section = NoSection
    <3>1. UNCHANGED <<sections, opened, hidden, current_section>> /\ Scanned(line)
      BY <1>6, <2>1 DEF UnitLine
    <3>2. Threshold \in DOMAIN line => line[Threshold] \in Value
      BY DEF Value
    <3>3. QED
      BY <1>1, <1>2, <3>1, <3>2, Scans, SectionsStand
  <2>2. QED
    BY <1>1, <1>6, <2>1, UnitReaders
<1>7. QED
  BY <1>1, <1>3, <1>4, <1>5, <1>6 DEF Next, MalformedLine, EndOfFile, Done, scenario_vars

LEMMA ReadersAgree == AcceptedStands /\ ReadersInv => ThresholdsBySlot
<1> DEFINE units == {k \in DOMAIN opened : opened[k] \in {"attacker", "defender"}}
<1> SUFFICES ASSUME AcceptedStands, ReadersInv, verdict = "loaded", Len(vals) = 2,
                    NEW i \in units, NEW j \in units, units = {i, j}, i < j,
                    sections[opened[i]].entity_id < sections[opened[j]].entity_id,
                    "attacker" \notin hidden, "defender" \notin hidden
             PROVE  vals = [k \in {1, 2} |-> unit_spec(k).scripted_hs_min_rage_deci]
  BY DEF ThresholdsBySlot
<1> DEFINE n == opened[i]
           m == opened[j]
<1>1. PICK at \in [Headers -> Nat] : Finds(at)
  BY DEF ReadersInv
<1>2. \A s \in {"attacker", "defender"} : s \in DOMAIN sections /\ parse_unit(sections[s])
  BY DEF AcceptedStands, Accepted
<1>3. \A s \in {"attacker", "defender"} : Has(s) /\ sections[s].entity_id \in Int
  BY <1>2 DEF Has, parse_unit, Gives, Int32Keys, Int32
<1>4. n \in {"attacker", "defender"} /\ m \in {"attacker", "defender"}
  OBVIOUS
<1>5. n # m
  BY <1>3, <1>4
<1>6. i \in Nat /\ j \in Nat /\ DOMAIN opened \subseteq Nat
  <2>1. opened \in Seq(Headers)
    BY DEF ReadersInv
  <2>2. DOMAIN opened \subseteq Nat
    BY ONLY <2>1
  <2>3. QED
    BY <2>2
<1>7. Before(n, m)
  BY <1>4, <1>5, <1>6 DEF Before
<1>8. /\ at[n] \in 1..2 /\ at[m] \in 1..2 /\ at[n] < at[m]
      /\ vals[at[n]] = sections[n][Threshold] /\ vals[at[m]] = sections[m][Threshold]
  BY <1>1, <1>3, <1>4, <1>5, <1>7 DEF Finds
<1>9. vals[1] = sections[n][Threshold] /\ vals[2] = sections[m][Threshold]
  BY <1>8
<1>10. slot_section(1) = n /\ slot_section(2) = m
  BY <1>3, <1>4, <1>5 DEF slot_section
<1>11. unit_spec(1).scripted_hs_min_rage_deci = vals[1] /\ unit_spec(2).scripted_hs_min_rage_deci = vals[2]
  BY <1>9, <1>10 DEF unit_spec
<1>12. vals = [k \in {1, 2} |-> vals[k]]
  BY DEF ReadersInv
<1>13. QED
  BY <1>11, <1>12

-----------------------------------------------------------------------------
(* The theorems.                                                           *)

\* Whatever the file, what load_scenario lets through meets the assumptions
\* that the theorems about the engine rest on (UnitsAssumption, TimesAssumption).
THEOREM LoaderIsEnough == Spec => []LoaderGuarantees
<1>1. Init => AcceptedStands
  BY DEF Init, AcceptedStands
<1>2. AcceptedStands /\ [Next]_scenario_vars => AcceptedStands'
  BY StepAccepted
<1>3. QED
  BY <1>1, <1>2, AcceptedGuarantees, PTL DEF Spec

\* Whatever the file, the thresholds that the Python policies play with are those
\* of the native ones, slot by slot, if the sections of the units are opened once
\* each and in the order of their ids and no blank stands before the colon of the
\* thresholds that count (envs.py:68-82, scenario.cpp:182-248).
THEOREM ReadersOfOneFile == Spec => []ThresholdsBySlot
<1>1. Init => AcceptedStands
  BY DEF Init, AcceptedStands
<1>2. AcceptedStands /\ [Next]_scenario_vars => AcceptedStands'
  BY StepAccepted
<1>3. QED
  BY <1>1, <1>2, InitReaders, StepReaders, ReadersAgree, PTL DEF Spec
=============================================================================
