------------------------------- MODULE Facing -------------------------------
(***************************************************************************)
(* The integer trigonometry of src/sim/core/fixed_trig.h, which decides     *)
(* whether two units face each other.  Angles are in milliradians, sines    *)
(* are scaled by a million.                                                *)
(***************************************************************************)
EXTENDS Integers

PI_MRAD    == 3142
TRIG_SCALE == 1000000

\* num * TRIG_SCALE / den: the quotient of the source's 64-bit division,
\* found digit by digit within the 32 bits of the checker.
Scaled(num, den) ==
  LET digits[k \in 0..6] ==
        IF k = 0 THEN [quotient |-> num \div den, rest |-> num % den]
        ELSE LET d == digits[k - 1]
             IN  [quotient |-> 10 * d.quotient + (10 * d.rest) \div den,
                  rest |-> (10 * d.rest) % den]
  IN  digits[6].quotient

\* Mutant: an angle beyond half a turn keeps its sign.
sin_mrad_Unsigned(x) ==
  LET half == (x % (2 * PI_MRAD)) % PI_MRAD
      q    == half * (PI_MRAD - half)
  IN  Scaled(16 * q, 5 * PI_MRAD * PI_MRAD - 4 * q)

\* Bhaskara's approximation on half a turn.
sin_mrad(x) ==
  LET turn == x % (2 * PI_MRAD)
      half == turn % PI_MRAD
      q    == half * (PI_MRAD - half)
      sine == Scaled(16 * q, 5 * PI_MRAD * PI_MRAD - 4 * q)
  IN  IF turn >= PI_MRAD THEN -sine ELSE sine

cos_mrad(x) == sin_mrad(x + PI_MRAD \div 2)

\* Whether the point lies in front of the unit; its shoulder line is front.
in_frontal_arc(unit, point) ==
  cos_mrad(unit.facing_mrad) * (point.pos_x_cm - unit.pos_x_cm)
    + sin_mrad(unit.facing_mrad) * (point.pos_y_cm - unit.pos_y_cm) >= 0

mutual_frontal_arc(def, att) == in_frontal_arc(def, att) /\ in_frontal_arc(att, def)

-----------------------------------------------------------------------------
(* Properties.                                                             *)

\* The exact geometry: the 32 winds, with their sines in thousandths and
\* their angles, counted on into neighbouring turns.
Winds == -16..48
QuarterSine == [k \in 0..8 |-> <<0, 195, 383, 556, 707, 831, 924, 981, 1000>>[k + 1]]
WindSine[k \in 0..88] ==
  CASE k <= 8            -> QuarterSine[k]
    [] 8 < k /\ k <= 16  -> QuarterSine[16 - k]
    [] 16 < k /\ k <= 32 -> -WindSine[k - 16]
    [] 32 < k            -> WindSine[k - 32]
Sine(k)      == WindSine[k + 32]
Cosine(k)    == WindSine[k + 40]
WindMrad(k)  == (k * 19635 + 50) \div 100
Facing(k)    == [pos_x_cm |-> 0, pos_y_cm |-> 0, facing_mrad |-> WindMrad(k)]

\* The point ten metres along the left (side = 1) or right (-1) shoulder of
\* a unit facing wind k, ahead of the line by that many thousandths.
Shoulder(k, side, ahead) ==
  [pos_x_cm |-> (ahead * Cosine(k)) \div 1000 - side * Sine(k),
   pos_y_cm |-> (ahead * Sine(k)) \div 1000 + side * Cosine(k),
   facing_mrad |-> 0]

\* Divergence from the exact arc "is confined to placements within ~0.2% of
\* the exact shoulder line" (docs/divergence_ledger.md:19): five thousandths
\* off the line, of which the rounding of the winds may take two, every facing
\* of two turns tells front from behind.  Both shoulders are front in every
\* quarter turn as the code counts it (fixed_trig.h:51-54).
ArcIsGeometric ==
  /\ \A k \in Winds, side \in {-1, 1} :
       /\ in_frontal_arc(Facing(k), Shoulder(k, side, 5))
       /\ ~in_frontal_arc(Facing(k), Shoulder(k, side, -5))
  /\ \A q \in -2..6, side \in {-1, 1} :
       in_frontal_arc([Facing(0) EXCEPT !.facing_mrad = q * (PI_MRAD \div 2)],
                      Shoulder(8 * q, side, 0))
=============================================================================
