------------------------------ MODULE GpmCommon ------------------------------
(***************************************************************************)
(* The brightness arithmetic of the power plugin                           *)
(* (src/plugins/power/gpm-common.c): hardware levels min..max on one side, *)
(* percentages 0..100 on the D-Bus interface.  The C functions refuse an   *)
(* argument outside its range by answering -1, which the callers use like  *)
(* any other result.                                                       *)
(***************************************************************************)
EXTENDS Integers

\* What a refused conversion answers (g_return_val_if_fail).
Refused == -1

\* value * to / from, rounded to the nearest integer.
ConvertSafe(value, from, to) == (value * to + from \div 2) \div from

AbsToPercentage(min, max, value) ==
  IF max > min /\ value \in min..max
  THEN ConvertSafe(value - min, max - min, 100)
  ELSE Refused

PercentageToAbs(min, max, percentage) ==
  IF max > min /\ percentage \in 0..100
  THEN min + ConvertSafe(percentage, 100, max - min)
  ELSE Refused

\* One press of a brightness key: a twentieth of the range, at least 1.
StepAmount(max) == IF max < 20 THEN 1 ELSE max \div 20

==============================================================================
