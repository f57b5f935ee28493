------------------------------ MODULE Figures ------------------------------
(***************************************************************************)
(* The counts and telephone numbers that the console's pages show          *)
(* (web/static/js/utils.js, formatNumber and formatPhone): a count is      *)
(* rounded to tenths of thousands or millions, and a number of twelve or   *)
(* thirteen digits is cut into its parts.                                  *)
(***************************************************************************)
EXTENDS Integers, Sequences

Seqs == INSTANCE SequencesExt

CONSTANTS
  Counts,      \* the counts a group's metrics may have
  Digits       \* how many digits a telephone number may have

ASSUME FiguresAssumption == Counts \subseteq Nat /\ Digits \subseteq Nat

VARIABLES
  count,       \* a count of the group's metrics
  phone        \* an instance's telephone number, as its digits

figureVars == <<count, phone>>

Unit == [plain |-> 1, K |-> 1000, M |-> 1000000]

(* toFixed(1) of n / unit, in tenths.  The quotient is a double, so half a *)
(* tenth may go either way.                                                *)
ToFixed(n, unit) ==
  {t \in {(10 * n) \div unit, (10 * n) \div unit + 1} :
     2 * (10 * n - t * unit) \in -unit..unit}

(* Mutant: the thousands begin a digit too early.                          *)
FormatNumber_EarlyThousands(n) ==
  IF n >= 1000000 THEN {[tenths |-> t, unit |-> "M"] : t \in ToFixed(n, 1000000)}
  ELSE IF n >= 100 THEN {[tenths |-> t, unit |-> "K"] : t \in ToFixed(n, 1000)}
  ELSE {[tenths |-> 10 * n, unit |-> "plain"]}

FormatNumber(n) ==
  IF n >= 1000000 THEN {[tenths |-> t, unit |-> "M"] : t \in ToFixed(n, 1000000)}
  ELSE IF n >= 1000 THEN {[tenths |-> t, unit |-> "K"] : t \in ToFixed(n, 1000)}
  ELSE {[tenths |-> 10 * n, unit |-> "plain"]}

(* Country, area and the two parts of the number; any other is not cut.    *)
FormatPhone(cleaned) ==
  LET CutAt(n) == <<SubSeq(cleaned, 1, 2), SubSeq(cleaned, 3, 4),
                    SubSeq(cleaned, 5, n), SubSeq(cleaned, n + 1, Len(cleaned))>>
  IN  CASE Len(cleaned) = 13 -> CutAt(9)
        [] Len(cleaned) = 12 -> CutAt(8)
        [] OTHER -> <<cleaned>>
-----------------------------------------------------------------------------
(* The place of a digit stands for the digit.                              *)
Phone(n) == [i \in 1..n |-> i]

InitFigures == count = 0 /\ phone = <<>>

(* The metrics are loaded.                                                 *)
Counted ==
  /\ count' \in Counts
  /\ UNCHANGED phone

(* A phone is paired.                                                      *)
PhoneKnown ==
  /\ phone' \in {Phone(n) : n \in Digits}
  /\ UNCHANGED count

FigureStep == Counted \/ PhoneKnown

FigureSpec == InitFigures /\ [][FigureStep]_figureVars
-----------------------------------------------------------------------------
(* What is shown for a count is within a twentieth of it, whatever unit it *)
(* falls into and whichever way its tenths are rounded.                    *)
NumberIsTold ==
  \A f \in FormatNumber(count) :
    2 * (f.tenths * Unit[f.unit] - 10 * count) \in -count..count

(* Counts and telephone numbers are shown for what they are: no digit of a *)
(* telephone number is lost or shown twice.                                *)
FiguresAreTold == NumberIsTold /\ Seqs!FlattenSeq(FormatPhone(phone)) = phone

(* Not true of the code (see the README): a thousand thousands are shown as*)
(* a million.  The unit is chosen before the rounding.                     *)
ThousandsEnd == \A f \in FormatNumber(count) : f.unit = "K" => f.tenths < 10000
=============================================================================
