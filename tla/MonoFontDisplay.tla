-------------------------- MODULE MonoFontDisplay --------------------------
(***************************************************************************)
(* The displays of the panels: a number with an SI prefix in a label of    *)
(* its own.  Numbers are integers, in millionths; what a number looks like *)
(* is its SI prefix and the places behind the point.                       *)
(***************************************************************************)
EXTENDS Integers, Sequences, FiniteSetsExt

CONSTANTS
  Overflow,     \* numeric_limits<double>::max()
  NoNumber      \* the dashes after a reset

ASSUME OverflowAssumption == Overflow \in Nat /\ NoNumber \notin Int

Exponents == -6 .. 3
Abs(v) == IF v < 0 THEN -v ELSE v

\* floor(log10()) of a value that is not 0; whether the value is a power of 10.
Magnitude(v) == Max({e \in Exponents : 10 ^ (e + 6) <= Abs(v)})
IsPower(v)   == 10 ^ (Magnitude(v) + 6) = Abs(v)

\* The division of the code truncates.
Quotient(a, b) == IF a < 0 THEN -((-a) \div b) ELSE a \div b

\* (logval / 3) - (logval < 1), truncated.
RawPrefix(v) ==
  LET e == Magnitude(v)
  IN  CASE e >= 1               -> e \div 3
        [] e < 1 /\ IsPower(v)  -> Quotient(e - 3, 3)
        [] OTHER                -> -((2 - e) \div 3)

\* Mutant: a negative number of digits is rounded the wrong way.
PrefixFromValueTruncates(v, sr_digits) ==
  LET raw == RawPrefix(v)
  IN  CASE v = 0 \/ Abs(v) >= Overflow -> 0
        [] 3 * raw < -sr_digits        -> Quotient(-sr_digits, 3)
        [] OTHER                       -> raw
PrefixFromValue(v, sr_digits) ==
  IF v = 0 \/ Abs(v) >= Overflow THEN 0
  ELSE IF 3 * RawPrefix(v) < -sr_digits
  THEN Quotient(-sr_digits + (IF sr_digits < 0 THEN 2 ELSE 0), 3)
  ELSE RawPrefix(v)

DecimalPlaces(prefix, sr_digits) == Max({0, sr_digits + 3 * prefix})

\* format_value_si()
FormatValue(v, sr_digits) ==
  LET prefix == PrefixFromValue(v, sr_digits)
  IN  [of |-> v, prefix |-> prefix, places |-> DecimalPlaces(prefix, sr_digits)]

\* format_value_si_autoscale(): the first prefix that leaves at most 999.
Autoscale(v, places) ==
  LET fits == {p \in {-2, -1, 0} : Abs(v) <= 999 * 10 ^ (6 + 3 * p)} \cup {1}
  IN  [of |-> v, places |-> places,
       prefix |-> IF v = 0 \/ Abs(v) >= Overflow THEN 0 ELSE Min(fits)]

-----------------------------------------------------------------------------
(* A display.                                                              *)
NewDisplay(type) ==
  [type |-> type, value |-> 0, sr_digits |-> 2, decimal_places |-> 2,
   number |-> NoNumber, unit_si_prefix |-> 0, unit_changed |-> TRUE, label |-> 0]

Number(d) ==
  CASE Abs(d.value) >= Overflow               -> [of |-> d.value, prefix |-> 0, places |-> 0]
    [] Abs(d.value) < Overflow /\ d.type = "AutoRangeWithSRDigits"
                                              -> FormatValue(d.value, d.sr_digits)
    [] Abs(d.value) < Overflow /\ d.type = "AutoRange"
                                              -> Autoscale(d.value, d.decimal_places)

WritesUnit(d) == Number(d).prefix # d.unit_si_prefix \/ d.unit_changed

\* Mutant: the prefix is remembered before it is compared.
UpdateDisplayKeepsUnit(d) ==
  [d EXCEPT !.number = Number(d), !.unit_changed = FALSE,
            !.unit_si_prefix = Number(d).prefix,
            !.label = IF d.unit_changed THEN Number(d).prefix ELSE @]
\* update_display(): the unit is written again when its prefix is not the
\* one that was written last.
UpdateDisplay(d) ==
  [d EXCEPT !.number = Number(d), !.unit_changed = FALSE,
            !.unit_si_prefix = IF WritesUnit(d) THEN Number(d).prefix ELSE @,
            !.label = IF WritesUnit(d) THEN Number(d).prefix ELSE @]

\* Only the label of the value is reset: the value comes back with the next
\* update_display().
ResetValue(d)           == [d EXCEPT !.number = NoNumber]
SetValue(d, v)          == UpdateDisplay([d EXCEPT !.value = v])
SetUnit(d)              == UpdateDisplay([d EXCEPT !.unit_changed = TRUE])
SetSrDigits(d, digits)  == UpdateDisplay([d EXCEPT !.sr_digits = digits])
SetDecimalPlaces(d, places) == UpdateDisplay([d EXCEPT !.decimal_places = places])

(* What is read off a display is its value: the unit has the prefix of the *)
(* number, and a display that follows the digits of a device shows all of  *)
(* them and no more.                                                       *)
ReadsTrue(d) ==
  d.number # NoNumber =>
    /\ d.label = d.number.prefix /\ d.number.of = d.value
    /\ d.type = "AutoRangeWithSRDigits" /\ d.value # 0 /\ Abs(d.value) < Overflow =>
         3 * d.number.prefix - d.number.places = -d.sr_digits
=============================================================================
