----------------------------- MODULE FixedPoint -----------------------------
(***************************************************************************)
(* Pels and residuals as numbers of 8 to 16 bits: what is saturated, what  *)
(* wraps, and the conversions between unsigned pels of N bits and the      *)
(* signed 16 bits residuals are added in.  common/limit.h, fp_types.c      *)
(*                                                                         *)
(* A vector register is the sequence of its lanes.                         *)
(***************************************************************************)
EXTENDS Integers, Sequences

Clamp(v, low, high) == IF v < low THEN low ELSE IF v > high THEN high ELSE v
Wrap16(v) == ((v + 32768) % 65536) - 32768

\* What saturateS16(), S15(), U8() and UN() saturate to.
RangeS16 == <<-32768, 32767>>
RangeS15 == <<-16384, 16383>>
RangeU8  == <<0, 255>>
RangeUN(maxValue) == <<0, maxValue>>
Saturate(range, v) == Clamp(v, range[1], range[2])

MaxValue(fp) ==
  CASE fp = "U8" -> 255 [] fp = "U10" -> 1023 [] fp = "U12" -> 4095 [] fp = "U14" -> 16383

\* The constants of the conversions of each unsigned format.
Steps ==
  [U8  |-> [shift |-> 7, rounding |-> 64, signOffset |-> 128,  resultMax |-> 255],
   U10 |-> [shift |-> 5, rounding |-> 16, signOffset |-> 512,  resultMax |-> 1023],
   U12 |-> [shift |-> 3, rounding |-> 4,  signOffset |-> 2048, resultMax |-> 4095],
   U14 |-> [shift |-> 1, rounding |-> 1,  signOffset |-> 8192, resultMax |-> 16383]]
Unsigned == DOMAIN Steps

fpU16ToS16(val, shift) == Wrap16(Wrap16(val * 2 ^ shift) - 16384)

fpS16ToU16(val, k) ==
  Clamp(Wrap16(((val + k.rounding) \div 2 ^ k.shift) + k.signOffset), 0, k.resultMax)

Promoted(fp, val) == fpU16ToS16(val, Steps[fp].shift)
Demoted(fp, val) == fpS16ToU16(val, Steps[fp])

\* One step of addition as the vector registers do it, of SSE and of NEON, which
\* rounds as it shifts, without saturating.
UpVector(fp, val) == Wrap16(Wrap16(val * 2 ^ Steps[fp].shift) - 16384)
DownVector(fp, rounded) ==
  Clamp(Wrap16((rounded \div 2 ^ Steps[fp].shift) + Steps[fp].signOffset), 0, Steps[fp].resultMax)

HighPrecision(fp) ==
  CASE fp = "U8" -> "S8" [] fp = "U10" -> "S10" [] fp = "U12" -> "S12" [] fp = "U14" -> "S14"
    [] OTHER -> fp
\* The residuals of a unit as command buffers store them: row by row, where those
\* of sixteen layers come by quarters of the unit.
StoredResiduals(values) ==
  IF Len(values) = 4 THEN values
  ELSE LET from == <<0, 1, 4, 5, 2, 3, 6, 7, 8, 9, 12, 13, 10, 11, 14, 15>>
       IN  [i \in 1 .. 16 |-> values[from[i] + 1]]
=============================================================================
