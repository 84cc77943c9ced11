----------------------------- MODULE Transforms -----------------------------
(***************************************************************************)
(* Dequantisation and the inverse transforms that make residuals of the    *)
(* coefficients of a transform unit, by the scalar functions and by those  *)
(* for SSE and NEON.  enhancement/src/transform.c                          *)
(***************************************************************************)
EXTENDS FixedPoint

Sign(v) == IF v > 0 THEN 1 ELSE IF v < 0 THEN -1 ELSE 0

Add(a, b) == [i \in DOMAIN a |-> a[i] + b[i]]
Sub(a, b) == [i \in DOMAIN a |-> a[i] - b[i]]
Mul(a, b) == [i \in DOMAIN a |-> a[i] * b[i]]
Packed(a) == [i \in DOMAIN a |-> Saturate(RangeS16, a[i])]

-----------------------------------------------------------------------------
(* Dequantisation: d has stepWidth and offset, of as many lanes as coeffs. *)

dequantScalar(d, coeffs) ==
  [i \in DOMAIN coeffs |->
     Wrap16(Wrap16(coeffs[i] * d.stepWidth[i]) + Wrap16(Sign(coeffs[i]) * d.offset[i]))]

\* _mm_sign_epi16(): a, negated or nothing after the sign of b.
SignSSE(a, b) == [i \in DOMAIN a |-> IF b[i] < 0 THEN Wrap16(-a[i]) ELSE IF b[i] = 0 THEN 0 ELSE a[i]]

\* vsign_s16(): a or its negation selected by the sign of b, then cleared.
SignNEON(a, b) ==
  LET masked(i) == IF b[i] \div 2 ^ 15 = -1 THEN Wrap16(-a[i]) ELSE a[i]
  IN  [i \in DOMAIN a |-> IF b[i] = 0 THEN 0 ELSE masked(i)]

DequantVector(d, coeffs, signed) ==
  [i \in DOMAIN coeffs |-> Wrap16(Wrap16(coeffs[i] * d.stepWidth[i]) + signed[i])]
dequantSSE(d, coeffs) == DequantVector(d, coeffs, SignSSE(d.offset, coeffs))
dequantNEON(d, coeffs) == DequantVector(d, coeffs, SignNEON(d.offset, coeffs))

-----------------------------------------------------------------------------
(* Scalar transforms.                                                      *)

inverseDD1D(c) ==
  Packed(<<c[1] + c[2] + c[3], c[1] - c[2] - c[3], c[4] + c[2] - c[3], c[4] - c[2] + c[3]>>)
inverseDD2D(c) ==
  Packed(<<c[1] + c[2] + c[3] + c[4], c[1] - c[2] + c[3] - c[4],
           c[1] + c[2] - c[3] - c[4], c[1] - c[2] - c[3] + c[4]>>)

\* The a, h, v and d sums, over each group of four coefficients.
GroupSums(c, signs) ==
  [g \in 1 .. 4 |-> signs[1] * c[4 * g - 3] + signs[2] * c[4 * g - 2] +
                    signs[3] * c[4 * g - 1] + signs[4] * c[4 * g]]
Directions4 == <<<<1, 1, 1, 1>>, <<1, -1, 1, -1>>, <<1, 1, -1, -1>>, <<1, -1, -1, 1>>>>

inverseDDS1D(c) ==
  LET four(s) == <<s[1] + s[2] + s[4], s[1] - s[2] - s[4], s[2] + s[3] - s[4], s[3] - s[2] + s[4]>>
      of(n)   == four(GroupSums(c, Directions4[n]))
  IN  Packed(of(1) \o of(2) \o of(3) \o of(4))
inverseDDS2D(c) ==
  LET four(s) == <<s[1] + s[2] + s[3] + s[4], s[1] - s[2] + s[3] - s[4],
                   s[1] + s[2] - s[3] - s[4], s[1] - s[2] - s[3] + s[4]>>
      of(n)   == four(GroupSums(c, Directions4[n]))
  IN  Packed(of(1) \o of(2) \o of(3) \o of(4))

-----------------------------------------------------------------------------
(* SSE.                                                                    *)

\* _mm_shuffle_epi32(): two bits of imm for each lane.
Shuffle(v, imm) == [i \in 1 .. 4 |-> v[((imm \div 4 ^ (i - 1)) % 4) + 1]]
UnpackLo32(a, b) == <<a[1], b[1], a[2], b[2]>>
UnpackHi32(a, b) == <<a[3], b[3], a[4], b[4]>>
UnpackLo64(a, b) == <<a[1], a[2], b[1], b[2]>>
UnpackHi64(a, b) == <<a[3], a[4], b[3], b[4]>>

inverseDD1D_SSE(c) ==
  LET col0 == Shuffle(c, 240)
      col1 == Mul(Shuffle(c, 149), <<1, -1, 1, 1>>)
      col2 == Mul(Shuffle(c, 106), <<1, -1, -1, -1>>)
  IN  Packed(Add(Add(col0, col1), col2))

inverseDD2D_SSE(c) ==
  LET col0 == Shuffle(c, 0)
      col1 == Shuffle(c, 217)
      col2 == Mul(Shuffle(c, 102), <<-1, 1, 1, 1>>)
      col3 == Mul(Shuffle(c, 191), <<-1, 1, 1, 1>>)
  IN  Packed(Sub(Sub(Add(col0, col1), col2), col3))

Groups(c) == [a |-> SubSeq(c, 1, 4), h |-> SubSeq(c, 5, 8), v |-> SubSeq(c, 9, 12),
              d |-> SubSeq(c, 13, 16)]

\* The first pass over the groups, of 1D and of 2D.
FirstPass1D(g) == <<Add(Add(g.a, g.h), g.d), Sub(Sub(g.a, g.h), g.d),
                    Sub(Add(g.h, g.v), g.d), Sub(Add(g.v, g.d), g.h)>>
FirstPass2D(g) == <<Add(Add(Add(g.a, g.h), g.v), g.d), Sub(Add(Sub(g.a, g.h), g.v), g.d),
                    Sub(Sub(Add(g.a, g.h), g.v), g.d), Add(Sub(Sub(g.a, g.h), g.v), g.d)>>

\* The second pass over the transposed rows, and the output.
SecondPass(t) ==
  Packed(Add(Add(Add(t[1], t[2]), t[3]), t[4]) \o Sub(Add(Sub(t[1], t[2]), t[3]), t[4]) \o
         Sub(Sub(Add(t[1], t[2]), t[3]), t[4]) \o Add(Sub(Sub(t[1], t[2]), t[3]), t[4]))

TransposedSSE(row) ==
  LET temp0 == UnpackLo32(row[1], row[2])
      temp1 == UnpackHi32(row[1], row[2])
      temp2 == UnpackLo32(row[3], row[4])
      temp3 == UnpackHi32(row[3], row[4])
  IN  <<UnpackLo64(temp0, temp2), UnpackHi64(temp0, temp2),
        UnpackLo64(temp1, temp3), UnpackHi64(temp1, temp3)>>

inverseDDS1D_SSE(c) == SecondPass(TransposedSSE(FirstPass1D(Groups(c))))
inverseDDS2D_SSE(c) == SecondPass(TransposedSSE(FirstPass2D(Groups(c))))

-----------------------------------------------------------------------------
(* NEON.                                                                   *)

\* vextq_s32(v, v, n), vzip1q_s32(v, v), vtrn1q and vtrn2q of 32 bits.
Ext(v, n) == [i \in 1 .. 4 |-> v[((i + n - 1) % 4) + 1]]
Zip1(v) == <<v[1], v[1], v[2], v[2]>>
Trn1(a, b) == <<a[1], b[1], a[3], b[3]>>
Trn2(a, b) == <<a[2], b[2], a[4], b[4]>>

inverseDD1D_NEON(c) ==
  LET data0 == Mul(Zip1(c), <<1, 1, 1, -1>>)
      data1 == Mul(Zip1(Ext(c, 1)), <<1, -1, -1, 1>>)
      data2 == Mul(Zip1(Ext(c, 2)), <<1, -1, 1, 1>>)
  IN  Packed(Add(data0, Add(data1, data2)))

inverseDD2D_NEON(c) ==
  LET data0 == Mul(c, <<1, -1, -1, 1>>)
      data1 == Mul(Ext(c, 1), <<1, 1, -1, 1>>)
      data2 == Mul(Ext(c, 2), <<1, -1, 1, -1>>)
      data3 == Mul(Ext(c, 3), <<1, 1, 1, -1>>)
  IN  Packed(Add(data0, Add(data1, Add(data2, data3))))

TransposedNEON(row) ==
  LET tempA == Trn1(row[1], row[2])
      tempB == Trn2(row[1], row[2])
      tempC == Trn1(row[3], row[4])
      tempD == Trn2(row[3], row[4])
  IN  <<UnpackLo64(tempA, tempC), UnpackLo64(tempB, tempD),
        UnpackHi64(tempA, tempC), UnpackHi64(tempB, tempD)>>

inverseDDS1D_NEON(c) == SecondPass(TransposedNEON(FirstPass1D(Groups(c))))
inverseDDS2D_NEON(c) == SecondPass(TransposedNEON(FirstPass2D(Groups(c))))

-----------------------------------------------------------------------------
(* transformGetFunction(): by the transform, which the number of           *)
(* coefficients tells, and the scaling.                                    *)

Transformed(simd, scaling, c) ==
  CASE Len(c) = 4 /\ scaling = "1D" ->
         (CASE simd = "none" -> inverseDD1D(c) [] simd = "SSE" -> inverseDD1D_SSE(c)
            [] simd = "NEON" -> inverseDD1D_NEON(c))
    [] Len(c) = 4 /\ scaling # "1D" ->
         (CASE simd = "none" -> inverseDD2D(c) [] simd = "SSE" -> inverseDD2D_SSE(c)
            [] simd = "NEON" -> inverseDD2D_NEON(c))
    [] Len(c) = 16 /\ scaling = "1D" ->
         (CASE simd = "none" -> inverseDDS1D(c) [] simd = "SSE" -> inverseDDS1D_SSE(c)
            [] simd = "NEON" -> inverseDDS1D_NEON(c))
    [] Len(c) = 16 /\ scaling # "1D" ->
         (CASE simd = "none" -> inverseDDS2D(c) [] simd = "SSE" -> inverseDDS2D_SSE(c)
            [] simd = "NEON" -> inverseDDS2D_NEON(c))

DequantTransformed(simd, scaling, d, c) ==
  Transformed(simd, scaling, CASE simd = "none" -> dequantScalar(d, c)
                               [] simd = "SSE"  -> dequantSSE(d, c)
                               [] simd = "NEON" -> dequantNEON(d, c))

-----------------------------------------------------------------------------
\* The residuals of a unit are the same whichever functions the processor
\* allows, and each coefficient is transformed to a pattern of its own: in 2D
\* the patterns are orthogonal, so that transforming twice gives back small
\* coefficients, as many times as there are of them.
TransformsAgree(job) ==
  /\ \A scaling \in {"1D", "2D"}, simd \in {"SSE", "NEON"} :
       /\ Transformed(simd, scaling, job.coeffs) = Transformed("none", scaling, job.coeffs)
       /\ DequantTransformed(simd, scaling, job.dequant, job.coeffs) =
            DequantTransformed("none", scaling, job.dequant, job.coeffs)
  /\ (\A i \in DOMAIN job.coeffs : job.coeffs[i] \in -100 .. 100) =>
       Transformed("none", "2D", Transformed("none", "2D", job.coeffs)) =
         [i \in DOMAIN job.coeffs |-> Len(job.coeffs) * job.coeffs[i]]
=============================================================================
