---------------------------- MODULE LegacySurface ----------------------------
(***************************************************************************)
(* Transforms, command buffers, blits and upscaling of the legacy decoder. *)
(* legacy/decoder/src/decode/transform.c, apply_cmdbuffer_*, surface/blit* *)
(* surface/upscale*.c, enhancement/src/approximate_pa.c                    *)
(*                                                                         *)
(* Most functions do what those of the libraries that superseded them do,  *)
(* which have modules of their own; here they have the legacy names.  What *)
(* differs is written out: residuals of seven bits that are added to U8,   *)
(* the remainder of the blits for NEON, highlighting, tables without NV12, *)
(* and units outside the surface, which end the application of a buffer.   *)
(***************************************************************************)
EXTENDS Upscale

T == INSTANCE Transforms
P == INSTANCE Pixels
F == INSTANCE FixedPoint

-----------------------------------------------------------------------------
(* decode/transform.c                                                      *)

ldlDequantScalar(d, c) == T!dequantScalar(d, c)
ldlDequantSSE(d, c) == T!dequantSSE(d, c)
ldlDequantNEON(d, c) == T!dequantNEON(d, c)
ldlInverseDD1D(c) == T!inverseDD1D(c)
ldlInverseDD2D(c) == T!inverseDD2D(c)
ldlInverseDDS1D(c) == T!inverseDDS1D(c)
ldlInverseDDS2D(c) == T!inverseDDS2D(c)
ldlInverseDD1D_SSE(c) == T!inverseDD1D_SSE(c)
ldlInverseDD2D_SSE(c) == T!inverseDD2D_SSE(c)
ldlInverseDDS1D_SSE(c) == T!inverseDDS1D_SSE(c)
ldlInverseDDS2D_SSE(c) == T!inverseDDS2D_SSE(c)
ldlInverseDD1D_NEON(c) == T!inverseDD1D_NEON(c)
ldlInverseDD2D_NEON(c) == T!inverseDD2D_NEON(c)
ldlInverseDDS1D_NEON(c) == T!inverseDDS1D_NEON(c)
ldlInverseDDS2D_NEON(c) == T!inverseDDS2D_NEON(c)

\* kTable[transform][scaling], of each processor.
transformGetFunction(simd, scaling, c) ==
  CASE simd = "none" -> (CASE Len(c) = 4 /\ scaling = "1D"  -> ldlInverseDD1D(c)
                           [] Len(c) = 4 /\ scaling = "2D"  -> ldlInverseDD2D(c)
                           [] Len(c) = 16 /\ scaling = "1D" -> ldlInverseDDS1D(c)
                           [] Len(c) = 16 /\ scaling = "2D" -> ldlInverseDDS2D(c))
    [] simd = "SSE"  -> (CASE Len(c) = 4 /\ scaling = "1D"  -> ldlInverseDD1D_SSE(c)
                           [] Len(c) = 4 /\ scaling = "2D"  -> ldlInverseDD2D_SSE(c)
                           [] Len(c) = 16 /\ scaling = "1D" -> ldlInverseDDS1D_SSE(c)
                           [] Len(c) = 16 /\ scaling = "2D" -> ldlInverseDDS2D_SSE(c))
    [] simd = "NEON" -> (CASE Len(c) = 4 /\ scaling = "1D"  -> ldlInverseDD1D_NEON(c)
                           [] Len(c) = 4 /\ scaling = "2D"  -> ldlInverseDD2D_NEON(c)
                           [] Len(c) = 16 /\ scaling = "1D" -> ldlInverseDDS1D_NEON(c)
                           [] Len(c) = 16 /\ scaling = "2D" -> ldlInverseDDS2D_NEON(c))

dequantTransformGetFunction(simd, scaling, d, c) ==
  transformGetFunction(simd, scaling, CASE simd = "none" -> ldlDequantScalar(d, c)
                                        [] simd = "SSE"  -> ldlDequantSSE(d, c)
                                        [] simd = "NEON" -> ldlDequantNEON(d, c))

\* The legacy decoder makes the residuals of the enhancement library.
LegacyTransforms(job) ==
  \A scaling \in {"1D", "2D"}, simd \in {"none", "SSE", "NEON"} :
     /\ transformGetFunction(simd, scaling, job.coeffs) = T!Transformed("none", scaling, job.coeffs)
     /\ dequantTransformGetFunction(simd, scaling, job.dequant, job.coeffs) =
          T!DequantTransformed("none", scaling, job.dequant, job.coeffs)

-----------------------------------------------------------------------------
(* decode/apply_cmdbuffer_*                                                *)

ldlAdd(fp, pel, residual) == P!AddedScalar(fp, pel, residual)
ldlAddSSE(fp, pel, residual) == P!AddedSSE(fp, pel, residual)
ldlAddNEON(fp, pel, residual) == P!AddedNEON(fp, pel, residual)
ldlLoadResidualsSSE(residuals) == P!ResidualRowsSSE(residuals)
ldlLoadResidualsNEON(residuals) == P!ResidualRowsNEON(residuals)
ldlClear(width, height, x, y) == P!ClearedScalar(width, height, x, y)
ldlClearVector(width, height, x, y) == P!ClearedVector(width, height, x, y)

\* clearBlock() of decode_serial.c, for a patch that may reach over the surface.
clearBlock(s, x, y, patchWidth, patchHeight) ==
  {<<x + i, j>> : i \in 0 .. P!Least(patchWidth, s.width - x) - 1,
                  j \in y .. P!Least(y + patchHeight, s.height) - 1}

\* The highlight of the caller is an unsigned and a signed value.
Highlight(fp, valUnsigned, valSigned) == IF fp \in F!Unsigned THEN valUnsigned ELSE valSigned

\* Only additions are highlighted.
getApplyFunction(command, highlight) ==
  CASE command = "CBCAdd"     -> IF highlight THEN "highlight" ELSE "add"
    [] command = "CBCSet"     -> "set"
    [] command = "CBCSetZero" -> "setZero"
    [] command = "CBCClear"   -> "clear"

\* The pels of a unit after a command, with highlight h, which may be absent.
ldlApplied(simd, command, h, fp, pels, residuals) ==
  LET n        == P!UnitWidth(pels)
      rows     == CASE simd = "SSE"  -> ldlLoadResidualsSSE(residuals)
                    [] simd = "NEON" -> ldlLoadResidualsNEON(residuals)
                    [] simd = "none" -> [r \in 1 .. n |-> SubSeq(residuals, n * (r - 1) + 1, n * r)]
      at(i)    == rows[((i - 1) \div n) + 1][((i - 1) % n) + 1]
      function == getApplyFunction(command, h.enabled)
  IN  [i \in DOMAIN pels |->
         CASE function = "highlight" -> Highlight(fp, h.valUnsigned, h.valSigned)
           [] function = "add"       -> (CASE simd = "none" -> ldlAdd(fp, pels[i], at(i))
                                           [] simd = "SSE"  -> ldlAddSSE(fp, pels[i], at(i))
                                           [] simd = "NEON" -> ldlAddNEON(fp, pels[i], at(i)))
           [] function = "set"       -> at(i)
           [] function = "setZero"   -> 0]

\* A command has the same effect whichever functions the processor allows, and
\* without highlight the effect it has in the other library.
LegacyCommands(job) ==
  \A simd \in {"none", "SSE", "NEON"}, enabled \in BOOLEAN,
     command \in {"CBCAdd"} \cup (IF job.fp \in F!Unsigned THEN {} ELSE {"CBCSet", "CBCSetZero"}) :
    LET h   == [enabled |-> enabled, valUnsigned |-> 255, valSigned |-> F!Promoted("U8", 255)]
        out == ldlApplied(simd, command, h, job.fp, job.pels, job.residuals)
    IN  /\ out = ldlApplied("none", command, h, job.fp, job.pels, job.residuals)
        /\ ~(enabled /\ command = "CBCAdd") =>
             out = P!Applied("none", CASE command = "CBCAdd" -> "CBCCAdd" [] command = "CBCSet" -> "CBCCSet"
                                       [] command = "CBCSetZero" -> "CBCCSetZero",
                             FALSE, job.fp, job.pels, job.residuals)
LegacyClears(job) ==
  /\ ldlClear(job.width, job.height, job.x, job.y) = ldlClearVector(job.width, job.height, job.x, job.y)
  /\ clearBlock(job, job.x, job.y, P!BlockSize, P!BlockSize) = ldlClear(job.width, job.height, job.x, job.y)

-----------------------------------------------------------------------------
(* decode/decode_serial.c: residuals that go to a surface at once.  Its    *)
(* pels lie at addresses; s has its format, the pels of its channels from  *)
(* one place to the next (skip), those of a row (stride), and the channel. *)

PelAddress(s, x, y) == s.offset + x * s.skip + y * s.stride

\* Where the residuals of a unit lie in it, in the order of the layers.
ResidualPlaces(dds) ==
  LET quad(x, y) == <<<<x, y>>, <<x + 1, y>>, <<x, y + 1>>, <<x + 1, y + 1>>>>
  IN  IF dds THEN quad(0, 0) \o quad(2, 0) \o quad(0, 2) \o quad(2, 2) ELSE quad(0, 0)

\* The data after the pel of each residual k of the unit at x, y has become value(pel, k).
OverUnit(s, x, y, dds, value(_, _)) ==
  LET places == ResidualPlaces(dds)
      hits(i) == {k \in DOMAIN places : PelAddress(s, x + places[k][1], y + places[k][2]) = i}
  IN  [i \in DOMAIN s.data |-> IF hits(i) = {} THEN s.data[i]
                               ELSE value(s.data[i], CHOOSE k \in hits(i) : TRUE)]

addResidualsUnsigned(s, x, y, residuals) ==
  OverUnit(s, x, y, Len(residuals) = 16,
           LAMBDA pel, k : F!Demoted(s.fp, F!Promoted(s.fp, pel) + residuals[k]))
addResidualsS16(s, x, y, residuals) ==
  OverUnit(s, x, y, Len(residuals) = 16, LAMBDA pel, k : F!Saturate(F!RangeS16, pel + residuals[k]))
writeResidualsS16(s, x, y, residuals) ==
  OverUnit(s, x, y, Len(residuals) = 16, LAMBDA pel, k : residuals[k])
writeHighlight(s, x, y, residuals) ==
  OverUnit(s, x, y, Len(residuals) = 16,
           LAMBDA pel, k : Highlight(s.fp, s.highlight.valUnsigned, s.highlight.valSigned))

\* kResidualFunctionTable: unsigned pels cannot be set.
getResidualFunction(mode, fp) ==
  CASE mode = "RM_Add"       -> IF fp \in F!Unsigned THEN "addUnsigned" ELSE "addS16"
    [] mode = "RM_Write"     -> IF fp \in F!Unsigned THEN "NULL" ELSE "writeS16"
    [] mode = "RM_Highlight" -> "highlight"

\* What applyResidualJob() calls for a unit of a signal.
ResidualWritten(s, x, y, signal, residuals) ==
  LET mode == IF signal = "TSIntra" THEN "RM_Write"
              ELSE IF s.highlight.enabled THEN "RM_Highlight" ELSE "RM_Add"
      function == getResidualFunction(mode, s.fp)
  IN  CASE function = "addUnsigned" -> addResidualsUnsigned(s, x, y, residuals)
        [] function = "addS16"      -> addResidualsS16(s, x, y, residuals)
        [] function = "writeS16"    -> writeResidualsS16(s, x, y, residuals)
        [] function = "highlight"   -> writeHighlight(s, x, y, residuals)

\* convertDD_S87_S8(), convertDDS_S87_S8(): the high byte, to a surface of its own.
convertS87_S8(from, to, x, y, dds) ==
  LET places == ResidualPlaces(dds)
      source(k) == from.data[PelAddress(from, x + places[k][1], y + places[k][2])]
  IN  OverUnit(to, x, y, dds, LAMBDA pel, k : (source(k) \div 256) % 256)

\* A unit that residuals go to at once becomes what their command would make of
\* it, in its channel and nowhere else; and converted, its copy is its high bytes.
LegacyDirect(job) ==
  LET n        == P!UnitWidth(job.pels)
      dds      == n = 4
      s(h)     == [fp |-> job.fp, skip |-> 2, stride |-> 4 * n, offset |-> 1, highlight |-> h,
                   data |-> [i \in 0 .. 4 * n * (2 * n) - 1 |-> job.pels[(i % Len(job.pels)) + 1]]]
      place(i) == <<n + ((i - 1) % n), n + ((i - 1) \div n)>>
      at(i)    == PelAddress(s([enabled |-> FALSE]), place(i)[1], place(i)[2])
      unit(d)  == [i \in DOMAIN job.pels |-> d[at(i)]]
      outside(d) == [i \in DOMAIN d \ {at(k) : k \in DOMAIN job.pels} |-> d[i]]
      small    == [skip |-> 1, stride |-> 2 * n, offset |-> 0, data |-> [i \in 0 .. 4 * n * n - 1 |-> 7]]
  IN  \A enabled \in BOOLEAN, signal \in {"TSInter"} \cup (IF job.fp \in F!Unsigned THEN {} ELSE {"TSIntra"}) :
        LET h      == [enabled |-> enabled, valUnsigned |-> 255, valSigned |-> 16256]
            before == s(h)
        IN  \E after \in {ResidualWritten(before, n, n, signal, job.residuals)} :
              /\ unit(after) = ldlApplied("none", IF signal = "TSIntra" THEN "CBCSet" ELSE "CBCAdd", h, job.fp,
                                          unit(before.data), F!StoredResiduals(job.residuals))
              /\ outside(after) = outside(before.data)
              /\ job.fp = "S8" =>
                   \E copy \in {convertS87_S8([before EXCEPT !.data = after], small, n, n, dds)} :
                     \A i \in 0 .. Len(job.pels) - 1 :
                       LET pel == copy[PelAddress(small, n + (i % n), n + (i \div n))]
                       IN  IF pel < 128 THEN pel = unit(after)[i + 1] \div 256
                           ELSE pel - 256 = unit(after)[i + 1] \div 256

-----------------------------------------------------------------------------
(* surface/blit*.c                                                         *)

ldlAddPel(fp, dst, src) == P!BlitAdd(fp, dst, src)
ldlAddPelSSE(fp, dst, src) == P!BlitAddVector(fp, dst, src)
ldlAddPelNEON(fp, dst, src) == P!BlitAddVector(fp, dst, src)
ldlCopyPel(src, dst, v) == P!CopyScalar(src, dst, v)
ldlCopyPelSSE(src, dst, v) == P!CopyVector(src, dst, v)
ldlCopyRemainderSSE(src, dst, v) == P!CopyRemainder(src, dst, v)

\* A source called U8 that is added to U8 has residuals of seven bits and a sign.
Signed8(v) == IF v < 128 THEN v ELSE v - 256
addS7ToU8(dst, src) == F!Demoted("U8", F!Promoted("U8", dst) + Signed8(src) * 256)

\* The vector functions saturate before and after rounding.
addS7_U8_SSE(dst, src) ==
  LET sum == F!Saturate(F!RangeS16, F!UpVector("U8", dst) + Signed8(src) * 256)
  IN  F!DownVector("U8", F!Saturate(F!RangeS16, sum + 64))
ldlAddS7_U8_NEON(dst, src) == addS7_U8_SSE(dst, src)

\* For NEON there are additions only; SSE copies nothing of the same format.
surfaceBlitGetFunctionScalar(src, dst, blending) ==
  CASE blending = "BMAdd" /\ src = "U8" /\ dst = "U8" -> "addS7"
    [] blending = "BMAdd" /\ ~(src = "U8" /\ dst = "U8") ->
         IF src # F!HighPrecision(dst) THEN "NULL" ELSE "add"
    [] blending = "BMCopy" -> IF src = dst \/ {src, dst} \subseteq P!Signed THEN "copyIdentity"
                              ELSE IF \/ P!Promotes(src, dst) \/ P!Demotes(src, dst)
                                      \/ P!ToSigned(src, dst) \/ P!ToUnsigned(src, dst)
                              THEN "copy" ELSE "NULL"
surfaceBlitGetFunctionSSE(src, dst, blending) ==
  CASE blending = "BMAdd" -> IF src = "U8" /\ dst = "U8" THEN "addS7" ELSE "add"
    [] blending = "BMCopy" ->
         IF \/ P!Promotes(src, dst) /\ src = "U8"
            \/ P!Demotes(src, dst) \/ P!ToSigned(src, dst) \/ P!ToUnsigned(src, dst)
         THEN "copy" ELSE "NULL"
surfaceBlitGetFunctionNEON(src, dst, blending) ==
  CASE blending = "BMAdd"  -> IF src = "U8" /\ dst = "U8" THEN "addS7" ELSE "add"
    [] blending = "BMCopy" -> "NULL"

\* The function and whether it is a vector function.
surfaceBlitGetFunction(simd, src, dst, blending) ==
  LET vector == CASE simd = "SSE"  -> surfaceBlitGetFunctionSSE(src, dst, blending)
                  [] simd = "NEON" -> surfaceBlitGetFunctionNEON(src, dst, blending)
                  [] OTHER         -> "NULL"
  IN  IF vector # "NULL" THEN [name |-> vector, simd |-> simd]
      ELSE [name |-> surfaceBlitGetFunctionScalar(src, dst, blending), simd |-> "none"]

\* A row of the surface, which has as many pels in src as in dst, and a stride
\* that an identical copy copies whole.
ldlBlitSlicedJob(simd, job) ==
  LET function == surfaceBlitGetFunction(simd, job.src, job.dst, job.blending)
      middle(x) == function.simd # "none" /\ x <= P!SimdAlignment(job.width)
      pel(x, d, s) ==
        CASE function.name = "addS7" -> (IF ~middle(x) THEN addS7ToU8(d, s)
                                         ELSE IF simd = "SSE" THEN addS7_U8_SSE(d, s)
                                         ELSE ldlAddS7_U8_NEON(d, s))
          [] function.name = "add"   -> (IF ~middle(x) THEN ldlAddPel(job.dst, d, s)
                                         ELSE IF simd = "SSE" THEN ldlAddPelSSE(job.dst, d, s)
                                         ELSE ldlAddPelNEON(job.dst, d, s))
          [] function.name = "copy"  -> (IF function.simd = "none" THEN ldlCopyPel(job.src, job.dst, s)
                                         ELSE IF middle(x) THEN ldlCopyPelSSE(job.src, job.dst, s)
                                         ELSE ldlCopyRemainderSSE(job.src, job.dst, s))
          [] function.name = "copyIdentity" -> s
  IN  [x \in DOMAIN job.dstRow |->
         IF x <= job.width \/ function.name = "copyIdentity" THEN pel(x, job.dstRow[x], job.srcRow[x]) ELSE job.dstRow[x]]

\* A plane can be blitted, and comes out the same, whichever functions the
\* processor allows; residuals of seven bits do what those of sixteen that they
\* stand for do.
LegacyBlits(job) ==
  LET scalar == surfaceBlitGetFunctionScalar(job.src, job.dst, job.blending)
  IN  /\ scalar # "NULL" =>
           \A simd \in {"SSE", "NEON"} : ldlBlitSlicedJob(simd, job) = ldlBlitSlicedJob("none", job)
      /\ scalar = "addS7" =>
           ldlBlitSlicedJob("none", job) =
             P!PlaneBlit("none", [job EXCEPT !.src = "S8",
                                             !.srcRow = [x \in DOMAIN job.srcRow |->
                                                           Signed8(job.srcRow[x]) * 256]])

-----------------------------------------------------------------------------
(* surface/upscale*.c: pels are promoted to more bits while they are       *)
(* upscaled, and predicted average can be baked into the kernel.           *)
(* Functions that differ only in their register widths are told apart by   *)
(* what they saturate; dithering is left out.  A job has dst, the format   *)
(* that is made, beside fp.                                                *)


\* The pels that the taps meet at x, and one more, by each set of functions.
ldlGetPels(row, size, kernel, i) == GetPels(row, size, kernel, i)
ldlLoadPelsSSE(row, kernel, i) == LoadPels(row, kernel, i)
ldlLoadPelsNEON(row, kernel, i) == LoadPels(row, kernel, i)
ldlColumnSSE(column, size, kernel, y) ==
  [n \in 1 .. Len(kernel.fwd) + 1 |-> VerticalPelSSE(column, size, y - Len(kernel.fwd) \div 2 + n - 1)]
ldlColumnNEON(column, size, kernel, y) ==
  [n \in 1 .. Len(kernel.fwd) + 1 |-> VerticalPelNEON(column, size, y - Len(kernel.fwd) \div 2 + n - 1)]

ldlHorizontalU8(a) == HorizontalScalar(a, RangeU8)
ldlHorizontalS16(a) == HorizontalScalar(a, RangeS16)
ldlHorizontalU16(a, maxValue) == HorizontalScalar(a, RangeUN(maxValue))

ldlHorizontalConvolveU8SSE(a) ==
  [r \in 1 .. 2 |-> Both(RangeS16, Phases(a.kernel.fwd, KernelRev(a.kernel),
                                          ldlLoadPelsSSE(a.rows[r], a.kernel, a.x)))]
ldlHorizontalConvolveN16SSE(a) ==
  LET v == ldlHorizontalConvolveU8SSE(a) IN [r \in 1 .. 2 |-> Both(RangeS15, v[r])]
ldlHorizontalConvolveU8NEON(a) ==
  [r \in 1 .. 2 |-> Both(RangeS16, Phases(a.kernel.fwd, a.kernel.rev,
                                          ldlLoadPelsNEON(a.rows[r], a.kernel, a.x)))]
ldlHorizontalConvolveN16NEON(a) ==
  LET v == ldlHorizontalConvolveU8NEON(a) IN [r \in 1 .. 2 |-> Both(RangeS15, v[r])]
ldlApplyPASSE(a, v, precise, range) ==
  IF precise THEN ApplyPAPrecision(a, v, range) ELSE ApplyPASpeed(a, v, "SSE", range)
ldlApplyPANEON(a, v, precise, range) ==
  IF precise THEN ApplyPAPrecision(a, v, range) ELSE ApplyPASpeed(a, v, "NEON", range)

ldlHorizontalU8PlanarSSE(a) == ldlApplyPASSE(a, ldlHorizontalConvolveU8SSE(a), FALSE, RangeU8)
ldlHorizontalS16PlanarSSE(a) == ldlApplyPASSE(a, ldlHorizontalConvolveN16SSE(a), TRUE, RangeS16)
ldlHorizontalU16PlanarSSE(a, maxValue, is14Bit) ==
  ldlApplyPASSE(a, ldlHorizontalConvolveN16SSE(a), is14Bit /\ a.pa = "2D", RangeUN(maxValue))
ldlHorizontalU8NV12SSE(a) == ldlApplyPASSE(a, ldlHorizontalConvolveU8SSE(a), FALSE, RangeU8)

ldlHorizontalU8PlanarNEON(a) == ldlApplyPANEON(a, ldlHorizontalConvolveU8NEON(a), FALSE, RangeU8)
ldlHorizontalS16PlanarNEON(a) == ldlApplyPANEON(a, ldlHorizontalConvolveN16NEON(a), TRUE, RangeS16)
ldlHorizontalU16PlanarNEON(a, maxValue, is14Bit) ==
  ldlApplyPANEON(a, ldlHorizontalConvolveN16NEON(a), is14Bit /\ a.pa = "2D", RangeUN(maxValue))
ldlHorizontalU8NV12NEON(a) == ldlApplyPANEON(a, ldlHorizontalConvolveU8NEON(a), FALSE, RangeU8)
ldlHorizontalU8RGBNEON(a) == ldlApplyPANEON(a, ldlHorizontalConvolveU8NEON(a), FALSE, RangeU8)
ldlHorizontalU8RGBANEON(a) == ldlApplyPANEON(a, ldlHorizontalConvolveU8NEON(a), FALSE, RangeU8)

ldlVerticalU8(kernel, window) == Both(RangeU8, Phases(kernel.fwd, kernel.rev, window))
ldlVerticalS16(kernel, window) == Both(RangeS15, Phases(kernel.fwd, kernel.rev, window))
ldlVerticalU16(kernel, window, maxValue) ==
  Both(RangeUN(maxValue), Phases(kernel.fwd, kernel.rev, window))

ldlVerticalConvolveS16SSE(kernel, window) ==
  Both(RangeS15, Phases(kernel.fwd, KernelRev(kernel), window))
ldlVerticalConvolveU8SSE(kernel, window) == Both(RangeU8, ldlVerticalConvolveS16SSE(kernel, window))
ldlVerticalConvolveU16SSE(kernel, window) ==
  Both(RangeUN(65535), Phases(kernel.fwd, KernelRev(kernel), window))
ldlVerticalU8SSE(kernel, window) == ldlVerticalConvolveU8SSE(kernel, window)
ldlVerticalS16SSE(kernel, window) == ldlVerticalConvolveS16SSE(kernel, window)
ldlVerticalU16SSE(kernel, window, maxValue) ==
  Both(RangeUN(maxValue), ldlVerticalConvolveU16SSE(kernel, window))

ldlVerticalConvolveNEON(kernel, window, range) ==
  Both(range, Phases(kernel.fwd, kernel.rev, window))
ldlVerticalU8NEON(kernel, window) ==
  Both(RangeU8, ldlVerticalConvolveNEON(kernel, window, RangeS16))
ldlVerticalS16NEON(kernel, window) ==
  Both(RangeS15, ldlVerticalConvolveNEON(kernel, window, RangeS16))
ldlVerticalU16NEON(kernel, window, maxValue) ==
  Both(RangeUN(maxValue), ldlVerticalConvolveNEON(kernel, window, RangeUN(65535)))

-----------------------------------------------------------------------------
(* Promotion, as in the other library.                                     *)

ldlGetPelsUN(row, shift) == GetPelsUN(row, shift)
ldlHorizontalU8ToU16BaseUN(a, inShift, baseShift, maxValue) ==
  HorizontalU8ToU16BaseUN(a, inShift, baseShift, maxValue)
ldlVerticalUNToU16(kernel, window, inShift, maxValue) ==
  VerticalUNToU16(kernel, window, inShift, maxValue)

-----------------------------------------------------------------------------
(* Which function is used; base is "FPCount" without predicted average.    *)

ldlPromotion(src, dst, base) == Promotion(src, dst, base)
ldlUpscaleGetHorizontalFunction(src, dst, base) == UpscaleGetHorizontalFunction(src, dst, base)
ldlUpscaleGetVerticalFunction(src, dst) == UpscaleGetVerticalFunction(src, dst)

\* The vector units have no function that converts.
ldlUpscaleGetHorizontalFunctionSSE(channels, src, dst, base) ==
  IF src # dst \/ base \notin {dst, "FPCount"} \/ ~HasVectorFunction("SSE", src, channels)
  THEN "NULL" ELSE "vector"
ldlUpscaleGetHorizontalFunctionNEON(channels, src, dst, base) ==
  IF src # dst \/ base \notin {dst, "FPCount"} \/ ~HasVectorFunction("NEON", src, channels)
  THEN "NULL" ELSE "vector"
ldlUpscaleGetVerticalFunctionSSE(src, dst) == IF src = dst THEN "vector" ELSE "NULL"
ldlUpscaleGetVerticalFunctionNEON(src, dst) == IF src = dst THEN "vector" ELSE "NULL"

ldlGetHorizontalFunction(simd, channels, src, dst, base) ==
  LET vector == CASE simd = "SSE"  -> ldlUpscaleGetHorizontalFunctionSSE(channels, src, dst, base)
                  [] simd = "NEON" -> ldlUpscaleGetHorizontalFunctionNEON(channels, src, dst, base)
                  [] OTHER         -> "NULL"
  IN  IF vector # "NULL" THEN vector ELSE ldlUpscaleGetHorizontalFunction(src, dst, base)

ldlGetVerticalFunction(simd, src, dst) ==
  LET vector == CASE simd = "SSE"  -> ldlUpscaleGetVerticalFunctionSSE(src, dst)
                  [] simd = "NEON" -> ldlUpscaleGetVerticalFunctionNEON(src, dst)
                  [] OTHER         -> "NULL"
  IN  IF vector # "NULL" THEN vector ELSE ldlUpscaleGetVerticalFunction(src, dst)

-----------------------------------------------------------------------------
(* The tables, and the job: vertically from src to dst, then horizontally. *)

kHorizontalFuncTableUnsigned(fp, a) ==
  IF fp = "U8" THEN ldlHorizontalU8(a) ELSE ldlHorizontalU16(a, MaxValue(fp))

kHorizontalFunctionTableSSE(fp, channels, a) ==
  CASE fp = "S16"                  -> ldlHorizontalS16PlanarSSE(a)
    [] fp = "U8" /\ channels = 1   -> ldlHorizontalU8PlanarSSE(a)
    [] fp = "U8" /\ channels = 2   -> ldlHorizontalU8NV12SSE(a)
    [] OTHER                       -> ldlHorizontalU16PlanarSSE(a, MaxValue(fp), fp = "U14")
kHorizontalFunctionTableNEON(fp, channels, a) ==
  CASE fp = "S16"                  -> ldlHorizontalS16PlanarNEON(a)
    [] fp = "U8" /\ channels = 1   -> ldlHorizontalU8PlanarNEON(a)
    [] fp = "U8" /\ channels = 2   -> ldlHorizontalU8NV12NEON(a)
    [] fp = "U8" /\ channels = 3   -> ldlHorizontalU8RGBNEON(a)
    [] fp = "U8" /\ channels = 4   -> ldlHorizontalU8RGBANEON(a)
    [] OTHER                       -> ldlHorizontalU16PlanarNEON(a, MaxValue(fp), fp = "U14")

kVerticalFunctionTable(fp, kernel, window) ==
  CASE fp = "S16" -> ldlVerticalS16(kernel, window)
    [] fp = "U8"  -> ldlVerticalU8(kernel, window)
    [] OTHER      -> ldlVerticalU16(kernel, window, MaxValue(fp))
kVerticalFunctionTableSSE(fp, kernel, window) ==
  CASE fp = "S16" -> ldlVerticalS16SSE(kernel, window)
    [] fp = "U8"  -> ldlVerticalU8SSE(kernel, window)
    [] OTHER      -> ldlVerticalU16SSE(kernel, window, MaxValue(fp))
kVerticalFunctionTableNEON(fp, kernel, window) ==
  CASE fp = "S16" -> ldlVerticalS16NEON(kernel, window)
    [] fp = "U8"  -> ldlVerticalU8NEON(kernel, window)
    [] OTHER      -> ldlVerticalU16NEON(kernel, window, MaxValue(fp))

HorizontalFunctionOf(simd, job) ==
  ldlGetHorizontalFunction(simd, job.channels, IF job.is2D THEN job.dst ELSE job.fp, job.dst,
                           IF job.pa = "none" THEN "FPCount" ELSE job.fp)
VerticalFunctionOf(simd, job) == ldlGetVerticalFunction(simd, job.fp, job.dst)

\* Whole groups of 16 columns by the vector functions, the rest by the others.
ldlVerticalAt(simd, job, x, y) ==
  LET function == VerticalFunctionOf(simd, job)
      column   == [i \in 0 .. job.height - 1 |-> job.rows[i][x]]
      window   == ldlGetPels(column, job.height, job.kernel, y)
  IN  CASE function = "promoting" ->
             ldlVerticalUNToU16(job.kernel, window, PromotionShift(job.fp, job.dst), MaxValue(job.dst))
        [] function = "same" \/ (function = "vector" /\ x >= job.width - (job.width % 16)) ->
             kVerticalFunctionTable(job.fp, job.kernel, window)
        [] function = "vector" /\ x < job.width - (job.width % 16) /\ simd = "SSE" ->
             kVerticalFunctionTableSSE(job.fp, job.kernel,
                                       ldlColumnSSE(column, job.height, job.kernel, y))
        [] OTHER ->
             kVerticalFunctionTableNEON(job.fp, job.kernel,
                                        ldlColumnNEON(column, job.height, job.kernel, y))

\* The middle by the vector functions, the edges by the others.
ldlHorizontalAt(simd, job, rows, base, x) ==
  LET function == HorizontalFunctionOf(simd, job)
      from     == IF job.is2D THEN job.dst ELSE job.fp
      a == [kernel |-> job.kernel, pa |-> job.pa, rows |-> rows, width |-> job.width,
            base |-> base, x |-> x]
      coords == HorizontalGetCoords(job.width, Len(job.kernel.fwd), LoadAlignment(job.channels))
      middle == function = "vector" /\ x \in coords.start .. coords.end - 1
  IN  CASE function = "promoting" ->
             ldlHorizontalU8ToU16BaseUN(a, PromotionShift(from, job.dst),
                                        IF job.pa = "none" THEN 0 ELSE PromotionShift(job.fp, job.dst),
                                        MaxValue(job.dst))
        [] function # "promoting" /\ ~middle ->
             IF IsUnsigned(from) THEN kHorizontalFuncTableUnsigned(from, a) ELSE ldlHorizontalS16(a)
        [] middle /\ simd = "SSE"  -> kHorizontalFunctionTableSSE(from, job.channels, a)
        [] middle /\ simd = "NEON" -> kHorizontalFunctionTableNEON(from, job.channels, a)

ldlVerticalTask(simd, job, y) ==
  LET at == [x \in 0 .. job.width - 1 |-> ldlVerticalAt(simd, job, x, y)]
  IN  <<[x \in 0 .. job.width - 1 |-> at[x][1]], [x \in 0 .. job.width - 1 |-> at[x][2]]>>

ldlUpscaleSlicedJob(simd, job, y) ==
  LET pair == IF job.is2D THEN ldlVerticalTask(simd, job, y) ELSE RowPair(simd, job, y)
  IN  [x \in 0 .. job.width - 1 |-> ldlHorizontalAt(simd, job, pair, BaseAt(job, pair, y, x), x)]

\* What upscale() refuses, of a job whose kernel it has.
upscaleAccepts(job) ==
  /\ Len(job.kernel.fwd) % 2 = 0 /\ Len(job.kernel.fwd) <= 8
  /\ IsUnsigned(job.fp) <=> IsUnsigned(job.dst)
  /\ IsUnsigned(job.fp) => PromotionShift(job.fp, job.dst) >= 0

-----------------------------------------------------------------------------
(* Baking predicted average into a kernel.                                 *)

\* Division of C, which drops the fraction.
Halved(v) == IF v < 0 THEN -(-v \div 2) ELSE v \div 2

Baked(half) == [fwd |-> <<-half, 16384, half, 0>>, rev |-> <<0, half, 16384, -half>>, baked |-> TRUE]
Unbakeable == [fwd |-> <<>>, rev |-> <<>>, baked |-> FALSE]

preBakePA4Tap(kernel) ==
  IF Len(kernel.fwd) = 4 /\ kernel.rev = Reverse(kernel.fwd)
  THEN Baked(Wrap16(Halved(kernel.fwd[3] - kernel.fwd[1]))) ELSE Unbakeable
Padded(coeffs) == <<0, coeffs[1], coeffs[2], 0>>
preBakePA2TapZeroPad(kernel) ==
  IF Len(kernel.fwd) = 2
  THEN preBakePA4Tap([fwd |-> Padded(kernel.fwd), rev |-> Padded(kernel.rev)]) ELSE Unbakeable
preBakePAIdentity(kernel) == [kernel EXCEPT !.baked = TRUE]

\* kKernelInfos, and the kernel of the stream as the adaptive one.
UpscaleTypes == {"nearest", "linear", "cubic", "modifiedCubic", "adaptiveCubic", "lanczos",
                 "cubicPrediction", "mishus"}
KernelOf(type, adaptive) ==
  LET of(n) == [fwd |-> n, rev |-> Reverse(n), baked |-> type \in {"cubicPrediction", "mishus"}]
  IN  CASE type = "nearest"         -> of(<<16384, 0>>)
        [] type = "linear"          -> of(<<12288, 4096>>)
        [] type = "cubic"           -> of(<<-1382, 14285, 3942, -461>>)
        [] type = "modifiedCubic"   -> of(<<-2360, 15855, 4165, -1276>>)
        [] type = "adaptiveCubic"   -> of(adaptive)
        [] type = "lanczos"         -> of(<<493, -2183, 14627, 4440, -1114, 121>>)
        [] type = "cubicPrediction" -> of(<<231, -2662, 16384, 2662, -231, 0>>)
        [] type = "mishus"          -> of(<<-2048, 16384, 2048, 0>>)

preBakePA(type, kernel) ==
  CASE kernel.baked                     -> kernel
    [] ~kernel.baked /\ type = "linear" -> preBakePA2TapZeroPad(kernel)
    [] ~kernel.baked /\ type = "nearest" -> preBakePAIdentity(kernel)
    [] ~kernel.baked /\ type \in {"cubic", "modifiedCubic", "adaptiveCubic"} -> preBakePA4Tap(kernel)
    [] OTHER -> Unbakeable

\* s has type, adaptive, useApproximatePA and usePredictedAverage.
upscaleGetKernel(s) ==
  LET raw == KernelOf(s.type, s.adaptive)
  IN  IF s.useApproximatePA /\ s.usePredictedAverage THEN preBakePA(s.type, raw) ELSE raw
upscaleHasKernel(s) == upscaleGetKernel(s) # Unbakeable
upscalePAIsEnabled(s) ==
  s.usePredictedAverage /\ ~(upscaleHasKernel(s) /\ upscaleGetKernel(s).baked)

\* In the enhancement library the kernels of the other types are left as they are.
ldeApproximatePA(s) ==
  LET raw == KernelOf(s.type, s.adaptive)
  IN  IF ~s.usePredictedAverage THEN raw
      ELSE CASE s.type = "linear" -> preBakePA2TapZeroPad(raw)
             [] s.type \in {"cubic", "modifiedCubic", "adaptiveCubic"} -> preBakePA4Tap(raw)
             [] OTHER -> raw

-----------------------------------------------------------------------------
\* The mean of both phases is the pel they come from: what predicted average does.
KeepsAverage(kernel) ==
  LET n == Len(kernel.fwd)
  IN  \A i \in 1 .. n + 1 :
         (IF i <= n THEN kernel.rev[i] ELSE 0) + (IF i > 1 THEN kernel.fwd[i - 1] ELSE 0) =
           IF i = (n \div 2) + 1 THEN 2 * 16384 ELSE 0

\* Predicted average is had once: from the kernel or from the functions, whether
\* or not it is approximated; approximating again changes nothing; and both
\* decoders take the same kernel where they approximate.
AveragesOnce(s) ==
  /\ upscaleHasKernel(s) /\ s.usePredictedAverage =>
       IF upscalePAIsEnabled(s) THEN ~upscaleGetKernel(s).baked ELSE KeepsAverage(upscaleGetKernel(s))
  /\ ldeApproximatePA(s).baked => KeepsAverage(ldeApproximatePA(s))
  /\ s.useApproximatePA /\ upscaleHasKernel(s) /\ s.type # "nearest" =>
       ldeApproximatePA(s) = upscaleGetKernel(s)
  /\ LET baked == ldeApproximatePA(s)
     IN  s.usePredictedAverage /\ Len(baked.fwd) = 4 =>
           preBakePA4Tap(baked) = baked

\* An accepted job finds its functions, whatever the processor allows, and makes
\* the picture that the other library makes of the promoted pels.
LegacyUpscales(job) ==
  upscaleAccepts(job) =>
    LET shift    == IF IsUnsigned(job.fp) THEN PromotionShift(job.fp, job.dst) ELSE 0
        promoted == [job EXCEPT !.fp = job.dst,
                                !.rows = [y \in DOMAIN job.rows |-> ldlGetPelsUN(job.rows[y], shift)]]
    IN  \A simd \in {"none", "SSE", "NEON"} :
          /\ HorizontalFunctionOf(simd, job) # "NULL"
          /\ job.is2D => VerticalFunctionOf(simd, job) # "NULL"
          /\ \A y \in PairStarts(job) :
               ldlUpscaleSlicedJob(simd, job, y) = UpscaledPair("none", promoted, y)
=============================================================================
