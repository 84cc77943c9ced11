------------------------------- MODULE Upscale -------------------------------
(***************************************************************************)
(* Upscaling of one plane by two, in one direction or both, with predicted *)
(* average (PA): the scalar functions, and those for SSE and NEON, which   *)
(* work on eight pels at a time in 16 bits and leave the edges to the      *)
(* scalar ones.  pixel_processing/src/upscale*.c                           *)
(*                                                                         *)
(* Interleaved channels are upscaled as planes of their own; dithering,    *)
(* which is random, is left out.  Promotion to more bits has its functions *)
(* but upscaleExecute() never asks for it: it takes the format of the      *)
(* destination from the source.  Rows and columns are numbered from 0.     *)
(***************************************************************************)
EXTENDS FixedPoint, SequencesExt

\* What lies beside a row in memory: no pel of the pictures that are checked.
Stray == 77

\* Both phases saturated.
Both(range, phases) == <<Saturate(range, phases[1]), Saturate(range, phases[2])>>

\* The sum over the taps from pel number first of a window of pels.
Convolved(coeffs, window, first) ==
  LET sum[n \in 0 .. Len(coeffs)] ==
        IF n = 0 THEN 0 ELSE sum[n - 1] + coeffs[n] * window[first + n - 1]
  IN  sum[Len(coeffs)]

\* A kernel has fwd (its coeffs[0]) and rev (its coeffs[1]).  kKernels: nearest,
\* bilinear, bicubic, modified cubic, Lanczos, bicubic with prediction, MISHUS.
Kernels ==
  {[fwd |-> <<16384, 0>>, rev |-> <<0, 16384>>],
   [fwd |-> <<12288, 4096>>, rev |-> <<4096, 12288>>],
   [fwd |-> <<-1382, 14285, 3942, -461>>, rev |-> <<-461, 3942, 14285, -1382>>],
   [fwd |-> <<-2360, 15855, 4165, -1276>>, rev |-> <<-1276, 4165, 15855, -2360>>],
   [fwd |-> <<493, -2183, 14627, 4440, -1114, 121>>,
    rev |-> <<121, -1114, 4440, 14627, -2183, 493>>],
   [fwd |-> <<231, -2662, 16384, 2662, -231, 0>>, rev |-> <<0, -231, 2662, 16384, -2662, 231>>],
   [fwd |-> <<-2048, 16384, 2048, 0>>, rev |-> <<0, 2048, 16384, -2048>>]}

ShiftResult(v) == (v + 2 ^ 13) \div 2 ^ 14

\* The pel at i of a row (or of a column) of size pels, the edges being extended.
GetPel(row, size, i) == row[Clamp(i, 0, size - 1)]

\* The vector functions load the pels as they lie in memory.
LoadPel(row, i) == IF i \in DOMAIN row THEN row[i] ELSE Stray

\* The pels that the taps of a kernel meet at position i, and one more.
GetPels(row, size, kernel, i) ==
  [n \in 1 .. Len(kernel.fwd) + 1 |-> GetPel(row, size, i - Len(kernel.fwd) \div 2 + n - 1)]
LoadPels(row, kernel, i) ==
  [n \in 1 .. Len(kernel.fwd) + 1 |-> LoadPel(row, i - Len(kernel.fwd) \div 2 + n - 1)]

\* The two phases: upscaling is off-pixel, so the forward kernel is applied one
\* pel further than the reverse one.
Phases(fwd, rev, window) ==
  <<ShiftResult(Convolved(rev, window, 1)), ShiftResult(Convolved(fwd, window, 2))>>

-----------------------------------------------------------------------------
(* Horizontal functions: out[row][phase], made at column x of two rows.    *)
(* a has kernel, pa, rows, width, base (the pels of the base at x) and x.  *)

ScalarAverage(pa, base, v) ==
  [r \in 1 .. 2 |->
     CASE pa = "none" -> 0
       [] pa = "1D"   -> base[r] - ((v[r][1] + v[r][2] + 1) \div 2)
       [] pa = "2D"   -> base[1] - ((v[1][1] + v[1][2] + v[2][1] + v[2][2] + 2) \div 4)]

HorizontalScalar(a, range) ==
  LET value(row) ==
        Both(RangeS15, Phases(a.kernel.fwd, a.kernel.rev, GetPels(row, a.width, a.kernel, a.x)))
      v == <<value(a.rows[1]), value(a.rows[2])>>
      average == ScalarAverage(a.pa, a.base, v)
  IN  [r \in 1 .. 2 |-> Both(range, <<v[r][1] + average[r], v[r][2] + average[r]>>)]

HorizontalU8(a) == HorizontalScalar(a, RangeU8)
HorizontalS16(a) == HorizontalScalar(a, RangeS16)
HorizontalU16(a, maxValue) == HorizontalScalar(a, RangeUN(maxValue))

\* The convolutions of both vector units: 16 bits for U8, 15 for the others.
ConvolveU8(a, rev) ==
  [r \in 1 .. 2 |->
     Both(RangeS16, Phases(a.kernel.fwd, rev, LoadPels(a.rows[r], a.kernel, a.x)))]
ConvolveN16(a, rev) ==
  LET v == ConvolveU8(a, rev) IN [r \in 1 .. 2 |-> Both(RangeS15, v[r])]

\* Halving (or quartering) a sum with rounding, in 16 bits: SSE adds the
\* rounding first, NEON shifts with more bits.  And in 32 bits.
ShiftSSE(sum, by) == Wrap16(sum + 2 ^ (by - 1)) \div 2 ^ by
ShiftNEON(sum, by) == (Wrap16(sum) + 2 ^ (by - 1)) \div 2 ^ by
ShiftPrecisely(sum, by) == Saturate(RangeS16, (sum + 2 ^ (by - 1)) \div 2 ^ by)
Shift(how, sum, by) ==
  CASE how = "SSE" -> ShiftSSE(sum, by) [] how = "NEON" -> ShiftNEON(sum, by)
    [] how = "precise" -> ShiftPrecisely(sum, by)

VectorAverage(pa, base, v, how) ==
  [r \in 1 .. 2 |->
     CASE pa = "none" -> 0
       [] pa = "1D"   -> Wrap16(base[r] - Shift(how, v[r][1] + v[r][2], 1))
       [] pa = "2D"   -> Wrap16(base[1] - Shift(how, v[1][1] + v[1][2] + v[2][1] + v[2][2], 2))]

ApplyPASpeed(a, v, simd, range) ==
  LET average == VectorAverage(a.pa, a.base, v, simd)
  IN  [r \in 1 .. 2 |-> Both(range, <<Wrap16(v[r][1] + average[r]), Wrap16(v[r][2] + average[r])>>)]
ApplyPAPrecision(a, v, range) ==
  LET average == VectorAverage(a.pa, a.base, v, "precise")
  IN  [r \in 1 .. 2 |->
         Both(range, Both(RangeS16, <<v[r][1] + average[r], v[r][2] + average[r]>>))]

HorizontalU16Vector(a, v, maxValue, is14Bit, simd) ==
  IF is14Bit /\ a.pa = "2D" THEN ApplyPAPrecision(a, v, RangeUN(maxValue))
  ELSE ApplyPASpeed(a, v, simd, RangeUN(maxValue))

\* SSE reverses the forward kernel.
KernelRev(kernel) == Reverse(kernel.fwd)

HorizontalU8PlanarSSE(a) ==
  ApplyPASpeed(a, ConvolveU8(a, KernelRev(a.kernel)), "SSE", RangeU8)
HorizontalS16PlanarSSE(a) ==
  ApplyPAPrecision(a, ConvolveN16(a, KernelRev(a.kernel)), RangeS16)

\* Mutant: the sums of 14-bit pels made in 16 bits in both directions.
HorizontalU16PlanarSSENever(a, maxValue, is14Bit) ==
  HorizontalU16Vector(a, ConvolveN16(a, KernelRev(a.kernel)), maxValue, FALSE, "SSE")

HorizontalU16PlanarSSE(a, maxValue, is14Bit) ==
  HorizontalU16Vector(a, ConvolveN16(a, KernelRev(a.kernel)), maxValue, is14Bit, "SSE")

HorizontalU8PlanarNEON(a) == ApplyPASpeed(a, ConvolveU8(a, a.kernel.rev), "NEON", RangeU8)
HorizontalS16PlanarNEON(a) == ApplyPAPrecision(a, ConvolveN16(a, a.kernel.rev), RangeS16)
HorizontalU16PlanarNEON(a, maxValue, is14Bit) ==
  HorizontalU16Vector(a, ConvolveN16(a, a.kernel.rev), maxValue, is14Bit, "NEON")

\* Of interleaved planes each channel is done as a plane of its own.
HorizontalU8NV12SSE(a) == HorizontalU8PlanarSSE(a)
HorizontalU8NV12NEON(a) == HorizontalU8PlanarNEON(a)
HorizontalU8RGBNEON(a) == HorizontalU8PlanarNEON(a)
HorizontalU8RGBANEON(a) == HorizontalU8PlanarNEON(a)

-----------------------------------------------------------------------------
(* Which of them is used, and for which columns.                           *)

HorizontalFunction(fp, a) ==
  CASE fp = "S16" -> HorizontalS16(a)
    [] fp = "U8"  -> HorizontalU8(a)
    [] OTHER      -> HorizontalU16(a, MaxValue(fp))

HasVectorFunction(simd, fp, channels) ==
  CASE simd = "none" -> FALSE
    [] simd = "SSE"  -> channels = 1 \/ (channels = 2 /\ fp = "U8")
    [] simd = "NEON" -> channels = 1 \/ fp = "U8"

HorizontalFunctionSSE(fp, channels, a) ==
  CASE fp = "S16" -> HorizontalS16PlanarSSE(a)
    [] fp = "U8"  -> IF channels = 1 THEN HorizontalU8PlanarSSE(a) ELSE HorizontalU8NV12SSE(a)
    [] OTHER      -> HorizontalU16PlanarSSE(a, MaxValue(fp), fp = "U14")

HorizontalFunctionNEON(fp, channels, a) ==
  CASE fp = "S16" -> HorizontalS16PlanarNEON(a)
    [] fp = "U8"  -> (CASE channels = 1 -> HorizontalU8PlanarNEON(a)
                        [] channels = 2 -> HorizontalU8NV12NEON(a)
                        [] channels = 3 -> HorizontalU8RGBNEON(a)
                        [] channels = 4 -> HorizontalU8RGBANEON(a))
    [] OTHER      -> HorizontalU16PlanarNEON(a, MaxValue(fp), fp = "U14")

AlignUp(n, to) == ((n + to - 1) \div to) * to

\* The columns that are left to the vector functions, start .. end - 1, when a
\* row is upscaled from its first column to its last.
HorizontalGetCoords(width, kernelSize, alignment) ==
  LET edgeMargin == AlignUp(kernelSize \div 2, 2)
      rightStart == AlignUp(width - edgeMargin - 1, 2)
  IN  [start |-> edgeMargin,
       end   |-> rightStart - ((rightStart - edgeMargin) % alignment)]

\* Each interleaved channel takes a load of 16 pels.
LoadAlignment(channels) == 16 * channels

HorizontalAt(simd, job, rows, base, x) ==
  LET coords == HorizontalGetCoords(job.width, Len(job.kernel.fwd), LoadAlignment(job.channels))
      a == [kernel |-> job.kernel, pa |-> job.pa, rows |-> rows, width |-> job.width,
            base |-> base, x |-> x]
  IN  CASE x < coords.start \/ x >= coords.end \/ ~HasVectorFunction(simd, job.fp, job.channels)
                        -> HorizontalFunction(job.fp, a)
        [] simd = "SSE" -> HorizontalFunctionSSE(job.fp, job.channels, a)
        [] OTHER        -> HorizontalFunctionNEON(job.fp, job.channels, a)

-----------------------------------------------------------------------------
(* Vertical functions: both phases of one column, from its window of pels. *)

VerticalU8(kernel, window) == Both(RangeU8, Phases(kernel.fwd, kernel.rev, window))
VerticalS16(kernel, window) == Both(RangeS15, Phases(kernel.fwd, kernel.rev, window))
VerticalU16(kernel, window, maxValue) ==
  Both(RangeUN(maxValue), Phases(kernel.fwd, kernel.rev, window))

\* Of U8, SSE makes 15 bits first and NEON 16; of UN, both make 16 bits.
VerticalU8SSE(kernel, window) ==
  Both(RangeU8, Both(RangeS15, Phases(kernel.fwd, KernelRev(kernel), window)))
VerticalS16SSE(kernel, window) == Both(RangeS15, Phases(kernel.fwd, KernelRev(kernel), window))
VerticalU16SSE(kernel, window, maxValue) ==
  Both(RangeUN(maxValue), Both(RangeUN(65535), Phases(kernel.fwd, KernelRev(kernel), window)))

VerticalU8NEON(kernel, window) ==
  Both(RangeU8, Both(RangeS16, Phases(kernel.fwd, kernel.rev, window)))
VerticalS16NEON(kernel, window) ==
  Both(RangeS15, Both(RangeS16, Phases(kernel.fwd, kernel.rev, window)))
VerticalU16NEON(kernel, window, maxValue) ==
  Both(RangeUN(maxValue), Both(RangeUN(65535), Phases(kernel.fwd, kernel.rev, window)))

VerticalFunction(simd, fp, kernel, window) ==
  CASE fp = "U8" -> (CASE simd = "none" -> VerticalU8(kernel, window)
                       [] simd = "SSE"  -> VerticalU8SSE(kernel, window)
                       [] simd = "NEON" -> VerticalU8NEON(kernel, window))
    [] fp = "S16" -> (CASE simd = "none" -> VerticalS16(kernel, window)
                        [] simd = "SSE"  -> VerticalS16SSE(kernel, window)
                        [] simd = "NEON" -> VerticalS16NEON(kernel, window))
    [] OTHER -> (CASE simd = "none" -> VerticalU16(kernel, window, MaxValue(fp))
                   [] simd = "SSE"  -> VerticalU16SSE(kernel, window, MaxValue(fp))
                   [] simd = "NEON" -> VerticalU16NEON(kernel, window, MaxValue(fp)))

\* 16 columns at a time, the rest two at a time by the scalar functions; of an
\* odd rest the last column is done together with the one before it.
VerticalCalls(width) ==
  LET whole == width - (width % 16)
      odd(x) == IF x + 2 > width THEN x - 1 ELSE x
  IN  {[x |-> 16 * i, step |-> 16] : i \in 0 .. (width \div 16) - 1} \cup
      {[x |-> odd(whole + 2 * i), step |-> 2] : i \in 0 .. (((width % 16) + 1) \div 2) - 1}

\* The vector functions extend the edges of a column by themselves: row i, of
\* the rows that are loaded at the start, or as the window moves down.
VerticalPelSSE(column, height, i) ==
  IF i >= 0 THEN column[IF i < height - 1 THEN i ELSE height - 1] ELSE column[0]
VerticalPelNEON(column, height, i) == column[Clamp(i, 0, height - 1)]

\* Both phases of row y at column x.
VerticalAt(simd, job, x, y) ==
  LET column == [i \in 0 .. job.height - 1 |-> job.rows[i][x]]
      whole  == \E c \in VerticalCalls(job.width) : c.step = 16 /\ x \in c.x .. c.x + 15
      used   == IF whole THEN simd ELSE "none"
      taps   == Len(job.kernel.fwd)
      row(n) == y - taps \div 2 + n - 1
  IN  VerticalFunction(used, job.fp, job.kernel,
                       CASE used = "none" -> GetPels(column, job.height, job.kernel, y)
                         [] used = "SSE"  ->
                              [n \in 1 .. taps + 1 |-> VerticalPelSSE(column, job.height, row(n))]
                         [] used = "NEON" ->
                              [n \in 1 .. taps + 1 |-> VerticalPelNEON(column, job.height, row(n))])

-----------------------------------------------------------------------------
(* A job has width, height and rows [0 .. height - 1 -> [0 .. width - 1 -> *)
(* pel]], fp, kernel, channels, is2D and pa ("none", or "1D" or "2D" with  *)
(* is2D).  The slices of a job share no rows of what they write.           *)

\* The intermediate rows 2y and 2y + 1.
VerticalTask(simd, job, y) ==
  LET at == [x \in 0 .. job.width - 1 |-> VerticalAt(simd, job, x, y)]
  IN  <<[x \in 0 .. job.width - 1 |-> at[x][1]], [x \in 0 .. job.width - 1 |-> at[x][2]]>>

\* The two rows that horizontalTask() takes at a time: in 1D the last of an odd
\* number of rows is taken twice.
RowPair(simd, job, y) ==
  IF job.is2D THEN VerticalTask(simd, job, y)
  ELSE <<job.rows[y], job.rows[IF y + 1 < job.height THEN y + 1 ELSE y]>>

PairStarts(job) == IF job.is2D THEN 0 .. job.height - 1 ELSE {y \in 0 .. job.height - 1 : y % 2 = 0}

\* In 2D the base is the source row the pair comes from, in 1D the pair.
BaseAt(job, pair, y, x) == IF job.is2D THEN <<job.rows[y][x]>> ELSE <<pair[1][x], pair[2][x]>>

UpscaledPair(simd, job, y) ==
  LET pair == RowPair(simd, job, y)
  IN  [x \in 0 .. job.width - 1 |-> HorizontalAt(simd, job, pair, BaseAt(job, pair, y, x), x)]

-----------------------------------------------------------------------------
(* Promotion: pels are shifted to the bits of the destination as they are  *)
(* read, in 16 bits, and so is the base.                                   *)

IsUnsigned(fp) == fp \in Unsigned
BitDepth(fp) == CASE fp = "U8" -> 8 [] fp = "U10" -> 10 [] fp = "U12" -> 12 [] fp = "U14" -> 14
PromotionShift(src, dst) == BitDepth(dst) - BitDepth(src)

GetPelsUN(row, shift) == [x \in DOMAIN row |-> Wrap16(row[x] * 2 ^ shift)]

HorizontalU8ToU16BaseUN(a, inShift, baseShift, maxValue) ==
  HorizontalScalar([a EXCEPT !.rows = <<GetPelsUN(a.rows[1], inShift), GetPelsUN(a.rows[2], inShift)>>,
                             !.base = GetPelsUN(a.base, baseShift)],
                   RangeUN(maxValue))

VerticalUNToU16(kernel, window, inShift, maxValue) ==
  VerticalU16(kernel, GetPelsUN(window, inShift), maxValue)

\* The entries of kHorizontalFuncTablePromotion.
Promotion(src, dst, base) ==
  \/ base = src /\ PromotionShift(src, dst) > 0
  \/ src = dst /\ PromotionShift(base, src) > 0

\* base is "FPCount" without predicted average.
UpscaleGetHorizontalFunction(src, dst, base) ==
  LET from == IF base = "FPCount" THEN src ELSE base
  IN  CASE ~IsUnsigned(src)                                -> "same"
        [] IsUnsigned(src) /\ src = dst /\ base \in {dst, "FPCount"} -> "same"
        [] OTHER -> IF Promotion(src, dst, from) THEN "promoting" ELSE "NULL"

UpscaleGetVerticalFunction(src, dst) ==
  CASE IsUnsigned(src) /\ IsUnsigned(dst) ->
         (IF src = dst THEN "same" ELSE IF PromotionShift(src, dst) > 0 THEN "promoting" ELSE "NULL")
    [] ~IsUnsigned(src) /\ ~IsUnsigned(dst) -> "same"
    [] OTHER -> "NULL"

\* What ldppUpscale() refuses, of a job of one interleaving.
UpscaleAccepts(job) ==
  /\ Len(job.kernel.fwd) % 2 = 0 /\ Len(job.kernel.fwd) \in 1 .. 8
  /\ IsUnsigned(job.fp) <=> IsUnsigned(job.dst)
  /\ IsUnsigned(job.fp) => PromotionShift(job.fp, job.dst) >= 0

\* upscaleExecute() finds its functions: both are of the format of the source.
UpscaleExecutes(job) ==
  /\ UpscaleGetHorizontalFunction(job.fp, job.fp, IF job.pa = "none" THEN "FPCount" ELSE job.fp) # "NULL"
  /\ job.is2D => UpscaleGetVerticalFunction(job.fp, job.fp) # "NULL"

-----------------------------------------------------------------------------
\* The vector functions read inside the row and leave whole pairs of columns to
\* the scalar ones, for any number of channels.
MiddleInside(width, kernelSize) ==
  \A channels \in 1 .. 4 :
     LET c == HorizontalGetCoords(width, kernelSize, LoadAlignment(channels))
     IN  /\ c.start <= c.end /\ (c.end - c.start) % 16 = 0 /\ c.start % 2 = 0
         /\ c.start - kernelSize \div 2 >= 0
         /\ c.end - 1 + kernelSize \div 2 <= width - 1

\* Every column is upscaled vertically, and none beyond the plane.
CallsCover(width) ==
  UNION {c.x .. c.x + c.step - 1 : c \in VerticalCalls(width)} = 0 .. width - 1

\* A picture comes out the same whichever functions the processor allows: what
\* is summed in 16 bits never overflows in a way that shows, and what is
\* loaded past an edge is never used.
PathsAgree(job) ==
  /\ UpscaleAccepts(job @@ [dst |-> job.fp]) /\ UpscaleExecutes(job)
  /\ \A w \in job.width .. job.width + 15 : MiddleInside(w, Len(job.kernel.fwd)) /\ CallsCover(w)
  /\ \A y \in PairStarts(job) :
       LET scalar == UpscaledPair("none", job, y)
       IN  \A simd \in {"SSE", "NEON"} : UpscaledPair(simd, job, y) = scalar
=============================================================================
