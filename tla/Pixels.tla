------------------------------- MODULE Pixels -------------------------------
(***************************************************************************)
(* What is written to the pels of a plane: by the commands of a command    *)
(* buffer, to their transform unit or block, and by blits, which add one   *)
(* plane to another or copy it between formats; each by the scalar         *)
(* functions and by those for SSE and NEON, which do sixteen pels of a row *)
(* at a time and leave the rest of it to code of their own.                *)
(* pixel_processing/src/apply_cmdbuffer_*.c, blit*.c                       *)
(*                                                                         *)
(* The pels and the residuals of a unit are sequences in raster order, of  *)
(* 4 (DD) or 16 (DDS).  A row is the sequence of the pels of its stride;   *)
(* one of the chroma planes of NV12 is every other pel of the interleaved  *)
(* row.                                                                    *)
(***************************************************************************)
EXTENDS FixedPoint

BlockSize == 32
UnitWidth(unit) == IF Len(unit) = 4 THEN 2 ELSE 4

-----------------------------------------------------------------------------
(* Adding a residual to a pel.                                             *)

AddedScalar(fp, pel, residual) ==
  IF fp \in Unsigned THEN Demoted(fp, Promoted(fp, pel) + residual)
  ELSE Saturate(RangeS16, pel + residual)

\* Rounding saturates before the shift.
AddedSSE(fp, pel, residual) ==
  LET sum == Saturate(RangeS16, UpVector(fp, pel) + residual)
  IN  IF fp \in Unsigned THEN DownVector(fp, Saturate(RangeS16, sum + Steps[fp].rounding))
      ELSE Saturate(RangeS16, pel + residual)

\* The shift rounds by itself, without saturating.
AddedNEON(fp, pel, residual) ==
  LET sum == Saturate(RangeS16, UpVector(fp, pel) + residual)
  IN  IF fp \in Unsigned THEN DownVector(fp, sum + Steps[fp].rounding)
      ELSE Saturate(RangeS16, pel + residual)

Added(simd, fp, pel, residual) ==
  CASE simd = "none" -> AddedScalar(fp, pel, residual)
    [] simd = "SSE"  -> AddedSSE(fp, pel, residual)
    [] simd = "NEON" -> AddedNEON(fp, pel, residual)

-----------------------------------------------------------------------------
(* The residuals of a row, in the first lanes of a register.               *)

\* The register shifted down by n lanes, zeros following; rotated by n lanes.
Shifted(v, n) == [i \in DOMAIN v |-> IF i + n <= Len(v) THEN v[i + n] ELSE 0]
Rotated(v, n) == [i \in DOMAIN v |-> v[((i + n - 1) % Len(v)) + 1]]

ResidualRowsSSE(residuals) ==
  IF Len(residuals) = 4 THEN <<residuals, Shifted(residuals, 2)>>
  ELSE LET low  == SubSeq(residuals, 1, 8)
           high == SubSeq(residuals, 9, 16)
       IN  <<low, Shifted(low, 4), high, Shifted(high, 4)>>

ResidualRowsNEON(residuals) ==
  IF Len(residuals) = 4 THEN <<residuals, Rotated(residuals, 2)>>
  ELSE [row \in 1 .. 4 |-> SubSeq(residuals, 4 * row - 3, 4 * row)]

ResidualAt(simd, residuals, i) ==
  LET n    == UnitWidth(residuals)
      row  == ((i - 1) \div n) + 1
      lane == ((i - 1) % n) + 1
  IN  CASE simd = "none" -> residuals[i]
        [] simd = "SSE"  -> ResidualRowsSSE(residuals)[row][lane]
        [] simd = "NEON" -> ResidualRowsNEON(residuals)[row][lane]

-----------------------------------------------------------------------------
(* The commands.                                                           *)

HighlightValue(fp) ==
  IF fp \in Unsigned THEN Steps[fp].resultMax
  ELSE LET u == CHOOSE v \in Unsigned : HighPrecision(v) = fp IN Promoted(u, Steps[u].resultMax)

\* The pels of a unit after a command other than clear.
Applied(simd, command, highlight, fp, pels, residuals) ==
  [i \in DOMAIN pels |->
     CASE highlight                             -> HighlightValue(fp)
       [] ~highlight /\ command = "CBCCAdd"     -> Added(simd, fp, pels[i], ResidualAt(simd, residuals, i))
       [] ~highlight /\ command = "CBCCSet"     -> ResidualAt(simd, residuals, i)
       [] ~highlight /\ command = "CBCCSetZero" -> 0]

\* The pels that clear makes zero in the block at x, y.  The vector functions
\* swap the names of the two sizes, and clear whole blocks by registers of eight.
Least(a, b) == IF a < b THEN a ELSE b
ClearedScalar(width, height, x, y) ==
  {<<x + i, y + j>> : i \in 0 .. Least(BlockSize, width - x) - 1,
                      j \in 0 .. Least(BlockSize, height - y) - 1}
ClearedVector(width, height, x, y) ==
  LET clearWidth  == Least(BlockSize, height - y)
      clearHeight == Least(BlockSize, width - x)
  IN  IF clearHeight = BlockSize /\ clearWidth = BlockSize
      THEN {<<x + r + lane, y + j>> : r \in {0, 8, 16, 24}, lane \in 0 .. 7, j \in 0 .. BlockSize - 1}
      ELSE {<<x + i, y + j>> : i \in 0 .. clearHeight - 1, j \in 0 .. clearWidth - 1}

-----------------------------------------------------------------------------
Commands(fp) == {"CBCCAdd"} \cup (IF fp \in Unsigned THEN {} ELSE {"CBCCSet", "CBCCSetZero"})

\* A command has the same effect whichever functions the processor allows; adding
\* whole steps to unsigned pels moves them by as many, within the range, and
\* clearing leaves nothing of the block within the plane and touches nothing else.
CommandsAgree(job) ==
  /\ \A simd \in {"SSE", "NEON"}, command \in Commands(job.fp), highlight \in BOOLEAN :
       Applied(simd, command, highlight, job.fp, job.pels, job.residuals) =
         Applied("none", command, highlight, job.fp, job.pels, job.residuals)
  /\ job.fp \in Unsigned =>
       \A i \in DOMAIN job.pels, step \in {-300, -1, 0, 1, 300}, simd \in {"none", "SSE", "NEON"} :
         LET residual == step * 2 ^ Steps[job.fp].shift
         IN  residual \in -32768 .. 32767 =>
               Added(simd, job.fp, job.pels[i], residual) =
                 Clamp(job.pels[i] + step, 0, MaxValue(job.fp))
ClearsAgree(job) ==
  LET cleared == ClearedScalar(job.width, job.height, job.x, job.y)
  IN  /\ ClearedVector(job.width, job.height, job.x, job.y) = cleared
      /\ cleared = {p \in (0 .. job.width - 1) \X (0 .. job.height - 1) :
                      /\ p[1] \div BlockSize = job.x \div BlockSize
                      /\ p[2] \div BlockSize = job.y \div BlockSize}

-----------------------------------------------------------------------------
(* Blits.                                                                  *)


Bits(fp) == CASE fp \in {"U8", "S8"}   -> 8  [] fp \in {"U10", "S10"} -> 10
              [] fp \in {"U12", "S12"} -> 12 [] fp \in {"U14", "S14"} -> 14
Signed == {"S8", "S10", "S12", "S14"}
Formats == Unsigned \cup Signed

BlitStep == 16
SimdAlignment(width) == width - (width % BlitStep)

-----------------------------------------------------------------------------
(* Additions: src is a residual, dst a pel of format fp.                   *)

BlitAdd(fp, dst, src) ==
  IF fp \in Unsigned THEN Demoted(fp, Promoted(fp, dst) + src) ELSE Saturate(RangeS16, dst + src)

\* addU8_SSE(), addUN_SSE(), addS16_SSE(), and the same for NEON.
BlitAddVector(fp, dst, src) ==
  LET sum == Saturate(RangeS16, UpVector(fp, dst) + src)
  IN  IF fp \in Unsigned THEN DownVector(fp, Saturate(RangeS16, sum + Steps[fp].rounding))
      ELSE Saturate(RangeS16, dst + src)

-----------------------------------------------------------------------------
(* Copies of a pel, which is all the scalar functions need, with the       *)
(* remainders of the vector functions where they differ.                   *)

\* The kinds of copy that kCopyTable has, for source and destination formats.
Promotes(src, dst) == src \in Unsigned /\ dst \in Unsigned /\ Bits(src) < Bits(dst)
Demotes(src, dst)  == src \in {"U10", "U12", "U14"} /\ dst = "U8"
ToSigned(src, dst) == src \in Unsigned /\ dst \in Signed /\ Bits(src) <= Bits(dst)
ToUnsigned(src, dst) == src \in Signed /\ dst \in Unsigned /\ Bits(src) <= Bits(dst)

Shift(src) == 15 - Bits(src)

CopyScalar(src, dst, v) ==
  CASE Promotes(src, dst)   -> v * 2 ^ (Bits(dst) - Bits(src))
    [] Demotes(src, dst)    -> v \div 2 ^ (Bits(src) - Bits(dst))
    [] ToSigned(src, dst)   -> v * 2 ^ Shift(src) - 16384
    [] ToUnsigned(src, dst) ->
         LET k == Steps[dst] IN Clamp(((v + k.rounding) \div 2 ^ k.shift) + k.signOffset, 0, k.resultMax)

CopyVector(src, dst, v) ==
  CASE Promotes(src, dst)   -> (v * 2 ^ (Bits(dst) - 8)) % 65536
    [] Demotes(src, dst)    -> Clamp(Wrap16(v) \div 2 ^ (Bits(src) - 8), 0, 255)
    [] ToSigned(src, dst)   -> UpVector(src, v)
    [] ToUnsigned(src, dst) -> DownVector(dst, Saturate(RangeS16, v + Steps[dst].rounding))

CopyRemainder(src, dst, v) ==
  CASE Promotes(src, dst)   -> (v * 2 ^ (Bits(dst) - 8)) % 65536
    [] Demotes(src, dst)    -> Saturate(RangeU8, v \div 2 ^ (Bits(src) - 8))
    [] ToSigned(src, dst)   -> fpU16ToS16(v, Shift(src))
    [] ToUnsigned(src, dst) -> fpS16ToU16(v, Steps[dst])

-----------------------------------------------------------------------------
(* The functions, by name; "NULL" where the tables have none.              *)

GetFunctionScalar(src, dst, blending, planeIndex, isNV12) ==
  CASE blending = "BMAdd" -> IF src # HighPrecision(dst) THEN "NULL" ELSE "add"
    [] blending = "BMCopy" /\ (src = dst \/ {src, dst} \subseteq Signed) -> "copyIdentity"
    [] blending = "BMCopy" /\ ~(src = dst \/ {src, dst} \subseteq Signed) /\ isNV12 /\ planeIndex > 0 ->
         (CASE src = "U8" /\ dst = "S8" -> "copyU8ToS16Nv12"
            [] src = "S8" /\ dst = "U8" -> "copyS16ToU8Nv12"
            [] OTHER                    -> "NULL")
    [] OTHER ->
         IF Promotes(src, dst) \/ Demotes(src, dst) \/ ToSigned(src, dst) \/ ToUnsigned(src, dst)
         THEN "copy" ELSE "NULL"

\* The SSE table promotes from eight bits only.
GetFunctionSSE(src, dst, blending, isNV12) ==
  CASE blending = "BMAdd"            -> "addVector"
    [] blending = "BMCopy" /\ isNV12 -> "NULL"
    [] OTHER ->
         IF \/ Promotes(src, dst) /\ src = "U8"
            \/ Demotes(src, dst) \/ ToSigned(src, dst) \/ ToUnsigned(src, dst)
         THEN "copyVector" ELSE "NULL"

GetFunctionNEON(blending) == IF blending = "BMAdd" THEN "addVector" ELSE "NULL"

planeBlitGetFunction(simd, src, dst, blending, planeIndex, isNV12) ==
  LET vector == CASE simd = "SSE"  -> GetFunctionSSE(src, dst, blending, isNV12)
                  [] simd = "NEON" -> GetFunctionNEON(blending)
                  [] simd = "none" -> "NULL"
  IN  IF vector # "NULL" THEN vector
      ELSE GetFunctionScalar(src, dst, blending, planeIndex, isNV12)

-----------------------------------------------------------------------------
\* The destination row after blitting width pels of the source row.  A plane of
\* NV12 starts at the first or the second pel of the interleaved row; rows that
\* need no conversion are copied with their padding.
First(job, fp) == IF job.isNV12 /\ job.planeIndex = 2 /\ fp = "U8" THEN 1 ELSE 0
From(job, function, x) ==
  job.srcRow[(IF function = "copyU8ToS16Nv12" THEN 2 * x ELSE x) + 1 + First(job, job.src)]
Pels(job, function) ==
  IF function = "NULL" THEN 0
  ELSE IF function # "copyIdentity" THEN job.width ELSE Clamp(Len(job.srcRow), 0, Len(job.dstRow))

PelWritten(job, function, v, old, x) ==
  CASE function = "add" \/ (function = "addVector" /\ x >= SimdAlignment(job.width)) -> BlitAdd(job.dst, old, v)
    [] function = "addVector" /\ x < SimdAlignment(job.width) -> BlitAddVector(job.dst, old, v)
    [] function = "copyVector"   -> IF x < SimdAlignment(job.width) THEN CopyVector(job.src, job.dst, v)
                                    ELSE CopyRemainder(job.src, job.dst, v)
    [] function = "copyIdentity" -> v
    [] OTHER                     -> CopyScalar(job.src, job.dst, v)

\* Pel p of the row is the x-th that is written, if the function writes that one.
PelOf(job, function, old, p, stride) ==
  LET x == p - 1 - First(job, job.dst)
  IN  IF x >= 0 /\ x % stride = 0 /\ x \div stride < Pels(job, function)
      THEN PelWritten(job, function, From(job, function, x \div stride), old, x \div stride)
      ELSE old
PlaneBlitBy(function, job) ==
  [p \in DOMAIN job.dstRow |->
     PelOf(job, function, job.dstRow[p], p, IF function = "copyS16ToU8Nv12" THEN 2 ELSE 1)]

PlaneBlit(simd, job) ==
  PlaneBlitBy(planeBlitGetFunction(simd, job.src, job.dst, job.blending, job.planeIndex, job.isNV12), job)

-----------------------------------------------------------------------------
ScalarOf(job) == GetFunctionScalar(job.src, job.dst, job.blending, job.planeIndex, job.isNV12)
BackOf(job, there) == [job EXCEPT !.src = job.dst, !.dst = job.src, !.srcRow = there, !.dstRow = job.srcRow]
GotBack(job) ==
  (/\ job.blending = "BMCopy" /\ job.src \in Unsigned
   /\ Bits(job.src) <= Bits(job.dst)
   /\ \A way \in {job, BackOf(job, job.dstRow)} : ScalarOf(way) # "NULL")
  => PlaneBlit("none", BackOf(job, PlaneBlit("none", job))) = job.srcRow

\* Whether a plane can be blitted, and the pels it then has, do not depend on the
\* functions the processor allows; pels made signed, or promoted from eight bits,
\* are got back.
BlitsAgree(job) ==
  /\ \A simd \in {"SSE", "NEON"} :
       /\ (planeBlitGetFunction(simd, job.src, job.dst, job.blending, job.planeIndex, job.isNV12) = "NULL")
            <=> (ScalarOf(job) = "NULL")
       /\ PlaneBlit(simd, job) = PlaneBlit("none", job)
  /\ GotBack(job)
=============================================================================
