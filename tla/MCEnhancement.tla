---------------------------- MODULE MCEnhancement ----------------------------
(***************************************************************************)
(* Decoding tiles and what comes before and after it: the payloads, the    *)
(* layout of tiles, command buffers, the tasks of a frame, and what is     *)
(* done to the pels.  A behaviour has one of them as its subject; those    *)
(* that are functions have one step, which picks an input.                 *)
(***************************************************************************)
EXTENDS LegacyDecode

CONSTANTS JumpSignals, LayerSize, InitialCapacity, NumEntryPoints, BlockTus, JumpTaken, Residual,
          MaxCommands

VARIABLES subject, input,
          memory, currentCommand, currentResidual, count, entryPoints, appended, before

commandVars == <<memory, currentCommand, currentResidual, count, entryPoints, appended, before>>

Buffer == INSTANCE CommandBuffer
Layout == INSTANCE TileLayout
Upscaling == INSTANCE Upscale
Transforming == INSTANCE Transforms
Writes == INSTANCE Pixels
FrameWork == INSTANCE FrameTasks
LegacyPixels == INSTANCE LegacySurface
NalUnits == INSTANCE NalUnits
Writing == INSTANCE PayloadWriter WITH LeadingZeroesBits <- 4, MaxCodeSize <- 8, SmallTableSize <- 10

\* Tiles of w x h transform units of two by two pixels, in blocks of four by four.
Sized(w, h, layers, loq, timed, chunk, reduced, entropy, tiled) ==
  [x |-> 0, y |-> IF tiled THEN 4 ELSE 0, width |-> 2 * w, height |-> 2 * h, tuWidthShift |-> 1, numLayers |-> layers, loq |-> loq,
   temporalEnabled |-> timed, hasTemporalChunk |-> chunk, reducedSignalling |-> reduced,
   entropyEnabled |-> entropy, tiled |-> tiled]

DecodeTiles ==
  {Sized(3, 3, 1, LOQ0, TRUE, TRUE, TRUE, TRUE, FALSE),
   Sized(3, 2, 1, LOQ0, TRUE, TRUE, FALSE, TRUE, FALSE),
   Sized(2, 2, 2, LOQ0, TRUE, TRUE, TRUE, TRUE, FALSE),
   Sized(3, 2, 1, LOQ1, TRUE, FALSE, TRUE, TRUE, FALSE),
   Sized(3, 2, 1, LOQ0, FALSE, FALSE, TRUE, TRUE, FALSE),
   Sized(3, 2, 1, LOQ0, FALSE, FALSE, TRUE, TRUE, TRUE),
   Sized(5, 3, 1, LOQ0, TRUE, TRUE, TRUE, FALSE, FALSE)}

\* Jobs for the legacy loop: each way through it, each way to keep surfaces, tiles
\* beside one another, and calls that have nothing to do or are refused.
JobWith(tiles, buffers, surfaces, planes) ==
  [tiles |-> tiles, generateCmdBuffers |-> buffers, applyCmdBuffers |-> buffers /\ Len(tiles) = 1, planes |-> planes,
   generateSurfaces |-> surfaces # {}, useExternalSurfaces |-> "external" \in surfaces,
   convertS8 |-> "S8" \in surfaces, entropyEnabled |-> tiles[1].entropyEnabled]
   @@ DecodeSerialArgs(tiles[1].loq, tiles[1].temporalEnabled, tiles[1].tiled)

SerialJobs ==
  LET reduced == Sized(3, 3, 1, LOQ0, TRUE, TRUE, TRUE, TRUE, FALSE)
      signals == Sized(3, 2, 1, LOQ0, TRUE, TRUE, FALSE, TRUE, FALSE)
      base    == Sized(3, 2, 1, LOQ1, TRUE, FALSE, TRUE, TRUE, FALSE)
      untimed == Sized(3, 2, 1, LOQ0, FALSE, FALSE, TRUE, TRUE, FALSE)
      above   == [Sized(2, 2, 1, LOQ0, TRUE, TRUE, TRUE, TRUE, TRUE) EXCEPT !.y = 0]
      below   == Sized(2, 1, 1, LOQ0, TRUE, TRUE, TRUE, TRUE, TRUE)
      silent  == Sized(2, 2, 1, LOQ0, TRUE, TRUE, TRUE, FALSE, FALSE)
  IN  {JobWith(<<reduced>>, TRUE, {}, {0}), JobWith(<<reduced>>, FALSE, {"own", "S8"}, {0}),
       JobWith(<<above, below>>, TRUE, {}, {0, 1, 2}), JobWith(<<signals>>, FALSE, {"external"}, {0}),
       JobWith(<<base>>, TRUE, {}, {0}), JobWith(<<base>>, FALSE, {"external", "S8"}, {0}),
       JobWith(<<untimed>>, FALSE, {}, {0, 1, 2}), JobWith(<<untimed>>, TRUE, {"own"}, {}),
       JobWith(<<untimed>>, FALSE, {}, {0, 1}), JobWith(<<untimed>>, TRUE, {}, {}), JobWith(<<silent>>, TRUE, {}, {0})}

\* The decoded tiles are of sizes for which a TU's block-aligned index is right.
ASSUME TilesAssumption ==
  \A t \in DecodeTiles \cup UNION {Range(j.tiles) : j \in SerialJobs} :
     AlignedIndexesAgree(TuStateInitialize(t.width, t.height, 0, 0, t.tuWidthShift))

ASSUME BufferAssumption == Buffer!CommandAssumption

\* Tiles of up to three blocks and a part each way, wherever they lie.
UnitStates ==
  {TuStateInitialize(w * 2 ^ s, h * 2 ^ s, x, y, s) :
     w \in 1 .. 7, h \in 1 .. 7, x \in {0, 8}, y \in {0, 4}, s \in {1, 2}}

\* Configurations of small pictures, and the frames that can come with them.
Settings ==
  [width : {8, 40}, height : {16, 20}, scalingModes : [{LOQ0, LOQ1} -> {"0D", "1D", "2D"}],
   chroma : {"420", "422", "444"}, numPlanes : {1, 3}, tuSize : {2, 4}, numLayers : {2},
   tileWidth : {8, 12}, tileHeight : {8, 20}, temporalEnabled : BOOLEAN]
FrameSettings ==
  [entropyEnabled : BOOLEAN, temporalRefresh : BOOLEAN, temporalSignallingPresent : BOOLEAN]

\* Pictures of the least and the greatest pel, in stripes that run across every
\* tap of a kernel, with a middle for the vector functions and edges beside it.
Stripes ==
  {[every |-> 2, of |-> 1, lean |-> 1, width |-> 24, height |-> 2, channels |-> 1],
   [every |-> 5, of |-> 2, lean |-> 1, width |-> 25, height |-> 2, channels |-> 1],
   [every |-> 7, of |-> 3, lean |-> 2, width |-> 21, height |-> 3, channels |-> 1],
   [every |-> 3, of |-> 1, lean |-> 1, width |-> 37, height |-> 2, channels |-> 2]}
Directions == {<<FALSE, "none">>, <<FALSE, "1D">>, <<TRUE, "none">>, <<TRUE, "2D">>}

PictureJob(fp, kernel, direction, s) ==
  LET low  == IF fp = "S16" THEN -32768 ELSE 0
      high == IF fp = "S16" THEN 32767 ELSE Upscaling!MaxValue(fp)
  IN  [width |-> s.width, height |-> s.height, channels |-> s.channels, fp |-> fp,
       kernel |-> kernel, is2D |-> direction[1], pa |-> direction[2],
       rows |-> [y \in 0 .. s.height - 1 |-> [x \in 0 .. s.width - 1 |->
                   IF (x + s.lean * y) % s.every < s.of THEN high ELSE low]]]

\* Three and four channels have vector functions for eight bits only.
Interleaved == {[every |-> 5, of |-> 2, lean |-> 1, width |-> 53, height |-> 2, channels |-> 3],
                [every |-> 5, of |-> 2, lean |-> 1, width |-> 69, height |-> 2, channels |-> 4]}

Jobs ==
  {PictureJob(fp, k, d, s) : fp \in {"U8", "U10", "U12", "U14", "S16"}, k \in Upscaling!Kernels,
                      d \in Directions, s \in Stripes} \cup
  {PictureJob("U8", k, <<TRUE, "2D">>, s) : k \in {l \in Upscaling!Kernels : Len(l.fwd) = 6},
                                     s \in Interleaved}

\* Coefficients at the ends of their range and around nothing, alone and in
\* every combination of four, with step widths and offsets of either size.
Extremes == {-32768, -1, 0, 100, 32767}
Signs(n, size) == [i \in 1 .. 16 |-> IF (i * n) % 7 < 3 THEN size ELSE -size - 1]
Coefficients ==
  {[i \in 1 .. 4 |-> f[i]] : f \in [1 .. 4 -> Extremes]} \cup
  {[i \in 1 .. 16 |-> IF i = at THEN v ELSE 0] : at \in 1 .. 16, v \in Extremes \ {0}} \cup
  {Signs(n, size) : n \in 1 .. 6, size \in {0, 99, 8191, 32767}}
Widths == {[step |-> 1, by |-> 0, offset |-> 0], [step |-> 700, by |-> 3, offset |-> -9],
           [step |-> 32767, by |-> -1, offset |-> 32767]}
Dequants(n) ==
  {[stepWidth |-> [i \in 1 .. n |-> w.step + i * w.by], offset |-> [i \in 1 .. n |-> w.offset]] :
     w \in Widths}
Transformable ==
  UNION {{[coeffs |-> c, dequant |-> d] : d \in Dequants(Len(c))} : c \in Coefficients}

\* Pels at the ends and in the middle of their range, and residuals there, at
\* the ends of what adding saturates to, and about the rounding of eight bits.
Pels(fp) ==
  IF fp \in Writes!Unsigned
  THEN LET max == Writes!MaxValue(fp) IN <<0, 1, max \div 2, (max \div 2) + 1, max - 1, max>>
  ELSE <<-32768, -16385, -1, 0, 16383, 32767>>
AddedResiduals == <<-32768, -32767, -16385, -16384, -16383, -65, -64, -1, 0, 1, 63, 64, 16383, 16384,
               32703, 32766, 32767>>
Cycle(s, n, start, stride) == [i \in 1 .. n |-> s[((start + stride * (i - 1)) % Len(s)) + 1]]

Units ==
  {[fp |-> fp, pels |-> Cycle(Pels(fp), n, phase, 1), residuals |-> Cycle(AddedResiduals, n, phase, 5)] :
     fp \in Writes!Unsigned \cup {"S8"}, n \in {4, 16}, phase \in 0 .. 16}
Clearable ==
  {[width |-> w, height |-> h, x |-> 32 * x, y |-> 32 * y] :
     w \in {20, 33, 64, 70}, h \in {32, 65}, x \in 0 .. 2, y \in 0 .. 2}
Blocks == {c \in Clearable : c.x < c.width /\ c.y < c.height}

\* Rows shorter and longer than what the vector functions do at a time, padded.
Row(s, width, phase) == Cycle(s, width + 3, phase, 1)
Planar(src, dst, blending, width, phase) ==
  [src |-> src, dst |-> dst, blending |-> blending, planeIndex |-> 0, isNV12 |-> FALSE,
   width |-> width, dstRow |-> Row(Pels(dst), width, phase),
   srcRow |-> Row(IF blending = "BMAdd" THEN AddedResiduals ELSE Pels(src), width, 0)]
Chroma(src, dst, plane) ==
  [src |-> src, dst |-> dst, blending |-> "BMCopy", planeIndex |-> plane, isNV12 |-> TRUE, width |-> 18,
   srcRow |-> Row(Pels(src), 36, 0), dstRow |-> Row(Pels(dst), 36, 1)]
Blits ==
  {Planar(Writes!HighPrecision(fp), fp, "BMAdd", width, phase) :
     fp \in Writes!Formats, width \in {15, 31, 48}, phase \in 0 .. 5} \cup
  {Planar(src, dst, "BMCopy", width, 2) :
     src \in Writes!Formats, dst \in Writes!Formats, width \in {15, 31}} \cup
  {Chroma(ends[1], ends[2], plane) : ends \in {<<"U8", "S8">>, <<"S8", "U8">>}, plane \in 0 .. 2} \cup
  {Chroma("U8", "U8", plane) : plane \in 0 .. 1}

\* Legacy upscaling makes the format of the job or one of more bits; the kernels
\* of the legacy decoder, with any adaptive one, by each setting.
LegacyStripes == {[every |-> 2, of |-> 1, lean |-> 1, width |-> 25, height |-> 3, channels |-> 1]}
LegacyJobs ==
  {[PictureJob(fp, k, d, s) EXCEPT !.fp = fp] @@ [dst |-> dst] :
     fp \in {"U8", "U10", "U12", "U14", "S16"}, dst \in {"U8", "U10", "U12", "U14", "S16"},
     k \in {l \in Upscaling!Kernels : l.fwd[1] \in {-1382, 493}}, d \in Directions,
     s \in LegacyStripes} \cup
  {PictureJob("U8", k, <<TRUE, "2D">>, s) @@ [dst |-> "U8"] :
     k \in {l \in Upscaling!Kernels : l.fwd[1] = 493},
     s \in Interleaved \cup {t \in Stripes : t.channels = 2}}
KernelSettings ==
  [type : LegacyPixels!UpscaleTypes, useApproximatePA : BOOLEAN, usePredictedAverage : BOOLEAN,
   adaptive : {<<-1382, 14285, 3942, -461>>, <<0, -1, 16384, 0>>, <<-32767, -1, -32768, 7>>}]

\* Added to U8, residuals of seven bits are bytes.
SevenBits ==
  {[Planar("U8", "U8", "BMAdd", width, phase) EXCEPT
      !.srcRow = Row(<<0, 1, 63, 64, 127, 128, 129, 192, 255>>, width, 0)] :
     width \in {15, 31}, phase \in 0 .. 5}

\* Complete codes, one that leaves codes unused, and chains of codes that are too
\* long for the small table, for an index of the triples, and for its leading zeroes.
Chain(n) == [i \in 1 .. n |-> IF i = n THEN n - 1 ELSE i]
Shapes == {<<1, 2, 2>>, <<2, 1, 2>>, <<2, 2, 2>>, <<3, 1, 3, 2>>, <<2, 2, 2, 3, 3>>,
           <<3, 3, 3, 3, 2, 5, 5, 5, 5, 3>>, Chain(12), Chain(14), Chain(21)}
OfShape(symbols, shape) == [i \in DOMAIN shape |-> [symbol |-> symbols[i], bits |-> shape[i]]]
Single(symbol) == <<[symbol |-> symbol, bits |-> 0]>>

LsbSymbols == <<64, 193, 65, 192, 0, 127, 255, 66, 200, 67, 130, 2, 196, 3, 254, 68, 70, 198, 72, 202, 74>>
MsbSymbols == <<64, 192, 0, 127, 255, 128, 65, 1, 129, 66, 2, 130, 67, 3>>
RlSymbols  == <<128, 1, 129, 255, 0, 127, 130, 2, 131, 3, 132, 4, 133, 5, 134, 6, 135, 7, 136, 8, 9>>
At(s, i) == s[((i - 1) % Len(s)) + 1]
SymbolsOf(a) == [i \in DOMAIN a |-> a[i].symbol]

\* A run of one to four symbols, or of one where none of them goes on.
RunOf(a, i) ==
  LET more == SelectSeq(SymbolsOf(a), LAMBDA s : s >= 128)
      ends == SelectSeq(SymbolsOf(a), LAMBDA s : s < 128)
  IN  (IF more = <<>> THEN <<>> ELSE [n \in 1 .. i % 4 |-> At(more, i + n)]) \o <<At(ends, i)>>
CoefficientsOf(lsb, msb, rl) ==
  [i \in 1 .. 24 |->
     LET low  == At(SymbolsOf(lsb), i)
         head == <<low>> \o (IF low % 2 = 1 THEN <<At(SymbolsOf(msb), (i \div 2) + 1)>> ELSE <<>>)
     IN  head \o (IF head[Len(head)] >= 128 THEN RunOf(rl, i) ELSE <<>>)]

Chunks ==
  {[kind |-> "coefficients", alphabets |-> <<l, m, r>>, version |-> (Len(l) + Len(r)) % 3, dense |-> Len(r) = 3,
    coefficients |-> CoefficientsOf(l, m, r)] :
     l \in {OfShape(LsbSymbols, s) : s \in Shapes} \cup {Single(192)},
     m \in {OfShape(MsbSymbols, <<3, 3, 3, 3, 2, 5, 5, 5, 5, 3>>), Single(192)},
     r \in {OfShape(RlSymbols, s) : s \in Shapes} \cup {Single(5)}} \cup
  {[kind |-> "signals", alphabets |-> <<z, o>>, version |-> 2, dense |-> FALSE, first |-> first,
    runs |-> [n \in 1 .. 12 |-> RunOf(IF (first + n - 1) % 2 = 0 THEN z ELSE o, n)]] :
     z \in {OfShape(RlSymbols, s) : s \in Shapes} \cup {Single(5)},
     o \in {OfShape(RlSymbols, Chain(14)), Single(127)}, first \in {0, 1}} \cup
  {[kind |-> "sizes", alphabets |-> <<l, m>>, version |-> 2, dense |-> FALSE, signed |-> signed,
    sizes |-> [n \in 1 .. 24 |->
                 LET low == At(SymbolsOf(l), n)
                 IN  IF low % 2 = 1 THEN <<low, At(SymbolsOf(m), n)>> ELSE <<low>>]] :
     l \in {OfShape(LsbSymbols, s) : s \in Shapes}, m \in {OfShape(MsbSymbols, Chain(14)), Single(192)},
     signed \in BOOLEAN}

\* Payloads of less than a word, of whole words, and of words and a part, read in
\* bits and codes (0) and in fields, of numbers that are told by up to 12 bytes.
Payload == {<<0>>, <<181>>, <<255, 1, 128, 7>>, <<1, 0, 0, 200, 33, 77, 254>>,
            <<0, 1, 0, 2, 0, 4, 0, 8, 0>>, <<0, 0, 0, 1, 0, 0, 0, 2, 254, 19>>,
            <<90, 165, 3, 0, 128, 17, 255, 64, 2, 9, 44>>}
LongNumbers == {[i \in 1 .. n |-> IF i = end THEN 3 * i ELSE 255 - i] :
                  n \in {1, 5, 9, 10, 11, 12}, end \in {1, 5, 9, 10, 11, 13}}
Fields == [kind : {"number"}, size : {1, 2, 4, 8}] \cup [kind : {"bytes", "gap"}, size : {0, 3}] \cup
            [kind : {"multi"}, size : {0}]
Readings ==
  [data : Payload, pieces : {<<a, b, c, d, e, f, 1, 31, 1, 1, 0, 3>> :
                               a \in {0, 1, 7}, b \in {0, 8, 31}, c \in {1, 5, 31}, d \in {0, 13},
                               e \in {2, 30}, f \in {3, 9}}] \cup
  [data : Payload \cup LongNumbers, fields : {<<f, g>> : f \in Fields, g \in Fields}]

\* The numbers below n that are in S, in order.
InOrder(S, n) == SelectSeq([i \in 1 .. n |-> i - 1], LAMBDA i : i \in S)

\* A layer in which the units `coded' have a coefficient.
LayerOf(coded, n) ==
  LET at == InOrder(coded \cup {0}, n)
  IN  [k \in DOMAIN at |-> [nonZero |-> at[k] \in coded,
                           zeros   |-> (IF k = Len(at) THEN n ELSE at[k + 1]) - at[k] - 1]]

\* The runs of the signals of a tile's units, of which those of a block that is
\* intra from its start have none when signalling is reduced.
SignalRuns(tile_, intra) ==
  LET s == TuStateInitialize(tile_.width, tile_.height, tile_.x, tile_.y, tile_.tuWidthShift)
      sameBlock(i, b) == BlockOf(s, BlockRaster(s, i)) = BlockOf(s, BlockRaster(s, b))
      covered == {i \in 0 .. s.tuTotal - 1 :
                    tile_.reducedSignalling /\ \E b \in intra : b < i /\ IsBlockStart(s, b) /\ sameBlock(i, b)}
      told   == InOrder((0 .. s.tuTotal - 1) \ covered, s.tuTotal)
      starts == SelectSeq([k \in DOMAIN told |-> k],
                          LAMBDA k : k = 1 \/ (told[k] \in intra) # (told[k - 1] \in intra))
  IN  [n \in DOMAIN starts |-> [signal |-> IF told[starts[n]] \in intra THEN "TSIntra" ELSE "TSInter",
                                run    |-> (IF n = Len(starts) THEN Len(told) + 1 ELSE starts[n + 1]) - starts[n]]]

\* Every signalling with every layer, for tiles of two blocks and of four, and two layers.
ParallelJobs ==
  {[tile |-> t, layers |-> <<LayerOf(coded, 6)>>, temporal |-> SignalRuns(t, intra)] :
     t \in {Sized(3, 2, 1, LOQ0, TRUE, TRUE, reduced, TRUE, FALSE) : reduced \in BOOLEAN},
     coded \in SUBSET (0 .. 5), intra \in SUBSET (0 .. 5)} \cup
  {[tile |-> t, layers |-> <<LayerOf({a}, 9), LayerOf({b, 8}, 9)>>, temporal |-> SignalRuns(t, intra)] :
     t \in {Sized(3, 3, 2, LOQ0, TRUE, TRUE, TRUE, TRUE, TRUE)},
     a \in {1, 3, 6}, b \in 0 .. 7, intra \in SUBSET {0, 1, 3, 4, 6, 8}} \cup
  {[tile |-> t, layers |-> <<LayerOf(coded, 6)>>, temporal |-> <<>>] :
     t \in {Sized(3, 2, 1, LOQ1, timed, FALSE, TRUE, TRUE, tiled) : timed \in BOOLEAN, tiled \in BOOLEAN},
     coded \in SUBSET (0 .. 5)}

\* Streams with and without enhancement data, in units and messages, and with
\* messages of others before it; the last payload has every byte sequence that
\* is changed to keep it from looking like a start code.
AccessUnits ==
  [codec : NalUnits!CodecType, format : NalUnits!NALFormat, prefix : {3, 4}, inner : {3}, idr : BOOLEAN,
   units : {<<"message">>, <<"unit">>, <<"base", "unit">>, <<"base", "other", "unit">>,
            <<"other", "base", "message", "base">>,
            <<"other", "foreign", "keyframe", "unit", "unit">>, <<"long", "message">>, <<"base", "keyframe">>},
   payload : {<<7>>, <<0, 0, 1, 5>>, <<0, 0, 0, 0, 0, 3, 2, 0, 0, 2, 0, 0, 3, 0, 0, 0, 1, 9>>}]

-----------------------------------------------------------------------------
(* Payloads: each setting at its ends, each way to write a picture, tiles  *)
(* with all ways to write their flags and sizes, information of every      *)
(* kind, and payloads that build on others.                                *)

Plain ==
  [planes |-> <<>>, resolution |-> 63, size |-> <<16, 16>>, transform |-> 0, chroma |-> 1, baseDepth |-> 0,
   enhancedDepth |-> 0, modifier |-> <<>>, predictedAverage |-> 0, reducedSignalling |-> 0, temporalEnabled |-> 1,
   upscale |-> 2, kernel |-> <<>>, deblock |-> <<>>, scaling |-> <<2, 0>>, tiling |-> <<>>, perTile |-> 0,
   tileSizes |-> 0, userData |-> 0, loq1Depth |-> 0, multiplier |-> <<>>]
PlainTiles == [Plain EXCEPT !.tiling = <<8, 8>>, !.planes = <<1>>]

Globals ==
  {[Plain EXCEPT !.planes = p] : p \in {<<>>, <<0>>, <<1>>, <<2>>, <<15>>}}
  \cup {[Plain EXCEPT !.resolution = r] : r \in {0, 51, 62}}
  \cup {[Plain EXCEPT !.resolution = r, !.size = <<>>, !.scaling = <<0, 2>>] : r \in 1 .. 50}
  \cup {[Plain EXCEPT !.size = s, !.planes = <<1>>, !.chroma = c, !.scaling = m] :
          s \in {<<8, 8>>, <<12, 8>>, <<8, 4>>, <<4, 16>>, <<6, 6>>, <<257, 8>>}, c \in 0 .. 3, m \in {<<0, 0>>, <<1, 0>>, <<2, 1>>}}
  \cup {[Plain EXCEPT !.transform = 1, !.size = s, !.userData = u] : s \in {<<16, 16>>, <<8, 12>>}, u \in {0, 1, 2}}
  \cup {[Plain EXCEPT !.userData = u, !.baseDepth = d[1], !.enhancedDepth = d[2], !.loq1Depth = 1] :
          u \in 0 .. 3, d \in {<<0, 3>>, <<2, 2>>, <<1, 0>>, <<3, 2>>}}
  \cup {[Plain EXCEPT !.modifier = m, !.multiplier = n, !.deblock = d] :
          m \in {<<>>, <<0>>, <<255>>}, n \in {<<>>, <<7>>}, d \in {<<>>, <<0, 15>>, <<9, 4>>}}
  \cup {[Plain EXCEPT !.upscale = u, !.kernel = IF u = 4 THEN k ELSE <<>>] :
          u \in 0 .. 7, k \in {<<1, 2, 3, 4>>, <<0, 16383, 300, 32767>>}}
  \cup {[Plain EXCEPT !.predictedAverage = 1], [Plain EXCEPT !.reducedSignalling = 1], [Plain EXCEPT !.temporalEnabled = 0]}

TiledGlobals ==
  {[PlainTiles EXCEPT !.tiling = t, !.perTile = p, !.chroma = c, !.temporalEnabled = p] :
     t \in {<<8, 8>>, <<16, 4>>, <<12, 16>>, <<6, 16>>, <<512, 256>>, <<1024, 512>>}, p \in {0, 1}, c \in {1, 3}}
  \cup {[PlainTiles EXCEPT !.perTile = p, !.tileSizes = s, !.planes = n] : p \in {0, 1}, s \in {1, 2}, n \in {<<>>, <<1>>}}

Picture ==
  [enhanced |-> TRUE, matrices |-> 1, offset |-> <<>>, type |-> 0, field |-> 0, refresh |-> 1, signalling |-> 0,
   loq1 |-> <<>>, width |-> 700, dithers |-> 0, dither |-> <<0, 0>>]
Pictures ==
  {[Picture EXCEPT !.matrices = m, !.refresh = r, !.loq1 = l] : m \in 0 .. 7, r \in {0, 1}, l \in {<<>>, <<32767, 1>>}}
  \cup {[Picture EXCEPT !.offset = o, !.width = w] : o \in {<<>>, <<0, 127>>, <<1, 64>>}, w \in {0, 32767}}
  \cup {[Picture EXCEPT !.type = t, !.field = f, !.dithers = 1, !.dither = d] :
          t \in {0, 1}, f \in {0, 1}, d \in {<<0, 31>>, <<1, 31>>, <<3, 0>>}}
  \cup {[Picture EXCEPT !.enhanced = FALSE, !.refresh = 0, !.signalling = 1, !.type = t, !.field = t] : t \in {0, 1}}

PlainPayload ==
  [idr |-> TRUE, infos |-> <<>>, crop |-> <<>>, extended |-> FALSE, global |-> <<Plain>>, picture |-> <<Picture>>,
   seed |-> 0, padding |-> 0]

Info(kind, is) == [kind |-> kind, is |-> is]
NoVui == [aspect |-> <<>>, overscan |-> <<>>, signal |-> <<>>, colours |-> <<>>, chroma |-> <<>>]
Vuis ==
  {[NoVui EXCEPT !.aspect = a, !.chroma = c, !.signal = <<5, 1>>] :
     a \in {<<>>, <<1>>, <<255, 640, 65535>>}, c \in {<<>>, <<0, 5>>, <<31, 126>>}}
  \cup {[NoVui EXCEPT !.overscan = o, !.signal = <<7, 0>>, !.colours = c] : o \in {<<>>, <<0>>, <<1>>}, c \in {<<>>, <<9, 16, 255>>}}
Hdrs ==
  {[location |-> l, type |-> t, data |-> d, deinterlacer |-> i] :
     l \in {0, 1}, t \in {4, 31, 200}, d \in {<<>>, <<7, 8, 9>>}, i \in {<<>>, <<15, 1>>}}
Infos ==
  {Info("mastering", <<1, 2, 3, 4, 5, 6, 7, 65535, 10000000, 50>>), Info("light", <<1000, 400>>), Info("version", <<0>>),
   Info("version", <<1>>), Info("version", <<2>>), Info("version", <<3>>), Info("message", <<1, 2, 3>>),
   Info("filter", <<2, 32>>), Info("filter", <<7, 1>>), Info("other", <<>>), Info("other", <<1, 2, 3, 4>>),
   Info("filler", <<>>), Info("filler", <<170, 0, 0>>), Info("unknown", <<9, 9, 9, 9, 9, 9, 9>>)}
  \cup {Info("vui", v) : v \in Vuis} \cup {Info("hdr", h) : h \in Hdrs}

\* Pictures behind the first one, in the versions that let them keep other settings.
Followers ==
  {[PlainPayload EXCEPT !.idr = idr, !.global = <<>>, !.picture = <<p>>, !.seed = 3] :
     idr \in BOOLEAN,
     p \in {[Picture EXCEPT !.enhanced = FALSE, !.refresh = 0, !.signalling = 1], [Picture EXCEPT !.matrices = 0],
            [Picture EXCEPT !.matrices = 3, !.refresh = 0], [Picture EXCEPT !.matrices = 4]}}
Leaders ==
  {[PlainPayload EXCEPT !.infos = v, !.picture = <<p>>] :
     v \in {<<>>, <<Info("version", <<1>>)>>, <<Info("version", <<2>>), Info("version", <<0>>)>>},
     p \in {[Picture EXCEPT !.dithers = 1, !.dither = <<1, 17>>], [Picture EXCEPT !.matrices = 5]}}

PayloadLists ==
  {<<[PlainPayload EXCEPT !.global = <<g>>, !.seed = 1]>> : g \in Globals}
  \cup {<<[PlainPayload EXCEPT !.global = <<g>>, !.picture[1].refresh = 0, !.seed = s]>> : g \in TiledGlobals, s \in {0, 2}}
  \cup {<<[PlainPayload EXCEPT !.picture = <<p>>, !.padding = n]>> : p \in Pictures, n \in {0, 1}}
  \cup {<<[PlainPayload EXCEPT !.infos = <<i, Info("filler", <<1>>)>>]>> : i \in Infos}
  \cup {<<[PlainPayload EXCEPT !.crop = c, !.extended = e, !.global = <<[Plain EXCEPT !.chroma = h]>>]>> :
          c \in {<<0, 0, 0, 0>>, <<1, 2, 3, 4>>, <<7, 0, 0, 7>>, <<0, 8, 1, 0>>, <<200, 0, 0, 0>>}, e \in BOOLEAN, h \in 0 .. 3}
  \cup {<<l, f>> : l \in Leaders, f \in Followers}
PayloadJobs == {[payloads |-> list] : list \in PayloadLists}

\* Commands for the legacy decoder's buffer, with room for three and after others.
LegacyCommandLists ==
  LET Values(n, k) == [i \in 1 .. n |-> (i + 5 * k) % 15]
      Command(n, k, jump, kind) == [command |-> kind, jump |-> jump, values |-> IF kind = 0 THEN Values(n, k) ELSE <<>>]
      lists(n) == UNION {{[k \in 1 .. length |-> Command(n, k, taken[k], kinds[k])] :
                            taken \in [1 .. length -> JumpTaken], kinds \in [1 .. length -> {0, 3}]} : length \in 0 .. 4}
  IN  UNION {{[capacity |-> 21, layers |-> n, cmds |-> list, earlier |-> <<Command(4, 9, 2, 0)>>] : list \in lists(n)} :
               n \in {4, 16}}

\* Operations for the GPU, block by block: what a block may be asked for, over the
\* units of two words.  Without temporal signalling there are only additions.
GpuJobs ==
  LET Asked == {<<>>, <<<<"CBGOAdd", 1>>, <<"CBGOAdd", 2>>>>, <<<<"CBGOAdd", 0>>, <<"CBGOSet", 1>>, <<"CBGOAdd", 3>>>>,
                <<<<"CBGOSet", 0>>, <<"CBGOSetZero", 2>>, <<"CBGOSet", 3>>>>,
                <<<<"CBGOClearAndSet", 0>>>>, <<<<"CBGOClearAndSet", 0>>, <<"CBGOAdd", 0>>, <<"CBGOAdd", 3>>>>,
                <<<<"CBGOClearAndSet", 0>>, <<"CBGOSetZero", 1>>, <<"CBGOSet", 2>>>>}
      Adds(a) == \A k \in DOMAIN a : a[k][1] = "CBGOAdd"
      Residuals(n, u) == [i \in 1 .. n |-> 100 * u + i]
      Operations(n, first, scale, a) ==
        [k \in DOMAIN a |-> [operation |-> a[k][1], tuIndex |-> first + scale * a[k][2],
                             residuals |-> Residuals(n, first + scale * a[k][2])]]
      OfBlocks(n, size, scale, b) == Operations(n, 0, scale, b[1]) \o Operations(n, size, scale, b[2])
                                     \o Operations(n, 2 * size, scale, b[3])
      GpuJob(n, size, scale, b, raster) ==
        [layers |-> n, tuRasterOrder |-> raster, capacity |-> 4, residuals |-> 2 * n, units |-> 3 * size,
         operations |-> OfBlocks(n, size, scale, b)]
  IN  {GpuJob(16, BlockTus, 1, b, FALSE) : b \in [1 .. 3 -> Asked]}
      \cup {GpuJob(4, 4 * BlockTus, scale, b, FALSE) : b \in [1 .. 3 -> Asked], scale \in {1, 5}}
      \cup {GpuJob(n, 4 * BlockTus, 5, b, TRUE) : n \in {4, 16}, b \in [1 .. 3 -> {a \in Asked : Adds(a)}]}

\* Frames: the planes of the picture and of the stream, both levels scaled or not
\* and with data or not, one or two tiles; and frames that are passed through,
\* scaled or as they are, before the first configuration or after.
Frames ==
  LET Filled(f) == [f EXCEPT !.scaled = [l \in {0, 1} |-> l \in f.scaled], !.loqEnabled = [l \in {0, 1} |-> l \in f.loqEnabled]]
      Counts == {<<1, 1>>, <<3, 1>>, <<3, 3>>}
      WithData ==
        {[numImagePlanes |-> p[1], numPlanes |-> p[2], scaled |-> s, loqEnabled |-> e, tiles |-> t, temporalEnabled |-> m,
          frameConfigSet |-> TRUE, passthrough |-> FALSE, passthroughMode |-> "Disable", initialized |-> TRUE, hasBase |-> TRUE] :
            p \in Counts, s \in SUBSET {0, 1}, e \in SUBSET {0, 1}, t \in {<<1, 1>>, <<2, 1>>, <<2, 2>>}, m \in BOOLEAN}
      Passed ==
        {[numImagePlanes |-> p[1], numPlanes |-> p[2], scaled |-> s, loqEnabled |-> {}, tiles |-> <<1, 1>>, temporalEnabled |-> TRUE,
          frameConfigSet |-> FALSE, passthrough |-> TRUE, passthroughMode |-> m, initialized |-> i, hasBase |-> b] :
            p \in Counts, s \in SUBSET {0, 1}, m \in {"Disable", "Allow", "Scale"}, i \in BOOLEAN, b \in BOOLEAN}
  IN  {Filled(f) : f \in WithData \cup Passed}

-----------------------------------------------------------------------------
Nothing == [of |-> "nothing"]
NoJob == [tiles |-> <<>>]
Inputs ==
  CASE subject = "units"  -> UnitStates
    [] subject = "layout" -> {g \in Settings : Layout!ConfigAccepted(g)}
    [] subject = "upscale" -> Jobs
    [] subject = "transform" -> Transformable
    [] subject = "apply"  -> Units
    [] subject = "clear"  -> Blocks
    [] subject = "blit"   -> Blits
    [] subject = "legacyBlit" -> SevenBits
    [] subject = "legacyUpscale" -> LegacyJobs
    [] subject = "kernel" -> KernelSettings
    [] subject = "chunk"  -> Chunks
    [] subject = "stream" -> Readings
    [] subject = "parallel" -> ParallelJobs
    [] subject = "nal"    -> AccessUnits
    [] subject = "syntax" -> PayloadJobs
    [] subject = "legacyCommands" -> LegacyCommandLists
    [] subject = "gpu"    -> GpuJobs
    [] subject = "frame"  -> Frames
    [] OTHER              -> {}

EnhancementInit ==
  /\ subject \in {"decode", "legacyDecode", "commands", "units", "layout", "upscale", "transform", "apply", "clear", "blit",
                 "legacyUpscale", "legacyBlit", "kernel", "chunk", "stream", "parallel", "nal", "syntax",
                 "legacyCommands", "gpu", "frame"}
  /\ Buffer!Init
  /\ IF subject = "legacyDecode" THEN LegacyInit
     ELSE Init /\ job = NoJob /\ tileIndex = 1 /\ res = 0
  /\ subject \notin {"decode", "legacyDecode"} => tile = Sized(5, 3, 1, LOQ0, TRUE, TRUE, TRUE, FALSE, FALSE)
  /\ input = Nothing

\* The subjects that are functions have one step, which picks what they are given.
Give ==
  /\ input = Nothing
  /\ input' \in Inputs
  /\ UNCHANGED <<subject, vars, legacyDecodeVars, commandVars>>

EnhancementNext ==
  \/ Give
  \/ subject = "decode" /\ Next /\ UNCHANGED <<subject, input, legacyDecodeVars, commandVars>>
  \/ subject = "legacyDecode" /\ LegacyNext /\ UNCHANGED <<subject, input, commandVars>>
  \/ subject = "commands" /\ Buffer!Next /\ UNCHANGED <<subject, input, vars, legacyDecodeVars>>

EnhancementSpec == EnhancementInit /\ [][EnhancementNext]_<<subject, input, vars, legacyDecodeVars, commandVars>>

-----------------------------------------------------------------------------
(* The properties are those of the components.                             *)
Given(name) == subject = name /\ input # Nothing
\* Each unit of a tile is visited once and named the same in every way of
\* counting; each tile of a plane, and each chunk of a tile, is a place of its own.
LayoutSound ==
  /\ Given("units") => BlockRasterVisits(input) /\ AlignedIndexRoundTrips(input)
  /\ Given("layout") =>
       /\ Layout!TilesCoverPlanes(input)
       /\ \A f \in FrameSettings : Layout!FrameParsed(input, f) => Layout!ChunksDistinct(input, f)
PathsAgree ==
  input # Nothing =>
  CASE subject = "upscale"   -> Upscaling!PathsAgree(input)
    [] subject = "transform" -> Transforming!TransformsAgree(input) /\ LegacyPixels!LegacyTransforms(input)
    [] subject = "apply"     -> Writes!CommandsAgree(input) /\ LegacyPixels!LegacyCommands(input) /\ LegacyPixels!LegacyDirect(input)
    [] subject = "clear"     -> Writes!ClearsAgree(input) /\ LegacyPixels!LegacyClears(input)
    [] subject = "blit"      -> Writes!BlitsAgree(input) /\ (~input.isNV12 => LegacyPixels!LegacyBlits(input))
    [] subject = "legacyUpscale" -> LegacyPixels!LegacyUpscales(input)
    [] subject = "legacyBlit" -> LegacyPixels!LegacyBlits(input)
    [] subject = "kernel"    -> LegacyPixels!AveragesOnce(input)
    [] subject = "chunk"     -> Writing!ChunkRead(input) /\ Writing!LegacyChunkRead(input)
    [] subject = "stream"    ->
         IF "fields" \in DOMAIN input THEN Writing!BytesRead(input)
         ELSE Writing!BitsRead(input) /\ Writing!LegacyBitsRead(input)
    [] subject = "parallel"  -> ParallelDecodes(input)
    [] subject = "nal"       -> NalUnits!DataComesBack(input)
    [] subject = "syntax"    -> Writing!PayloadsRead(input.payloads)
    [] subject = "legacyCommands" -> Buffer!LegacySlicesApart(input)
    [] subject = "gpu"       -> Buffer!GpuAppliesEach(input)
    [] OTHER                 -> TRUE
\* What tasks write at the same time is apart: the slices of a command buffer, and
\* the tasks of a frame, which also do their work in the order it needs.
WritesApart ==
  /\ Buffer!SlicesApart
  /\ Given("frame") => FrameWork!TasksOrdered(input)
=============================================================================
