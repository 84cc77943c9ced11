------------------------------- MODULE Syntax -------------------------------
(***************************************************************************)
(* The syntax of a payload: which bits of it are which setting.            *)
(* enhancement/src/config_parser.c, chunk_parser.c, tile_parser.c          *)
(*                                                                         *)
(* ConfigParser has what the blocks of a payload mean for the next ones;   *)
(* here are their bytes.  A parser goes from one state p to the next: it   *)
(* has the stream, the settings s of all pictures, those of this one, c,   *)
(* and the flags f of the block, which say what else is in it.             *)
(* Settings are the numbers that are signalled.                            *)
(***************************************************************************)
EXTENDS Streams, Huffman

LOCAL INSTANCE SequencesExt
LOCAL Layout == INSTANCE TileLayout

Number(bits) == Folded(LAMBDA n, b : 2 * n + b, 0, bits)
Part(bits, first, last) == Number(SubSeq(bits, first, last))
Fits(bits, width) == \A i \in 1 .. Len(bits) - width : bits[i] = 0

Failed(p) == [p EXCEPT !.ok = FALSE]
When(condition, p, next) == IF p.ok /\ condition THEN next ELSE p
After(p, read, next) == IF ~p.ok THEN p ELSE IF read.ok THEN [next EXCEPT !.stream = read.stream] ELSE Failed(p)

\* One after the other, until one fails; v is p with its bits.
Each(op(_, _), p, s) == Folded(LAMBDA q, e : IF q.ok THEN op(q, e) ELSE q, p, s)
EachOfBits(op(_, _), v, s) == Folded(LAMBDA w, e : IF w.p.ok THEN op(w, e) ELSE w, v, s)

\* What is made of the next bytes, or of a number that tells its length.
Took(p, numBytes, use(_)) ==
  LET of(read) == After(p, read, use(read.out)) IN of(BytestreamReadNumber(p.stream, numBytes))
TookMultiByte(p, use(_)) ==
  LET of(read) == After(p, read, use(read.out)) IN of(BytestreamReadMultiByte(p.stream))
Sought(p, size) == After(p, BytestreamSeek(p.stream, size), p)

-----------------------------------------------------------------------------
BitstreamVersionAlignWithSpec == 2
BitstreamVersionCurrent == BitstreamVersionAlignWithSpec
BitstreamVersionUnspecified == BitstreamVersionCurrent + 1
LOQs == <<0, 1>>
QMaxStepWidth == 32767
kDefaultDeblockCoefficient == 16
kDefaultTemporalStepWidthModifier == 48
kDefaultChromaStepWidthMultiplier == 64
USLinear == 1
USAdaptiveCubic == 4
TDTNone == 0
TDTCustom == 3
PTField == 1
VuiNumbers == {"aspectRatioIdc", "sarWidth", "sarHeight", "videoFormat", "colourPrimaries",
               "transferCharacteristics", "matrixCoefficients", "chromaTop", "chromaBottom"}

kResolutions ==
  <<<<360, 200>>, <<400, 240>>, <<480, 320>>, <<640, 360>>, <<640, 480>>,
    <<768, 480>>, <<800, 600>>, <<852, 480>>, <<854, 480>>, <<856, 480>>, <<960, 540>>,
    <<960, 640>>, <<1024, 576>>, <<1024, 600>>, <<1024, 768>>, <<1152, 864>>, <<1280, 720>>,
    <<1280, 800>>, <<1280, 1024>>, <<1360, 768>>, <<1366, 768>>, <<1400, 1050>>, <<1440, 900>>,
    <<1600, 1200>>, <<1680, 1050>>, <<1920, 1080>>, <<1920, 1200>>, <<2048, 1080>>, <<2048, 1152>>,
    <<2048, 1536>>, <<2160, 1440>>, <<2560, 1440>>, <<2560, 1600>>, <<2560, 2048>>, <<3200, 1800>>,
    <<3200, 2048>>, <<3200, 2400>>, <<3440, 1440>>, <<3840, 1600>>, <<3840, 2160>>, <<3840, 2400>>,
    <<4096, 2160>>, <<4096, 3072>>, <<5120, 2880>>, <<5120, 3200>>, <<5120, 4096>>, <<6400, 4096>>,
    <<6400, 4800>>, <<7680, 4320>>, <<7680, 4800>>>>
kResolutionCustom == 63

\* The matrices of the standard, by level; only those of one dimension differ in LOQ-0.
kQuantMatrixDefaultDDS ==
  <<<<13, 26, 19, 32, 52, 1, 78, 9, 26, 72, 0, 3, 150, 91, 91, 19>>,
    <<0, 0, 0, 2, 52, 1, 78, 9, 26, 72, 0, 3, 150, 91, 91, 19>>>>
kQuantMatrixDefaultDDS1D == <<13, 26, 19, 32, 52, 1, 78, 9, 13, 26, 19, 32, 150, 91, 91, 19>>
kQuantMatrixDefaultDD == <<<<32, 3, 0, 32>>, <<0, 3, 0, 32>>>>
kQuantMatrixDefaultDD1D == <<0, 2, 0, 0>>

quantMatrixGetDefault(scaling, transform, loq) ==
  CASE scaling = 1 /\ loq = 0 -> IF transform = 1 THEN kQuantMatrixDefaultDDS1D ELSE kQuantMatrixDefaultDD1D
    [] OTHER -> IF transform = 1 THEN kQuantMatrixDefaultDDS[loq + 1] ELSE kQuantMatrixDefaultDD[loq + 1]

\* The first values of a matrix change, those behind them stay.
Replaced(matrix, values) == values \o SubSeq(matrix, Len(values) + 1, 16)

-----------------------------------------------------------------------------
(* Settings before the first payload.                                      *)

Window(n) == [left |-> n, right |-> n, top |-> n, bottom |-> n]
ldeGlobalConfigInitialize(forceBitstreamVersion) ==
  [initialized |-> FALSE,
   versionSet |-> forceBitstreamVersion # BitstreamVersionUnspecified,
   version |-> IF forceBitstreamVersion = BitstreamVersionUnspecified
               THEN BitstreamVersionCurrent ELSE forceBitstreamVersion,
   cropEnabled |-> 0, crop |-> Window(0), width |-> 0, height |-> 0,
   transform |-> 0, numLayers |-> 0, numPlanes |-> 0, chroma |-> 1,
   baseDepth |-> 0, enhancedDepth |-> 0, loq1UseEnhancedDepth |-> 0, predictedAverage |-> 0,
   reducedSignalling |-> 0, temporalEnabled |-> 0, upscale |-> USLinear, kernel |-> <<>>,
   scalingModes |-> <<2, 0>>, userData |-> [enabled |-> FALSE, layerIndex |-> 0, shift |-> 0],
   deblock |-> [corner |-> 0, side |-> 0],
   tileDimensions |-> 0, tileWidth |-> 0, tileHeight |-> 0, perTileCompression |-> 0, tileSizeCompression |-> 0,
   multiplier |-> kDefaultChromaStepWidthMultiplier, modifier |-> kDefaultTemporalStepWidthModifier,
   hdr |-> {}, masteringDisplay |-> <<>>, contentLightLevel |-> <<>>, tonemapper |-> <<0, 0>>,
   deinterlacing |-> <<0, 0>>, vuiFlags |-> {}, vui |-> [name \in VuiNumbers |-> 0]]

ldeFrameConfigInitialize ==
  [globalConfigSet |-> FALSE, frameConfigSet |-> FALSE, idr |-> FALSE, entropyEnabled |-> FALSE,
   pictureType |-> 0, fieldType |-> 0, temporalRefresh |-> 0, temporalSignalling |-> 0,
   stepWidths |-> <<0, 0>>, deblockEnabled |-> 0,
   quantMatrix |-> [set |-> FALSE, values |-> <<Zeroes(16), Zeroes(16)>>],
   dequantOffsetMode |-> 0, dequantOffset |-> 0,
   ditherEnabled |-> 0, ditherType |-> 0, ditherStrength |-> 0, sharpen |-> <<>>,
   loqEnabled |-> <<FALSE, FALSE>>, chunks |-> <<>>]

\* What the flags of a block say of the rest of it.
NoFlags == [size |-> 0, extended |-> FALSE, planeMode |-> 0, resType |-> 0, modifierSignalled |-> 0,
            deblockSignalled |-> 0, multiplierSignalled |-> 0,
            qmMode |-> 0, stepWidthLOQ1 |-> 0, dequantOffset |-> 0, ditherControl |-> FALSE,
            type |-> 0, sizeSignal |-> 0, rle |-> [symbol |-> 0, run |-> 0], sizes |-> <<>>]

-----------------------------------------------------------------------------
(* The block of the sequence.                                              *)

parseConformanceValue(p, side) ==
  TookMultiByte(p, LAMBDA value : IF Fits(value, 16) THEN [p EXCEPT !.s.crop[side] = Number(value)] ELSE Failed(p))

parseBlockSequenceConfig(p) ==
  LET profile(q)  == Took(q, 1, LAMBDA b : [q EXCEPT !.f.extended = Part(b, 1, 4) = 15 \/ Part(b, 5, 8) = 15])
      flags(q)    == Took(q, 1, LAMBDA b : [q EXCEPT !.s.cropEnabled = b[3]])
      extended(q) == When(q.f.extended, q, Took(q, 1, LAMBDA b : q))
      window(q)   == When(q.s.cropEnabled = 1, q,
                          Each(parseConformanceValue, q, <<"left", "right", "top", "bottom">>))
  IN  window(extended(flags(profile(p))))

-----------------------------------------------------------------------------
(* The block of global settings, byte for byte.                            *)

ReadResolution(p) ==
  Took(p, 1, LAMBDA b :
    LET resType == Part(b, 2, 7)
        q == [p EXCEPT !.f.planeMode = b[1], !.f.resType = resType, !.s.transform = b[8],
                       !.s.numLayers = IF b[8] = 1 THEN 16 ELSE 4]
    IN  CASE resType \in DOMAIN kResolutions -> [q EXCEPT !.s.width = kResolutions[resType][1],
                                                          !.s.height = kResolutions[resType][2]]
          [] resType = kResolutionCustom -> q
          [] OTHER -> Failed(p))

ReadDepths(p) ==
  Took(p, 1, LAMBDA b :
    [p EXCEPT !.s.chroma = Part(b, 1, 2), !.s.baseDepth = Part(b, 3, 4), !.s.enhancedDepth = Part(b, 5, 6),
              !.f.modifierSignalled = b[7], !.s.predictedAverage = b[8]])

ReadTemporal(p) ==
  Took(p, 1, LAMBDA b :
    LET q == [p EXCEPT !.s.reducedSignalling = b[1], !.s.temporalEnabled = b[2]]
        upsample == Part(b, 3, 5)
    IN  IF upsample > USAdaptiveCubic THEN Failed(q)
        ELSE [q EXCEPT !.s.upscale = upsample, !.f.deblockSignalled = b[6], !.s.scalingModes[2] = Part(b, 7, 8)])

setUserDataConfig(transform, mode) ==
  IF mode = 0 THEN [enabled |-> FALSE, layerIndex |-> 0, shift |-> 0]
  ELSE [enabled |-> TRUE, layerIndex |-> IF transform = 1 THEN 5 ELSE 1, shift |-> IF mode = 1 THEN 2 ELSE 6]

ReadTiling(p) ==
  Took(p, 1, LAMBDA b :
    [p EXCEPT !.s.scalingModes[1] = Part(b, 1, 2), !.s.tileDimensions = Part(b, 3, 4),
              !.s.userData = setUserDataConfig(p.s.transform, Part(b, 5, 6)),
              !.s.loq1UseEnhancedDepth = b[7], !.f.multiplierSignalled = b[8]])

isDepthConfigSupported(p) == When(p.s.enhancedDepth < p.s.baseDepth, p, Failed(p))

parseGlobalConfigGetNumPlanes(p) ==
  IF p.ok /\ p.f.planeMode = 0 THEN [p EXCEPT !.s.numPlanes = 1]
  ELSE Took(p, 1, LAMBDA b :
         LET type == Part(b, 1, 4)
         IN  IF type \in {0, 1} THEN [p EXCEPT !.s.numPlanes = IF type = 0 THEN 1 ELSE 3] ELSE Failed(p))

ReadModifier(p) ==
  When(p.f.modifierSignalled = 1, p, Took(p, 1, LAMBDA b : [p EXCEPT !.s.modifier = Number(b)]))

\* A coefficient is of 16 bits, and the negated one of the outer two is too.
KernelCoefficient(i, bits) ==
  LET value == IF i \in {1, 4} THEN -Number(bits) ELSE Number(bits)
  IN  ((value + 32768) % 65536) - 32768
ReadKernel(p) ==
  LET coefficient(q, i) ==
        Took(q, 2, LAMBDA b : [q EXCEPT !.s.kernel = (IF i = 1 THEN <<>> ELSE @) \o <<KernelCoefficient(i, b)>>])
  IN  When(p.s.upscale = USAdaptiveCubic, p, Each(coefficient, p, <<1, 2, 3, 4>>))
KernelOfStandard(p) == When(p.s.upscale # USAdaptiveCubic, p, [p EXCEPT !.s.kernel = <<>>])

ReadDeblocking(p) ==
  IF p.ok /\ p.f.deblockSignalled = 0
  THEN [p EXCEPT !.s.deblock = [corner |-> kDefaultDeblockCoefficient, side |-> kDefaultDeblockCoefficient]]
  ELSE Took(p, 1, LAMBDA b : [p EXCEPT !.s.deblock = [corner |-> 16 - Part(b, 1, 4), side |-> 16 - Part(b, 5, 8)]])

tileDimensionsFromType(type) == IF type = 1 THEN <<512, 256>> ELSE <<1024, 512>>

parseBlockGlobalConfigTiles(p) ==
  LET width(q)       == Took(q, 2, LAMBDA b : [q EXCEPT !.s.tileWidth = Number(b)])
      height(q)      == Took(q, 2, LAMBDA b : [q EXCEPT !.s.tileHeight = Number(b)])
      fixed(q, size) == [q EXCEPT !.s.tileWidth = size[1], !.s.tileHeight = size[2]]
      sized(q)       == IF q.s.tileDimensions = TDTCustom THEN height(width(q))
                        ELSE fixed(q, tileDimensionsFromType(q.s.tileDimensions))
      compression(q) == Took(q, 1, LAMBDA b : [q EXCEPT !.s.perTileCompression = b[6],
                                                        !.s.tileSizeCompression = Part(b, 7, 8)])
  IN  When(p.s.tileDimensions # TDTNone, p, compression(sized(p)))

ReadCustomResolution(p) ==
  LET width(q)  == Took(q, 2, LAMBDA b : [q EXCEPT !.s.width = Number(b)])
      height(q) == Took(q, 2, LAMBDA b : [q EXCEPT !.s.height = Number(b)])
  IN  When(p.f.resType = kResolutionCustom, p, height(width(p)))

ReadMultiplier(p) ==
  When(p.f.multiplierSignalled = 1, p, Took(p, 1, LAMBDA b : [p EXCEPT !.s.multiplier = Number(b)]))

\* The configuration as that module has it.
LayoutOf(s) ==
  [width |-> s.width, height |-> s.height,
   scalingModes |-> [loq \in {0, 1} |-> <<"0D", "1D", "2D">>[s.scalingModes[loq + 1] + 1]],
   chroma |-> <<"mono", "420", "422", "444">>[s.chroma + 1], numPlanes |-> s.numPlanes,
   tuSize |-> IF s.transform = 1 THEN 4 ELSE 2, numLayers |-> s.numLayers,
   tileWidth |-> s.tileWidth, tileHeight |-> s.tileHeight, temporalEnabled |-> s.temporalEnabled = 1]
NumTiles(s, plane, loq) == Layout!NumTiles(LayoutOf(s), plane, loq)

validateResolution(p) == When(~Layout!ResolutionAligned(LayoutOf(p.s)), p, Failed(p))

postParseInitBlockGlobalConfig(p) ==
  LET sideways(s) == IF s.chroma \in {1, 2} THEN 2 ELSE 1
      upright(s)  == IF s.chroma = 1 THEN 2 ELSE 1
      whole(q)    == When(q.s.tileDimensions = TDTNone, q,
                          [q EXCEPT !.s.tileWidth = q.s.width, !.s.tileHeight = q.s.height])
      scaled(c, w, h) == [left |-> (c.left * w) % 65536, right |-> (c.right * w) % 65536,
                          top  |-> (c.top * h) % 65536, bottom |-> (c.bottom * h) % 65536]
      cropped(q, crop) == [q EXCEPT !.s.crop = crop, !.ok = /\ crop.left + crop.right < q.s.width
                                                            /\ crop.top + crop.bottom < q.s.height]
      window(q) == When(q.s.cropEnabled = 1, q, cropped(q, scaled(q.s.crop, sideways(q.s), upright(q.s))))
  IN  window(whole(p))

calculateTileConfiguration(p) == When(~Layout!TileCountsValid(LayoutOf(p.s)), p, Failed(p))

\* Everything that is signalled, in order.
ReadGlobalConfig(p) ==
  LET version == [p EXCEPT !.s.version = IF p.s.versionSet THEN @ ELSE BitstreamVersionCurrent, !.s.versionSet = TRUE]
      flags   == isDepthConfigSupported(ReadTiling(ReadTemporal(ReadDepths(ReadResolution(version)))))
      kernel  == ReadKernel(ReadModifier(parseGlobalConfigGetNumPlanes(flags)))
  IN  ReadMultiplier(ReadCustomResolution(parseBlockGlobalConfigTiles(ReadDeblocking(kernel))))

parseBlockGlobalConfig(p) ==
  LET read    == KernelOfStandard(ReadGlobalConfig(p))
      done(q) == When(TRUE, q, [q EXCEPT !.s.initialized = TRUE])
  IN  done(calculateTileConfiguration(postParseInitBlockGlobalConfig(validateResolution(read))))

-----------------------------------------------------------------------------
(* The block of a picture.                                                 *)

QMMUsePrevious == 0
QMMUseDefault == 1
QMMCustomBoth == 2
QMMCustomLOQ0 == 3
QMMCustomLOQ1 == 4
QMMCustomBothUnique == 5

QuantMatrix(p, loq, values) == [p EXCEPT !.c.quantMatrix.values[loq + 1] = Replaced(@, values)]
quantMatrixSetDefault(p, loq) ==
  QuantMatrix(p, loq, quantMatrixGetDefault(p.s.scalingModes[1], p.s.transform, loq))
quantMatrixParseLOQ(p, loq) ==
  LET of(read) == After(p, read, QuantMatrix(p, loq, read.out)) IN of(BytestreamReadN8(p.stream, p.s.numLayers))

\* The matrix of before, if there is one and the frame may depend on it.
PreviousMatrix(p, loq) ==
  IF p.c.idr \/ ~p.c.quantMatrix.set THEN quantMatrixSetDefault(p, loq) ELSE p

parseQuantMatrixLOQ0(p) ==
  CASE p.f.qmMode \in {QMMUsePrevious, QMMCustomLOQ1} -> PreviousMatrix(p, 0)
    [] p.f.qmMode = QMMUseDefault -> quantMatrixSetDefault(p, 0)
    [] p.f.qmMode \in {QMMCustomLOQ0, QMMCustomBoth, QMMCustomBothUnique} -> quantMatrixParseLOQ(p, 0)
    [] OTHER -> Failed(p)
parseQuantMatrixLOQ1(p) ==
  CASE p.f.qmMode \in {QMMUsePrevious, QMMCustomLOQ0} -> PreviousMatrix(p, 1)
    [] p.f.qmMode = QMMUseDefault -> quantMatrixSetDefault(p, 1)
    [] p.f.qmMode \in {QMMCustomLOQ1, QMMCustomBothUnique} -> quantMatrixParseLOQ(p, 1)
    [] p.f.qmMode = QMMCustomBoth -> QuantMatrix(p, 1, SubSeq(p.c.quantMatrix.values[1], 1, p.s.numLayers))
    [] OTHER -> Failed(p)
parseBlockPictureConfigQuantMatrix(p) ==
  LET both(q) == IF q.ok THEN [q EXCEPT !.c.quantMatrix.set = TRUE] ELSE q
      loq1(q) == IF q.ok THEN parseQuantMatrixLOQ1(q) ELSE q
  IN  IF p.ok THEN both(loq1(parseQuantMatrixLOQ0(p))) ELSE p

ReadFieldType(p) ==
  When(p.c.pictureType = PTField, p, Took(p, 1, LAMBDA b : [p EXCEPT !.c.fieldType = b[1]]))
ReadStepWidthLOQ1(p) ==
  IF p.ok /\ p.f.stepWidthLOQ1 = 0 THEN [p EXCEPT !.c.stepWidths[2] = QMaxStepWidth]
  ELSE Took(p, 2, LAMBDA b : [p EXCEPT !.c.stepWidths[2] = Part(b, 1, 15), !.c.deblockEnabled = b[16]])
ReadDequantOffset(p) ==
  IF p.ok /\ p.f.dequantOffset = 0 THEN [p EXCEPT !.c.dequantOffset = -1]
  ELSE Took(p, 1, LAMBDA b : [p EXCEPT !.c.dequantOffsetMode = b[1], !.c.dequantOffset = Part(b, 2, 8)])

\* Since the standard, whether there is dithering lasts until it is said again, or
\* until the next IDR frame; before it, it was for the frame that said so.
DitherLasts(p) ==
  When(p.s.version >= BitstreamVersionAlignWithSpec /\ ~p.f.ditherControl /\ p.c.idr, p,
       [p EXCEPT !.c.ditherEnabled = 0])
ReadDither(p) ==
  When(p.c.ditherEnabled = 1 /\ (p.s.version >= BitstreamVersionAlignWithSpec \/ p.f.ditherControl), p,
       Took(p, 1, LAMBDA b : [p EXCEPT !.c.ditherType = Part(b, 1, 2),
                                       !.c.ditherStrength = IF Part(b, 1, 2) = 0 THEN @ ELSE Part(b, 4, 8)]))

parseBlockPictureConfigMisc(p) ==
  LET matrices(q) == parseBlockPictureConfigQuantMatrix(ReadStepWidthLOQ1(ReadFieldType(q)))
  IN  ReadDither(DitherLasts(ReadDequantOffset(matrices(p))))

\* What the first byte says of a picture with enhancement, and of one without it.
ReadEnhanced(p, b) ==
  LET flags(q) == [q EXCEPT !.f.qmMode = Part(b, 2, 4), !.f.dequantOffset = b[5], !.f.stepWidthLOQ1 = b[8],
                            !.c.pictureType = b[6], !.c.temporalRefresh = b[7],
                            !.c.temporalSignalling = IF q.s.temporalEnabled = 1 /\ b[7] = 0 THEN 1 ELSE 0]
      width(q) == Took(q, 2, LAMBDA w : [q EXCEPT !.c.stepWidths[1] = Part(w, 1, 15),
                                                  !.f.ditherControl = TRUE, !.c.ditherEnabled = w[16]])
  IN  width(flags(p))
ReadPlain(p, b) ==
  LET flags == [p EXCEPT !.c.pictureType = b[6], !.c.temporalRefresh = b[7], !.c.temporalSignalling = b[8]]
  IN  IF p.c.globalConfigSet THEN [flags EXCEPT !.c.ditherType = 0, !.c.ditherStrength = 0] ELSE flags

ReadPictureFlags(p) ==
  LET of(read) ==
        IF ~read.ok THEN Failed(p)
        ELSE LET q == [p EXCEPT !.stream = read.stream, !.c.entropyEnabled = read.out[1] = 0]
             IN  IF read.out[1] = 0 THEN ReadEnhanced(q, read.out) ELSE ReadPlain(q, read.out)
  IN  of(BytestreamReadNumber(p.stream, 1))

parseBlockPictureConfig(p) ==
  LET all(q)  == IF q.ok THEN [q EXCEPT !.c.frameConfigSet = TRUE] ELSE q
      rest(q) == When(q.s.version >= BitstreamVersionAlignWithSpec \/ q.c.entropyEnabled, q,
                      parseBlockPictureConfigMisc(q))
  IN  all(rest(ReadPictureFlags(p)))

-----------------------------------------------------------------------------
(* Additional information: of the colours, the display and the filter.     *)

SPT_MasteringDisplayColourVolume == 1
SPT_ContentLightLevelInfo == 2
SPT_UserDataRegistered == 4
kVNovaITU == <<180, 0, 80, 0>>
kVUIAspectRatioIDCExtendedSAR == 255

parseBlockFiller(p, size) == Sought(p, size)

\* Numbers of these many bytes, one behind the other.
Numbers(p, sizes, use(_, _)) ==
  Each(LAMBDA q, i : Took(q, sizes[i], LAMBDA b : use(q, b)), p, [i \in DOMAIN sizes |-> i])

ReadMasteringDisplay(p) ==
  LET all(q) == When(TRUE, q, [q EXCEPT !.s.hdr = @ \cup {"MasteringDisplayColourVolumePresent"}])
  IN  all(Numbers([p EXCEPT !.s.masteringDisplay = <<>>], <<2, 2, 2, 2, 2, 2, 2, 2, 4, 4>>,
                  LAMBDA q, b : [q EXCEPT !.s.masteringDisplay = Append(@, b)]))
ReadContentLightLevel(p) ==
  LET all(q) == When(TRUE, q, [q EXCEPT !.s.hdr = @ \cup {"ContentLightLevelInfoPresent"}])
  IN  all(Numbers([p EXCEPT !.s.contentLightLevel = <<>>], <<2, 2>>,
                  LAMBDA q, b : [q EXCEPT !.s.contentLightLevel = Append(@, b)]))

ReadVersion(p) ==
  LET of(b) == IF Number(b) \in 0 .. BitstreamVersionCurrent
               THEN [p EXCEPT !.s.version = Number(b), !.s.versionSet = TRUE]
               ELSE Failed([p EXCEPT !.s.version = Number(b)])
  IN  IF p.s.versionSet THEN Sought(p, 1) ELSE Took(p, 1, of)

\* The code of the country alone tells that the data are of somebody else.
ReadUserData(p, size) ==
  LET code(read) ==
        IF ~read.ok THEN Failed(p)
        ELSE LET q == [p EXCEPT !.stream = read.stream]
             IN  IF read.out = kVNovaITU THEN ReadVersion(q) ELSE Sought(q, size - Len(kVNovaITU))
      country(read) ==
        IF ~read.ok THEN Failed(p)
        ELSE IF read.out[1] = kVNovaITU[1] THEN code(BytestreamReadN8(p.stream, Len(kVNovaITU)))
        ELSE Sought([p EXCEPT !.stream = read.stream], size - 1)
  IN  country(BytestreamReadN8(p.stream, 1))

\* size counts the byte of the type, which those that skip do not.
parseSEIPayload(p, size) ==
  LET of(q, type) == CASE type = SPT_MasteringDisplayColourVolume -> ReadMasteringDisplay(q)
                       [] type = SPT_ContentLightLevelInfo        -> ReadContentLightLevel(q)
                       [] type = SPT_UserDataRegistered           -> ReadUserData(q, size)
                       [] OTHER                                   -> Sought(q, size - 1)
      typed(read) == IF read.ok THEN of([p EXCEPT !.stream = read.stream], read.out[1]) ELSE Failed(p)
  IN  typed(BytestreamReadN8(p.stream, 1))

\* The bits of a field: one, several, or, if none are told, a code that tells.
FieldRead(bits, width) ==
  CASE width = 1 -> BitstreamReadBit(bits)
    [] width = 0 -> BitstreamReadExpGolomb(bits)
    [] OTHER     -> BitstreamReadBits(bits, width)

\* v is p while the bits of a field are read, with their stream, and with the last flag.
VuiField(v, name, width) ==
  LET value(out) == IF width = 0 THEN Number(out) - 1 ELSE Number(out)
      of(read) == IF read.ok THEN [v EXCEPT !.bits = read.stream, !.p.s.vui[name] = value(read.out)]
                  ELSE [v EXCEPT !.p.ok = FALSE]
  IN  IF v.p.ok THEN of(FieldRead(v.bits, width)) ELSE v
VuiFields(v, names, width) == EachOfBits(LAMBDA w, name : VuiField(w, name, width), v, names)
VuiFlag(v, flag) ==
  LET of(read) == IF ~read.ok THEN [v EXCEPT !.p.ok = FALSE]
                  ELSE [v EXCEPT !.bits = read.stream, !.told = read.out[1] = 1,
                                 !.p.s.vuiFlags = IF read.out[1] = 1 THEN @ \cup {flag} ELSE @]
  IN  IF v.p.ok THEN of(BitstreamReadBit(v.bits)) ELSE v
Told(v, next) == IF v.p.ok /\ v.told THEN next ELSE v

VuiSize(v) == IF v.p.ok /\ v.p.s.vui["aspectRatioIdc"] = kVUIAspectRatioIDCExtendedSAR
              THEN VuiFields(v, <<"sarWidth", "sarHeight">>, 16) ELSE v
VuiAspect(v) ==
  LET of(w) == Told(w, VuiSize(VuiField(w, "aspectRatioIdc", 8))) IN of(VuiFlag(v, "AspectRatioInfoPresent"))
VuiOverscan(v) ==
  LET of(w) == Told(w, VuiFlag(w, "OverscanAppropriate")) IN of(VuiFlag(v, "OverscanInfoPresent"))
VuiColours(v) ==
  LET of(w) == Told(w, VuiFields(w, <<"colourPrimaries", "transferCharacteristics", "matrixCoefficients">>, 8))
  IN  of(VuiFlag(v, "VideoSignalColorDescPresent"))
VuiSignal(v) ==
  LET of(w) == Told(w, VuiColours(VuiFlag(VuiField(w, "videoFormat", 3), "VideoSignalFullRange")))
  IN  of(VuiFlag(v, "VideoSignalTypePresent"))
VuiChroma(v) ==
  LET of(w) == Told(w, VuiFields(w, <<"chromaTop", "chromaBottom">>, 0)) IN of(VuiFlag(v, "ChromaLocInfoPresent"))

VuiOf(p, read) ==
  IF read.ok THEN VuiChroma(VuiSignal(VuiOverscan(VuiAspect([p |-> p, bits |-> read.stream, told |-> FALSE])))).p ELSE Failed(p)
parseVUIParameters(p, vuiSize) ==
  Sought(VuiOf(p, BitstreamInitialize(SubSeq(p.stream.data, p.stream.offset + 1, p.stream.offset + vuiSize))), vuiSize)

parseSFilterPayload(p) ==
  Took(p, 1, LAMBDA b : [p EXCEPT !.c.sharpen = <<Part(b, 1, 3), Part(b, 4, 8) + 1>>])

\* The tone mapper, whose data are passed over, and the deinterlacer.
ReadToneMapper(p, b) ==
  LET sized(q)    == IF b[7] = 0 THEN q
                     ELSE LET of(read) == IF read.ok THEN Sought([q EXCEPT !.stream = read.stream], Number(read.out))
                                          ELSE Failed(q)
                          IN  of(BytestreamReadMultiByte(q.stream))
      type(q, n)  == [q EXCEPT !.s.tonemapper[b[1] + 1] = n,
                               !.s.hdr = @ \cup {"PayloadGlobalConfigPresent"}
                                           \cup (IF b[7] = 1 THEN {"ToneMapperDataPresent"} ELSE {})]
      typed(q)    == IF q.ok /\ Part(b, 2, 6) = 31 THEN Took(q, 1, LAMBDA t : type(q, Number(t)))
                     ELSE When(TRUE, q, type(q, Part(b, 2, 6)))
  IN  typed(sized(p))
ReadDeinterlacer(p, b) ==
  When(b[8] = 1, p,
       Took(p, 1, LAMBDA d : IF Part(d, 6, 8) # 0 THEN Failed(p)
                             ELSE [p EXCEPT !.s.hdr = @ \cup {"DeinterlacerEnabled"},
                                            !.s.deinterlacing = <<Part(d, 1, 4), d[5]>>]))
ReadHDRPayload(p) ==
  LET of(read) == IF ~read.ok THEN Failed(p)
                  ELSE ReadDeinterlacer(ReadToneMapper([p EXCEPT !.stream = read.stream], read.out), read.out)
  IN  of(BytestreamReadNumber(p.stream, 1))

\* It is read, and then refused whatever it is.
parseHDRPayload(p) == Failed(ReadHDRPayload(p))

AIT_SEI == 0
AIT_VUI == 1
AIT_SFilter == 23
AIT_HDR == 25

\* hdr is the parser of that payload.
InfoPayload(p, type, size, hdr(_)) ==
  CASE type = AIT_SEI     -> parseSEIPayload(p, size - 1)
    [] type = AIT_VUI     -> parseVUIParameters(p, size - 1)
    [] type = AIT_SFilter -> parseSFilterPayload(p)
    [] type = AIT_HDR     -> hdr(p)
    [] OTHER              -> Sought(p, size - 1)
InfoOf(p, read, size, hdr(_)) ==
  IF size = 0 \/ ~read.ok THEN Failed(p) ELSE InfoPayload([p EXCEPT !.stream = read.stream], read.out[1], size, hdr)
AdditionalInfo(p, size, hdr(_)) == InfoOf(p, BytestreamReadN8(p.stream, 1), size, hdr)
parseBlockAdditionalInfo(p, size) == AdditionalInfo(p, size, parseHDRPayload)

-----------------------------------------------------------------------------
(* The chunks of a payload, of one tile or of many, and the blocks it is   *)
(* made of.  A chunk has the byte at which its data begin.                 *)

BT_SequenceConfig == 0
BT_GlobalConfig == 1
BT_PictureConfig == 2
BT_EncodedData == 3
BT_EncodedDataTiled == 4
BT_AdditionalInfo == 5
BT_Filler == 6
BS_Custom == 7

NoChunk == [enabled |-> 0, rleOnly |-> 0, size |-> 0, at |-> Nowhere]
FrameOf(c) == [entropyEnabled |-> c.entropyEnabled, temporalRefresh |-> c.temporalRefresh = 1,
               temporalSignallingPresent |-> c.temporalSignalling = 1]

\* The chunks in the order they are written, in groups of those that share a plane, an
\* LOQ and a layer.  A picture with signals of time has a temporal layer to signal.
ChunkGroups(p, at, numTiles(_, _)) ==
  LET layer(plane, loq, n) ==
        [loq |-> loq, chunks |-> [t \in 1 .. numTiles(plane, loq) |->
                                    at.residual[plane + 1][loq] + (t - 1) * p.s.numLayers + n]]
      layers(plane, loq) == [n \in 1 .. p.s.numLayers |-> layer(plane, loq, n - 1)]
      temporal(plane)  == <<[loq |-> 0, chunks |-> [t \in 1 .. numTiles(plane, 0) |-> at.temporal[plane + 1] + (t - 1)]]>>
      residuals(plane) == IF p.c.entropyEnabled THEN layers(plane, 1) \o layers(plane, 0) ELSE <<>>
      of(plane) == residuals(plane) \o (IF p.c.temporalSignalling = 1 THEN temporal(plane) ELSE <<>>)
  IN  FlattenSeq([plane \in 1 .. p.s.numPlanes |-> of(plane - 1)])
AllChunks(groups) == FlattenSeq([n \in DOMAIN groups |-> groups[n].chunks])

\* Room for the chunks, if there are not as many.
chunkCheckAlloc(p) ==
  LET room(q, count) == IF DOMAIN q.c.chunks = 0 .. count - 1 THEN q
                        ELSE [q EXCEPT !.c.chunks = [i \in 0 .. count - 1 |-> NoChunk]]
  IN  room(p, Layout!ChunkCount(LayoutOf(p.s), FrameOf(p.c)))

HasSettings(p) == When(~(p.s.initialized /\ p.c.frameConfigSet), p, Failed(p))

-----------------------------------------------------------------------------
(* Flags: bits, which end with the byte, or runs.                          *)

\* all reads what it needs of the bits that follow; v is p with these bits.
InBits(p, all(_)) ==
  LET rest(s)  == SubSeq(s.data, s.offset + 1, Len(s.data))
      ended(v) == When(TRUE, v.p, [v.p EXCEPT !.stream = BytestreamSeek(@, BitstreamGetConsumedBytes(v.bits)).stream])
      of(read) == IF read.ok THEN ended(all([p |-> p, bits |-> read.stream])) ELSE Failed(p)
  IN  IF p.ok THEN of(BitstreamInitialize(rest(p.stream))) ELSE p

FlagOf(v, chunks, field) ==
  LET set(old, bit) == [i \in DOMAIN old |-> IF \E n \in DOMAIN chunks : chunks[n] = i
                                             THEN [old[i] EXCEPT ![field] = bit] ELSE old[i]]
      of(read) == IF read.ok THEN [v EXCEPT !.bits = read.stream, !.p.c.chunks = set(@, read.out[1])]
                  ELSE [v EXCEPT !.p.ok = FALSE]
  IN  IF v.p.ok THEN of(BitstreamReadBit(v.bits)) ELSE v

parseChunkFlags(v, chunks) ==
  EachOfBits(LAMBDA w, i : FlagOf(FlagOf(w, <<i>>, "enabled"), <<i>>, "rleOnly"), v, chunks)

tiledRLEDecoderInitialize(p) ==
  LET symbol(q) == Took(q, 1, LAMBDA b : IF Number(b) \in {0, 1} THEN [q EXCEPT !.f.rle.symbol = Number(b)] ELSE Failed(q))
      run(q)    == TookMultiByte(q, LAMBDA n : [q EXCEPT !.f.rle.run = Number(n)])
  IN  run(symbol(p))

\* Whether a chunk is enabled; empty is what becomes of a run of none.
RunRead(p, i, empty(_)) ==
  LET signalled(q) == [q EXCEPT !.c.chunks[i].enabled = q.f.rle.symbol, !.f.rle.run = @ - 1]
      flipped(q, n) == [q EXCEPT !.f.rle = [symbol |-> 1 - @.symbol, run |-> Number(n)]]
      next(q) == IF q.ok /\ q.f.rle.run = 0 THEN empty(q) ELSE When(TRUE, q, signalled(q))
  IN  IF p.ok /\ p.f.rle.run = 0 THEN next(TookMultiByte(p, LAMBDA n : flipped(p, n)))
      ELSE When(TRUE, p, signalled(p))
tiledRLEDecoderRead(p, i) == RunRead(p, i, LAMBDA q : q)

-----------------------------------------------------------------------------
(* Sizes: in front of the data, or for the tiles of a layer in a table of  *)
(* codes, as they are or as what they differ by.                           *)

TCSPTTNone == 0
TCSPTTPrefix == 1
TCSPTTPrefixOnDiff == 2

\* A table that is read by these functions.
SizesRead(p, numSizes, initialize(_, _, _), decode(_, _, _)) ==
  LET rest(s) == BitsOfBytes(SubSeq(s.data, s.offset + 1, Len(s.data)))
      signed  == p.s.tileSizeCompression # TCSPTTPrefix
      added(r, got) == IF got.ok THEN [ok |-> TRUE, stream |-> got.stream, sizes |-> Append(r.sizes, got.size)]
                       ELSE Unreadable
      all(r) == IF ~r.ok THEN r ELSE
        Each(LAMBDA q, i : added(q, decode([lsb |-> r.alphabets[1], msb |-> r.alphabets[2]], signed, q.stream)),
             [ok |-> TRUE, stream |-> r.stream, sizes |-> <<>>], [i \in 1 .. numSizes |-> i])
      summed(sizes) == Folded(LAMBDA s, d : Append(s, ((s[Len(s)] + d + 32768) % 65536) - 32768), <<sizes[1]>>, Tail(sizes))
      of(r) == IF ~r.ok THEN Failed(p)
               ELSE Sought([p EXCEPT !.f.sizes = IF p.s.tileSizeCompression = TCSPTTPrefixOnDiff THEN summed(r.sizes) ELSE r.sizes],
                           GetConsumedBytes(r.stream))
  IN  IF ~p.ok \/ numSizes = 0 THEN p
      ELSE of(all(initialize("EDTSize", HuffmanStreamInitialize(rest(p.stream)), p.s.version)))
tiledSizeDecoderInitialize(p, numSizes) == SizesRead(p, numSizes, ChunkInitialize, DecodeSize)

NoSize == -1
tiledSizeDecoderRead(p) == IF p.f.sizes = <<>> THEN NoSize ELSE p.f.sizes[1]

\* A chunk of this size begins here.
DataOf(p, i, loq, size) ==
  Sought([p EXCEPT !.c.loqEnabled[loq + 1] = TRUE, !.c.chunks[i].size = size,
                   !.c.chunks[i].at = BytestreamCurrent(p.stream)], size)
parseChunk(p, i, loq) ==
  LET listed(q) == IF tiledSizeDecoderRead(q) < 0 THEN Failed(q)
                   ELSE DataOf([q EXCEPT !.f.sizes = Tail(@)], i, loq, tiledSizeDecoderRead(q))
      told(q, read) == IF ~read.ok \/ ~Fits(read.out, 31) THEN Failed(q)
                       ELSE DataOf([q EXCEPT !.stream = read.stream], i, loq, Number(read.out))
      enabled(q) == IF q.s.tileSizeCompression # TCSPTTNone /\ q.f.type = BT_EncodedDataTiled THEN listed(q)
                    ELSE told(q, BytestreamReadMultiByte(q.stream))
  IN  CASE ~p.ok -> p
        [] p.ok /\ p.c.chunks[i].enabled = 0 -> [p EXCEPT !.c.chunks[i].size = 0]
        [] OTHER -> enabled(p)

-----------------------------------------------------------------------------
(* The block of the data, of one tile.                                     *)
ReadChunks(p, groups) ==
  LET flags(q) == InBits(q, LAMBDA v : parseChunkFlags(v, AllChunks(groups)))
      data(q)  == Each(LAMBDA r, g : parseChunk(r, g.chunks[1], g.loq), q, groups)
  IN  data(flags(p))

OneTile(plane, loq) == 1
Indices(p) == Layout!CalculateTileChunkIndices(LayoutOf(p.s), FrameOf(p.c))
Encoded(p) == IF p.ok THEN ReadChunks(chunkCheckAlloc(p), ChunkGroups(p, Indices(p), OneTile)) ELSE p
parseEncodedData(p) == Encoded(HasSettings(p))

\* Whether runs are all there is, of every layer at once.
ReadRleOnly(p, groups) ==
  InBits(p, LAMBDA v : EachOfBits(LAMBDA w, g : FlagOf(w, g.chunks, "rleOnly"), v, groups))
\* Whether a chunk is there, by a bit for each.
ReadEnabled(p, groups) ==
  InBits(p, LAMBDA v : EachOfBits(LAMBDA w, i : FlagOf(w, <<i>>, "enabled"), v, AllChunks(groups)))
NumChunksEnabled(p, g) == Len(SelectSeq(g.chunks, LAMBDA i : p.c.chunks[i].enabled = 1))
ReadLayerChunks(p, g) == Each(LAMBDA r, i : parseChunk(r, i, g.loq), p, g.chunks)

\* Of many tiles, whose flags and sizes are read by these functions.
ReadTiledChunks(p, groups, enabledRead(_, _), sizesRead(_, _)) ==
  LET enabled(q) == IF q.s.perTileCompression = 1
                    THEN Each(enabledRead, tiledRLEDecoderInitialize(q), AllChunks(groups))
                    ELSE ReadEnabled(q, groups)
      sized(q, g) == IF q.ok /\ q.s.tileSizeCompression # TCSPTTNone THEN sizesRead(q, NumChunksEnabled(q, g)) ELSE q
      data(q)    == Each(LAMBDA r, g : ReadLayerChunks(sized(r, g), g), q, groups)
  IN  IF groups = <<>> THEN p ELSE data(enabled(ReadRleOnly(p, groups)))

Tiled(p, enabledRead(_, _), sizesRead(_, _)) ==
  LET tiles(plane, loq) == NumTiles(p.s, plane, loq)
      sizes(q) == When(q.s.tileWidth = 0 \/ q.s.tileHeight = 0, q, Failed(q))
      of(q) == IF q.ok THEN ReadTiledChunks(chunkCheckAlloc(q), ChunkGroups(q, Indices(q), tiles), enabledRead, sizesRead)
               ELSE q
  IN  of(sizes(HasSettings(p)))
parseEncodedDataTiled(p) == Tiled(p, tiledRLEDecoderRead, tiledSizeDecoderInitialize)

-----------------------------------------------------------------------------
(* Blocks.                                                                 *)

BlockHeader(p) ==
  Took(p, 1, LAMBDA b : [p EXCEPT !.f = [NoFlags EXCEPT !.type = Part(b, 4, 8), !.sizeSignal = Part(b, 1, 3)]])
blockSizeFromEnum(p) ==
  IF p.f.sizeSignal <= 5 THEN [p EXCEPT !.f.size = p.f.sizeSignal] ELSE Failed(p)
BlockSize(p) ==
  IF p.ok /\ p.f.sizeSignal = BS_Custom
  THEN TookMultiByte(p, LAMBDA n : IF Fits(n, 32) THEN [p EXCEPT !.f.size = Number(n)] ELSE Failed(p))
  ELSE When(TRUE, p, blockSizeFromEnum(p))
Skip(p) == [p EXCEPT !.stream = BytestreamSeek(@, p.f.size).stream]

\* A block takes as many bytes as it says it has.
Block(p, body(_)) ==
  LET ended(q, at) == When(q.stream.offset - at # q.f.size, q, Failed(q))
      of(q) == IF q.ok THEN ended(body(q), q.stream.offset) ELSE q
  IN  of(BlockSize(BlockHeader(p)))

BlockBody(p) ==
  CASE p.f.type = BT_SequenceConfig   -> parseBlockSequenceConfig(p)
    [] p.f.type = BT_GlobalConfig     -> parseBlockGlobalConfig([p EXCEPT !.c.globalConfigSet = TRUE])
    [] p.f.type = BT_PictureConfig    -> parseBlockPictureConfig(p)
    [] p.f.type = BT_EncodedData      -> parseEncodedData(p)
    [] p.f.type = BT_EncodedDataTiled -> parseEncodedDataTiled(p)
    [] p.f.type = BT_AdditionalInfo   -> parseBlockAdditionalInfo(p, p.f.size)
    [] p.f.type = BT_Filler           -> parseBlockFiller(p, p.f.size)
    [] OTHER                          -> Skip(p)
parseBlock(p) == Block(p, BlockBody)

\* The settings of before, and what is kept of the last frame's.
ldeConfigReset(c) ==
  [c EXCEPT !.globalConfigSet = FALSE, !.frameConfigSet = FALSE, !.loqEnabled = <<FALSE, FALSE>>, !.chunks = <<>>]
\* Payloads of more blocks than this are not modelled.
MaxBlocks == 12
AllBlocks(p, block(_)) ==
  Each(LAMBDA q, n : When(BytestreamRemaining(q.stream) > 0, q, block(q)), p, [n \in 1 .. MaxBlocks |-> n])
ldeConfigsParse(s, c, idr, data) ==
  IF data = <<>> THEN [ok |-> FALSE, stream |-> BytestreamInitialize(data), s |-> s, c |-> c, f |-> NoFlags]
  ELSE AllBlocks([ok |-> TRUE, stream |-> BytestreamInitialize(data), s |-> s,
                  c |-> [ldeConfigReset(c) EXCEPT !.idr = idr], f |-> NoFlags], parseBlock)
=============================================================================
