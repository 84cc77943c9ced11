---------------------------- MODULE PayloadWriter ----------------------------
(***************************************************************************)
(* Payloads, as the standard has them written, and what they mean.  A      *)
(* field is a width and a value; something that need not be written is a   *)
(* sequence, which is empty then.                                          *)
(***************************************************************************)
EXTENDS LegacyCoding

LOCAL INSTANCE SequencesExt
LOCAL Layout == INSTANCE TileLayout

Fields(width, values) == [i \in DOMAIN values |-> <<width, values[i]>>]
Flag(option) == <<1, IF option = <<>> THEN 0 ELSE 1>>
Multi(n) == IF n < 128 THEN <<<<8, n>>>> ELSE <<<<8, 128 + (n \div 128)>>, <<8, n % 128>>>>
BitsOfFields(fields) == FlattenSeq([i \in DOMAIN fields |-> BitsOf(fields[i][2], fields[i][1])])
BytesOf(bits) ==
  LET whole == InBytes(bits) IN [n \in 1 .. Len(whole) \div 8 |-> Number(SubSeq(whole, 8 * n - 7, 8 * n))]
Written(fields) == BytesOf(BitsOfFields(fields))

BlockWritten(type, bytes) ==
  IF Len(bytes) <= 5 THEN <<32 * Len(bytes) + type>> \o bytes
  ELSE <<32 * BS_Custom + type>> \o Written(Multi(Len(bytes))) \o bytes

-----------------------------------------------------------------------------
(* Global settings.                                                        *)

TilingOf(tiling) == CASE tiling = <<>> -> 0 [] tiling = <<512, 256>> -> 1 [] tiling = <<1024, 512>> -> 2 [] OTHER -> 3

GlobalWritten(g) ==
  Written(<<Flag(g.planes), <<6, g.resolution>>, <<1, g.transform>>, <<2, g.chroma>>, <<2, g.baseDepth>>,
            <<2, g.enhancedDepth>>, Flag(g.modifier), <<1, g.predictedAverage>>, <<1, g.reducedSignalling>>,
            <<1, g.temporalEnabled>>, <<3, g.upscale>>, Flag(g.deblock), <<2, g.scaling[2]>>, <<2, g.scaling[1]>>,
            <<2, TilingOf(g.tiling)>>, <<2, g.userData>>, <<1, g.loq1Depth>>, Flag(g.multiplier)>>
          \o (IF g.planes = <<>> THEN <<>> ELSE <<<<4, g.planes[1]>>, <<4, 0>>>>)
          \o Fields(8, g.modifier) \o Fields(16, g.kernel) \o Fields(4, g.deblock)
          \o (IF TilingOf(g.tiling) = 3 THEN Fields(16, g.tiling) ELSE <<>>)
          \o (IF g.tiling = <<>> THEN <<>> ELSE <<<<5, 0>>, <<1, g.perTile>>, <<2, g.tileSizes>>>>)
          \o Fields(16, g.size) \o Fields(8, g.multiplier))

SizeMeant(g) == IF g.resolution \in DOMAIN kResolutions THEN kResolutions[g.resolution] ELSE g.size
CropMeant(crop, chroma) ==
  LET x == IF chroma \in {1, 2} THEN 2 ELSE 1
      y == IF chroma = 1 THEN 2 ELSE 1
  IN  [left |-> crop[1] * x, right |-> crop[2] * x, top |-> crop[3] * y, bottom |-> crop[4] * y]
GlobalMeant(s, g, crop) ==
  [s EXCEPT !.initialized = TRUE, !.versionSet = TRUE, !.transform = g.transform, !.numLayers = <<4, 16>>[g.transform + 1],
            !.width = SizeMeant(g)[1], !.height = SizeMeant(g)[2], !.chroma = g.chroma,
            !.numPlanes = IF g.planes = <<1>> THEN 3 ELSE 1,
            !.baseDepth = g.baseDepth, !.enhancedDepth = g.enhancedDepth, !.loq1UseEnhancedDepth = g.loq1Depth,
            !.predictedAverage = g.predictedAverage, !.reducedSignalling = g.reducedSignalling,
            !.temporalEnabled = g.temporalEnabled, !.upscale = g.upscale,
            !.kernel = IF g.kernel = <<>> THEN <<>> ELSE <<-g.kernel[1], g.kernel[2], g.kernel[3], -g.kernel[4]>>,
            !.scalingModes = g.scaling,
            !.userData = [enabled |-> g.userData > 0,
                          layerIndex |-> IF g.userData = 0 THEN 0 ELSE <<1, 5>>[g.transform + 1],
                          shift |-> <<0, 2, 6, 6>>[g.userData + 1]],
            !.deblock = IF g.deblock = <<>> THEN [corner |-> 16, side |-> 16]
                        ELSE [corner |-> 16 - g.deblock[1], side |-> 16 - g.deblock[2]],
            !.tileDimensions = TilingOf(g.tiling),
            !.tileWidth = (IF g.tiling = <<>> THEN SizeMeant(g) ELSE g.tiling)[1],
            !.tileHeight = (IF g.tiling = <<>> THEN SizeMeant(g) ELSE g.tiling)[2],
            !.perTileCompression = IF g.tiling = <<>> THEN @ ELSE g.perTile,
            !.tileSizeCompression = IF g.tiling = <<>> THEN @ ELSE g.tileSizes,
            !.multiplier = IF g.multiplier = <<>> THEN @ ELSE g.multiplier[1],
            !.modifier = IF g.modifier = <<>> THEN @ ELSE g.modifier[1],
            !.cropEnabled = IF crop = <<>> THEN @ ELSE 1,
            !.crop = IF crop = <<>> THEN @ ELSE CropMeant(crop, g.chroma)]

\* What a decoder can do: whole transforms in tiles that match, and planes that are there.
GlobalValid(g, crop) ==
  LET window == CropMeant(crop, g.chroma)
      layout == LayoutOf(GlobalMeant(ldeGlobalConfigInitialize(BitstreamVersionUnspecified), g, <<>>))
  IN  /\ g.resolution \in DOMAIN kResolutions \cup {kResolutionCustom}
      /\ g.enhancedDepth >= g.baseDepth
      /\ g.upscale <= 4
      /\ g.planes \in {<<>>, <<0>>, <<1>>}
      /\ Layout!ConfigAccepted(layout)
      /\ crop # <<>> => /\ window.left + window.right < SizeMeant(g)[1]
                        /\ window.top + window.bottom < SizeMeant(g)[2]

\* Four numbers of how much is cut away, behind a profile that may say that more follows.
SequenceWritten(crop, extended) ==
  Written(<<<<4, IF extended THEN 15 ELSE 1>>, <<4, 2>>, <<2, 1>>, <<1, 1>>, <<5, 0>>>>
          \o (IF extended THEN <<<<8, 77>>>> ELSE <<>>) \o FlattenSeq([i \in 1 .. 4 |-> Multi(crop[i])]))

-----------------------------------------------------------------------------
(* A picture, in settings s, behind pictures that left c.                  *)

\* Whether there is dithering: as it is said, or as it was, until the next IDR frame.
Dithers(s, c, pic, idr) ==
  CASE pic.enhanced -> pic.dithers
    [] ~pic.enhanced /\ idr /\ s.version >= 2 -> 0
    [] OTHER -> c.ditherEnabled
MiscTold(s, pic) == pic.enhanced \/ s.version >= 2
DitherTold(s, c, pic, idr) == MiscTold(s, pic) /\ Dithers(s, c, pic, idr) = 1

MatricesTold(pic) == CASE ~pic.enhanced \/ pic.matrices \in {0, 1} -> {}
                       [] pic.enhanced /\ pic.matrices \in {2, 3} -> {0}
                       [] pic.enhanced /\ pic.matrices = 4 -> {1}
                       [] OTHER -> {0, 1}
MatrixValues(s, loq) == [i \in 1 .. s.numLayers |-> 10 * i + loq]
MatrixMeant(s, c, pic, idr, loq) ==
  LET default == Replaced(c.quantMatrix.values[loq + 1], quantMatrixGetDefault(s.scalingModes[1], s.transform, loq))
      mode    == IF pic.enhanced THEN pic.matrices ELSE 0
  IN  CASE loq \in MatricesTold(pic) -> Replaced(c.quantMatrix.values[loq + 1], MatrixValues(s, loq))
        [] mode = 2 /\ loq = 1 -> Replaced(c.quantMatrix.values[2], MatrixValues(s, 0))
        [] mode = 1 -> default
        [] OTHER -> IF idr \/ ~c.quantMatrix.set THEN default ELSE c.quantMatrix.values[loq + 1]

PictureWritten(s, c, pic, idr) ==
  Written((IF pic.enhanced
           THEN <<<<1, 0>>, <<3, pic.matrices>>, Flag(pic.offset), <<1, pic.type>>, <<1, pic.refresh>>, Flag(pic.loq1),
                  <<15, pic.width>>, <<1, pic.dithers>>>>
           ELSE <<<<1, 1>>, <<4, 0>>, <<1, pic.type>>, <<1, pic.refresh>>, <<1, pic.signalling>>>>)
          \o (IF ~MiscTold(s, pic) THEN <<>>
              ELSE (IF pic.type = 1 THEN <<<<1, pic.field>>, <<7, 0>>>> ELSE <<>>)
                   \o (IF pic.enhanced /\ pic.loq1 # <<>> THEN <<<<15, pic.loq1[1]>>, <<1, pic.loq1[2]>>>> ELSE <<>>)
                   \o FlattenSeq([n \in 1 .. 2 |-> IF n - 1 \in MatricesTold(pic) THEN Fields(8, MatrixValues(s, n - 1)) ELSE <<>>])
                   \o (IF pic.enhanced /\ pic.offset # <<>> THEN <<<<1, pic.offset[1]>>, <<7, pic.offset[2]>>>> ELSE <<>>)
                   \o (IF DitherTold(s, c, pic, idr) THEN <<<<2, pic.dither[1]>>, <<1, 0>>, <<5, pic.dither[2]>>>> ELSE <<>>)))

SignalsTold(s, pic) == IF pic.enhanced THEN IF s.temporalEnabled = 1 /\ pic.refresh = 0 THEN 1 ELSE 0 ELSE pic.signalling
PictureMeant(s, c, pic, idr, withGlobal) ==
  LET told == [c EXCEPT !.fieldType = IF pic.type = 1 THEN pic.field ELSE @,
                        !.stepWidths[2] = IF pic.enhanced /\ pic.loq1 # <<>> THEN pic.loq1[1] ELSE QMaxStepWidth,
                        !.deblockEnabled = IF pic.enhanced /\ pic.loq1 # <<>> THEN pic.loq1[2] ELSE @,
                        !.quantMatrix = [set |-> TRUE, values |-> <<MatrixMeant(s, c, pic, idr, 0), MatrixMeant(s, c, pic, idr, 1)>>],
                        !.dequantOffsetMode = IF pic.enhanced /\ pic.offset # <<>> THEN pic.offset[1] ELSE @,
                        !.dequantOffset = IF pic.enhanced /\ pic.offset # <<>> THEN pic.offset[2] ELSE -1,
                        !.ditherEnabled = Dithers(s, c, pic, idr)]
      flags(d) == [d EXCEPT !.entropyEnabled = pic.enhanced, !.pictureType = pic.type, !.temporalRefresh = pic.refresh,
                            !.temporalSignalling = SignalsTold(s, pic), !.frameConfigSet = TRUE,
                            !.stepWidths[1] = IF pic.enhanced THEN pic.width ELSE @]
      none(d) == IF ~pic.enhanced /\ withGlobal THEN [d EXCEPT !.ditherType = 0, !.ditherStrength = 0] ELSE d
      dither(d) == IF ~DitherTold(s, c, pic, idr) THEN d
                   ELSE [d EXCEPT !.ditherType = pic.dither[1], !.ditherStrength = IF pic.dither[1] = 0 THEN @ ELSE pic.dither[2]]
  IN  dither(none(flags(IF MiscTold(s, pic) THEN told ELSE c)))

-----------------------------------------------------------------------------
(* Chunks: by plane, with LOQ 1 first, by layer and tile, and those of the *)
(* temporal layer behind the others of their plane.                        *)

Temporal == 99
GroupNames(s, c) ==
  LET residuals(plane, loq) == [n \in 1 .. s.numLayers |-> <<plane, loq, n - 1>>]
      of(plane) == (IF c.entropyEnabled THEN residuals(plane, 1) \o residuals(plane, 0) ELSE <<>>)
                   \o (IF c.temporalSignalling = 1 THEN <<<<plane, 0, Temporal>>>> ELSE <<>>)
  IN  FlattenSeq([n \in 1 .. s.numPlanes |-> of(n - 1)])
TilesOf(s, group) == [t \in 1 .. NumTiles(s, group[1], group[2]) |-> Append(group, t - 1)]

\* What is in them, which differs from chunk to chunk: none, or bytes of a number.
Enabled(name, seed) == IF (name[1] + 2 * name[2] + name[3] + 3 * name[4] + seed) % 5 < 3 THEN 1 ELSE 0
RleOnly(group, seed) == (group[1] + group[2] + group[3] + seed) % 2
SizeOf(name, seed) == (2 * name[1] + name[2] + 3 * name[3] + name[4] + seed) % 4
Contents(name, seed) == [i \in 1 .. SizeOf(name, seed) |-> (64 * name[1] + 32 * name[2] + 2 * name[3] + 7 * name[4] + i) % 256]

\* The sizes of a table are coded with these: small numbers, with a sign or without.
SizeSymbols ==
  <<[symbol |-> 0, bits |-> 2], [symbol |-> 2, bits |-> 3], [symbol |-> 4, bits |-> 3], [symbol |-> 6, bits |-> 3],
    [symbol |-> 250, bits |-> 3], [symbol |-> 252, bits |-> 3], [symbol |-> 254, bits |-> 3]>>
NoSymbols == <<[symbol |-> 9, bits |-> 0]>>
SizeTable(sizes, version, summed) ==
  LET number(i) == IF summed /\ i > 1 THEN (sizes[i] - sizes[i - 1]) % 128 ELSE sizes[i]
      codes == FlattenSeq([i \in DOMAIN sizes |-> Coded(SizeSymbols, 2 * number(i))])
  IN  IF sizes = <<>> THEN <<>>
      ELSE BytesOf(AlphabetHead(SizeSymbols, version, FALSE) \o AlphabetHead(NoSymbols, version, FALSE) \o codes)

\* As many of the one flag, as many of the other, and so on.
Runs(flags) ==
  LET starts == SelectSeq([i \in DOMAIN flags |-> i], LAMBDA i : i = 1 \/ flags[i] # flags[i - 1])
      lengths == [n \in DOMAIN starts |-> (IF n = Len(starts) THEN Len(flags) + 1 ELSE starts[n + 1]) - starts[n]]
  IN  Written(<<<<8, flags[1]>>>> \o FlattenSeq([n \in DOMAIN lengths |-> Multi(lengths[n])]))

DataWritten(s, c, seed) ==
  LET tiled  == s.tileDimensions # TDTNone
      groups == GroupNames(s, c)
      names  == FlattenSeq([n \in DOMAIN groups |-> TilesOf(s, groups[n])])
      flags  == [n \in DOMAIN names |-> Enabled(names[n], seed)]
      enabled(group) == SelectSeq(TilesOf(s, group), LAMBDA name : Enabled(name, seed) = 1)
      size(name) == IF tiled /\ s.tileSizeCompression # 0 THEN <<>> ELSE Written(Multi(SizeOf(name, seed)))
      table(group) == IF tiled /\ s.tileSizeCompression # 0
                      THEN SizeTable([i \in DOMAIN enabled(group) |-> SizeOf(enabled(group)[i], seed)], s.version,
                                     s.tileSizeCompression = 2)
                      ELSE <<>>
      data(group) == FlattenSeq([i \in DOMAIN enabled(group) |-> size(enabled(group)[i]) \o Contents(enabled(group)[i], seed)])
      both(group) == <<<<1, Enabled(Append(group, 0), seed)>>, <<1, RleOnly(group, seed)>>>>
      heads == IF ~tiled THEN Written(FlattenSeq([n \in DOMAIN groups |-> both(groups[n])]))
               ELSE Written([n \in DOMAIN groups |-> <<1, RleOnly(groups[n], seed)>>])
                    \o (IF s.perTileCompression = 1 THEN Runs(flags) ELSE Written(Fields(1, flags)))
  IN  heads \o FlattenSeq([n \in DOMAIN groups |-> table(groups[n]) \o data(groups[n])])

\* Everybody who asks for a chunk gets what was written for it.
DataRead(p, seed) ==
  LET groups == GroupNames(p.s, p.c)
      index(name) ==
        IF name[3] = Temporal THEN Layout!TemporalChunkIndex(LayoutOf(p.s), FrameOf(p.c), name[1], name[4])
        ELSE Layout!LayerChunkIndex(LayoutOf(p.s), FrameOf(p.c), name[2], name[1], name[4], name[3])
      right(name, chunk) ==
        /\ chunk.enabled = Enabled(name, seed)
        /\ chunk.rleOnly = RleOnly(SubSeq(name, 1, 3), seed)
        /\ chunk.enabled = 0 => chunk.size = 0
        /\ chunk.enabled = 1 =>
             /\ chunk.size = SizeOf(name, seed)
             /\ chunk.size > 0 => SubSeq(p.stream.data, chunk.at + 1, chunk.at + chunk.size) = Contents(name, seed)
      some(n) == \E i \in DOMAIN groups : groups[i][2] = n - 1 /\ \E t \in 0 .. NumTiles(p.s, groups[i][1], n - 1) - 1 :
                    Enabled(Append(groups[i], t), seed) = 1
  IN  /\ \A i \in DOMAIN groups : \A t \in DOMAIN TilesOf(p.s, groups[i]) :
           right(TilesOf(p.s, groups[i])[t], p.c.chunks[index(TilesOf(p.s, groups[i])[t])])
      /\ p.c.loqEnabled = [n \in 1 .. 2 |-> some(n)]

-----------------------------------------------------------------------------
(* Additional information.                                                 *)

ExpGolomb(n) ==
  LET digits == CHOOSE d \in 1 .. 32 : 2 ^ (d - 1) <= n + 1 /\ n + 1 < 2 ^ d
  IN  (IF digits = 1 THEN <<>> ELSE <<<<digits - 1, 0>>>>) \o <<<<digits, n + 1>>>>
VuiWritten(v) ==
  <<Flag(v.aspect)>> \o (IF v.aspect = <<>> THEN <<>> ELSE <<<<8, v.aspect[1]>>>> \o Fields(16, Tail(v.aspect)))
  \o <<Flag(v.overscan)>> \o Fields(1, v.overscan)
  \o <<Flag(v.signal)>>
  \o (IF v.signal = <<>> THEN <<>> ELSE <<<<3, v.signal[1]>>, <<1, v.signal[2]>>, Flag(v.colours)>> \o Fields(8, v.colours))
  \o <<Flag(v.chroma)>> \o FlattenSeq([i \in DOMAIN v.chroma |-> ExpGolomb(v.chroma[i])])
VuiMeant(s, v) ==
  LET told(names, option, vui) ==
        [name \in VuiNumbers |-> IF \E i \in DOMAIN option : names[i] = name
                                 THEN option[CHOOSE i \in DOMAIN option : names[i] = name] ELSE vui[name]]
      colours(vui) == told(<<"colourPrimaries", "transferCharacteristics", "matrixCoefficients">>, v.colours, vui)
      signal(vui)  == told(<<"videoFormat", "fullRange">>, v.signal, vui)
      aspect(vui)  == told(<<"aspectRatioIdc", "sarWidth", "sarHeight">>, v.aspect, vui)
      chroma(vui)  == told(<<"chromaTop", "chromaBottom">>, v.chroma, vui)
      flag(name, condition) == IF condition THEN {name} ELSE {}
  IN  [s EXCEPT !.vui = aspect(colours(signal(chroma(@)))),
                !.vuiFlags = @ \cup flag("AspectRatioInfoPresent", v.aspect # <<>>)
                               \cup flag("OverscanInfoPresent", v.overscan # <<>>)
                               \cup flag("OverscanAppropriate", v.overscan = <<1>>)
                               \cup flag("VideoSignalTypePresent", v.signal # <<>>)
                               \cup flag("VideoSignalFullRange", Len(v.signal) = 2 /\ v.signal[2] = 1)
                               \cup flag("VideoSignalColorDescPresent", v.colours # <<>>)
                               \cup flag("ChromaLocInfoPresent", v.chroma # <<>>)]

HdrWritten(h) ==
  <<<<1, h.location>>, <<5, IF h.type < 31 THEN h.type ELSE 31>>, Flag(h.data), Flag(h.deinterlacer)>>
  \o (IF h.data = <<>> THEN <<>> ELSE Multi(Len(h.data)) \o Fields(8, h.data))
  \o (IF h.type < 31 THEN <<>> ELSE <<<<8, h.type>>>>)
  \o (IF h.deinterlacer = <<>> THEN <<>> ELSE <<<<4, h.deinterlacer[1]>>, <<1, h.deinterlacer[2]>>, <<3, 0>>>>)
HdrMeant(s, h) ==
  [s EXCEPT !.tonemapper[h.location + 1] = h.type,
            !.deinterlacing = IF h.deinterlacer = <<>> THEN @ ELSE h.deinterlacer,
            !.hdr = @ \cup {"PayloadGlobalConfigPresent"} \cup (IF h.data = <<>> THEN {} ELSE {"ToneMapperDataPresent"})
                      \cup (IF h.deinterlacer = <<>> THEN {} ELSE {"DeinterlacerEnabled"})]

\* The block of an information: a filler, one that is not known, and one that may be.
InfoWritten(info) ==
  LET sei(type, fields) == BlockWritten(BT_AdditionalInfo, Written(<<<<8, AIT_SEI>>, <<8, type>>>> \o fields))
      other(type, fields) == BlockWritten(BT_AdditionalInfo, Written(<<<<8, type>>>> \o fields))
      half(n) == <<n \div 65536, n % 65536>>
      display(values) == Fields(16, SubSeq(values, 1, 8) \o half(values[9]) \o half(values[10]))
  IN  CASE info.kind = "mastering" -> sei(SPT_MasteringDisplayColourVolume, display(info.is))
        [] info.kind = "light"     -> sei(SPT_ContentLightLevelInfo, Fields(16, info.is))
        [] info.kind = "version"   -> sei(SPT_UserDataRegistered, Fields(8, kVNovaITU) \o Fields(8, info.is))
        [] info.kind = "message"   -> sei(5, Fields(8, info.is))
        [] info.kind = "vui"       -> other(AIT_VUI, VuiWritten(info.is))
        [] info.kind = "filter"    -> other(AIT_SFilter, <<<<3, info.is[1]>>, <<5, info.is[2] - 1>>>>)
        [] info.kind = "hdr"       -> other(AIT_HDR, HdrWritten(info.is))
        [] info.kind = "other"     -> other(7, Fields(8, info.is))
        [] info.kind = "filler"    -> BlockWritten(BT_Filler, info.is)
        [] info.kind = "unknown"   -> BlockWritten(21, info.is)

InfoMeant(p, info) ==
  CASE info.kind = "mastering" ->
         [p EXCEPT !.s.masteringDisplay = [i \in 1 .. 10 |-> IF i < 9 THEN BitsOf(info.is[i], 16) ELSE BitsOf(0, 1) \o BitsOf(info.is[i], 31)],
                   !.s.hdr = @ \cup {"MasteringDisplayColourVolumePresent"}]
    [] info.kind = "light"   -> [p EXCEPT !.s.contentLightLevel = [i \in 1 .. 2 |-> BitsOf(info.is[i], 16)],
                                          !.s.hdr = @ \cup {"ContentLightLevelInfoPresent"}]
    [] info.kind = "version" -> IF p.s.versionSet THEN p
                                ELSE [p EXCEPT !.s.version = info.is[1], !.s.versionSet = TRUE]
    [] info.kind = "vui"     -> [p EXCEPT !.s = VuiMeant(@, info.is)]
    [] info.kind = "filter"  -> [p EXCEPT !.c.sharpen = info.is]
    [] info.kind = "hdr"     -> [p EXCEPT !.s = HdrMeant(@, info.is)]
    [] OTHER                 -> p
InfoValid(info, hdr) == (info.kind = "hdr" => hdr) /\ (info.kind = "version" => info.is[1] <= 2)

-----------------------------------------------------------------------------
(* Payloads.  One has information, and may have a window, global settings, *)
(* a picture and its data, which are of a seed.  A byte may be added to    *)
(* one of its blocks.                                                      *)

PayloadMeant(p, payload) ==
  LET infos(q)   == Folded(InfoMeant, q, payload.infos)
      global(q)  == IF payload.global = <<>> THEN q
                    ELSE [q EXCEPT !.s = GlobalMeant(@, payload.global[1], payload.crop)]
      picture(q) == IF payload.picture = <<>> THEN q
                    ELSE [q EXCEPT !.c = PictureMeant(q.s, @, payload.picture[1], payload.idr, payload.global # <<>>)]
  IN  picture(global(infos(p)))

BlocksWritten(p, payload) ==
  LET meant == PayloadMeant(p, payload)
      type  == IF meant.s.tileDimensions = TDTNone THEN BT_EncodedData ELSE BT_EncodedDataTiled
      more(bytes) == bytes \o Zeroes(payload.padding)
      has(option, block) == IF option = <<>> THEN <<>> ELSE <<block>>
  IN  [i \in DOMAIN payload.infos |-> InfoWritten(payload.infos[i])]
      \o has(payload.crop, BlockWritten(BT_SequenceConfig, SequenceWritten(payload.crop, payload.extended)))
      \o has(payload.global, BlockWritten(BT_GlobalConfig, GlobalWritten(payload.global[1])))
      \o has(payload.picture, BlockWritten(BT_PictureConfig, more(PictureWritten(meant.s, p.c, payload.picture[1], payload.idr))))
      \o has(payload.picture, BlockWritten(type, DataWritten(meant.s, meant.c, payload.seed)))

PayloadValid(p, payload, hdr) ==
  /\ \A i \in DOMAIN payload.infos : InfoValid(payload.infos[i], hdr)
  /\ payload.global # <<>> => GlobalValid(payload.global[1], payload.crop)
  /\ payload.picture # <<>> => payload.padding = 0 /\ payload.picture[1].matrices <= QMMCustomBothUnique

\* Nothing that ends inside of a block is taken for a payload.
Cuts(blocks) ==
  LET ends == {Len(FlattenSeq(SubSeq(blocks, 1, n))) : n \in 1 .. Len(blocks)}
      all  == Len(FlattenSeq(blocks))
  IN  {n \in 1 .. all - 1 : (n % 13 = 1 \/ n = all - 1) /\ n \notin ends}

SettingsOf(p) ==
  [s |-> p.s, c |-> [p.c EXCEPT !.chunks = <<>>, !.loqEnabled = <<>>, !.globalConfigSet = TRUE,
                                !.frameConfigSet = TRUE, !.idr = TRUE]]
ReadAsMeant(before, payload, p) ==
  /\ p.ok /\ SettingsOf(p) = SettingsOf(PayloadMeant(before, payload))
  /\ payload.picture # <<>> => DataRead(p, payload.seed)

\* read has what the parser makes of the first bytes, whole what it makes of all of them.
Judged(r, payload, valid, cuts, read, whole) ==
  IF valid THEN [p |-> whole, over |-> FALSE,
                 right |-> (\A n \in cuts : ~read[n].ok) /\ ReadAsMeant(r.p, payload, whole)]
  ELSE [r EXCEPT !.over = TRUE, !.right = ~whole.ok]
JudgedOf(r, payload, valid, cuts, read, all) == Judged(r, payload, valid, cuts, read, read[all])
JudgedBy(parse(_, _, _, _), hdr, r, payload, blocks, bytes) ==
  JudgedOf(r, payload, PayloadValid(r.p, payload, hdr), Cuts(blocks),
           [n \in 1 .. Len(bytes) |-> parse(r.p.s, r.p.c, payload.idr, SubSeq(bytes, 1, n))], Len(bytes))

JudgedAs(parse(_, _, _, _), hdr, r, payload, blocks) ==
  IF r.over \/ ~r.right THEN r ELSE JudgedBy(parse, hdr, r, payload, blocks, FlattenSeq(blocks))
PayloadsReadBy(parse(_, _, _, _), hdr, job) ==
  Folded(LAMBDA r, payload : JudgedAs(parse, hdr, r, payload, BlocksWritten(r.p, payload)),
         [p |-> [s |-> ldeGlobalConfigInitialize(BitstreamVersionUnspecified), c |-> ldeFrameConfigInitialize],
          over |-> FALSE, right |-> TRUE], job).right

\* The search for the global settings finds them, and never gets to what is behind them.
GlobalFound(payload) ==
  LET first == [s |-> ldeGlobalConfigInitialize(BitstreamVersionUnspecified), c |-> ldeFrameConfigInitialize]
      valid == payload.global = <<>> \/ GlobalValid(payload.global[1], <<>>)
      meant == IF payload.global = <<>> THEN first.s ELSE GlobalMeant(first.s, payload.global[1], <<>>)
      right(p) == p.ok /\ p.s = meant /\ p.c.globalConfigSet = (payload.global # <<>>)
      bytes == FlattenSeq(BlocksWritten(first, payload)) \o (IF payload.global = <<>> THEN <<>> ELSE <<255>>)
  IN  valid => right(ldParseGlobalConfig(first.s, first.c, bytes))

PayloadsRead(job) ==
  PayloadsReadBy(ldeConfigsParse, FALSE, job) /\ PayloadsReadBy(deserialise, TRUE, job) /\ GlobalFound(job[1])
=============================================================================
