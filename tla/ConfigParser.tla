---------------------------- MODULE ConfigParser ----------------------------
(***************************************************************************)
(* How the payload of a frame becomes configuration.  A payload is a NAL   *)
(* unit: a sequence of blocks, each of which changes the global settings,  *)
(* the settings of the frame, or both.  A block is a record of the values  *)
(* it signals; `whole' says that its bytes are all there and are what the  *)
(* block's size announced.  Settings that only pixel work looks at are     *)
(* left out; TileLayout models the dimensions of tiles and chunks.         *)
(***************************************************************************)
EXTENDS Naturals, Sequences

CONSTANT Absent         \* a value that a flag says is not signalled

(* Versions of the bitstream. *)
BitstreamVersionNewCodeLengths == 1
BitstreamVersionAlignWithSpec == 2
BitstreamVersionCurrent == BitstreamVersionAlignWithSpec
BitstreamVersionUnspecified == BitstreamVersionCurrent + 1

(* Times four, rounded: the standard's 48 and 64. *)
kDefaultTemporalStepWidthModifier == 12
kDefaultChromaStepWidthMultiplier == 16

(* Quantisation matrices: zero, the default of the standard, or custom. *)
ldeGlobalConfigInitialize(forceBitstreamVersion) ==
    [initialized |-> FALSE,
     bitstreamVersionSet |-> forceBitstreamVersion # BitstreamVersionUnspecified,
     bitstreamVersion |-> IF forceBitstreamVersion = BitstreamVersionUnspecified
                          THEN BitstreamVersionCurrent ELSE forceBitstreamVersion,
     cropEnabled |-> FALSE, crop |-> 0,
     chroma |-> "420", width |-> 0, enhancedDepth |-> 8, baseDepth |-> 8,
     temporalEnabled |-> FALSE,
     temporalStepWidthModifier |-> kDefaultTemporalStepWidthModifier,
     chromaStepWidthMultiplier |-> kDefaultChromaStepWidthMultiplier,
     hdrInfo |-> {}, vuiInfo |-> {}]

ldeFrameConfigInitialize ==
    [globalConfigSet |-> FALSE, frameConfigSet |-> FALSE, idr |-> FALSE,
     entropyEnabled |-> FALSE, temporalRefresh |-> FALSE, temporalSignallingPresent |-> FALSE,
     quantMatrix |-> [set |-> FALSE, loq0 |-> "zero", loq1 |-> "zero"],
     ditherEnabled |-> FALSE, ditherStrength |-> 0, sharpen |-> Absent, loqEnabled |-> {}]

(* What a block finds, and leaves to the next one. *)
Parsing(global, frame) == [ok |-> TRUE, modified |-> FALSE, global |-> global, frame |-> frame]

Ends(s, ok) == [s EXCEPT !.ok = ok]

-----------------------------------------------------------------------------
(* Global settings.                                                         *)

(* The crop window, the same on every side here, in samples of chroma. *)
parseBlockSequenceConfig(s, b) ==
    Ends([s EXCEPT !.modified = TRUE,
                   !.global.cropEnabled = b.crop # Absent,
                   !.global.crop = IF b.crop # Absent THEN b.crop ELSE @], b.whole)

HalfWide(chroma) == chroma \in {"420", "422"}

(* Whole transforms of both planes fit into the picture. *)
validateResolution(g) == g.width % (IF HalfWide(g.chroma) THEN 8 ELSE 4) = 0

(* The window is turned into samples of luma where it is stored. *)
postParseInitBlockGlobalConfig(g) ==
    [g EXCEPT !.crop = IF g.cropEnabled /\ HalfWide(g.chroma) THEN 2 * @ ELSE @]

CropFits(g) == g.cropEnabled => 2 * g.crop < g.width

(* A version that was not set by now is the current one for good.           *)
parseBlockGlobalConfig(s, b) ==
    LET read == [s.global EXCEPT
                    !.bitstreamVersion = IF s.global.bitstreamVersionSet THEN @ ELSE BitstreamVersionCurrent,
                    !.bitstreamVersionSet = TRUE,
                    !.chroma = b.chroma, !.width = b.width,
                    !.baseDepth = b.baseDepth, !.enhancedDepth = b.enhancedDepth,
                    !.temporalEnabled = b.temporalEnabled,
                    !.temporalStepWidthModifier = IF b.modifier # Absent THEN b.modifier ELSE @,
                    !.chromaStepWidthMultiplier = IF b.multiplier # Absent THEN b.multiplier ELSE @]
        done == postParseInitBlockGlobalConfig(read)
        ok == /\ b.whole
              /\ b.enhancedDepth >= b.baseDepth
              /\ validateResolution(read)
              /\ CropFits(done)
    IN  Ends([s EXCEPT !.modified = TRUE, !.frame.globalConfigSet = TRUE,
                       !.global = IF ok THEN [done EXCEPT !.initialized = TRUE] ELSE read], ok)

(* The version counts once, and only in its range. *)
parseSEIPayload(s, b) ==
    LET g == s.global
        known == b.version \in 0 .. BitstreamVersionCurrent
    IN  IF b.version = Absent
        THEN Ends([s EXCEPT !.modified = TRUE, !.global.hdrInfo = @ \cup {b.info}], b.whole)
        ELSE IF g.bitstreamVersionSet THEN Ends([s EXCEPT !.modified = TRUE], b.whole)
        ELSE Ends([s EXCEPT !.modified = TRUE, !.global.bitstreamVersion = b.version,
                            !.global.bitstreamVersionSet = known], b.whole /\ known)

(* The settings are stored before the parser reports a failure, always. *)
parseHDRPayload(s) == Ends([s EXCEPT !.modified = TRUE, !.global.hdrInfo = @ \cup {"tonemapper"}], FALSE)

(* Display information does not count as a change of the global settings.   *)
parseVUIParameters(s, b) == Ends([s EXCEPT !.global.vuiInfo = @ \cup {b.info}], b.whole)

parseSFilterPayload(s, b) == Ends([s EXCEPT !.frame.sharpen = b.info], b.whole)

parseBlockAdditionalInfo(s, b) ==
    CASE b.about = "SEI" -> parseSEIPayload(s, b)
      [] b.about = "VUI" -> parseVUIParameters(s, b)
      [] b.about = "SFilter" -> parseSFilterPayload(s, b)
      [] b.about = "HDR" -> parseHDRPayload(s)
      [] OTHER -> Ends(s, b.whole)

-----------------------------------------------------------------------------
(* Settings of a frame.                                                     *)

(* A matrix that is not signalled stays, but not over an IDR frame. *)
Kept(f, values) == IF f.idr \/ ~f.quantMatrix.set THEN "default" ELSE values

parseQuantMatrixLOQ0(f, mode, custom) ==
    CASE mode \in {"customLOQ1", "usePrevious"} -> Kept(f, f.quantMatrix.loq0)
      [] mode = "useDefault" -> "default"
      [] OTHER -> custom

parseQuantMatrixLOQ1(f, mode, custom, loq0) ==
    CASE mode \in {"customLOQ0", "usePrevious"} -> Kept(f, f.quantMatrix.loq1)
      [] mode = "useDefault" -> "default"
      [] mode = "customBoth" -> loq0
      [] OTHER -> custom

parseBlockPictureConfigQuantMatrix(f, b) ==
    LET mode == IF b.enabled THEN b.mode ELSE "usePrevious"
        loq0 == parseQuantMatrixLOQ0(f, mode, b.custom)
    IN  [set |-> TRUE, loq0 |-> loq0, loq1 |-> parseQuantMatrixLOQ1(f, mode, b.custom, loq0)]

(* Dithering stays as it is until a frame signals otherwise, or an IDR      *)
(* frame does not signal it.                                                *)
parseBlockPictureConfigMisc(g, f, b) ==
    LET aligned == g.bitstreamVersion >= BitstreamVersionAlignWithSpec
        flag == IF aligned /\ ~b.enabled /\ f.idr THEN FALSE ELSE f.ditherEnabled
        on == flag /\ (aligned \/ b.enabled)
    IN  [f EXCEPT !.quantMatrix = parseBlockPictureConfigQuantMatrix(f, b),
                  !.ditherEnabled = flag,
                  !.ditherStrength = IF on THEN b.strength ELSE @]

parseBlockPictureConfig(s, b) ==
    LET g == s.global
        f == [s.frame EXCEPT
                !.entropyEnabled = b.enabled,
                !.temporalRefresh = b.refresh,
                !.temporalSignallingPresent = IF b.enabled THEN g.temporalEnabled /\ ~b.refresh ELSE b.signalling,
                !.ditherEnabled = IF b.enabled THEN b.dither ELSE @,
                !.ditherStrength = IF ~b.enabled /\ s.frame.globalConfigSet THEN 0 ELSE @]
        misc == g.bitstreamVersion >= BitstreamVersionAlignWithSpec \/ b.enabled
        read == IF misc THEN parseBlockPictureConfigMisc(g, f, b) ELSE f
    IN  Ends([s EXCEPT !.frame = [read EXCEPT !.frameConfigSet = b.whole]], b.whole)

(* Levels that have a chunk with data; the temporal one counts for LOQ-0.   *)
parseEncodedData(s, b) ==
    LET f == s.frame
        levels == (IF f.entropyEnabled THEN b.levels ELSE {})
                     \cup (IF f.temporalSignallingPresent /\ b.temporal THEN {0} ELSE {})
        ready == s.global.initialized /\ f.frameConfigSet
    IN  IF ready THEN Ends([s EXCEPT !.frame.loqEnabled = @ \cup levels], b.whole)
        ELSE Ends(s, FALSE)

-----------------------------------------------------------------------------
parseBlock(s, b) ==
    CASE b.type = "sequence" -> parseBlockSequenceConfig(s, b)
      [] b.type = "global" -> parseBlockGlobalConfig(s, b)
      [] b.type = "picture" -> parseBlockPictureConfig(s, b)
      [] b.type = "data" -> parseEncodedData(s, b)
      [] b.type = "additional" -> parseBlockAdditionalInfo(s, b)
      [] OTHER -> Ends(s, b.whole)

(* Blocks are parsed in turn up to the first that fails. *)
parseBlocks(start, blocks) ==
    LET after[n \in 0 .. Len(blocks)] ==
            IF n = 0 THEN start
            ELSE LET s == after[n - 1] IN IF s.ok THEN parseBlock(s, blocks[n]) ELSE s
    IN  after[Len(blocks)]

ldeConfigsParse(payload, global, frame) ==
    LET start == Parsing(global, [frame EXCEPT !.frameConfigSet = FALSE, !.globalConfigSet = FALSE,
                                               !.idr = payload.idr, !.loqEnabled = {}])
    IN  CASE ~payload.unencapsulated -> Ends(Parsing(global, frame), FALSE)
          [] payload.unencapsulated /\ payload.blocks = <<>> -> Ends(start, FALSE)
          [] OTHER -> parseBlocks(start, payload.blocks)
=============================================================================
