----------------------------- MODULE LegacyCoding -----------------------------
(***************************************************************************)
(* How the legacy decoder reads: its streams of bytes and bits and its     *)
(* entropy decoding are those of the enhancement library, line by line,    *)
(* with results of their own; every alphabet that cannot be read is an     *)
(* error here.  legacy/decoder/src/common/bytestream.c, bitstream.c,       *)
(* legacy/decoder/src/decode/huffman.c, entropy.c, deserialiser.c          *)
(***************************************************************************)
EXTENDS Syntax

(* Bytes and bits. *)
ldlBytestreamReadN8(s, numBytes)     == BytestreamReadN8(s, numBytes)
ldlBytestreamReadNumber(s, numBytes) == BytestreamReadNumber(s, numBytes)
ldlBytestreamReadMultiByte(s)        == BytestreamReadMultiByte(s)
ldlBytestreamSeek(s, offset)         == BytestreamSeek(s, offset)
ldlBytestreamCurrent(s)              == BytestreamCurrent(s)

ldlLoadWord(s)                            == LoadWord(s)
ldlBitstreamReadBit(s)                    == BitstreamReadBit(s)
ldlBitstreamReadBitUnchecked(s)           == BitstreamReadBitUnchecked(s)
ldlBitstreamReadBits(s, numBits)          == BitstreamReadBits(s, numBits)
ldlBitstreamReadBitsUnchecked(s, numBits) == BitstreamReadBitsUnchecked(s, numBits)
ldlBitstreamReadExpGolomb(s)              == BitstreamReadExpGolomb(s)

(* The stream of codes. *)
huffmanStreamInitialise(data)                == HuffmanStreamInitialize(data)
huffmanStreamAdvanceByNBits(st, bits)        == AdvanceByNBits(st, bits)
huffmanStreamAdvanceToNthBit(st, desired)    == AdvanceToNthBit(st, desired)
huffmanStreamReadBits(st, numBits)           == ReadBits(st, numBits)
ldlEntropyGetConsumedBytes(st)               == GetConsumedBytes(st)

(* The codes and their tables. *)
ldlBitWidth(x, version)               == BitWidth(x, version)
ldlGenerateCodes(entries)             == GenerateCodes(entries)
ldlLutAt(codes, index)                == LutAt(codes, index)
huffmanManualInitialiseCommon(st, version)  == ManualInitializeCommon(st, version)

\* An alphabet with a table of the short codes: its errors are returned.
huffmanManualInitialiseWithLut(st, version) == huffmanManualInitialiseCommon(st, version)

AlphabetsOf(r, heads, version) ==
  Folded(LAMBDA q, i :
           IF ~q.ok THEN q ELSE AlphabetAdded(q, huffmanManualInitialiseWithLut(q.stream, version)),
         r, [i \in 1 .. heads |-> i])
ldlHuffmanTripleInitialize(st, version) ==
  AlphabetsOf([ok |-> TRUE, stream |-> st, alphabets |-> <<>>], 3, version)
ldlChunkInitialise(type, st, version) ==
  IF type = "EDTDefault" THEN ldlHuffmanTripleInitialize(st, version)
  ELSE AlphabetsOf([ok |-> TRUE, stream |-> st, alphabets |-> <<>>], 2, version)

(* Symbols. *)
ldlHuffmanGetSingleSymbol(h)                        == GetSingleSymbol(h)
ldlHuffmanManualDecode(list, st)                    == ManualDecode(list, st)
ldlHuffmanManualDecodeMaybeSingleSymbol(h, list, st) == ManualDecodeMaybeSingleSymbol(h, list, st)
ldlHuffmanLutDecode(codes, st)                      == LutDecode(codes, st)

ldlHuffmanSingleDecode(h, st) ==
  LET longer(short) == IF short.ok THEN short ELSE ldlHuffmanManualDecode(OversizedCodes(h.codes), short.stream)
  IN  IF ldlHuffmanGetSingleSymbol(h) THEN Found(h.singleSymbol, st) ELSE longer(ldlHuffmanLutDecode(h.codes, st))

ldlIterateRls(rl, index, first, lsb) == IterateRls(rl, index, first, lsb)
ldlTripleTableAssign(lsb, rl, index) == TripleTable(lsb, rl, index)
ldlHuffmanTripleDecode(decoders, st) == TripleDecode(decoders, st)
ldlEntropyDecodeRaw(symbols)         == DecodeRaw(symbols)
ldlEntropyDecodeTemporal(huffman, state) == DecodeTemporal(huffman, state)

\* 15 bits of two symbols or 7 of one, the first of which is a sign.
ldlEntropyDecodeSize(decoders, signed, st) ==
  LET signOf(val, bit) == IF signed /\ (val \div bit) % 2 = 1 THEN val - 2 * bit ELSE val
      of(size, stream) == [ok |-> TRUE, size |-> size, stream |-> stream]
      behindLsb(lsb, msb) == IF ~msb.ok THEN Unreadable
                             ELSE of(signOf(128 * msb.symbol + (lsb.symbol \div 2), 16384), msb.stream)
      behind(lsb) == CASE ~lsb.ok -> Unreadable
                       [] lsb.ok /\ lsb.symbol % 2 = 0 -> of(signOf(lsb.symbol \div 2, 64), lsb.stream)
                       [] OTHER -> behindLsb(lsb, ldlHuffmanSingleDecode(decoders.msb, lsb.stream))
  IN  behind(ldlHuffmanSingleDecode(decoders.lsb, st))

-----------------------------------------------------------------------------
(* The legacy decoder reads what an encoder writes, too.                   *)
LegacyChunkRead(job) ==
  CASE job.kind = "coefficients" ->
         CoefficientsReadBy(ldlChunkInitialise, ldlHuffmanTripleDecode, job, HeadsOf(job, 3))
    [] job.kind = "signals"      -> SignalsReadBy(ldlChunkInitialise, ldlEntropyDecodeTemporal, job, HeadsOf(job, 2))
    [] job.kind = "sizes"        -> SizesReadBy(ldlChunkInitialise, ldlEntropyDecodeSize, job, HeadsOf(job, 2))

LegacyBitsRead(job) ==
  BitsReadBy(ldlBitstreamReadBits,
             LAMBDA s, n : IF n = 1 THEN ldlBitstreamReadBitUnchecked(s) ELSE ldlBitstreamReadBitsUnchecked(s, n),
             ldlBitstreamReadBit, ldlBitstreamReadExpGolomb, job)

-----------------------------------------------------------------------------
(* A payload is read as in the enhancement library, but for when it divides *)
(* the planes, for what it keeps and for what it refuses.                   *)

(* The sequence, the global settings and the picture. *)
ldParseConformanceValue(p, side)     == parseConformanceValue(p, side)
ldParseBlockSequenceConfig(p)        == parseBlockSequenceConfig(p)
ldSetUserDataConfig(transform, mode) == setUserDataConfig(transform, mode)
ldIsDepthConfigSupported(p)          == isDepthConfigSupported(p)
ldParseGlobalConfigGetNumPlanes(p)   == parseGlobalConfigGetNumPlanes(p)
ldParseBlockGlobalConfigTiles(p)     == parseBlockGlobalConfigTiles(p)
ldReadGlobalConfig(p)                == ReadGlobalConfig(p)
ldValidateResolution(p)              == validateResolution(p)
ldPostParseInitBlockGlobalConfig(p)  == postParseInitBlockGlobalConfig(p)
ldQuantMatrixGetDefault(scaling, transform, loq) == quantMatrixGetDefault(scaling, transform, loq)
ldQuantMatrixParseLOQ(p, loq)        == quantMatrixParseLOQ(p, loq)
ldParseQuantMatrixLOQ0(p)            == parseQuantMatrixLOQ0(p)
ldParseQuantMatrixLOQ1(p)            == parseQuantMatrixLOQ1(p)
ldParseBlockPictureConfigMisc(p)     == parseBlockPictureConfigMisc(p)

\* Planes are not divided before there are data, and a kernel stays until there is another.
ldParseBlockGlobalConfig(p) ==
  LET done(q) == When(TRUE, q, [q EXCEPT !.s.initialized = TRUE, !.c.globalConfigSet = TRUE])
  IN  done(ldPostParseInitBlockGlobalConfig(ldValidateResolution(ldReadGlobalConfig(p))))

\* A field has half the lines.
FieldHeight(height, pictureType) == height \div 2 ^ pictureType
ldParseBlockPictureConfig(p) == parseBlockPictureConfig(p)
OfPicture(p) == [p EXCEPT !.s.height = FieldHeight(p.s.height, p.c.pictureType)]

(* Additional information. *)
ldParseBlockFiller(p, size)   == parseBlockFiller(p, size)
ldParseSEIPayload(p, size)    == parseSEIPayload(p, size)
ldParseVUIParameters(p, size) == parseVUIParameters(p, size)
ldParseSFilterPayload(p)      == parseSFilterPayload(p)
ldParseHDRPayload(p)          == ReadHDRPayload(p)
ldParseBlockAdditionalInfo(p, size) == AdditionalInfo(p, size, ldParseHDRPayload)

(* The data. *)
ldCalculateTileConfiguration(p) == calculateTileConfiguration(p)
ldChunkCheckAlloc(p)            == chunkCheckAlloc(p)
ldParseChunk(p, i, loq)         == parseChunk(p, i, loq)
ldParseChunkFlags(v, chunks)    == parseChunkFlags(v, chunks)
ldParseCoeffChunks(p, groups)   == ReadChunks(p, groups)
ldTiledRLEDecoderInitialise(p)  == tiledRLEDecoderInitialize(p)
ldTiledSizeDecoderRead(p)       == tiledSizeDecoderRead(p)

ldTiledRLEDecoderRead(p, i) == RunRead(p, i, Failed)
ldTiledSizeDecoderInitialise(p, numSizes) == SizesRead(p, numSizes, ldlChunkInitialise, ldlEntropyDecodeSize)

\* What the data are read with: the picture, divided, and no data for any LOQ.
Divided(p) ==
  LET empty(q) == When(TRUE, q, [q EXCEPT !.c.loqEnabled = <<FALSE, FALSE>>])
  IN  empty(ldCalculateTileConfiguration(HasSettings(p)))

\* read is given the picture; its height is not that of the next one.
WithPicture(p, read(_)) ==
  LET whole(q) == [q EXCEPT !.s.height = p.s.height] IN whole(read(OfPicture(p)))
ldParseEncodedData(p)      == WithPicture(p, LAMBDA q : Encoded(Divided(q)))
ldParseEncodedDataTiled(p) ==
  WithPicture(p, LAMBDA q : Tiled(Divided(q), ldTiledRLEDecoderRead, ldTiledSizeDecoderInitialise))

(* Blocks. *)
ldBlockSizeFromEnum(p) == blockSizeFromEnum(p)
ldBlockBody(p) ==
  CASE p.f.type = BT_SequenceConfig   -> ldParseBlockSequenceConfig(p)
    [] p.f.type = BT_GlobalConfig     -> ldParseBlockGlobalConfig(p)
    [] p.f.type = BT_PictureConfig    -> ldParseBlockPictureConfig(p)
    [] p.f.type = BT_EncodedData      -> ldParseEncodedData(p)
    [] p.f.type = BT_EncodedDataTiled -> ldParseEncodedDataTiled(p)
    [] p.f.type = BT_AdditionalInfo   -> ldParseBlockAdditionalInfo(p, p.f.size)
    [] p.f.type = BT_Filler           -> ldParseBlockFiller(p, p.f.size)
    [] OTHER                          -> Skip(p)
ldParseBlock(p) == Block(p, ldBlockBody)

deserialise(s, c, idr, data) ==
  IF data = <<>> THEN [ok |-> FALSE, stream |-> BytestreamInitialize(data), s |-> s, c |-> c, f |-> NoFlags]
  ELSE AllBlocks([ok |-> TRUE, stream |-> BytestreamInitialize(data), s |-> s,
                  c |-> [c EXCEPT !.globalConfigSet = FALSE, !.frameConfigSet = FALSE, !.idr = idr],
                  f |-> NoFlags], ldParseBlock)

\* The search for a global block, which ends with it.
GlobalBody(p) == IF p.f.type = BT_GlobalConfig THEN ldParseBlockGlobalConfig(p) ELSE Skip(p)
ldParseGlobalConfig(s, c, data) ==
  LET start == [ok |-> TRUE, stream |-> BytestreamInitialize(data), s |-> s,
                c |-> [c EXCEPT !.globalConfigSet = FALSE, !.frameConfigSet = FALSE], f |-> NoFlags]
  IN  AllBlocks(start, LAMBDA p : When(~p.c.globalConfigSet, p, Block(p, GlobalBody)))
=============================================================================
