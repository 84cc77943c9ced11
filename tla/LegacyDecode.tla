----------------------------- MODULE LegacyDecode -----------------------------
(***************************************************************************)
(* The two decoders of residuals in the legacy decoder.                    *)
(*                                                                         *)
(* The serial one (legacy/decoder/src/decode/decode_serial.c) goes through *)
(* the tiles of a plane with the loop that Decode's descends from.  It is  *)
(* written over the coordinates of a unit, not over its index; it fails    *)
(* where the other goes on; and without command buffers it writes to the   *)
(* surfaces at once.  One call of decodeSerial() is modelled for one plane:*)
(* the jobs of the planes share nothing.                                   *)
(*                                                                         *)
(* The other decoder works in two phases and is in the last sections.      *)
(***************************************************************************)
EXTENDS Decode

CONSTANT Job    \* inputs: records of what decodeSerial() is called with

VARIABLES
  job,          \* that record
  tileIndex,    \* the tile the job is at
  res           \* the result, as the job has it

legacyDecodeVars == <<job, tileIndex, res>>

\* A tile has temporal signalling only where temporal decoding is asked for: the
\* deserialiser and the callers go by the same setting and the same layer.
ASSUME JobsAssumption ==
  \A j \in Job : \A t \in Range(j.tiles) : t.hasTemporalChunk => j.applyTemporal /\ t.loq = LOQ0

-----------------------------------------------------------------------------
(* The surfaces of the plane.                                              *)

applyTemporal == job.applyTemporal

\* Where residuals go when there are no command buffers.
Destination ==
  CASE job.generateSurfaces ->
         IF job.useExternalSurfaces /\ ~job.convertS8 THEN "externalSurfaces"
         ELSE IF tile.loq = LOQ0 THEN "temporalBuffer" ELSE "basePixels"
    [] ~job.generateSurfaces /\ applyTemporal  -> "temporalBuffer"
    [] ~job.generateSurfaces /\ ~applyTemporal -> IF 0 \in job.planes THEN "dst" ELSE "none"

\* The surface of eight bits that is kept beside it, if there is one.
Converts == job.generateSurfaces /\ job.convertS8
ConvertDestination ==
  IF job.useExternalSurfaces THEN "externalSurfaces"
  ELSE IF tile.loq = LOQ0 THEN "temporalBufferU8" ELSE "basePixelsU8"

\* Where blocks are cleared.
TemporalSurface ==
  CASE tile.loq = LOQ0 /\ applyTemporal ->
         IF job.generateSurfaces /\ job.useExternalSurfaces /\ ~job.convertS8 THEN "externalSurfaces"
         ELSE "temporalBuffer"
    [] OTHER -> "none"

\* The surfaces that are to be alike: with command buffers, those that these are for.
Kept ==
  IF job.generateCmdBuffers THEN {"buffer"}
  ELSE {Destination} \cup (IF Converts THEN {ConvertDestination} ELSE {})

-----------------------------------------------------------------------------
(* Coordinates.                                                            *)

\* tuCoordsSurfaceRaster() or tuCoordsBlockRaster(): the loop's x and y.
Here ==
  IF job.tuCoordsAreInSurfaceRasterOrder THEN SurfaceRaster(tuState, tuIndex)
  ELSE BlockRaster(tuState, tuIndex)

BlockStart == Here.x % BSTemporal = 0 /\ Here.y % BSTemporal = 0

tuCoordsBlockAlignedIndex(p) == CoordsBlockAlignedIndex(tuState, p.x, p.y)

tuCoordsBlockDetails(p) ==
  LET s    == tuState
      wide == IF p.x - s.xOffset >= s.wholeBlocksPerRow * BSTemporal
              THEN s.tuPerBlockRowRightEdge ELSE s.tuPerBlockDims
      high == IF p.y - s.yOffset >= s.wholeBlocksPerCol * BSTemporal
              THEN s.tuPerBlockColBottomEdge ELSE s.tuPerBlockDims
  IN  [width |-> wide * s.tuWidth, height |-> high * s.tuWidth, tuCount |-> wide * high]

tuBlockTuCount(p) == tuCoordsBlockDetails(p).tuCount

\* The units of n blocks from here.  Past the last unit, coordinates stay as they are.
FutureTuCount(n) ==
  LET after[k \in 0 .. n] ==
        IF k = 0 THEN [count |-> 0, at |-> Here]
        ELSE LET before == after[k - 1]
                 count  == before.count + tuBlockTuCount(before.at)
             IN  [count |-> count,
                  at    |-> IF tuIndex + count < TuTotal THEN BlockRaster(tuState, tuIndex + count)
                            ELSE before.at]
  IN  after[n].count

-----------------------------------------------------------------------------
(* One turn of the loop of applyResidualJob().                             *)

tileHasTemporalDecode == tile.hasTemporalChunk

LegacySteps == clearBlockQueue = 0 /\ tileHasTemporalDecode /\ applyTemporal
LegacyReads == LegacySteps /\ temporalRun <= 0

LegacyTemporalStep(symbol) ==
  LET signal == IF LegacyReads THEN symbol.signal ELSE temporal
      run    == (IF LegacyReads THEN symbol.run ELSE temporalRun) - 1
      queues == BlockStart /\ signal = TSIntra /\ tile.reducedSignalling
  IN  IF ~LegacySteps
      THEN [signal |-> temporal, run |-> temporalRun, queue |-> clearBlockQueue,
            remainder |-> clearBlockRemainder]
      ELSE [signal |-> signal,
            run |-> IF queues THEN FutureTuCount(run + 1) ELSE run,
            queue |-> IF queues THEN run + 1 ELSE 0,
            remainder |-> clearBlockRemainder /\ ~LegacyReads]

\* The next unit, as in Decode, but for what is left of this block.
LegacyJump(t, m, c) ==
  LET block      == tuCoordsBlockDetails(Here)
      inUnits(n) == n \div tuState.tuWidth
      xRemaining == inUnits(block.width - (Here.x % BSTemporal)) - 1
      yRemaining == inUnits(block.height - (Here.y % BSTemporal)) - 1
      nextBlockStart == yRemaining * inUnits(block.width) + xRemaining
      by(n, more) == [skip |-> n, run |-> t.run - n - more]
  IN  CASE ~tileHasTemporalDecode                        -> [skip |-> m, run |-> t.run]
        [] tileHasTemporalDecode /\ c                    -> by(Least(m, block.tuCount - 1), 1)
        [] tileHasTemporalDecode /\ ~c /\ t.queue > 0    -> by(Least(m, nextBlockStart), 1)
        [] tileHasTemporalDecode /\ ~c /\ t.queue = 0    ->
             IF t.signal = TSInter \/ (t.remainder /\ m > t.run) THEN by(Least(m, t.run), 0)
             ELSE IF ~t.remainder THEN [skip |-> 0, run |-> t.run]
             ELSE by(m, 0)

\* The clear of the block that starts here.
LegacyClear ==
  [command |-> "Clear", nonZero |-> FALSE, index |-> tuCoordsBlockAlignedIndex(Here), at |-> Here,
   on |-> IF job.generateCmdBuffers THEN Kept
          ELSE {TemporalSurface} \cup (IF Converts THEN {ConvertDestination} ELSE {})]

\* What becomes of the residuals of this unit: a command, or a function that is
\* called for the surface.  (When highlighting, adding writes the highlight.)
LegacyResidual(nonZero, t) ==
  LET edge == \/ tuState.tuPerBlockRowRightEdge # 0
              \/ Here.y >= tuState.wholeBlocksPerCol * BSTemporal
              \/ tuState.xOffset # 0 \/ tuState.yOffset # 0
      aligned == ~job.tuCoordsAreInSurfaceRasterOrder /\ edge
  IN  [command |-> IF job.generateCmdBuffers THEN ResidualCommand(nonZero, t)
                   ELSE IF t.signal = TSInter THEN "Add" ELSE "Set",
       nonZero |-> nonZero,
       index |-> IF aligned THEN tuCoordsBlockAlignedIndex(Here) ELSE tuIndex,
       at |-> Here, on |-> Kept]

LegacyCommands(nonZero, t, clears) ==
  (IF clears THEN <<LegacyClear>> ELSE <<>>)
  \o (IF nonZero \/ (~clears /\ (~applyTemporal \/ t.signal = TSIntra))
      THEN <<LegacyResidual(nonZero, t)>> ELSE <<>>)

\* Without command buffers, what is done is done here.
LegacyPlace(c) == IF job.generateCmdBuffers THEN PixelOf(c) ELSE c.at

\* The history of the turn, as in Decode: the surfaces become alike.
LegacyRecorded(e, symbol, cmds, j) ==
  LET passed     == Least(j.skip + 1, TuTotal - tuIndex)
      onSurface(s) == SelectSeq(cmds, LAMBDA c : s \in c.on)
      effects(i) == {Effect(i, onSurface(s), LegacyPlace) : s \in Kept}
  IN  \E after \in {DecodedTurn(passed, e.nonZero, symbol, LegacyReads)} :
        /\ wiped' = Wipes(cmds, LegacyPlace)
        /\ turn' = [did    |-> [k \in 1 .. passed |->
                                  LET all == effects(tuIndex + k - 1)
                                  IN  IF Cardinality(all) = 1 THEN CHOOSE x \in all : TRUE ELSE "differs"],
                    should |-> [k \in 1 .. passed |-> after[k + 1].effect],
                    inTime |-> LegacyReads => ref.run = 0]
        /\ ref' = [after[passed + 1] EXCEPT !.effect = "none"]

\* A unit after the last one is the end of the tile; one after that is an error.
LegacyTurn(layerSymbols, symbol) ==
  /\ result = "running"
  /\ \E e \in {EntropyDecodeAllLayers(layerSymbols, tile.numLayers + 1)},
        stepped \in {LegacyTemporalStep(symbol)} :
       LET clears == BlockStart /\ stepped.queue > 0
       IN  \E t \in {IF clears THEN Cleared(stepped) ELSE stepped} :
             \E cmds \in {LegacyCommands(e.nonZero, t, clears)}, j \in {LegacyJump(t, Min(e.least), clears)} :
                LET next == tuIndex + j.skip + 1
                IN  /\ TurnDone(e, t, IF job.generateCmdBuffers THEN cmds ELSE <<>>, j)
                    /\ LegacyRecorded(e, symbol, cmds, j)
                    /\ res' = IF next > TuTotal THEN -1 ELSE IF next = TuTotal THEN 1 ELSE 0
                    /\ result' = IF next > TuTotal THEN "jobDone"
                                 ELSE IF next = TuTotal THEN "split" ELSE "running"
  /\ UNCHANGED <<corrupt, job, tileIndex>>

LegacyTurnAny ==
  \E layerSymbols \in Symbols, symbol \in TemporalSymbols :
     /\ ~LegacyReads => symbol = CHOOSE s \in TemporalSymbols : TRUE
     /\ LegacyTurn(layerSymbols, symbol)

tileVars == <<tile, tuState, tuIndex, zeros, temporal, temporalRun, clearBlockQueue, clearBlockRemainder,
              lastTuIndex, jumps, wiped, turn, corrupt, ref>>

\* entropyDecodeAllLayers() cannot read a layer: the job ends.
LegacyUnreadable ==
  /\ result = "running"
  /\ tile.entropyEnabled /\ \E layer \in Layers : zeros[layer] <= 0
  /\ res' = -1
  /\ result' = "jobDone"
  /\ UNCHANGED <<tileVars, job, tileIndex>>

\* A run of the signalling is not positive: the tile ends, the job goes on.
InvalidTemporalRun ==
  /\ result = "running" /\ LegacyReads
  /\ res' = -1
  /\ result' = "split"
  /\ UNCHANGED <<tileVars, job, tileIndex>>

-----------------------------------------------------------------------------
(* The job of a plane, and the call.                                       *)

\* The arguments that the callers work out for a layer.
DecodeSerialArgs(loq, temporalEnabled, tiled) ==
  [tuCoordsAreInSurfaceRasterOrder |-> ~temporalEnabled /\ ~tiled,
   applyTemporal |-> loq = LOQ0 /\ temporalEnabled]

Return(value) == result' = "returned" /\ res' = value

\* decodeSerial() as far as its jobs.  Without command buffers, there have to be
\* surfaces for one plane or for three; making the tiles may fail.
DecodeSerial ==
  /\ result = "called"
  /\ LET refused == ~job.generateCmdBuffers /\ job.planes \notin {{0}, {0, 1, 2}}
     IN  \/ refused /\ Return(-1)
         \/ ~refused /\ ~job.entropyEnabled /\ Return(0)
         \/ ~refused /\ job.entropyEnabled /\ (Return(-1) \/ (result' = "job" /\ res' = 0))
  /\ UNCHANGED <<tileVars, job, tileIndex>>

\* applyResidualJob() begins.  Without a surface there is nothing to do.
ApplyResidualJob ==
  /\ result = "job"
  /\ result' = IF Destination = "none" THEN "jobDone" ELSE "prepare"
  /\ UNCHANGED <<tileVars, job, tileIndex, res>>

\* A turn of the loop over the tiles begins, with all that it declares.  The codes
\* of a chunk may be unreadable, and a tile has to be made of whole units.
PrepareTile ==
  /\ result = "prepare"
  /\ tile' = job.tiles[tileIndex]
  /\ tuState' = TuStateInitialize(tile'.width, tile'.height, tile'.x, tile'.y, tile'.tuWidthShift)
  /\ tuIndex' = 0
  /\ zeros' = [layer \in 1 .. tile'.numLayers |-> 0]
  /\ temporal' = TSInter
  /\ temporalRun' = 0
  /\ clearBlockQueue' = 0
  /\ clearBlockRemainder' = FALSE
  /\ lastTuIndex' = 0
  /\ jumps' = <<>>
  /\ wiped' = <<>>
  /\ turn' = NoTurn
  /\ ref' = NoSignal
  /\ \/ res' = -1 /\ result' = "jobDone"
     \/ res' = 0 /\ result' = "running" /\ TuStateValid(tile'.width, tile'.height, tile'.tuWidthShift)
  /\ UNCHANGED <<corrupt, job, tileIndex>>

\* The tile's buffer is split, and the next tile is the loop's.
NextTile ==
  /\ result = "split"
  /\ IF tileIndex < Len(job.tiles)
     THEN tileIndex' = tileIndex + 1 /\ result' = "prepare"
     ELSE result' = "jobDone" /\ UNCHANGED tileIndex
  /\ UNCHANGED <<tileVars, job, res>>

\* What the job returns, and applying the buffers, which fails at a unit outside
\* the surface.
EndDecode ==
  /\ result = "jobDone"
  /\ \/ res < 0 /\ Return(-1)
     \/ res >= 0 /\ Return(0)
     \/ res >= 0 /\ job.applyCmdBuffers /\ Return(-1)
  /\ UNCHANGED <<tileVars, job, tileIndex>>

LegacyInit ==
  /\ job \in Job
  /\ tileIndex = 1
  /\ res = 0
  /\ InitOf(job.tiles[1])
  /\ result = "called"

LegacyNext ==
  \/ DecodeSerial \/ ApplyResidualJob \/ PrepareTile \/ NextTile \/ EndDecode
  \/ LegacyTurnAny \/ LegacyUnreadable \/ InvalidTemporalRun
-----------------------------------------------------------------------------
(* The other decoder: the layers and the signalling of a tile are decoded  *)
(* to lists, each by a job of its own, and the lists then become commands. *)
(* legacy/decoder/src/decode/transform_coeffs.c, generate_cmdbuffer.c      *)
(*                                                                         *)
(* j.tile is as in Decode; j.layers holds the symbols of each layer,       *)
(* j.temporal those of the signalling, <<>> when its chunk is absent.      *)
(* A residual is there or not, as in Decode.                               *)

TileState(j) == TuStateInitialize(j.tile.width, j.tile.height, j.tile.x, j.tile.y, j.tile.tuWidthShift)
UnitAt(s, i) == BlockRaster(s, i)
StartsBlock(p) == p.x % BSTemporal = 0 /\ p.y % BSTemporal = 0

-----------------------------------------------------------------------------
(* The first phase.                                                        *)

\* decodeResidualCoeffs(): symbols until they stand for every unit.
ResidualCoeffs(total, symbols) ==
  LET reached[n \in 0 .. Len(symbols)] ==
        IF n = 0 THEN 0 ELSE reached[n - 1] + symbols[n].zeros + 1
      last == CHOOSE n \in 0 .. Len(symbols) :
                /\ reached[n] >= total \/ n = Len(symbols)
                /\ \A k \in 0 .. n - 1 : reached[k] < total
  IN  SubSeq(symbols, 1, last)

\* The units a run of intra signals stands for one by one, before a block starts.
IntraRun(s, from, run) ==
  CHOOSE n \in 0 .. run :
    /\ n = run \/ (from + n < s.tuTotal /\ StartsBlock(UnitAt(s, from + n)))
    /\ \A k \in 0 .. n - 1 : ~StartsBlock(UnitAt(s, from + k))

\* tuCoordsBlockDetails()
BlockUnits(s, p) ==
  (IF p.x - s.xOffset >= s.wholeBlocksPerRow * BSTemporal THEN s.tuPerBlockRowRightEdge
                                                          ELSE s.tuPerBlockDims)
    * (IF p.y - s.yOffset >= s.wholeBlocksPerCol * BSTemporal THEN s.tuPerBlockColBottomEdge
                                                              ELSE s.tuPerBlockDims)

\* Where the unit with this index is found when the commands are applied.
AlignedIndex(s, i) ==
  LET p == UnitAt(s, i)
  IN  IF s.tuPerBlockRowRightEdge # 0 \/ p.y >= s.wholeBlocksPerCol * BSTemporal
      THEN CoordsBlockAlignedIndex(s, p.x, p.y) ELSE i

\* The first units of the n blocks that start at `from', and where they end.
BlocksFrom(s, from, n) ==
  LET after[k \in 0 .. n] ==
        IF k = 0 THEN [starts |-> <<>>, next |-> from]
        ELSE LET before == after[k - 1]
             IN  [starts |-> Append(before.starts, before.next),
                  next   |-> before.next + BlockUnits(s, UnitAt(s, before.next))]
  IN  after[n]

\* One symbol of decodeTemporalCoeffs(): d holds the list, the blocks to clear,
\* and the units it stands for so far.
TemporalCoeff(j, s, d, symbol) ==
  LET reduced == j.tile.reducedSignalling /\ symbol.signal = "TSIntra"
      single  == IntraRun(s, d.tuIndex, symbol.run)
      blocks  == BlocksFrom(s, d.tuIndex + single, symbol.run - single)
      entry(coeff, run) == IF run = 0 THEN <<>> ELSE <<[coeff |-> coeff, run |-> run - 1]>>
  IN  IF ~reduced
      THEN [d EXCEPT !.list = @ \o entry(IF symbol.signal = "TSIntra" THEN "TCIntra" ELSE "TCInter", symbol.run),
                     !.tuIndex = @ + symbol.run]
      ELSE [list    |-> d.list \o entry("TCIntra", single)
                          \o entry("TCIntraBlock", blocks.next - d.tuIndex - single),
            jumps   |-> d.jumps \o [k \in DOMAIN blocks.starts |-> AlignedIndex(s, blocks.starts[k])],
            tuIndex |-> blocks.next]

TemporalCoeffs(j, s) ==
  LET after[n \in 0 .. Len(j.temporal)] ==
        IF n = 0 THEN [list |-> <<>>, jumps |-> <<>>, tuIndex |-> 0]
        ELSE TemporalCoeff(j, s, after[n - 1], j.temporal[n])
  IN  after[Len(j.temporal)]

-----------------------------------------------------------------------------
(* The second phase.                                                       *)

\* A list is read where `index' is, when the run of its last entry is over, which
\* means `rest'; one that has ended, or is empty, goes on with `none'.
Stepped(list, at, rest, none) ==
  IF at.run > 0 THEN [at EXCEPT !.run = @ - 1, !.now = rest]
  ELSE IF at.index < Len(list) THEN [run |-> list[at.index + 1].run, now |-> list[at.index + 1].value,
                                     index |-> at.index + 1]
  ELSE [at EXCEPT !.run = none.run, !.now = none.value]

\* The clears of the blocks up to an index, and the command for the unit there.
Emit(g, index, command, nonZero, starts) ==
  LET due == SelectSeq(SubSeq(starts, g.cleared + 1, Len(starts)), LAMBDA start : start <= index)
      clear(start) == [command |-> "CBCClear", index |-> start, nonZero |-> FALSE]
  IN  [g EXCEPT !.cleared = @ + Len(due),
                !.cmds = @ \o [k \in DOMAIN due |-> clear(due[k])]
                           \o <<[command |-> command, index |-> index, nonZero |-> nonZero]>>]

\* Intra signals cannot be passed, but those of a block that is cleared can.
MinimumRun(runs, coeff, signalRun) ==
  IF coeff = "TCIntra" THEN 0 ELSE Min(runs \cup {signalRun})

SurfaceOrder(of) == ~of.temporalEnabled /\ ~of.tiled

\* generateCommandBuffers(): one turn of its loop, which steps in every list.
Generated(j, s, t, g, layers, signal) ==
  LET command == IF j.tile.loq = 0 /\ signal.now # "TCInter" THEN "CBCSet" ELSE "CBCAdd"
      index   == IF SurfaceOrder(j.tile) THEN g.tuIndex ELSE AlignedIndex(s, g.tuIndex)
      passed(emitted, minimum) ==
        [emitted EXCEPT !.layers = [l \in DOMAIN layers |-> [layers[l] EXCEPT !.run = @ - minimum]],
                        !.signal = [signal EXCEPT !.run = @ - minimum],
                        !.tuIndex = @ + 1 + minimum]
  IN  passed(Emit(g, index, command, \E l \in DOMAIN layers : layers[l].now,
                  IF j.tile.temporalEnabled THEN t.jumps ELSE <<>>),
             MinimumRun({layers[l].run : l \in DOMAIN layers}, signal.now, signal.run))
GenerateOne(j, s, lists, t, g) ==
  Generated(j, s, t, g,
            [l \in DOMAIN lists |-> Stepped(lists[l], g.layers[l], FALSE, [run |-> s.tuTotal, value |-> FALSE])],
            Stepped(t.list, g.signal, g.signal.now, [run |-> s.tuTotal, value |-> "TCInter"]))

\* decodeTile(): the commands of a tile, with the clears that are left at its end.
Generate(j, s, lists, t) ==
  LET start == [tuIndex |-> 0, cleared |-> 0, cmds |-> <<>>,
                layers |-> [l \in DOMAIN lists |-> [run |-> 0, now |-> FALSE, index |-> 0]],
                signal |-> [run |-> 0, now |-> "TCInter", index |-> 0]]
      of(g) == IF g.tuIndex >= s.tuTotal THEN g ELSE GenerateOne(j, s, lists, t, g)
      after[n \in 0 .. s.tuTotal] == IF n = 0 THEN start ELSE of(after[n - 1])
      ended(last, left) ==
        last.cmds \o [k \in DOMAIN left |-> [command |-> "CBCClear", index |-> left[k], nonZero |-> FALSE]]
      end(last) == ended(last, SubSeq(t.jumps, last.cleared + 1, Len(t.jumps)))
  IN  end(after[s.tuTotal])
DecodeTile(j) ==
  LET listed(coeffs) == [i \in DOMAIN coeffs |-> [run |-> coeffs[i].zeros, value |-> coeffs[i].nonZero]]
      signals(d) == [d EXCEPT !.list = [i \in DOMAIN d.list |-> [run |-> d.list[i].run, value |-> d.list[i].coeff]]]
      of(s) == Generate(j, s, [l \in DOMAIN j.layers |-> listed(ResidualCoeffs(s.tuTotal, j.layers[l]))],
                        signals(TemporalCoeffs(j, s)))
  IN  of(TileState(j))

-----------------------------------------------------------------------------
(* What the commands do to a unit, and what decoding it alone would do.    *)

Does(s, order, cmds, p) ==
  LET at(c)  == IF order THEN SurfaceRaster(s, c.index) ELSE BlockAlignedRaster(s, c.index)
      add(b) == IF b = "zero" THEN "residual" ELSE "sum"
      after[n \in 0 .. Len(cmds)] ==
        IF n = 0 THEN "kept"
        ELSE LET c == cmds[n]
             IN  IF c.command = "CBCClear" /\ BlockOf(s, at(c)) = BlockOf(s, p) THEN "zero"
                 ELSE IF c.command = "CBCSet" /\ at(c) = p THEN IF c.nonZero THEN "residual" ELSE "zero"
                 ELSE IF c.command = "CBCAdd" /\ at(c) = p /\ c.nonZero THEN add(after[n - 1])
                 ELSE after[n - 1]
  IN  after[Len(cmds)]

\* The units of a layer with a coefficient.
Coded(symbols) ==
  LET reached[n \in 0 .. Len(symbols)] == IF n = 0 THEN 0 ELSE reached[n - 1] + symbols[n].zeros + 1
  IN  {reached[n - 1] : n \in {k \in DOMAIN symbols : symbols[k].nonZero}}

\* The signal of every unit: one in a block that is intra from its start has none.
Signals(j, s) ==
  LET read(r) == IF r.left > 0 THEN r
                 ELSE [r EXCEPT !.n = @ + 1, !.left = j.temporal[r.n + 1].run,
                                !.now = j.temporal[r.n + 1].signal]
      unit(r, i) ==
        LET p == UnitAt(s, i)
            q == read(r)
            covers == StartsBlock(p) /\ q.now = "TSIntra" /\ j.tile.reducedSignalling
        IN  IF r.block = BlockOf(s, p) THEN [r EXCEPT !.now = "TSIntra"]
            ELSE [q EXCEPT !.left = @ - 1, !.block = IF covers THEN BlockOf(s, p) ELSE <<>>]
      after[i \in 0 .. s.tuTotal] ==
        IF i = 0 THEN [n |-> 0, left |-> 0, now |-> "TSInter", block |-> <<>>]
        ELSE unit(after[i - 1], i - 1)
  IN  [i \in 0 .. s.tuTotal - 1 |-> IF j.temporal = <<>> THEN "TSInter" ELSE after[i + 1].now]

\* The commands do to every unit what its own signal and residual ask for, and
\* go forward, as their distances are unsigned.
ParallelDecodes(j) ==
  LET order == SurfaceOrder(j.tile)
      coded == UNION {Coded(j.layers[l]) : l \in DOMAIN j.layers}
      right(s, cmds, signals) ==
        /\ \A i \in 0 .. s.tuTotal - 1 :
             Does(s, order, cmds, IF order THEN SurfaceRaster(s, i) ELSE UnitAt(s, i)) =
               IF signals[i] = "TSIntra" THEN IF i \in coded THEN "residual" ELSE "zero"
               ELSE IF i \in coded THEN "sum" ELSE "kept"
        /\ \A n \in 2 .. Len(cmds) : cmds[n - 1].index <= cmds[n].index
  IN  right(TileState(j), DecodeTile(j), Signals(j, TileState(j)))
=============================================================================
