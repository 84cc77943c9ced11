-------------------------------- MODULE Decode --------------------------------
(***************************************************************************)
(* ldeDecodeEnhancement() (enhancement/src/decode.c): the loop that reads  *)
(* the layers of a tile and its temporal signalling, which are coded as    *)
(* runs, and turns them into commands for transform units (TUs).  It jumps *)
(* over every TU that needs no command, and with reduced signalling over   *)
(* whole blocks, so it keeps several run counts true to one another.       *)
(*                                                                         *)
(* A TU's residual is here or not: what it is worth is left out.  One      *)
(* variable is the ordinary decoding of the same symbols, TU by TU.        *)
(***************************************************************************)
EXTENDS TransformUnits, SequencesExt, FiniteSetsExt

CONSTANT Tile    \* inputs: records of a tile's size and settings

LOQ0 == 0
LOQ1 == 1
TSInter == 0
TSIntra == 1

VARIABLES
  tile,                \* the settings
  tuState,             \* the numbering of its TUs
  result,              \* "running", "done" or "failed"
  tuIndex,             \* the TU the loop is at
  zeros,               \* per layer: TUs without residual that are still to come
  temporal,            \* the current signal
  temporalRun,         \* how often it is still to come
  clearBlockQueue,     \* blocks that are still to be cleared
  clearBlockRemainder, \* the last block of such a run is being decoded
  lastTuIndex,         \* block-aligned index of the last command
  jumps,               \* the distances that the last turn gave its commands
  wiped,               \* history: the last block a command cleared, or <<>>
  turn,                \* history: what the last turn did to the TUs it passed
  corrupt,             \* history: a layer could not be read
  ref                  \* the reference, see Decoded

loopVars == <<result, tuIndex, zeros, temporal, temporalRun, clearBlockQueue, clearBlockRemainder,
              lastTuIndex>>
vars == <<tile, tuState, loopVars, jumps, wiped, turn, corrupt, ref>>

Layers == 1 .. tile.numLayers
TuTotal == tuState.tuTotal

NoTurn == [did |-> <<>>, should |-> <<>>, inTime |-> TRUE]
NoSignal == [signal |-> TSInter, run |-> 0, cleared |-> <<>>, effect |-> "none"]

\* Before the first turn of the loop over the TUs of a tile.
InitOf(t) ==
  /\ tile = t
  /\ tuState = TuStateInitialize(tile.width, tile.height, tile.x, tile.y, tile.tuWidthShift)
  /\ tuIndex = 0
  /\ zeros = [layer \in Layers |-> 0]
  /\ temporal = TSInter
  /\ temporalRun = 0
  /\ clearBlockQueue = 0
  /\ clearBlockRemainder = FALSE
  /\ lastTuIndex = 0
  /\ jumps = <<>>
  /\ wiped = <<>>
  /\ turn = NoTurn
  /\ corrupt = FALSE
  /\ ref = NoSignal

Init ==
  /\ \E t \in Tile : InitOf(t)
  /\ result = "running"

\* More than the TUs of any tile: the minimum of no runs (INT_MAX).
MaxJump == 2 * TuTotal

\* op(v), with v worked out once.
Once(op(_), v) == CHOOSE w \in {op(x) : x \in {v}} : TRUE

Least(a, b) == IF a <= b THEN a ELSE b

-----------------------------------------------------------------------------
(* Reading the layers and the signalling.                                  *)

\* entropyDecode() of one layer: whether the TU has a coefficient, and how many
\* TUs after it have none.
Symbol == [nonZero : BOOLEAN, zeros : 0 .. TuTotal]

\* A disabled chunk, or no chunk, is an empty layer.
NoData == [nonZero |-> FALSE, zeros |-> TuTotal - 1]

\* The symbols that can be read where the loop is, for the layers that read one.
Symbols ==
  {s \in [Layers -> Symbol] :
     \A layer \in Layers : zeros[layer] > 0 \/ ~tile.entropyEnabled => s[layer] = NoData}

\* entropyDecodeAllLayers(): whether the TU has a residual, and the zero runs.
\* The layers from `failed' on are left as they were, and that counts as a
\* residual, as the negative result is taken for the mask of the layers.
EntropyDecodeAllLayers(symbol, failed) ==
  LET inRun(layer) == zeros[layer] > 0
      run(layer)   == IF inRun(layer) THEN zeros[layer] - 1 ELSE symbol[layer].zeros
  IN  [nonZero |-> failed \in Layers \/ \E layer \in Layers : ~inRun(layer) /\ symbol[layer].nonZero,
       zeros   |-> [layer \in Layers |-> IF layer < failed THEN run(layer)
                                         ELSE IF layer = failed THEN -1 ELSE zeros[layer]],
       least   |-> {run(layer) : layer \in {l \in Layers : l < failed}}]

\* entropyDecodeTemporal(): the signals alternate from one run to the next, and
\* the first one is read.
TemporalSymbols ==
  [signal : IF tuIndex > 0 THEN {1 - temporal} ELSE {TSInter, TSIntra}, run : 1 .. TuTotal]

HasTemporal == tile.hasTemporalChunk /\ tile.loq = LOQ0

StepsTemporal == clearBlockQueue = 0 /\ HasTemporal /\ tile.temporalEnabled
ReadsTemporal == StepsTemporal /\ temporalRun <= 0

\* Mutant: the blocks of a run of intra signals counted as whole ones.
BlocksTuCountWhole(from, n) == n * tuState.tuPerBlock

\* The TUs of the next n blocks from the TU `from' on.
BlocksTuCount(from, n) ==
  LET after[k \in 0 .. n] ==
        IF k = 0 THEN 0 ELSE after[k - 1] + BlockTuCount(tuState, from + after[k - 1])
  IN  after[n]

\* The signalling state after the signal of this TU, given the symbol that is
\* read when a run has ended.
TemporalStep(symbol) ==
  LET signal    == IF ReadsTemporal THEN symbol.signal ELSE temporal
      run       == (IF ReadsTemporal THEN symbol.run ELSE temporalRun) - 1
      remainder == IF ReadsTemporal THEN FALSE ELSE clearBlockRemainder
      queues    == IsBlockStart(tuState, tuIndex) /\ signal = TSIntra /\ tile.reducedSignalling
  IN  IF ~StepsTemporal
      THEN [signal |-> temporal, run |-> temporalRun, queue |-> clearBlockQueue,
            remainder |-> clearBlockRemainder]
      ELSE [signal |-> signal,
            run |-> IF queues THEN BlocksTuCount(tuIndex, run + 1) ELSE run,
            queue |-> IF queues THEN run + 1 ELSE 0,
            remainder |-> remainder]

-----------------------------------------------------------------------------
(* One turn of the loop.                                                   *)

RasterOrder == ~tile.temporalEnabled /\ ~tile.tiled

\* Where the turn goes on: how many TUs are jumped over, and the run then.
\* m is the least of the layers' zero runs, c whether a block was cleared.
Jump(t, m, c) ==
  LET blockTUCount == BlockTuCount(tuState, tuIndex)
      inBlock == IF tuIndex >= tuState.maxWholeBlockTu
                 THEN (tuIndex - tuState.maxWholeBlockTu) % blockTUCount
                 ELSE (tuIndex % tuState.tuPerRow) % tuState.tuPerBlock
      by(n, more) == [skip |-> n, run |-> t.run - n - more]
  IN  CASE ~HasTemporal                        -> [skip |-> m, run |-> t.run]
        [] HasTemporal /\ c                    -> by(Least(m, blockTUCount - 1), 1)
        [] HasTemporal /\ ~c /\ t.queue > 0    -> by(Least(m, blockTUCount - inBlock - 1), 1)
        [] HasTemporal /\ ~c /\ t.queue = 0    ->
             IF t.signal = TSInter \/ (t.remainder /\ m > t.run) THEN by(Least(m, t.run), 0)
             ELSE IF ~t.remainder THEN [skip |-> 0, run |-> t.run]
             ELSE by(m, 0)

\* The command for the residuals of this TU.
ResidualCommand(nonZero, t) ==
  IF ~nonZero /\ t.signal = TSIntra THEN "SetZero"
  ELSE IF tile.loq = LOQ0 /\ (t.signal = TSIntra \/ t.queue > 0 \/ t.remainder) THEN "Set"
  ELSE "Add"

\* The state of the signalling after the block that starts here is cleared.
Cleared(t) == [t EXCEPT !.queue = t.queue - 1, !.remainder = (t.queue = 1) \/ t.remainder]

\* The commands of a turn, each for a TU given by its index.
Commands(nonZero, t, clears) ==
  LET aligned == IndexBlockAlignedIndex(tuState, tuIndex)
      applies == nonZero \/ (~clears /\ (~tile.temporalEnabled \/ t.signal = TSIntra))
  IN  (IF clears THEN <<[command |-> "Clear", nonZero |-> FALSE, index |-> aligned]>> ELSE <<>>)
      \o (IF applies
          THEN <<[command |-> ResidualCommand(nonZero, t), nonZero |-> nonZero,
                  index |-> IF RasterOrder THEN tuIndex ELSE aligned]>>
          ELSE <<>>)

-----------------------------------------------------------------------------
(* What the commands do when they are applied, and what they should do.    *)

\* cmdBufferApplicatorBlock() and ...Surface(): where a command goes.
PixelOf(c) == IF RasterOrder THEN SurfaceRaster(tuState, c.index) ELSE BlockAlignedRaster(tuState, c.index)
PixelAt(i) == IF RasterOrder THEN SurfaceRaster(tuState, i) ELSE BlockRaster(tuState, i)

\* The block that the commands clear, or had cleared last.
Wipes(cmds, place(_)) ==
  LET clears == {k \in DOMAIN cmds : cmds[k].command = "Clear"}
  IN  IF clears = {} THEN wiped ELSE BlockOf(tuState, place(cmds[Max(clears)]))

\* What a TU becomes, where a command goes to place(command): kept, zero, its
\* residual, or the sum of both.
Effect(i, cmds, place(_)) ==
  LET mine  == {k \in DOMAIN cmds : cmds[k].command # "Clear" /\ place(cmds[k]) = PixelAt(i)}
      wipe  == BlockOf(tuState, PixelAt(i)) = Wipes(cmds, place)
      bare  == IF wipe THEN "zero" ELSE "kept"
      c     == cmds[Max(mine)]
  IN  CASE mine = {}                                 -> bare
        [] mine # {} /\ c.command = "SetZero"        -> "zero"
        [] mine # {} /\ c.command = "Set"            -> IF c.nonZero THEN "residual" ELSE "zero"
        [] mine # {} /\ c.command = "Add" /\ c.nonZero -> IF wipe THEN "residual" ELSE "sum"
        [] OTHER                                     -> bare

\* Decoding a TU on its own: it takes the next signal, unless it is in a block
\* that an intra signal at its start, with reduced signalling, stands for.
Decoded(r, i, nonZero) ==
  LET p       == PixelAt(i)
      block   == BlockOf(tuState, p)
      covered == r.cleared = block
      starts  == p.x % BSTemporal = 0 /\ p.y % BSTemporal = 0
      signal  == IF covered THEN TSIntra ELSE r.signal
  IN  IF ~HasTemporal \/ ~tile.temporalEnabled
      THEN [r EXCEPT !.effect = IF nonZero THEN "sum" ELSE "kept"]
      ELSE [r EXCEPT !.run = IF covered THEN @ ELSE @ - 1,
                     !.cleared = IF covered \/ (starts /\ signal = TSIntra /\ tile.reducedSignalling)
                                 THEN block ELSE <<>>,
                     !.effect = CASE ~covered /\ r.run = 0 -> "unread"
                                  [] signal = TSIntra -> IF nonZero THEN "residual" ELSE "zero"
                                  [] OTHER            -> IF nonZero THEN "sum" ELSE "kept"]

\* The reference over the n TUs of a turn, of which the first may have a residual.
DecodedTurn(n, nonZero, symbol, reads) ==
  LET start == IF reads THEN [ref EXCEPT !.signal = symbol.signal, !.run = symbol.run] ELSE ref
      after[k \in 0 .. n] ==
        IF k = 0 THEN <<start>>
        ELSE LET add(before) == Append(before, Decoded(Last(before), tuIndex + k - 1, nonZero /\ k = 1))
             IN  Once(add, after[k - 1])
  IN  after[n]

-----------------------------------------------------------------------------
\* What follows from one turn, but for its result: e holds the layers, t the
\* signalling, cmds the commands, j the jump to the next TU.
TurnDone(e, t, cmds, j) ==
  LET next == tuIndex + j.skip + 1
  IN  /\ tuIndex' = Least(next, TuTotal)
      /\ zeros' = IF next >= TuTotal THEN e.zeros
                  ELSE [layer \in Layers |-> e.zeros[layer] - j.skip]
      /\ temporal' = t.signal
      /\ temporalRun' = j.run
      /\ clearBlockQueue' = t.queue
      /\ clearBlockRemainder' = t.remainder
      /\ lastTuIndex' = IF cmds = <<>> THEN lastTuIndex ELSE cmds[Len(cmds)].index
      /\ jumps' = [k \in DOMAIN cmds |->
                     cmds[k].index - (IF k = 1 THEN lastTuIndex ELSE cmds[k - 1].index)]
      /\ UNCHANGED <<tile, tuState>>

\* The history of the turn, over the TUs it passes.
TurnRecorded(e, symbol, cmds, j) ==
  LET passed == Least(j.skip + 1, TuTotal - tuIndex)
  IN  \E after \in {DecodedTurn(passed, e.nonZero, symbol, ReadsTemporal)} :
        /\ wiped' = Wipes(cmds, PixelOf)
        /\ turn' = [did    |-> [k \in 1 .. passed |-> Effect(tuIndex + k - 1, cmds, PixelOf)],
                    should |-> [k \in 1 .. passed |-> after[k + 1].effect],
                    inTime |-> ReadsTemporal => ref.run = 0]
        /\ ref' = [after[passed + 1] EXCEPT !.effect = "none"]

\* One turn of the loop.
Turn(layerSymbols, failed, symbol) ==
  /\ result = "running"
  /\ \E e \in {EntropyDecodeAllLayers(layerSymbols, failed)}, stepped \in {TemporalStep(symbol)} :
       LET clears == IsBlockStart(tuState, tuIndex) /\ stepped.queue > 0
           m      == IF e.least = {} THEN MaxJump ELSE Min(e.least)
       IN  \E t \in {IF clears THEN Cleared(stepped) ELSE stepped} :
             \E cmds \in {Commands(e.nonZero, t, clears)}, j \in {Jump(t, m, clears)} :
                /\ TurnDone(e, t, cmds, j) /\ TurnRecorded(e, symbol, cmds, j)
                /\ result' = IF tuIndex + j.skip + 1 >= TuTotal THEN "done" ELSE "running"
  /\ corrupt' = (corrupt \/ failed \in Layers)

TurnAny ==
  \E layerSymbols \in Symbols, symbol \in TemporalSymbols :
     /\ ~ReadsTemporal => symbol = CHOOSE s \in TemporalSymbols : TRUE
     /\ Turn(layerSymbols, tile.numLayers + 1, symbol)

\* A layer cannot be read: the loop goes on with what it has.
TurnUnreadable ==
  /\ ~corrupt /\ tile.entropyEnabled
  /\ \E failed \in Layers, symbol \in TemporalSymbols :
       /\ zeros[failed] <= 0
       /\ ~ReadsTemporal => symbol = CHOOSE s \in TemporalSymbols : TRUE
       /\ Turn([layer \in Layers |-> NoData], failed, symbol)

\* The temporal signalling cannot be read: decoding the tile fails.
TemporalUnreadable ==
  /\ result = "running" /\ ReadsTemporal
  /\ result' = "failed"
  /\ UNCHANGED <<tile, tuState, tuIndex, zeros, temporal, temporalRun, clearBlockQueue, clearBlockRemainder,
                 lastTuIndex, jumps, wiped, turn, corrupt, ref>>

Next == TurnAny \/ TurnUnreadable \/ TemporalUnreadable

Spec == Init /\ [][Next]_vars

-----------------------------------------------------------------------------
\* The commands of the loop do to every TU what decoding its symbols one TU
\* after the other would do: the loop jumps over none that needs a command,
\* gives none a command meant for another, and reads each signal when the last
\* one is used up.  (Once a layer cannot be read, the rest of it is not known.)
\* Whatever was read, commands go forward: their distances are stored unsigned.
DecodesEachUnit ==
  /\ ~corrupt => turn.did = turn.should /\ turn.inTime
  /\ \A k \in DOMAIN jumps : jumps[k] >= 0
=============================================================================
