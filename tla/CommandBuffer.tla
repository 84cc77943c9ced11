----------------------------- MODULE CommandBuffer -----------------------------
(***************************************************************************)
(* The command buffer of a tile: one block of memory, in which commands    *)
(* are written upwards from its start and their residuals downwards from   *)
(* its end (enhancement/src/cmdbuffer_cpu.c), and read again when they are *)
(* applied, whole or by slices that tasks apply at the same time           *)
(* (pixel_processing/src/apply_cmdbuffer_applicator.h).                    *)
(*                                                                         *)
(* A byte has 4 * JumpSignals values: the command and a signal, as in the  *)
(* code, where JumpSignals is 64.  A residual block is LayerSize bytes.    *)
(***************************************************************************)
EXTENDS Integers, FiniteSets, SequencesExt, FiniteSetsExt

F == INSTANCE FixedPoint

CONSTANTS
  JumpSignals,        \* values of the six bits of a command byte that tell the jump
  LayerSize,          \* bytes of the residuals of one transform unit
  InitialCapacity,    \* CBCKInitialCapacity
  NumEntryPoints,     \* slices of the buffer
  BlockTus,           \* transform units of a whole block
  JumpTaken, Residual, \* inputs: the jumps and the values that are appended
  MaxCommands         \* bound: commands appended, over all resets

CommandAssumption ==
  /\ JumpSignals \in Nat \ {0, 1, 2} /\ LayerSize \in Nat \ {0}
  /\ InitialCapacity \in Nat /\ InitialCapacity >= LayerSize + 5
  /\ NumEntryPoints \in Nat \ {0} /\ BlockTus \in Nat \ {0}
  /\ MaxCommands \in Nat
  /\ JumpTaken \subseteq 0 .. (4 * JumpSignals) ^ 3 - 1
  /\ Residual \subseteq 0 .. 4 * JumpSignals - 1

\* LdeCmdBufferCpuCmd: the two high bits of a command byte.
CBCCAdd == 0
CBCCSet == 1
CBCCSetZero == 2
CBCCClear == 3

ByteValues == 4 * JumpSignals
CBCKBigJumpSignal == JumpSignals - 2
CBCKExtraBigJumpSignal == JumpSignals - 1
CBCKExtraBigJump == ByteValues * ByteValues - 1
CBCKStoreGrowFactor == 2
Unwritten == 0       \* what fresh memory happens to hold

Carries(command) == command \in {CBCCAdd, CBCCSet}

VARIABLES
  memory,             \* the bytes, from 0 to the capacity
  currentCommand,     \* where the next command goes
  currentResidual,    \* where the last residuals start
  count,              \* commands in the buffer
  entryPoints,        \* its slices, or <<>> before it is split
  appended,           \* history: the commands appended since the last reset
  before              \* history: how many were appended before it

vars == <<memory, currentCommand, currentResidual, count, entryPoints, appended, before>>

Capacity == Cardinality(DOMAIN memory)

Fresh(capacity) == [i \in 0 .. capacity - 1 |-> Unwritten]

\* ldeCmdBufferCpuInitialize() and the reset that follows it.
Init ==
  /\ memory = Fresh(InitialCapacity)
  /\ currentCommand = 0
  /\ currentResidual = InitialCapacity
  /\ count = 0
  /\ entryPoints = <<>>
  /\ appended = <<>>
  /\ before = 0

Reset ==
  /\ currentCommand' = 0
  /\ currentResidual' = Capacity
  /\ count' = 0
  /\ entryPoints' = <<>>
  /\ appended' = <<>>
  /\ before' = before + count
  /\ UNCHANGED memory

\* The bytes of a command: those that follow the first hold a jump that its
\* six bits cannot, the lowest byte first.
CommandBytes(command, jump) ==
  LET first(signal) == command * JumpSignals + signal
      low           == jump % ByteValues
      mid           == (jump \div ByteValues) % ByteValues
  IN  IF jump < CBCKBigJumpSignal THEN <<first(jump)>>
      ELSE IF jump < CBCKExtraBigJump THEN <<first(CBCKBigJumpSignal), low, mid>>
      ELSE <<first(CBCKExtraBigJumpSignal), low, mid, jump \div (ByteValues * ByteValues)>>

\* bytes written into m from position at on.
Written(m, at, bytes) ==
  [i \in DOMAIN m |-> IF i \in at .. at + Len(bytes) - 1 THEN bytes[i - at + 1] ELSE m[i]]

\* cmdBufferStorageResize(): twice the room, the residuals moved to its end.
Resized(m, residualStart) ==
  LET old   == Cardinality(DOMAIN m)
      grown == CBCKStoreGrowFactor * old - old
  IN  [i \in 0 .. CBCKStoreGrowFactor * old - 1 |->
         IF i >= residualStart + grown THEN m[i - grown]
         ELSE IF i < old THEN m[i] ELSE Unwritten]

\* There is always room left for the longest command with residuals.
RoomLeft(command, residual, layerSize) == residual - command >= layerSize + 4 + 1

\* ldeCmdBufferCpuAppend()
CmdBufferCpuAppend(command, values, jump) ==
  LET bytes     == CommandBytes(command, jump)
      residual  == IF Carries(command) THEN currentResidual - LayerSize ELSE currentResidual
      commanded == Written(memory, currentCommand, bytes)
      filled    == IF Carries(command)
                   THEN Written(commanded, residual, [i \in 1 .. LayerSize |-> values])
                   ELSE commanded
      grows     == ~RoomLeft(currentCommand + Len(bytes), residual, LayerSize)
  IN  /\ before + count < MaxCommands
      /\ entryPoints = <<>>
      /\ memory' = IF grows THEN Resized(filled, residual) ELSE filled
      /\ currentCommand' = currentCommand + Len(bytes)
      /\ currentResidual' = IF grows THEN residual + Capacity ELSE residual
      /\ count' = count + 1
      /\ appended' = Append(appended,
                       [command |-> command, jump |-> jump,
                        values |-> IF Carries(command) THEN [i \in 1 .. LayerSize |-> values] ELSE <<>>])
      /\ UNCHANGED <<entryPoints, before>>

-----------------------------------------------------------------------------
(* Reading commands.  A reader is at cmdOffset from the start and has      *)
(* passed dataOffset bytes of residuals from the end.                      *)

CommandAt(m, cmdOffset) == m[cmdOffset] \div JumpSignals

\* getJump(): the jump of the command at cmdOffset, and how many bytes it has.
GetJump(m, cmdOffset) ==
  LET signal == m[cmdOffset] % JumpSignals
      byte(k) == m[cmdOffset + k]
  IN  CASE signal < CBCKBigJumpSignal -> [jump |-> signal, bytes |-> 1]
        [] signal = CBCKBigJumpSignal -> [jump |-> byte(1) + byte(2) * ByteValues, bytes |-> 3]
        [] OTHER -> [jump |-> byte(1) + byte(2) * ByteValues + byte(3) * ByteValues * ByteValues,
                     bytes |-> 4]

\* One turn of the loop that applies commands, which carry layerSize bytes.
ApplyOne(m, layerSize, r) ==
  LET command == CommandAt(m, r.cmdOffset)
      j       == GetJump(m, r.cmdOffset)
      passed  == r.dataOffset + (IF Carries(command) THEN layerSize ELSE 0)
      values  == [k \in 1 .. layerSize |-> m[Cardinality(DOMAIN m) - passed + k - 1]]
  IN  [cmdOffset  |-> r.cmdOffset + j.bytes,
       dataOffset |-> passed,
       tuIndex    |-> r.tuIndex + j.jump,
       applied    |-> Append(r.applied,
                        [command |-> command, jump |-> j.jump,
                         values |-> IF Carries(command) THEN values ELSE <<>>]),
       units      |-> Append(r.units, r.tuIndex + j.jump)]

\* cmdBufferApplicatorBlock(): the commands of a slice, and the units they are for.
Applied(m, layerSize, entryPoint) ==
  LET start   == [cmdOffset |-> entryPoint.commandOffset, dataOffset |-> entryPoint.dataOffset,
                  tuIndex |-> entryPoint.initialJump, applied |-> <<>>, units |-> <<>>]
      turn[k \in 0 .. entryPoint.count] == IF k = 0 THEN start ELSE ApplyOne(m, layerSize, turn[k - 1])
  IN  turn[entryPoint.count]

\* ldppApplyCmdBuffer() without entry points: the buffer as one slice.
SliceOf(commands) == [count |-> commands, initialJump |-> 0, commandOffset |-> 0, dataOffset |-> 0]
WholeBuffer == SliceOf(count)

\* Mutant: a slice may end in the middle of a block.
SplitOneAnywhere(m, layerSize, groupSize, s, cmdCount) ==
  LET j      == GetJump(m, s.cmdOffset)
      starts == cmdCount > s.splitPoint /\ Len(s.entries) < NumEntryPoints
      entry  == [count |-> 0, initialJump |-> s.tuIndex, commandOffset |-> s.cmdOffset,
                 dataOffset |-> s.data * layerSize]
      ended  == [s.entries EXCEPT ![Len(s.entries)].count = cmdCount - s.lastBufferCount]
  IN  [entries         |-> IF starts THEN Append(ended, entry) ELSE s.entries,
       splitPoint      |-> s.splitPoint + (IF starts THEN groupSize ELSE 0),
       lastBufferCount |-> IF starts THEN cmdCount ELSE s.lastBufferCount,
       lastCmdBlock    |-> s.lastCmdBlock,
       cmdOffset       |-> s.cmdOffset + j.bytes,
       tuIndex         |-> s.tuIndex + j.jump,
       data            |-> s.data + (IF Carries(CommandAt(m, s.cmdOffset)) THEN 1 ELSE 0)]

\* One turn of the loop that splits: a slice ends at the first new block after
\* it has had its share of the commands.
SplitOne(m, layerSize, groupSize, s, cmdCount) ==
  LET command == CommandAt(m, s.cmdOffset)
      j       == GetJump(m, s.cmdOffset)
      block   == (s.tuIndex + j.jump) \div BlockTus
      starts  == /\ cmdCount > s.splitPoint
                 /\ Len(s.entries) < NumEntryPoints
                 /\ block # s.lastCmdBlock
      entry   == [count |-> 0, initialJump |-> s.tuIndex, commandOffset |-> s.cmdOffset,
                  dataOffset |-> s.data * layerSize]
      ended   == [s.entries EXCEPT ![Len(s.entries)].count = cmdCount - s.lastBufferCount]
  IN  [entries         |-> IF starts THEN Append(ended, entry) ELSE s.entries,
       splitPoint      |-> s.splitPoint + (IF starts THEN groupSize ELSE 0),
       lastBufferCount |-> IF starts THEN cmdCount ELSE s.lastBufferCount,
       lastCmdBlock    |-> block,
       cmdOffset       |-> s.cmdOffset + j.bytes,
       tuIndex         |-> s.tuIndex + j.jump,
       data            |-> s.data + (IF Carries(command) THEN 1 ELSE 0)]

\* The entry points that the loop has used.
Split(m, layerSize, commands) ==
  LET start == [entries |-> <<SliceOf(0)>>,
                splitPoint |-> commands \div NumEntryPoints, lastBufferCount |-> 0,
                lastCmdBlock |-> -1, cmdOffset |-> 0, tuIndex |-> 0, data |-> 0]
      turn[k \in 0 .. commands] ==
        IF k = 0 THEN start ELSE SplitOne(m, layerSize, commands \div NumEntryPoints, turn[k - 1], k - 1)
      last  == turn[commands]
  IN  [last.entries EXCEPT ![Len(last.entries)].count = commands - last.lastBufferCount]

\* ldeCmdBufferCpuSplit()
CmdBufferCpuSplit ==
  /\ entryPoints = <<>>
  /\ entryPoints' = Split(memory, LayerSize, count)
  /\ UNCHANGED <<memory, currentCommand, currentResidual, count, appended, before>>

AppendAny ==
  \E command \in {CBCCAdd, CBCCSet, CBCCSetZero, CBCCClear}, values \in Residual, jump \in JumpTaken :
     CmdBufferCpuAppend(command, values, jump)

Next == AppendAny \/ CmdBufferCpuSplit \/ (count > 0 /\ Reset)

Spec == Init /\ [][Next]_vars

-----------------------------------------------------------------------------
\* What is read from the slices, from the two ends of the memory, is what was
\* appended since the reset, with the residuals: whatever the sizes of the
\* commands, neither end overwrites the other, nor does growing lose or misplace
\* any of them.  And no two slices, which tasks apply at the same time, write to
\* the same block of the plane.
SlicesApart ==
  LET slice == [i \in DOMAIN entryPoints |-> Applied(memory, LayerSize, entryPoints[i])]
      blocks(i) == {u \div BlockTus : u \in Range(slice[i].units)}
  IN  entryPoints # <<>> =>
        /\ FlattenSeq([i \in DOMAIN slice |-> slice[i].applied]) = appended
        /\ FlattenSeq([i \in DOMAIN slice |-> slice[i].units]) = Applied(memory, LayerSize, WholeBuffer).units
        /\ \A i, k \in DOMAIN slice : i # k => blocks(i) \cap blocks(k) = {}
-----------------------------------------------------------------------------
(* The buffer of the legacy decoder, which its decoders fill in one go:    *)
(* b has its memory and positions, its layers, and an array of entry       *)
(* points.  legacy/decoder/src/common/cmdbuffer.c, decode/apply_cmdbuffer.c*)
(* A residual is one byte, and there are as many as layers.                *)

\* The first allocation leaves room for residuals of sixteen layers at the end.
cmdBufferInitialise(capacity) ==
  [memory |-> Fresh(capacity), currentCommand |-> 0, currentData |-> capacity - 16,
   count |-> 0, layerCount |-> 0, entryPoints |-> [i \in 1 .. NumEntryPoints |-> SliceOf(0)]]

\* With other layers the memory is resized to what it has, which changes nothing.
cmdBufferReset(b, layerCount) ==
  [b EXCEPT !.currentCommand = 0, !.currentData = Cardinality(DOMAIN b.memory), !.count = 0,
            !.layerCount = IF layerCount = 0 THEN @ ELSE layerCount]

\* The residuals of sixteen layers are stored row by row.
ldlCmdBufferAppend(b, command, values, jump) ==
  LET bytes     == CommandBytes(command, jump)
      data      == IF Carries(command) THEN b.currentData - b.layerCount ELSE b.currentData
      commanded == Written(b.memory, b.currentCommand, bytes)
      filled    == IF Carries(command) THEN Written(commanded, data, F!StoredResiduals(values)) ELSE commanded
      grows     == ~RoomLeft(b.currentCommand + Len(bytes), data, b.layerCount)
  IN  [b EXCEPT !.memory = IF grows THEN Resized(filled, data) ELSE filled,
                !.currentCommand = @ + Len(bytes),
                !.currentData = IF grows THEN data + Cardinality(DOMAIN b.memory) ELSE data,
                !.count = @ + 1]

\* The entry points that the loop does not reach have no commands.
cmdBufferSplit(b) ==
  LET used == Split(b.memory, b.layerCount, b.count)
  IN  [b EXCEPT !.entryPoints = [i \in DOMAIN @ |-> IF i \in DOMAIN used THEN used[i] ELSE SliceOf(0)]]

\* applyCmdBuffer(): the slices that have commands, or the buffer as one.  There is
\* one job for each thread, so the slices of the entry points after those are left.
AppliedSlices(b, numThreads) ==
  LET reached == SubSeq(b.entryPoints, 1, F!Clamp(numThreads, 0, Len(b.entryPoints)))
      slices  == SelectSeq(IF NumEntryPoints = 1 THEN b.entryPoints ELSE reached, LAMBDA e : e.count > 0)
  IN  [i \in DOMAIN slices |-> Applied(b.memory, b.layerCount, slices[i])]

\* What a plane that is decoded twice, the second time with other layers, applies
\* is what was appended for it, and its slices have no block in common.  The legacy
\* pipeline asks for as many entry points as threads, or for one.
LegacySlicesApart(job) ==
  LET append(b, cmds) == FoldLeft(LAMBDA c, cmd : ldlCmdBufferAppend(c, cmd.command, cmd.values, cmd.jump), b, cmds)
      first   == cmdBufferSplit(append(cmdBufferReset(cmdBufferInitialise(job.capacity), 4), job.earlier))
      again   == cmdBufferSplit(append(cmdBufferReset(first, job.layers), job.cmds))
      stored(cmd) == [cmd EXCEPT !.values = IF Carries(cmd.command) THEN F!StoredResiduals(@) ELSE <<>>]
  IN  \E slices \in {AppliedSlices(again, NumEntryPoints)} :
        /\ FlattenSeq([i \in DOMAIN slices |-> slices[i].applied]) = [i \in DOMAIN job.cmds |-> stored(job.cmds[i])]
        /\ \A i, k \in DOMAIN slices :
             i # k => {u \div BlockTus : u \in Range(slices[i].units)}
                        \cap {u \div BlockTus : u \in Range(slices[k].units)} = {}
-----------------------------------------------------------------------------
(* The command buffer of a tile for the GPU: one command for the units of  *)
(* a block that one operation is for, which a bitmask of words tells, and  *)
(* where their residuals start in an array for all commands.               *)
(* enhancement/src/cmdbuffer_gpu.c, pipeline_vulkan/src/shaders/apply.comp *)
(* b is the buffer and its builder.  A word has BlockTus bits.             *)

BitmaskWords == 4
GpuOperations == {"CBGOAdd", "CBGOSet", "CBGOSetZero", "CBGOClearAndSet"}
GpuCarries(operation) == operation # "CBGOSetZero"
NoCommand == [operation |-> "CBGOAdd", blockIndex |-> 0, dataOffset |-> 0, bitmask |-> {}]

\* The last command of the memory stands for the lack of one.
CBGKMaxBlockIndex == -1
FreshCommands(capacity) ==
  [i \in 0 .. capacity - 1 |-> IF i = capacity - 1 THEN [NoCommand EXCEPT !.blockIndex = CBGKMaxBlockIndex] ELSE NoCommand]

\* ldeCmdBufferGpuInitialize(), then ldeCmdBufferGpuReset(), which allocates.
CmdBufferGpuFresh(capacity, residuals, layerCount) ==
  [commands |-> FreshCommands(capacity), commandCount |-> 0, layerCount |-> layerCount,
   current |-> [operation \in GpuOperations |-> capacity - 1],
   residuals |-> [operation \in GpuOperations |-> <<>>],
   capacity |-> [operation \in GpuOperations |-> residuals],
   buildingClearAndSet |-> FALSE]

\* cmdBufferCommandsResize(): what was the last command is one to be used, and
\* what stood for none is the last of the new memory.
CmdBufferCommandsResize(b, newCapacity) ==
  LET prevLastCmd == Cardinality(DOMAIN b.commands) - 1
  IN  [b EXCEPT !.commands = [i \in 0 .. newCapacity - 1 |->
                                IF i < prevLastCmd THEN b.commands[i] ELSE FreshCommands(newCapacity)[i]],
                !.current = [operation \in GpuOperations |->
                               IF b.current[operation] = prevLastCmd THEN newCapacity - 1
                               ELSE b.current[operation]]]

\* The word and the bit of a unit.  A shift by more bits than a word has is taken
\* modulo that number by the processors the library is built for.
GpuBit(b, tuIndex, tuRasterOrder) ==
  LET dds       == b.layerCount = 16
      blockSize == IF dds THEN BlockTus ELSE BitmaskWords * BlockTus
      position  == tuIndex % (IF tuRasterOrder THEN BitmaskWords * BlockTus ELSE blockSize)
  IN  IF ~tuRasterOrder /\ dds THEN <<0, blockSize - 1 - position>>
      ELSE <<position \div BlockTus, (blockSize - 1 - (position % BlockTus)) % BlockTus>>

\* cmdBufferAppendResiduals() for the command at index at.
CmdBufferAppendResiduals(b, at, residuals, tuIndex, tuRasterOrder) ==
  LET operation == b.commands[at].operation
      marked    == [b EXCEPT !.commands[at].bitmask = @ \cup {GpuBit(b, tuIndex, tuRasterOrder)}]
      full      == Len(b.residuals[operation]) >= b.capacity[operation] - b.layerCount
      capacity  == IF full THEN b.capacity[operation] * CBCKStoreGrowFactor ELSE b.capacity[operation]
      held      == b.residuals[operation] \o F!StoredResiduals(residuals)
  IN  IF ~GpuCarries(operation) THEN marked
      ELSE [marked EXCEPT !.capacity[operation] = capacity,
                          !.residuals[operation] = SubSeq(held, 1, F!Clamp(Len(held), 0, capacity))]

\* ldeCmdBufferGpuAppend(): in the block that is being cleared, residuals are part
\* of that command; another operation or another block is a command of its own.
CmdBufferGpuAppend(b, operation, residuals, tuIndex, tuRasterOrder) ==
  LET dds        == b.layerCount = 16
      blockIndex == tuIndex \div (IF ~tuRasterOrder /\ dds THEN BlockTus ELSE BitmaskWords * BlockTus)
      clearing   == operation # "CBGOClearAndSet" /\ b.buildingClearAndSet
      sameBlock  == blockIndex = b.commands[b.current["CBGOClearAndSet"]].blockIndex
      c == [b EXCEPT !.buildingClearAndSet = IF operation = "CBGOClearAndSet" THEN TRUE
                                             ELSE IF clearing /\ ~sameBlock THEN FALSE ELSE @]
      roomy == IF c.commandCount = Cardinality(DOMAIN c.commands) - 2
               THEN CmdBufferCommandsResize(c, CBCKStoreGrowFactor * Cardinality(DOMAIN c.commands)) ELSE c
      begun == [roomy EXCEPT !.current[operation] = c.commandCount,
                             !.commandCount = @ + 1,
                             !.commands[c.commandCount] =
                               [@ EXCEPT !.operation = operation, !.blockIndex = blockIndex,
                                         !.dataOffset = IF GpuCarries(operation) THEN Len(c.residuals[operation]) ELSE @]]
      added(d) == IF operation = "CBGOClearAndSet" THEN d
                  ELSE CmdBufferAppendResiduals(d, d.current[operation], residuals, tuIndex, tuRasterOrder)
  IN  IF clearing /\ sameBlock /\ operation # "CBGOSetZero"
      THEN CmdBufferAppendResiduals(b, b.current["CBGOClearAndSet"], residuals, tuIndex, FALSE)
      ELSE added(IF c.commands[c.current[operation]].blockIndex = blockIndex THEN c ELSE begun)

\* ldeCmdBufferGpuBuild(): the residuals of all operations, one after the other.
CmdBufferGpuBuild(b, tuRasterOrder) ==
  LET adds == b.residuals["CBGOAdd"]
      sets == b.residuals["CBGOSet"]
      start(operation) == CASE operation = "CBGOSet" -> Len(adds)
                            [] operation = "CBGOClearAndSet" -> Len(adds) + Len(sets)
                            [] OTHER -> 0
      built(cmd) == [cmd EXCEPT !.dataOffset = IF tuRasterOrder THEN @ ELSE @ + start(cmd.operation)]
  IN  [commands |-> [i \in 0 .. b.commandCount - 1 |-> built(b.commands[i])],
       residuals |-> IF tuRasterOrder THEN adds ELSE adds \o sets \o b.residuals["CBGOClearAndSet"],
       layerCount |-> b.layerCount]

\* apply.comp: what the invocation for a command does to a unit of a tile that is
\* the plane.  Residuals are counted as the bits are passed.
ShaderUnit(built, tuRasterOrder, cmd, unit) ==
  LET n        == IF tuRasterOrder \/ built.layerCount = 4 THEN BitmaskWords * BlockTus ELSE BlockTus
      set(i)   == <<i \div BlockTus, BlockTus - 1 - (i % BlockTus)>> \in cmd.bitmask
      i0       == unit - n * cmd.blockIndex
      counter  == Cardinality({i \in 0 .. i0 - 1 : set(i)})
      residual == SubSeq(built.residuals, cmd.dataOffset + counter * built.layerCount + 1,
                         cmd.dataOffset + (counter + 1) * built.layerCount)
  IN  IF i0 \notin 0 .. n - 1 THEN {}
      ELSE IF set(i0) THEN {CASE cmd.operation = "CBGOAdd" \/ tuRasterOrder -> <<"add", residual>>
                              [] cmd.operation = "CBGOSetZero" /\ ~tuRasterOrder -> <<"zero">>
                              [] OTHER -> <<"set", residual>>}
      ELSE IF cmd.operation = "CBGOClearAndSet" /\ ~tuRasterOrder THEN {<<"zero">>} ELSE {}

\* The commands of a tile run at the same time: all that are for a unit do the same
\* to it, and that is what the operations that were appended do one by one.
GpuAppliesEach(job) ==
  LET append(b, o) == CmdBufferGpuAppend(b, o.operation, o.residuals, o.tuIndex, job.tuRasterOrder)
      blockOf(u)   == u \div (IF job.layers = 16 THEN BlockTus ELSE BitmaskWords * BlockTus)
      does(so, o, u) ==
        CASE o.operation = "CBGOClearAndSet" /\ blockOf(o.tuIndex) = blockOf(u) -> <<"zero">>
          [] o.operation = "CBGOSetZero" /\ o.tuIndex = u -> <<"zero">>
          [] o.operation = "CBGOSet" /\ o.tuIndex = u -> <<"set", F!StoredResiduals(o.residuals)>>
          [] o.operation = "CBGOAdd" /\ o.tuIndex = u ->
               <<IF so = <<>> THEN "add" ELSE "set", F!StoredResiduals(o.residuals)>>
          [] OTHER -> so
  IN  \E built \in {CmdBufferGpuBuild(FoldLeft(append, CmdBufferGpuFresh(job.capacity, job.residuals, job.layers),
                                               job.operations), job.tuRasterOrder)} :
        \A u \in 0 .. job.units - 1 :
          LET effect == FoldLeft(LAMBDA so, o : does(so, o, u), <<>>, job.operations)
          IN  UNION {ShaderUnit(built, job.tuRasterOrder, built.commands[i], u) : i \in DOMAIN built.commands} =
                IF effect = <<>> THEN {} ELSE {effect}
=============================================================================
