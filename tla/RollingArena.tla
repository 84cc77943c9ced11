---------------------------- MODULE RollingArena ----------------------------
(***************************************************************************)
(* The rolling arena: blocks are cut from the front of a ring of bytes and *)
(* given back in any order; space returns only at the back.  A ring of     *)
(* slots remembers the blocks between the oldest and the newest.  When the *)
(* bytes run out a larger buffer takes over, and the old one goes when its *)
(* blocks have.  Every operation holds the arena's mutex from end to end.  *)
(***************************************************************************)
EXTENDS Integers, Sequences, FiniteSetsExt

CONSTANTS Align,                    \* kMinAlignment: a power of two
          InitialCount, InitialSize,
          Sizes,                    \* sizes that are asked for
          MaxBuffers,               \* kRollingArenaMaxBuffers
          MaxAllocations            \* allocations in a run

ArenaAssumption == /\ Align \in Nat \ {0} /\ InitialCount \in Nat \ {0}
                   /\ InitialSize \in Nat \ {0} /\ Sizes \subseteq Nat \ {0}
                   /\ MaxBuffers \in Nat \ {0} /\ MaxAllocations \in Nat

VARIABLES slots, slotFront, slotBack,
          allocationIndexNext, allocationIndexOldest,
          buffers, bufferFront, bufferBack,
          blocks,           \* the allocations the callers hold
          hidden            \* history: the numbers whose slots began where they ended

arenaVars == <<slots, slotFront, slotBack, allocationIndexNext, allocationIndexOldest,
          buffers, bufferFront, bufferBack, blocks, hidden>>

NewSlot == [beginOffset |-> 0, endOffset |-> 0, bufferIndex |-> 0]
NewBuffer(size) == [size |-> size, allocationCount |-> 0, released |-> FALSE]

ArenaInit == /\ slots = [s \in 0 .. InitialCount - 1 |-> NewSlot]
        /\ slotFront = 0 /\ slotBack = 0
        /\ allocationIndexNext = 0 /\ allocationIndexOldest = 0
        /\ buffers = <<NewBuffer(InitialSize)>>
        /\ bufferFront = 0 /\ bufferBack = 0
        /\ blocks = {} /\ hidden = {}

slotsCount == Cardinality(DOMAIN slots)
bufferSize == buffers[Len(buffers)].size
State == [slots |-> slots, front |-> slotFront, back |-> slotBack]

(* Mutant: the part of the ring that has wrapped is not moved.               *)
DoubleSlotsUnmoved(ring) ==
    LET n == Cardinality(DOMAIN ring.slots) IN
    [slots |-> [s \in 0 .. 2 * n - 1 |-> IF s < n THEN ring.slots[s] ELSE NewSlot],
     front |-> IF ring.front < ring.back THEN ring.front + n ELSE ring.front,
     back |-> ring.back]

(* When the ring has wrapped, the part at the bottom moves up behind the    *)
(* rest; the moved slots stay behind as well.                               *)
rollingArenaDoubleSlots(ring) ==
    LET n == Cardinality(DOMAIN ring.slots) IN
    [slots |-> [s \in 0 .. 2 * n - 1 |->
                  IF s < n THEN ring.slots[s]
                  ELSE IF s - n < ring.front /\ ring.front < ring.back THEN ring.slots[s - n]
                  ELSE NewSlot],
     front |-> IF ring.front < ring.back THEN ring.front + n ELSE ring.front,
     back |-> ring.back]

(* Sizes that are tried for a buffer that takes over: doubled, and again.   *)
(* A block may be up to Growth times as large as the buffer.                *)
Growth == 255
NextSize(enough) ==
    Min({n \in {bufferSize * m : m \in {2, 4, 8, 16, 32, 64, 128, 256}} : n >= enough})

(* Where a block goes: the rest of the buffer, its start, or a new buffer.  *)
(* One that would fill the new buffer does not fit, and yet another is made. *)
Placement(alignedSize) ==
    LET freeSize == bufferSize - ((bufferFront + bufferSize - bufferBack) % bufferSize) - 1
        In(all, begin, offset, end) ==
            [buffers |-> all, begin |-> begin, offset |-> offset, end |-> end]
    IN  IF freeSize >= alignedSize /\ bufferSize - bufferFront >= alignedSize
        THEN In(buffers, bufferFront, bufferFront, (bufferFront + alignedSize) % bufferSize)
        ELSE IF freeSize >= alignedSize /\ bufferBack >= alignedSize
        THEN In(buffers, bufferFront, 0, alignedSize)
        ELSE LET size == NextSize(freeSize + alignedSize)
                 larger == Append(buffers, NewBuffer(size))
             IN  In(IF size > alignedSize THEN larger ELSE Append(larger, NewBuffer(2 * size)),
                    0, 0, alignedSize)

RoomFor(alignedSize) == /\ alignedSize <= Growth * bufferSize
                        /\ Len(Placement(alignedSize).buffers) <= MaxBuffers

AlignedUp(offset) == ((offset + Align - 1) \div Align) * Align

SlotOf(ring, oldest, index) == (index - oldest + ring.back) % Cardinality(DOMAIN ring.slots)

(* The state of the arena after an allocation, with the block it gives. *)
internalAllocate(size) ==
    LET place == Placement(size + Align - 1)
        full == (slotFront + 1) % slotsCount = slotBack
        ring == IF full THEN rollingArenaDoubleSlots(State) ELSE State
        n == Cardinality(DOMAIN ring.slots)
        last == Len(place.buffers)
    IN  [slots |-> [ring.slots EXCEPT ![ring.front] =
                        [beginOffset |-> place.begin, endOffset |-> place.end, bufferIndex |-> last]],
         front |-> (ring.front + 1) % n,
         back |-> ring.back,
         oldest |-> allocationIndexOldest,
         buffers |-> [place.buffers EXCEPT ![last].allocationCount = @ + 1],
         bufferFront |-> place.end,
         bufferBack |-> IF last > Len(buffers) THEN 0 ELSE bufferBack,
         block |-> [index |-> allocationIndexNext, buffer |-> last,
                    offset |-> AlignedUp(place.offset), size |-> size]]

EmptySlot(slot) == slot.beginOffset = slot.endOffset

(* How many slots from `from' on, and before `front', are empty. *)
EmptyFrom(ring, from, front) ==
    LET n == Cardinality(DOMAIN ring)
        held == (front + n - from) % n
    IN  CHOOSE k \in 0 .. held :
            /\ \A j \in 0 .. k - 1 : EmptySlot(ring[(from + j) % n])
            /\ k = held \/ ~EmptySlot(ring[(from + k) % n])

(* The state after a block is given back, from a state `a' of the arena.    *)
internalFree(a, block) ==
    LET n == Cardinality(DOMAIN a.slots)
        slot == SlotOf(a, a.oldest, block.index)
        begin == a.slots[slot].beginOffset
        buffer == a.slots[slot].bufferIndex
        active == buffer = Len(a.buffers)
        cleared == [a.slots EXCEPT ![slot].beginOffset = a.slots[slot].endOffset]
        passed == EmptyFrom(cleared, slot, a.front)
        popped == IF slot = a.back THEN EmptyFrom(cleared, slot, a.front) ELSE 0
        left == a.buffers[buffer].allocationCount - 1
    IN  [slots |-> cleared, front |-> a.front,
         back |-> (a.back + popped) % n,
         oldest |-> a.oldest + popped,
         buffers |-> [a.buffers EXCEPT ![buffer] =
                         [@ EXCEPT !.allocationCount = left, !.released = (left = 0 /\ ~active)]],
         bufferFront |-> a.bufferFront,
         bufferBack |-> IF active /\ begin = a.bufferBack
                        THEN cleared[(slot + passed - 1) % n].endOffset ELSE a.bufferBack]

Becomes(a) == /\ slots' = a.slots /\ slotFront' = a.front /\ slotBack' = a.back
              /\ allocationIndexOldest' = a.oldest
              /\ buffers' = a.buffers
              /\ bufferFront' = a.bufferFront /\ bufferBack' = a.bufferBack

Now == [slots |-> slots, front |-> slotFront, back |-> slotBack, oldest |-> allocationIndexOldest,
        buffers |-> buffers, bufferFront |-> bufferFront, bufferBack |-> bufferBack]

MayAllocate(size) == allocationIndexNext < MaxAllocations /\ RoomFor(size + Align - 1)

Numbered(size) ==
    LET place == Placement(size + Align - 1) IN
    /\ allocationIndexNext' = allocationIndexNext + 1
    /\ hidden' = hidden \cup (IF place.begin = place.end THEN {allocationIndexNext} ELSE {})

(* What is asserted of a block that is given back.  Without assertions the   *)
(* slot of another block would be cleared.                                   *)
MayFree(block) == block.index \in allocationIndexOldest .. allocationIndexNext - 1

rollingArenaAllocate(size) ==
    /\ MayAllocate(size)
    /\ Becomes(internalAllocate(size))
    /\ Numbered(size)
    /\ blocks' = blocks \cup {internalAllocate(size).block}

rollingArenaFree(block) ==
    /\ MayFree(block)
    /\ Becomes(internalFree(Now, block))
    /\ blocks' = blocks \ {block}
    /\ UNCHANGED <<allocationIndexNext, hidden>>

(* A block that fits where it is stays there, however far it was cut to.    *)
rollingArenaReallocate(block, size) ==
    LET slot == slots[SlotOf(State, allocationIndexOldest, block.index)]
        end == IF slot.endOffset > slot.beginOffset
               THEN slot.endOffset ELSE buffers[slot.bufferIndex].size
        fits == block.offset + size <= end
    IN  /\ MayFree(block)
        /\ IF fits
           THEN /\ blocks' = (blocks \ {block}) \cup {[block EXCEPT !.size = size]}
                /\ UNCHANGED <<slots, slotFront, slotBack, allocationIndexNext,
                               allocationIndexOldest, buffers, bufferFront, bufferBack, hidden>>
           ELSE /\ MayAllocate(size)
                /\ Becomes(internalFree(internalAllocate(size), block))
                /\ Numbered(size)
                /\ blocks' = (blocks \ {block}) \cup {internalAllocate(size).block}

ArenaNext == \/ \E size \in Sizes : rollingArenaAllocate(size)
        \/ \E block \in blocks : \/ rollingArenaFree(block)
                                 \/ \E size \in Sizes : rollingArenaReallocate(block, size)

ArenaSpec == ArenaInit /\ [][ArenaNext]_arenaVars

(* Through the ring of slots, wrapped and doubled at any time, the number   *)
(* of a block that is in use leads to what was noted of it, and to a slot   *)
(* of its own between the oldest and the newest, that is not empty.  Only a *)
(* block that was put at the start of its buffer, and ends just where the   *)
(* front was, can be passed over like an empty one; the others are found    *)
(* even after that.                                                         *)
SlotsFindBlocks ==
    /\ (slotFront + slotsCount - slotBack) % slotsCount
           = allocationIndexNext - allocationIndexOldest
    /\ \A b \in {c \in blocks : c.index \notin hidden} :
          LET s == slots[SlotOf(State, allocationIndexOldest, b.index)]
          IN  /\ MayFree(b)
              /\ ~EmptySlot(s)
              /\ s.bufferIndex = b.buffer
              /\ b.offset \in {0, AlignedUp(s.beginOffset)}

(* No byte belongs to two blocks that are both in use, and no block lies in *)
(* a buffer that was released or beyond the end of its own.                 *)
BlocksApart ==
    \A b \in blocks :
        /\ ~buffers[b.buffer].released
        /\ b.offset + b.size <= buffers[b.buffer].size
        /\ \A c \in blocks \ {b} :
              b.buffer = c.buffer => \/ b.offset + b.size <= c.offset
                                     \/ c.offset + c.size <= b.offset
=============================================================================
