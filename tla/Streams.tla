------------------------------- MODULE Streams -------------------------------
(***************************************************************************)
(* The bytes and the bits of a payload, read in order.                     *)
(* enhancement/src/bytestream.c, bitstream.c, bitstream.h                  *)
(*                                                                         *)
(* What is read is the sequence of its bits, the most significant first:   *)
(* a number of 64 bits is nothing but that.                                *)
(***************************************************************************)
EXTENDS Integers, Sequences

LOCAL INSTANCE SequencesExt

\* FoldLeft(), in steps as many as s is long.
Folded(op(_, _), base, s) ==
  LET f[i \in 0 .. Len(s)] == IF i = 0 THEN base ELSE op(f[i - 1], s[i]) IN f[Len(s)]

WordBits == 32
MultiByteMaxBytes == 10

BitsOf(number, width) == [i \in 1 .. width |-> (number \div 2 ^ (width - i)) % 2]
BitsOfBytes(bytes) == [i \in 1 .. 8 * Len(bytes) |-> BitsOf(bytes[((i - 1) \div 8) + 1], 8)[((i - 1) % 8) + 1]]
Zeroes(n) == [i \in 1 .. n |-> 0]
ShiftedLeft(word, n) == SubSeq(word, n + 1, Len(word)) \o Zeroes(IF n < Len(word) THEN n ELSE Len(word))
ShiftedRight(word, n) == Zeroes(n) \o SubSeq(word, 1, Len(word) - n)

-----------------------------------------------------------------------------
(* Bytes.                                                                  *)

BytestreamInitialize(data) == [data |-> data, offset |-> 0]
BytestreamRemaining(s) == IF s.offset > Len(s.data) THEN 0 ELSE Len(s.data) - s.offset

OffsetValidation(s, changeAmount) ==
  s.offset + changeAmount <= Len(s.data) /\ changeAmount <= Len(s.data)

Refused(s) == [ok |-> FALSE, stream |-> s, out |-> <<>>]
Given(s, out) == [ok |-> TRUE, stream |-> s, out |-> out]

BytestreamSeek(s, offset) ==
  IF OffsetValidation(s, offset) THEN Given([s EXCEPT !.offset = @ + offset], <<>>) ELSE Refused(s)
BytestreamReadN8(s, numBytes) ==
  IF OffsetValidation(s, numBytes)
  THEN Given([s EXCEPT !.offset = @ + numBytes], SubSeq(s.data, s.offset + 1, s.offset + numBytes))
  ELSE Refused(s)

\* A big-endian number of 1, 2, 4 or 8 bytes.
BytestreamReadNumber(s, numBytes) ==
  LET read == BytestreamReadN8(s, numBytes) IN [read EXCEPT !.out = BitsOfBytes(@)]

Nowhere == -1
BytestreamCurrent(s) == IF s.offset >= Len(s.data) THEN Nowhere ELSE s.offset

\* Seven bits a byte, as long as the eighth says that another follows.
BytestreamReadMultiByte(s) ==
  LET remaining    == BytestreamRemaining(s)
      maxReadBytes == IF remaining < MultiByteMaxBytes THEN remaining ELSE MultiByteMaxBytes
      ends         == {n \in 1 .. maxReadBytes : s.data[s.offset + n] < 128}
      byteCount    == CHOOSE n \in ends : \A k \in ends : n <= k
      dst          == Folded(LAMBDA number, n : SubSeq(number, 8, 64) \o BitsOf(s.data[s.offset + n] % 128, 7),
                               Zeroes(64), [n \in 1 .. byteCount |-> n])
  IN  IF s.offset > Len(s.data) \/ ends = {} \/ ~OffsetValidation(s, byteCount) THEN Refused(s)
      ELSE Given([s EXCEPT !.offset = @ + byteCount], dst)

-----------------------------------------------------------------------------
(* Bits: a word of 32 of them, the next one first, of which nextBit are    *)
(* used.  A last word of less is as if its first bits were used already.   *)

LoadWordUnchecked(s) ==
  LET remaining == BytestreamRemaining(s.bytes)
      numBytes  == IF remaining < 4 THEN remaining ELSE 4
      read      == BytestreamReadNumber(s.bytes, numBytes)
  IN  [bytes |-> read.stream, word |-> read.out \o Zeroes(WordBits - 8 * numBytes),
       nextBit |-> 8 * (4 - numBytes)]
LoadWord(s) ==
  IF BytestreamRemaining(s.bytes) <= 0 THEN Refused(s) ELSE Given(LoadWordUnchecked(s), <<>>)

BitstreamInitialize(data) ==
  LET s == [bytes |-> BytestreamInitialize(data), word |-> Zeroes(WordBits), nextBit |-> 0]
  IN  IF data = <<>> THEN Refused(s) ELSE LoadWord(s)

StreamComplete(s) == BytestreamRemaining(s.bytes) = 0 /\ s.nextBit = 32
CheckLoadNextWord(s) == IF s.nextBit = 32 THEN LoadWord(s) ELSE Given(s, <<>>)
Loaded(s) == IF s.nextBit = 32 THEN LoadWordUnchecked(s) ELSE s

Skipped(s, n) == [s EXCEPT !.nextBit = (@ + n) % 256, !.word = ShiftedLeft(@, n)]
FirstOf(word, n) == ShiftedRight(word, WordBits - n)

BitstreamReadBit(s) ==
  LET of(loaded) == IF StreamComplete(s) \/ ~loaded.ok THEN Refused(s)
                    ELSE Given(Skipped(loaded.stream, 1), <<loaded.stream.word[1]>>)
  IN  of(CheckLoadNextWord(s))
BitstreamReadBitUnchecked(s) == Given(Skipped(Loaded(s), 1), <<Loaded(s).word[1]>>)

\* numBits, which the word has, or of which the first come from it and the others from the next.
Joined(lead, trail) == [i \in 1 .. WordBits |-> IF lead[i] + trail[i] > 0 THEN 1 ELSE 0]
BitstreamReadBits(s, numBits) ==
  LET joined(word, next, n) == Given(Skipped(next, n), Joined(FirstOf(word, numBits), FirstOf(next.word, n)))
      across(loaded, next) ==
        IF ~next.ok THEN Refused(loaded)
        ELSE joined(loaded.word, next.stream, (numBits - ((32 - loaded.nextBit) % 256)) % 256)
      of(loaded) == IF (32 - loaded.nextBit) % 256 >= numBits
                    THEN Given(Skipped(loaded, numBits), FirstOf(loaded.word, numBits))
                    ELSE across(loaded, LoadWord(loaded))
      from(read) == IF StreamComplete(s) \/ ~read.ok THEN Refused(s) ELSE of(read.stream)
  IN  from(CheckLoadNextWord(s))

BitstreamReadBitsUnchecked(s, numBits) ==
  LET joined(word, next, n) == Given(Skipped(next, n), Joined(FirstOf(word, numBits), FirstOf(next.word, n)))
      of(loaded) ==
        IF (32 - loaded.nextBit) % 256 >= numBits THEN Given(Skipped(loaded, numBits), FirstOf(loaded.word, numBits))
        ELSE joined(loaded.word, LoadWordUnchecked(loaded), (numBits - ((32 - loaded.nextBit) % 256)) % 256)
  IN  of(Loaded(s))

\* As many bits behind the first one as there are zeroes before it; the number is
\* that of these bits, less one.  More than MaxPrefix - 1 zeroes are not modelled.
MaxPrefix == 32
BitstreamReadExpGolomb(s) ==
  LET counted(read, i) == [ok |-> read.ok, stream |-> read.stream, zeroes |-> i - 1,
                           bit |-> IF read.ok THEN read.out[1] ELSE 0]
      more(r, i)  == IF r.ok /\ r.bit = 0 THEN counted(BitstreamReadBit(r.stream), i) ELSE r
      digit(r, read) == IF read.ok THEN Given(read.stream, r.out \o read.out) ELSE Refused(r.stream)
      value(r, i) == IF r.ok THEN digit(r, BitstreamReadBit(r.stream)) ELSE r
      of(prefix)  == IF ~prefix.ok \/ prefix.bit = 0 THEN Refused(prefix.stream)
                     ELSE Folded(value, Given(prefix.stream, <<1>>), [i \in 1 .. prefix.zeroes |-> i])
  IN  of(Folded(more, [ok |-> TRUE, stream |-> s, zeroes |-> 0, bit |-> 0], [i \in 1 .. MaxPrefix |-> i]))

BitstreamGetRemainingBits(s) == (32 - s.nextBit) + 8 * BytestreamRemaining(s.bytes)
BitstreamGetConsumedBits(s)  == 8 * Len(s.bytes.data) - BitstreamGetRemainingBits(s)
BitstreamGetConsumedBytes(s) == (BitstreamGetConsumedBits(s) + 7) \div 8

-----------------------------------------------------------------------------
(* What is promised: as long as there are bits, reading them in pieces of  *)
(* any sizes, with checks or without, gives the bits of the data, in order *)
(* and none twice; so do single bits, and codes that tell their length.    *)
(* A job has the data and the sizes of the pieces, 0 for a code.           *)

Standing(s, at) ==
  /\ BitstreamGetConsumedBits(s) = at
  /\ BitstreamGetConsumedBytes(s) = (at + 7) \div 8

\* What readBits, readUnchecked, readBit and readCode make of a job.
BitsReadBy(readBits(_, _), readUnchecked(_, _), readBit(_), readCode(_), job) ==
  LET bits == BitsOfBytes(job.data)
      taken(at, n) == ShiftedRight(SubSeq(bits, at + 1, at + n) \o Zeroes(WordBits - n), WordBits - n)
      zeroes(at) == {n \in 0 .. Len(bits) : at + n < Len(bits) /\ bits[at + n + 1] = 1
                                             /\ \A i \in 1 .. n : bits[at + i] = 0}
      codeLength(at) == IF zeroes(at) = {} THEN Len(bits) + 1 ELSE 2 * (CHOOSE n \in zeroes(at) : TRUE) + 1
      next(r, n) ==
        LET length == IF n = 0 THEN codeLength(r.at) ELSE n
            read == CASE n = 0 -> readCode(r.stream) [] n = 1 -> readBit(r.stream) [] OTHER -> readBits(r.stream, n)
            number == CASE n = 0 -> SubSeq(bits, r.at + (length \div 2) + 1, r.at + length)
                        [] n = 1 -> <<bits[r.at + 1]>>
                        [] OTHER -> taken(r.at, n)
        IN  CASE ~r.right \/ r.done -> r
              [] r.right /\ ~r.done /\ r.at + length > Len(bits) ->
                   [r EXCEPT !.done = TRUE, !.right = n <= 1 => ~read.ok]
              [] OTHER -> [stream |-> read.stream, at |-> r.at + length, done |-> FALSE,
                           right |-> /\ read.ok /\ read.out = number
                                     /\ Standing(read.stream, r.at + length)
                                     /\ n > 0 => readUnchecked(r.stream, n).stream = read.stream
                                     /\ n > 1 => readUnchecked(r.stream, n).out = read.out]
      start == BitstreamInitialize(job.data)
  IN  Folded(next, [stream |-> start.stream, at |-> 0, done |-> FALSE, right |-> start.ok], job.pieces).right

\* Reading on in fields of any sizes gives the bytes of the data in order; a field that
\* is not all there is refused, and what is there can still be read.  A field is a
\* number of 1, 2, 4 or 8 bytes, some bytes, a gap, or a number that tells its length.
BytesRead(job) ==
  LET bits(at, n) == BitsOfBytes(SubSeq(job.data, at + 1, at + n))
      size(at, field) ==
        IF field.kind # "multi" THEN field.size
        ELSE LET ends == {n \in 1 .. Len(job.data) - at : job.data[at + n] < 128}
             IN  IF ends = {} THEN Len(job.data) + 1 ELSE CHOOSE n \in ends : \A k \in ends : n <= k
      fits(at, field) == /\ at + size(at, field) <= Len(job.data)
                         /\ field.kind = "multi" => size(at, field) <= MultiByteMaxBytes
      meant(at, field) ==
        CASE field.kind = "number" -> bits(at, field.size)
          [] field.kind = "bytes"  -> SubSeq(job.data, at + 1, at + field.size)
          [] field.kind = "gap"    -> <<>>
          [] field.kind = "multi"  ->
               LET all == FlattenSeq([n \in 1 .. size(at, field) |-> SubSeq(bits(at + n - 1, 1), 2, 8)])
               IN  SubSeq(Zeroes(64) \o all, Len(all) + 1, Len(all) + 64)
      next(r, field) ==
        LET read == CASE field.kind = "number" -> BytestreamReadNumber(r.stream, field.size)
                      [] field.kind = "bytes"  -> BytestreamReadN8(r.stream, field.size)
                      [] field.kind = "gap"    -> BytestreamSeek(r.stream, field.size)
                      [] field.kind = "multi"  -> BytestreamReadMultiByte(r.stream)
            at == r.stream.offset
        IN  IF fits(at, field)
            THEN [stream |-> read.stream,
                  right |-> /\ r.right /\ read.ok /\ read.out = meant(at, field)
                            /\ read.stream.offset = at + size(at, field)]
            ELSE [stream |-> read.stream, right |-> r.right /\ ~read.ok /\ read.stream = r.stream]
      end == Folded(next, [stream |-> BytestreamInitialize(job.data), right |-> TRUE], job.fields)
  IN  /\ end.right
      /\ (BytestreamCurrent(end.stream) = Nowhere) = (BytestreamRemaining(end.stream) = 0)

BitsRead(job) ==
  BitsReadBy(BitstreamReadBits, LAMBDA s, n : IF n = 1 THEN BitstreamReadBitUnchecked(s) ELSE BitstreamReadBitsUnchecked(s, n),
             BitstreamReadBit, BitstreamReadExpGolomb, job)
=============================================================================
