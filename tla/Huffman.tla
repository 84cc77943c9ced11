------------------------------- MODULE Huffman -------------------------------
(***************************************************************************)
(* Entropy coding: the bits of a chunk, the tables that are built from the *)
(* code lengths at its head, and the symbols that the tables find.         *)
(* enhancement/src/huffman.c, huffman.h, entropy.c                         *)
(*                                                                         *)
(* A coefficient has a symbol of its least significant bits, one of its    *)
(* most significant bits if the first says so, and any number of symbols   *)
(* of a run length.  They are found together in a table of triples, else   *)
(* one by one in a table, else by searching a list.  A chunk without codes *)
(* holds the symbols as they are, which is what the tables must agree with.*)
(***************************************************************************)
EXTENDS Streams

CONSTANTS LeadingZeroesBits,   \* VN_BIG_TABLE_LEADING_ZEROES_BITS
          MaxCodeSize,         \* VN_BIG_TABLE_MAX_CODE_SIZE
          SmallTableSize       \* VN_SMALL_TABLE_MAX_SIZE

LOCAL INSTANCE SequencesExt
LOCAL INSTANCE FiniteSetsExt

MaxNumLeadingZeroes == 2 ^ LeadingZeroesBits - 1
CodeSizeToRead == MaxNumLeadingZeroes + MaxCodeSize

MinOf(a, b) == IF a < b THEN a ELSE b

-----------------------------------------------------------------------------
(* HuffmanStream: a window of 32 bits over the data, of which the bits     *)
(* from wordStartBit to wordEndBit are asked for and not used.  The word   *)
(* holds the 32 bits before 8 * offset; behind the data there are zeros.   *)

HuffmanStreamInitialize(data) ==
  [data |-> data, offset |-> 0, wordStartBit |-> 32, wordEndBit |-> 32, bitsRead |-> 0]

UsableBits(st) == st.wordEndBit - st.wordStartBit
DataBit(st, i) == IF i \in DOMAIN st.data THEN st.data[i] ELSE 0

\* The number of the bits from start on, as long as the word holds them.
ExtractBits(st, start, end) ==
  Folded(LAMBDA number, i : 2 * number + DataBit(st, 8 * st.offset - 32 + i), 0,
           [n \in 1 .. end - start |-> start + n])

AdvanceByNBits(st, bits) ==
  LET shuffled == IF st.wordEndBit + bits > 32 THEN st.wordStartBit \div 8 ELSE 0
  IN  [st EXCEPT !.offset = @ + shuffled, !.bitsRead = @ + bits,
                 !.wordStartBit = @ - 8 * shuffled, !.wordEndBit = (@ + bits) - 8 * shuffled]

\* The stream with desired bits, at least, and the number they are.
WithCode(st, desired) ==
  [stream |-> st, code |-> ExtractBits(st, st.wordStartBit, st.wordStartBit + desired)]
AdvanceToNthBit(st, desired) ==
  WithCode(IF UsableBits(st) < desired THEN AdvanceByNBits(st, desired - UsableBits(st)) ELSE st, desired)

Consume(st, bits) == [st EXCEPT !.wordStartBit = @ + bits]
RemainingBits(st) ==
  (32 - st.wordEndBit) +
    (IF 8 * st.offset < Len(st.data) THEN Len(st.data) - 8 * st.offset ELSE 0)

Unreadable == [ok |-> FALSE]
ReadBits(st, bits) ==
  LET consumed(read) == [ok |-> TRUE, out |-> read.code, stream |-> Consume(read.stream, bits)]
  IN  IF RemainingBits(st) < bits THEN Unreadable ELSE consumed(AdvanceToNthBit(st, bits))

GetConsumedBytes(st) == ((st.bitsRead + 7) - UsableBits(st)) \div 8

-----------------------------------------------------------------------------
(* The head of a chunk: the lengths of the codes, with symbols listed or   *)
(* flagged, from which every alphabet is made.                             *)

\* The bits that hold the lengths from the least to the greatest, of three versions.
BitWidth(x, version) ==
  LET least(n) == CHOOSE w \in 0 .. 6 : 2 ^ w > n /\ \A v \in 0 .. w - 1 : 2 ^ v <= n
      at == IF version < 1 THEN x + 1 ELSE x
  IN  CASE at > 31      -> -1
        [] at <= 31 /\ version < 1 ->
             (CASE at <= 1 -> 1 [] at = 2 -> 2 [] at \in 3 .. 4 -> 3 [] at \in 5 .. 8 -> 4
                [] at \in 9 .. 16 -> 5 [] OTHER -> 6)
        [] at <= 31 /\ version = 1 -> IF at = 0 THEN 1 ELSE least(at)
        [] OTHER        -> least(at)

NextSymbolIsMSB(symbol) == symbol % 2 = 1
NextSymbolIsRL(symbol) == symbol >= 128

\* Ascending size, then descending symbol.
ListEntrySizeOrder(a, b) == a.bits < b.bits \/ (a.bits = b.bits /\ a.symbol > b.symbol)

\* The result of reading on: what was read is appended to out.
ThenRead(r, bits) ==
  LET appended(read) == IF ~read.ok THEN Unreadable
                        ELSE [ok |-> TRUE, stream |-> read.stream, out |-> Append(r.out, read.out)]
  IN  IF ~r.ok THEN r ELSE appended(ReadBits(r.stream, bits))

EntriesListed(st, count, lengthBits, minLength) ==
  LET entries(all) == IF ~all.ok THEN Unreadable
                      ELSE [ok |-> TRUE, stream |-> all.stream,
                            out |-> [i \in 1 .. count |-> [symbol |-> all.out[2 * i - 1],
                                                           bits   |-> all.out[2 * i] + minLength]]]
  IN  entries(Folded(LAMBDA r, i : ThenRead(ThenRead(r, 8), lengthBits),
                     [ok |-> TRUE, stream |-> st, out |-> <<>>], [i \in 1 .. count |-> i]))

EntriesFlagged(st, lengthBits, minLength) ==
  LET of(r, symbol, length) ==
        IF ~length.ok THEN Unreadable
        ELSE [ok |-> TRUE, stream |-> length.stream,
              out |-> Append(r.out, [symbol |-> symbol, bits |-> length.out + minLength])]
      flagged(r, symbol, flag) ==
        CASE ~flag.ok                -> Unreadable
          [] flag.ok /\ flag.out = 0 -> [r EXCEPT !.stream = flag.stream]
          [] OTHER                   -> of(r, symbol, ReadBits(flag.stream, lengthBits))
      next(r, symbol) ==
        IF ~r.ok THEN r
        ELSE flagged(r, symbol, ReadBits(r.stream, 1))
      row(r, n) == IF ~r.ok THEN r ELSE Folded(next, r, [i \in 1 .. 16 |-> 16 * n + i - 1])
  IN  Folded(row, [ok |-> TRUE, stream |-> st, out |-> <<>>], [n \in 1 .. 16 |-> n - 1])

\* Codes are counted up from the longest, and lose a bit with each that is shorter.
GenerateCodes(entries) ==
  LET n == Len(entries)
      code[i \in 1 .. n] ==
        IF i = n THEN 0
        ELSE ((code[i + 1] + 1) % 256) \div 2 ^ (entries[i + 1].bits - entries[i].bits)
  IN  [i \in 1 .. n |-> entries[i] @@ [code |-> code[i]]]

\* An alphabet: the lengths, the only symbol there may be, and the codes in order.
Alphabet(lengths, symbol, codes, stream) ==
  [ok |-> TRUE, stream |-> stream, minCodeLength |-> lengths.out[1], maxCodeLength |-> lengths.out[2],
   singleSymbol |-> symbol, codes |-> codes]

\* What is behind the lengths: one symbol of its own, or a flag and the entries.
SingleAlphabet(lengths, single) ==
  IF single.ok THEN Alphabet(lengths, single.out, <<>>, single.stream) ELSE Unreadable
CodedAlphabet(lengths, entries) ==
  IF ~entries.ok THEN Unreadable
  ELSE Alphabet(lengths, 0, GenerateCodes(SortSeq(entries.out, ListEntrySizeOrder)), entries.stream)
Entries(dense, lengthBits, min) ==
  LET listed(count) == IF ~count.ok \/ count.out = 0 THEN Unreadable
                       ELSE EntriesListed(count.stream, count.out, lengthBits, min)
  IN  CASE ~dense.ok                    -> Unreadable
        [] dense.ok /\ dense.out = 1    -> EntriesFlagged(dense.stream, lengthBits, min)
        [] OTHER                        -> listed(ReadBits(dense.stream, 5))

AlphabetBehind(lengths, version) ==
  LET min        == lengths.out[1]
      max        == lengths.out[2]
      lengthBits == BitWidth(max - min, version)
  IN  CASE ~lengths.ok                        -> Unreadable
        [] lengths.ok /\ max < min            -> Unreadable
        [] lengths.ok /\ min = 31 /\ max = 31 -> Alphabet(lengths, 0, <<>>, lengths.stream)
        [] lengths.ok /\ min = 0 /\ max = 0   -> SingleAlphabet(lengths, ReadBits(lengths.stream, 8))
        [] OTHER -> IF lengthBits < 0 THEN Unreadable
                    ELSE CodedAlphabet(lengths, Entries(ReadBits(lengths.stream, 1), lengthBits, min))
ManualInitializeCommon(st, version) ==
  AlphabetBehind(ThenRead(ThenRead([ok |-> TRUE, stream |-> st, out |-> <<>>], 5), 5), version)

AlphabetAdded(r, alphabet) ==
  IF ~alphabet.ok THEN Unreadable
  ELSE [ok |-> TRUE, stream |-> alphabet.stream, alphabets |-> Append(r.alphabets, alphabet)]

\* The decoders of a chunk: three alphabets for coefficients, two for signals or sizes.
HuffmanInitialize(heads, st, version) ==
  Folded(LAMBDA r, i : IF ~r.ok THEN r ELSE AlphabetAdded(r, ManualInitializeCommon(r.stream, version)),
         [ok |-> TRUE, stream |-> st, alphabets |-> <<>>], [i \in 1 .. heads |-> i])
ChunkInitialize(type, st, version) ==
  HuffmanInitialize(IF type = "EDTDefault" THEN 3 ELSE 2, st, version)

GetSingleSymbol(h) == h.maxCodeLength + h.minCodeLength = 0

-----------------------------------------------------------------------------
(* The table of short codes, and the list of those that are too long.      *)

NoEntry == [symbol |-> 0, bits |-> 0]

LutAt(codes, index) ==
  LET at == {i \in DOMAIN codes : /\ codes[i].bits <= SmallTableSize
                                  /\ index \div 2 ^ (SmallTableSize - codes[i].bits) = codes[i].code}
  IN  IF at = {} THEN NoEntry ELSE codes[CHOOSE i \in at : \A j \in at : i <= j]

OversizedCodes(codes) == SelectSeq(codes, LAMBDA e : e.bits > SmallTableSize)

\* The index at which each size ends, as the search uses it.
IdxOfEachBitSize(list, bits) ==
  CHOOSE i \in 0 .. Len(list) :
     /\ \A j \in 1 .. i : list[j].bits <= bits
     /\ i < Len(list) => list[i + 1].bits > bits

Found(symbol, st) == [ok |-> TRUE, symbol |-> symbol, stream |-> st]

\* The search among the codes of one size; what it has not found in as many steps
\* as there are codes it never will.
Searched(list, first, last, code) ==
  LET start == [lower |-> first, upper |-> last, test |-> first + ((last - first + 1) \div 2),
                found |-> 0, done |-> FALSE]
      step(s, i) ==
        CASE s.done -> s
          [] ~s.done /\ code > list[s.test].code ->
               IF s.test = s.lower THEN [s EXCEPT !.done = TRUE]
               ELSE [s EXCEPT !.upper = s.test, !.test = @ - ((@ - s.lower + 1) \div 2)]
          [] ~s.done /\ code < list[s.test].code ->
               IF s.test = s.upper THEN [s EXCEPT !.done = TRUE]
               ELSE [s EXCEPT !.lower = s.test, !.test = @ + ((s.upper - @ + 1) \div 2)]
          [] OTHER -> [s EXCEPT !.found = s.test, !.done = TRUE]
  IN  Folded(step, start, [i \in 1 .. 2 * Len(list) |-> i])

\* list is sorted by the length of the code, then by the code itself, descending.
ManualDecode(list, st) ==
  LET sizes == {list[i].bits : i \in DOMAIN list}
      at[bits \in sizes \cup {0}] ==
        LET first == (CHOOSE i \in DOMAIN list : list[i].bits = bits /\ \A j \in 1 .. i - 1 : list[j].bits < bits)
            later == {b \in sizes : b > bits}
            of(read, found) ==
              CASE found # 0                -> Found(list[found].symbol, Consume(read.stream, list[found].bits))
                [] found = 0 /\ later = {}  -> Unreadable
                [] OTHER -> at[CHOOSE b \in later : \A c \in later : b <= c]
            among(read) == of(read, Searched(list, first, IdxOfEachBitSize(list, bits), read.code).found)
        IN  among(AdvanceToNthBit(st, bits))
  IN  IF list = <<>> THEN Unreadable ELSE at[list[1].bits]

ManualDecodeMaybeSingleSymbol(h, list, st) ==
  IF GetSingleSymbol(h) THEN Found(h.singleSymbol, st) ELSE ManualDecode(list, st)

LutDecode(codes, st) ==
  LET of(read, entry) == IF entry.bits = 0 THEN [ok |-> FALSE, stream |-> read.stream]
                         ELSE Found(entry.symbol, Consume(read.stream, entry.bits))
      looked(read)    == of(read, LutAt(codes, read.code))
  IN  looked(AdvanceToNthBit(st, SmallTableSize))

SingleDecode(h, st) ==
  LET longer(short) == IF short.ok THEN short ELSE ManualDecode(OversizedCodes(h.codes), short.stream)
  IN  IF GetSingleSymbol(h) THEN Found(h.singleSymbol, st) ELSE longer(LutDecode(h.codes, st))

-----------------------------------------------------------------------------
(* The table of triples.  Its index is the number of leading zeroes of the *)
(* code and the bits behind them.                                          *)

Clz(code, bits) ==
  CHOOSE n \in 0 .. bits : code < 2 ^ (bits - n) /\ (n < bits => code >= 2 ^ (bits - n - 1))

LeadingZeroes(e) == MinOf(Clz(e.code, e.bits), MaxNumLeadingZeroes)
BitsLeftByLsb(e) == MaxCodeSize - (e.bits - LeadingZeroes(e))
StartIdx(e) == e.code * 2 ^ BitsLeftByLsb(e) + LeadingZeroes(e) * 2 ^ MaxCodeSize

\* The codes up to the first that is too long are in the table, the others in a list.
TableLength(codes) ==
  CHOOSE n \in 0 .. Len(codes) : /\ \A i \in 1 .. n : BitsLeftByLsb(codes[i]) >= 0
                                 /\ n < Len(codes) => BitsLeftByLsb(codes[n + 1]) < 0
OverflowLsbList(codes) == SubSeq(codes, TableLength(codes) + 1, Len(codes))

Triple(bits, lsb, rl, overflow) == [bits |-> bits, lsb |-> lsb, rl |-> rl, overflow |-> overflow]

\* The run lengths that fit behind codeSize bits: all short ones, if the table
\* has any, as a chain from the table's end.
RlsThatFit(rl, bitsLeft) ==
  IF LutAt(rl.codes, 2 ^ SmallTableSize - 1) = NoEntry THEN {}
  ELSE {i \in DOMAIN rl.codes : rl.codes[i].bits <= bitsLeft}

\* The entry at index for lsb, whose entries start at first: one run length after
\* the other narrows them down, two at most.
IterateRls(rl, index, first, lsb) ==
  LET narrowed(r, recursionLevel) ==
        LET bitsLeft   == MaxCodeSize - (r.size - (r.start \div 2 ^ MaxCodeSize))
            startOf(i) == r.start + rl.codes[i].code * 2 ^ (bitsLeft - rl.codes[i].bits)
            at         == {i \in RlsThatFit(rl, bitsLeft) :
                             index \in startOf(i) .. startOf(i) + 2 ^ (bitsLeft - rl.codes[i].bits) - 1}
            next       == rl.codes[CHOOSE i \in at : TRUE]
        IN  IF ~r.more \/ at = {} THEN r
            ELSE [start |-> startOf(CHOOSE i \in at : TRUE), rl |-> 128 * r.rl + (next.symbol % 128),
                  size |-> r.size + next.bits, more |-> NextSymbolIsRL(next.symbol)]
      found == Folded(narrowed, [start |-> first, rl |-> 0, size |-> lsb.bits, more |-> TRUE], <<0, 1>>)
  IN  Triple(found.size, lsb.symbol, found.rl, IF found.more THEN "rl" ELSE "none")

TripleTable(lsb, rl, index) ==
  LET at == {i \in 1 .. TableLength(lsb.codes) :
               index \in StartIdx(lsb.codes[i]) .. StartIdx(lsb.codes[i]) + 2 ^ BitsLeftByLsb(lsb.codes[i]) - 1}
      e  == lsb.codes[CHOOSE i \in at : TRUE]
  IN  CASE at = {} -> Triple(0, 0, 0, "lsb")
        [] at # {} /\ NextSymbolIsMSB(e.symbol) -> Triple(e.bits, e.symbol, 0, "msb")
        [] at # {} /\ ~NextSymbolIsMSB(e.symbol) /\ ~NextSymbolIsRL(e.symbol) ->
             Triple(e.bits, e.symbol, 0, "none")
        [] OTHER -> IterateRls(rl, index, StartIdx(e), e)

-----------------------------------------------------------------------------
(* Coefficients.                                                           *)

\* The value of the symbols of a coefficient, by what follows the first one.
ValueOf(lsb) == ((lsb % 128) - (lsb % 2) - 64) \div 2
ValueWithMsb(lsb, msb) == (((msb % 128) * 256 + (lsb - (lsb % 2))) - 16384) \div 2

Coefficient(value, zeros, st) == [ok |-> TRUE, value |-> value, zeros |-> zeros, stream |-> st]

\* decoders has the alphabets lsb, msb and rl.
LutIndex(decoders, code) ==
  LET zeros == MinOf(MinOf(Clz(code, CodeSizeToRead), decoders.lsb.maxCodeLength), MaxNumLeadingZeroes)
      useful == MaxCodeSize + zeros
  IN  (code \div 2 ^ (CodeSizeToRead - useful)) + zeros * 2 ^ MaxCodeSize

\* The rest of a run length, of up to as many symbols as its 32 bits hold.
MaxRlSymbols == 4
RunLengths(rl, zeros, st) ==
  LET longer(short) == IF short.ok THEN short
                       ELSE ManualDecodeMaybeSingleSymbol(rl, OversizedCodes(rl.codes), short.stream)
      added(r, symbol) ==
        IF ~symbol.ok THEN [r EXCEPT !.more = FALSE, !.ok = FALSE]
        ELSE [ok |-> TRUE, more |-> NextSymbolIsRL(symbol.symbol), stream |-> symbol.stream,
              zeros |-> 128 * r.zeros + (symbol.symbol % 128)]
      next(r, i) ==
        IF ~r.more THEN r
        ELSE added(r, longer(LutDecode(rl.codes, r.stream)))
  IN  Folded(next, [ok |-> TRUE, more |-> TRUE, zeros |-> zeros, stream |-> st], [i \in 1 .. MaxRlSymbols |-> i])

\* Behind the last symbol, a run length if one is sought.
WithRun(decoders, seek, value, zeros, st) ==
  LET of(run) == IF ~run.ok THEN Unreadable ELSE Coefficient(value, run.zeros, run.stream)
  IN  IF ~seek THEN Coefficient(value, zeros, st) ELSE of(RunLengths(decoders.rl, zeros, st))

\* What is behind the first symbol, or behind the second.
BehindMsb(decoders, lsb, rl, msb) ==
  IF ~msb.ok THEN Unreadable
  ELSE WithRun(decoders, NextSymbolIsRL(msb.symbol), ValueWithMsb(lsb.symbol, msb.symbol), rl, msb.stream)
BehindLsb(decoders, triplet, lsb) ==
  CASE ~lsb.ok -> Unreadable
    [] lsb.ok /\ NextSymbolIsMSB(lsb.symbol) ->
         BehindMsb(decoders, lsb, triplet.rl, ManualDecodeMaybeSingleSymbol(decoders.msb, decoders.msb.codes, lsb.stream))
    [] OTHER -> WithRun(decoders, triplet.overflow = "rl" \/ NextSymbolIsRL(lsb.symbol),
                        ValueOf(lsb.symbol), triplet.rl, lsb.stream)
TripleFound(decoders, triplet, used) ==
  IF triplet.overflow = "none" THEN Coefficient(ValueOf(triplet.lsb), triplet.rl, used)
  ELSE BehindLsb(decoders, triplet,
                 IF triplet.overflow # "lsb" THEN Found(triplet.lsb, used)
                 ELSE ManualDecodeMaybeSingleSymbol(decoders.lsb, OverflowLsbList(decoders.lsb.codes), used))
TripleDecode(decoders, st) ==
  LET looked(topped, triplet) == TripleFound(decoders, triplet, Consume(topped, triplet.bits))
      at(topped) == LutIndex(decoders, ExtractBits(topped, topped.wordStartBit, topped.wordEndBit))
      of(topped) == looked(topped, TripleTable(decoders.lsb, decoders.rl, at(topped)))
  IN  of(AdvanceByNBits(st, CodeSizeToRead - UsableBits(st)))

\* entropyDecode() of symbols that are not coded, from the first on.
DecodeRaw(symbols) ==
  LET hasMsb == NextSymbolIsMSB(symbols[1])
      head   == IF hasMsb THEN 2 ELSE 1
      rls    == SubSeq(symbols, head + 1, Len(symbols))
  IN  [value |-> IF hasMsb THEN ValueWithMsb(symbols[1], symbols[2]) ELSE ValueOf(symbols[1]),
       zeros |-> Folded(LAMBDA zeros, symbol : 128 * zeros + (symbol % 128), 0, rls)]

\* Sizes of chunks, of 15 bits or 7, with a sign or without.
SignedAt(signed, v, bits) == IF signed /\ v >= 2 ^ (bits - 1) THEN v - 2 ^ bits ELSE v
DecodeSize(decoders, signed, st) ==
  LET of(size, stream)  == [ok |-> TRUE, size |-> size, stream |-> stream]
      behindLsb(lsb, msb) == IF ~msb.ok THEN Unreadable
                             ELSE of(SignedAt(signed, msb.symbol * 128 + (lsb.symbol \div 2), 15), msb.stream)
      behind(lsb) == CASE ~lsb.ok -> Unreadable
                       [] lsb.ok /\ ~NextSymbolIsMSB(lsb.symbol) -> of(SignedAt(signed, lsb.symbol \div 2, 7), lsb.stream)
                       [] OTHER -> behindLsb(lsb, SingleDecode(decoders.msb, lsb.stream))
  IN  behind(SingleDecode(decoders.lsb, st))

-----------------------------------------------------------------------------
(* Temporal signals: runs of one and the other, each coded with codes of   *)
(* its own, behind a symbol that says which is first.                      *)

\* The signal that the next symbol belongs to, once this one is read.
ToggleTemporalState(currHuff, symbol, isFirst) ==
  CASE isFirst                          -> symbol % 2
    [] ~isFirst /\ symbol >= 128        -> currHuff
    [] OTHER                            -> 1 - currHuff

\* A run, of coded symbols: huffman has the alphabets of the signals 0 and 1.
DecodeRun(huffman, started) ==
  LET added(r, read) ==
        IF ~read.ok THEN [r EXCEPT !.ok = FALSE, !.more = FALSE]
        ELSE [ok |-> TRUE, more |-> read.symbol >= 128, stream |-> read.stream,
              count |-> 128 * r.count + (read.symbol % 128),
              currHuff |-> ToggleTemporalState(r.currHuff, read.symbol, FALSE)]
      next(r, i) == IF ~r.more THEN r ELSE added(r, SingleDecode(huffman[r.currHuff], r.stream))
      of(run) == IF ~run.ok THEN Unreadable
                 ELSE [ok |-> TRUE, signal |-> started.currHuff, count |-> run.count,
                       state |-> [started |-> TRUE, currHuff |-> run.currHuff, stream |-> run.stream]]
  IN  of(Folded(next, [ok |-> TRUE, more |-> TRUE, count |-> 0, currHuff |-> started.currHuff,
                       stream |-> started.stream], [i \in 1 .. MaxRlSymbols |-> i]))
DecodeTemporal(huffman, state) ==
  LET behind(first) == IF ~first.ok THEN Unreadable
                       ELSE DecodeRun(huffman, [started |-> TRUE, stream |-> first.stream,
                                                currHuff |-> ToggleTemporalState(0, first.out, TRUE)])
  IN  IF state.started THEN DecodeRun(huffman, state) ELSE behind(ReadBits(state.stream, 8))

-----------------------------------------------------------------------------
(* What is promised: an encoder that gives each symbol the code that its   *)
(* length and its place in the order leave for it is understood.  An       *)
(* alphabet is a sequence of symbols with lengths, of which a single one   *)
(* has none.                                                               *)

Bits(number, width) == [i \in 1 .. width |-> (number \div 2 ^ (width - i)) % 2]
Lengths(a) == {a[i].bits : i \in DOMAIN a}

\* A code counts what the codes before it take, which are longer, or as long with
\* a lesser symbol, in units of its own length.
CodeOf(a, e) ==
  LET before == {i \in DOMAIN a : a[i].bits > e.bits \/ (a[i].bits = e.bits /\ a[i].symbol < e.symbol)}
  IN  MapThenSumSet(LAMBDA i : 2 ^ (Max(Lengths(a)) - a[i].bits), before) \div 2 ^ (Max(Lengths(a)) - e.bits)

Coded(a, symbol) ==
  LET e == a[CHOOSE i \in DOMAIN a : a[i].symbol = symbol]
  IN  IF Len(a) = 1 THEN <<>> ELSE Bits(CodeOf(a, e), e.bits)

\* The head of an alphabet, with its symbols flagged (dense) or listed.
AlphabetHead(a, version, dense) ==
  LET min        == Min(Lengths(a))
      lengthBits == BitWidth(Max(Lengths(a)) - min, version)
      length(e)  == Bits(e.bits - min, lengthBits)
      flag(symbol) == IF \E i \in DOMAIN a : a[i].symbol = symbol
                      THEN <<1>> \o length(a[CHOOSE i \in DOMAIN a : a[i].symbol = symbol]) ELSE <<0>>
  IN  IF Len(a) = 1 THEN Bits(0, 10) \o Bits(a[1].symbol, 8)
      ELSE Bits(min, 5) \o Bits(Max(Lengths(a)), 5) \o
             (IF dense THEN <<1>> \o FlattenSeq([r \in 1 .. 16 |-> FlattenSeq([n \in 1 .. 16 |-> flag((16 * r + n) - 17)])])
              ELSE <<0>> \o Bits(Len(a), 5) \o FlattenSeq([i \in DOMAIN a |-> Bits(a[i].symbol, 8) \o length(a[i])]))

InBytes(bits) == bits \o [i \in 1 .. (-Len(bits)) % 8 |-> 0]
\* The stream is where it should be: no bit was lost, the window was never left,
\* and the bytes that count as consumed are those that were begun.
StandsAt(st, bits) ==
  /\ 8 * st.offset - 32 + st.wordStartBit = bits
  /\ st.wordStartBit <= st.wordEndBit /\ st.wordEndBit <= 32
  /\ GetConsumedBytes(st) = (bits + 7) \div 8

HeadsOf(job, n) == FlattenSeq([i \in 1 .. n |-> AlphabetHead(job.alphabets[i], job.version, job.dense)])
StreamOf(bits) == HuffmanStreamInitialize(InBytes(bits))

\* The coefficients of a chunk are those of the symbols, one by one, as a decoder
\* that initialises and decodes reads them.
CodedCoefficient(job, symbols) ==
  LET alphabetOf(i) == CASE i = 1 -> 1 [] i = 2 /\ NextSymbolIsMSB(symbols[1]) -> 2 [] OTHER -> 3
  IN  FlattenSeq([i \in DOMAIN symbols |-> Coded(job.alphabets[alphabetOf(i)], symbols[i])])
CoefficientGot(r, got, at, symbols) ==
  IF ~r.right \/ ~got.ok THEN [r EXCEPT !.right = FALSE]
  ELSE [stream |-> got.stream, at |-> at,
        right |-> StandsAt(got.stream, at) /\ [value |-> got.value, zeros |-> got.zeros] = DecodeRaw(symbols)]
CoefficientsGot(decode(_, _), job, read, at) ==
  Folded(LAMBDA r, symbols :
           CoefficientGot(r, decode([lsb |-> read.alphabets[1], msb |-> read.alphabets[2], rl |-> read.alphabets[3]], r.stream),
                          r.at + Len(CodedCoefficient(job, symbols)), symbols),
         [stream |-> read.stream, at |-> at, right |-> StandsAt(read.stream, at)], job.coefficients).right
CoefficientsReadBy(initialize(_, _, _), decode(_, _), job, heads) ==
  CoefficientsGot(decode, job, initialize("EDTDefault", StreamOf(heads \o FlattenSeq(
    [n \in DOMAIN job.coefficients |-> CodedCoefficient(job, job.coefficients[n])])), job.version), Len(heads))

\* So are the runs of temporal signals: each is a signal and the symbols of its length.
SignalOf(job, n) == (job.first + n - 1) % 2
CodedRun(job, n) ==
  FlattenSeq([i \in DOMAIN job.runs[n] |-> Coded(job.alphabets[SignalOf(job, n) + 1], job.runs[n][i])])
RunGot(r, got, at, job, n) ==
  IF ~r.right \/ ~got.ok THEN [r EXCEPT !.right = FALSE]
  ELSE [state |-> got.state, at |-> at,
        right |-> /\ StandsAt(got.state.stream, at)
                  /\ got.signal = SignalOf(job, n) /\ got.count = DecodeRaw(<<0>> \o job.runs[n]).zeros]
RunsGot(decode(_, _), job, read, at) ==
  Folded(LAMBDA r, n : RunGot(r, decode([signal \in {0, 1} |-> read.alphabets[signal + 1]], r.state),
                              r.at + Len(CodedRun(job, n)), job, n),
         [state |-> [started |-> FALSE, stream |-> read.stream], at |-> at, right |-> TRUE],
         [n \in DOMAIN job.runs |-> n]).right
SignalsReadBy(initialize(_, _, _), decode(_, _), job, heads) ==
  RunsGot(decode, job, initialize("EDTTemporal", StreamOf(heads \o Bits(job.first, 8) \o FlattenSeq(
    [n \in DOMAIN job.runs |-> CodedRun(job, n)])), job.version), Len(heads) + 8)

\* And so are sizes, of 7 bits or of 15.
CodedSize(job, size) ==
  Coded(job.alphabets[1], size[1]) \o (IF Len(size) = 2 THEN Coded(job.alphabets[2], size[2]) ELSE <<>>)
SizeGot(r, got, at, job, size) ==
  LET number == IF Len(size) = 2 THEN size[2] * 128 + (size[1] \div 2) ELSE size[1] \div 2
      half   == IF Len(size) = 2 THEN 16384 ELSE 64
  IN  IF ~r.right \/ ~got.ok THEN [r EXCEPT !.right = FALSE]
      ELSE [stream |-> got.stream, at |-> at,
            right |-> /\ StandsAt(got.stream, at)
                      /\ got.size % (2 * half) = number
                      /\ got.size \in IF job.signed THEN -half .. half - 1 ELSE 0 .. 2 * half - 1]
SizesGot(decode(_, _, _), job, read, at) ==
  Folded(LAMBDA r, size :
           SizeGot(r, decode([lsb |-> read.alphabets[1], msb |-> read.alphabets[2]], job.signed, r.stream),
                   r.at + Len(CodedSize(job, size)), job, size),
         [stream |-> read.stream, at |-> at, right |-> TRUE], job.sizes).right
SizesReadBy(initialize(_, _, _), decode(_, _, _), job, heads) ==
  SizesGot(decode, job, initialize("EDTSizeSigned", StreamOf(heads \o FlattenSeq(
    [n \in DOMAIN job.sizes |-> CodedSize(job, job.sizes[n])])), job.version), Len(heads))

ChunkRead(job) ==
  CASE job.kind = "coefficients" -> CoefficientsReadBy(ChunkInitialize, TripleDecode, job, HeadsOf(job, 3))
    [] job.kind = "signals"      -> SignalsReadBy(ChunkInitialize, DecodeTemporal, job, HeadsOf(job, 2))
    [] job.kind = "sizes"        -> SizesReadBy(ChunkInitialize, DecodeSize, job, HeadsOf(job, 2))
=============================================================================
