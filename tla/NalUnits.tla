------------------------------- MODULE NalUnits -------------------------------
(***************************************************************************)
(* Enhancement data in the stream of the base video: finding the NAL units *)
(* that carry it, taking it out of them and them out of the stream, and    *)
(* then undoing the encapsulation of the enhancement's own NAL unit.       *)
(* extract/src/extract.c, unencapsulate() of both configuration parsers    *)
(***************************************************************************)
EXTENDS Integers, Sequences

LOCAL INSTANCE SequencesExt

CodecType == {"H264", "H265", "H266"}
NALFormat == {"AnnexB", "LengthPrefix"}

\* The types of interest: registered user data, and LCEVC not IDR and IDR.
kNalTypesSEI == [H264 |-> 6, H265 |-> 39, H266 |-> 23]
kNalTypes == [H264 |-> {6, 25, 27}, H265 |-> {39, 60, 61}, H266 |-> {23, 31}]
kNalTypesBaseIDR == [H264 |-> {0, 5}, H265 |-> {0, 19, 20, 21}, H266 |-> {7, 8, 9, 10}]

kSeiPayloadTypeUserDataRegisteredItuTt35 == 4
kITU == <<180, 0, 80, 0>>
kLengthPrefixSize == 4
AnnexBPrefix == <<0, 0, 0, 1>>

Below(a, b) == IF a < b THEN a ELSE b
LeastOf(S) == CHOOSE n \in S : \A k \in S : n <= k

\* The bytes of s that stay when those at the places in R are left out.
Without(s, R) == LET kept == SelectSeq([i \in DOMAIN s |-> i], LAMBDA i : i \notin R)
                 IN  [n \in DOMAIN kept |-> s[kept[n]]]

-----------------------------------------------------------------------------
(* unencapsulate() of extract.c: a 3 after two zeros goes.  The byte behind *)
(* it is copied at once, so that a zero there is not counted; zeros came    *)
(* before the first byte.                                                   *)
Unencapsulated(zeros, src) ==
  LET zero(i) == IF i < 1 THEN 1 - i <= zeros ELSE src[i] = 0
      removed[i \in DOMAIN src] ==
        src[i] = 3 /\ zero(i - 1) /\ zero(i - 2) /\ (i > 3 => ~removed[i - 3])
  IN  Without(src, {i \in DOMAIN src : removed[i]})

-----------------------------------------------------------------------------
(* ExtractState, with the byte at an offset counted from the stripped data: *)
(* the first `size' bytes are the caller's data, and what lies in memory    *)
(* behind them follows, as marks that are no bytes.                         *)

WithWhatIsBehind(data) == data \o [i \in DOMAIN data |-> 255 + i]
ExtractState(codecType, nalFormat, nalTypes, data) ==
  [codecType |-> codecType, nalFormat |-> nalFormat, nalTypes |-> nalTypes,
   data |-> WithWhatIsBehind(data), size |-> Len(data), offset |-> 0, strippedOffset |-> 0]
ByteAt(st, offset) == st.data[offset + 1]
SizeOf(st) == st.size

GetNalUnitType(st, header) ==
  CASE st.codecType = "H264" -> IF header < SizeOf(st) THEN ByteAt(st, header) % 32 ELSE 0
    [] st.codecType = "H265" -> IF header < SizeOf(st) THEN (ByteAt(st, header) \div 2) % 64 ELSE 0
    [] st.codecType = "H266" -> IF header < SizeOf(st) - 1 THEN ByteAt(st, header + 1) \div 8 ELSE 0

GetNalUnitHeaderSize(st, nalType) == IF st.codecType # "H264" \/ nalType \in {25, 27} THEN 2 ELSE 1

\* What a search finds: the offset and size of a unit, and where its payload is.
NotFound(st) == [found |-> FALSE, type |-> 0, at |-> 0, size |-> 0, payload |-> 0, state |-> st]

\* Start codes from an offset on, as the zeros before a 1, of which three count.
ZerosBefore(st, from, o) ==
  LeastOf({n \in 0 .. 3 : n = 3 \/ o - n - 1 < from \/ ByteAt(st, (o - n) - 1) # 0})
StartCodes(st, from) ==
  {o \in from .. SizeOf(st) - 1 : ByteAt(st, o) = 1 /\ ZerosBefore(st, from, o) >= 2}

FindNextNalUnitAnnexB(st) ==
  LET first == LeastOf(StartCodes(st, st.offset))
      later == StartCodes(st, first + 1)
      ends  == IF later = {} THEN SizeOf(st)
               ELSE LET next == LeastOf(later) IN next - ZerosBefore(st, first + 1, next)
      at    == first - ZerosBefore(st, st.offset, first)
      type  == GetNalUnitType(st, first + 1)
      moved == [st EXCEPT !.offset = ends]
  IN  IF StartCodes(st, st.offset) = {} THEN NotFound([st EXCEPT !.offset = SizeOf(st)])
      ELSE IF type \in st.nalTypes
           THEN [found |-> TRUE, type |-> type, at |-> at, size |-> ends - at,
                 payload |-> first + 1 + GetNalUnitHeaderSize(st, type), state |-> moved]
           ELSE [NotFound(moved) EXCEPT !.found = TRUE]

LengthAt(st, o) ==
  kLengthPrefixSize + ByteAt(st, o) * 2 ^ 24 + ByteAt(st, o + 1) * 2 ^ 16 + ByteAt(st, o + 2) * 256 + ByteAt(st, o + 3)

FindNextNalUnitLengthPrefix(st) ==
  LET type(o) == GetNalUnitType(st, o + kLengthPrefixSize)
      \* The unit of interest at o or behind it.
      unit[o \in 0 .. SizeOf(st)] ==
        CASE o = SizeOf(st) -> o
          [] o < SizeOf(st) /\ type(o) \in st.nalTypes -> o
          [] OTHER -> unit[Below(o + LengthAt(st, o), SizeOf(st))]
      at == unit[st.offset]
  IN  IF at = SizeOf(st) THEN NotFound([st EXCEPT !.offset = SizeOf(st)])
      ELSE [found |-> TRUE, type |-> type(at), at |-> at, size |-> LengthAt(st, at),
            payload |-> at + kLengthPrefixSize + GetNalUnitHeaderSize(st, type(at)),
            state |-> [st EXCEPT !.offset = at + LengthAt(st, at)]]

FindNextNalUnit(st) ==
  IF st.nalFormat = "AnnexB" THEN FindNextNalUnitAnnexB(st) ELSE FindNextNalUnitLengthPrefix(st)

\* If there is no data before a unit, the data starts later.  Otherwise what is behind
\* the unit moves down, as many bytes as if the unit were at the start of the data: the
\* last of them are read, and may be written, behind the end of the data.
RemovalRefused(st, span) == span.at + span.size > SizeOf(st) \/ span.at + span.size > st.offset
RemoveNalUnit(st, span) ==
  LET moved(i) == i - span.at \in 1 .. SizeOf(st) - span.size
  IN  [st EXCEPT !.data = IF span.at = 0 THEN SubSeq(@, span.size + 1, Len(@))
                          ELSE [i \in DOMAIN @ |-> IF moved(i) THEN @[i + span.size] ELSE @[i]],
                 !.strippedOffset = IF span.at = 0 THEN @ + span.size ELSE @,
                 !.offset = @ - span.size, !.size = @ - span.size]

\* In the data itself, whether or not the unit is then removed.
MaybeConvertLengthPrefixToAnnexB(st, span) ==
  IF st.nalFormat = "LengthPrefix"
  THEN [st EXCEPT !.data = [i \in DOMAIN @ |-> IF i \in span.at + 1 .. span.at + 4
                                               THEN AnnexBPrefix[i - span.at] ELSE @[i]]]
  ELSE st

-----------------------------------------------------------------------------
(* extractEnhancementFromNAL(): up to the first unit with enhancement data. *)

\* A message of user data: its type, its size, and what tells that it is LCEVC's.
SeiMessage(st, span) ==
  LET byte(n) == ByteAt(st, span.payload + n)
      sized   == LeastOf({n \in 1 .. SizeOf(st) - span.payload - 1 : byte(n) # 255})
      offset  == sized + 1 + Len(kITU)
      lcevc   == /\ byte(0) = kSeiPayloadTypeUserDataRegisteredItuTt35
                 /\ \A n \in DOMAIN kITU : byte(sized + n) = kITU[n]
  IN  [lcevc |-> lcevc, seiSize |-> 255 * (sized - 1) + byte(sized) - Len(kITU), payload |-> span.payload + offset,
       payloadSize |-> span.size - (span.payload - span.at) - offset]

\* seiSize is unsigned: below 4 it is more than any payload.
SeiFits(m, capacity) == m.payloadSize <= capacity /\ m.seiSize \in 0 .. m.payloadSize

Extracted(result, st, output) ==
  [result |-> result, output |-> output, memory |-> st.data, size |-> st.size,
   strippedOffset |-> st.strippedOffset]

RECURSIVE Extracting(_, _, _)
Extracting(st, remove, capacity) ==
  LET removed(s, span, output) ==
        CASE remove /\ RemovalRefused(s, span) -> Extracted(-1, s, <<>>)
          [] remove /\ ~RemovalRefused(s, span) -> Extracted(1, RemoveNalUnit(s, span), output)
          [] OTHER -> Extracted(1, s, output)
      unit(s, span) ==
        removed(s, span, SubSeq(s.data, span.at + 1, span.at + span.size))
      output(s, message) ==
        SubSeq(Unencapsulated(1, SubSeq(s.data, message.payload + 1, message.payload + message.payloadSize)),
               1, message.seiSize)
      considered(s, span, message) ==
        CASE ~message.lcevc /\ ~remove -> Extracting(s, remove, capacity)
          [] (message.lcevc \/ remove) /\ ~SeiFits(message, capacity) -> Extracted(-1, s, <<>>)
          [] message.lcevc /\ SeiFits(message, capacity) -> removed(s, span, output(s, message))
          [] OTHER -> IF RemovalRefused(s, span) THEN Extracted(-1, s, <<>>)
                      ELSE Extracting(RemoveNalUnit(s, span), remove, capacity)
      next(span) ==
        CASE ~span.found -> Extracted(0, span.state, <<>>)
          [] span.found /\ span.type = 0 -> Extracting(span.state, remove, capacity)
          [] span.type # 0 /\ span.type # kNalTypesSEI[st.codecType] ->
               IF span.size > capacity THEN Extracted(-1, span.state, <<>>)
               ELSE unit(MaybeConvertLengthPrefixToAnnexB(span.state, span), span)
          [] OTHER -> considered(span.state, span, SeiMessage(span.state, span))
  IN  next(FindNextNalUnit(st))

LCEVC_extractEnhancementFromNAL(data, nalFormat, codecType, capacity) ==
  Extracting(ExtractState(codecType, nalFormat, kNalTypes[codecType], data), FALSE, capacity)
LCEVC_extractAndRemoveEnhancementFromNAL(data, nalFormat, codecType, capacity) ==
  Extracting(ExtractState(codecType, nalFormat, kNalTypes[codecType], data), TRUE, capacity)

RECURSIVE SearchForBaseKeyframe(_)
SearchForBaseKeyframe(st) ==
  LET among(span) == span.found /\ (span.type # 0 \/ SearchForBaseKeyframe(span.state)) IN among(FindNextNalUnit(st))

IsKeyframe(data, nalFormat, codecType) ==
  SearchForBaseKeyframe(ExtractState(codecType, nalFormat, kNalTypesBaseIDR[codecType], data))
Unsearched(data) ==
  [result |-> 0, output |-> <<>>, memory |-> WithWhatIsBehind(data), size |-> Len(data), strippedOffset |-> 0]

LCEVC_extractEnhancementFromNALIfKeyframe(data, nalFormat, codecType, capacity) ==
  IF IsKeyframe(data, nalFormat, codecType)
  THEN LCEVC_extractEnhancementFromNAL(data, nalFormat, codecType, capacity) ELSE Unsearched(data)
LCEVC_extractAndRemoveEnhancementFromNALIfKeyframe(data, nalFormat, codecType, capacity) ==
  IF IsKeyframe(data, nalFormat, codecType)
  THEN LCEVC_extractAndRemoveEnhancementFromNAL(data, nalFormat, codecType, capacity) ELSE Unsearched(data)

-----------------------------------------------------------------------------
(* The NAL unit of the enhancement: a start code, a header of two bytes,   *)
(* the payload with bytes 3 put into it, and the stop bit.                 *)
NTNonIDR == 28
NTIDR == 29

\* The data from the header on, behind a start code of three or four bytes.
HeaderOffset(data) ==
  IF SubSeq(data, 1, 3) = <<0, 0, 1>> THEN 3 ELSE IF SubSeq(data, 1, 4) = AnnexBPrefix THEN 4 ELSE -1

HeaderValid(data) ==
  LET at == HeaderOffset(data)
  IN  /\ at # -1
      /\ data[at + 1] \in {64 + 1 + 2 * NTNonIDR, 64 + 1 + 2 * NTIDR} /\ data[at + 2] = 255
IsIDR(data) == (data[HeaderOffset(data) + 1] \div 2) % 32 = NTIDR

\* A 3 goes if exactly two zeros are before it.
WithoutPrevention(src) ==
  LET zero(i) == i >= 1 /\ src[i] = 0
  IN  Without(src, {i \in DOMAIN src : src[i] = 3 /\ zero(i - 1) /\ zero(i - 2) /\ ~zero(i - 3)})

Failed == [ok |-> FALSE, idr |-> FALSE, payload |-> <<>>]
Payload(data) ==
  IF ~HeaderValid(data) THEN Failed
  ELSE [ok |-> TRUE, idr |-> IsIDR(data),
        payload |-> WithoutPrevention(SubSeq(data, HeaderOffset(data) + 3, Len(data) - 1))]

Unencapsulate(data) == IF data[Len(data)] # 128 THEN Failed ELSE Payload(data)

\* The legacy decoder says that there is no stop bit, and goes on without the last byte.
LegacyUnencapsulate(data) == IF Len(data) < 6 THEN Failed ELSE Payload(data)

-----------------------------------------------------------------------------
(* The other way: an access unit u has the units of u.units, of the kinds  *)
(* below, in a stream of u.format; u.prefix is the length of its start     *)
(* codes, and u.inner that of the one in a message of user data.           *)

\* A 3 is put before what would look like a start code, zeros being before the first byte.
Prevented(zeros, bytes) ==
  LET zero(i) == IF i < 1 THEN 1 - i <= zeros ELSE bytes[i] = 0
      before[i \in DOMAIN bytes] == bytes[i] <= 3 /\ zero(i - 1) /\ zero(i - 2) /\ (i > 1 => ~before[i - 1])
  IN  FlattenSeq([i \in DOMAIN bytes |-> IF before[i] THEN <<3, bytes[i]>> ELSE <<bytes[i]>>])

StartCode(length) == IF length = 3 THEN <<0, 0, 1>> ELSE AnnexBPrefix
EnhancementUnit(u) ==
  <<65 + 2 * (IF u.idr THEN NTIDR ELSE NTNonIDR), 255>> \o Prevented(0, u.payload) \o <<128>>

\* The first bytes of a unit that a decoder of the base takes for its type.
Header(codec, type) ==
  CASE codec = "H264" -> <<type>> [] codec = "H265" -> <<2 * type, 1>> [] codec = "H266" -> <<0, 8 * type + 1>>
Plain == [H264 |-> 1, H265 |-> 1, H266 |-> 1]
Keyframe == [H264 |-> 5, H265 |-> 20, H266 |-> 9]
Message(codec, type, size, bytes) ==
  Header(codec, kNalTypesSEI[codec]) \o <<type>> \o [i \in 1 .. size \div 255 |-> 255] \o <<size % 255>> \o bytes \o <<128>>

Carries(kind) == kind \in {"message", "unit"}
BytesOfUnit(u, kind) ==
  LET inner == StartCode(u.inner) \o EnhancementUnit(u)
  IN  CASE kind = "base" -> Header(u.codec, Plain[u.codec]) \o <<144, 0, 0, 3, 0, 77>>
        [] kind = "keyframe" -> Header(u.codec, Keyframe[u.codec]) \o <<33>>
        [] kind = "other" -> Message(u.codec, 5, 4, <<9, 8, 7, 6>>)
        [] kind = "foreign" -> Message(u.codec, 4, 5, <<181, 0, 60, 0, 4>>)
        [] kind = "long" -> Message(u.codec, 4, 260, [i \in 1 .. 260 |-> 200])
        [] kind = "message" -> Message(u.codec, 4, 4 + Len(inner), kITU \o Prevented(1, inner))
        [] kind = "unit" -> EnhancementUnit(u)
Delimited(u, kind) ==
  LET bytes == BytesOfUnit(u, kind)
  IN  (IF u.format = "AnnexB" THEN StartCode(u.prefix) ELSE <<0, 0, Len(bytes) \div 256, Len(bytes) % 256>>) \o bytes
Stream(u, kinds) == FlattenSeq([n \in DOMAIN kinds |-> Delimited(u, kinds[n])])

\* The units up to the first with enhancement data, of which removal takes all messages.
UpToData(u) ==
  LET with == {n \in DOMAIN u.units : Carries(u.units[n])}
  IN  1 .. (IF with = {} THEN Len(u.units) ELSE LeastOf(with))
Removed(u) == {n \in UpToData(u) : u.units[n] \notin {"base", "keyframe"}}
LeadingRemoved(u) == {n \in Removed(u) : \A k \in 1 .. n : k \in Removed(u)}

\* A unit is removed with more data before it than has been moved away: the code
\* then moves bytes from behind the end of the data to behind the end of the data.
WritesBehind(u) ==
  LET size(n, without) == Len(Stream(u, Without(SubSeq(u.units, 1, n), without)))
  IN  \E n \in Removed(u) \ LeadingRemoved(u) :
        size(n, Removed(u)) > size(n, LeadingRemoved(u)) - size(n, Removed(u))

\* What is extracted, from u's stream with or without removal, is what was put
\* in, both parsers get the payload back from it, and the rest of the stream is
\* as it was, but that a unit behind a length has a start code in its place.
\* Memory behind the stream is as it was exactly if no unit is removed that is
\* smaller, with those removed before it, than the data in front of it.
DataComesBack(u) ==
  LET found    == \E n \in DOMAIN u.units : Carries(u.units[n])
      keyframe == \E n \in DOMAIN u.units : u.units[n] = "keyframe"
      returned(data) == data = [ok |-> TRUE, idr |-> u.idr, payload |-> u.payload]
      ifKeyframe(stream, result, searched) == searched = IF keyframe THEN result ELSE Unsearched(stream)
      data(extracted) == SubSeq(extracted.memory, 1, extracted.size)
      untouched(stream, extracted) ==
        LET all == WithWhatIsBehind(stream)
            end == Len(stream) - extracted.strippedOffset
        IN  SubSeq(extracted.memory, end + 1, Len(extracted.memory)) = SubSeq(all, Len(stream) + 1, Len(all))
      right(stream, kept, stripped) ==
        /\ kept.result = IF found THEN 1 ELSE 0
        /\ found => returned(Unencapsulate(kept.output)) /\ returned(LegacyUnencapsulate(kept.output))
        /\ ~found => kept.output = <<>>
        /\ stripped.result = kept.result /\ stripped.output = kept.output
        /\ u.format = "AnnexB" \/ "unit" \notin {u.units[n] : n \in DOMAIN u.units} => data(kept) = stream
        /\ untouched(stream, kept) /\ (untouched(stream, stripped) <=> ~WritesBehind(u))
        /\ data(stripped) = Stream(u, Without(u.units, Removed(u)))
        /\ stripped.strippedOffset = Len(stream) - Len(Stream(u, Without(u.units, LeadingRemoved(u))))
        /\ ifKeyframe(stream, kept, LCEVC_extractEnhancementFromNALIfKeyframe(stream, u.format, u.codec, 1000))
        /\ ifKeyframe(stream, stripped,
                      LCEVC_extractAndRemoveEnhancementFromNALIfKeyframe(stream, u.format, u.codec, 1000))
      of(stream) == right(stream, LCEVC_extractEnhancementFromNAL(stream, u.format, u.codec, 1000),
                          LCEVC_extractAndRemoveEnhancementFromNAL(stream, u.format, u.codec, 1000))
  IN  of(Stream(u, u.units))

\* Nothing that was put in against false start codes is left in what is extracted.
EmulationRemoved(u) ==
  LET inner == StartCode(u.inner) \o EnhancementUnit(u)
  IN  LCEVC_extractEnhancementFromNAL(Stream(u, <<"message">>), u.format, u.codec, 1000).output = inner
=============================================================================
