------------------------ MODULE LegacyPipeline_proof ------------------------
(***************************************************************************)
(* What the legacy pipeline promises every client, for every value of the  *)
(* constants: no base waits that could be decoded, room that is made is    *)
(* told of, payloads are parsed in order unless they come late, and each   *)
(* frame gets its own residuals unless a call about another took them.     *)
(*                                                                         *)
(* A call first changes one of the queues and then decodes, so the parts   *)
(* of the invariant take the queues they speak of as parameters: they hold *)
(* of the queues in between as well.                                       *)
(***************************************************************************)
EXTENDS LegacyPipeline, WellFoundedInduction, NaturalsInduction, TLAPS

Payload == [timestamp : Timestamp, data : {"good", "bad"}]
Base == [timestamp : Timestamp, picture : BasePicture]
Result == [picture : OutputPicture, timestamp : Timestamp, skipped : BOOLEAN,
           returnCode : {"Success", "Error", "Timeout", "Flushed"}, hasEnhancement : BOOLEAN,
           late : BOOLEAN, residualsOf : Timestamp \cup {None}]

TypesOK ==
    /\ m_baseContainer \in Seq(Base) /\ m_pendingOutputContainer \in Seq(OutputPicture)
    /\ unprocessed \in Seq(Payload) /\ processed \subseteq Timestamp
    /\ m_resultsQueue \in Seq(Result) /\ m_finishedBaseContainer \in Seq(BasePicture)
    /\ parsed \in Timestamp \cup {None} /\ latestParse \in Nat /\ horizon \in Nat
    /\ sent \in [Timestamp -> {"nothing", "good", "bad"}]

-----------------------------------------------------------------------------
(* Room that is made is told of.                                           *)

\* Whatever a call has made of the queues, its decode tells of the room it makes.
LEMMA DecodeAnnounces ==
    ASSUME NEW bases, NEW outputs, NEW payloads, NEW results, NEW told,
           tryToQueueDecodes(bases, outputs, payloads, results, told)
    PROVE  /\ (IsFull(bases) /\ ~IsFull(m_baseContainer')) => "CanSendBase" \in events'
           /\ (IsFull(payloads) /\ ~IsFull(unprocessed')) => "CanSendEnhancement" \in events'
           /\ (IsFull(outputs) /\ ~IsFull(m_pendingOutputContainer')) =>
                 "CanSendPicture" \in events'
<1>1. CASE ~Ready(bases, outputs, results)
  BY <1>1 DEF tryToQueueDecodes
<1>2. CASE Ready(bases, outputs, results)
  <2> DEFINE extraction == Extract(payloads, processed, Head(bases).timestamp, TRUE)
  <2>1. /\ m_baseContainer' = Tail(bases) /\ m_pendingOutputContainer' = Tail(outputs)
        /\ unprocessed' = extraction.left
        /\ events' = told \cup Room(bases, Tail(bases), "CanSendBase")
                          \cup Room(payloads, extraction.left, "CanSendEnhancement")
                          \cup Room(outputs, Tail(outputs), "CanSendPicture")
                          \cup {"CanReceive", "BasePictureDone"}
    BY <1>2 DEF tryToQueueDecodes
  <2> HIDE DEF extraction
  <2> QED BY <2>1 DEF Room
<1> QED BY <1>1, <1>2

(* RoomAnnounced: a client that was refused for want of room in one of the  *)
(* three queues is told by the call that makes room, whichever that is: a   *)
(* decode at the end of another call, a skip or a flush.  Only peek() makes *)
(* room in silence.                                                         *)
THEOREM RoomAlwaysAnnounced == LegacySpec => RoomAnnounced
<1> DEFINE A == \/ \E t \in Timestamp : peek(t)
                \/ /\ (IsFull(m_baseContainer) /\ ~IsFull(m_baseContainer')) => "CanSendBase" \in events'
                   /\ (IsFull(unprocessed) /\ ~IsFull(unprocessed')) => "CanSendEnhancement" \in events'
                   /\ (IsFull(m_pendingOutputContainer) /\ ~IsFull(m_pendingOutputContainer')) =>
                         "CanSendPicture" \in events'
<1>1. LegacyNext => A
  <2>1. ASSUME NEW t \in Timestamp, NEW p \in BasePicture, sendBasePicture(t, p) PROVE A
    BY <2>1, DecodeAnnounces DEF sendBasePicture
  <2>2. ASSUME NEW t \in Timestamp, NEW d \in {"good", "bad"}, sendEnhancementData(t, d) PROVE A
    BY <2>2, DecodeAnnounces DEF sendEnhancementData
  <2>3. ASSUME NEW p \in OutputPicture, sendOutputPicture(p) PROVE A
    BY <2>3, DecodeAnnounces DEF sendOutputPicture
  <2>4. ASSUME receiveOutputPicture PROVE A
    BY <2>4, DecodeAnnounces DEF receiveOutputPicture
  <2>5. ASSUME receiveFinishedBasePicture PROVE A
    BY <2>5 DEF receiveFinishedBasePicture, inputs
  <2>6. ASSUME flush PROVE A
    BY <2>6 DEF flush, Room
  <2>7. ASSUME NEW t \in Timestamp, skip(t) PROVE A
    BY <2>7 DEF skip, Room
  <2> QED BY <2>1, <2>2, <2>3, <2>4, <2>5, <2>6, <2>7 DEF LegacyNext
<1>2. [LegacyNext]_legacyVars => [A]_legacyVars
  BY <1>1
<1> QED BY <1>2, PTL DEF LegacySpec, RoomAnnounced

-----------------------------------------------------------------------------
(* Lists.                                                                  *)

LEMMA LeastExists ==
    ASSUME NEW S \in SUBSET Nat, S # {} PROVE \E k \in S : \A j \in S : k <= j
<1>1. \E n \in S : \A m \in S : <<m, n>> \notin OpToRel(<, Nat)
  BY NatLessThanWellFounded, WFMin, Zenon
<1>2. PICK n \in S : \A m \in S : ~(m < n)
  BY <1>1, Zenon DEF OpToRel
<1> QED BY <1>2

LEMMA FirstOfIs ==
    ASSUME NEW S \in SUBSET Nat, NEW k \in S, \A j \in S : k <= j, NEW otherwise
    PROVE  FirstOf(S, otherwise) = k
<1> DEFINE c == CHOOSE i \in S : \A j \in S : i <= j
<1>1. c \in S /\ \A j \in S : c <= j
  OBVIOUS
<1>2. c = k
  <2> HIDE DEF c
  <2>1. c <= k /\ k <= c /\ c \in Nat /\ k \in Nat
    BY <1>1
  <2> QED BY <2>1
<1> QED BY <1>2 DEF FirstOf

LEMMA FirstOfIsFirst ==
    ASSUME NEW S \in SUBSET Nat, NEW otherwise \in Nat
    PROVE  LET n == FirstOf(S, otherwise)
           IN  \/ S = {} /\ n = otherwise
               \/ n \in S /\ \A j \in S : n <= j
<1>1. CASE S = {}
  BY <1>1 DEF FirstOf
<1>2. CASE S # {}
  BY <1>2, LeastExists, FirstOfIs
<1> QED BY <1>1, <1>2

LEMMA DropIs ==
    ASSUME NEW T, NEW s \in Seq(T), NEW n \in 0 .. Len(s)
    PROVE  LET d == SubSeq(s, n + 1, Len(s))
           IN  d \in Seq(T) /\ Len(d) = Len(s) - n /\ \A i \in 1 .. Len(d) : d[i] = s[i + n]
OBVIOUS

LEMMA TailIs ==
    ASSUME NEW T, NEW s \in Seq(T), s # <<>>
    PROVE  /\ Tail(s) \in Seq(T) /\ Len(Tail(s)) = Len(s) - 1
           /\ \A i \in 1 .. Len(Tail(s)) : Tail(s)[i] = s[i + 1]
           /\ Len(s) \in Nat \ {0} /\ Head(s) = s[1] /\ s[1] \in T
OBVIOUS

LEMMA OneLeft ==
    ASSUME NEW T, NEW s \in Seq(T), Len(s) = 1 PROVE Tail(s) = <<>>
<1>1. \A x \in Seq(T) : x = <<>> <=> Len(x) = 0
  OBVIOUS
<1>2. Tail(s) \in Seq(T) /\ Len(Tail(s)) = 0
  BY <1>1, TailIs
<1> QED BY <1>1, <1>2

LEMMA AppendIs ==
    ASSUME NEW T, NEW s \in Seq(T), NEW e \in T
    PROVE  /\ Append(s, e) \in Seq(T) /\ Len(Append(s, e)) = Len(s) + 1
           /\ \A i \in 1 .. Len(s) : Append(s, e)[i] = s[i]
           /\ Append(s, e)[Len(s) + 1] = e
OBVIOUS

(* A list in which timestamps grow, and the timestamps of a list. *)
Ascends(list) ==
    \A i, j \in DOMAIN list : i < j => list[i].timestamp < list[j].timestamp

Times(list) == {list[i].timestamp : i \in DOMAIN list}

\* What is left of a list in order is what is later than what was taken.
LEMMA DropKeeps ==
    ASSUME NEW T, \A e \in T : e.timestamp \in Nat,
           NEW s \in Seq(T), Ascends(s), NEW n \in 0 .. Len(s), NEW u \in Nat,
           \A i \in 1 .. n : s[i].timestamp <= u,
           \A i \in n + 1 .. Len(s) : s[i].timestamp > u
    PROVE  LET d == SubSeq(s, n + 1, Len(s))
           IN  /\ d \in Seq(T) /\ Ascends(d)
               /\ Times(d) = {t \in Times(s) : t > u}
               /\ \A i \in DOMAIN d : \E j \in DOMAIN s : d[i] = s[j]
<1> DEFINE d == SubSeq(s, n + 1, Len(s))
<1>1. /\ d \in Seq(T) /\ Len(d) = Len(s) - n /\ \A i \in 1 .. Len(d) : d[i] = s[i + n]
      /\ DOMAIN d = 1 .. Len(d) /\ DOMAIN s = 1 .. Len(s) /\ Len(s) \in Nat
      /\ \A i \in DOMAIN s : s[i].timestamp \in Nat
  BY DropIs
<1> HIDE DEF d
<1>a. \A i \in DOMAIN d : i \in Nat /\ i + n \in DOMAIN s /\ d[i] = s[i + n]
  BY <1>1
<1>2. Ascends(d)
  <2> SUFFICES ASSUME NEW i \in DOMAIN d, NEW j \in DOMAIN d, i < j
               PROVE  d[i].timestamp < d[j].timestamp
    BY DEF Ascends
  <2>1. i + n \in DOMAIN s /\ j + n \in DOMAIN s /\ i + n < j + n
    BY <1>a
  <2> QED BY <2>1, <1>a DEF Ascends
<1>3. \A i \in DOMAIN d : \E j \in DOMAIN s : d[i] = s[j]
  BY <1>a
<1>4. ASSUME NEW t \in Times(d) PROVE t \in Times(s) /\ t > u
  BY <1>1, <1>4 DEF Times
<1>5. ASSUME NEW t \in Times(s), t > u PROVE t \in Times(d)
  <2>1. PICK j \in 1 .. Len(s) : t = s[j].timestamp
    BY <1>1 DEF Times
  <2>2. j > n
    BY <1>5, <2>1, <1>1
  <2>3. j - n \in DOMAIN d /\ d[j - n] = s[j]
    BY <2>1, <2>2, <1>1
  <2> QED BY <2>1, <2>3 DEF Times
<1>6. Times(d) = {t \in Times(s) : t > u}
  BY <1>4, <1>5
<1> QED BY <1>1, <1>2, <1>3, <1>6 DEF d

LEMMA TailKeeps ==
    ASSUME NEW T, \A e \in T : e.timestamp \in Nat, NEW s \in Seq(T), Ascends(s), s # <<>>
    PROVE  /\ Tail(s) \in Seq(T) /\ Ascends(Tail(s))
           /\ Tail(s) = SubSeq(s, 2, Len(s))
           /\ Head(s) \in T /\ Head(s).timestamp \in Times(s)
           /\ \A t \in Times(s) : t \in Nat /\ Head(s).timestamp <= t
           /\ Times(Tail(s)) = {t \in Times(s) : t > Head(s).timestamp}
           /\ \A i \in DOMAIN Tail(s) : \E j \in DOMAIN s : Tail(s)[i] = s[j]
<1> DEFINE u == s[1].timestamp
<1>1. /\ Len(s) \in Nat \ {0} /\ Head(s) = s[1] /\ s[1] \in T /\ DOMAIN s = 1 .. Len(s)
      /\ \A i \in DOMAIN s : s[i] \in T /\ s[i].timestamp \in Nat
      /\ Tail(s) = SubSeq(s, 1 + 1, Len(s))
  OBVIOUS
<1>2. /\ u \in Nat /\ 1 \in 0 .. Len(s)
      /\ \A i \in 1 .. 1 : s[i].timestamp <= u
      /\ \A i \in 1 + 1 .. Len(s) : s[i].timestamp > u
  BY <1>1 DEF Ascends
<1>3. LET d == SubSeq(s, 1 + 1, Len(s))
      IN  /\ d \in Seq(T) /\ Ascends(d)
          /\ Times(d) = {t \in Times(s) : t > u}
          /\ \A i \in DOMAIN d : \E j \in DOMAIN s : d[i] = s[j]
  <2> HIDE DEF u
  <2> QED BY <1>2, DropKeeps
<1>4. \A i \in DOMAIN s : s[i].timestamp \in Nat /\ u <= s[i].timestamp
  BY <1>1, <1>2
<1>5. \A t \in Times(s) : t \in Nat /\ u <= t
  BY <1>4 DEF Times
<1>6. u \in Times(s)
  BY <1>1 DEF Times
<1>7. Tail(s) = SubSeq(s, 2, Len(s)) /\ Head(s).timestamp = u
  BY <1>1
<1> HIDE DEF u
<1>8. /\ Tail(s) \in Seq(T) /\ Ascends(Tail(s))
      /\ Times(Tail(s)) = {t \in Times(s) : t > u}
      /\ \A i \in DOMAIN Tail(s) : \E j \in DOMAIN s : Tail(s)[i] = s[j]
  BY <1>3, <1>1
<1> QED BY <1>1, <1>5, <1>6, <1>7, <1>8

LEMMA AppendKeeps ==
    ASSUME NEW T, \A e \in T : e.timestamp \in Nat, NEW s \in Seq(T), Ascends(s), NEW e \in T,
           \A t \in Times(s) : t < e.timestamp
    PROVE  /\ Append(s, e) \in Seq(T) /\ Ascends(Append(s, e))
           /\ Times(Append(s, e)) = Times(s) \cup {e.timestamp}
<1> DEFINE a == Append(s, e)
<1>1. /\ a \in Seq(T) /\ Len(a) = Len(s) + 1 /\ Len(s) \in Nat
      /\ \A i \in 1 .. Len(s) : a[i] = s[i]
      /\ a[Len(s) + 1] = e /\ DOMAIN a = 1 .. Len(s) + 1 /\ DOMAIN s = 1 .. Len(s)
      /\ \A i \in DOMAIN s : s[i].timestamp < e.timestamp
  BY AppendIs DEF Times
<1> HIDE DEF a
<1>2. Ascends(a)
  <2>1. ASSUME NEW i \in DOMAIN a, NEW j \in DOMAIN a, i < j
        PROVE  a[i].timestamp < a[j].timestamp
    <3>1. i \in 1 .. Len(s) /\ a[i] = s[i] /\ i \in DOMAIN s
      BY <1>1, <2>1
    <3>2. CASE j = Len(s) + 1
      BY <1>1, <3>1, <3>2
    <3>3. CASE j # Len(s) + 1
      <4>1. j \in DOMAIN s /\ a[j] = s[j]
        BY <1>1, <3>3
      <4> QED BY <2>1, <3>1, <4>1 DEF Ascends
    <3> QED BY <3>2, <3>3
  <2> QED BY <2>1 DEF Ascends
<1>3. Times(a) = Times(s) \cup {e.timestamp}
  <2>1. ASSUME NEW t \in Times(a) PROVE t \in Times(s) \cup {e.timestamp}
    BY <1>1 DEF Times
  <2>2. ASSUME NEW t \in Times(s) PROVE t \in Times(a)
    BY <1>1 DEF Times
  <2>3. e.timestamp \in Times(a)
    <3>1. Len(s) + 1 \in DOMAIN a /\ a[Len(s) + 1].timestamp = e.timestamp
      BY <1>1
    <3> QED BY <3>1 DEF Times
  <2> QED BY <2>1, <2>2, <2>3
<1> QED BY <1>1, <1>2, <1>3 DEF a

\* A buffer goes where the list stays in order.
LEMMA InsertKeeps ==
    ASSUME LegacyAssumption, NEW list \in Seq(Payload), Ascends(list), NEW entry \in Payload,
           ~stampedBufferQuery(list, entry.timestamp)
    PROVE  LET new == stampedBufferListInsert(list, entry)
           IN  /\ new \in Seq(Payload) /\ Ascends(new)
               /\ Times(new) = Times(list) \cup {entry.timestamp}
               /\ \A i \in DOMAIN new : new[i] = entry \/ \E j \in DOMAIN list : new[i] = list[j]
               /\ \A j \in DOMAIN list : \E i \in DOMAIN new : new[i] = list[j]
               /\ \E i \in DOMAIN new : new[i] = entry
<1> DEFINE later == {i \in DOMAIN list : list[i].timestamp > entry.timestamp}
           at == FirstOf(later, Len(list) + 1)
           new == [i \in 1 .. Len(list) + 1 |->
                     IF i < at THEN list[i] ELSE IF i = at THEN entry ELSE list[i - 1]]
<1>1. /\ DOMAIN list = 1 .. Len(list) /\ Len(list) \in Nat
      /\ \A i \in DOMAIN list : list[i] \in Payload /\ list[i].timestamp \in Nat
      /\ entry.timestamp \in Nat
  <2>1. \A e \in Payload : e.timestamp \in Nat
    BY DEF LegacyAssumption, Payload
  <2>2. DOMAIN list = 1 .. Len(list) /\ Len(list) \in Nat /\ \A i \in DOMAIN list : list[i] \in Payload
    OBVIOUS
  <2> QED BY <2>1, <2>2
<1>2. \/ later = {} /\ at = Len(list) + 1
      \/ at \in later /\ \A j \in later : at <= j
  <2>1. later \in SUBSET Nat /\ Len(list) + 1 \in Nat
    BY <1>1
  <2> HIDE DEF later
  <2> QED BY <2>1, FirstOfIsFirst
<1>3. /\ at \in 1 .. Len(list) + 1
      /\ \A i \in 1 .. Len(list) : /\ i < at => list[i].timestamp < entry.timestamp
                                   /\ i >= at => list[i].timestamp > entry.timestamp
  <2>1. \A i \in 1 .. Len(list) : list[i].timestamp # entry.timestamp
    BY <1>1 DEF stampedBufferQuery
  <2>2. at \in 1 .. Len(list) + 1
    BY <1>1, <1>2
  <2> HIDE DEF at
  <2>3. ASSUME NEW i \in 1 .. Len(list), i < at PROVE list[i].timestamp < entry.timestamp
    BY <1>1, <1>2, <2>1, <2>2, <2>3
  <2>4. ASSUME NEW i \in 1 .. Len(list), i >= at PROVE list[i].timestamp > entry.timestamp
    BY <1>1, <1>2, <2>2, <2>4 DEF Ascends
  <2> QED BY <2>2, <2>3, <2>4
<1>4. stampedBufferListInsert(list, entry) = new
  BY DEF stampedBufferListInsert
<1> HIDE DEF at
<1>5. /\ new \in Seq(Payload) /\ DOMAIN new = 1 .. Len(list) + 1
      /\ \A i \in 1 .. Len(list) + 1 : /\ i < at => i \in DOMAIN list /\ new[i] = list[i]
                                       /\ i = at => new[i] = entry
                                       /\ i > at => i - 1 \in DOMAIN list /\ new[i] = list[i - 1]
  <2>1. \A i \in 1 .. Len(list) + 1 : (i < at => i \in 1 .. Len(list)) /\ (i > at => i - 1 \in 1 .. Len(list))
    BY <1>1, <1>3
  <2>2. new \in [1 .. Len(list) + 1 -> Payload]
    BY <1>1, <2>1, <1>3
  <2> QED BY <1>1, <1>3, <2>1, <2>2
<1> HIDE DEF new
<1>6. Ascends(new)
  <2> SUFFICES ASSUME NEW i \in 1 .. Len(list) + 1, NEW j \in 1 .. Len(list) + 1, i < j
               PROVE  new[i].timestamp < new[j].timestamp
    BY <1>5 DEF Ascends
  <2>1. CASE j < at
    BY <2>1, <1>1, <1>3, <1>5 DEF Ascends
  <2>2. CASE j = at
    BY <2>2, <1>1, <1>3, <1>5
  <2>3. CASE i < at /\ j > at
    <3>1. i \in DOMAIN list /\ j - 1 \in DOMAIN list /\ i < at /\ j - 1 >= at
      BY <2>3, <1>1, <1>3, <1>5
    <3> QED BY <3>1, <2>3, <1>1, <1>3, <1>5
  <2>4. CASE i = at /\ j > at
    <3>1. j - 1 \in DOMAIN list /\ j - 1 >= at
      BY <2>4, <1>1, <1>3, <1>5
    <3> QED BY <3>1, <2>4, <1>1, <1>3, <1>5
  <2>5. CASE i > at
    <3>1. i - 1 \in DOMAIN list /\ j - 1 \in DOMAIN list /\ i - 1 < j - 1
      BY <2>5, <1>1, <1>3, <1>5
    <3>2. list[i - 1].timestamp < list[j - 1].timestamp
      BY <3>1 DEF Ascends
    <3>3. new[i] = list[i - 1] /\ new[j] = list[j - 1]
      BY <2>5, <1>3, <1>5
    <3> QED BY <3>2, <3>3
  <2> QED BY <2>1, <2>2, <2>3, <2>4, <2>5, <1>3
<1>7. \A i \in DOMAIN new : new[i] = entry \/ \E j \in DOMAIN list : new[i] = list[j]
  BY <1>1, <1>3, <1>5
<1>8. Times(new) = Times(list) \cup {entry.timestamp}
  <2>1. ASSUME NEW t \in Times(new) PROVE t \in Times(list) \cup {entry.timestamp}
    BY <1>7 DEF Times
  <2>2. ASSUME NEW t \in Times(list) PROVE t \in Times(new)
    <3>1. PICK j \in 1 .. Len(list) : t = list[j].timestamp
      BY <1>1 DEF Times
    <3>2. CASE j < at
      <4>1. j \in DOMAIN new /\ new[j] = list[j]
        BY <3>1, <3>2, <1>1, <1>5
      <4> QED BY <3>1, <4>1 DEF Times
    <3>3. CASE j >= at
      <4>1. j + 1 \in DOMAIN new /\ new[j + 1] = list[j]
        BY <3>1, <3>3, <1>1, <1>3, <1>5
      <4> QED BY <3>1, <4>1 DEF Times
    <3> QED BY <3>2, <3>3, <1>3
  <2>3. entry.timestamp \in Times(new)
    BY <1>3, <1>5 DEF Times
  <2> QED BY <2>1, <2>2, <2>3
<1>9. ASSUME NEW j \in DOMAIN list PROVE \E i \in DOMAIN new : new[i] = list[j]
  <2>1. CASE j < at
    BY <2>1, <1>1, <1>5
  <2>2. CASE j >= at
    <3>1. j + 1 \in DOMAIN new /\ new[j + 1] = list[j]
      BY <2>2, <1>1, <1>3, <1>5
    <3> QED BY <3>1
  <2> QED BY <2>1, <2>2, <1>1, <1>3
<1>10. \E i \in DOMAIN new : new[i] = entry
  BY <1>3, <1>5
<1> QED BY <1>4, <1>5, <1>6, <1>7, <1>8, <1>9, <1>10

LEMMA InsertTypes ==
    ASSUME NEW list \in Seq(Payload), NEW entry \in Payload
    PROVE  stampedBufferListInsert(list, entry) \in Seq(Payload)
<1> DEFINE later == {i \in DOMAIN list : list[i].timestamp > entry.timestamp}
           at == FirstOf(later, Len(list) + 1)
           new == [i \in 1 .. Len(list) + 1 |->
                     IF i < at THEN list[i] ELSE IF i = at THEN entry ELSE list[i - 1]]
<1>1. /\ DOMAIN list = 1 .. Len(list) /\ Len(list) \in Nat
      /\ \A i \in DOMAIN list : list[i] \in Payload
  OBVIOUS
<1>2. (later = {} /\ at = Len(list) + 1) \/ at \in later
  <2>1. later \in SUBSET Nat /\ Len(list) + 1 \in Nat
    BY <1>1
  <2> HIDE DEF later
  <2> QED BY <2>1, FirstOfIsFirst
<1>3. at \in 1 .. Len(list) + 1
  BY <1>1, <1>2
<1> HIDE DEF at
<1>4. new \in Seq(Payload)
  <2>1. \A i \in 1 .. Len(list) + 1 : (i < at => i \in 1 .. Len(list)) /\ (i > at => i - 1 \in 1 .. Len(list))
    BY <1>1, <1>3
  <2>2. new \in [1 .. Len(list) + 1 -> Payload]
    BY <1>1, <2>1, <1>3
  <2> QED BY <1>1, <2>2
<1> QED BY <1>4 DEF stampedBufferListInsert, at

LEMMA SkipWaits ==
    ASSUME NEW T, NEW s \in Seq(T), NEW t
    PROVE  LET later == {i \in DOMAIN s : s[i].timestamp > t}
               waits == FirstOf(later, Len(s) + 1)
           IN  /\ waits \in 1 .. Len(s) + 1
               /\ waits \in later \/ waits = Len(s) + 1
               /\ \A i \in 1 .. waits - 1 : i \in DOMAIN s /\ ~(s[i].timestamp > t)
<1> DEFINE later == {i \in DOMAIN s : s[i].timestamp > t}
           waits == FirstOf(later, Len(s) + 1)
<1>1. DOMAIN s = 1 .. Len(s) /\ Len(s) \in Nat /\ later \in SUBSET Nat /\ later \subseteq 1 .. Len(s)
  OBVIOUS
<1>2. \/ later = {} /\ waits = Len(s) + 1
      \/ waits \in later /\ \A j \in later : waits <= j
  <2> HIDE DEF later
  <2> QED BY <1>1, FirstOfIsFirst
<1> HIDE DEF waits
<1>3. waits \in 1 .. Len(s) + 1
  BY <1>1, <1>2
<1>4. ASSUME NEW i \in 1 .. waits - 1 PROVE i \in DOMAIN s /\ ~(s[i].timestamp > t)
  <2>1. i \in DOMAIN s /\ i \notin later
    BY <1>1, <1>2, <1>3
  <2> QED BY <2>1
<1> QED BY <1>2, <1>3, <1>4 DEF waits

-----------------------------------------------------------------------------
(* What an extraction takes, leaves and tells the core decoder.            *)

LEMMA PayloadTypes ==
    ASSUME LegacyAssumption
    PROVE  /\ Timestamp \subseteq Nat \ {0}
           /\ \A e \in Payload : e.timestamp \in Timestamp /\ e.timestamp \in Nat /\ e.data \in {"good", "bad"}
           /\ \A e \in Base : e.timestamp \in Timestamp /\ e.timestamp \in Nat /\ e.picture \in BasePicture
BY DEF LegacyAssumption, Payload, Base

LEMMA LoopIs ==
    ASSUME LegacyAssumption, NEW list \in Seq(Payload), NEW t \in Timestamp
    PROVE  LET e == processUpToTimestampLoop(list, t)
           IN  \E n \in 0 .. Len(list), m \in 0 .. Len(list) :
                  /\ n = FirstOf({i \in DOMAIN list : EndsAt(list[i], t)}, Len(list))
                  /\ e.left = SubSeq(list, n + 1, Len(list))
                  /\ e.streams \in Seq(Timestamp) /\ Len(e.streams) = m
                  /\ \A i \in 1 .. m : i \in DOMAIN list /\ e.streams[i] = list[i].timestamp
                  /\ e.failed \in BOOLEAN /\ e.found \in BOOLEAN
                  /\ e.failed <=> (n > 0 /\ list[n].data # "good")
                  /\ m = IF e.failed THEN n - 1 ELSE n
                  /\ e.found <=> (n > 0 /\ list[n] = [timestamp |-> t, data |-> "good"])
<1> DEFINE ends == {i \in DOMAIN list : EndsAt(list[i], t)}
           n == FirstOf(ends, Len(list))
           failed == n > 0 /\ list[n].data # "good"
           m == IF failed THEN n - 1 ELSE n
           streams == [i \in 1 .. m |-> list[i].timestamp]
<1>1. DOMAIN list = 1 .. Len(list) /\ Len(list) \in Nat /\ ends \in SUBSET Nat /\ ends \subseteq 1 .. Len(list)
  OBVIOUS
<1>2. n \in 0 .. Len(list)
  <2> HIDE DEF ends
  <2>1. (ends = {} /\ n = Len(list)) \/ n \in ends
    BY <1>1, FirstOfIsFirst
  <2> HIDE DEF n
  <2>2. CASE ends = {} /\ n = Len(list)
    BY <2>2, <1>1
  <2>3. CASE n \in ends
    BY <2>3, <1>1
  <2> QED BY <2>1, <2>2, <2>3
<1>3. processUpToTimestampLoop(list, t) =
        [left |-> SubSeq(list, n + 1, Len(list)), streams |-> streams, failed |-> failed,
         found |-> n > 0 /\ list[n] = [timestamp |-> t, data |-> "good"]]
  BY DEF processUpToTimestampLoop
<1>8. n = FirstOf({i \in DOMAIN list : EndsAt(list[i], t)}, Len(list))
  BY DEF n, ends
<1> HIDE DEF n, ends
<1>4. m \in 0 .. Len(list)
  BY <1>2, <1>1
<1> HIDE DEF m
<1>5. streams \in Seq(Timestamp) /\ Len(streams) = m
      /\ \A i \in 1 .. m : i \in DOMAIN list /\ streams[i] = list[i].timestamp
  <2>1. \A i \in 1 .. m : i \in DOMAIN list /\ list[i].timestamp \in Timestamp
    <3>1. \A i \in DOMAIN list : list[i] \in Payload
      OBVIOUS
    <3> QED BY <1>1, <1>4, <3>1, PayloadTypes
  <2> QED BY <2>1, <1>4
<1> HIDE DEF streams
<1>7. m = IF failed THEN n - 1 ELSE n
  BY DEF m
<1>9. failed = (n > 0 /\ list[n].data # "good")
  OBVIOUS
<1> HIDE DEF failed
<1> DEFINE found == n > 0 /\ list[n] = [timestamp |-> t, data |-> "good"]
<1> DEFINE left == SubSeq(list, n + 1, Len(list))
<1>6. LET e == processUpToTimestampLoop(list, t)
      IN  e.left = left /\ e.streams = streams /\ e.failed = failed /\ e.found = found
  <2>1. processUpToTimestampLoop(list, t) =
          [left |-> left, streams |-> streams, failed |-> failed, found |-> found]
    BY <1>3
  <2> HIDE DEF left, found
  <2> QED BY <2>1
<1>10. failed \in BOOLEAN /\ found \in BOOLEAN
  BY <1>9
<1> QED BY <1>2, <1>4, <1>5, <1>6, <1>7, <1>8, <1>9, <1>10

LEMMA ExtractTypes ==
    ASSUME LegacyAssumption, NEW list \in Seq(Payload), NEW known \in SUBSET Timestamp,
           NEW t \in Timestamp, NEW discard \in BOOLEAN
    PROVE  LET e == Extract(list, known, t, discard)
           IN  /\ e.left \in Seq(Payload) /\ e.known \subseteq Timestamp
               /\ e.streams \in Seq(Timestamp) /\ e.found \in BOOLEAN /\ e.failed \in BOOLEAN
<1>1. CASE t \in known
  BY <1>1 DEF Extract
<1>2. CASE t \notin known
  <2> DEFINE loop == processUpToTimestampLoop(list, t)
             early == {i \in DOMAIN loop.streams : loop.streams[i] <= t}
  <2>1. /\ loop.left \in Seq(Payload) /\ loop.streams \in Seq(Timestamp)
        /\ loop.failed \in BOOLEAN /\ loop.found \in BOOLEAN
    <3>1. PICK n \in 0 .. Len(list) : loop.left = SubSeq(list, n + 1, Len(list))
      BY LoopIs
    <3>2. loop.left \in Seq(Payload)
      BY <3>1, DropIs
    <3> QED BY <3>2, LoopIs
  <2>2. Extract(list, known, t, discard) =
          [left |-> loop.left, streams |-> loop.streams, failed |-> loop.failed, found |-> loop.found,
           known |-> IF discard THEN known ELSE known \cup {loop.streams[i] : i \in early}]
    BY <1>2 DEF Extract
  <2> HIDE DEF loop
  <2>3. \A i \in early : loop.streams[i] \in Timestamp
    BY <2>1
  <2> QED BY <2>1, <2>2, <2>3
<1> QED BY <1>1, <1>2

LEMMA AccumulatedTypes ==
    ASSUME LegacyAssumption, NEW e, Accumulated(e), NEW s \in Seq(Timestamp), s = e.streams,
           parsed \in Timestamp \cup {None}, latestParse \in Nat
    PROVE  parsed' \in Timestamp \cup {None} /\ latestParse' \in Nat
<1>1. s # <<>> => s[Len(s)] \in Timestamp
  OBVIOUS
<1>2. s # <<>> => s[Len(s)] \in Nat
  BY <1>1, PayloadTypes
<1> QED BY <1>1, <1>2 DEF Accumulated, Latest

-----------------------------------------------------------------------------
(* The kinds of the variables, and that no decode is left to do.           *)

LEMMA ResultType ==
    ASSUME NEW base \in Base, NEW output \in OutputPicture, NEW available \in BOOLEAN,
           NEW timeout \in BOOLEAN, NEW ok \in BOOLEAN, parsed' \in Timestamp \cup {None}
    PROVE  /\ doDecode(base, output, available, timeout, ok) \in Result
           /\ doDecode(base, output, available, timeout, ok).timestamp = base.timestamp
           /\ doDecode(base, output, available, timeout, ok).hasEnhancement = available
           /\ doDecode(base, output, available, timeout, ok).residualsOf \in {None, parsed'}
BY DEF doDecode, Result, Base

\* What a decode makes of queues that are typed.
LEMMA DecodeTypes ==
    ASSUME LegacyAssumption, TypesOK,
           NEW bases \in Seq(Base), NEW outputs \in Seq(OutputPicture),
           NEW payloads \in Seq(Payload), NEW results \in Seq(Result), NEW told,
           tryToQueueDecodes(bases, outputs, payloads, results, told)
    PROVE  /\ m_baseContainer' \in Seq(Base) /\ m_pendingOutputContainer' \in Seq(OutputPicture)
           /\ unprocessed' \in Seq(Payload) /\ processed' \subseteq Timestamp
           /\ m_resultsQueue' \in Seq(Result) /\ m_finishedBaseContainer' \in Seq(BasePicture)
           /\ parsed' \in Timestamp \cup {None} /\ latestParse' \in Nat
           /\ IF Ready(bases, outputs, results)
              THEN /\ m_baseContainer' = Tail(bases) /\ m_pendingOutputContainer' = Tail(outputs)
                   /\ Len(m_resultsQueue') = Len(results) + 1
              ELSE /\ m_baseContainer' = bases /\ m_pendingOutputContainer' = outputs
                   /\ m_resultsQueue' = results
<1>1. CASE ~Ready(bases, outputs, results)
  BY <1>1 DEF tryToQueueDecodes, TypesOK
<1>2. CASE Ready(bases, outputs, results)
  <2> DEFINE base == Head(bases)
             e == Extract(payloads, processed, base.timestamp, TRUE)
             streams == e.streams
  <2>1. /\ m_baseContainer' = Tail(bases) /\ m_pendingOutputContainer' = Tail(outputs)
        /\ unprocessed' = e.left /\ processed' = e.known
        /\ Accumulated(e)
        /\ \E timeout, ok \in BOOLEAN :
              m_resultsQueue' = Append(results, doDecode(base, Head(outputs), e.found, timeout, ok))
        /\ m_finishedBaseContainer' = Append(m_finishedBaseContainer, base.picture)
    BY <1>2 DEF tryToQueueDecodes
  <2>2. /\ base \in Base /\ Head(outputs) \in OutputPicture
        /\ Tail(bases) \in Seq(Base) /\ Tail(outputs) \in Seq(OutputPicture)
    BY <1>2 DEF Ready
  <2>3. base.timestamp \in Timestamp /\ base.picture \in BasePicture
    BY <2>2 DEF Base
  <2> HIDE DEF base
  <2>4. /\ e.left \in Seq(Payload) /\ e.known \subseteq Timestamp
        /\ e.streams \in Seq(Timestamp) /\ e.found \in BOOLEAN
    BY <2>3, ExtractTypes DEF TypesOK
  <2> HIDE DEF e
  <2>5. parsed' \in Timestamp \cup {None} /\ latestParse' \in Nat
    BY <2>1, <2>4, AccumulatedTypes DEF TypesOK
  <2>6. m_resultsQueue' \in Seq(Result) /\ Len(m_resultsQueue') = Len(results) + 1
    <3>1. PICK timeout \in BOOLEAN, ok \in BOOLEAN :
             m_resultsQueue' = Append(results, doDecode(base, Head(outputs), e.found, timeout, ok))
      BY <2>1
    <3>2. doDecode(base, Head(outputs), e.found, timeout, ok) \in Result
      BY <2>2, <2>4, <2>5, ResultType
    <3> QED BY <3>1, <3>2, AppendIs
  <2>7. m_finishedBaseContainer' \in Seq(BasePicture)
    BY <2>1, <2>3, AppendIs DEF TypesOK
  <2> QED BY <2>1, <2>2, <2>4, <2>5, <2>6, <2>7, <1>2
<1> QED BY <1>1, <1>2

LEMMA InitTypes == ASSUME LegacyAssumption, LegacyInit PROVE TypesOK /\ DecodesDrained
BY DEF LegacyInit, TypesOK, DecodesDrained, Ready

\* A decode leaves none to do, if one more picture or one more result's room is all there is.
LEMMA DecodeDrains ==
    ASSUME LegacyAssumption, TypesOK,
           NEW bases \in Seq(Base), NEW outputs \in Seq(OutputPicture),
           NEW payloads \in Seq(Payload), NEW results \in Seq(Result), NEW told,
           tryToQueueDecodes(bases, outputs, payloads, results, told),
           ~Ready(bases, outputs, results) \/ Len(bases) = 1 \/ Len(outputs) = 1
              \/ Len(results) + 1 >= resultsQueueCap
    PROVE  DecodesDrained'
<1>1. CASE ~Ready(bases, outputs, results)
  BY <1>1 DEF tryToQueueDecodes, DecodesDrained, Ready
<1>2. CASE Ready(bases, outputs, results)
  <2>1. /\ m_baseContainer' = Tail(bases) /\ m_pendingOutputContainer' = Tail(outputs)
        /\ Len(m_resultsQueue') = Len(results) + 1
    BY <1>2, DecodeTypes
  <2>2. CASE Len(bases) = 1
    <3>1. Tail(bases) = <<>>
      BY <2>2, OneLeft
    <3> QED BY <2>1, <3>1 DEF DecodesDrained, Ready
  <2>3. CASE Len(outputs) = 1
    <3>1. Tail(outputs) = <<>>
      BY <2>3, OneLeft
    <3> QED BY <2>1, <3>1 DEF DecodesDrained, Ready
  <2>4. CASE Len(results) + 1 >= resultsQueueCap
    <3>1. Len(results) \in Nat /\ resultsQueueCap \in Nat
      BY DEF LegacyAssumption
    <3> QED BY <2>1, <2>4, <3>1 DEF DecodesDrained, Ready
  <2> QED BY <1>2, <2>2, <2>3, <2>4
<1> QED BY <1>1, <1>2

LEMMA NextTypes ==
    ASSUME LegacyAssumption, TypesOK, DecodesDrained, [LegacyNext]_legacyVars
    PROVE  TypesOK' /\ DecodesDrained'
<1>1. ASSUME NEW t \in Timestamp, NEW p \in BasePicture, sendBasePicture(t, p)
      PROVE  TypesOK' /\ DecodesDrained'
  <2> DEFINE b == [timestamp |-> t, picture |-> p]
             bases == Append(m_baseContainer, b)
  <2>1. tryToQueueDecodes(bases, m_pendingOutputContainer, unprocessed, m_resultsQueue, {})
        /\ horizon' = t /\ UNCHANGED sent
    BY <1>1 DEF sendBasePicture
  <2>2. b \in Base /\ t \in Nat
    BY DEF Base, LegacyAssumption
  <2>3. bases \in Seq(Base) /\ (m_baseContainer = <<>> => Len(bases) = 1)
    BY <2>2 DEF TypesOK
  <2>4. ~Ready(bases, m_pendingOutputContainer, m_resultsQueue) \/ m_baseContainer = <<>>
    BY DEF DecodesDrained, Ready
  <2> HIDE DEF bases
  <2>5. TypesOK'
    BY <2>1, <2>2, <2>3, DecodeTypes DEF TypesOK
  <2>6. DecodesDrained'
    BY <2>1, <2>3, <2>4, DecodeDrains DEF TypesOK
  <2> QED BY <2>5, <2>6
<1>2. ASSUME NEW t \in Timestamp, NEW d \in {"good", "bad"}, sendEnhancementData(t, d)
      PROVE  TypesOK' /\ DecodesDrained'
  <2> DEFINE entry == [timestamp |-> t, data |-> d]
             payloads == stampedBufferListInsert(unprocessed, entry)
  <2>1. /\ tryToQueueDecodes(m_baseContainer, m_pendingOutputContainer, payloads, m_resultsQueue, {})
        /\ UNCHANGED horizon /\ (sent' = [sent EXCEPT ![t] = d] \/ sent' = sent)
    BY <1>2 DEF sendEnhancementData
  <2>2. payloads \in Seq(Payload)
    BY InsertTypes DEF TypesOK, Payload
  <2> HIDE DEF payloads
  <2>3. sent' \in [Timestamp -> {"nothing", "good", "bad"}]
    BY <2>1 DEF TypesOK
  <2>5. TypesOK'
    BY <2>1, <2>2, <2>3, DecodeTypes DEF TypesOK
  <2>6. DecodesDrained'
    BY <2>1, <2>2, DecodeDrains DEF TypesOK, DecodesDrained
  <2> QED BY <2>5, <2>6
<1>3. ASSUME NEW p \in OutputPicture, sendOutputPicture(p)
      PROVE  TypesOK' /\ DecodesDrained'
  <2> DEFINE outputs == Append(m_pendingOutputContainer, p)
  <2>1. tryToQueueDecodes(m_baseContainer, outputs, unprocessed, m_resultsQueue, {})
        /\ UNCHANGED <<horizon, sent>>
    BY <1>3 DEF sendOutputPicture, history
  <2>3. outputs \in Seq(OutputPicture) /\ (m_pendingOutputContainer = <<>> => Len(outputs) = 1)
    BY DEF TypesOK
  <2>4. ~Ready(m_baseContainer, outputs, m_resultsQueue) \/ m_pendingOutputContainer = <<>>
    BY DEF DecodesDrained, Ready
  <2> HIDE DEF outputs
  <2>5. TypesOK'
    BY <2>1, <2>3, DecodeTypes DEF TypesOK
  <2>6. DecodesDrained'
    BY <2>1, <2>3, <2>4, DecodeDrains DEF TypesOK
  <2> QED BY <2>5, <2>6
<1>4. ASSUME receiveOutputPicture PROVE TypesOK' /\ DecodesDrained'
  <2> DEFINE results == Tail(m_resultsQueue)
  <2>1. /\ tryToQueueDecodes(m_baseContainer, m_pendingOutputContainer, unprocessed, results, {"OutputPictureDone"})
        /\ UNCHANGED <<horizon, sent>> /\ m_resultsQueue # <<>>
    BY <1>4 DEF receiveOutputPicture, history
  <2>2. results \in Seq(Result) /\ Len(results) + 1 = Len(m_resultsQueue) /\ Len(m_resultsQueue) \in Nat
    BY <2>1 DEF TypesOK
  <2>3. Len(m_resultsQueue) < resultsQueueCap => ~Ready(m_baseContainer, m_pendingOutputContainer, results)
    BY DEF DecodesDrained, Ready
  <2> HIDE DEF results
  <2>4. ~Ready(m_baseContainer, m_pendingOutputContainer, results) \/ Len(results) + 1 >= resultsQueueCap
    BY <2>2, <2>3 DEF LegacyAssumption
  <2>5. TypesOK'
    BY <2>1, <2>2, DecodeTypes DEF TypesOK
  <2>6. DecodesDrained'
    BY <2>1, <2>2, <2>4, DecodeDrains DEF TypesOK
  <2> QED BY <2>5, <2>6
<1>5. ASSUME receiveFinishedBasePicture PROVE TypesOK' /\ DecodesDrained'
  BY <1>5 DEF receiveFinishedBasePicture, inputs, history, TypesOK, DecodesDrained, Ready
<1>6. ASSUME flush PROVE TypesOK' /\ DecodesDrained'
  <2>1. m_resultsQueue' \in Seq(Result)
    <3>1. /\ m_resultsQueue' = [i \in DOMAIN m_resultsQueue |->
                                  [m_resultsQueue[i] EXCEPT !.returnCode = "Flushed"]]
          /\ DOMAIN m_resultsQueue = 1 .. Len(m_resultsQueue) /\ Len(m_resultsQueue) \in Nat
          /\ \A i \in DOMAIN m_resultsQueue : m_resultsQueue[i] \in Result
      BY <1>6 DEF flush, TypesOK
    <3>2. \A r \in Result : [r EXCEPT !.returnCode = "Flushed"] \in Result
      BY DEF Result
    <3> QED BY <3>1, <3>2
  <2> QED BY <1>6, <2>1 DEF flush, TypesOK, DecodesDrained, Ready
<1>7. ASSUME NEW t \in Timestamp, peek(t) PROVE TypesOK' /\ DecodesDrained'
  <2> DEFINE e == Extract(unprocessed, processed, t, FALSE)
  <2>1. /\ unprocessed' = e.left /\ processed' = e.known /\ Accumulated(e)
        /\ UNCHANGED <<m_baseContainer, m_pendingOutputContainer, m_resultsQueue,
                       m_finishedBaseContainer, horizon, sent>>
    BY <1>7 DEF peek, history
  <2>2. /\ e.left \in Seq(Payload) /\ e.known \subseteq Timestamp /\ e.streams \in Seq(Timestamp)
    BY ExtractTypes DEF TypesOK
  <2> HIDE DEF e
  <2>3. parsed' \in Timestamp \cup {None} /\ latestParse' \in Nat
    BY <2>1, <2>2, AccumulatedTypes DEF TypesOK
  <2> QED BY <2>1, <2>2, <2>3 DEF TypesOK, DecodesDrained, Ready
<1>8. ASSUME NEW t \in Timestamp, skip(t) PROVE TypesOK' /\ DecodesDrained'
  <2> DEFINE later == {i \in DOMAIN m_baseContainer : m_baseContainer[i].timestamp > t}
             waits == FirstOf(later, Len(m_baseContainer) + 1)
             kept == SubSeq(m_baseContainer, waits, Len(m_baseContainer))
             e == Extract(unprocessed, processed, t, TRUE)
             dropped == [i \in 1 .. waits - 1 |-> m_baseContainer[i].picture]
  <2>1. /\ m_baseContainer' = kept /\ m_finishedBaseContainer' = m_finishedBaseContainer \o dropped
        /\ unprocessed' = e.left /\ processed' = e.known /\ Accumulated(e)
        /\ m_resultsQueue' = [i \in DOMAIN m_resultsQueue |->
                                IF m_resultsQueue[i].timestamp <= t
                                THEN [m_resultsQueue[i] EXCEPT !.skipped = TRUE] ELSE m_resultsQueue[i]]
        /\ horizon' = IF t > horizon THEN t ELSE horizon
        /\ UNCHANGED <<m_pendingOutputContainer, sent>>
    BY <1>8 DEF skip
  <2>2. /\ e.left \in Seq(Payload) /\ e.known \subseteq Timestamp /\ e.streams \in Seq(Timestamp)
    BY ExtractTypes DEF TypesOK
  <2> HIDE DEF e
  <2>3. parsed' \in Timestamp \cup {None} /\ latestParse' \in Nat
    BY <2>1, <2>2, AccumulatedTypes DEF TypesOK
  <2>4. waits \in 1 .. Len(m_baseContainer) + 1
    BY SkipWaits DEF TypesOK
  <2> HIDE DEF waits
  <2>5. kept \in Seq(Base) /\ (m_baseContainer = <<>> => kept = <<>>)
    <3>1. SubSeq(m_baseContainer, waits - 1 + 1, Len(m_baseContainer)) \in Seq(Base)
      BY <2>4, DropIs DEF TypesOK
    <3>2. waits - 1 + 1 = waits
      BY <2>4
    <3> QED BY <2>4, <3>1, <3>2 DEF TypesOK
  <2>6. dropped \in Seq(BasePicture)
    <3>1. \A i \in 1 .. waits - 1 : m_baseContainer[i] \in Base
      BY <2>4 DEF TypesOK
    <3>2. \A i \in 1 .. waits - 1 : m_baseContainer[i].picture \in BasePicture
      BY <3>1 DEF Base
    <3> QED BY <2>4, <3>2 DEF TypesOK
  <2> HIDE DEF dropped, kept
  <2>7. m_finishedBaseContainer' \in Seq(BasePicture)
    BY <2>1, <2>6 DEF TypesOK
  <2>8. m_resultsQueue' \in Seq(Result) /\ Len(m_resultsQueue') = Len(m_resultsQueue)
    <3>1. /\ DOMAIN m_resultsQueue = 1 .. Len(m_resultsQueue) /\ Len(m_resultsQueue) \in Nat
          /\ \A i \in DOMAIN m_resultsQueue : m_resultsQueue[i] \in Result
      BY DEF TypesOK
    <3>2. \A r \in Result : [r EXCEPT !.skipped = TRUE] \in Result
      BY DEF Result
    <3> QED BY <2>1, <3>1, <3>2
  <2>9. horizon' \in Nat
    BY <2>1 DEF TypesOK, LegacyAssumption
  <2>10. TypesOK'
    BY <2>1, <2>2, <2>3, <2>5, <2>7, <2>8, <2>9 DEF TypesOK
  <2>11. DecodesDrained'
    BY <2>1, <2>5, <2>8 DEF DecodesDrained, Ready
  <2> QED BY <2>10, <2>11
<1>9. ASSUME UNCHANGED legacyVars PROVE TypesOK' /\ DecodesDrained'
  BY <1>9 DEF legacyVars, TypesOK, DecodesDrained, Ready
<1> QED BY <1>1, <1>2, <1>3, <1>4, <1>5, <1>6, <1>7, <1>8, <1>9 DEF LegacyNext

(* DecodesDrained: no base waits beside a picture to decode to and room for *)
(* a result, so no call leaves a decode undone that no later call would     *)
(* look for: each makes at most one possible, and does it.                  *)
THEOREM DecodesAlwaysDrained == ASSUME LegacyAssumption PROVE LegacySpec => [](TypesOK /\ DecodesDrained)
<1>1. LegacyInit => TypesOK /\ DecodesDrained
  BY InitTypes
<1>2. (TypesOK /\ DecodesDrained) /\ [LegacyNext]_legacyVars => (TypesOK /\ DecodesDrained)'
  BY NextTypes
<1> QED BY <1>1, <1>2, PTL DEF LegacySpec

-----------------------------------------------------------------------------
(* Parsing in order, and own residuals.  In the parts of the invariant,     *)
(* bases, payloads, peeked and results are the queues; held is the stream   *)
(* of the core decoder, last the latest payload parsed, tardy those that    *)
(* come late, asked the horizon, came what was sent and lost the frames     *)
(* that are astray.                                                         *)

Good(payloads) ==
    {u \in Timestamp : \E i \in DOMAIN payloads : payloads[i] = [timestamp |-> u, data |-> "good"]}

\* Payloads that wait are in order, and later than all that were parsed.
QueueOK(payloads, last, tardy) ==
    /\ Ascends(payloads)
    /\ \A i \in DOMAIN payloads : payloads[i].timestamp \in tardy \/ payloads[i].timestamp > last

BasesOK(bases, asked) == Ascends(bases) /\ \A b \in Times(bases) : b <= asked

\* What came for a frame that is still to decode is there, if it can be parsed, or a peek has parsed it.
DueOK(bases, payloads, peeked, asked, came, lost) ==
    \A t \in Timestamp : (t > asked \/ t \in Times(bases)) /\ t \notin lost =>
                            (came[t] = "good" <=> t \in Good(payloads) \/ t \in peeked)

\* What a peek parsed is the stream of the core decoder until something else is.
PeekedOK(peeked, held, lost) == \A t \in peeked : t \notin lost => held = t

\* A frame with a result is not decoded again.
ResultOK(result, bases, asked, came, lost) ==
    /\ result.timestamp <= asked /\ result.timestamp \notin Times(bases)
    /\ result.timestamp \notin lost =>
          /\ result.hasEnhancement <=> came[result.timestamp] = "good"
          /\ result.residualsOf \in {None, result.timestamp}
ResultsOK(results, bases, asked, came, lost) ==
    \A i \in DOMAIN results :
       results[i].returnCode # "Flushed" => ResultOK(results[i], bases, asked, came, lost)

QueuesInv(bases, payloads, peeked, results, held, last, ordered, tardy, asked, came, lost) ==
    /\ QueueOK(payloads, last, tardy) /\ BasesOK(bases, asked)
    /\ DueOK(bases, payloads, peeked, asked, came, lost)
    /\ PeekedOK(peeked, held, lost)
    /\ ResultsOK(results, bases, asked, came, lost) /\ ordered = TRUE

OwnInv ==
    QueuesInv(m_baseContainer, unprocessed, processed, m_resultsQueue, parsed, latestParse, inOrder,
              late, horizon, sent, astray)

ModeOK == m_passthroughMode \in {"Disable", "Allow", "Force"}

-----------------------------------------------------------------------------
(* An extraction.                                                          *)

\* It takes earlier payloads that can be parsed, and then one that ends the search.
Taken(list, t, n) ==
    /\ \A i \in 1 .. n - 1 : list[i].timestamp < t /\ list[i].data = "good"
    /\ n < Len(list) => n > 0 /\ EndsAt(list[n], t)

LEMMA LoopTakes ==
    ASSUME LegacyAssumption, NEW list \in Seq(Payload), NEW t \in Timestamp,
           NEW n \in 0 .. Len(list), n = FirstOf({i \in DOMAIN list : EndsAt(list[i], t)}, Len(list))
    PROVE  Taken(list, t, n)
<1> DEFINE ends == {i \in DOMAIN list : EndsAt(list[i], t)}
<1>1. /\ DOMAIN list = 1 .. Len(list) /\ Len(list) \in Nat /\ ends \in SUBSET Nat /\ t \in Nat
      /\ \A i \in DOMAIN list : list[i] \in Payload
  BY PayloadTypes
<1>2. \/ ends = {} /\ n = Len(list)
      \/ n \in ends /\ \A j \in ends : n <= j
  <2> HIDE DEF ends
  <2> QED BY <1>1, FirstOfIsFirst DEF ends
<1>3. ASSUME NEW i \in 1 .. n - 1 PROVE list[i].timestamp < t /\ list[i].data = "good"
  <2>1. i \in DOMAIN list /\ i \notin ends
    BY <1>1, <1>2
  <2>2. list[i].timestamp \in Nat
    BY <1>1, <2>1, PayloadTypes
  <2> QED BY <1>1, <2>1, <2>2 DEF EndsAt
<1>4. n < Len(list) => n \in ends
  BY <1>1, <1>2
<1>5. n \in ends => n > 0 /\ EndsAt(list[n], t)
  BY <1>1
<1> HIDE DEF ends
<1> QED BY <1>3, <1>4, <1>5 DEF Taken

\* The good payloads of what is left are those not taken.
LEMMA GoodLeft ==
    ASSUME LegacyAssumption, NEW list \in Seq(Payload), NEW n \in 0 .. Len(list)
    PROVE  LET d == SubSeq(list, n + 1, Len(list))
           IN  /\ Good(d) \subseteq Good(list)
               /\ \A j \in n + 1 .. Len(list) : \A u \in Timestamp :
                     list[j] = [timestamp |-> u, data |-> "good"] => u \in Good(d)
<1> DEFINE d == SubSeq(list, n + 1, Len(list))
<1>1. /\ Len(d) = Len(list) - n /\ \A i \in 1 .. Len(d) : d[i] = list[i + n]
      /\ DOMAIN d = 1 .. Len(d) /\ DOMAIN list = 1 .. Len(list) /\ Len(list) \in Nat
  BY DropIs
<1> HIDE DEF d
<1>2. ASSUME NEW u \in Good(d) PROVE u \in Good(list)
  <2>1. PICK i \in DOMAIN d : d[i] = [timestamp |-> u, data |-> "good"]
    BY DEF Good
  <2>2. i + n \in DOMAIN list /\ list[i + n] = d[i]
    BY <1>1
  <2> QED BY <2>1, <2>2 DEF Good
<1>3. ASSUME NEW j \in n + 1 .. Len(list), NEW u \in Timestamp, list[j] = [timestamp |-> u, data |-> "good"]
      PROVE  u \in Good(d)
  <2>1. j - n \in DOMAIN d /\ d[j - n] = list[j]
    BY <1>1
  <2> QED BY <2>1, <1>3 DEF Good
<1> QED BY <1>2, <1>3 DEF d

\* A search takes n payloads and parses m of them.
Search(list, t, n, m, left, streams, failed, found) ==
    /\ n \in 0 .. Len(list) /\ m \in 0 .. Len(list)
    /\ n = FirstOf({i \in DOMAIN list : EndsAt(list[i], t)}, Len(list))
    /\ left = SubSeq(list, n + 1, Len(list))
    /\ streams \in Seq(Timestamp) /\ Len(streams) = m
    /\ \A i \in 1 .. m : i \in DOMAIN list /\ streams[i] = list[i].timestamp
    /\ failed \in BOOLEAN /\ found \in BOOLEAN
    /\ failed <=> (n > 0 /\ list[n].data # "good")
    /\ m = IF failed THEN n - 1 ELSE n
    /\ found <=> (n > 0 /\ list[n] = [timestamp |-> t, data |-> "good"])

\* What it tells the core decoder, what it loses, and what is known after it.
Told(streams, failed) ==
    /\ parsed' = IF failed THEN None ELSE IF streams = <<>> THEN parsed ELSE streams[Len(streams)]
    /\ latestParse' = IF streams = <<>> \/ streams[Len(streams)] < latestParse
                      THEN latestParse ELSE streams[Len(streams)]
    /\ inOrder' = (inOrder /\ \A i \in DOMAIN streams :
                                 \/ streams[i] \in late'
                                 \/ /\ streams[i] > latestParse
                                    /\ \A j \in 1 .. i - 1 : streams[i] > streams[j])
Lost(list, left, failed, kn, t) ==
    astray' = astray \cup {u \in {list[i].timestamp : i \in 1 .. Len(list) - Len(left)} : u > t}
                     \cup (IF failed /\ t \notin {list[i].timestamp : i \in 1 .. Len(list) - Len(left)}
                           THEN {t} ELSE {})
                     \cup (kn \ {parsed'})
Knows(known, discard, streams, t, kn) ==
    kn = IF discard THEN known
         ELSE known \cup {streams[i] : i \in {k \in DOMAIN streams : streams[k] <= t}}

\* What an extraction leaves, tells and loses.
Extraction(list, known, t, discard, left, found, kn) ==
    /\ left \in Seq(Payload) /\ QueueOK(left, latestParse', late') /\ inOrder' = TRUE
    /\ Good(left) \subseteq Good(list) /\ kn \subseteq known \cup Good(list)
    /\ known \subseteq kn \cup {t} /\ (discard = FALSE => known \subseteq kn)
    /\ \A u \in Good(list) : \/ u \in Good(left) \/ u \in astray'
                             \/ u <= t /\ (discard = FALSE => u \in kn)
    /\ found => t \in known \/ t \in Good(list)
    /\ t \notin astray' => ((t \in known \/ t \in Good(list)) => found)
    /\ found /\ t \notin astray' => parsed' = t
    /\ PeekedOK(kn, parsed', astray') /\ astray \subseteq astray'

LEMMA SearchIs ==
    ASSUME LegacyAssumption, NEW list \in Seq(Payload), NEW known \in SUBSET Timestamp,
           NEW t \in Timestamp, NEW discard \in BOOLEAN, t \notin known,
           NEW n, NEW m, NEW left, NEW streams, NEW failed, NEW found, NEW kn,
           Search(list, t, n, m, left, streams, failed, found), Told(streams, failed),
           Lost(list, left, failed, kn, t), Knows(known, discard, streams, t, kn),
           latestParse \in Nat, QueueOK(list, latestParse, late'), inOrder = TRUE
    PROVE  Extraction(list, known, t, discard, left, found, kn)
<1>1. /\ astray \subseteq astray' /\ kn \ {parsed'} \subseteq astray'
  BY DEF Lost
<1>2. PeekedOK(kn, parsed', astray')
  BY <1>1 DEF PeekedOK
<1>3. /\ n \in 0 .. Len(list) /\ m \in 0 .. Len(list)
      /\ left = SubSeq(list, n + 1, Len(list))
      /\ streams \in Seq(Timestamp) /\ Len(streams) = m
      /\ \A i \in 1 .. m : i \in DOMAIN list /\ streams[i] = list[i].timestamp
      /\ failed \in BOOLEAN /\ found \in BOOLEAN
      /\ failed <=> (n > 0 /\ list[n].data # "good")
      /\ m = IF failed THEN n - 1 ELSE n
      /\ found <=> (n > 0 /\ list[n] = [timestamp |-> t, data |-> "good"])
  BY DEF Search
<1>4. Taken(list, t, n)
  BY <1>3, LoopTakes DEF Search
<1>5. /\ DOMAIN list = 1 .. Len(list) /\ Len(list) \in Nat /\ t \in Nat
      /\ n \in 0 .. Len(list) /\ m \in 0 .. Len(list)
      /\ \A i \in DOMAIN list : /\ list[i] \in Payload /\ list[i].timestamp \in Nat
                                /\ list[i].timestamp \in Timestamp
  BY <1>3, PayloadTypes
<1>6. /\ left \in Seq(Payload) /\ Len(left) = Len(list) - n
      /\ \A i \in 1 .. Len(left) : left[i] = list[i + n]
      /\ DOMAIN left = 1 .. Len(left) /\ DOMAIN streams = 1 .. m
  <2>1. DOMAIN streams = 1 .. m
    BY <1>3
  <2> DEFINE d == SubSeq(list, n + 1, Len(list))
  <2>2. d \in Seq(Payload) /\ Len(d) = Len(list) - n /\ \A i \in 1 .. Len(d) : d[i] = list[i + n]
    BY <1>5, DropIs
  <2> HIDE DEF d
  <2>3. DOMAIN d = 1 .. Len(d)
    BY <2>2
  <2>4. left = d
    BY <1>3 DEF d
  <2> QED BY <2>1, <2>2, <2>3, <2>4
<1>7. \A i, j \in DOMAIN list : i < j => list[i].timestamp < list[j].timestamp
  BY DEF QueueOK, Ascends
<1>8. Good(left) \subseteq Good(list)
      /\ \A j \in n + 1 .. Len(list) : \A u \in Timestamp :
            list[j] = [timestamp |-> u, data |-> "good"] => u \in Good(left)
  BY <1>3, GoodLeft
\* Lost are the later one, and the frame itself behind one that ends the search.
<1>9. /\ \A i \in 1 .. n : list[i].timestamp > t => list[i].timestamp \in astray'
      /\ failed /\ (\A i \in 1 .. n : list[i].timestamp # t) => t \in astray'
  <2>1. Len(list) - Len(left) = n
    BY <1>5, <1>6
  <2> QED BY <2>1 DEF Lost
<1>10. m <= n /\ n <= m + 1 /\ \A i \in 1 .. n : i \in DOMAIN list /\ (list[i].data = "good" => i \in 1 .. m)
  BY <1>3, <1>5
<1>11. inOrder' = TRUE
  <2>1. ASSUME NEW i \in DOMAIN streams
        PROVE  \/ streams[i] \in late'
               \/ streams[i] > latestParse /\ \A j \in 1 .. i - 1 : streams[i] > streams[j]
    <3>1. i \in 1 .. m /\ i \in DOMAIN list /\ streams[i] = list[i].timestamp
      BY <1>3, <1>6
    <3>2. \A j \in 1 .. i - 1 : j \in DOMAIN list /\ streams[j] = list[j].timestamp /\ j < i
      BY <1>3, <3>1
    <3>3. \A j \in 1 .. i - 1 : streams[i] > streams[j]
      BY <1>5, <1>7, <3>1, <3>2
    <3> QED BY <3>1, <3>3 DEF QueueOK
  <2> QED BY <2>1 DEF Told
<1>12. QueueOK(left, latestParse', late')
  <2>1. latestParse' = latestParse \/ (m > 0 /\ latestParse' = list[m].timestamp)
    <3>1. streams # <<>> => m > 0 /\ streams[Len(streams)] = list[m].timestamp
      BY <1>3
    <3> QED BY <3>1 DEF Told
  <2>2. ASSUME NEW i \in DOMAIN left
        PROVE  left[i].timestamp \in late' \/ left[i].timestamp > latestParse'
    <3>1. i + n \in DOMAIN list /\ left[i] = list[i + n] /\ (m > 0 => m \in DOMAIN list /\ m < i + n)
      BY <1>5, <1>6, <1>10
    <3>2. list[i + n].timestamp \in late' \/ list[i + n].timestamp > latestParse
      BY <3>1 DEF QueueOK
    <3>3. m > 0 => list[i + n].timestamp > list[m].timestamp
      BY <1>5, <1>7, <3>1
    <3> QED BY <2>1, <3>1, <3>2, <3>3
  <2>3. Ascends(left)
    <3>1. ASSUME NEW i \in DOMAIN left, NEW j \in DOMAIN left, i < j
          PROVE  left[i].timestamp < left[j].timestamp
      <4>1. i + n \in DOMAIN list /\ j + n \in DOMAIN list /\ i + n < j + n
        BY <1>5, <1>6, <3>1
      <4> QED BY <4>1, <1>6, <1>7
    <3> QED BY <3>1 DEF Ascends
  <2> QED BY <2>2, <2>3 DEF QueueOK
<1>13. ASSUME NEW u \in Good(list)
       PROVE  \/ u \in Good(left) \/ u \in astray'
              \/ u <= t /\ (discard = FALSE => u \in kn)
  <2>1. PICK j \in DOMAIN list : list[j] = [timestamp |-> u, data |-> "good"]
    BY DEF Good
  <2>2. u \in Timestamp /\ u \in Nat /\ list[j].timestamp = u /\ list[j].data = "good"
    BY <1>5, <2>1
  <2>3. CASE j > n
    <3>1. j \in n + 1 .. Len(list)
      BY <1>5, <2>3
    <3> QED BY <1>8, <2>1, <2>2, <3>1
  <2>4. CASE ~(j > n)
    <3>1. j \in 1 .. n /\ j \in 1 .. m
      BY <1>5, <1>10, <2>2, <2>4
    <3>2. u > t => u \in astray'
      BY <1>9, <2>2, <3>1
    <3>3. j \in DOMAIN streams /\ streams[j] = u
      BY <1>3, <1>6, <2>2, <3>1
    <3>4. u <= t /\ discard = FALSE => u \in kn
      BY <3>3 DEF Knows
    <3> QED BY <1>5, <2>2, <3>2, <3>4
  <2> QED BY <2>3, <2>4
<1>14. kn \subseteq known \cup Good(list)
  <2>1. ASSUME NEW i \in DOMAIN streams, streams[i] <= t PROVE streams[i] \in Good(list)
    <3>1. i \in 1 .. m /\ i \in DOMAIN list /\ streams[i] = list[i].timestamp
      BY <1>3, <1>6
    <3>2. list[i].data = "good"
      <4>1. CASE i < n
        <5>1. i \in 1 .. n - 1
          BY <1>5, <3>1, <4>1
        <5> QED BY <1>4, <5>1 DEF Taken
      <4>2. CASE i = n
        <5>1. n > 0 /\ m = n
          BY <1>5, <1>10, <3>1, <4>2
        <5>2. ~failed
          BY <1>3, <1>5, <5>1
        <5> QED BY <1>3, <4>2, <5>1, <5>2
      <4> QED BY <1>5, <1>10, <3>1, <4>1, <4>2
    <3>3. list[i] = [timestamp |-> list[i].timestamp, data |-> "good"]
      BY <1>5, <3>1, <3>2 DEF Payload
    <3> QED BY <1>5, <3>1, <3>3 DEF Good
  <2> QED BY <2>1 DEF Knows
<1>15. found => t \in Good(list)
  BY <1>3, <1>5 DEF Good
<1>16. t \in Good(list) /\ t \notin astray' => found
  <2> SUFFICES ASSUME t \in Good(list), t \notin astray' PROVE found
    OBVIOUS
  <2>1. PICK j \in DOMAIN list : list[j] = [timestamp |-> t, data |-> "good"]
    BY DEF Good
  <2>2. list[j].timestamp = t /\ list[j].data = "good"
    BY <2>1
  <2>3. ~(j < n)
    <3>1. j < n => j \in 1 .. n - 1
      BY <1>5
    <3> QED BY <1>4, <1>5, <2>2, <3>1 DEF Taken
  <2>4. ~(j > n)
    <3> SUFFICES ASSUME j > n PROVE FALSE
      OBVIOUS
    <3>1. n > 0 /\ EndsAt(list[n], t) /\ n \in DOMAIN list
      BY <1>4, <1>5 DEF Taken
    <3>2. \A i \in 1 .. n : i \in DOMAIN list /\ list[i].timestamp < t
      <4>1. \A i \in 1 .. n : i \in DOMAIN list /\ i < j
        BY <1>5
      <4>2. \A i \in DOMAIN list : i < j => list[i].timestamp < list[j].timestamp
        BY <1>7
      <4> QED BY ONLY <4>1, <4>2, <2>2
    <3>3. list[n].timestamp < t /\ list[n].timestamp \in Nat
      BY <1>5, <3>1, <3>2
    <3>4. list[n].data # "good"
      BY <1>5, <3>1, <3>3 DEF EndsAt
    <3>5. failed
      BY <1>3, <3>1, <3>4
    <3>6. \A i \in 1 .. n : list[i].timestamp # t
      BY <1>5, <3>2
    <3> QED BY <1>9, <3>5, <3>6
  <2>5. j = n /\ n > 0
    BY <1>5, <2>3, <2>4
  <2> QED BY <1>3, <2>1, <2>5
<1>17. found => parsed' = t
  <2> SUFFICES ASSUME found PROVE parsed' = t
    OBVIOUS
  <2>1. n > 0 /\ list[n] = [timestamp |-> t, data |-> "good"]
    BY <1>3
  <2>2. list[n].timestamp = t /\ list[n].data = "good"
    BY <2>1
  <2>3. failed = FALSE /\ m = n
    BY <1>3, <2>2
  <2>4. streams # <<>> /\ streams[Len(streams)] = t
    BY <1>3, <2>1, <2>2, <2>3
  <2> QED BY <2>3, <2>4 DEF Told
<1>18. known \subseteq kn
  BY DEF Knows
<1> QED
  BY <1>1, <1>2, <1>6, <1>8, <1>11, <1>12, <1>13, <1>14, <1>15, <1>16, <1>17, <1>18 DEF Extraction

LEMMA KnownIs ==
    ASSUME LegacyAssumption, NEW list \in Seq(Payload), NEW known \in SUBSET Timestamp,
           NEW t \in known, NEW discard \in BOOLEAN, NEW failed, NEW kn, NEW streams,
           failed = FALSE, streams = <<>>, Told(streams, failed), Lost(list, list, failed, kn, t),
           kn = IF discard THEN known \ {t} ELSE known,
           QueueOK(list, latestParse, late'), PeekedOK(known, parsed, astray), inOrder = TRUE
    PROVE  \A found : found = TRUE => Extraction(list, known, t, discard, list, found, kn)
<1>1. /\ astray \subseteq astray' /\ kn \ {parsed'} \subseteq astray'
  BY DEF Lost
<1>2. PeekedOK(kn, parsed', astray')
  BY <1>1 DEF PeekedOK
<1>3. parsed' = parsed /\ latestParse' = latestParse /\ inOrder' = TRUE
  <2>1. DOMAIN streams = {}
    OBVIOUS
  <2> QED BY <2>1 DEF Told
<1>4. t \notin astray' => parsed' = t
  BY <1>1, <1>3 DEF PeekedOK
<1> QED BY <1>1, <1>2, <1>3, <1>4 DEF Extraction

LEMMA ExtractionIs ==
    ASSUME LegacyAssumption, NEW list \in Seq(Payload), NEW known \in SUBSET Timestamp,
           NEW t \in Timestamp, NEW discard \in BOOLEAN, NEW e, e = Extract(list, known, t, discard),
           Accumulated(e), Strayed(list, e, t), latestParse \in Nat,
           QueueOK(list, latestParse, late'), PeekedOK(known, parsed, astray), inOrder = TRUE
    PROVE  Extraction(list, known, t, discard, e.left, e.found, e.known)
<1>1. Told(e.streams, e.failed) /\ Lost(list, e.left, e.failed, e.known, t)
  BY DEF Accumulated, Latest, Strayed, Told, Lost
<1>2. CASE t \in known
  <2>1. /\ e.left = list /\ e.streams = <<>> /\ e.failed = FALSE /\ e.found = TRUE
        /\ e.known = IF discard THEN known \ {t} ELSE known
    BY <1>2 DEF Extract
  <2>2. Told(e.streams, e.failed) /\ Lost(list, list, e.failed, e.known, t)
    BY <1>1, <2>1
  <2>3. Extraction(list, known, t, discard, list, e.found, e.known)
    BY ONLY LegacyAssumption, list \in Seq(Payload), known \in SUBSET Timestamp, discard \in BOOLEAN,
            QueueOK(list, latestParse, late'), PeekedOK(known, parsed, astray), inOrder = TRUE,
            <1>2, <2>1, <2>2, KnownIs
  <2> QED BY <2>1, <2>3
<1>3. CASE t \notin known
  <2> DEFINE loop == processUpToTimestampLoop(list, t)
             early == {i \in DOMAIN loop.streams : loop.streams[i] <= t}
  <2>1. e = [left |-> loop.left, streams |-> loop.streams, failed |-> loop.failed, found |-> loop.found,
             known |-> IF discard THEN known ELSE known \cup {loop.streams[i] : i \in early}]
    BY <1>3 DEF Extract
  <2>2. PICK n, m : Search(list, t, n, m, loop.left, loop.streams, loop.failed, loop.found)
    BY LoopIs DEF Search
  <2> HIDE DEF loop
  <2>3. /\ e.left = loop.left /\ e.streams = loop.streams /\ e.failed = loop.failed /\ e.found = loop.found
        /\ e.known = IF discard THEN known ELSE known \cup {loop.streams[i] : i \in early}
    BY <2>1
  <2>4. Knows(known, discard, e.streams, t, e.known)
    BY <2>3 DEF Knows
  <2>5. Search(list, t, n, m, e.left, e.streams, e.failed, e.found)
    BY <2>2, <2>3
  <2> QED BY <1>1, <1>3, <2>4, <2>5, SearchIs
<1> QED BY <1>2, <1>3

\* What is due after an extraction for a frame that is decoded or skipped.
LEMMA DueLeft ==
    ASSUME LegacyAssumption, NEW bases, NEW payloads, NEW peeked, NEW asked \in Nat, NEW came,
           DueOK(bases, payloads, peeked, asked, came, astray),
           NEW t \in Timestamp, NEW discard, NEW left, NEW found, NEW known,
           Extraction(payloads, peeked, t, discard, left, found, known),
           NEW kept, NEW later \in Nat, later >= asked, later >= t,
           \A u \in Times(kept) : u \in Times(bases) /\ u > t
    PROVE  DueOK(kept, left, known, later, came, astray')
<1> SUFFICES ASSUME NEW u \in Timestamp, u > later \/ u \in Times(kept), u \notin astray'
             PROVE  came[u] = "good" <=> u \in Good(left) \/ u \in known
  BY DEF DueOK
<1>1. u \in Nat /\ t \in Nat
  BY PayloadTypes
<1>2. u > t /\ (u > asked \/ u \in Times(bases))
  BY <1>1
<1>3. /\ Good(left) \subseteq Good(payloads) /\ known \subseteq peeked \cup Good(payloads)
      /\ peeked \subseteq known \cup {t} /\ astray \subseteq astray'
      /\ u \in Good(payloads) => u \in Good(left) \/ u \in astray' \/ u <= t
  BY DEF Extraction
<1>4. came[u] = "good" <=> u \in Good(payloads) \/ u \in peeked
  BY <1>2, <1>3 DEF DueOK
<1>5. u # t /\ ~(u <= t)
  BY <1>1, <1>2
<1> QED BY <1>3, <1>4, <1>5

\* Frames are only lost, so what is right of a result stays right.
LEMMA ResultsStay ==
    ASSUME NEW results, NEW bases, NEW asked \in Nat, NEW came, NEW lost,
           ResultsOK(results, bases, asked, came, lost),
           \A i \in DOMAIN results : results[i].timestamp \in Nat,
           NEW kept, Times(kept) \subseteq Times(bases), NEW later \in Nat, later >= asked,
           NEW more, lost \subseteq more
    PROVE  ResultsOK(results, kept, later, came, more)
<1> SUFFICES ASSUME NEW i \in DOMAIN results, results[i].returnCode # "Flushed"
             PROVE  ResultOK(results[i], kept, later, came, more)
  BY DEF ResultsOK
<1>1. ResultOK(results[i], bases, asked, came, lost) /\ results[i].timestamp \in Nat
  BY DEF ResultsOK
<1> QED BY <1>1 DEF ResultOK

LEMMA ResultsAppend ==
    ASSUME NEW results \in Seq(Result), NEW r \in Result,
           NEW bases, NEW asked, NEW came, NEW lost,
           ResultsOK(results, bases, asked, came, lost), ResultOK(r, bases, asked, came, lost)
    PROVE  ResultsOK(Append(results, r), bases, asked, came, lost)
<1> DEFINE new == Append(results, r)
<1>1. /\ DOMAIN new = 1 .. Len(results) + 1 /\ Len(results) \in Nat /\ DOMAIN results = 1 .. Len(results)
      /\ \A i \in 1 .. Len(results) : new[i] = results[i]
      /\ new[Len(results) + 1] = r
  BY AppendIs
<1> HIDE DEF new
<1>2. \A i \in DOMAIN new : (i \in DOMAIN results /\ new[i] = results[i]) \/ new[i] = r
  BY <1>1
<1>3. ResultsOK(new, bases, asked, came, lost)
  BY <1>2 DEF ResultsOK
<1> QED BY <1>3 DEF new

\* Only a base that found its stream is enhanced.
LEMMA OwnResult ==
    ASSUME ModeOK, NEW base \in Base, NEW output \in OutputPicture, NEW available \in BOOLEAN,
           NEW timeout \in BOOLEAN, NEW ok \in BOOLEAN
    PROVE  doDecode(base, output, available, timeout, ok).residualsOf \in {None, parsed'}
           /\ (~available => doDecode(base, output, available, timeout, ok).residualsOf = None)
BY DEF doDecode, ModeOK, shouldFail, shouldPassthrough

LEMMA ResultTimes ==
    ASSUME LegacyAssumption, NEW results \in Seq(Result)
    PROVE  \A i \in DOMAIN results : results[i].timestamp \in Nat /\ results[i].timestamp \in Timestamp
<1>1. \A i \in DOMAIN results : results[i] \in Result
  OBVIOUS
<1>2. \A r \in Result : r.timestamp \in Nat /\ r.timestamp \in Timestamp
  BY PayloadTypes DEF Result
<1> QED BY <1>1, <1>2

LEMMA DecodeKeeps ==
    ASSUME LegacyAssumption, TypesOK, ModeOK,
           NEW bases \in Seq(Base), NEW outputs \in Seq(OutputPicture),
           NEW payloads \in Seq(Payload), NEW results \in Seq(Result), NEW told,
           NEW asked \in Nat, NEW came,
           QueuesInv(bases, payloads, processed, results, parsed, latestParse, inOrder, late', asked, came, astray),
           tryToQueueDecodes(bases, outputs, payloads, results, told)
    PROVE  QueuesInv(m_baseContainer', unprocessed', processed', m_resultsQueue', parsed', latestParse',
                     inOrder', late', asked, came, astray')
<1>1. CASE ~Ready(bases, outputs, results)
  BY <1>1 DEF tryToQueueDecodes
<1>2. CASE Ready(bases, outputs, results)
  <2> DEFINE base == Head(bases)
             b == base.timestamp
             e == Extract(payloads, processed, b, TRUE)
  <2>1. /\ m_baseContainer' = Tail(bases) /\ unprocessed' = e.left /\ processed' = e.known
        /\ Accumulated(e) /\ Strayed(payloads, e, b)
        /\ \E timeout, ok \in BOOLEAN :
              m_resultsQueue' = Append(results, doDecode(base, Head(outputs), e.found, timeout, ok))
    BY <1>2 DEF tryToQueueDecodes
  <2>2. /\ bases # <<>> /\ Head(outputs) \in OutputPicture /\ Head(bases) = base
    BY <1>2 DEF Ready
  <2>3. /\ base \in Base /\ b \in Times(bases) /\ b \in Timestamp /\ b \in Nat
        /\ \A t \in Times(bases) : t \in Nat /\ b <= t
        /\ Tail(bases) \in Seq(Base) /\ Ascends(Tail(bases))
        /\ Times(Tail(bases)) = {t \in Times(bases) : t > b}
    <3>1. Ascends(bases)
      BY DEF QueuesInv, BasesOK
    <3>2. base \in Base
      BY <2>2, TailIs
    <3> QED BY <3>1, <3>2, <2>2, TailKeeps, PayloadTypes
  <2> HIDE DEF b, base
  <2>b. b = base.timestamp
    BY DEF b
  <2>4. /\ QueueOK(payloads, latestParse, late') /\ BasesOK(bases, asked)
        /\ DueOK(bases, payloads, processed, asked, came, astray)
        /\ PeekedOK(processed, parsed, astray)
        /\ ResultsOK(results, bases, asked, came, astray) /\ inOrder = TRUE
    BY DEF QueuesInv
  <2>5. /\ e.left \in Seq(Payload) /\ e.known \subseteq Timestamp
        /\ e.streams \in Seq(Timestamp) /\ e.found \in BOOLEAN
    BY <2>3, ExtractTypes DEF TypesOK
  <2>6. Extraction(payloads, processed, b, TRUE, e.left, e.found, e.known)
    <3>1. processed \in SUBSET Timestamp /\ latestParse \in Nat
      BY DEF TypesOK
    <3>2. e = Extract(payloads, processed, b, TRUE)
      OBVIOUS
    <3> HIDE DEF e
    <3> QED BY <2>1, <2>3, <2>4, <3>1, <3>2, ExtractionIs
  <2> HIDE DEF e
  <2>7. PICK timeout \in BOOLEAN, ok \in BOOLEAN :
           m_resultsQueue' = Append(results, doDecode(base, Head(outputs), e.found, timeout, ok))
    BY <2>1
  <2> DEFINE r == doDecode(base, Head(outputs), e.found, timeout, ok)
  <2>8. /\ r \in Result /\ r.timestamp = b /\ r.hasEnhancement = e.found
        /\ r.residualsOf \in {None, parsed'} /\ (~e.found => r.residualsOf = None)
    <3>1. parsed' \in Timestamp \cup {None}
      BY <2>1, <2>5, AccumulatedTypes DEF TypesOK
    <3> QED BY <2>2, <2>3, <2>b, <2>5, <3>1, ResultType, OwnResult
  <2> HIDE DEF r
  <2>9. DueOK(Tail(bases), e.left, e.known, asked, came, astray')
    <3>1. b <= asked /\ asked >= asked
      BY <2>3, <2>4 DEF BasesOK
    <3>2. \A u \in Times(Tail(bases)) : u \in Times(bases) /\ u > b
      BY <2>3
    <3> QED BY <2>3, <2>4, <2>6, <3>1, <3>2, DueLeft
  <2>10. ResultOK(r, Tail(bases), asked, came, astray')
    <3>1. b <= asked /\ b \notin Times(Tail(bases))
      BY <2>3, <2>4 DEF BasesOK
    <3>2. ASSUME b \notin astray'
          PROVE  (e.found <=> came[b] = "good") /\ r.residualsOf \in {None, b}
      <4>1. /\ e.found <=> (b \in processed \/ b \in Good(payloads))
            /\ (e.found => parsed' = b) /\ b \notin astray
        BY <3>2, <2>6 DEF Extraction
      <4>2. came[b] = "good" <=> b \in Good(payloads) \/ b \in processed
        BY <2>3, <2>4, <4>1 DEF DueOK
      <4> QED BY <2>8, <4>1, <4>2
    <3> QED BY <2>8, <3>1, <3>2 DEF ResultOK
  <2>11. ResultsOK(results, Tail(bases), asked, came, astray')
    <3>1. /\ Times(Tail(bases)) \subseteq Times(bases) /\ astray \subseteq astray' /\ asked >= asked
          /\ \A i \in DOMAIN results : results[i].timestamp \in Nat
      BY <2>3, <2>6, ResultTimes DEF Extraction
    <3> QED BY <2>4, <3>1, ResultsStay
  <2>12. ResultsOK(m_resultsQueue', Tail(bases), asked, came, astray')
    <3>1. m_resultsQueue' = Append(results, r)
      BY <2>7 DEF r
    <3> QED BY <3>1, <2>8, <2>10, <2>11, ResultsAppend
  <2>13. BasesOK(Tail(bases), asked)
    BY <2>3, <2>4 DEF BasesOK
  <2>14. QueueOK(e.left, latestParse', late') /\ inOrder' = TRUE /\ PeekedOK(e.known, parsed', astray')
    BY <2>6 DEF Extraction
  <2> QED BY <2>1, <2>9, <2>12, <2>13, <2>14 DEF QueuesInv
<1> QED BY <1>1, <1>2

LEMMA OwnInit == ASSUME LegacyAssumption, LegacyInit PROVE OwnInv /\ ModeOK
BY DEF LegacyInit, LegacyAssumption, OwnInv, ModeOK, QueuesInv, QueueOK, BasesOK, DueOK, PeekedOK, ResultsOK,
       Ascends, Times, Good

LEMMA BaseKeeps ==
    ASSUME LegacyAssumption, TypesOK, ModeOK, OwnInv,
           NEW t \in Timestamp, NEW p \in BasePicture, sendBasePicture(t, p)
    PROVE  OwnInv'
<1> DEFINE base == [timestamp |-> t, picture |-> p]
           bases == Append(m_baseContainer, base)
<1>1. /\ tryToQueueDecodes(bases, m_pendingOutputContainer, unprocessed, m_resultsQueue, {})
      /\ horizon' = t /\ UNCHANGED <<sent, late>> /\ t > horizon
  BY DEF sendBasePicture
<1>2. base \in Base /\ base.timestamp = t /\ t \in Nat /\ horizon \in Nat
      /\ unprocessed \in Seq(Payload) /\ m_resultsQueue \in Seq(Result)
  BY DEF Base, LegacyAssumption, TypesOK
<1>3. /\ QueueOK(unprocessed, latestParse, late) /\ BasesOK(m_baseContainer, horizon)
      /\ DueOK(m_baseContainer, unprocessed, processed, horizon, sent, astray)
      /\ PeekedOK(processed, parsed, astray)
      /\ ResultsOK(m_resultsQueue, m_baseContainer, horizon, sent, astray) /\ inOrder = TRUE
  BY DEF OwnInv, QueuesInv
<1>4. m_baseContainer \in Seq(Base) /\ \A e \in Base : e.timestamp \in Nat
  BY PayloadTypes DEF TypesOK
<1>5. \A b \in Times(m_baseContainer) : b \in Nat /\ b < t
  <2>1. \A b \in Times(m_baseContainer) : b \in Nat /\ b <= horizon
    BY <1>3, <1>4 DEF BasesOK, Times
  <2> QED BY <2>1, <1>1, <1>2
<1>6. /\ bases \in Seq(Base) /\ Ascends(bases) /\ Times(bases) = Times(m_baseContainer) \cup {t}
  BY <1>2, <1>3, <1>4, <1>5, AppendKeeps DEF BasesOK
<1> HIDE DEF bases, base
<1>7. BasesOK(bases, t)
  BY <1>2, <1>5, <1>6 DEF BasesOK
<1>8. DueOK(bases, unprocessed, processed, t, sent, astray)
  <2>1. \A u \in Timestamp : u > t \/ u = t => u > horizon
    BY <1>1, <1>2, PayloadTypes
  <2> QED BY <2>1, <1>3, <1>6 DEF DueOK
<1>9. ResultsOK(m_resultsQueue, bases, t, sent, astray)
  <2> SUFFICES ASSUME NEW i \in DOMAIN m_resultsQueue, m_resultsQueue[i].returnCode # "Flushed"
               PROVE  ResultOK(m_resultsQueue[i], bases, t, sent, astray)
    BY DEF ResultsOK
  <2>1. ResultOK(m_resultsQueue[i], m_baseContainer, horizon, sent, astray)
    BY <1>3 DEF ResultsOK
  <2>2. m_resultsQueue[i].timestamp \in Nat
    BY <1>2, ResultTimes
  <2>3. m_resultsQueue[i].timestamp < t
    BY <1>1, <1>2, <2>1, <2>2 DEF ResultOK
  <2> QED BY <1>2, <1>6, <2>1, <2>2, <2>3 DEF ResultOK
<1>10. QueuesInv(bases, unprocessed, processed, m_resultsQueue, parsed, latestParse, inOrder, late', t, sent, astray)
  BY <1>1, <1>3, <1>7, <1>8, <1>9 DEF QueuesInv
<1>11. QueuesInv(m_baseContainer', unprocessed', processed', m_resultsQueue', parsed', latestParse',
                 inOrder', late', t, sent, astray')
  BY <1>1, <1>2, <1>6, <1>10, DecodeKeeps DEF TypesOK
<1> QED BY <1>1, <1>11 DEF OwnInv

LEMMA PayloadKeeps ==
    ASSUME LegacyAssumption, TypesOK, ModeOK, OwnInv,
           NEW t \in Timestamp, NEW d \in {"good", "bad"}, sendEnhancementData(t, d)
    PROVE  OwnInv'
<1> DEFINE entry == [timestamp |-> t, data |-> d]
           payloads == stampedBufferListInsert(unprocessed, entry)
<1>1. /\ tryToQueueDecodes(m_baseContainer, m_pendingOutputContainer, payloads, m_resultsQueue, {})
      /\ UNCHANGED horizon /\ ~stampedBufferQuery(unprocessed, t)
      /\ late' = (IF t <= latestParse THEN late \cup {t} ELSE late)
      /\ sent' = IF StillToDecode(t) /\ t \notin processed THEN [sent EXCEPT ![t] = d] ELSE sent
  BY DEF sendEnhancementData, InsertRefused
<1>2. /\ entry \in Payload /\ entry.timestamp = t /\ entry.data = d /\ t \in Nat /\ horizon \in Nat
      /\ latestParse \in Nat /\ unprocessed \in Seq(Payload) /\ m_resultsQueue \in Seq(Result)
      /\ entry = [timestamp |-> t, data |-> d] /\ sent \in [Timestamp -> {"nothing", "good", "bad"}]
  BY DEF Payload, LegacyAssumption, TypesOK
<1>3. /\ QueueOK(unprocessed, latestParse, late) /\ BasesOK(m_baseContainer, horizon)
      /\ DueOK(m_baseContainer, unprocessed, processed, horizon, sent, astray)
      /\ PeekedOK(processed, parsed, astray)
      /\ ResultsOK(m_resultsQueue, m_baseContainer, horizon, sent, astray) /\ inOrder = TRUE
  BY DEF OwnInv, QueuesInv
<1>4. /\ payloads \in Seq(Payload) /\ Ascends(payloads)
      /\ Times(payloads) = Times(unprocessed) \cup {t}
      /\ \A i \in DOMAIN payloads : payloads[i] = entry \/ \E j \in DOMAIN unprocessed : payloads[i] = unprocessed[j]
      /\ \A j \in DOMAIN unprocessed : \E i \in DOMAIN payloads : payloads[i] = unprocessed[j]
      /\ \E i \in DOMAIN payloads : payloads[i] = entry
  BY <1>1, <1>2, <1>3, InsertKeeps DEF QueueOK
<1>5. StillToDecode(t) <=> t > horizon \/ t \in Times(m_baseContainer)
  BY DEF StillToDecode, Times
<1>6. /\ \A u \in Timestamp : u # t => sent'[u] = sent[u]
      /\ StillToDecode(t) /\ t \notin processed => sent'[t] = d
      /\ ~(StillToDecode(t) /\ t \notin processed) => sent' = sent
  BY <1>1, <1>2
<1> HIDE DEF payloads, entry
<1>7. QueueOK(payloads, latestParse, late')
  <2> SUFFICES ASSUME NEW i \in DOMAIN payloads
               PROVE  payloads[i].timestamp \in late' \/ payloads[i].timestamp > latestParse
    BY <1>4 DEF QueueOK
  <2>1. CASE payloads[i] = entry
    BY <2>1, <1>1, <1>2
  <2>2. ASSUME NEW j \in DOMAIN unprocessed, payloads[i] = unprocessed[j]
        PROVE  payloads[i].timestamp \in late' \/ payloads[i].timestamp > latestParse
    BY <2>2, <1>1, <1>3 DEF QueueOK
  <2> QED BY <2>1, <2>2, <1>4
<1>8. /\ \A u \in Timestamp : u # t => (u \in Good(payloads) <=> u \in Good(unprocessed))
      /\ t \in Good(payloads) <=> d = "good"
  <2>1. \A j \in DOMAIN unprocessed : unprocessed[j].timestamp # t
    BY <1>1 DEF stampedBufferQuery
  <2>2. ASSUME NEW u \in Timestamp, u # t, u \in Good(payloads) PROVE u \in Good(unprocessed)
    <3>1. PICK i \in DOMAIN payloads : payloads[i] = [timestamp |-> u, data |-> "good"]
      BY <2>2 DEF Good
    <3>2. payloads[i] # entry
      BY <2>2, <3>1, <1>2
    <3> QED BY <3>1, <3>2, <1>4 DEF Good
  <2>3. ASSUME NEW u \in Timestamp, u \in Good(unprocessed) PROVE u \in Good(payloads)
    <3>1. PICK j \in DOMAIN unprocessed : unprocessed[j] = [timestamp |-> u, data |-> "good"]
      BY <2>3 DEF Good
    <3> QED BY <3>1, <1>4 DEF Good
  <2>4. ASSUME t \in Good(payloads) PROVE d = "good"
    <3>1. PICK i \in DOMAIN payloads : payloads[i] = [timestamp |-> t, data |-> "good"]
      BY <2>4 DEF Good
    <3>2. payloads[i].timestamp = t /\ payloads[i].data = "good"
      BY <3>1
    <3> QED BY <3>2, <2>1, <1>2, <1>4
  <2>5. ASSUME d = "good" PROVE t \in Good(payloads)
    BY <2>5, <1>2, <1>4 DEF Good
  <2> QED BY <2>2, <2>3, <2>4, <2>5
<1>9. DueOK(m_baseContainer, payloads, processed, horizon, sent', astray)
  <2> SUFFICES ASSUME NEW u \in Timestamp, u > horizon \/ u \in Times(m_baseContainer), u \notin astray
               PROVE  sent'[u] = "good" <=> u \in Good(payloads) \/ u \in processed
    BY DEF DueOK
  <2>1. sent[u] = "good" <=> u \in Good(unprocessed) \/ u \in processed
    BY <1>3 DEF DueOK
  <2>2. CASE u # t
    BY <2>1, <2>2, <1>6, <1>8
  <2>3. CASE u = t /\ t \in processed
    BY <2>1, <2>3, <1>6
  <2>4. CASE u = t /\ t \notin processed
    BY <2>4, <1>5, <1>6, <1>8
  <2> QED BY <2>2, <2>3, <2>4
<1>10. ResultsOK(m_resultsQueue, m_baseContainer, horizon, sent', astray)
  <2> SUFFICES ASSUME NEW i \in DOMAIN m_resultsQueue, m_resultsQueue[i].returnCode # "Flushed"
               PROVE  ResultOK(m_resultsQueue[i], m_baseContainer, horizon, sent', astray)
    BY DEF ResultsOK
  <2>1. ResultOK(m_resultsQueue[i], m_baseContainer, horizon, sent, astray)
    BY <1>3 DEF ResultsOK
  <2>2. m_resultsQueue[i].timestamp \in Nat /\ m_resultsQueue[i].timestamp \in Timestamp
    BY <1>2, ResultTimes
  <2>3. m_resultsQueue[i].timestamp = t => ~StillToDecode(t)
    BY <1>2, <1>5, <2>1, <2>2 DEF ResultOK
  <2>4. sent'[m_resultsQueue[i].timestamp] = sent[m_resultsQueue[i].timestamp]
    BY <1>6, <2>2, <2>3
  <2> QED BY <2>1, <2>4 DEF ResultOK
<1>11. QueuesInv(m_baseContainer, payloads, processed, m_resultsQueue, parsed, latestParse, inOrder,
                 late', horizon, sent', astray)
  BY <1>3, <1>7, <1>9, <1>10 DEF QueuesInv
<1>12. \E came : came = sent'
  OBVIOUS
<1>13. PICK came : came = sent'
  BY <1>12
<1>14. QueuesInv(m_baseContainer', unprocessed', processed', m_resultsQueue', parsed', latestParse',
                 inOrder', late', horizon, came, astray')
  <2>1. QueuesInv(m_baseContainer, payloads, processed, m_resultsQueue, parsed, latestParse, inOrder,
                  late', horizon, came, astray)
    BY <1>11, <1>13
  <2> QED BY <1>1, <1>2, <1>4, <2>1, DecodeKeeps DEF TypesOK
<1> QED BY <1>1, <1>13, <1>14 DEF OwnInv

LEMMA OutputKeeps ==
    ASSUME LegacyAssumption, TypesOK, ModeOK, OwnInv, NEW p \in OutputPicture, sendOutputPicture(p)
    PROVE  OwnInv'
<1>1. /\ tryToQueueDecodes(m_baseContainer, Append(m_pendingOutputContainer, p), unprocessed, m_resultsQueue, {})
      /\ UNCHANGED <<late, horizon, sent>>
  BY DEF sendOutputPicture, history
<1>2. Append(m_pendingOutputContainer, p) \in Seq(OutputPicture)
  BY DEF TypesOK
<1>3. QueuesInv(m_baseContainer, unprocessed, processed, m_resultsQueue, parsed, latestParse, inOrder,
                late', horizon, sent, astray)
  BY <1>1 DEF OwnInv
<1>4. QueuesInv(m_baseContainer', unprocessed', processed', m_resultsQueue', parsed', latestParse',
                inOrder', late', horizon, sent, astray')
  BY <1>1, <1>2, <1>3, DecodeKeeps DEF TypesOK
<1> QED BY <1>1, <1>4 DEF OwnInv

LEMMA ReceiveKeeps ==
    ASSUME LegacyAssumption, TypesOK, ModeOK, OwnInv, receiveOutputPicture
    PROVE  OwnInv'
<1> DEFINE results == Tail(m_resultsQueue)
<1>1. /\ tryToQueueDecodes(m_baseContainer, m_pendingOutputContainer, unprocessed, results, {"OutputPictureDone"})
      /\ UNCHANGED <<late, horizon, sent>> /\ m_resultsQueue # <<>>
  BY DEF receiveOutputPicture, history
<1>2. /\ results \in Seq(Result) /\ DOMAIN results = 1 .. Len(results) /\ Len(results) \in Nat
      /\ \A i \in DOMAIN results : i + 1 \in DOMAIN m_resultsQueue /\ results[i] = m_resultsQueue[i + 1]
  BY <1>1 DEF TypesOK
<1> HIDE DEF results
<1>3. ResultsOK(results, m_baseContainer, horizon, sent, astray)
  BY <1>2 DEF OwnInv, QueuesInv, ResultsOK
<1>4. QueuesInv(m_baseContainer, unprocessed, processed, results, parsed, latestParse, inOrder,
                late', horizon, sent, astray)
  BY <1>1, <1>3 DEF OwnInv, QueuesInv
<1>5. QueuesInv(m_baseContainer', unprocessed', processed', m_resultsQueue', parsed', latestParse',
                inOrder', late', horizon, sent, astray')
  BY <1>1, <1>2, <1>4, DecodeKeeps DEF TypesOK
<1> QED BY <1>1, <1>5 DEF OwnInv

\* A flush forgets all but what a peek has parsed: those frames are astray.
LEMMA FlushKeeps == ASSUME LegacyAssumption, TypesOK, OwnInv, flush PROVE OwnInv'
<1>1. /\ m_baseContainer' = <<>> /\ unprocessed' = <<>> /\ processed' = processed
      /\ m_resultsQueue' = [i \in DOMAIN m_resultsQueue |->
                              [m_resultsQueue[i] EXCEPT !.returnCode = "Flushed"]]
      /\ latestParse' = 0 /\ horizon' = 0 /\ sent' = [t \in Timestamp |-> "nothing"]
      /\ inOrder' = inOrder /\ astray' = processed
  BY DEF flush
<1>2. \A i \in DOMAIN m_resultsQueue' : m_resultsQueue'[i].returnCode = "Flushed"
  <2>1. \A i \in DOMAIN m_resultsQueue : m_resultsQueue[i] \in Result
    BY DEF TypesOK
  <2>2. \A r \in Result : [r EXCEPT !.returnCode = "Flushed"].returnCode = "Flushed"
    BY DEF Result
  <2> QED BY <1>1, <2>1, <2>2
<1>3. ResultsOK(m_resultsQueue', m_baseContainer', horizon', sent', astray')
  BY <1>2 DEF ResultsOK
<1>4. QueueOK(unprocessed', latestParse', late') /\ BasesOK(m_baseContainer', horizon')
  BY <1>1 DEF QueueOK, BasesOK, Ascends, Times
<1>5. DueOK(m_baseContainer', unprocessed', processed', horizon', sent', astray')
  BY <1>1 DEF DueOK, Good
<1>6. PeekedOK(processed', parsed', astray') /\ inOrder' = TRUE
  BY <1>1 DEF PeekedOK, OwnInv, QueuesInv
<1> QED BY <1>3, <1>4, <1>5, <1>6 DEF OwnInv, QueuesInv

LEMMA PeekKeeps ==
    ASSUME LegacyAssumption, TypesOK, OwnInv, NEW t \in Timestamp, peek(t)
    PROVE  OwnInv'
<1> DEFINE e == Extract(unprocessed, processed, t, FALSE)
<1>1. /\ unprocessed' = e.left /\ processed' = e.known /\ Accumulated(e) /\ Strayed(unprocessed, e, t)
      /\ UNCHANGED <<m_baseContainer, m_resultsQueue, late, horizon, sent>>
  BY DEF peek, history
<1>2. /\ QueueOK(unprocessed, latestParse, late') /\ BasesOK(m_baseContainer, horizon)
      /\ DueOK(m_baseContainer, unprocessed, processed, horizon, sent, astray)
      /\ PeekedOK(processed, parsed, astray)
      /\ ResultsOK(m_resultsQueue, m_baseContainer, horizon, sent, astray) /\ inOrder = TRUE
  BY <1>1 DEF OwnInv, QueuesInv
<1>3. /\ unprocessed \in Seq(Payload) /\ processed \in SUBSET Timestamp /\ latestParse \in Nat
      /\ horizon \in Nat /\ m_resultsQueue \in Seq(Result)
      /\ e = Extract(unprocessed, processed, t, FALSE)
  BY DEF TypesOK
<1> HIDE DEF e
<1>4. Extraction(unprocessed, processed, t, FALSE, e.left, e.found, e.known)
  BY <1>1, <1>2, <1>3, ExtractionIs
<1>5. DueOK(m_baseContainer, e.left, e.known, horizon, sent, astray')
  <2>1. /\ Good(e.left) \subseteq Good(unprocessed) /\ e.known \subseteq processed \cup Good(unprocessed)
        /\ processed \subseteq e.known /\ astray \subseteq astray'
        /\ \A u \in Good(unprocessed) : u \in Good(e.left) \/ u \in astray' \/ u \in e.known
    BY <1>4 DEF Extraction
  <2> QED BY <2>1, <1>2 DEF DueOK
<1>6. ResultsOK(m_resultsQueue, m_baseContainer, horizon, sent, astray')
  <2>1. /\ astray \subseteq astray' /\ horizon >= horizon
        /\ \A i \in DOMAIN m_resultsQueue : m_resultsQueue[i].timestamp \in Nat
    BY <1>3, <1>4, ResultTimes DEF Extraction
  <2> QED BY <1>2, <1>3, <2>1, ResultsStay
<1>7. QueueOK(e.left, latestParse', late') /\ inOrder' = TRUE /\ PeekedOK(e.known, parsed', astray')
  BY <1>4 DEF Extraction
<1> QED BY <1>1, <1>2, <1>5, <1>6, <1>7 DEF OwnInv, QueuesInv

LEMMA SkipKeeps ==
    ASSUME LegacyAssumption, TypesOK, OwnInv, NEW t \in Timestamp, skip(t)
    PROVE  OwnInv'
<1> DEFINE later == {i \in DOMAIN m_baseContainer : m_baseContainer[i].timestamp > t}
           waits == FirstOf(later, Len(m_baseContainer) + 1)
           kept == SubSeq(m_baseContainer, waits, Len(m_baseContainer))
           e == Extract(unprocessed, processed, t, TRUE)
           asked == IF t > horizon THEN t ELSE horizon
<1>1. /\ m_baseContainer' = kept /\ unprocessed' = e.left /\ processed' = e.known /\ Accumulated(e)
      /\ Strayed(unprocessed, e, t)
      /\ m_resultsQueue' = [i \in DOMAIN m_resultsQueue |->
                              IF m_resultsQueue[i].timestamp <= t
                              THEN [m_resultsQueue[i] EXCEPT !.skipped = TRUE] ELSE m_resultsQueue[i]]
      /\ horizon' = asked /\ UNCHANGED <<late, sent>>
  BY DEF skip
<1>2. /\ t \in Nat /\ horizon \in Nat /\ latestParse \in Nat /\ unprocessed \in Seq(Payload)
      /\ asked \in Nat /\ asked >= horizon /\ asked >= t
      /\ processed \in SUBSET Timestamp /\ m_resultsQueue \in Seq(Result)
      /\ e = Extract(unprocessed, processed, t, TRUE)
  BY DEF LegacyAssumption, TypesOK
<1>3. /\ QueueOK(unprocessed, latestParse, late') /\ BasesOK(m_baseContainer, horizon)
      /\ DueOK(m_baseContainer, unprocessed, processed, horizon, sent, astray)
      /\ PeekedOK(processed, parsed, astray)
      /\ ResultsOK(m_resultsQueue, m_baseContainer, horizon, sent, astray) /\ inOrder = TRUE
  BY <1>1 DEF OwnInv, QueuesInv
<1>b. m_baseContainer \in Seq(Base) /\ \A x \in Base : x.timestamp \in Nat
  BY PayloadTypes DEF TypesOK
<1> HIDE DEF asked, e
<1>4. Extraction(unprocessed, processed, t, TRUE, e.left, e.found, e.known)
  BY <1>1, <1>2, <1>3, ExtractionIs
<1>5. /\ Ascends(kept) /\ Times(kept) = {b \in Times(m_baseContainer) : b > t}
  <2>1. /\ waits \in 1 .. Len(m_baseContainer) + 1
        /\ waits \in later \/ waits = Len(m_baseContainer) + 1
        /\ \A i \in 1 .. waits - 1 : i \in DOMAIN m_baseContainer /\ ~(m_baseContainer[i].timestamp > t)
    BY <1>b, SkipWaits
  <2>2. /\ DOMAIN m_baseContainer = 1 .. Len(m_baseContainer) /\ Len(m_baseContainer) \in Nat
        /\ \A i \in DOMAIN m_baseContainer : m_baseContainer[i].timestamp \in Nat
        /\ Ascends(m_baseContainer)
    BY <1>b, <1>3 DEF BasesOK
  <2> DEFINE n == waits - 1
  <2>3. later = {i \in DOMAIN m_baseContainer : m_baseContainer[i].timestamp > t}
    OBVIOUS
  <2> HIDE DEF later
  <2> HIDE DEF waits
  <2>4. /\ n \in 0 .. Len(m_baseContainer) /\ waits = n + 1
        /\ \A i \in 1 .. n : m_baseContainer[i].timestamp <= t
    BY <2>1, <2>2, <1>2
  <2>5. \A i \in n + 1 .. Len(m_baseContainer) : m_baseContainer[i].timestamp > t
    <3> SUFFICES ASSUME NEW i \in n + 1 .. Len(m_baseContainer) PROVE m_baseContainer[i].timestamp > t
      OBVIOUS
    <3>1. i \in DOMAIN m_baseContainer /\ waits <= i /\ waits \in DOMAIN m_baseContainer
      BY <2>1, <2>2, <2>4
    <3>2. m_baseContainer[waits].timestamp > t
      BY <3>1, <2>1, <2>2, <2>3
    <3> QED BY <3>1, <3>2, <2>2, <1>2 DEF Ascends
  <2> HIDE DEF n
  <2>6. LET d == SubSeq(m_baseContainer, n + 1, Len(m_baseContainer))
        IN  Ascends(d) /\ Times(d) = {b \in Times(m_baseContainer) : b > t}
    BY ZenonT(60), <1>2, <1>b, <2>2, <2>4, <2>5, DropKeeps
  <2> QED BY <2>4, <2>6
<1> HIDE DEF kept
<1>6. \A b \in Times(m_baseContainer) : b \in Nat
  BY <1>b DEF Times
<1>7. BasesOK(kept, asked)
  BY <1>2, <1>3, <1>5, <1>6 DEF BasesOK
<1>8. DueOK(kept, e.left, e.known, asked, sent, astray')
  BY <1>2, <1>3, <1>4, <1>5, DueLeft
<1>9. ResultsOK(m_resultsQueue, kept, asked, sent, astray')
  <2>1. /\ astray \subseteq astray' /\ Times(kept) \subseteq Times(m_baseContainer)
        /\ \A i \in DOMAIN m_resultsQueue : m_resultsQueue[i].timestamp \in Nat
    BY <1>2, <1>4, <1>5, ResultTimes DEF Extraction
  <2> QED BY <1>2, <1>3, <2>1, ResultsStay
<1>10. ResultsOK(m_resultsQueue', kept, asked, sent, astray')
  <2>1. \A i \in DOMAIN m_resultsQueue : m_resultsQueue[i] \in Result
    BY <1>2
  <2>2. \A r \in Result : LET x == [r EXCEPT !.skipped = TRUE]
                          IN  /\ x.returnCode = r.returnCode /\ x.timestamp = r.timestamp
                              /\ x.hasEnhancement = r.hasEnhancement /\ x.residualsOf = r.residualsOf
    BY DEF Result
  <2>3. /\ DOMAIN m_resultsQueue' = DOMAIN m_resultsQueue
        /\ \A i \in DOMAIN m_resultsQueue :
              /\ m_resultsQueue'[i].returnCode = m_resultsQueue[i].returnCode
              /\ m_resultsQueue'[i].timestamp = m_resultsQueue[i].timestamp
              /\ m_resultsQueue'[i].hasEnhancement = m_resultsQueue[i].hasEnhancement
              /\ m_resultsQueue'[i].residualsOf = m_resultsQueue[i].residualsOf
    BY <1>1, <2>1, <2>2
  <2> QED BY <2>3, <1>9 DEF ResultsOK, ResultOK
<1>11. QueueOK(e.left, latestParse', late') /\ inOrder' = TRUE /\ PeekedOK(e.known, parsed', astray')
  BY <1>4 DEF Extraction
<1> QED BY <1>1, <1>7, <1>8, <1>10, <1>11 DEF OwnInv, QueuesInv

LEMMA ModeKeeps == ASSUME ModeOK, [LegacyNext]_legacyVars PROVE ModeOK'
BY DEF ModeOK, LegacyNext, legacyVars, sendBasePicture, sendEnhancementData, sendOutputPicture,
       receiveOutputPicture, receiveFinishedBasePicture, flush, peek, skip

(* The invariant, for every client: the bases and payloads that wait are in *)
(* order, and what came for a frame that is still to decode waits or was    *)
(* parsed by a peek, and then is the stream that the core decoder holds,    *)
(* unless a call has led the frame astray.                                  *)
THEOREM OwnInvariant == ASSUME LegacyAssumption PROVE LegacySpec => [](TypesOK /\ OwnInv)
<1>1. LegacyInit => TypesOK /\ DecodesDrained /\ OwnInv /\ ModeOK
  BY InitTypes, OwnInit
<1>2. TypesOK /\ ModeOK /\ OwnInv /\ [LegacyNext]_legacyVars => OwnInv' /\ ModeOK'
  <2> SUFFICES ASSUME TypesOK, ModeOK, OwnInv, [LegacyNext]_legacyVars PROVE OwnInv' /\ ModeOK'
    OBVIOUS
  <2>1. ASSUME receiveFinishedBasePicture PROVE OwnInv'
    BY <2>1 DEF receiveFinishedBasePicture, inputs, history, OwnInv
  <2>2. ASSUME UNCHANGED legacyVars PROVE OwnInv'
    BY <2>2 DEF legacyVars, OwnInv
  <2> QED BY <2>1, <2>2, BaseKeeps, PayloadKeeps, OutputKeeps, ReceiveKeeps, FlushKeeps, PeekKeeps, SkipKeeps,
             ModeKeeps DEF LegacyNext
<1>3. LegacySpec => [](TypesOK /\ DecodesDrained)
  BY DecodesAlwaysDrained
<1> QED BY <1>1, <1>2, <1>3, PTL DEF LegacySpec

(* EnhancedByOwn: whatever the client sends, skips, peeks at and flushes,   *)
(* a frame is decoded with the enhancement just when its payload came and   *)
(* could be parsed, and the residuals applied are its own, although the     *)
(* core decoder holds one stream and is told of it by whichever call parses *)
(* next; the frames that a call about another leads astray are all the      *)
(* exceptions there are.                                                    *)
THEOREM AlwaysEnhancedByOwn == ASSUME LegacyAssumption PROVE LegacySpec => []EnhancedByOwn
<1>1. TypesOK /\ OwnInv => EnhancedByOwn
  BY DEF OwnInv, QueuesInv, ResultsOK, ResultOK, EnhancedByOwn
<1> QED BY <1>1, OwnInvariant, PTL

(* ParsedInOrder: payloads are parsed once each and in the order of their   *)
(* timestamps, whatever the order they came in and whichever of a decode, a *)
(* skip and a peek asks first; only the ones that come when a later one has *)
(* been parsed are out of order.                                            *)
THEOREM AlwaysParsedInOrder == ASSUME LegacyAssumption PROVE LegacySpec => []ParsedInOrder
<1>1. TypesOK /\ OwnInv => ParsedInOrder
  BY DEF OwnInv, QueuesInv, ParsedInOrder
<1> QED BY <1>1, OwnInvariant, PTL
=============================================================================
