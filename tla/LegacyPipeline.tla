--------------------------- MODULE LegacyPipeline ---------------------------
(***************************************************************************)
(* The legacy pipeline (pipeline_legacy/src/decoder.cpp) with its LCEVC    *)
(* processor (lcevc_processor.cpp).  It has no threads: every call decodes *)
(* what can be decoded before it returns, and the core decoder, which has  *)
(* one current stream, is told of each payload by a parse.                 *)
(*                                                                         *)
(* Payloads come in any order, before their bases, after them or never,    *)
(* and clients peek, skip and flush as they like; bases come in the order  *)
(* of their timestamps, after what was skipped.                            *)
(***************************************************************************)
EXTENDS Integers, Sequences

CONSTANTS Timestamp,            \* timestamps of the stream
          BasePicture, OutputPicture,
          loqUnprocessedCap,    \* capacity of each queue of inputs
          resultsQueueCap,
          MaxPayloads,          \* bound on the payloads of a behaviour
          Policy,               \* passthrough modes to start with
          None

LegacyAssumption ==
  /\ Timestamp \subseteq Nat \ {0}
  /\ loqUnprocessedCap \in Nat \ {0} /\ resultsQueueCap \in Nat \ {0}
  /\ Policy \subseteq {"Disable", "Allow", "Force"}

VARIABLES m_baseContainer,         \* bases that wait, in the order they came
          m_pendingOutputContainer,
          unprocessed,             \* list of payloads that are not parsed
          processed,               \* timestamps parsed by peek()
          m_resultsQueue,
          m_finishedBaseContainer,
          m_passthroughMode,
          parsed,                  \* timestamp of the stream the core decoder holds
          events,                  \* generated by the last call
          latestParse,             \* history: latest payload parsed since a flush
          inOrder,                 \* history: payloads were parsed in order, but for
          late,                    \* history: those that came after a later one was parsed
          horizon,                 \* history: latest frame that got its base or was skipped
          sent,                    \* history: what came for frames that were still to decode
          arrived,                 \* history: how many payloads came
          astray                   \* history: frames that cannot have their own enhancement

legacyVars == <<m_baseContainer, m_pendingOutputContainer, unprocessed, processed, m_resultsQueue,
          m_finishedBaseContainer, m_passthroughMode, parsed, events, latestParse, inOrder,
          late, horizon, sent, arrived, astray>>

inputs == <<m_baseContainer, m_pendingOutputContainer, unprocessed>>
history == <<late, horizon, sent, arrived>>

LegacyInit ==
  /\ m_baseContainer = <<>> /\ m_pendingOutputContainer = <<>> /\ unprocessed = <<>>
  /\ processed = {} /\ m_resultsQueue = <<>> /\ m_finishedBaseContainer = <<>>
  /\ m_passthroughMode \in Policy
  /\ parsed = None
  /\ events = {"CanSendEnhancement", "CanSendBase", "CanSendPicture"}
  /\ latestParse = 0 /\ inOrder = TRUE /\ horizon = 0
  /\ sent = [t \in Timestamp |-> "nothing"] /\ late = {} /\ arrived = 0 /\ astray = {}

-----------------------------------------------------------------------------
(* The list of stamped buffers of the legacy sequencer                     *)
(* (legacy/sequencer/src/lcevc_container.c): enhancement data sorted by    *)
(* timestamp, at most one buffer for each.                                 *)

stampedBufferQuery(list, timestamp) == \E i \in DOMAIN list : list[i].timestamp = timestamp

\* The list is full, or has a buffer of this timestamp: the new one is refused.
InsertRefused(list, capacity, timestamp) ==
  Len(list) >= capacity \/ stampedBufferQuery(list, timestamp)

InsertFirst(list, entry) == <<entry>> \o list

\* The first of some places in a list, if there are any.
FirstOf(places, otherwise) ==
  IF places = {} THEN otherwise ELSE CHOOSE i \in places : \A j \in places : i <= j

\* Before the first buffer that is later.
stampedBufferListInsert(list, entry) ==
  LET at == FirstOf({i \in DOMAIN list : list[i].timestamp > entry.timestamp}, Len(list) + 1)
  IN  [i \in 1 .. Len(list) + 1 |-> IF i < at THEN list[i] ELSE IF i = at THEN entry ELSE list[i - 1]]

-----------------------------------------------------------------------------
IsFull(queue) == Len(queue) >= loqUnprocessedCap

\* The event for room in a queue that had none.
RoomUnlessEmptied(before, after, event) ==
  IF IsFull(before) /\ ~IsFull(after) /\ after # <<>> THEN {event} ELSE {}

Room(before, after, event) == IF IsFull(before) /\ ~IsFull(after) THEN {event} ELSE {}

-----------------------------------------------------------------------------
(* The LCEVC processor.                                                    *)

\* processUpToTimestampLoop(): buffers are taken from the front until one is not earlier
\* than the timestamp, or has nothing that can be parsed.
EndsPast(entry, timestamp) == entry.timestamp > timestamp \/ entry.data # "good"
EndsAt(entry, timestamp) == entry.timestamp >= timestamp \/ entry.data # "good"

processUpToTimestampLoop(list, timestamp) ==
  LET taken  == FirstOf({i \in DOMAIN list : EndsAt(list[i], timestamp)}, Len(list))
      failed == taken > 0 /\ list[taken].data # "good"
  IN [left    |-> SubSeq(list, taken + 1, Len(list)),
      streams |-> [i \in 1 .. (IF failed THEN taken - 1 ELSE taken) |-> list[i].timestamp],
      failed  |-> failed,
      found   |-> taken > 0 /\ list[taken] = [timestamp |-> timestamp, data |-> "good"]]

\* extractProcessedLcevcData(), with what a peek left looked at first.
Extract(list, known, timestamp, discard) ==
  IF timestamp \in known
  THEN [left |-> list, streams |-> <<>>, failed |-> FALSE, found |-> TRUE,
        known |-> IF discard THEN known \ {timestamp} ELSE known]
  ELSE LET loop == processUpToTimestampLoop(list, timestamp)
           early == {i \in DOMAIN loop.streams : loop.streams[i] <= timestamp}
       IN [left |-> loop.left, streams |-> loop.streams, failed |-> loop.failed, found |-> loop.found,
           known |-> IF discard THEN known ELSE known \cup {loop.streams[i] : i \in early}]

\* What the parses of an extraction leave in the core decoder.
Latest(streams) ==
  IF streams = <<>> \/ streams[Len(streams)] < latestParse THEN latestParse ELSE streams[Len(streams)]
Accumulated(extraction) ==
  LET streams == extraction.streams
  IN  /\ parsed' = IF extraction.failed THEN None
                   ELSE IF streams = <<>> THEN parsed ELSE streams[Len(streams)]
      /\ latestParse' = Latest(streams)
      /\ inOrder' = (inOrder /\ \A i \in DOMAIN streams :
                                   \/ streams[i] \in late'
                                   \/ /\ streams[i] > latestParse
                                      /\ \A j \in 1 .. i - 1 : streams[i] > streams[j])

\* A call about a frame takes the payload of a later one, or stops at an earlier one that
\* cannot be parsed; or a peek has parsed the payload and another has been parsed since.
Strayed(list, extraction, timestamp) ==
  LET taken == {list[i].timestamp : i \in 1 .. Len(list) - Len(extraction.left)}
  IN  astray' = astray \cup {t \in taken : t > timestamp}
                       \cup (IF extraction.failed /\ timestamp \notin taken THEN {timestamp} ELSE {})
                       \cup (extraction.known \ {parsed'})

-----------------------------------------------------------------------------
(* Decoding.                                                               *)

\* shouldPassthroughOrFail().
shouldFail(timeout, available) == m_passthroughMode = "Disable" /\ (timeout \/ ~available)
shouldPassthrough(timeout, available) ==
  \/ m_passthroughMode = "Force"
  \/ m_passthroughMode = "Allow" /\ (timeout \/ ~available)

\* doDecode(): the result of a base that has or has not its stream, late or not; setting up
\* or writing the output can fail as well.  Only enhancing looks at the core decoder.
doDecode(base, output, available, timeout, ok) ==
  LET enhanced == ~shouldFail(timeout, available) /\ ~shouldPassthrough(timeout, available)
  IN [picture |-> output, timestamp |-> base.timestamp, skipped |-> FALSE,
      returnCode |-> IF shouldFail(timeout, available)
                     THEN IF timeout THEN "Timeout" ELSE "Error"
                     ELSE IF ok THEN "Success" ELSE "Error",
      hasEnhancement |-> available, late |-> timeout,
      residualsOf |-> IF enhanced THEN parsed' ELSE None]

\* getNextDecodeData() finds a base, a picture to decode to and room for the result.
Ready(bases, outputs, results) ==
  Len(results) < resultsQueueCap /\ bases # <<>> /\ outputs # <<>>

\* tryToQueueDecodes(), from what the call has made of the queues.  Every call lets at most
\* one more base be decoded: DecodesDrained.
tryToQueueDecodes(bases, outputs, payloads, results, told) ==
  IF ~Ready(bases, outputs, results)
  THEN /\ m_baseContainer' = bases /\ m_pendingOutputContainer' = outputs
       /\ unprocessed' = payloads /\ m_resultsQueue' = results /\ events' = told
       /\ UNCHANGED <<processed, m_finishedBaseContainer, parsed, latestParse, inOrder, astray>>
  ELSE LET base == Head(bases)
           extraction == Extract(payloads, processed, base.timestamp, TRUE)
       IN /\ m_baseContainer' = Tail(bases) /\ m_pendingOutputContainer' = Tail(outputs)
          /\ unprocessed' = extraction.left /\ processed' = extraction.known
          /\ Accumulated(extraction) /\ Strayed(payloads, extraction, base.timestamp)
          /\ \E timeout, ok \in BOOLEAN :
                m_resultsQueue' =
                  Append(results, doDecode(base, Head(outputs), extraction.found, timeout, ok))
          /\ m_finishedBaseContainer' = Append(m_finishedBaseContainer, base.picture)
          /\ events' = told \cup Room(bases, Tail(bases), "CanSendBase")
                            \cup Room(payloads, extraction.left, "CanSendEnhancement")
                            \cup Room(outputs, Tail(outputs), "CanSendPicture")
                            \cup {"CanReceive", "BasePictureDone"}

-----------------------------------------------------------------------------
(* The calls.                                                              *)

Waiting(picture) == \E i \in DOMAIN m_baseContainer : m_baseContainer[i].picture = picture

\* The frame is not decoded and not skipped.
StillToDecode(timestamp) ==
  timestamp > horizon \/ \E i \in DOMAIN m_baseContainer : m_baseContainer[i].timestamp = timestamp

\* The client has the picture again; timestamps of bases only grow.
sendBasePicture(timestamp, picture) ==
  /\ ~Waiting(picture) /\ \A i \in DOMAIN m_finishedBaseContainer : m_finishedBaseContainer[i] # picture
  /\ timestamp > horizon
  /\ ~IsFull(m_baseContainer)
  /\ UNCHANGED <<m_passthroughMode, late, sent, arrived>>
  /\ tryToQueueDecodes(Append(m_baseContainer, [timestamp |-> timestamp, picture |-> picture]),
                       m_pendingOutputContainer, unprocessed, m_resultsQueue, {})
  /\ horizon' = timestamp

sendEnhancementData(timestamp, data) ==
  /\ arrived < MaxPayloads /\ arrived' = arrived + 1
  /\ ~IsFull(unprocessed)
  /\ ~InsertRefused(unprocessed, loqUnprocessedCap, timestamp)
  /\ late' = IF timestamp <= latestParse THEN late \cup {timestamp} ELSE late
  /\ sent' = IF StillToDecode(timestamp) /\ timestamp \notin processed
             THEN [sent EXCEPT ![timestamp] = data] ELSE sent
  /\ tryToQueueDecodes(m_baseContainer, m_pendingOutputContainer,
                       stampedBufferListInsert(unprocessed, [timestamp |-> timestamp, data |-> data]),
                       m_resultsQueue, {})
  /\ UNCHANGED <<m_passthroughMode, horizon>>

sendOutputPicture(picture) ==
  /\ \A i \in DOMAIN m_pendingOutputContainer : m_pendingOutputContainer[i] # picture
  /\ \A i \in DOMAIN m_resultsQueue : m_resultsQueue[i].picture # picture
  /\ ~IsFull(m_pendingOutputContainer)
  /\ UNCHANGED <<m_passthroughMode, history>>
  /\ tryToQueueDecodes(m_baseContainer, Append(m_pendingOutputContainer, picture), unprocessed,
                       m_resultsQueue, {})

receiveOutputPictureOnly ==
  /\ m_resultsQueue # <<>>
  /\ m_resultsQueue' = Tail(m_resultsQueue) /\ events' = {"OutputPictureDone"}
  /\ UNCHANGED <<inputs, processed, m_finishedBaseContainer, m_passthroughMode, parsed,
                 latestParse, inOrder, astray, history>>

receiveOutputPicture ==
  /\ m_resultsQueue # <<>>
  /\ UNCHANGED <<m_passthroughMode, history>>
  /\ tryToQueueDecodes(m_baseContainer, m_pendingOutputContainer, unprocessed,
                       Tail(m_resultsQueue), {"OutputPictureDone"})

receiveFinishedBasePicture ==
  /\ m_finishedBaseContainer # <<>>
  /\ m_finishedBaseContainer' = Tail(m_finishedBaseContainer) /\ events' = {}
  /\ UNCHANGED <<inputs, processed, m_resultsQueue, m_passthroughMode, parsed, latestParse,
                 inOrder, astray, history>>

\* Pending outputs are dropped, and bases told done but not handed back.  The streams that a
\* peek had parsed stay.
flush ==
  /\ m_baseContainer' = <<>> /\ m_pendingOutputContainer' = <<>> /\ unprocessed' = <<>>
  /\ m_resultsQueue' = [i \in DOMAIN m_resultsQueue |->
                          [m_resultsQueue[i] EXCEPT !.returnCode = "Flushed"]]
  /\ events' = Room(unprocessed, <<>>, "CanSendEnhancement")
               \cup Room(m_baseContainer, <<>>, "CanSendBase")
               \cup Room(m_pendingOutputContainer, <<>>, "CanSendPicture")
               \cup IF m_baseContainer = <<>> THEN {} ELSE {"BasePictureDone"}
  /\ latestParse' = 0 /\ late' = {} /\ horizon' = 0 /\ sent' = [t \in Timestamp |-> "nothing"]
  /\ astray' = processed
  /\ UNCHANGED <<processed, m_finishedBaseContainer, m_passthroughMode, parsed, inOrder, arrived>>

\* Only a peek without a result parses; nothing tells the client of the room it makes.
peek(timestamp) ==
  /\ \A i \in DOMAIN m_resultsQueue : m_resultsQueue[i].timestamp # timestamp
  /\ UNCHANGED <<m_baseContainer, m_pendingOutputContainer, m_resultsQueue,
                 m_finishedBaseContainer, m_passthroughMode, history>>
  /\ LET extraction == Extract(unprocessed, processed, timestamp, FALSE)
     IN /\ unprocessed' = extraction.left /\ processed' = extraction.known
        /\ Accumulated(extraction) /\ Strayed(unprocessed, extraction, timestamp)
  /\ events' = {}

skip(timestamp) ==
  /\ UNCHANGED <<m_pendingOutputContainer, m_passthroughMode, late, sent, arrived>>
  /\ LET waits == FirstOf({i \in DOMAIN m_baseContainer : m_baseContainer[i].timestamp > timestamp},
                          Len(m_baseContainer) + 1)
         kept == SubSeq(m_baseContainer, waits, Len(m_baseContainer))
         extraction == Extract(unprocessed, processed, timestamp, TRUE)
     IN /\ m_baseContainer' = kept
        /\ m_finishedBaseContainer' =
              m_finishedBaseContainer \o [i \in 1 .. waits - 1 |-> m_baseContainer[i].picture]
        /\ unprocessed' = extraction.left /\ processed' = extraction.known
        /\ Accumulated(extraction) /\ Strayed(unprocessed, extraction, timestamp)
        /\ events' = Room(m_baseContainer, kept, "CanSendBase")
                     \cup Room(unprocessed, extraction.left, "CanSendEnhancement")
                     \cup IF waits = 1 THEN {} ELSE {"BasePictureDone"}
  /\ m_resultsQueue' = [i \in DOMAIN m_resultsQueue |->
                          IF m_resultsQueue[i].timestamp <= timestamp
                          THEN [m_resultsQueue[i] EXCEPT !.skipped = TRUE] ELSE m_resultsQueue[i]]
  /\ horizon' = IF timestamp > horizon THEN timestamp ELSE horizon

LegacyNext ==
  \/ \E t \in Timestamp, p \in BasePicture : sendBasePicture(t, p)
  \/ \E t \in Timestamp, d \in {"good", "bad"} : sendEnhancementData(t, d)
  \/ \E p \in OutputPicture : sendOutputPicture(p)
  \/ receiveOutputPicture \/ receiveFinishedBasePicture \/ flush
  \/ \E t \in Timestamp : peek(t) \/ skip(t)

LegacySpec == LegacyInit /\ [][LegacyNext]_legacyVars

-----------------------------------------------------------------------------
(* A frame is decoded with the enhancement exactly if its payload came     *)
(* before and can be parsed, and the residuals applied to it are its own   *)
(* although the core decoder knows only the last payload it parsed         *)
(* (decodeEnhanceCore(), extractProcessedLcevcData()), for every client    *)
(* and but for three kinds of frame: one whose payload was taken by a call *)
(* about an earlier frame; one for which the search ended at an earlier    *)
(* payload that cannot be parsed; and one that a peek had parsed before    *)
(* another payload was parsed, or before a flush.                          *)
EnhancedByOwn ==
  \A i \in DOMAIN m_resultsQueue :
     LET result == m_resultsQueue[i]
     IN result.returnCode # "Flushed" /\ result.timestamp \notin astray =>
          /\ result.hasEnhancement <=> sent[result.timestamp] = "good"
          /\ result.residualsOf \in {None, result.timestamp}

(* The core decoder accumulates temporal residuals, so payloads are parsed *)
(* once each and in the order of their timestamps, whatever the order they *)
(* came in and whoever asks first: a decode, a skip or a peek.  The ones   *)
(* that come when a later one has been parsed already are the exception.   *)
ParsedInOrder == inOrder

(* No base waits beside a picture to decode to and room for a result:      *)
(* skip(), flush() and peek() do not look for decodes, and need not.       *)
DecodesDrained == ~Ready(m_baseContainer, m_pendingOutputContainer, m_resultsQueue)

(* A client that was refused for want of room is told when there is some,  *)
(* whichever call made it; a peek is the exception.                        *)
RoomAnnounced ==
  [][\/ \E t \in Timestamp : peek(t)
     \/ /\ (IsFull(m_baseContainer) /\ ~IsFull(m_baseContainer')) => "CanSendBase" \in events'
        /\ (IsFull(unprocessed) /\ ~IsFull(unprocessed')) => "CanSendEnhancement" \in events'
        /\ (IsFull(m_pendingOutputContainer) /\ ~IsFull(m_pendingOutputContainer')) =>
              "CanSendPicture" \in events']_legacyVars
=============================================================================
