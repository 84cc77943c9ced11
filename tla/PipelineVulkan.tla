--------------------------- MODULE PipelineVulkan ---------------------------
(***************************************************************************)
(* The Vulkan pipeline: pipeline_vulkan.cpp and frame_vulkan.cpp.          *)
(*                                                                         *)
(* The pipeline has no workers of its own (numThreads is 1): a task runs   *)
(* inside the call that met its last input, and a call that waits for a    *)
(* task waits for ever.  A call is therefore a first step of the client,   *)
(* the steps of startReadyFrames() and connectOutputPictures() that follow *)
(* from it, and the tasks that can run between two of these; when several  *)
(* wait for the same input, their order is left open.                      *)
(*                                                                         *)
(* Pictures on the GPU are null or not; the picture of temporal residuals, *)
(* which all frames share, is the set of frames whose residuals are in it. *)
(* Nothing configures the mode of passthrough or a delay of enhancement:   *)
(* the mode is Scale, and no base ever waits for its frame.  Events are    *)
(* left out.  A stream has one global configuration.                       *)
(***************************************************************************)
EXTENDS Integers, Sequences, FiniteSets

Lists == INSTANCE SequencesExt
Sets == INSTANCE FiniteSetsExt

CONSTANTS FrameTime,           \* timestamps of frames
          Enhancement,         \* payloads
          Client,              \* clients: prudent or not, the global configuration, sends at most
          Base, Output,        \* pictures of the client
          maxLatency, m_maxReorder,
          numTemporalBuffers,
          Nothing              \* a null pointer

Settings == [temporalEnabled : BOOLEAN, scaled : [1 .. 2 -> BOOLEAN], numTiles : Nat \ {0}]
Payload  == [good : BOOLEAN, global : BOOLEAN, idr : BOOLEAN, temporalRefresh : BOOLEAN,
             loqEnabled : [1 .. 2 -> BOOLEAN]]

\* Dependencies of a task group, tasks and frames.
Dependency == {"base", "output", "temporal", "internal", "upsampled", "commands", "tile", "tiles",
               "added", "done", "plane", "invalid"} \X Nat \X Nat
TaskName == {"ConvertToInternal", "Upsample", "GenerateCmdBuffer", "ApplyCmdBufferDirect",
             "ApplyCmdBufferTemporal", "WaitForMany", "ApplyAddTemporal", "TemporalRelease",
             "ConvertFromInternal", "Passthrough", "OutputDone", "BaseDone"}
Tasks == [does : TaskName, inputs : SUBSET Dependency, output : Dependency, picture : Int]
FrameRecord ==
  [m_state : {"Reorder", "Processing", "Done"}, payload : Payload, config : Payload,
   m_ready : BOOLEAN, m_skip : BOOLEAN, m_passthrough : BOOLEAN,
   basePicture : Base \cup {Nothing}, baseDataValid : BOOLEAN, outputPicture : Output \cup {Nothing},
   tasks : Seq(Tasks), dependenciesMet : SUBSET Dependency, m_intermediatePicture : SUBSET Int,
   needsBuffer : BOOLEAN, wanted : Nat, m_temporalBuffer : Nat,
   expected : SUBSET FrameTime, shown : {Nothing} \cup SUBSET FrameTime]

ASSUME VulkanAssumption ==
  /\ FrameTime \subseteq Nat \ {0} /\ IsFiniteSet(FrameTime)
  /\ Enhancement \subseteq Payload
  /\ Client \subseteq [prudent : BOOLEAN, settings : Settings, sends : Nat]
  /\ Base \cap Output = {}
  /\ maxLatency \in Nat \ {0} /\ m_maxReorder \in Nat \ {0} /\ numTemporalBuffers \in Nat \ {0}
  /\ Nothing \notin FrameRecord /\ Nothing \notin Base \cup Output \cup FrameTime
  /\ \A picture \in SUBSET FrameTime : picture # Nothing

VARIABLES m_frames,            \* the frame of each timestamp, if there is one
          m_reorderIndex, m_processingIndex,
          m_previousTimestamp, m_lastGoodTimestamp,
          initialized,         \* a global configuration was parsed
          m_temporalBuffers,   \* timestamp and frame of each anchor
          m_temporalPicture,   \* null until the first residuals are applied to it
          m_basePictureOutBuffer, m_outputPictureAvailableBuffer,
          call,                \* what is left to do of the current call
          broken,              \* a task used a null pointer
          stream,              \* the client, and how many payloads and bases it still sends
          chain,               \* history: frames whose residuals the next one builds on
          goodInOrder,         \* history: good frames were started in order
          lent,                \* history: pictures the client has sent and not had back
          latestBase           \* history: latest timestamp a base was sent for

indexVars == <<m_reorderIndex, m_processingIndex>>
orderVars == <<m_previousTimestamp, m_lastGoodTimestamp, initialized, chain, goodInOrder>>
temporalVars == <<m_temporalBuffers, m_temporalPicture>>
queueVars == <<m_basePictureOutBuffer, m_outputPictureAvailableBuffer>>
clientVars == <<stream, lent, latestBase>>
vulkanVars == <<m_frames, indexVars, orderVars, temporalVars, queueVars, clientVars, call, broken>>

kInvalidTimestamp == 0
LOQ0 == 0
LOQ1 == 1
LOQ2 == 2

\* Anchors of temporal buffers, one for each plane a configuration can enhance.
RCMaxPlanes == 3
Anchors == 1 .. numTemporalBuffers * RCMaxPlanes

\* nextPowerOfTwoU32(maxLatency + 1)
FifoCapacity == CHOOSE n \in {2 ^ k : k \in 0 .. maxLatency + 1} :
                  n >= maxLatency + 1 /\ n < 2 * (maxLatency + 1)

VulkanInit ==
  /\ m_frames = [t \in FrameTime |-> Nothing]
  /\ m_reorderIndex = <<>> /\ m_processingIndex = <<>>
  /\ m_previousTimestamp = kInvalidTimestamp /\ m_lastGoodTimestamp = kInvalidTimestamp
  /\ initialized = FALSE
  /\ m_temporalBuffers = [i \in Anchors |-> [timestamp |-> kInvalidTimestamp, frame |-> Nothing]]
  /\ m_temporalPicture = Nothing
  /\ m_basePictureOutBuffer = <<>> /\ m_outputPictureAvailableBuffer = <<>>
  /\ call = "idle" /\ broken = FALSE
  /\ stream \in Client
  /\ chain = {} /\ goodInOrder = TRUE /\ lent = {} /\ latestBase = 0

-----------------------------------------------------------------------------
(* Dependencies of a task group, and its tasks.                            *)

Depends(name, loq, tile) == <<name, loq, tile>>
m_depBasePicture == Depends("base", 0, 0)
m_depOutputPicture == Depends("output", 0, 0)
m_depTemporalBuffer == Depends("temporal", 0, 0)
kTaskDependencyInvalid == Depends("invalid", 0, 0)

\* A task, and the index of the intermediate picture it is about.
Task(does, needs, gives, at) == [does |-> does, inputs |-> needs, output |-> gives, picture |-> at]

LastOutput(tasks, otherwise) == IF tasks = <<>> THEN otherwise ELSE tasks[Len(tasks)].output

\* Commands and residuals of one level: of one tile, or of several with a task that waits for them.
Residuals(does, loq, input, at) ==
  LET tiles == 1 .. stream.settings.numTiles
      commands(k) == Depends("commands", loq, k)
      tile(i) == (i + 1) \div 2
      each == [i \in 1 .. 2 * stream.settings.numTiles |->
                 IF i % 2 = 1 THEN Task("GenerateCmdBuffer", {}, commands(tile(i)), at)
                 ELSE Task(does, {input, commands(tile(i))}, Depends("tile", loq, tile(i)), at)]
      wait == Task("WaitForMany", {Depends("tile", loq, k) : k \in tiles}, Depends("tiles", loq, 0), at)
  IN  IF stream.settings.numTiles > 1 THEN Append(each, wait) ELSE each

Upsampled(loq, input, at) ==
  IF stream.settings.scaled[loq + 1]
  THEN <<Task("Upsample", {input}, Depends("upsampled", loq, 0), at)>> ELSE <<>>

usesTemporal(f) == stream.settings.temporalEnabled /\ ~f.m_passthrough

\* Output and base are done when the picture is converted and when it was read.
Ending(reconstructed, at) ==
  <<Task("ConvertFromInternal", {m_depOutputPicture, reconstructed}, Depends("done", 0, 0), at),
    Task("OutputDone", {Depends("done", 0, 0)}, kTaskDependencyInvalid, at),
    Task("BaseDone", {Depends("internal", 0, 0)}, kTaskDependencyInvalid, at)>>

\* The intermediate picture of level 1, and of level 0: one less for each that is scaled.
intermediatePtr1 == IF stream.settings.scaled[2] THEN LOQ1 ELSE LOQ2
intermediatePtr0 == IF stream.settings.scaled[1] THEN intermediatePtr1 - 1 ELSE intermediatePtr1

\* The picture without what level 0 adds.
generateTasksPicture(f) ==
  LET convert == <<Task("ConvertToInternal", {m_depBasePicture}, Depends("internal", 0, 0), LOQ2)>>
      first   == convert \o Upsampled(LOQ1, LastOutput(convert, ""), LOQ2)
      base    == first \o (IF f.config.loqEnabled[2]
                           THEN Residuals("ApplyCmdBufferDirect", LOQ1, LastOutput(first, ""), intermediatePtr1)
                           ELSE <<>>)
  IN  base \o Upsampled(LOQ0, LastOutput(base, ""), intermediatePtr1)

generateTasksEnhancement(f) ==
  LET picture == generateTasksPicture(f)
      recon   == LastOutput(picture, "")
      residuals(does, input) ==
        IF f.config.loqEnabled[1] THEN Residuals(does, LOQ0, input, intermediatePtr0) ELSE <<>>
      \* The temporal buffer is added even if the frame has no residuals of its own.
      temporal == residuals("ApplyCmdBufferTemporal", m_depTemporalBuffer)
      added    == Depends("added", 0, 0)
      addTemporal ==
        <<Task("ApplyAddTemporal", {LastOutput(temporal, m_depTemporalBuffer), recon}, added, intermediatePtr0),
          Task("TemporalRelease", {added}, kTaskDependencyInvalid, intermediatePtr0)>>
      direct   == residuals("ApplyCmdBufferDirect", recon)
  IN  IF usesTemporal(f)
      THEN picture \o temporal \o addTemporal \o Ending(added, intermediatePtr0)
      ELSE picture \o direct \o Ending(LastOutput(direct, recon), intermediatePtr0)

\* One task stands for those of all planes.
generateTasksPassthrough ==
  LET plane == Depends("plane", 0, 0)
  IN  <<Task("Passthrough", {m_depOutputPicture, m_depBasePicture}, plane, LOQ2),
        Task("OutputDone", {plane}, kTaskDependencyInvalid, LOQ2),
        Task("BaseDone", {plane}, kTaskDependencyInvalid, LOQ2)>>

-----------------------------------------------------------------------------
(* Frames.                                                                 *)

NoLevels == [good |-> FALSE, global |-> FALSE, idr |-> FALSE, temporalRefresh |-> FALSE,
             loqEnabled |-> <<FALSE, FALSE>>]

FrameVulkan(payload) ==
  [m_state |-> "Reorder", payload |-> payload, config |-> NoLevels,
   m_ready |-> FALSE, m_skip |-> FALSE, m_passthrough |-> FALSE,
   basePicture |-> Nothing, baseDataValid |-> FALSE, outputPicture |-> Nothing,
   tasks |-> <<>>, dependenciesMet |-> {}, m_intermediatePicture |-> {},
   needsBuffer |-> FALSE, wanted |-> kInvalidTimestamp, m_temporalBuffer |-> 0,
   expected |-> {}, shown |-> Nothing]

Frames == {t \in FrameTime : m_frames[t] # Nothing}

DependencyMet(f, dep) == [f EXCEPT !.dependenciesMet = @ \cup {dep}]

\* A base is set once, or again after it was given back.
setBase(f, picture) ==
  DependencyMet([f EXCEPT !.basePicture = picture, !.baseDataValid = TRUE], m_depBasePicture)

canComplete(f) ==
  /\ f.m_state = "Processing"
  /\ {m_depOutputPicture, m_depBasePicture}
       \cup (IF f.needsBuffer THEN {m_depTemporalBuffer} ELSE {}) \subseteq f.dependenciesMet

frameLatency == Len(m_reorderIndex) + Len(m_processingIndex)

\* Before the first that is later.
Spot(index, t) == CHOOSE i \in 1 .. Len(index) + 1 :
                    (\A j \in 1 .. i - 1 : index[j] < t) /\ (\A j \in i .. Len(index) : t < index[j])
Inserted(index, t) == Lists!InsertAt(index, Spot(index, t), t)

-----------------------------------------------------------------------------
(* Tasks.                                                                  *)

TaskOf(t, k) == m_frames[t].tasks[k]

\* The null pointers a task would use.  Only the tasks below look at m_skip: the one that
\* applies residuals to the temporal picture asks an intermediate picture for its size,
\* and waits neither for that picture nor for the base.
UsesNull(f, task) ==
  \/ /\ task.picture \notin f.m_intermediatePicture
     /\ \/ task.does = "ApplyCmdBufferTemporal"
        \/ ~f.m_skip /\ task.does \in {"Upsample", "ApplyCmdBufferDirect", "ApplyAddTemporal", "ConvertFromInternal"}
  \/ ~f.m_skip /\ task.does = "ApplyAddTemporal" /\ m_temporalPicture = Nothing

InputsMet(t, k) == TaskOf(t, k).inputs \subseteq m_frames[t].dependenciesMet

\* A task whose inputs are met runs when it is added, before the next one is.
AddedInTurn(t, k) ==
  call = "start" /\ t = m_processingIndex[Len(m_processingIndex)] => \A j \in 1 .. k - 1 : ~InputsMet(t, j)

CanRun(t, k) == ~broken /\ InputsMet(t, k) /\ AddedInTurn(t, k)
Runnable == \E t \in Frames : \E k \in DOMAIN m_frames[t].tasks : InputsMet(t, k)

Runs(t, k, does) ==
  CanRun(t, k) /\ TaskOf(t, k).does \in does /\ ~UsesNull(m_frames[t], TaskOf(t, k))

\* Frame t is f when its task k has finished.
Finished(t, k, f) ==
  [m_frames EXCEPT ![t] = DependencyMet([f EXCEPT !.tasks = Lists!RemoveAt(@, k)], TaskOf(t, k).output)]

UseNull(t, k) ==
  /\ CanRun(t, k) /\ UsesNull(m_frames[t], TaskOf(t, k))
  /\ broken' = TRUE
  /\ UNCHANGED <<m_frames, indexVars, orderVars, temporalVars, queueVars, clientVars, call>>

WithPicture(f, loq) == IF f.m_skip THEN f ELSE [f EXCEPT !.m_intermediatePicture = @ \cup {loq}]

OnlyFrames == UNCHANGED <<indexVars, orderVars, queueVars, clientVars, call, broken>>

ConvertToInternal(t, k) ==
  /\ Runs(t, k, {"ConvertToInternal"})
  /\ m_frames' = Finished(t, k, WithPicture(m_frames[t], LOQ2))
  /\ OnlyFrames /\ UNCHANGED temporalVars

Upsample(t, k) ==
  /\ Runs(t, k, {"Upsample"})
  /\ m_frames' = Finished(t, k, WithPicture(m_frames[t], TaskOf(t, k).picture - 1))
  /\ OnlyFrames /\ UNCHANGED temporalVars

\* Tasks that change pels, command buffers or nothing at all.
JustRuns(t, k, does) ==
  /\ Runs(t, k, {does})
  /\ m_frames' = Finished(t, k, m_frames[t])
  /\ OnlyFrames /\ UNCHANGED temporalVars

GenerateCmdBuffer(t, k) == JustRuns(t, k, "GenerateCmdBuffer")
ApplyCmdBufferDirect(t, k) == JustRuns(t, k, "ApplyCmdBufferDirect")
WaitForMany(t, k) == JustRuns(t, k, "WaitForMany")
ConvertFromInternal(t, k) == JustRuns(t, k, "ConvertFromInternal")
Passthrough(t, k) == JustRuns(t, k, "Passthrough")

\* apply(): the temporal picture is made, of zeroes, when it is first needed.
ApplyCmdBufferTemporal(t, k) ==
  /\ Runs(t, k, {"ApplyCmdBufferTemporal"})
  /\ m_temporalPicture' = (IF m_temporalPicture = Nothing THEN {} ELSE m_temporalPicture) \cup {t}
  /\ m_frames' = Finished(t, k, m_frames[t])
  /\ OnlyFrames /\ UNCHANGED m_temporalBuffers

ApplyAddTemporal(t, k) ==
  /\ Runs(t, k, {"ApplyAddTemporal"})
  /\ m_frames' = Finished(t, k, IF m_frames[t].m_skip THEN m_frames[t]
                                ELSE [m_frames[t] EXCEPT !.shown = m_temporalPicture])
  /\ OnlyFrames /\ UNCHANGED temporalVars

\* The frames in processing that wait for the buffer of frame t.
Heirs(t) == {i \in DOMAIN m_processingIndex :
               LET f == m_frames[m_processingIndex[i]]
               IN  m_processingIndex[i] > t /\ f.needsBuffer /\ f.m_temporalBuffer = 0 /\ f.wanted = t}

HandedOn(t, k, heir) ==
  LET f == m_frames[t]
      done == Finished(t, k, [f EXCEPT !.m_temporalBuffer = 0])
  IN  /\ m_frames' = [done EXCEPT ![heir] =
                        DependencyMet([@ EXCEPT !.m_temporalBuffer = f.m_temporalBuffer], m_depTemporalBuffer)]
      /\ m_temporalBuffers' = [m_temporalBuffers EXCEPT ![f.m_temporalBuffer] =
                                 [timestamp |-> m_frames[heir].wanted, frame |-> heir]]

LeftFree(t, k) ==
  LET f == m_frames[t]
  IN  /\ m_frames' = Finished(t, k, [f EXCEPT !.m_temporalBuffer = 0])
      /\ m_temporalBuffers' = [m_temporalBuffers EXCEPT ![f.m_temporalBuffer] =
                                 [timestamp |-> t, frame |-> Nothing]]

(* Mutant: the buffer is left for whoever asks for it next. *)
releaseToNobody(t, k) == LeftFree(t, k)

releaseTemporalBuffer(t, k) ==
  IF Heirs(t) = {} THEN LeftFree(t, k) ELSE HandedOn(t, k, m_processingIndex[Sets!Min(Heirs(t))])

TemporalRelease(t, k) ==
  /\ Runs(t, k, {"TemporalRelease"})
  /\ releaseTemporalBuffer(t, k)
  /\ OnlyFrames /\ UNCHANGED m_temporalPicture

\* The push waits while the queue is full, and the call with it.
BaseDone(t, k) ==
  /\ Runs(t, k, {"BaseDone"})
  /\ Len(m_basePictureOutBuffer) < FifoCapacity
  /\ m_basePictureOutBuffer' = Append(m_basePictureOutBuffer, m_frames[t].basePicture)
  /\ m_frames' = Finished(t, k, [m_frames[t] EXCEPT !.basePicture = Nothing])
  /\ UNCHANGED <<indexVars, orderVars, temporalVars, m_outputPictureAvailableBuffer, clientVars, call, broken>>

OutputDone(t, k) ==
  /\ Runs(t, k, {"OutputDone"})
  /\ m_frames' = Finished(t, k, [m_frames[t] EXCEPT !.m_state = "Done"])
  /\ OnlyFrames /\ UNCHANGED temporalVars

RunTask == \E t \in Frames : \E k \in DOMAIN m_frames[t].tasks :
  \/ ConvertToInternal(t, k) \/ Upsample(t, k) \/ GenerateCmdBuffer(t, k)
  \/ ApplyCmdBufferDirect(t, k) \/ ApplyCmdBufferTemporal(t, k) \/ WaitForMany(t, k)
  \/ ConvertFromInternal(t, k) \/ Passthrough(t, k)
  \/ ApplyAddTemporal(t, k) \/ TemporalRelease(t, k) \/ BaseDone(t, k) \/ OutputDone(t, k)
  \/ UseNull(t, k)

-----------------------------------------------------------------------------
(* Frames are started in order of their timestamps.                        *)

NextReordered ==
  /\ m_reorderIndex # <<>>
  /\ Len(m_reorderIndex) >= m_maxReorder \/ m_frames[m_reorderIndex[1]].m_ready

\* ldeConfigPoolFrameInsert(): data without a global configuration is refused.
ConfigGood(payload) == payload.good /\ (payload.global \/ initialized)

Clears(config) == config.idr \/ config.temporalRefresh

\* Anchors that are not in use and meet what frame t asks for.
Suitable(config) ==
  {i \in Anchors :
     /\ m_temporalBuffers[i].frame = Nothing
     /\ \/ m_temporalBuffers[i].timestamp = m_lastGoodTimestamp
        \/ Clears(config) /\ m_temporalBuffers[i].timestamp = kInvalidTimestamp}

(* Mutant: residuals of before a refresh stay. *)
ClearedNever(config) == m_temporalPicture

\* A refresh clears the picture that all frames share, an IDR frame alone does not.
Cleared(config) ==
  IF m_temporalPicture # Nothing /\ config.temporalRefresh THEN {} ELSE m_temporalPicture

requireTemporalBuffer(t, f) ==
  LET found == Suitable(f.config)
      asked == [f EXCEPT !.needsBuffer = TRUE, !.wanted = m_lastGoodTimestamp]
  IN  /\ m_temporalPicture' = Cleared(f.config)
      /\ IF found = {}
         THEN m_frames' = [m_frames EXCEPT ![t] = asked] /\ UNCHANGED m_temporalBuffers
         ELSE /\ m_frames' = [m_frames EXCEPT ![t] =
                    DependencyMet([asked EXCEPT !.m_temporalBuffer = Sets!Min(found)], m_depTemporalBuffer)]
              /\ m_temporalBuffers' = [m_temporalBuffers EXCEPT ![Sets!Min(found)] =
                    [timestamp |-> m_lastGoodTimestamp, frame |-> t]]

\* One turn of the loop of startReadyFrames().
StartFrame ==
  /\ call = "start" /\ NextReordered /\ ~Runnable /\ ~broken
  /\ LET t      == m_reorderIndex[1]
         f      == m_frames[t]
         late   == m_previousTimestamp # kInvalidTimestamp /\ m_previousTimestamp > t
         good   == ~f.m_passthrough /\ ~late /\ ConfigGood(f.payload)
         config == IF good THEN f.payload ELSE NoLevels
         known  == initialized \/ config.global
         base   == [f EXCEPT !.m_state = "Processing", !.m_passthrough = ~good, !.config = config]
         builds == (IF Clears(config) THEN {} ELSE chain) \cup (IF config.loqEnabled[1] THEN {t} ELSE {})
         ready  == [base EXCEPT !.tasks = IF known THEN generateTasksEnhancement(base)
                                          ELSE generateTasksPassthrough,
                                !.expected = builds]
     IN  /\ IF known /\ usesTemporal(base)
            THEN requireTemporalBuffer(t, ready)
            ELSE m_frames' = [m_frames EXCEPT ![t] = ready] /\ UNCHANGED temporalVars
         /\ m_processingIndex' = Append(m_processingIndex, t)
         /\ m_previousTimestamp' = t
         /\ m_lastGoodTimestamp' = IF good THEN t ELSE m_lastGoodTimestamp
         /\ initialized' = known
         /\ chain' = IF good THEN builds ELSE chain
         /\ goodInOrder' = (goodInOrder /\ (good => m_lastGoodTimestamp <= t))
  /\ m_reorderIndex' = Tail(m_reorderIndex)
  /\ UNCHANGED <<queueVars, clientVars, call, broken>>

\* The frames an output picture can be connected to.
Unconnected == {i \in DOMAIN m_processingIndex :
                  LET f == m_frames[m_processingIndex[i]] IN f.outputPicture = Nothing /\ f.baseDataValid}
CanConnect == m_outputPictureAvailableBuffer # <<>> /\ Unconnected # {}

connectOutputPictures ==
  /\ call \in {"connect", "connect first"} /\ CanConnect /\ ~Runnable /\ ~broken
  /\ LET t == m_processingIndex[Sets!Min(Unconnected)]
     IN  m_frames' = [m_frames EXCEPT ![t] =
           DependencyMet([@ EXCEPT !.outputPicture = m_outputPictureAvailableBuffer[1]], m_depOutputPicture)]
  /\ m_outputPictureAvailableBuffer' = Tail(m_outputPictureAvailableBuffer)
  /\ UNCHANGED <<indexVars, orderVars, temporalVars, m_basePictureOutBuffer, clientVars, call, broken>>

\* The next part of a call, once nothing of this part is left.
GoOn ==
  /\ ~Runnable /\ ~broken
  /\ \/ call = "connect first" /\ ~CanConnect /\ call' = "start"
     \/ call = "start" /\ ~NextReordered /\ call' = "connect"
     \/ call = "connect" /\ ~CanConnect /\ call' = "idle"
  /\ UNCHANGED <<m_frames, indexVars, orderVars, temporalVars, queueVars, clientVars, broken>>

-----------------------------------------------------------------------------
(* Calls.  One that returns an error changes nothing and is no step.       *)
(*                                                                         *)
(* A prudent client sends nothing for a frame that would be late.  A       *)
(* payload of its with a global configuration, or of an IDR frame, starts  *)
(* a chain of residuals.  It keeps fewer payloads than make a frame start, *)
(* and sends bases in the order of their timestamps, one for each payload  *)
(* it sent.  It starts a frame before its base only if the frame has no    *)
(* residuals for the temporal picture and does not clear it.               *)

Idle == call = "idle" /\ ~broken

PrudentPayload(t, payload) ==
  /\ t > latestBase /\ t > m_previousTimestamp /\ Len(m_reorderIndex) + 1 < m_maxReorder
  /\ payload.global \/ payload.idr => payload.temporalRefresh /\ payload.loqEnabled[1]
PrudentBase(t) == t > latestBase /\ \A s \in Frames : s < t => m_frames[s].baseDataValid
PrudentStart(timestamp) ==
  \A i \in DOMAIN m_reorderIndex : m_reorderIndex[i] <= timestamp =>
    LET f == m_frames[m_reorderIndex[i]]
    IN  f.baseDataValid \/ ~(f.payload.loqEnabled[1] \/ f.payload.temporalRefresh)

Sends == stream.sends > 0 /\ stream' = [stream EXCEPT !.sends = @ - 1]

SendEnhancementData(t, payload) ==
  /\ Idle /\ Sends
  /\ m_frames[t] = Nothing /\ frameLatency < maxLatency
  /\ stream.prudent => PrudentPayload(t, payload)
  /\ m_frames' = [m_frames EXCEPT ![t] = FrameVulkan(payload)]
  /\ m_reorderIndex' = Inserted(m_reorderIndex, t)
  /\ call' = "start"
  /\ UNCHANGED <<m_processingIndex, orderVars, temporalVars, queueVars, lent, latestBase, broken>>

\* Frames that wait and are not later than the timestamp need wait no longer.
MadeReady(frames, timestamp) ==
  [t \in FrameTime |-> IF t \in Lists!Range(m_reorderIndex) /\ t <= timestamp
                       THEN [frames[t] EXCEPT !.m_ready = TRUE] ELSE frames[t]]

SendsBase(t, b) ==
  /\ Idle /\ Sends /\ b \notin lent
  /\ stream.prudent => PrudentBase(t)
  /\ lent' = lent \cup {b}
  /\ latestBase' = IF t > latestBase THEN t ELSE latestBase
  /\ call' = "start"
  /\ UNCHANGED <<m_processingIndex, orderVars, temporalVars, queueVars, broken>>

sendBaseOfFrame(t, b) ==
  /\ m_frames[t] # Nothing /\ m_frames[t].basePicture = Nothing
  /\ SendsBase(t, b)
  /\ m_frames' = MadeReady([m_frames EXCEPT ![t] = setBase(@, b)], t)
  /\ UNCHANGED m_reorderIndex

\* A base without payload goes through as it is, or scaled.
sendBaseAlone(t, b) ==
  /\ m_frames[t] = Nothing
  /\ stream.prudent => t > m_previousTimestamp
  /\ SendsBase(t, b)
  /\ m_frames' = [m_frames EXCEPT ![t] =
       setBase([FrameVulkan(NoLevels) EXCEPT !.m_ready = TRUE, !.m_passthrough = TRUE], b)]
  /\ m_reorderIndex' = Inserted(m_reorderIndex, t)

SendOutputPicture(u) ==
  /\ Idle /\ u \notin lent
  /\ Len(m_outputPictureAvailableBuffer) <= maxLatency
  /\ Len(m_outputPictureAvailableBuffer) < FifoCapacity
  /\ m_outputPictureAvailableBuffer' = Append(m_outputPictureAvailableBuffer, u)
  /\ lent' = lent \cup {u}
  /\ call' = "connect first"
  /\ UNCHANGED <<m_frames, indexVars, orderVars, temporalVars, m_basePictureOutBuffer, stream, latestBase, broken>>

\* A frame that can complete is waited for; there is none between calls (FramesSettle).
\* Freeing a frame waits for its tasks.
ReceiveOutputPicture ==
  /\ Idle /\ m_processingIndex # <<>>
  /\ LET t == m_processingIndex[1]
         f == m_frames[t]
     IN  /\ f.m_state = "Done" /\ f.tasks = <<>>
         /\ m_frames' = [m_frames EXCEPT ![t] = Nothing]
         /\ lent' = lent \ {f.outputPicture}
  /\ m_processingIndex' = Tail(m_processingIndex)
  /\ UNCHANGED <<m_reorderIndex, orderVars, temporalVars, queueVars, stream, latestBase, call, broken>>

ReceiveFinishedBasePicture ==
  /\ Idle /\ m_basePictureOutBuffer # <<>>
  /\ lent' = lent \ {m_basePictureOutBuffer[1]}
  /\ m_basePictureOutBuffer' = Tail(m_basePictureOutBuffer)
  /\ UNCHANGED <<m_frames, indexVars, orderVars, temporalVars, m_outputPictureAvailableBuffer,
                 stream, latestBase, call, broken>>

StartsTo(frames) ==
  /\ Idle
  /\ m_frames' = frames
  /\ call' = "start"
  /\ UNCHANGED <<indexVars, orderVars, temporalVars, queueVars, clientVars, broken>>

\* flush(), and what peek() does before it looks for the frame.
StartProcessing(timestamp) ==
  /\ stream.prudent => PrudentStart(timestamp)
  /\ StartsTo(MadeReady(m_frames, timestamp))

Skip(timestamp) ==
  /\ ~stream.prudent
  /\ StartsTo([t \in FrameTime |-> IF t \in Frames /\ t <= timestamp
                                   THEN [m_frames[t] EXCEPT !.m_skip = TRUE, !.m_ready = TRUE]
                                   ELSE m_frames[t]])

\* The wait at the end is for frames that can complete: again there are none.
Synchronize(dropPending) ==
  /\ stream.prudent => ~dropPending
  /\ StartsTo([t \in FrameTime |-> IF t \in Frames THEN [m_frames[t] EXCEPT !.m_skip = dropPending]
                                   ELSE m_frames[t]])

\* Destruction waits for the tasks of every frame, whether or not they can ever run.
DestroyPipeline ==
  /\ Idle /\ \A t \in Frames : m_frames[t].tasks = <<>>
  /\ call' = "destroyed"
  /\ m_frames' = [t \in FrameTime |-> Nothing]
  /\ m_reorderIndex' = <<>> /\ m_processingIndex' = <<>>
  /\ UNCHANGED <<orderVars, temporalVars, queueVars, clientVars, broken>>

VulkanCall ==
  \/ \E t \in FrameTime : \/ \E p \in Enhancement : SendEnhancementData(t, p)
                          \/ \E b \in Base : sendBaseOfFrame(t, b) \/ sendBaseAlone(t, b)
                          \/ StartProcessing(t) \/ Skip(t)
  \/ \E u \in Output : SendOutputPicture(u)
  \/ ReceiveOutputPicture \/ ReceiveFinishedBasePicture
  \/ \E drop \in BOOLEAN : Synchronize(drop)
  \/ DestroyPipeline

VulkanNext == VulkanCall \/ StartFrame \/ connectOutputPictures \/ GoOn \/ RunTask

VulkanSpec == VulkanInit /\ [][VulkanNext]_vulkanVars

-----------------------------------------------------------------------------
WaitsOnlyForBuffer(f) ==
  f.m_state = "Processing" /\ f.needsBuffer
    /\ {m_depOutputPicture, m_depBasePicture} \subseteq f.dependenciesMet
    /\ m_depTemporalBuffer \notin f.dependenciesMet

\* An output waits or belongs to a frame; a base of a prudent client belongs to a frame or
\* waits to be received.
PicturesInPlace ==
  LET held(u) == {t \in Frames : m_frames[t].outputPicture = u \/ m_frames[t].basePicture = u}
      queued(u) == {i \in DOMAIN m_outputPictureAvailableBuffer : m_outputPictureAvailableBuffer[i] = u}
                     \cup {i \in DOMAIN m_basePictureOutBuffer : m_basePictureOutBuffer[i] = u}
  IN  \A u \in (IF stream.prudent THEN Base \cup Output ELSE Output) :
          Cardinality(held(u)) + Cardinality(queued(u)) = (IF u \in lent THEN 1 ELSE 0)

(* Between calls every task that could run has run.  So no frame that can  *)
(* complete is left, a frame that is done holds no task (receiving it,     *)
(* synchronize() and the frames' release would wait for ever), a frame     *)
(* that lacks only its temporal buffer has an earlier frame in processing  *)
(* that lacks its base (unless good frames went back in time: a late frame *)
(* sets m_previousTimestamp back, and a release passes over frames that    *)
(* are earlier), and every picture the client has lent is in one place:    *)
(* pipeline_vulkan.cpp:1650, 1785, 2057, 2069, 2223, 2894.                 *)
FramesSettle ==
  call = "idle" /\ ~broken =>
    /\ PicturesInPlace
    /\ \A i \in DOMAIN m_processingIndex :
      LET f == m_frames[m_processingIndex[i]]
      IN  /\ ~canComplete(f)
          /\ f.m_state = "Done" => f.tasks = <<>>
          /\ WaitsOnlyForBuffer(f) /\ goodInOrder =>
               \E j \in 1 .. i - 1 :
                  m_depBasePicture \notin m_frames[m_processingIndex[j]].dependenciesMet

(* For a prudent client no task uses a null picture, and the temporal      *)
(* picture that is added to a frame has the residuals since the last       *)
(* refresh and no others, although all frames share one picture and a      *)
(* refresh clears it when its frame is started: pipeline_vulkan.cpp:2145.  *)
ResidualsInChain ==
  stream.prudent =>
    ~broken /\ \A t \in Frames : m_frames[t].shown \in {Nothing, m_frames[t].expected}
=============================================================================
