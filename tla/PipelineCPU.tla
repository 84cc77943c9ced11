---------------------------- MODULE PipelineCPU -----------------------------
(***************************************************************************)
(* The CPU pipeline of src/src/pipeline_cpu: how enhancement data, base    *)
(* pictures and output pictures meet in frames, how frames are reordered,  *)
(* started, decoded by tasks and delivered, and how the one temporal       *)
(* buffer is passed from frame to frame.                                   *)
(*                                                                         *)
(* The decoder's lock serialises the API calls, so there is one API        *)
(* thread.  A call that touches what tasks also touch is cut where a task  *)
(* can see the difference: api.pc says where it is.  A task runs in one    *)
(* step unless it waits or releases a lock half way: then it stays in busy *)
(* and keeps its worker thread.                                            *)
(*                                                                         *)
(* One image plane is modelled, and one temporal buffer (the default); the *)
(* planes of a frame are treated alike and share nothing.  enhancementDelay*)
(* is 0 (the default), so that no base picture is ever pending.  A base    *)
(* picture is named by the timestamp it is sent with.                      *)
(***************************************************************************)
EXTENDS Integers, FiniteSets, Sequences, SequencesExt

CONSTANTS Time,           \* timestamps, distinct over a run, in increasing order
          Pic,            \* the client's output pictures
          NoPic,          \* no picture
          Kinds,          \* kinds of enhancement data that arrive
          Passthrough,    \* passthroughMode
          TrickPlay,      \* calls the client makes besides sending and receiving
          InitFails,      \* TRUE if the buffers of a frame may fail to be allocated
          MaxLatency, MinLatency, MaxReorder,
          RingCapacity,   \* pictures that fit in a FIFO of base or output pictures
          Workers         \* number of worker threads

Kind == {"bad",         \* does not parse
         "plain",       \* temporal layer disabled
         "temporal",    \* adds to the residuals of the frame before
         "refresh"}     \* starts from a cleared temporal buffer

ASSUME TimeAssumption == IsFiniteSet(Time) /\ Time \subseteq Nat
ASSUME PicAssumption == IsFiniteSet(Pic) /\ NoPic \notin Pic \cup Time
ASSUME ConfigAssumption ==
    /\ Kinds \subseteq Kind
    /\ Passthrough \in {"Disable", "Allow", "Scale"}
    /\ TrickPlay \subseteq {"flush", "skip", "synchronize"}
    /\ InitFails \in BOOLEAN
    /\ {MaxLatency, MaxReorder, Workers} \subseteq Nat \ {0}
    /\ MinLatency \in Nat
    /\ RingCapacity \in Nat /\ RingCapacity >= MaxLatency

Invalid == -1       \* kInvalidTimestamp
NoFrame == -2       \* a null FrameCPU pointer
Unset == -3         \* nobody has filled in the TemporalBufferDesc: the code sees a 0
Stamp == Time \cup {Invalid, Unset, 0}

VARIABLES frames,       \* m_frames: the frame of every timestamp
          reorder,      \* m_reorderIndex: timestamps, increasing
          processing,   \* m_processingIndex: timestamps in the order they started
          previous,     \* m_previousTimestamp
          lastGood,     \* m_lastGoodTimestamp
          configured,   \* the configuration pool holds a parsed global configuration
          baseOut,      \* m_basePictureOutBuffer
          available,    \* m_outputPictureAvailableBuffer
          buffer,       \* the temporal buffer: who holds it, and its desc.timestamp
          busy,         \* tasks that are half way through and keep a worker thread
          api,          \* where the API call under way has got to
          sent,         \* timestamps of the enhancement data and base pictures accepted
          returned,     \* base pictures the client has received back
          owned,        \* output pictures the client has
          decoded,      \* history: frames with a good configuration, in starting order
          kept,         \* history: the frame that last released the temporal buffer
          strayed       \* history: the buffer was handed to a frame that had not asked for it

clientVars == <<sent, returned, owned>>
orderVars == <<reorder, processing, previous, lastGood, configured>>
pastVars == <<decoded, kept, strayed>>
vars == <<frames, orderVars, baseOut, available, buffer, busy, api, clientVars, pastVars>>

-----------------------------------------------------------------------------
(* Frames and their tasks. *)

Input == {"base", "output", "temporal"}
Task == {"Read",        \* ConvertToInternal or Passthrough: defers to slices
         "Slices",      \* the rows of Read; their end meets the output of Read
         "Add",         \* residuals and ApplyAddTemporal
         "Release",     \* TemporalRelease
         "OutputDone", "BaseDone"}

FrameRec == [phase : {"None", "Reorder", "Processing", "Done"},
             kind : Kind, ready : BOOLEAN, skip : BOOLEAN, passthrough : BOOLEAN,
             good : BOOLEAN, base : Time \cup {NoPic}, baseSeen : BOOLEAN,
             output : Pic \cup {NoPic}, graph : {"none", "pass", "plain", "temporal"},
             added : SUBSET Task, met : SUBSET (Input \cup Task),
             baseNeeds : SUBSET Task, wants : Stamp, dep : BOOLEAN, holds : BOOLEAN]

NewFrame == [phase |-> "None", kind |-> "bad", ready |-> FALSE, skip |-> FALSE,
             passthrough |-> FALSE, good |-> FALSE, base |-> NoPic, baseSeen |-> FALSE,
             output |-> NoPic, graph |-> "none", added |-> {}, met |-> {},
             baseNeeds |-> {}, wants |-> Unset, dep |-> FALSE, holds |-> FALSE]

Live(t) == frames[t].phase # "None"

Needs(f, task) ==
    CASE task = "Read"       -> IF f.graph = "pass" THEN {"base", "output"} ELSE {"base"}
      [] task = "Slices"     -> {"Read"}
      [] task = "Add"        -> {"temporal", "Slices"}
      [] task = "Release"    -> {"Add"}
      [] task = "OutputDone" -> {"output", IF f.graph = "temporal" THEN "Add" ELSE "Slices"}
      [] task = "BaseDone"   -> f.baseNeeds

Finished(f) == f.added \subseteq f.met

(* The inputs canComplete() asks for: temporal only once its dependency is recorded. *)
HasInputs(f) == {"base", "output"} \cup (IF f.dep THEN {"temporal"} ELSE {}) \subseteq f.met
(* Mutant: the output picture is not needed. *)
canCompleteBase(f) == f.phase = "Processing" /\ "base" \in f.met

canComplete(f) == f.phase = "Processing" /\ HasInputs(f)

Init ==
    /\ frames = [t \in Time |-> NewFrame]
    /\ reorder = <<>> /\ processing = <<>> /\ decoded = <<>>
    /\ previous = Invalid /\ lastGood = Invalid /\ configured = FALSE
    /\ baseOut = <<>> /\ available = <<>>
    /\ buffer = [owner |-> NoFrame, stamp |-> Invalid] /\ kept = Invalid /\ strayed = FALSE
    /\ busy = {}
    /\ api = [pc |-> "idle", frame |-> NoFrame, index |-> 0, then |-> "idle"]
    /\ sent = [enhancement |-> {}, base |-> {}]
    /\ returned = {} /\ owned = Pic

At(pc) == api.pc = pc
Goto(pc) == api' = [api EXCEPT !.pc = pc]
GotoFrame(pc, t) == api' = [api EXCEPT !.pc = pc, !.frame = t]
StartReady(then) == api' = [pc |-> "start", frame |-> NoFrame, index |-> 0, then |-> then]

-----------------------------------------------------------------------------
(* Sending: what each call does before startReadyFrames(). *)

frameLatency == Len(reorder) + Len(processing)

(* Mutant: the frame goes to the end. *)
InsertedLast(t) == Append(reorder, t)

(* Vector::insert() with sortFramePtrTimestamp: before the first that is    *)
(* later, which a binary search finds.                                     *)
Spot(t) == CHOOSE i \in 1 .. Len(reorder) + 1 :
              /\ \A j \in 1 .. i - 1 : reorder[j] < t
              /\ \A j \in i .. Len(reorder) : t < reorder[j]
Inserted(t) == InsertAt(reorder, Spot(t), t)

SendEnhancement(t, kind) ==
    /\ At("idle")
    /\ t \notin sent.enhancement /\ ~Live(t) /\ frameLatency < MaxLatency
    /\ frames' = [frames EXCEPT ![t] = [NewFrame EXCEPT !.phase = "Reorder", !.kind = kind]]
    /\ reorder' = Inserted(t)
    /\ sent' = [sent EXCEPT !.enhancement = @ \cup {t}]
    /\ StartReady("idle")
    /\ UNCHANGED <<processing, previous, lastGood, configured, baseOut, available,
                   buffer, busy, returned, owned, pastVars>>

WithBase(f, t) ==
    [f EXCEPT !.base = t, !.baseSeen = TRUE, !.met = @ \cup {"base"}]
(* startProcessing(), flush() and peek(): frames up to t need not wait for more. *)
Readied(fs, t) ==
    [s \in Time |-> IF fs[s].phase = "Reorder" /\ s <= t THEN [fs[s] EXCEPT !.ready = TRUE]
                                                       ELSE fs[s]]

(* A base picture whose enhancement data is here already. *)
SendBase(t) ==
    /\ At("idle")
    /\ t \notin sent.base /\ Live(t) /\ frames[t].base = NoPic
    /\ frames' = Readied([frames EXCEPT ![t] = WithBase(frames[t], t)], t)
    /\ sent' = [sent EXCEPT !.base = @ \cup {t}]
    /\ StartReady("idle")
    /\ UNCHANGED <<orderVars, baseOut, available, buffer, busy, returned, owned, pastVars>>

(* A base picture without enhancement data becomes a frame that passes it on. *)
SendBaseAlone(t) ==
    /\ At("idle")
    /\ t \notin sent.base /\ ~Live(t) /\ Passthrough # "Disable"
    /\ frames' = [frames EXCEPT ![t] =
         WithBase([NewFrame EXCEPT !.phase = "Reorder", !.ready = TRUE, !.passthrough = TRUE], t)]
    /\ reorder' = Inserted(t)
    /\ sent' = [sent EXCEPT !.base = @ \cup {t}]
    /\ StartReady("idle")
    /\ UNCHANGED <<processing, previous, lastGood, configured, baseOut, available,
                   buffer, busy, returned, owned, pastVars>>

SendOutput(p) ==
    /\ At("idle")
    /\ p \in owned
    /\ Len(available) <= MaxLatency /\ Len(available) < RingCapacity
    /\ owned' = owned \ {p}
    /\ available' = Append(available, p)
    /\ Goto("connect")
    /\ UNCHANGED <<frames, orderVars, baseOut, buffer, busy, sent, returned, pastVars>>

(* Peek and flush. *)
MakeReady(t) ==
    /\ At("idle") /\ "flush" \in TrickPlay
    /\ frames' = Readied(frames, t)
    /\ StartReady("idle")
    /\ UNCHANGED <<orderVars, baseOut, available, buffer, busy, clientVars, pastVars>>

Skip(t) ==
    /\ At("idle") /\ "skip" \in TrickPlay
    /\ frames' = [s \in Time |-> IF Live(s) /\ s <= t
                                 THEN [frames[s] EXCEPT !.skip = TRUE, !.ready = TRUE]
                                 ELSE frames[s]]
    /\ StartReady("idle")
    /\ UNCHANGED <<orderVars, baseOut, available, buffer, busy, clientVars, pastVars>>

Synchronize(drop) ==
    /\ At("idle") /\ "synchronize" \in TrickPlay
    /\ frames' = [s \in Time |-> IF Live(s) THEN [frames[s] EXCEPT !.skip = drop] ELSE frames[s]]
    /\ StartReady("sync")
    /\ UNCHANGED <<orderVars, baseOut, available, buffer, busy, clientVars, pastVars>>

-----------------------------------------------------------------------------
(* startReadyFrames() and generateTasks(). *)

getNextReordered ==
    reorder # <<>> /\ (Len(reorder) >= MaxReorder \/ frames[Head(reorder)].ready)

Late(t) == previous # Invalid /\ previous > t

(* The configuration of the first frame is parsed and the frame is started. *)
StartFrame ==
    /\ At("start") /\ getNextReordered
    /\ LET t == Head(reorder)
           passed == frames[t].passthrough \/ Late(t)
           good == ~passed /\ frames[t].kind # "bad"
       IN  /\ \E failed \in IF InitFails THEN BOOLEAN ELSE {FALSE} :
                frames' = [frames EXCEPT ![t] =
                    [frames[t] EXCEPT !.phase = "Processing", !.good = good,
                                      !.passthrough = ~good \/ failed]]
           /\ reorder' = Tail(reorder)
           /\ processing' = Append(processing, t)
           /\ decoded' = IF good THEN Append(decoded, t) ELSE decoded
           /\ configured' = (configured \/ good)
           /\ GotoFrame("generate", t)
    /\ UNCHANGED <<previous, lastGood, baseOut, available, buffer, busy, clientVars, kept, strayed>>

(* connectOutputPictures(), after startReadyFrames() and when a picture      *)
(* arrives: the first output picture goes to the first frame in processing *)
(* that has seen its base, as long as there are both.                      *)
WithoutOutput ==
    {i \in 1 .. Len(processing) :
        frames[processing[i]].output = NoPic /\ frames[processing[i]].baseSeen}
NextWithoutOutput == processing[CHOOSE i \in WithoutOutput : \A j \in WithoutOutput : i <= j]
MayConnect == available # <<>> /\ WithoutOutput # {}

ConnectOutput ==
    /\ At("connect") \/ (At("start") /\ ~getNextReordered)
    /\ MayConnect
    /\ LET t == NextWithoutOutput
       IN  frames' = [frames EXCEPT ![t] =
              [frames[t] EXCEPT !.output = Head(available), !.met = @ \cup {"output"}]]
    /\ available' = Tail(available)
    /\ UNCHANGED <<orderVars, baseOut, buffer, busy, api, clientVars, pastVars>>

OutputConnected ==
    /\ At("connect") /\ ~MayConnect
    /\ StartReady("idle")
    /\ UNCHANGED <<frames, orderVars, baseOut, available, buffer, busy, clientVars, pastVars>>

(* The frames that are ready are started, and there is nothing to connect. *)
StartEnd ==
    /\ At("start") /\ ~getNextReordered /\ ~MayConnect
    /\ api' = [api EXCEPT !.pc = api.then, !.index = 1]
    /\ UNCHANGED <<frames, orderVars, baseOut, available, buffer, busy, clientVars, pastVars>>

GraphOf(f) ==
    IF f.passthrough
    THEN IF Passthrough # "Scale" \/ ~configured THEN "pass" ELSE "plain"
    ELSE IF f.kind = "plain" THEN "plain" ELSE "temporal"

(* The tasks that read the base are added first. *)
Generate ==
    /\ At("generate")
    /\ LET f == frames[api.frame]
           graph == GraphOf(f)
           now == IF graph = "temporal" THEN {"Read"} ELSE {"Read", "OutputDone"}
       IN  /\ frames' = [frames EXCEPT ![api.frame] =
                            [f EXCEPT !.graph = graph, !.added = @ \cup now]]
           /\ Goto(IF graph = "temporal" THEN "require" ELSE "findBase")
    /\ UNCHANGED <<orderVars, baseOut, available, buffer, busy, clientVars, pastVars>>

(* requireTemporalBuffer() writes the description with no lock held ... *)
RequireBuffer ==
    /\ At("require")
    /\ frames' = [frames EXCEPT ![api.frame] = [frames[api.frame] EXCEPT !.wants = lastGood]]
    /\ Goto("match")
    /\ UNCHANGED <<orderVars, baseOut, available, buffer, busy, clientVars, pastVars>>

(* ... then the dependency, and looks for a buffer that is free. *)

(* Mutant: a buffer in use matches too. *)
MatchesInUse(f) ==
    buffer.stamp = f.wants \/ (f.kind = "refresh" /\ buffer.stamp = Invalid)
(* Mutant: any buffer that is free matches. *)
MatchesAny(f) == buffer.owner = NoFrame

Matches(f) ==
    /\ buffer.owner = NoFrame
    /\ buffer.stamp = f.wants \/ (f.kind = "refresh" /\ buffer.stamp = Invalid)
MatchBuffer ==
    /\ At("match")
    /\ LET t == api.frame
           f == [frames[t] EXCEPT !.dep = TRUE,
                                  !.added = @ \cup {"Add", "Release", "OutputDone"}]
       IN  IF Matches(f)
           THEN /\ frames' = [frames EXCEPT ![t] =
                       [f EXCEPT !.holds = TRUE, !.met = @ \cup {"temporal"}]]
                /\ buffer' = [owner |-> t, stamp |-> f.wants]
           ELSE frames' = [frames EXCEPT ![t] = f] /\ UNCHANGED buffer
    /\ Goto("findBase")
    /\ UNCHANGED <<orderVars, baseOut, available, busy, clientVars, pastVars>>

(* ldcTaskGroupFindOutputSetFromInput() on the base: the task in the group  *)
(* that reads the base, or the slices that took over its inputs.            *)

(* Mutant: the slices a task deferred to do not take over its inputs. *)
BaseReadersParent(f) ==
    IF f.graph = "pass" \/ "Read" \notin f.met THEN {"Slices"} ELSE {}

BaseReaders(f) ==
    IF f.graph = "pass" \/ "Slices" \notin f.met THEN {"Slices"} ELSE {}
FindBase ==
    /\ At("findBase")
    /\ LET f == frames[api.frame]
       IN  /\ frames' = [frames EXCEPT ![api.frame] =
                [f EXCEPT !.baseNeeds = BaseReaders(f), !.added = @ \cup {"BaseDone"}]]
           /\ lastGood' = IF f.good THEN api.frame ELSE lastGood
    /\ previous' = api.frame
    /\ GotoFrame("start", NoFrame)
    /\ UNCHANGED <<reorder, processing, configured, baseOut, available, buffer,
                   busy, clientVars, pastVars>>

-----------------------------------------------------------------------------
(* Tasks. *)

Runnable(t, task) ==
    /\ Cardinality(busy) < Workers
    /\ task \in frames[t].added \ frames[t].met
    /\ Needs(frames[t], task) \subseteq frames[t].met
    /\ \A b \in busy : <<b.frame, b.task>> # <<t, task>>

Met(fs, t, done) == [fs EXCEPT ![t] = [fs[t] EXCEPT !.met = @ \cup done]]

(* Mutant: a task that has nothing to do does not meet its output. *)
RunReadNoOutput(t) ==
    /\ Runnable(t, "Read")
    /\ frames' = [frames EXCEPT ![t] =
         IF frames[t].skip THEN [frames[t] EXCEPT !.met = @ \cup {"Read"}]
         ELSE [frames[t] EXCEPT !.met = @ \cup {"Read"}, !.added = @ \cup {"Slices"}]]
    /\ UNCHANGED <<orderVars, baseOut, available, buffer, busy, api, clientVars, pastVars>>

(* The task that reads the base defers to slices, unless the frame is skipped. *)
RunRead(t) ==
    /\ Runnable(t, "Read")
    /\ frames' = [frames EXCEPT ![t] =
         IF frames[t].skip THEN [frames[t] EXCEPT !.met = @ \cup {"Read", "Slices"}]
         ELSE [frames[t] EXCEPT !.met = @ \cup {"Read"}, !.added = @ \cup {"Slices"}]]
    /\ UNCHANGED <<orderVars, baseOut, available, buffer, busy, api, clientVars, pastVars>>

RunSlices(t) ==
    /\ Runnable(t, "Slices")
    /\ frames' = Met(frames, t, {"Slices"})
    /\ UNCHANGED <<orderVars, baseOut, available, buffer, busy, api, clientVars, pastVars>>

(* taskApplyAddTemporal() of a frame that is not skipped. *)
Drops(f) == f.skip \/ f.passthrough
RunAdd(t) ==
    /\ Runnable(t, "Add") /\ ~Drops(frames[t])
    /\ frames' = Met(frames, t, {"Add"})
    /\ UNCHANGED <<orderVars, baseOut, available, buffer, busy, api, clientVars, pastVars>>

(* The first frame in processing whose description asks for the buffer of t, *)
(* or, when t is 0, has not been filled in.                                  *)
Filled(wants) == IF wants = Unset THEN 0 ELSE wants
NextHolders(t) ==
    {i \in 1 .. Len(processing) : Filled(frames[processing[i]].wants) = t}
NextHolder(t) ==
    processing[CHOOSE i \in NextHolders(t) : \A j \in NextHolders(t) : i <= j]

(* releaseTemporalBuffer(): under the lock the buffer changes hands; whether *)
(* the next holder is told of it is a step of its own.                       *)
RunRelease(t, task) ==
    /\ Runnable(t, task)
    /\ task = "Release" \/ (task = "Add" /\ Drops(frames[t]))
    /\ IF ~frames[t].holds
       THEN /\ frames' = Met(frames, t, {task})
            /\ UNCHANGED <<buffer, busy, kept, strayed>>
       ELSE /\ kept' = t
            /\ IF NextHolders(t) = {}
               THEN /\ frames' = [frames EXCEPT ![t] =
                          [frames[t] EXCEPT !.holds = FALSE, !.met = @ \cup {task}]]
                    /\ buffer' = [owner |-> NoFrame, stamp |-> t]
                    /\ UNCHANGED <<busy, strayed>>
               ELSE /\ frames' = [frames EXCEPT ![t].holds = FALSE,
                                                ![NextHolder(t)].holds = TRUE]
                    /\ buffer' = [owner |-> NextHolder(t), stamp |-> t]
                    /\ busy' = busy \cup {[frame |-> t, task |-> task, next |-> NextHolder(t)]}
                    /\ strayed' = (strayed \/ frames[NextHolder(t)].wants = Unset)
    /\ UNCHANGED <<orderVars, baseOut, available, api, clientVars, decoded>>

(* The end of a release that found a next holder.  Without a dependency in  *)
(* the next frame yet, ldcTaskDependencyMet() has nothing valid to meet.     *)
HandOver(b) ==
    /\ b.task # "BaseDone"
    /\ buffer' = [buffer EXCEPT !.stamp = Filled(frames[b.next].wants)]
    /\ LET told == IF frames[b.next].dep THEN {"temporal"} ELSE {}
       IN  frames' = Met(Met(frames, b.next, told), b.frame, {b.task})
    /\ busy' = busy \ {b}
    /\ UNCHANGED <<orderVars, baseOut, available, api, clientVars, pastVars>>

RunOutputDone(t) ==
    /\ Runnable(t, "OutputDone")
    /\ frames' = [frames EXCEPT ![t] =
                    [frames[t] EXCEPT !.phase = "Done", !.met = @ \cup {"OutputDone"}]]
    /\ UNCHANGED <<orderVars, baseOut, available, buffer, busy, api, clientVars, pastVars>>

(* Mutant: the frame keeps the base picture. *)
GiveBackKeep(t) ==
    /\ baseOut' = Append(baseOut, frames[t].base)
    /\ frames' = [frames EXCEPT ![t] = [frames[t] EXCEPT !.met = @ \cup {"BaseDone"}]]

(* The base goes back to the client through a FIFO; the task waits for room. *)
GiveBack(t) ==
    /\ baseOut' = Append(baseOut, frames[t].base)
    /\ frames' = [frames EXCEPT ![t] =
                    [frames[t] EXCEPT !.base = NoPic, !.met = @ \cup {"BaseDone"}]]

RunBaseDone(t) ==
    /\ Runnable(t, "BaseDone")
    /\ IF Len(baseOut) < RingCapacity
       THEN GiveBack(t) /\ UNCHANGED busy
       ELSE /\ busy' = busy \cup {[frame |-> t, task |-> "BaseDone", next |-> NoFrame]}
            /\ UNCHANGED <<baseOut, frames>>
    /\ UNCHANGED <<orderVars, available, buffer, api, clientVars, pastVars>>
PushBase(b) ==
    /\ b.task = "BaseDone" /\ Len(baseOut) < RingCapacity
    /\ GiveBack(b.frame)
    /\ busy' = busy \ {b}
    /\ UNCHANGED <<orderVars, available, buffer, api, clientVars, pastVars>>

-----------------------------------------------------------------------------
(* Receiving. *)

ReceiveBase ==
    /\ At("idle") /\ baseOut # <<>>
    /\ returned' = returned \cup {Head(baseOut)}
    /\ baseOut' = Tail(baseOut)
    /\ UNCHANGED <<frames, orderVars, available, buffer, busy, api, sent, owned, pastVars>>

ReceiveOutput ==
    /\ At("idle") /\ processing # <<>>
    /\ Goto("receive")
    /\ UNCHANGED <<frames, orderVars, baseOut, available, buffer, busy, clientVars, pastVars>>

(* The first frame in processing is worth waiting for. *)
Waits == Len(processing) > MinLatency /\ canComplete(frames[Head(processing)])

ReceiveTake ==
    /\ At("receive") /\ frames[Head(processing)].phase = "Done"
    /\ processing' = Tail(processing)
    /\ GotoFrame("free", Head(processing))
    /\ UNCHANGED <<frames, reorder, previous, lastGood, configured, baseOut,
                   available, buffer, busy, clientVars, pastVars>>
ReceiveNothing ==
    /\ At("receive") /\ frames[Head(processing)].phase # "Done" /\ ~Waits
    /\ Goto("idle")
    /\ UNCHANGED <<frames, orderVars, baseOut, available, buffer, busy, clientVars, pastVars>>

(* Mutant: a frame that is done is freed without waiting for its tasks. *)
FreeFrameAtOnce ==
    /\ At("free")
    /\ owned' = owned \cup {frames[api.frame].output}
    /\ frames' = [frames EXCEPT ![api.frame] = NewFrame]
    /\ GotoFrame("idle", NoFrame)
    /\ UNCHANGED <<orderVars, baseOut, available, buffer, busy, sent, returned, pastVars>>

(* freeFrame() waits for every task of the frame. *)
FreeFrame ==
    /\ At("free") /\ Finished(frames[api.frame])
    /\ owned' = owned \cup {frames[api.frame].output}
    /\ frames' = [frames EXCEPT ![api.frame] = NewFrame]
    /\ GotoFrame("idle", NoFrame)
    /\ UNCHANGED <<orderVars, baseOut, available, buffer, busy, sent, returned, pastVars>>

(* Mutant: synchronize() also waits for frames that cannot complete. *)
SyncNextAll ==
    /\ At("sync") /\ api.index <= Len(processing)
    /\ Goto("syncWait")
    /\ UNCHANGED <<frames, orderVars, baseOut, available, buffer, busy, clientVars, pastVars>>

(* synchronize() goes through the frames in processing, looks once at each   *)
(* and, if it can complete, waits for every task of it.                      *)
SyncNext ==
    /\ At("sync") /\ api.index <= Len(processing)
    /\ IF canComplete(frames[processing[api.index]])
       THEN Goto("syncWait") ELSE api' = [api EXCEPT !.index = @ + 1]
    /\ UNCHANGED <<frames, orderVars, baseOut, available, buffer, busy, clientVars, pastVars>>
SyncWaited ==
    /\ At("syncWait") /\ Finished(frames[processing[api.index]])
    /\ api' = [api EXCEPT !.pc = "sync", !.index = @ + 1]
    /\ UNCHANGED <<frames, orderVars, baseOut, available, buffer, busy, clientVars, pastVars>>
SyncEnd ==
    /\ At("sync") /\ api.index > Len(processing)
    /\ Goto("idle")
    /\ UNCHANGED <<frames, orderVars, baseOut, available, buffer, busy, clientVars, pastVars>>

-----------------------------------------------------------------------------

ClientCall ==
    \/ \E t \in Time : \E kind \in Kinds : SendEnhancement(t, kind)
    \/ \E t \in Time : SendBase(t)
    \/ \E t \in Time : SendBaseAlone(t)
    \/ \E p \in Pic : SendOutput(p)
    \/ \E t \in Time : MakeReady(t)
    \/ \E t \in Time : Skip(t)
    \/ \E drop \in BOOLEAN : Synchronize(drop)
    \/ ReceiveBase
    \/ ReceiveOutput

ApiStep ==
    \/ ConnectOutput \/ OutputConnected \/ StartFrame \/ StartEnd
    \/ Generate \/ RequireBuffer \/ MatchBuffer \/ FindBase
    \/ ReceiveTake \/ ReceiveNothing \/ FreeFrame
    \/ SyncNext \/ SyncWaited \/ SyncEnd

WorkerStep ==
    \/ \E t \in Time : RunRead(t)
    \/ \E t \in Time : RunSlices(t)
    \/ \E t \in Time : RunAdd(t)
    \/ \E t \in Time : \E task \in {"Add", "Release"} : RunRelease(t, task)
    \/ \E t \in Time : RunOutputDone(t)
    \/ \E t \in Time : RunBaseDone(t)
    \/ \E b \in busy : HandOver(b)
    \/ \E b \in busy : PushBase(b)

Next == ClientCall \/ ApiStep \/ WorkerStep

Spec == Init /\ [][Next]_vars

(* A call that has begun goes on, and so do the worker threads; the client  *)
(* is under no obligation to call.                                          *)
FairSpec == Spec /\ WF_vars(ApiStep) /\ WF_vars(WorkerStep)

-----------------------------------------------------------------------------
(* Properties. *)

(* Every variable has its type, and the two FIFOs never hold more pictures   *)
(* than fit: a full FIFO of bases makes taskBaseDone() wait.                 *)
TypeOK ==
    /\ frames \in [Time -> FrameRec]
    /\ reorder \in Seq(Time) /\ processing \in Seq(Time) /\ decoded \in Seq(Time)
    /\ {previous, lastGood, kept} \subseteq Time \cup {Invalid}
    /\ configured \in BOOLEAN
    /\ baseOut \in Seq(Time) /\ Len(baseOut) <= RingCapacity
    /\ available \in Seq(Pic) /\ Len(available) <= RingCapacity
    /\ buffer \in [owner : Time \cup {NoFrame}, stamp : Stamp]
    /\ busy \subseteq [frame : Time, task : Task, next : Time \cup {NoFrame}]
    /\ Cardinality(busy) <= Workers
    /\ api \in [pc : {"idle", "start", "generate", "require", "match", "findBase",
                      "receive", "free", "sync", "syncWait", "connect"},
                frame : Time \cup {NoFrame}, index : Nat, then : {"idle", "sync"}]
    /\ sent \in [enhancement : SUBSET Time, base : SUBSET Time]
    /\ returned \subseteq Time /\ owned \subseteq Pic /\ strayed \in BOOLEAN

(* The table of frames and the two indexes agree: a live frame is in exactly *)
(* one of them, by its phase, unless it is being freed; the reorder index is *)
(* sorted by timestamp, whatever order the data arrived in.  And the frames  *)
(* alive never outnumber maxLatency, as allocateFrame() asserts; a base that *)
(* is passed on alone gets a frame without a check, when that is not off.    *)
IndexesAgree ==
    LET freed == IF At("free") THEN {api.frame} ELSE {}
    IN  /\ ToSet(reorder) = {t \in Time : frames[t].phase = "Reorder"}
        /\ ToSet(processing) = {t \in Time : frames[t].phase \in {"Processing", "Done"}} \ freed
        /\ \A i, j \in 1 .. Len(reorder) : i < j => reorder[i] < reorder[j]
        /\ Cardinality(ToSet(processing)) = Len(processing)
        /\ Passthrough = "Disable" => Cardinality({t \in Time : Live(t)}) <= MaxLatency

(* Every base picture the decoder accepted is in exactly one place: with its *)
(* frame, in the FIFO of finished bases, or back with the client.  None is   *)
(* lost when its frame is freed and none is returned twice.  And every output *)
(* picture is with the client, available, or attached to one frame.          *)
PicturesAccounted ==
    /\ \A t \in sent.base :
          Cardinality({s \in Time : frames[s].base = t})
          + Cardinality({i \in 1 .. Len(baseOut) : baseOut[i] = t})
          + Cardinality({t} \cap returned) = 1
    /\ \A p \in Pic :
          Cardinality({p} \cap owned)
          + Cardinality({i \in 1 .. Len(available) : available[i] = p})
          + Cardinality({t \in Time : frames[t].output = p}) = 1

(* A base picture is not given back while a task of its frame still reads    *)
(* it, even if those tasks ran, and deferred their work to slices, before    *)
(* generateTasksEnhancement() asked the group which tasks read the base.     *)
BaseHeldWhileRead ==
    \A t \in Time : "base" \in frames[t].met /\ "Slices" \notin frames[t].met
                        => frames[t].base = t

(* The temporal buffer has one holder at most, and buffer and frame agree on *)
(* who it is, through matches by the API thread and hand-overs by workers.   *)
(* This and the next two properties end when releaseTemporalBuffer() takes a *)
(* description that nobody has filled in for one that asks for timestamp 0:  *)
(* the frame it hands the buffer to may be freed with it.                    *)
BufferHasOneHolder ==
    ~strayed => {t \in Time : frames[t].holds} = {buffer.owner} \ {NoFrame}

(* A frame that adds to earlier residuals has those of the good frame that   *)
(* was started just before it, however the frames' tasks overlap.            *)
Predecessor(t) ==
    LET i == CHOOSE j \in 1 .. Len(decoded) : decoded[j] = t
    IN  IF i = 1 THEN Invalid ELSE decoded[i - 1]
ResidualsFromPredecessor ==
    \A t \in Time :
        frames[t].holds /\ frames[t].dep /\ frames[t].kind = "temporal" /\ ~strayed
            => kept = Predecessor(t)

(* A task that is half way through belongs to a live frame, and the frame it *)
(* is about to hand the temporal buffer to is live and not done.             *)
HandOverTargetLives ==
    \A b \in busy : /\ Live(b.frame)
                    /\ b.next # NoFrame /\ ~strayed => frames[b.next].phase = "Processing"

(* The frame that holds the temporal buffer knows of it, once no hand-over   *)
(* to it is under way: its dependency is met and its tasks go on.  The       *)
(* comment on requireTemporalBuffer() says the buffer "will be connected     *)
(* later when another frame releases it".                                    *)
BufferHolderTold ==
    \A t \in Time : frames[t].holds /\ (\A b \in busy : b.next # t)
                        => "temporal" \in frames[t].met

(* Workers that wait in taskBaseDone() for room in the FIFO of finished bases, *)
(* which only a call of the client can make.                                 *)
Stuck == {b \in busy : b.task = "BaseDone" /\ Len(baseOut) = RingCapacity}
AllStuck == Cardinality(Stuck) = Workers

(* A frame whose base and output are there, and that needs no temporal       *)
(* buffer, is decoded with no further call of the client, unless all workers *)
(* wait for room for bases from then on.                                     *)
FrameFinishes ==
    \A t \in Time :
        (frames[t].phase = "Processing" /\ frames[t].graph \in {"pass", "plain"}
            /\ {"base", "output"} \subseteq frames[t].met)
        ~> (frames[t].phase # "Processing" \/ []AllStuck)

(* receiveOutputPicture() and synchronize() return without another call: a   *)
(* frame that can complete does, and so do all of its tasks, unless one of   *)
(* them, or every worker, waits for room for a base, which the client cannot *)
(* make as the call under way has the decoder's lock.                        *)
Starved(t) == AllStuck \/ \E b \in Stuck : b.frame = t

ReceiveReturns ==
    api.pc \in {"receive", "free"}
        ~> (At("idle") \/ [](At("receive") /\ AllStuck) \/ [](At("free") /\ Starved(api.frame)))
SynchronizeReturns ==
    api.pc \in {"sync", "syncWait"}
        ~> (At("idle") \/ [](At("syncWait") /\ Starved(processing[api.index])))

=============================================================================
