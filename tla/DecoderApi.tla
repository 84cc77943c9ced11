----------------------------- MODULE DecoderApi -----------------------------
(***************************************************************************)
(* The API over a pipeline: decoders found through handles, the two locks  *)
(* every call takes, the pools of pictures and of picture locks, the queue *)
(* and thread that deliver events, and the destruction of a decoder while  *)
(* that thread still drains its queue.  The pipeline is reduced to where a *)
(* picture is and to the two tasks that announce one; PipelineCPU models   *)
(* the rest.  Payloads, descriptions and results are left out.             *)
(*                                                                         *)
(* Clients keep to the documented use: a thread does not present a handle  *)
(* another one is presenting, a picture is freed or sent only when it is   *)
(* idle and unlocked, and a decoder is destroyed when its pipeline is idle *)
(* and no thread, nor a callback, is in a call to it.                      *)
(***************************************************************************)
EXTENDS HandlePool, FiniteSets

CONSTANTS Client,           \* threads of the application
          Context,          \* decoder contexts, one for each LCEVC_CreateDecoder()
          Picture,          \* addresses of pictures; one that was freed is used again
          DecoderCapacity, PictureCapacity, LockCapacity,
          MaxCalls,         \* API calls in a run
          NoOne

ASSUME ApiAssumption == /\ MaxCalls \in Nat /\ 2 * MaxCalls < Generations
                        /\ NoObject \notin Context \cup Picture
                        /\ DecoderCapacity \in Nat /\ PictureCapacity \in Nat
                        /\ LockCapacity \in Nat /\ PictureCapacity <= LockCapacity
                        /\ LockCapacity < NoIndex

VARIABLES decoderPool, decoderPoolMutex,
          life,             \* how far each context has come: unborn, created, initialized,
                            \* removed, released, poolsGone, pipelineGone, joining, freed
          m_mtx,            \* who holds each context
          picturePool, pictureLockPool,
          at,               \* where each picture of a context is
          sentAs,           \* history: the handle a picture was sent with
          locked,           \* pictures with a lock allocated
          basesDone,        \* m_basePictureOutBuffer
          configured,       \* event mask and callback are set
          m_eventQueue, thread,
          call, calls,      \* the call each thread is in, and how many were made
          generated, delivered  \* history: events queued, and handed to the callback

decoderVars == <<decoderPool, decoderPoolMutex, life, m_mtx, configured>>
pictureVars == <<picturePool, pictureLockPool, at, sentAs, locked, basesDone>>
eventVars == <<m_eventQueue, thread, generated, delivered>>
callVars == <<call, calls>>
vars == <<decoderVars, pictureVars, eventVars, callVars>>

Agent == Client \cup Context            \* a context stands for its event thread
NoCall == [op |-> "none", context |-> NoOne, handle |-> InvalidHandle, pc |-> "idle"]
NoEvent == [type |-> "none", picture |-> NoObject]
Event(type, p) == [type |-> type, picture |-> p]

InPipeline == {"base", "announced", "output"}

Init ==
    /\ decoderPool = NewPool(DecoderCapacity)
    /\ decoderPoolMutex = NoOne
    /\ life = [d \in Context |-> "unborn"]
    /\ m_mtx = [d \in Context |-> NoOne]
    /\ picturePool = [d \in Context |-> NewPool(PictureCapacity)]
    /\ pictureLockPool = [d \in Context |-> NewPool(LockCapacity)]
    /\ at = [d \in Context |-> [p \in Picture |-> "nowhere"]]
    /\ sentAs = [d \in Context |-> [p \in Picture |-> InvalidHandle]]
    /\ locked = [d \in Context |-> {}]
    /\ basesDone = [d \in Context |-> <<>>]
    /\ configured = [d \in Context |-> FALSE]
    /\ m_eventQueue = [d \in Context |-> <<>>]
    /\ thread = [d \in Context |-> [pc |-> "wait", event |-> NoEvent]]
    /\ call = [a \in Agent |-> NoCall]
    /\ calls = 0
    /\ generated = [d \in Context |-> <<>>]
    /\ delivered = [d \in Context |-> <<>>]

(* Events go to the queue only if they are enabled. *)
generate(d, events) ==
    /\ m_eventQueue' = [m_eventQueue EXCEPT ![d] = IF configured[d] THEN @ \o events ELSE @]
    /\ generated' = [generated EXCEPT ![d] = IF configured[d] THEN @ \o events ELSE @]
    /\ UNCHANGED <<thread, delivered>>

(* Handles add() has returned so far: odd generations up to the present one. *)
Made(pool) ==
    {h \in {handleMake(i, g) : i \in Slots(pool), g \in 1 .. 2 * MaxCalls + 1} :
        h.generation % 2 = 1 /\ h.generation <= pool.generations[h.index]}

-----------------------------------------------------------------------------
(* Calls.  An agent finds its decoder with the pool locked and keeps the    *)
(* pool locked until it has the decoder's own lock (LockedDecoder).         *)

MayCall(a) == /\ call[a].pc = "idle" /\ calls < MaxCalls
              /\ a \in Context => thread[a].pc = "callback"

(* Some call of b to decoder d has this handle, of a picture or of a lock. *)
Presents(b, d, op, h) == /\ call[b].context = d /\ call[b].handle = h
                         /\ call[b].op = "unlock" <=> op = "unlock"

(* What a client may ask of decoder d, as a set of (operation, handle). *)
Presentable(d) ==
    LET pictures == Made(picturePool[d])
        Idle(h) == LET p == lookup(picturePool[d], h)
                   IN  p # NoObject /\ at[d][p] = "idle" /\ p \notin locked[d]
        Stale(h) == ~isValid(picturePool[d], h)
    IN  {<<"configure", InvalidHandle>>, <<"initialize", InvalidHandle>>, <<"alloc", InvalidHandle>>,
         <<"receiveBase", InvalidHandle>>, <<"receivePicture", InvalidHandle>>,
         <<"synchronize", InvalidHandle>>}
        \cup ({"lock"} \X pictures)
        \cup ({"free"} \X {h \in pictures : Idle(h) \/ Stale(h)})
        \cup ({"sendBase", "sendPicture"} \X {h \in pictures : Idle(h)})
        \cup ({"unlock"} \X Made(pictureLockPool[d]))

(* Made calls name the decoder by the handle it has, or had: a decoder that *)
(* was removed is not found.                                                *)
LockedDecoder(a, h) ==
    LET d == lookup(decoderPool, h) IN
    /\ MayCall(a)
    /\ decoderPoolMutex = NoOne
    /\ calls' = calls + 1
    /\ IF d = NoObject
       THEN UNCHANGED <<decoderPoolMutex, call>>
       ELSE \E o \in Presentable(d) :
                /\ o[2] = InvalidHandle \/ \A b \in Agent : ~Presents(b, d, o[1], o[2])
                /\ decoderPoolMutex' = a
                /\ call' = [call EXCEPT ![a] =
                              [op |-> o[1], context |-> d, handle |-> o[2], pc |-> "locking"]]
    /\ UNCHANGED <<decoderPool, life, m_mtx, configured, pictureVars, eventVars>>

lock(a) ==
    LET d == call[a].context IN
    /\ call[a].pc = "locking"
    /\ m_mtx[d] = NoOne
    /\ m_mtx' = [m_mtx EXCEPT ![d] = a]
    /\ decoderPoolMutex' = NoOne
    /\ call' = [call EXCEPT ![a].pc = "inside"]
    /\ UNCHANGED <<decoderPool, life, configured, pictureVars, eventVars, calls>>

(* The call returns and ~LockedDecoder() lets the decoder go. *)
Leave(a) == /\ m_mtx' = [m_mtx EXCEPT ![call[a].context] = NoOne]
            /\ call' = [call EXCEPT ![a] = NoCall]
            /\ UNCHANGED <<calls, decoderPool, decoderPoolMutex>>

Inside(a, op) == call[a].pc = "inside" /\ call[a].op = op

Returns(a) == Leave(a) /\ UNCHANGED <<life, configured, pictureVars, eventVars>>

(* A call made too early, or too late, returns and does nothing. *)
WrongPhase(a) ==
    LET needed == IF call[a].op \in {"configure", "initialize"} THEN "created" ELSE "initialized" IN
    /\ call[a].pc = "inside"
    /\ life[call[a].context] # needed
    /\ Returns(a)

configure(a) ==
    LET d == call[a].context IN
    /\ Inside(a, "configure") /\ life[d] = "created"
    /\ configured' = [configured EXCEPT ![d] = TRUE]
    /\ Leave(a)
    /\ UNCHANGED <<life, pictureVars, eventVars>>

(* The pipeline announces that it takes data; the three events are one here. *)
initialize(a) ==
    LET d == call[a].context IN
    /\ Inside(a, "initialize") /\ life[d] = "created"
    /\ life' = [life EXCEPT ![d] = "initialized"]
    /\ generate(d, <<Event("CanSend", NoObject)>>)
    /\ Leave(a)
    /\ UNCHANGED <<configured, pictureVars>>

Running(a, op) == Inside(a, op) /\ life[call[a].context] = "initialized"

(* A picture for which the pool has no slot stays allocated. *)
AllocPicture(a) ==
    LET d == call[a].context IN
    /\ Running(a, "alloc")
    /\ IF \A p \in Picture : at[d][p] # "nowhere"
       THEN UNCHANGED <<picturePool, at>>
       ELSE \E p \in Picture :
                /\ at[d][p] = "nowhere"
                /\ at' = [at EXCEPT ![d][p] = "idle"]
                /\ picturePool' = [picturePool EXCEPT ![d] = add(@, p).pool]
    /\ Leave(a)
    /\ UNCHANGED <<life, configured, pictureLockPool, sentAs, locked, basesDone, eventVars>>

FreePicture(a) ==
    LET d == call[a].context
        p == lookup(picturePool[d], call[a].handle)
    IN  /\ Running(a, "free")
        /\ picturePool' = [picturePool EXCEPT ![d] = remove(@, call[a].handle)]
        /\ at' = IF p = NoObject THEN at ELSE [at EXCEPT ![d][p] = "nowhere"]
        /\ Leave(a)
        /\ UNCHANGED <<life, configured, pictureLockPool, sentAs, locked, basesDone, eventVars>>

(* Mutant: a picture that has a lock gets another one. *)
LockPictureTwice(a) ==
    LET d == call[a].context
        p == lookup(picturePool[d], call[a].handle)
    IN  /\ Running(a, "lock")
        /\ locked' = [locked EXCEPT ![d] = IF p = NoObject THEN @ ELSE @ \cup {p}]
        /\ pictureLockPool' = [pictureLockPool EXCEPT ![d] = IF p = NoObject THEN @ ELSE add(@, p).pool]
        /\ Leave(a)
        /\ UNCHANGED <<life, configured, picturePool, at, sentAs, basesDone, eventVars>>

(* One lock for a picture; the lock is an object in a pool of its own. *)
LockPicture(a) ==
    LET d == call[a].context
        p == lookup(picturePool[d], call[a].handle)
    IN  /\ Running(a, "lock")
        /\ IF p = NoObject \/ p \in locked[d]
           THEN UNCHANGED <<locked, pictureLockPool>>
           ELSE /\ locked' = [locked EXCEPT ![d] = @ \cup {p}]
                /\ pictureLockPool' = [pictureLockPool EXCEPT ![d] = add(@, p).pool]
        /\ Leave(a)
        /\ UNCHANGED <<life, configured, picturePool, at, sentAs, basesDone, eventVars>>

(* Mutant: the lock's handle is taken out of the pool of pictures. *)
UnlockPictureWrongPool(a) ==
    LET d == call[a].context
        p == lookup(pictureLockPool[d], call[a].handle)
    IN  /\ Running(a, "unlock")
        /\ picturePool' = [picturePool EXCEPT ![d] = remove(@, call[a].handle)]
        /\ locked' = [locked EXCEPT ![d] = @ \ {p}]
        /\ Leave(a)
        /\ UNCHANGED <<life, configured, pictureLockPool, at, sentAs, basesDone, eventVars>>

UnlockPicture(a) ==
    LET d == call[a].context
        p == lookup(pictureLockPool[d], call[a].handle)
    IN  /\ Running(a, "unlock")
        /\ pictureLockPool' = [pictureLockPool EXCEPT ![d] = remove(@, call[a].handle)]
        /\ locked' = [locked EXCEPT ![d] = @ \ {p}]
        /\ Leave(a)
        /\ UNCHANGED <<life, configured, picturePool, at, sentAs, basesDone, eventVars>>

Send(a, op, place) ==
    LET d == call[a].context
        p == lookup(picturePool[d], call[a].handle)
    IN  /\ Running(a, op)
        /\ at' = [at EXCEPT ![d][p] = place]
        /\ sentAs' = [sentAs EXCEPT ![d][p] = call[a].handle]
        /\ Leave(a)
        /\ UNCHANGED <<life, configured, picturePool, pictureLockPool, locked, basesDone, eventVars>>

SendDecoderBase(a) == Send(a, "sendBase", "base")
SendDecoderPicture(a) == Send(a, "sendPicture", "output")

ReceiveDecoderBase(a) ==
    LET d == call[a].context IN
    /\ Running(a, "receiveBase")
    /\ IF basesDone[d] = <<>>
       THEN UNCHANGED <<at, basesDone>>
       ELSE /\ at' = [at EXCEPT ![d][Head(basesDone[d])] = "idle"]
            /\ basesDone' = [basesDone EXCEPT ![d] = Tail(@)]
    /\ Leave(a)
    /\ UNCHANGED <<life, configured, picturePool, pictureLockPool, sentAs, locked, eventVars>>

ReceiveDecoderPicture(a) ==
    LET d == call[a].context
        done == {p \in Picture : at[d][p] = "outputDone"}
    IN  /\ Running(a, "receivePicture")
        /\ IF done = {} THEN UNCHANGED at
           ELSE \E p \in done : at' = [at EXCEPT ![d][p] = "idle"]
        /\ Leave(a)
        /\ UNCHANGED <<life, configured, picturePool, pictureLockPool, sentAs, locked, basesDone, eventVars>>

(* Waits, with the decoder locked, for the tasks of the frames under way. *)
SynchronizeDecoder(a) ==
    LET d == call[a].context IN
    /\ Running(a, "synchronize")
    /\ \A p \in Picture : at[d][p] \notin {"base", "announced"}
    /\ Returns(a)

-----------------------------------------------------------------------------
(* The pipeline's tasks, which take none of the API's locks.                *)

(* A base is announced first and can be received only then. *)
BaseAnnounced(d, p) ==
    /\ at[d][p] = "base"
    /\ at' = [at EXCEPT ![d][p] = "announced"]
    /\ generate(d, <<Event("BasePictureDone", p)>>)
    /\ UNCHANGED <<decoderVars, callVars, picturePool, pictureLockPool, sentAs, locked, basesDone>>

BasePushed(d, p) ==
    /\ at[d][p] = "announced"
    /\ at' = [at EXCEPT ![d][p] = "baseDone"]
    /\ basesDone' = [basesDone EXCEPT ![d] = Append(@, p)]
    /\ UNCHANGED <<decoderVars, callVars, eventVars, picturePool, pictureLockPool, sentAs, locked>>

(* Whether it has a base to be made from is left to PipelineCPU. *)
OutputDone(d, p) ==
    /\ at[d][p] = "output"
    /\ at' = [at EXCEPT ![d][p] = "outputDone"]
    /\ generate(d, <<Event("OutputPictureDone", p), Event("CanReceive", NoObject)>>)
    /\ UNCHANGED <<decoderVars, callVars, picturePool, pictureLockPool, sentAs, locked, basesDone>>

-----------------------------------------------------------------------------
(* The event thread of a decoder.                                           *)

getNextEvent(d) ==
    LET e == Head(m_eventQueue[d]) IN
    /\ thread[d].pc = "wait"
    /\ m_eventQueue[d] # <<>>
    /\ m_eventQueue' = [m_eventQueue EXCEPT ![d] = Tail(@)]
    /\ thread' = [thread EXCEPT ![d] =
                     [pc |-> CASE e.type = "Flush" -> "exited"
                               [] e.picture # NoObject -> "resolve"
                               [] OTHER -> "callback",
                      event |-> e]]
    /\ delivered' = [delivered EXCEPT ![d] =
                        IF e.type # "Flush" /\ e.picture = NoObject THEN Append(@, e) ELSE @]
    /\ UNCHANGED <<decoderVars, pictureVars, callVars, generated>>

(* The picture's handle is looked for with the decoder locked, in a pool    *)
(* that may be gone by then; whatever is found is passed on.                *)
resolve(d) ==
    /\ thread[d].pc = "resolve"
    /\ m_mtx[d] = NoOne
    /\ thread' = [thread EXCEPT ![d].pc = "callback"]
    /\ delivered' = [delivered EXCEPT ![d] = Append(@, thread[d].event)]
    /\ UNCHANGED <<decoderVars, pictureVars, callVars, m_eventQueue, generated>>

(* The callback returns; it may have made calls of its own. *)
CallbackReturns(d) ==
    /\ thread[d].pc = "callback"
    /\ call[d].pc = "idle"
    /\ thread' = [thread EXCEPT ![d].pc = "wait"]
    /\ UNCHANGED <<decoderVars, pictureVars, callVars, m_eventQueue, generated, delivered>>

-----------------------------------------------------------------------------
(* The life of a decoder.                                                   *)

CreateDecoder(c, d) ==
    LET r == add(decoderPool, d) IN
    /\ MayCall(c)
    /\ life[d] = "unborn"
    /\ ~Full(decoderPool)
    /\ decoderPoolMutex = NoOne
    /\ decoderPool' = r.pool
    /\ life' = [life EXCEPT ![d] = "created"]
    /\ calls' = calls + 1
    /\ UNCHANGED <<decoderPoolMutex, m_mtx, configured, call, pictureVars, eventVars>>

(* Taken out of the pool with the pool locked; the decoder's own lock is    *)
(* not taken.                                                               *)
decoderPoolRemove(c, h) ==
    LET d == lookup(decoderPool, h) IN
    /\ MayCall(c)
    /\ d # NoObject
    /\ decoderPoolMutex = NoOne
    /\ \A p \in Picture : at[d][p] \notin InPipeline
    /\ \A a \in Agent : call[a].context # d
    /\ decoderPool' = remove(decoderPool, h)
    /\ life' = [life EXCEPT ![d] = "removed"]
    /\ call' = [call EXCEPT ![c] = [op |-> "destroy", context |-> d, handle |-> InvalidHandle,
                                   pc |-> "destroying"]]
    /\ calls' = calls + 1
    /\ UNCHANGED <<decoderPoolMutex, m_mtx, configured, pictureVars, eventVars>>

Destroying(c, from) == call[c].pc = "destroying" /\ life[call[c].context] = from

Becomes(c, to) == life' = [life EXCEPT ![call[c].context] = to]

(* Locks first, then the pictures. *)
releasePools(c) ==
    LET d == call[c].context IN
    /\ Destroying(c, "removed")
    /\ Becomes(c, "released")
    /\ pictureLockPool' = [pictureLockPool EXCEPT ![d] = NewPool(LockCapacity)]
    /\ locked' = [locked EXCEPT ![d] = {}]
    /\ picturePool' = [picturePool EXCEPT ![d] = NewPool(PictureCapacity)]
    /\ at' = [at EXCEPT ![d] = [p \in Picture |-> "nowhere"]]
    /\ basesDone' = [basesDone EXCEPT ![d] = <<>>]
    /\ UNCHANGED <<decoderPool, decoderPoolMutex, m_mtx, configured, sentAs, eventVars, callVars>>

(* ~DecoderContext() takes its members down in the reverse of their order: *)
(* the pools, the pipeline, and the event dispatcher.                      *)
DestroyPools(c) ==
    /\ Destroying(c, "released")
    /\ Becomes(c, "poolsGone")
    /\ UNCHANGED <<decoderPool, decoderPoolMutex, m_mtx, configured, pictureVars, eventVars, callVars>>

DestroyPipeline(c) ==
    LET d == call[c].context
        initialized == \E k \in DOMAIN generated[d] : generated[d][k].type = "CanSend"
    IN  /\ Destroying(c, "poolsGone")
        /\ Becomes(c, "pipelineGone")
        /\ IF initialized THEN generate(d, <<Event("Exit", NoObject)>>) ELSE UNCHANGED eventVars
        /\ UNCHANGED <<decoderPool, decoderPoolMutex, m_mtx, configured, pictureVars, callVars>>

(* Mutant: what is queued is thrown away when the thread is told to stop. *)
releaseAtOnce(c) ==
    LET d == call[c].context IN
    /\ Destroying(c, "pipelineGone")
    /\ Becomes(c, "joining")
    /\ m_eventQueue' = [m_eventQueue EXCEPT ![d] = <<Event("Flush", NoObject)>>]
    /\ UNCHANGED <<decoderPool, decoderPoolMutex, m_mtx, configured, pictureVars, thread, generated, delivered, callVars>>

(* Mutant: the last event is masked like any other. *)
releaseMasked(c) ==
    LET d == call[c].context IN
    /\ Destroying(c, "pipelineGone")
    /\ Becomes(c, "joining")
    /\ generate(d, <<Event("Flush", NoObject)>>)
    /\ UNCHANGED <<decoderPool, decoderPoolMutex, m_mtx, configured, pictureVars, callVars>>

(* A last event, enabled or not, ends the thread once it has delivered all *)
(* that were queued before it.                                             *)
release(c) ==
    LET d == call[c].context IN
    /\ Destroying(c, "pipelineGone")
    /\ Becomes(c, "joining")
    /\ m_eventQueue' = [m_eventQueue EXCEPT ![d] = Append(@, Event("Flush", NoObject))]
    /\ UNCHANGED <<decoderPool, decoderPoolMutex, m_mtx, configured, pictureVars, thread, generated, delivered, callVars>>

Join(c) ==
    /\ Destroying(c, "joining")
    /\ thread[call[c].context].pc = "exited"
    /\ Becomes(c, "freed")
    /\ call' = [call EXCEPT ![c] = NoCall]
    /\ UNCHANGED <<decoderPool, decoderPoolMutex, m_mtx, configured, calls, pictureVars, eventVars>>

-----------------------------------------------------------------------------
Body(a) == \/ WrongPhase(a) \/ configure(a) \/ initialize(a)
           \/ AllocPicture(a) \/ FreePicture(a) \/ LockPicture(a) \/ UnlockPicture(a)
           \/ SendDecoderBase(a) \/ ReceiveDecoderBase(a)
           \/ SendDecoderPicture(a) \/ ReceiveDecoderPicture(a) \/ SynchronizeDecoder(a)

Task(d, p) == BaseAnnounced(d, p) \/ BasePushed(d, p) \/ OutputDone(d, p)

EventThread(d) == getNextEvent(d) \/ resolve(d) \/ CallbackReturns(d)

Destruction(c) == \/ releasePools(c) \/ DestroyPools(c) \/ DestroyPipeline(c)
                  \/ release(c) \/ Join(c)

Next ==
    \/ \E a \in Agent : lock(a) \/ Body(a) \/ \E h \in Made(decoderPool) : LockedDecoder(a, h)
    \/ \E d \in Context : EventThread(d) \/ \E p \in Picture : Task(d, p)
    \/ \E c \in Client :
          \/ Destruction(c)
          \/ \E d \in Context : CreateDecoder(c, d)
          \/ \E h \in Made(decoderPool) : decoderPoolRemove(c, h)

(* Threads run, mutexes are handed on, and callbacks return. *)
Fairness ==
    /\ \A a \in Agent : WF_vars(lock(a)) /\ WF_vars(Body(a))
    /\ \A c \in Client : WF_vars(Destruction(c))
    /\ \A d \in Context : /\ WF_vars(EventThread(d))
                          /\ \A p \in Picture : WF_vars(Task(d, p))

Spec == Init /\ [][Next]_vars /\ Fairness

-----------------------------------------------------------------------------
(* Properties.                                                              *)

(* Events reach the callback in the order they were queued in, each once,   *)
(* and a decoder is not freed before all of them did.                       *)
EventsDelivered ==
    \A d \in Context :
        LET q == m_eventQueue[d]
            queued == IF q # <<>> /\ q[Len(q)].type = "Flush" THEN SubSeq(q, 1, Len(q) - 1) ELSE q
            held == IF thread[d].pc = "resolve" THEN <<thread[d].event>> ELSE <<>>
        IN  /\ generated[d] = delivered[d] \o held \o queued
            /\ life[d] = "freed" => queued = <<>> /\ held = <<>>

(* A lock is found by one handle and belongs to a picture that is still     *)
(* there; a locked picture can be unlocked.                                 *)
LocksAgree ==
    \A d \in Context : \A p \in Picture :
        /\ Cardinality({i \in Slots(pictureLockPool[d]) : pictureLockPool[d].objects[i] = p})
              = (IF p \in locked[d] THEN 1 ELSE 0)
        /\ p \in locked[d] => at[d][p] # "nowhere"

(* A picture in the pipeline can be handed back: it is still known by the   *)
(* handle it was sent with.                                                 *)
PipelineKeepsHandles ==
    \A d \in Context : \A p \in Picture :
        at[d][p] \notin {"nowhere", "idle"} => reverseLookup(picturePool[d], p) = sentAs[d][p]

(* Every call returns, and every destruction ends, whatever the event       *)
(* thread and its callbacks are doing meanwhile.                            *)
CallsReturn == \A a \in Agent : (call[a].pc # "idle") ~> (call[a].pc = "idle")

(* Once a decoder is out of the pool nobody is in it, and nobody looks for  *)
(* a picture in the pools it has lost ("Nobody should be able to get a      *)
(* pointer to this decoder from here on").                                  *)
DestroyedAlone ==
    \A d \in Context :
        /\ life[d] \in {"removed", "released", "poolsGone", "pipelineGone", "joining", "freed"}
              => \A a \in Agent : call[a].context = d => call[a].pc = "destroying"
        /\ life[d] \in {"poolsGone", "pipelineGone", "joining", "freed"} => thread[d].pc # "resolve"
=============================================================================
