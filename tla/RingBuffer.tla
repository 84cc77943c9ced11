----------------------------- MODULE RingBuffer -----------------------------
(***************************************************************************)
(* The ring buffer of common: several producers and consumers, one mutex,  *)
(* and a condition variable for each side.  What a thread does with the    *)
(* mutex held is one step, since it lets the mutex go only by waiting.     *)
(***************************************************************************)
EXTENDS Naturals, Sequences, FiniteSets

CONSTANTS Thread, Element, NoElement,
          RingSlots,            \* capacity of the allocation: a power of two
          MaxPushes

RingAssumption == /\ RingSlots \in Nat /\ RingSlots >= 2 /\ NoElement \notin Element
                  /\ MaxPushes \in Nat /\ IsFiniteSet(Thread)

VARIABLES data, front, back,
          pc,               \* idle, or waiting for, or woken by, notFull or notEmpty
          pushing,          \* the element a thread is about to push
          pushes, taken     \* elements pushed, and history: elements popped

ringVars == <<data, front, back, pc, pushing, pushes, taken>>

RingInit == /\ data = [i \in 0 .. RingSlots - 1 |-> NoElement]
        /\ front = 0 /\ back = 0
        /\ pc = [t \in Thread |-> "idle"]
        /\ pushing = [t \in Thread |-> NoElement]
        /\ pushes = 0
        /\ taken = <<>>

(* RingSlots is a power of two: masking is the remainder. *)
masked(n) == n % RingSlots

ldcRingBufferCapacity == RingSlots - 1
ldcRingBufferSize == masked(RingSlots + front - back)
ldcRingBufferIsEmpty == front = back

(* Mutant: the index that is looked at is not wrapped. *)
IsFullUnmasked == front + 1 = back

ldcRingBufferIsFull == masked(front + 1) = back

(* The states of the other threads after a signal: one waiter wakes, if any. *)
Signalled(states, waiting, woken) ==
    IF \A t \in Thread : states[t] # waiting THEN {states}
    ELSE {[states EXCEPT ![t] = woken] : t \in {u \in Thread : states[u] = waiting}}

(* Mutant: the consumers are told only when the buffer had been empty. *)
signalIfEmpty(t) == IF ldcRingBufferIsEmpty
                    THEN pc' \in Signalled([pc EXCEPT ![t] = "idle"], "waitNotEmpty", "wokenNotEmpty")
                    ELSE pc' = [pc EXCEPT ![t] = "idle"]

signalNotEmpty(t) == pc' \in Signalled([pc EXCEPT ![t] = "idle"], "waitNotEmpty", "wokenNotEmpty")
signalNotFull(t) == pc' \in Signalled([pc EXCEPT ![t] = "idle"], "waitNotFull", "wokenNotFull")

Store(e) == /\ data' = [data EXCEPT ![front] = e]
            /\ front' = masked(front + 1)
            /\ UNCHANGED <<back, taken>>

Fetch == /\ taken' = Append(taken, data[back])
         /\ back' = masked(back + 1)
         /\ UNCHANGED <<data, front, pushing, pushes>>

(* A thread comes to push, or was woken and looks again. *)
ldcRingBufferPush(t, e) ==
    /\ \/ pc[t] = "idle" /\ pushes < MaxPushes /\ pushes' = pushes + 1
       \/ pc[t] = "wokenNotFull" /\ pushing[t] = e /\ UNCHANGED pushes
    /\ IF ldcRingBufferIsFull
       THEN /\ pc' = [pc EXCEPT ![t] = "waitNotFull"]
            /\ pushing' = [pushing EXCEPT ![t] = e]
            /\ UNCHANGED <<data, front, back, taken>>
       ELSE /\ signalNotEmpty(t)
            /\ Store(e)
            /\ pushing' = [pushing EXCEPT ![t] = NoElement]

ldcRingBufferTryPush(t, e) ==
    /\ pc[t] = "idle" /\ pushes < MaxPushes
    /\ pushes' = pushes + 1
    /\ UNCHANGED pushing
    /\ IF ldcRingBufferIsFull
       THEN UNCHANGED <<data, front, back, taken, pc>>
       ELSE signalNotEmpty(t) /\ Store(e)

ldcRingBufferPop(t) ==
    /\ pc[t] \in {"idle", "wokenNotEmpty"}
    /\ IF ldcRingBufferIsEmpty
       THEN /\ pc' = [pc EXCEPT ![t] = "waitNotEmpty"]
            /\ UNCHANGED <<data, front, back, pushing, pushes, taken>>
       ELSE signalNotFull(t) /\ Fetch

(* An empty buffer is left as it is. *)
ldcRingBufferTryPop(t) ==
    /\ pc[t] = "idle"
    /\ ~ldcRingBufferIsEmpty
    /\ signalNotFull(t)
    /\ Fetch

(* A wait may end without a signal. *)
WakeUnasked(t) ==
    /\ pc' = [pc EXCEPT ![t] = IF pc[t] = "waitNotFull" THEN "wokenNotFull" ELSE "wokenNotEmpty"]
    /\ pc[t] \in {"waitNotFull", "waitNotEmpty"}
    /\ UNCHANGED <<data, front, back, pushing, pushes, taken>>

RingNext == \E t \in Thread :
           \/ ldcRingBufferPop(t) \/ ldcRingBufferTryPop(t) \/ WakeUnasked(t)
           \/ \E e \in Element : ldcRingBufferPush(t, e) \/ ldcRingBufferTryPush(t, e)

RingSpec == RingInit /\ [][RingNext]_ringVars

-----------------------------------------------------------------------------
Contents == [k \in 1 .. ldcRingBufferSize |-> data[masked(back + k - 1)]]

Queue == INSTANCE BoundedQueue WITH queue <- Contents, Capacity <- ldcRingBufferCapacity

(* The ring is a bounded queue: nothing is lost, overwritten, repeated or   *)
(* handed out of turn when the indices wrap.                                *)
ImplementsQueue == Queue!Spec

In(state) == Cardinality({t \in Thread : pc[t] = state})

(* No wake-up is lost: while a consumer sleeps there is a woken one for     *)
(* every element, and while a producer sleeps one for every free slot.      *)
NobodySleepsOn ==
    /\ In("waitNotEmpty") > 0 => ldcRingBufferSize <= In("wokenNotEmpty")
    /\ In("waitNotFull") > 0 => ldcRingBufferCapacity - ldcRingBufferSize <= In("wokenNotFull")
=============================================================================
