--------------------------- MODULE Common_proof ----------------------------
(***************************************************************************)
(* What the decoders share.  The ring buffer is a bounded queue and loses  *)
(* no wake-up, for every capacity and any number of threads; the threads   *)
(* of the legacy decoder do each part of a call once, for any number of    *)
(* threads and calls of any size; the rolling arena finds the note it made *)
(* of a block, for rings of slots and blocks of any size; a handle pool    *)
(* behaves like a table of live objects, for every capacity and number of  *)
(* generations and whatever words are presented to it.                     *)
(***************************************************************************)
EXTENDS RingBuffer, LegacyThreads, RollingArena, HandleUse, HandlePool_proof,
        FiniteSetTheorems, SequenceTheorems, WellFoundedInduction, TLAPS

Index == 0 .. RingSlots - 1
Slot == Element \cup {NoElement}
States == {"idle", "waitNotFull", "wokenNotFull", "waitNotEmpty", "wokenNotEmpty"}

TypeInv ==
    /\ data \in [Index -> Slot] /\ front \in Index /\ back \in Index
    /\ pc \in [Thread -> States]
    /\ pushing \in [Thread -> Slot]
    /\ pushes \in Nat
    /\ taken \in Seq(Slot)

-----------------------------------------------------------------------------
(* The indices wrap. *)

LEMMA MaskedIs ==
    ASSUME RingAssumption, NEW n \in Int, 0 <= n, n < 2 * RingSlots
    PROVE  masked(n) = IF n < RingSlots THEN n ELSE n - RingSlots
<1>1. CASE n < RingSlots
  BY <1>1 DEF masked, RingAssumption
<1>2. CASE n >= RingSlots
  BY <1>2 DEF masked, RingAssumption
<1> QED BY <1>1, <1>2 DEF RingAssumption

Distance(f, b) == IF b <= f THEN f - b ELSE RingSlots + f - b
After(n) == IF n + 1 = RingSlots THEN 0 ELSE n + 1

LEMMA DistanceIs ==
    ASSUME RingAssumption, NEW f \in Index, NEW b \in Index
    PROVE  /\ masked(RingSlots + f - b) = Distance(f, b)
           /\ Distance(f, b) \in 0 .. RingSlots - 1
           /\ After(f) \in Index /\ masked(f + 1) = After(f)
           /\ After(f) = b <=> Distance(f, b) = RingSlots - 1
           /\ f = b <=> Distance(f, b) = 0
<1>1. f \in Int /\ 0 <= f /\ f < RingSlots /\ b \in Int /\ 0 <= b /\ b < RingSlots
  BY DEF Index, RingAssumption
<1>2. RingSlots \in Nat /\ RingSlots >= 2
  BY DEF RingAssumption
<1>3. masked(RingSlots + f - b) = Distance(f, b)
  <2>1. /\ RingSlots + f - b \in Int /\ 0 <= RingSlots + f - b
        /\ RingSlots + f - b < 2 * RingSlots
    BY <1>1, <1>2
  <2>2. PICK n \in Int : n = RingSlots + f - b
    BY <2>1
  <2>3. masked(n) = IF n < RingSlots THEN n ELSE n - RingSlots
    BY <2>1, <2>2, MaskedIs
  <2> QED BY <1>1, <1>2, <2>2, <2>3 DEF Distance
<1>4. masked(f + 1) = After(f)
  BY <1>1, <1>2, MaskedIs DEF After
<1> QED BY <1>1, <1>2, <1>3, <1>4 DEF Distance, After, Index

LEMMA SizeIs ==
    ASSUME RingAssumption, TypeInv
    PROVE  /\ ldcRingBufferSize = Distance(front, back)
           /\ ldcRingBufferIsFull <=> ldcRingBufferSize = ldcRingBufferCapacity
           /\ ldcRingBufferIsEmpty <=> ldcRingBufferSize = 0
           /\ ldcRingBufferSize \in 0 .. ldcRingBufferCapacity
           /\ masked(front + 1) = After(front) /\ masked(back + 1) = After(back)
<1>1. front \in Index /\ back \in Index
  BY DEF TypeInv
<1>2. /\ masked(RingSlots + front - back) = Distance(front, back)
      /\ Distance(front, back) \in 0 .. RingSlots - 1 /\ masked(front + 1) = After(front)
      /\ After(front) = back <=> Distance(front, back) = RingSlots - 1
      /\ front = back <=> Distance(front, back) = 0
  BY <1>1, DistanceIs
<1>3. masked(back + 1) = After(back)
  BY <1>1, DistanceIs
<1> QED BY <1>2, <1>3 DEF ldcRingBufferSize, ldcRingBufferIsFull, ldcRingBufferIsEmpty, ldcRingBufferCapacity

-----------------------------------------------------------------------------
(* What each step does. *)

(* A step stores an element, takes one, or leaves the ring alone. *)
Stores(t, e) == ~ldcRingBufferIsFull /\ Store(e) /\ signalNotEmpty(t)
Fetches(t) == ~ldcRingBufferIsEmpty /\ Fetch /\ signalNotFull(t)
SameRing == UNCHANGED <<data, front, back, taken>>

(* A thread that finds the ring full or empty lies down, one that is not    *)
(* woken by anybody gets up.                                                *)
LiesDown(t) ==
    \/ ldcRingBufferIsFull /\ pc[t] \in {"idle", "wokenNotFull"} /\ pc' = [pc EXCEPT ![t] = "waitNotFull"]
    \/ ldcRingBufferIsEmpty /\ pc[t] \in {"idle", "wokenNotEmpty"} /\ pc' = [pc EXCEPT ![t] = "waitNotEmpty"]
GetsUp(t) ==
    \/ pc[t] = "waitNotFull" /\ pc' = [pc EXCEPT ![t] = "wokenNotFull"]
    \/ pc[t] = "waitNotEmpty" /\ pc' = [pc EXCEPT ![t] = "wokenNotEmpty"]

Effect(t) ==
    \/ \E e \in Element : Stores(t, e) /\ pc[t] \in {"idle", "wokenNotFull"}
    \/ Fetches(t) /\ pc[t] \in {"idle", "wokenNotEmpty"}
    \/ SameRing /\ (LiesDown(t) \/ GetsUp(t) \/ UNCHANGED pc)

LEMMA StepIs ==
    ASSUME RingNext
    PROVE  /\ \E t \in Thread : Effect(t)
           /\ \/ UNCHANGED <<pushing, pushes>>
              \/ /\ pushes' \in {pushes, pushes + 1}
                 /\ \/ UNCHANGED pushing
                    \/ \E t \in Thread, e \in Slot : pushing' = [pushing EXCEPT ![t] = e]
<1>1. ASSUME NEW t \in Thread, ldcRingBufferPop(t) PROVE Effect(t) /\ UNCHANGED <<pushing, pushes>>
  BY <1>1 DEF ldcRingBufferPop, Effect, Fetches, SameRing, LiesDown, Fetch
<1>2. ASSUME NEW t \in Thread, ldcRingBufferTryPop(t) PROVE Effect(t) /\ UNCHANGED <<pushing, pushes>>
  BY <1>2 DEF ldcRingBufferTryPop, Effect, Fetches, Fetch
<1>3. ASSUME NEW t \in Thread, WakeUnasked(t) PROVE Effect(t) /\ UNCHANGED <<pushing, pushes>>
  BY <1>3 DEF WakeUnasked, Effect, SameRing, GetsUp
<1>4. ASSUME NEW t \in Thread, NEW e \in Element, ldcRingBufferPush(t, e)
      PROVE  /\ Effect(t) /\ pushes' \in {pushes, pushes + 1}
             /\ \E s \in Slot : pushing' = [pushing EXCEPT ![t] = s]
  BY <1>4 DEF ldcRingBufferPush, Effect, Stores, SameRing, LiesDown, Slot
<1>5. ASSUME NEW t \in Thread, NEW e \in Element, ldcRingBufferTryPush(t, e)
      PROVE  Effect(t) /\ pushes' \in {pushes, pushes + 1} /\ UNCHANGED pushing
  BY <1>5 DEF ldcRingBufferTryPush, Effect, Stores, SameRing
<1> QED BY <1>1, <1>2, <1>3, <1>4, <1>5 DEF RingNext

(* A signal makes the thread idle that gives it, and wakes a waiter if there is one. *)
Wakes(t, waiting, woken) ==
    LET states == [pc EXCEPT ![t] = "idle"] IN
    \/ pc' = states /\ \A u \in Thread : states[u] # waiting
    \/ \E u \in Thread : u # t /\ pc[u] = waiting /\ pc' = [states EXCEPT ![u] = woken]

LEMMA SignalIs ==
    ASSUME TypeInv, NEW t \in Thread, NEW waiting \in States \ {"idle"}, NEW woken \in States,
           pc' \in Signalled([pc EXCEPT ![t] = "idle"], waiting, woken)
    PROVE  Wakes(t, waiting, woken) /\ pc' \in [Thread -> States]
<1> DEFINE states == [pc EXCEPT ![t] = "idle"]
<1>1. states \in [Thread -> States] /\ states[t] = "idle" /\ \A u \in Thread \ {t} : states[u] = pc[u]
  BY DEF TypeInv, States
<1>2. CASE \A u \in Thread : states[u] # waiting
  BY <1>1, <1>2 DEF Signalled, Wakes
<1>3. CASE \E u \in Thread : states[u] = waiting
  <2>1. PICK u \in Thread : states[u] = waiting /\ pc' = [states EXCEPT ![u] = woken]
    BY <1>3 DEF Signalled
  <2> QED BY <1>1, <2>1 DEF Wakes
<1> QED BY <1>2, <1>3

LEMMA TypeStep ==
    ASSUME RingAssumption, TypeInv, [RingNext]_ringVars
    PROVE  TypeInv'
<1>1. CASE RingNext
  <2>1. pushes' \in Nat /\ pushing' \in [Thread -> Slot]
    BY <1>1, StepIs DEF TypeInv
  <2>2. PICK t \in Thread : Effect(t)
    BY <1>1, StepIs
  <2>3. After(front) \in Index /\ After(back) \in Index
    BY DEF After, Index, TypeInv, RingAssumption
  <2>4. ASSUME NEW e \in Element, Stores(t, e) PROVE TypeInv'
    <3>1. pc' \in [Thread -> States]
      BY <2>4, SignalIs DEF Stores, signalNotEmpty, States
    <3> QED BY <2>1, <2>3, <2>4, <3>1, SizeIs DEF Stores, Store, TypeInv, Slot
  <2>5. CASE Fetches(t)
    <3>1. pc' \in [Thread -> States]
      BY <2>5, SignalIs DEF Fetches, signalNotFull, States
    <3> QED BY <2>1, <2>3, <2>5, <3>1, SizeIs DEF Fetches, Fetch, TypeInv
  <2>6. CASE SameRing /\ (LiesDown(t) \/ GetsUp(t) \/ UNCHANGED pc)
    BY <2>1, <2>6 DEF SameRing, LiesDown, GetsUp, TypeInv, States
  <2> QED BY <2>2, <2>4, <2>5, <2>6 DEF Effect
<1>2. CASE UNCHANGED ringVars
  BY <1>2 DEF ringVars, TypeInv
<1> QED BY <1>1, <1>2

LEMMA InitType ==
    ASSUME RingAssumption, RingInit
    PROVE  TypeInv
BY DEF RingInit, TypeInv, RingAssumption, Index, Slot, States

(* The variables have the kinds the code gives them: the indices stay below *)
(* the mask.                                                                *)
THEOREM TypesCorrect ==
    ASSUME RingAssumption
    PROVE  RingSpec => []TypeInv
<1>1. RingInit => TypeInv
  BY InitType
<1>2. TypeInv /\ [RingNext]_ringVars => TypeInv'
  BY TypeStep
<1> QED BY <1>1, <1>2, PTL DEF RingSpec

-----------------------------------------------------------------------------
(* The ring implements a queue. *)

(* The k-th element of a ring that begins at b. *)
Place(b, k) == IF b + k - 1 < RingSlots THEN b + k - 1 ELSE b + k - 1 - RingSlots
Cells(d, f, b) == [k \in 1 .. Distance(f, b) |-> d[Place(b, k)]]

LEMMA CellsAre ==
    ASSUME RingAssumption, NEW d \in [Index -> Slot], NEW f \in Index, NEW b \in Index
    PROVE  /\ [k \in 1 .. masked(RingSlots + f - b) |-> d[masked(b + k - 1)]] = Cells(d, f, b)
           /\ Cells(d, f, b) \in Seq(Slot) /\ Len(Cells(d, f, b)) = Distance(f, b)
           /\ \A k \in 1 .. Distance(f, b) : Cells(d, f, b)[k] = d[Place(b, k)] /\ Place(b, k) \in Index
<1>0. b \in Int /\ 0 <= b /\ b < RingSlots /\ RingSlots \in Nat
  BY DEF Index, RingAssumption
<1>1. /\ Distance(f, b) \in Nat /\ Distance(f, b) < RingSlots /\ masked(RingSlots + f - b) = Distance(f, b)
      /\ b \in Int /\ 0 <= b /\ b < RingSlots /\ RingSlots \in Nat
  BY <1>0, DistanceIs
<1>2. ASSUME NEW k \in 1 .. Distance(f, b)
      PROVE  masked(b + k - 1) = Place(b, k) /\ Place(b, k) \in Index
  <2>1. b + k - 1 \in Int /\ 0 <= b + k - 1 /\ b + k - 1 < 2 * RingSlots
    BY <1>1
  <2>2. PICK n \in Int : n = b + k - 1
    BY <2>1
  <2>3. masked(n) = IF n < RingSlots THEN n ELSE n - RingSlots
    BY <2>1, <2>2, MaskedIs
  <2> QED BY <1>1, <2>1, <2>2, <2>3 DEF Index, Place
<1>3. PICK n \in Nat : n = Distance(f, b)
  BY <1>1
<1>4. \A k \in 1 .. n : d[Place(b, k)] \in Slot
  BY <1>2, <1>3
<1>5. Cells(d, f, b) = [k \in 1 .. n |-> d[Place(b, k)]]
  BY <1>3 DEF Cells
<1>6. Cells(d, f, b) \in [1 .. n -> Slot]
  BY <1>4, <1>5
<1>7. Cells(d, f, b) \in Seq(Slot) /\ Len(Cells(d, f, b)) = n
  BY <1>3, <1>6
<1>8. [k \in 1 .. masked(RingSlots + f - b) |-> d[masked(b + k - 1)]] = Cells(d, f, b)
  BY <1>1, <1>2 DEF Cells
<1> QED BY <1>2, <1>3, <1>5, <1>7, <1>8

LEMMA ContentsIs ==
    ASSUME RingAssumption, TypeInv
    PROVE  Contents = Cells(data, front, back)
BY CellsAre DEF TypeInv, Contents, ldcRingBufferSize

(* Contents after a step. *)
LEMMA ContentsBecome ==
    ASSUME RingAssumption, TypeInv'
    PROVE  Contents' = Cells(data', front', back')
<1>1. data' \in [Index -> Slot] /\ front' \in Index /\ back' \in Index
  BY DEF TypeInv
<1>2. Contents' = [k \in 1 .. masked(RingSlots + front' - back') |-> data'[masked(back' + k - 1)]]
  BY DEF Contents, ldcRingBufferSize, masked
<1> QED BY <1>1, <1>2, CellsAre

LEMMA CellsStored ==
    ASSUME RingAssumption, NEW d \in [Index -> Slot], NEW f \in Index, NEW b \in Index, NEW e \in Slot,
           After(f) # b
    PROVE  Cells([d EXCEPT ![f] = e], After(f), b) = Append(Cells(d, f, b), e)
<1> DEFINE s == Cells(d, f, b)
           r == Cells([d EXCEPT ![f] = e], After(f), b)
<1>1. /\ f \in Nat /\ f < RingSlots /\ b \in Nat /\ b < RingSlots /\ RingSlots \in Nat /\ RingSlots >= 2
  BY DEF Index, RingAssumption
<1>2. PICK n \in Nat : n = Distance(f, b) /\ n < RingSlots - 1
  BY <1>1, DistanceIs
<1>3. Distance(After(f), b) = n + 1 /\ After(f) \in Index
  BY <1>1, <1>2, DistanceIs DEF Distance, After
<1>4. PICK g \in [Index -> Slot] : g = [d EXCEPT ![f] = e]
  OBVIOUS
<1>5. s \in Seq(Slot) /\ Len(s) = n /\ \A k \in 1 .. n : s[k] = d[Place(b, k)]
  BY <1>2, CellsAre
<1>51. /\ r \in Seq(Slot) /\ Len(r) = n + 1
       /\ \A k \in 1 .. n + 1 : r[k] = g[Place(b, k)] /\ Place(b, k) \in Index
  <2>1. PICK c \in Index : c = After(f)
    BY <1>3
  <2>2. r = Cells(g, c, b) /\ Distance(c, b) = n + 1
    BY <1>3, <1>4, <2>1
  <2>3. /\ Cells(g, c, b) \in Seq(Slot) /\ Len(Cells(g, c, b)) = Distance(c, b)
        /\ \A k \in 1 .. Distance(c, b) : Cells(g, c, b)[k] = g[Place(b, k)] /\ Place(b, k) \in Index
    BY CellsAre
  <2> HIDE DEF r
  <2> QED BY <2>2, <2>3
<1>6. ASSUME NEW k \in 1 .. n + 1 PROVE r[k] = IF k <= n THEN s[k] ELSE e
  <2> HIDE DEF s, r
  <2>0. /\ r[k] = IF Place(b, k) = f THEN e ELSE d[Place(b, k)]
        /\ k <= n => s[k] = d[Place(b, k)]
    BY <1>2, <1>4, <1>5, <1>51
  <2>1. CASE b <= f
    <3>1. n = f - b
      BY <1>2, <2>1 DEF Distance
    <3>2. Place(b, k) = f <=> k = n + 1
      BY <1>1, <1>2, <2>1, <3>1 DEF Place
    <3> QED BY <1>2, <2>0, <3>2
  <2>2. CASE ~(b <= f)
    <3>1. n = RingSlots + f - b
      BY <1>2, <2>2 DEF Distance
    <3>2. Place(b, k) = f <=> k = n + 1
      BY <1>1, <1>2, <2>2, <3>1 DEF Place
    <3> QED BY <1>2, <2>0, <3>2
  <2> QED BY <2>1, <2>2
<1> HIDE DEF s, r
<1>7. Append(s, e) \in Seq(Slot) /\ Len(Append(s, e)) = n + 1
      /\ \A k \in 1 .. n + 1 : Append(s, e)[k] = r[k]
  BY <1>2, <1>5, <1>51, <1>6, AppendProperties
<1>8. r = Append(s, e)
  BY <1>51, <1>7, SeqEqual
<1> QED BY <1>8 DEF s, r

LEMMA CellsTaken ==
    ASSUME RingAssumption, NEW d \in [Index -> Slot], NEW f \in Index, NEW b \in Index, f # b
    PROVE  /\ Cells(d, f, b) # <<>> /\ Cells(d, f, After(b)) = Tail(Cells(d, f, b))
           /\ Head(Cells(d, f, b)) = d[b]
<1> DEFINE s == Cells(d, f, b)
           r == Cells(d, f, After(b))
<1>1. /\ f \in Nat /\ f < RingSlots /\ b \in Nat /\ b < RingSlots /\ RingSlots \in Nat /\ RingSlots >= 2
  BY DEF Index, RingAssumption
<1>2. PICK n \in Nat : n = Distance(f, b) /\ n >= 1
  BY <1>1, DistanceIs
<1>3. Distance(f, After(b)) = n - 1 /\ After(b) \in Index
  BY <1>1, <1>2, DistanceIs DEF Distance, After
<1>41. s \in Seq(Slot) /\ Len(s) = n /\ \A k \in 1 .. n : s[k] = d[Place(b, k)]
  BY <1>2, CellsAre
<1>42. r \in Seq(Slot) /\ Len(r) = n - 1 /\ \A k \in 1 .. n - 1 : r[k] = d[Place(After(b), k)]
  <2>1. PICK c \in Index : c = After(b)
    BY <1>3
  <2>2. Distance(f, c) = n - 1
    BY <1>3, <2>1
  <2>3. /\ Cells(d, f, c) \in Seq(Slot) /\ Len(Cells(d, f, c)) = Distance(f, c)
        /\ \A k \in 1 .. Distance(f, c) : Cells(d, f, c)[k] = d[Place(c, k)]
    BY CellsAre
  <2> QED BY <2>1, <2>2, <2>3
<1>4. /\ s \in Seq(Slot) /\ Len(s) = n /\ r \in Seq(Slot) /\ Len(r) = n - 1
      /\ \A k \in 1 .. n : s[k] = d[Place(b, k)]
      /\ \A k \in 1 .. n - 1 : r[k] = d[Place(After(b), k)]
  BY <1>41, <1>42
<1>5. ASSUME NEW k \in 1 .. n - 1 PROVE r[k] = s[k + 1]
  <2>1. Place(After(b), k) = Place(b, k + 1) /\ k + 1 \in 1 .. n /\ n < RingSlots
    BY <1>1, <1>2 DEF Place, After, Distance
  <2> QED BY <1>4, <2>1
<1>6. s[1] = d[b]
  <2>1. Place(b, 1) = b /\ 1 \in 1 .. n
    BY <1>1, <1>2 DEF Place
  <2> QED BY <1>4, <2>1
<1> HIDE DEF s, r
<1>7. s # <<>>
  BY <1>2, <1>4
<1>8. Tail(s) \in Seq(Slot) /\ Len(Tail(s)) = n - 1 /\ \A k \in 1 .. n - 1 : Tail(s)[k] = s[k + 1]
  BY <1>4, <1>7, HeadTailProperties
<1>9. r = Tail(s)
  BY <1>4, <1>5, <1>8, SeqEqual
<1>10. Head(s) = s[1]
  BY <1>4
<1> QED BY <1>6, <1>7, <1>9, <1>10 DEF s, r

LEMMA StorePuts ==
    ASSUME RingAssumption, TypeInv, TypeInv', NEW e \in Element, Store(e), ~ldcRingBufferIsFull
    PROVE  Queue!Put(e)
<1>1. /\ After(front) # back /\ e \in Slot
      /\ data \in [Index -> Slot] /\ front \in Index /\ back \in Index
  BY SizeIs DEF ldcRingBufferIsFull, TypeInv, Slot
<1>2. data' = [data EXCEPT ![front] = e] /\ front' = After(front) /\ back' = back /\ taken' = taken
  BY SizeIs DEF Store
<1>3. Contents' = Append(Contents, e)
  <2>1. Cells([data EXCEPT ![front] = e], After(front), back) = Append(Cells(data, front, back), e)
    BY <1>1, CellsStored
  <2>2. Contents' = Cells([data EXCEPT ![front] = e], After(front), back)
    BY <1>2, ContentsBecome
  <2> QED BY <2>1, <2>2, ContentsIs
<1>4. Len(Contents) < ldcRingBufferCapacity
  <2>1. Len(Contents) = Distance(front, back)
    BY <1>1, CellsAre, ContentsIs
  <2> QED BY <1>1, <2>1, DistanceIs DEF ldcRingBufferCapacity
<1> QED BY <1>2, <1>3, <1>4 DEF Queue!Put

LEMMA FetchTakes ==
    ASSUME RingAssumption, TypeInv, TypeInv', Fetch, ~ldcRingBufferIsEmpty
    PROVE  Queue!Take
<1>1. front # back /\ data \in [Index -> Slot] /\ front \in Index /\ back \in Index
  BY DEF ldcRingBufferIsEmpty, TypeInv
<1>2. data' = data /\ front' = front /\ back' = After(back) /\ taken' = Append(taken, data[back])
  BY SizeIs DEF Fetch
<1>3. Contents # <<>> /\ Contents' = Tail(Contents) /\ Head(Contents) = data[back]
  BY <1>1, <1>2, CellsTaken, ContentsIs, ContentsBecome
<1> QED BY <1>2, <1>3 DEF Queue!Take

(* Nothing is lost, overwritten, repeated or handed out of turn, whatever   *)
(* the capacity and however many threads push and pop: the ring implements  *)
(* the bounded queue.                                                       *)
THEOREM RingImplementsQueue ==
    ASSUME RingAssumption
    PROVE  RingSpec => ImplementsQueue
<1>1. RingInit => Queue!Init
  <2> SUFFICES ASSUME RingInit PROVE Queue!Init
    OBVIOUS
  <2>1. TypeInv /\ front = 0 /\ back = 0 /\ taken = <<>>
    BY InitType DEF RingInit
  <2>2. Distance(0, 0) = 0
    BY DEF Distance
  <2>3. Contents = <<>>
    BY <2>1, <2>2, ContentsIs DEF Cells
  <2> QED BY <2>1, <2>3 DEF Queue!Init
<1>2. TypeInv /\ TypeInv' /\ [RingNext]_ringVars => [Queue!Next]_<<Contents, taken>>
  <2> SUFFICES ASSUME TypeInv, TypeInv', [RingNext]_ringVars PROVE [Queue!Next]_<<Contents, taken>>
    OBVIOUS
  <2>1. ASSUME SameRing PROVE UNCHANGED <<Contents, taken>>
    BY <2>1, ContentsIs, ContentsBecome DEF SameRing
  <2>2. CASE RingNext
    <3>1. PICK t \in Thread : Effect(t)
      BY <2>2, StepIs
    <3>2. ASSUME NEW e \in Element, Stores(t, e) PROVE Queue!Next
      BY <3>2, StorePuts DEF Stores, Queue!Next
    <3>3. CASE Fetches(t)
      BY <3>3, FetchTakes DEF Fetches, Queue!Next
    <3> QED BY <2>1, <3>1, <3>2, <3>3 DEF Effect
  <2>3. CASE UNCHANGED ringVars
    BY <2>1, <2>3 DEF ringVars, SameRing
  <2> QED BY <2>2, <2>3
<1> QED BY <1>1, <1>2, TypesCorrect, PTL DEF RingSpec, ImplementsQueue, Queue!Spec

-----------------------------------------------------------------------------
(* No wake-up is lost. *)

Count(f, s) == Cardinality({t \in Thread : f[t] = s})
One(b) == IF b THEN 1 ELSE 0

LEMMA CountType ==
    ASSUME RingAssumption, NEW f, NEW s
    PROVE  Count(f, s) \in Nat /\ (Count(f, s) = 0 <=> \A t \in Thread : f[t] # s)
<1> DEFINE T == {t \in Thread : f[t] = s}
<1>1. IsFiniteSet(T)
  BY FS_Subset DEF RingAssumption
<1>2. Cardinality(T) \in Nat /\ (Cardinality(T) = 0 <=> T = {})
  BY <1>1, FS_CardinalityType, FS_EmptySet
<1> QED BY <1>2 DEF Count

(* Only the state of one thread differs. *)
Moved(f, g, t) == \A u \in Thread \ {t} : g[u] = f[u]

LEMMA CountMoved ==
    ASSUME RingAssumption, NEW f, NEW g, NEW t \in Thread, NEW s, Moved(f, g, t)
    PROVE  Count(g, s) = Count(f, s) + One(g[t] = s) - One(f[t] = s)
<1> DEFINE T == {u \in Thread : f[u] = s}
           R == {u \in Thread : g[u] = s}
<1>0. \A u \in Thread \ {t} : g[u] = f[u]
  BY DEF Moved
<1>1. IsFiniteSet(T) /\ IsFiniteSet(T \ {t}) /\ Cardinality(T) \in Nat /\ Cardinality(T \ {t}) \in Nat
  <2>1. IsFiniteSet(T) /\ IsFiniteSet(T \ {t})
    BY FS_Subset DEF RingAssumption
  <2> QED BY <2>1, FS_CardinalityType
<1>2. Cardinality(T \ {t}) = Cardinality(T) - One(f[t] = s)
  <2>1. CASE f[t] = s
    BY <1>1, <2>1, FS_RemoveElement DEF One
  <2>2. CASE f[t] # s
    <3>1. T \ {t} = T
      BY <2>2
    <3> QED BY <1>1, <2>2, <3>1 DEF One
  <2> QED BY <2>1, <2>2
<1>3. Cardinality(R) = Cardinality(T \ {t}) + One(g[t] = s)
  <2>1. CASE g[t] = s
    <3>1. R = (T \ {t}) \cup {t}
      BY <1>0, <2>1
    <3>2. t \notin T \ {t}
      OBVIOUS
    <3>3. Cardinality((T \ {t}) \cup {t}) = Cardinality(T \ {t}) + 1
      BY <1>1, <3>2, FS_AddElement
    <3> QED BY <2>1, <3>1, <3>3 DEF One
  <2>2. CASE g[t] # s
    <3>1. R = T \ {t}
      BY <1>0, <2>2
    <3>2. One(g[t] = s) = 0
      BY <2>2 DEF One
    <3> HIDE DEF T, R
    <3> QED BY <1>1, <3>1, <3>2
  <2> QED BY <2>1, <2>2
<1>4. Count(f, s) = Cardinality(T) /\ Count(g, s) = Cardinality(R)
  BY DEF Count
<1> QED BY <1>1, <1>2, <1>3, <1>4 DEF One

LEMMA SizeMoves ==
    ASSUME RingAssumption, TypeInv, TypeInv'
    PROVE  /\ \A e : Store(e) /\ ~ldcRingBufferIsFull => ldcRingBufferSize' = ldcRingBufferSize + 1
           /\ Fetch /\ ~ldcRingBufferIsEmpty => ldcRingBufferSize' = ldcRingBufferSize - 1
           /\ SameRing => ldcRingBufferSize' = ldcRingBufferSize
           /\ ldcRingBufferSize \in Nat /\ ldcRingBufferCapacity \in Nat
           /\ ldcRingBufferSize <= ldcRingBufferCapacity
<1>1. /\ front \in Index /\ back \in Index /\ front' \in Index /\ back' \in Index
      /\ RingSlots \in Nat /\ RingSlots >= 2
  BY DEF TypeInv, RingAssumption
<1>2. ldcRingBufferSize = Distance(front, back)
  BY <1>1, DistanceIs DEF ldcRingBufferSize
<1>3. ldcRingBufferSize' = Distance(front', back')
  <2>1. ldcRingBufferSize' = masked(RingSlots + front' - back')
    BY DEF ldcRingBufferSize, masked
  <2> QED BY <1>1, <2>1, DistanceIs
<1>4. ASSUME NEW f \in Index, NEW b \in Index
      PROVE  /\ After(f) # b => Distance(After(f), b) = Distance(f, b) + 1
             /\ f # b => Distance(f, After(b)) = Distance(f, b) - 1
  BY <1>1 DEF Distance, After, Index
<1>5. ASSUME NEW e, Store(e), ~ldcRingBufferIsFull PROVE ldcRingBufferSize' = ldcRingBufferSize + 1
  <2>1. After(front) # back /\ front' = After(front) /\ back' = back
    BY <1>5, SizeIs DEF Store, ldcRingBufferIsFull
  <2> QED BY <1>1, <1>2, <1>3, <1>4, <2>1
<1>6. ASSUME Fetch, ~ldcRingBufferIsEmpty PROVE ldcRingBufferSize' = ldcRingBufferSize - 1
  <2>1. front # back /\ front' = front /\ back' = After(back)
    BY <1>6, SizeIs DEF Fetch, ldcRingBufferIsEmpty
  <2> QED BY <1>1, <1>2, <1>3, <1>4, <2>1
<1>7. SameRing => ldcRingBufferSize' = ldcRingBufferSize
  BY <1>2, <1>3 DEF SameRing
<1>8. ldcRingBufferSize \in 0 .. ldcRingBufferCapacity /\ ldcRingBufferCapacity \in Nat
  BY <1>1, SizeIs DEF ldcRingBufferCapacity
<1> QED BY <1>5, <1>6, <1>7, <1>8

(* The counts after a thread has become idle and may have woken another. *)
LEMMA WokenCounts ==
    ASSUME RingAssumption, TypeInv, NEW t \in Thread, NEW waiting \in States \ {"idle"},
           NEW woken \in States \ {"idle", waiting}, pc[t] # waiting, Wakes(t, waiting, woken)
    PROVE  /\ \/ Count(pc', waiting) = 0 /\ Count(pc', woken) = Count(pc, woken) - One(pc[t] = woken)
              \/ /\ Count(pc', woken) = Count(pc, woken) + 1 - One(pc[t] = woken)
                 /\ Count(pc, waiting) > 0
           /\ \A s \in States \ {"idle", waiting, woken} : Count(pc', s) = Count(pc, s) - One(pc[t] = s)
<1> DEFINE states == [pc EXCEPT ![t] = "idle"]
<1>1. pc \in [Thread -> States] /\ "idle" \in States /\ states \in [Thread -> States]
  BY DEF TypeInv, States
<1>2. \A s \in States : Count(pc, s) \in Nat
  BY CountType
<1>3. \A s \in States \ {"idle"} : Count(states, s) = Count(pc, s) - One(pc[t] = s)
  <2>1. ASSUME NEW s \in States \ {"idle"} PROVE Count(states, s) = Count(pc, s) - One(pc[t] = s)
    <3>1. states[t] = "idle" /\ Moved(pc, states, t)
      BY <1>1 DEF Moved
    <3> HIDE DEF states
    <3>2. Count(states, s) = Count(pc, s) + One(states[t] = s) - One(pc[t] = s)
      BY <3>1, CountMoved
    <3> QED BY <1>2, <3>1, <3>2 DEF One
  <2> QED BY <2>1
<1>4. CASE pc' = states /\ \A u \in Thread : states[u] # waiting
  <2>1. Count(pc', waiting) = 0
    BY <1>4, CountType
  <2> QED BY <1>3, <1>4, <2>1
<1>5. CASE \E u \in Thread : u # t /\ pc[u] = waiting /\ pc' = [states EXCEPT ![u] = woken]
  <2>1. PICK u \in Thread : u # t /\ pc[u] = waiting /\ pc' = [states EXCEPT ![u] = woken]
    BY <1>5
  <2>2. states[u] = waiting
    BY <1>1, <2>1
  <2>3. \A s : Count(pc', s) = Count(states, s) + One(woken = s) - One(waiting = s)
    <3>1. pc'[u] = woken /\ \A v \in Thread \ {u} : pc'[v] = states[v]
      BY <1>1, <2>1
    <3>2. PICK p, q : p = pc' /\ q = states
      OBVIOUS
    <3> HIDE DEF states
    <3>3. p[u] = woken /\ q[u] = waiting /\ Moved(q, p, u) /\ u \in Thread
      BY <2>1, <2>2, <3>1, <3>2 DEF Moved
    <3>4. ASSUME NEW s PROVE Count(p, s) = Count(q, s) + One(p[u] = s) - One(q[u] = s)
      BY <3>3, CountMoved
    <3> QED BY <3>2, <3>3, <3>4
  <2>4. \A s \in States : Count(states, s) \in Nat
    BY CountType
  <2> HIDE DEF states
  <2>5. Count(pc', woken) = Count(states, woken) + 1
    BY <2>3, <2>4 DEF One
  <2>6. \A s \in States \ {"idle", waiting, woken} : Count(pc', s) = Count(states, s)
    BY <2>3, <2>4 DEF One
  <2>7. Count(pc, waiting) > 0
    BY <1>2, <2>1, CountType
  <2> QED BY <1>2, <1>3, <2>5, <2>6, <2>7 DEF One
<1> QED BY <1>4, <1>5 DEF Wakes

(* What NobodySleepsOn says, of counts that are named. *)
Rested(size, sleepingC, wokenC, sleepingP, wokenP) ==
    /\ sleepingC > 0 => size <= wokenC
    /\ sleepingP > 0 => ldcRingBufferCapacity - size <= wokenP

LEMMA NobodySleepsStep ==
    ASSUME RingAssumption, TypeInv, TypeInv', [RingNext]_ringVars, NobodySleepsOn
    PROVE  NobodySleepsOn'
<1> DEFINE C(s) == Count(pc, s)
           D(s) == Count(pc', s)
<1>1. \A s : C(s) \in Nat /\ D(s) \in Nat
  BY CountType
<1>2. \A s : In(s) = C(s) /\ In(s)' = D(s)
  BY DEF In, Count
<1>3. NobodySleepsOn <=> Rested(ldcRingBufferSize, C("waitNotEmpty"), C("wokenNotEmpty"), C("waitNotFull"), C("wokenNotFull"))
  BY <1>2 DEF NobodySleepsOn, Rested
<1>4. NobodySleepsOn' <=> Rested(ldcRingBufferSize', D("waitNotEmpty"), D("wokenNotEmpty"), D("waitNotFull"), D("wokenNotFull"))
  BY <1>2 DEF NobodySleepsOn, Rested, ldcRingBufferCapacity
<1>5. PICK n \in Nat : n = ldcRingBufferSize /\ n <= ldcRingBufferCapacity /\ ldcRingBufferCapacity \in Nat
  BY SizeMoves
<1> HIDE DEF C, D
<1>6. ASSUME NEW t \in Thread, Effect(t) PROVE NobodySleepsOn'
  <2>1. ASSUME NEW e \in Element, Stores(t, e), pc[t] \in {"idle", "wokenNotFull"} PROVE NobodySleepsOn'
    <3>1. Wakes(t, "waitNotEmpty", "wokenNotEmpty")
      BY <2>1, SignalIs DEF Stores, signalNotEmpty, States
    <3>2. /\ \/ D("waitNotEmpty") = 0 /\ D("wokenNotEmpty") = C("wokenNotEmpty") - One(pc[t] = "wokenNotEmpty")
             \/ /\ D("wokenNotEmpty") = C("wokenNotEmpty") + 1 - One(pc[t] = "wokenNotEmpty")
                /\ C("waitNotEmpty") > 0
          /\ \A s \in States \ {"idle", "waitNotEmpty", "wokenNotEmpty"} : D(s) = C(s) - One(pc[t] = s)
      BY <2>1, <3>1, WokenCounts DEF States, C, D
    <3>3. ldcRingBufferSize' = n + 1
      BY <1>5, <2>1, SizeMoves DEF Stores
    <3>4. D("waitNotFull") = C("waitNotFull") /\ D("wokenNotFull") >= C("wokenNotFull") - 1
      BY <1>1, <2>1, <3>2 DEF States, One
    <3>5. D("waitNotEmpty") = 0 \/ (D("wokenNotEmpty") = C("wokenNotEmpty") + 1 /\ C("waitNotEmpty") > 0)
      BY <1>1, <2>1, <3>2 DEF One
    <3> QED BY <1>1, <1>3, <1>4, <1>5, <3>3, <3>4, <3>5 DEF Rested
  <2>2. ASSUME Fetches(t), pc[t] \in {"idle", "wokenNotEmpty"} PROVE NobodySleepsOn'
    <3>1. Wakes(t, "waitNotFull", "wokenNotFull")
      BY <2>2, SignalIs DEF Fetches, signalNotFull, States
    <3>2. /\ \/ D("waitNotFull") = 0 /\ D("wokenNotFull") = C("wokenNotFull") - One(pc[t] = "wokenNotFull")
             \/ /\ D("wokenNotFull") = C("wokenNotFull") + 1 - One(pc[t] = "wokenNotFull")
                /\ C("waitNotFull") > 0
          /\ \A s \in States \ {"idle", "waitNotFull", "wokenNotFull"} : D(s) = C(s) - One(pc[t] = s)
      BY <2>2, <3>1, WokenCounts DEF States, C, D
    <3>3. ldcRingBufferSize' = n - 1
      BY <1>5, <2>2, SizeMoves DEF Fetches
    <3>4. D("waitNotEmpty") = C("waitNotEmpty") /\ D("wokenNotEmpty") >= C("wokenNotEmpty") - 1
      BY <1>1, <2>2, <3>2 DEF States, One
    <3>5. D("waitNotFull") = 0 \/ (D("wokenNotFull") = C("wokenNotFull") + 1 /\ C("waitNotFull") > 0)
      BY <1>1, <2>2, <3>2 DEF One
    <3> QED BY <1>1, <1>3, <1>4, <1>5, <3>3, <3>4, <3>5 DEF Rested
  <2>3. ASSUME SameRing, LiesDown(t) \/ GetsUp(t) PROVE NobodySleepsOn'
    <3>1. ldcRingBufferSize' = n
      BY <1>5, <2>3, SizeMoves
    <3>2. PICK x \in States : pc' = [pc EXCEPT ![t] = x]
      BY <2>3 DEF LiesDown, GetsUp, States
    <3>3. pc'[t] = x /\ \A u \in Thread \ {t} : pc'[u] = pc[u]
      BY <3>2 DEF TypeInv
    <3>4. \A s : D(s) = C(s) + One(x = s) - One(pc[t] = s)
      <4>1. PICK p, q : p = pc' /\ q = pc
        OBVIOUS
      <4>2. p[t] = x /\ Moved(q, p, t)
        BY <3>3, <4>1 DEF Moved
      <4>3. ASSUME NEW s PROVE Count(p, s) = Count(q, s) + One(p[t] = s) - One(q[t] = s)
        BY <4>2, CountMoved
      <4> QED BY <4>1, <4>2, <4>3 DEF C, D
    <3>5. LiesDown(t) \/ GetsUp(t) =>
             \/ x = "waitNotFull" /\ n = ldcRingBufferCapacity /\ pc[t] \in {"idle", "wokenNotFull"}
             \/ x = "waitNotEmpty" /\ n = 0 /\ pc[t] \in {"idle", "wokenNotEmpty"}
             \/ x = "wokenNotFull" /\ pc[t] = "waitNotFull"
             \/ x = "wokenNotEmpty" /\ pc[t] = "waitNotEmpty"
      BY <1>5, <3>2, <3>3, SizeIs DEF LiesDown, GetsUp, TypeInv
    <3>6. CASE x = "waitNotFull" /\ n = ldcRingBufferCapacity /\ pc[t] \in {"idle", "wokenNotFull"}
      <4>1. D("waitNotEmpty") = C("waitNotEmpty") /\ D("wokenNotEmpty") = C("wokenNotEmpty")
        BY <1>1, <3>4, <3>6 DEF One
      <4> QED BY <1>1, <1>3, <1>4, <1>5, <3>1, <3>6, <4>1 DEF Rested
    <3>7. CASE x = "waitNotEmpty" /\ n = 0 /\ pc[t] \in {"idle", "wokenNotEmpty"}
      <4>1. D("waitNotFull") = C("waitNotFull") /\ D("wokenNotFull") = C("wokenNotFull")
        BY <1>1, <3>4, <3>7 DEF One
      <4> QED BY <1>1, <1>3, <1>4, <1>5, <3>1, <3>7, <4>1 DEF Rested
    <3>8. CASE x = "wokenNotFull" /\ pc[t] = "waitNotFull"
      <4>1. /\ D("waitNotEmpty") = C("waitNotEmpty") /\ D("wokenNotEmpty") = C("wokenNotEmpty")
            /\ D("waitNotFull") = C("waitNotFull") - 1 /\ D("wokenNotFull") = C("wokenNotFull") + 1
        BY <1>1, <3>4, <3>8 DEF One
      <4> QED BY <1>1, <1>3, <1>4, <1>5, <3>1, <4>1 DEF Rested
    <3>9. CASE x = "wokenNotEmpty" /\ pc[t] = "waitNotEmpty"
      <4>1. /\ D("waitNotFull") = C("waitNotFull") /\ D("wokenNotFull") = C("wokenNotFull")
            /\ D("waitNotEmpty") = C("waitNotEmpty") - 1 /\ D("wokenNotEmpty") = C("wokenNotEmpty") + 1
        BY <1>1, <3>4, <3>9 DEF One
      <4> QED BY <1>1, <1>3, <1>4, <1>5, <3>1, <4>1 DEF Rested
    <3> QED BY <2>3, <3>5, <3>6, <3>7, <3>8, <3>9
  <2>4. ASSUME SameRing, UNCHANGED pc PROVE NobodySleepsOn'
    <3>1. ldcRingBufferSize' = n /\ \A s : D(s) = C(s)
      BY <1>5, <2>4, SizeMoves DEF C, D
    <3> QED BY <1>3, <1>4, <1>5, <3>1
  <2> QED BY <1>6, <2>1, <2>2, <2>3, <2>4 DEF Effect
<1>7. CASE RingNext
  BY <1>6, <1>7, StepIs
<1>8. CASE UNCHANGED ringVars
  <2>1. ldcRingBufferSize' = n /\ \A s : D(s) = C(s)
    BY <1>5, <1>8, SizeMoves DEF C, D, ringVars, SameRing
  <2> QED BY <1>3, <1>4, <1>5, <2>1
<1> QED BY <1>7, <1>8

(* No wake-up is lost, though one mutex serves two conditions and a waiter  *)
(* may wake unasked: while a consumer sleeps there is a woken one for every *)
(* element, and while a producer sleeps one for every free slot.            *)
THEOREM NobodySleepsOnWork ==
    ASSUME RingAssumption
    PROVE  RingSpec => []NobodySleepsOn
<1>1. RingInit => NobodySleepsOn
  <2> SUFFICES ASSUME RingInit PROVE NobodySleepsOn
    OBVIOUS
  <2>1. \A t \in Thread : pc[t] # "waitNotEmpty" /\ pc[t] # "waitNotFull"
    BY DEF RingInit
  <2>2. Count(pc, "waitNotEmpty") = 0 /\ Count(pc, "waitNotFull") = 0
    BY <2>1, CountType
  <2> QED BY <2>2 DEF NobodySleepsOn, In, Count
<1>2. TypeInv /\ TypeInv' /\ [RingNext]_ringVars /\ NobodySleepsOn => NobodySleepsOn'
  BY NobodySleepsStep
<1> QED BY <1>1, <1>2, TypesCorrect, PTL DEF RingSpec

-----------------------------------------------------------------------------
LEMMA SliceStep ==
  ASSUME NEW n \in Nat, n > 0, NEW s \in Nat, NEW k \in 0 .. n - 1
  PROVE  /\ s \div n \in Nat
         /\ k * (s \div n) + (s \div n) = (k + 1) * (s \div n)
         /\ (k + 1) * (s \div n) <= s
<1>1. s \div n \in Nat /\ n * (s \div n) <= s
  OBVIOUS
<1>2. ASSUME NEW q \in Nat, n * q <= s PROVE k * q + q = (k + 1) * q /\ (k + 1) * q <= s
  <2>1. k * q + q = (k + 1) * q
    OBVIOUS
  <2>2. PICK d \in Nat : n = (k + 1) + d
    <3>1. n - (k + 1) \in Nat
      OBVIOUS
    <3> QED BY <3>1
  <2>3. n * q = (k + 1) * q + d * q
    BY <2>2
  <2>4. d * q \in Nat /\ (k + 1) * q \in Nat
    OBVIOUS
  <2> QED BY <1>2, <2>1, <2>3, <2>4
<1> QED BY <1>1, <1>2

-----------------------------------------------------------------------------
(* The threads of the legacy decoder.                                      *)

Stages == {"test", "lock", "asleep", "awake", "run", "ran", "exited"}
CallStages == {"idle", "submit", "await", "asleep", "post", "returned", "release", "join", "released"}

ThreadsTypeOK ==
  /\ busy \in [Worker -> BOOLEAN] /\ waited \in [Worker -> BOOLEAN]
  /\ dead \in [Worker -> BOOLEAN] /\ retval \in [Worker -> Int]
  /\ job \in [Worker -> [offset : Nat, count : Nat]]
  /\ loopAt \in [Worker -> Stages]
  /\ callerAt \in CallStages
  /\ request \in [sliced : BOOLEAN, size : Nat, postRun : BOOLEAN]
  /\ nextOffset \in Nat /\ threadIdx \in 0 .. NumThreads /\ joining \in 0 .. threadIdx
  /\ res \in BOOLEAN /\ requests \in Nat
  /\ ran \in [Parts -> Nat] /\ anyFailed \in BOOLEAN

Sharing == callerAt \in {"submit", "await", "asleep"}

PlaceOK ==
  /\ request.sliced => NumThreads > 0
  /\ callerAt \in {"idle", "returned"} => threadIdx = 0
  /\ callerAt \in {"submit", "post"} => joining = 0
  /\ callerAt = "post" => request.sliced /\ request.postRun /\ threadIdx < NumThreads
  /\ callerAt = "submit" /\ request.sliced => threadIdx < NumThreads
  /\ callerAt = "asleep" => joining < threadIdx
  /\ callerAt = "join" => threadIdx = NumThreads

OffsetOK ==
  /\ nextOffset <= request.size
  /\ callerAt \in {"submit", "post"} /\ request.sliced => nextOffset = threadIdx * perSliceCount
  /\ callerAt \in {"await", "asleep"} /\ request.sliced => nextOffset = request.size

BusyOK == \A i \in Worker : busy[i] => Sharing /\ joining <= i /\ i < threadIdx

LoopOK == \A i \in Worker :
  /\ loopAt[i] \in {"run", "ran"} => busy[i]
  /\ loopAt[i] = "asleep" => ~busy[i] /\ ~dead[i]
  /\ loopAt[i] = "awake" => busy[i] \/ dead[i]

CallerOK == callerAt = "asleep" => busy[joining] /\ waited[joining]

Pending(i) == busy[i] /\ loopAt[i] # "ran"
HasPart(i, e) == Pending(i) /\ job[i].offset <= e /\ e < job[i].offset + job[i].count

JobsOK ==
  /\ \A i \in Worker, e \in Parts : HasPart(i, e) => e < nextOffset
  /\ \A i \in Worker, k \in Worker, e \in Parts : HasPart(i, e) /\ HasPart(k, e) => i = k

RanOK == \A e \in Parts :
  /\ Sharing => ran[e] = IF e < nextOffset /\ (\A i \in Worker : ~HasPart(i, e)) THEN 1 ELSE 0
  /\ callerAt = "post" => ran[e] = IF e < nextOffset THEN 2 ELSE 1
  /\ callerAt = "returned" => ran[e] = IF request.sliced /\ request.postRun THEN 2 ELSE 1

Unheard(i) == joining <= i /\ i < threadIdx /\ ~Pending(i) /\ retval[i] # 0
ResOK ==
  /\ Sharing => (anyFailed <=> ~res \/ \E i \in Worker : Unheard(i))
  /\ callerAt \in {"post", "returned"} => (anyFailed <=> ~res)

ThreadsInv == /\ ThreadsTypeOK /\ PlaceOK /\ OffsetOK /\ BusyOK /\ LoopOK
              /\ CallerOK /\ JobsOK /\ RanOK /\ ResOK

(* The steps of a thread's loop that leave its work alone.                 *)
LEMMA LoopKeeps ==
  ASSUME ThreadsInv, NEW i \in Worker, TestDead(i) \/ AwaitWork(i) \/ WaitEnds(i) \/ StartJob(i)
  PROVE  ThreadsInv'
<1> USE DEF ThreadsInv, sharedVars, callVars, ranVars
<1>0. /\ UNCHANGED <<busy, waited, dead, job, retval, callerAt, request, nextOffset, threadIdx,
                    joining, res, requests, ran, anyFailed>>
      /\ loopAt' \in [Worker -> Stages]
      /\ \A k \in Worker : k # i => loopAt'[k] = loopAt[k]
      /\ loopAt[i] # "ran" /\ loopAt'[i] # "ran"
      /\ loopAt'[i] = "run" => loopAt[i] = "awake" /\ ~dead[i]
      /\ loopAt'[i] = "asleep" => ~busy[i] /\ ~dead[i]
      /\ loopAt'[i] = "awake" => busy[i] \/ dead[i]
  BY DEF ThreadsTypeOK, TestDead, AwaitWork, WaitEnds, StartJob, Stages
<1>1. ThreadsTypeOK'
  BY <1>0 DEF ThreadsTypeOK, Parts
<1>2. PlaceOK' /\ OffsetOK' /\ BusyOK' /\ CallerOK'
  BY <1>0 DEF PlaceOK, OffsetOK, BusyOK, CallerOK, Sharing, perSliceCount
<1>3. LoopOK'
  BY <1>0 DEF LoopOK
<1>4. \A k \in Worker : Pending(k)' = Pending(k)
  BY <1>0 DEF Pending, ThreadsTypeOK
<1>5. \A k \in Worker, e \in Parts : HasPart(k, e)' = HasPart(k, e)
  BY <1>0, <1>4 DEF HasPart
<1>6. JobsOK'
  BY <1>0, <1>5 DEF JobsOK, Parts
<1>7. RanOK'
  BY <1>0, <1>5 DEF RanOK, Parts, Sharing
<1>8. ResOK'
  BY <1>0, <1>4 DEF ResOK, Unheard, Sharing
<1> QED BY <1>1, <1>2, <1>3, <1>6, <1>7, <1>8

(* The parts of the job are run: they were held by this thread alone.      *)
LEMMA RunKeeps ==
  ASSUME ThreadsInv, NEW i \in Worker, executeThreadJob(i)
  PROVE  ThreadsInv'
<1> USE DEF ThreadsInv, sharedVars, callVars
<1>0. /\ UNCHANGED <<busy, waited, dead, job, callerAt, request, nextOffset, threadIdx, joining, res, requests>>
      /\ loopAt[i] = "run" /\ loopAt' = [loopAt EXCEPT ![i] = "ran"]
      /\ busy[i] /\ Sharing /\ joining <= i /\ i < threadIdx
  BY DEF executeThreadJob, LoopOK, BusyOK
<1>1. PICK outcome \in Results : RunsPart(job[i], outcome) /\ retval' = [retval EXCEPT ![i] = outcome]
  BY DEF executeThreadJob
<1> outcome \in Int
  BY DEF Results
<1>2. /\ ran' = [e \in Parts |-> IF e \in job[i].offset .. job[i].offset + job[i].count - 1
                               THEN ran[e] + 1 ELSE ran[e]]
      /\ anyFailed' = (anyFailed \/ outcome # 0)
  BY <1>1 DEF RunsPart
<1>3. ThreadsTypeOK'
  <2>1. ran' \in [Parts -> Nat]
    BY <1>2 DEF ThreadsTypeOK
  <2>2. loopAt' \in [Worker -> Stages] /\ retval' \in [Worker -> Int] /\ anyFailed' \in BOOLEAN
    BY <1>0, <1>1, <1>2 DEF ThreadsTypeOK, Stages
  <2> QED BY <1>0, <2>1, <2>2 DEF ThreadsTypeOK, Parts
<1>4. PlaceOK' /\ OffsetOK' /\ BusyOK' /\ CallerOK'
  BY <1>0 DEF PlaceOK, OffsetOK, BusyOK, CallerOK, Sharing, perSliceCount
<1>5. LoopOK'
  BY <1>0 DEF LoopOK, ThreadsTypeOK
<1>6. Pending(i) /\ ~Pending(i)' /\ \A k \in Worker : k # i => (Pending(k)' <=> Pending(k))
  BY <1>0 DEF Pending, ThreadsTypeOK
<1>7. \A e \in Parts : ~HasPart(i, e)' /\ \A k \in Worker : k # i => (HasPart(k, e)' <=> HasPart(k, e))
  BY <1>0, <1>6 DEF HasPart
<1>8. JobsOK'
  BY <1>0, <1>7 DEF JobsOK, Parts
<1>9. RanOK'
  <2> SUFFICES ASSUME NEW e \in Parts
               PROVE  ran'[e] = IF e < nextOffset /\ (\A k \in Worker : ~HasPart(k, e)') THEN 1 ELSE 0
    BY <1>0 DEF RanOK, Parts, Sharing
  <2>1. ran[e] = IF e < nextOffset /\ (\A k \in Worker : ~HasPart(k, e)) THEN 1 ELSE 0
    BY <1>0 DEF RanOK
  <2>2. CASE HasPart(i, e)
    <3>1. e < nextOffset /\ \A k \in Worker : k # i => ~HasPart(k, e)
      BY <2>2 DEF JobsOK
    <3>2. e \in job[i].offset .. job[i].offset + job[i].count - 1
      BY <2>2 DEF HasPart, ThreadsTypeOK, Parts
    <3>3. ran'[e] = ran[e] + 1
      BY <1>2, <3>2
    <3> QED BY <2>1, <2>2, <3>1, <3>3, <1>7
  <2>3. CASE ~HasPart(i, e)
    <3>1. e \notin job[i].offset .. job[i].offset + job[i].count - 1
      BY <2>3, <1>6 DEF HasPart, ThreadsTypeOK, Parts
    <3>2. ran'[e] = ran[e]
      BY <1>2, <3>1
    <3> QED BY <2>1, <2>3, <3>2, <1>7
  <2> QED BY <2>2, <2>3
<1>10. ResOK'
  <2>1. \A k \in Worker : k # i => (Unheard(k)' <=> Unheard(k))
    BY <1>0, <1>1, <1>6 DEF Unheard, ThreadsTypeOK
  <2>2. ~Unheard(i) /\ (Unheard(i)' <=> outcome # 0)
    BY <1>0, <1>1, <1>6 DEF Unheard, ThreadsTypeOK
  <2>3. anyFailed <=> ~res \/ \E k \in Worker : Unheard(k)
    BY <1>0 DEF ResOK
  <2>4. anyFailed' <=> ~res \/ \E k \in Worker : Unheard(k)'
    BY <1>2, <2>1, <2>2, <2>3
  <2> QED BY <1>0, <2>4 DEF ResOK, Sharing
<1> QED BY <1>3, <1>4, <1>5, <1>8, <1>9, <1>10

LEMMA FinishKeeps ==
  ASSUME ThreadsInv, NEW i \in Worker, FinishJob(i)
  PROVE  ThreadsInv'
<1> USE DEF ThreadsInv, ranVars
<1>0. /\ UNCHANGED <<dead, retval, job, request, nextOffset, threadIdx, joining, res, requests, ran, anyFailed>>
      /\ loopAt[i] = "ran" /\ loopAt' = [loopAt EXCEPT ![i] = "test"]
      /\ busy' = [busy EXCEPT ![i] = FALSE] /\ waited' = [waited EXCEPT ![i] = FALSE]
      /\ busy[i] /\ Sharing /\ joining <= i /\ i < threadIdx
      /\ callerAt' = IF waited[i] /\ callerAt = "asleep" /\ joining = i THEN "await" ELSE callerAt
  BY DEF FinishJob, LoopOK, BusyOK
<1>1. Sharing' /\ (callerAt' = callerAt \/ (callerAt = "asleep" /\ callerAt' = "await"))
  BY <1>0 DEF Sharing
<1>2. ThreadsTypeOK'
  BY <1>0, <1>1 DEF ThreadsTypeOK, Parts, Stages, CallStages
<1>3. PlaceOK' /\ OffsetOK'
  BY <1>0, <1>1 DEF PlaceOK, OffsetOK, perSliceCount
<1>4. BusyOK'
  BY <1>0, <1>1 DEF BusyOK, ThreadsTypeOK
<1>5. LoopOK'
  BY <1>0 DEF LoopOK, ThreadsTypeOK
<1>6. CallerOK'
  <2>1. CASE joining = i
    BY <1>0, <2>1 DEF CallerOK
  <2>2. CASE joining # i
    BY <1>0, <2>2 DEF CallerOK, ThreadsTypeOK
  <2> QED BY <2>1, <2>2
<1>7. \A k \in Worker : Pending(k)' <=> Pending(k)
  BY <1>0 DEF Pending, ThreadsTypeOK
<1>8. \A k \in Worker, e \in Parts : HasPart(k, e)' <=> HasPart(k, e)
  BY <1>0, <1>7 DEF HasPart
<1>9. JobsOK'
  BY <1>0, <1>8 DEF JobsOK, Parts
<1>10. RanOK'
  BY <1>0, <1>1, <1>8 DEF RanOK, Parts, Sharing
<1>11. ResOK'
  BY <1>0, <1>1, <1>7 DEF ResOK, Unheard, Sharing
<1> QED BY <1>2, <1>3, <1>4, <1>5, <1>6, <1>9, <1>10, <1>11

-----------------------------------------------------------------------------
(* The steps of the user.                                                  *)
LEMMA ExecuteKeeps ==
  ASSUME ThreadsInv, NEW r \in [sliced : BOOLEAN, size : Nat, postRun : BOOLEAN], Execute(r),
         NumThreads \in Nat
  PROVE  ThreadsInv'
<1> USE DEF ThreadsInv, loopVars
<1>0. /\ UNCHANGED <<busy, waited, dead, retval, job, loopAt>>
      /\ callerAt = "idle" /\ callerAt' = "submit" /\ request' = r /\ requests' = requests + 1
      /\ nextOffset' = 0 /\ threadIdx' = 0 /\ joining' = 0 /\ res' = TRUE
      /\ ran' = [e \in 0 .. r.size - 1 |-> 0] /\ anyFailed' = FALSE
      /\ r.sliced => NumThreads > 0
  BY DEF Execute
<1>1. \A i \in Worker : ~busy[i] /\ ~Pending(i)'
  BY <1>0 DEF BusyOK, Sharing, Pending
<1>2. ThreadsTypeOK'
  <2>1. ran' \in [Parts' -> Nat]
    BY <1>0 DEF Parts
  <2>2. callerAt' \in CallStages /\ requests' \in Nat /\ request' \in [sliced : BOOLEAN, size : Nat, postRun : BOOLEAN]
    BY <1>0 DEF ThreadsTypeOK, CallStages
  <2>3. nextOffset' \in Nat /\ threadIdx' \in 0 .. NumThreads /\ joining' \in 0 .. threadIdx'
    BY <1>0
  <2> QED BY <1>0, <2>1, <2>2, <2>3 DEF ThreadsTypeOK
<1>3. PlaceOK' /\ CallerOK' /\ LoopOK' /\ BusyOK'
  BY <1>0, <1>1 DEF PlaceOK, CallerOK, LoopOK, BusyOK
<1>4. OffsetOK'
  <2>1. r.sliced => r.size \div NumThreads \in Nat
    BY <1>0
  <2>2. \A q \in Nat : 0 * q = 0
    OBVIOUS
  <2> QED BY <1>0, <2>1, <2>2 DEF OffsetOK, perSliceCount
<1>5. \A i \in Worker : \A e : ~HasPart(i, e)'
  BY <1>1 DEF HasPart
<1>6. JobsOK'
  BY <1>5 DEF JobsOK
<1>7. RanOK'
  BY <1>0, <1>5 DEF RanOK, Parts
<1>8. ResOK'
  BY <1>0 DEF ResOK, Unheard, Worker
<1> QED BY <1>2, <1>3, <1>4, <1>6, <1>7, <1>8

(* The thread is idle, since only those of this round are not: it takes    *)
(* the next parts, which none holds.                                       *)
LEMMA SubmitKeeps ==
  ASSUME ThreadsInv, SubmitJob, NumThreads \in Nat
  PROVE  ThreadsInv'
<1> USE DEF ThreadsInv, ranVars
<1>0. /\ UNCHANGED <<waited, dead, retval, callerAt, request, joining, res, requests, ran, anyFailed>>
      /\ callerAt = "submit" /\ Sharing /\ joining = 0 /\ MoreToSubmit
      /\ threadIdx \in Worker /\ threadIdx < NumThreads
      /\ nextOffset' = nextOffset + JobSize /\ threadIdx' = threadIdx + 1
  BY DEF SubmitJob, Sharing, PlaceOK, MoreToSubmit, Worker, ThreadsTypeOK
<1> PICK n \in Worker : n = threadIdx
  BY <1>0
<1>1. ~busy[n]
  BY <1>0 DEF BusyOK, ThreadsTypeOK
<1>2. /\ busy' = [busy EXCEPT ![n] = TRUE]
      /\ job' = [job EXCEPT ![n] = [offset |-> nextOffset, count |-> JobSize]]
      /\ loopAt' = [loopAt EXCEPT ![n] = IF @ = "asleep" THEN "lock" ELSE @]
  BY <1>1 DEF SubmitJob, Notified
<1>3. /\ JobSize \in Nat /\ nextOffset + JobSize <= request.size
      /\ request.sliced => nextOffset + JobSize = (threadIdx + 1) * perSliceCount /\ threadIdx + 1 < NumThreads
  <2>1. CASE request.sliced
    <3>1. JobSize = request.size \div NumThreads /\ perSliceCount = request.size \div NumThreads
      BY <2>1 DEF JobSize, perSliceCount
    <3>2. nextOffset = threadIdx * perSliceCount /\ threadIdx \in 0 .. NumThreads - 1 /\ request.size \in Nat
      BY <1>0, <2>1 DEF OffsetOK, Worker, ThreadsTypeOK
    <3>3. /\ request.size \div NumThreads \in Nat
          /\ threadIdx * (request.size \div NumThreads) + (request.size \div NumThreads) = (threadIdx + 1) * (request.size \div NumThreads)
          /\ (threadIdx + 1) * (request.size \div NumThreads) <= request.size
      BY <3>2, SliceStep
    <3>4. threadIdx + 1 < NumThreads
      BY <1>0, <2>1 DEF MoreToSubmit, ThreadsTypeOK
    <3> QED BY <3>1, <3>2, <3>3, <3>4
  <2>2. CASE ~request.sliced
    BY <1>0, <2>2 DEF JobSize, MoreToSubmit, ThreadsTypeOK
  <2> QED BY <2>1, <2>2 DEF ThreadsTypeOK
<1>4. ThreadsTypeOK'
  BY <1>0, <1>2, <1>3, SMTT(30) DEF ThreadsTypeOK, Parts, Stages
<1>5. PlaceOK' /\ CallerOK'
  BY <1>0, <1>3 DEF PlaceOK, CallerOK, ThreadsTypeOK
<1>6. OffsetOK'
  BY <1>0, <1>3 DEF OffsetOK, perSliceCount, ThreadsTypeOK
<1>7. BusyOK'
  BY <1>0, <1>2 DEF BusyOK, ThreadsTypeOK, Sharing, Worker
<1>8. LoopOK'
  BY <1>0, <1>1, <1>2 DEF LoopOK, ThreadsTypeOK
<1>9. /\ \A k \in Worker : k # n => (Pending(k)' <=> Pending(k))
      /\ ~Pending(n) /\ Pending(n)'
  BY <1>0, <1>1, <1>2 DEF Pending, ThreadsTypeOK, LoopOK
<1>10. \A e \in Parts :
         /\ \A k \in Worker : k # n => (HasPart(k, e)' <=> HasPart(k, e))
         /\ ~HasPart(n, e)
         /\ HasPart(n, e)' <=> nextOffset <= e /\ e < nextOffset + JobSize
  BY <1>0, <1>2, <1>9 DEF HasPart, ThreadsTypeOK
<1>11. JobsOK'
  <2>1. \A k \in Worker, e \in Parts : HasPart(k, e)' => e < nextOffset + JobSize
    BY <1>3, <1>10 DEF JobsOK, ThreadsTypeOK, Parts
  <2>2. ASSUME NEW k \in Worker, NEW l \in Worker, NEW e \in Parts, HasPart(k, e)', HasPart(l, e)'
        PROVE  k = l
    <3>1. \A m \in Worker : m # n /\ HasPart(m, e)' => e < nextOffset
      BY <1>10 DEF JobsOK
    <3>2. HasPart(n, e)' => ~(e < nextOffset)
      BY <1>3, <1>10 DEF ThreadsTypeOK, Parts
    <3>3. k # n /\ l # n => k = l
      BY <2>2, <1>10 DEF JobsOK
    <3> QED BY <2>2, <3>1, <3>2, <3>3
  <2> QED BY <1>0, <2>1, <2>2 DEF JobsOK, Parts
<1>12. RanOK'
  <2> SUFFICES ASSUME NEW e \in Parts
               PROVE  ran[e] = IF e < nextOffset + JobSize /\ (\A k \in Worker : ~HasPart(k, e)') THEN 1 ELSE 0
    BY <1>0 DEF RanOK, Parts, Sharing
  <2>1. ran[e] = IF e < nextOffset /\ (\A k \in Worker : ~HasPart(k, e)) THEN 1 ELSE 0
    BY <1>0 DEF RanOK
  <2>2. e \in Int /\ nextOffset \in Nat /\ JobSize \in Nat
    BY <1>3 DEF Parts, ThreadsTypeOK
  <2>3. CASE e < nextOffset
    <3>1. \A k \in Worker : HasPart(k, e)' <=> HasPart(k, e)
      BY <2>2, <2>3, <1>0, <1>10
    <3> QED BY <2>1, <2>2, <2>3, <3>1
  <2>4. CASE ~(e < nextOffset)
    <3>1. e < nextOffset + JobSize => HasPart(n, e)'
      BY <2>2, <2>4, <1>10
    <3> QED BY <2>1, <2>4, <3>1, <1>0
  <2> QED BY <2>3, <2>4
<1>13. ResOK'
  <2>1. \A k \in Worker : Unheard(k)' <=> Unheard(k)
    <3> TAKE k \in Worker
    <3>1. CASE k = n
      BY <3>1, <1>0, <1>9 DEF Unheard, ThreadsTypeOK
    <3>2. CASE k # n
      <4>1. k < threadIdx + 1 <=> k < threadIdx
        BY <3>2 DEF Worker, ThreadsTypeOK
      <4> QED BY <3>2, <4>1, <1>0, <1>9 DEF Unheard
    <3> QED BY <3>1, <3>2
  <2> QED BY <1>0, <2>1 DEF ResOK, Sharing
<1> QED BY <1>4, <1>5, <1>6, <1>7, <1>8, <1>11, <1>12, <1>13

(* Parts that the caller runs are those that no thread has been given.     *)
LEMMA RemainderKeeps ==
  ASSUME ThreadsInv, RunRemainder, NumThreads \in Nat
  PROVE  ThreadsInv'
<1> USE DEF ThreadsInv, loopVars
<1> DEFINE size == IF request.sliced THEN request.size - nextOffset ELSE 1
<1>0. /\ UNCHANGED <<busy, waited, dead, retval, job, loopAt, request, threadIdx, joining, requests>>
      /\ callerAt = "submit" /\ callerAt' = "await" /\ Sharing /\ joining = 0
      /\ request.sliced \/ nextOffset < request.size
      /\ nextOffset' = nextOffset + size
  BY DEF RunRemainder, Sharing, PlaceOK
<1>1. PICK outcome \in Results : /\ RunsPart([offset |-> nextOffset, count |-> size], outcome)
                               /\ res' = (res /\ outcome = 0)
  BY DEF RunRemainder
<1>2. /\ ran' = [e \in Parts |-> IF e \in nextOffset .. nextOffset + size - 1 THEN ran[e] + 1 ELSE ran[e]]
      /\ anyFailed' = (anyFailed \/ outcome # 0)
  BY <1>1 DEF RunsPart
<1>3. size \in Nat /\ nextOffset \in Nat /\ request.size \in Nat /\ nextOffset + size <= request.size
      /\ (request.sliced => nextOffset + size = request.size)
  BY <1>0 DEF OffsetOK, ThreadsTypeOK
<1> HIDE DEF size
<1>4. ThreadsTypeOK'
  <2>1. ran' \in [Parts -> Nat]
    BY <1>2 DEF ThreadsTypeOK
  <2>2. callerAt' \in CallStages /\ nextOffset' \in Nat /\ res' \in BOOLEAN /\ anyFailed' \in BOOLEAN
    BY <1>0, <1>1, <1>2, <1>3 DEF ThreadsTypeOK, CallStages
  <2> QED BY <1>0, <2>1, <2>2 DEF ThreadsTypeOK, Parts
<1>5. PlaceOK' /\ OffsetOK' /\ LoopOK' /\ CallerOK'
  BY <1>0, <1>3 DEF PlaceOK, OffsetOK, LoopOK, CallerOK
<1>6. BusyOK' /\ Sharing'
  BY <1>0 DEF BusyOK, Sharing
<1>7. \A k \in Worker : (Pending(k)' <=> Pending(k)) /\ (Unheard(k)' <=> Unheard(k))
  BY <1>0 DEF Pending, Unheard
<1>8. \A k \in Worker, e \in Parts : (HasPart(k, e)' <=> HasPart(k, e)) /\ (HasPart(k, e) => e < nextOffset)
  BY <1>0, <1>7 DEF HasPart, JobsOK
<1>9. JobsOK'
  BY <1>0, <1>3, <1>8 DEF JobsOK, Parts
<1>10. RanOK'
  <2> SUFFICES ASSUME NEW e \in Parts
               PROVE  ran'[e] = IF e < nextOffset + size /\ (\A k \in Worker : ~HasPart(k, e)') THEN 1 ELSE 0
    BY <1>0 DEF RanOK, Parts, Sharing
  <2>1. ran[e] = IF e < nextOffset /\ (\A k \in Worker : ~HasPart(k, e)) THEN 1 ELSE 0
    BY <1>0 DEF RanOK
  <2>2. e \in Int
    BY DEF Parts
  <2>3. CASE e < nextOffset
    BY <2>1, <2>2, <2>3, <1>2, <1>3, <1>8
  <2>4. CASE ~(e < nextOffset)
    <3>1. \A k \in Worker : ~HasPart(k, e)'
      BY <2>4, <1>8
    <3>2. ran[e] = 0
      BY <2>1, <2>4
    <3>3. ran'[e] = IF e < nextOffset + size THEN 1 ELSE 0
      BY <2>2, <2>4, <3>2, <1>2, <1>3
    <3> QED BY <3>1, <3>3
  <2> QED BY <2>3, <2>4
<1>11. ResOK'
  <2>1. anyFailed <=> ~res \/ \E k \in Worker : Unheard(k)
    BY <1>0 DEF ResOK
  <2>2. anyFailed' <=> ~res' \/ \E k \in Worker : Unheard(k)'
    BY <1>1, <1>2, <1>7, <2>1
  <2> QED BY <1>0, <2>2 DEF ResOK
<1> QED BY <1>4, <1>5, <1>6, <1>9, <1>10, <1>11

LEMMA NoRemainderKeeps ==
  ASSUME ThreadsInv, NoRemainder
  PROVE  ThreadsInv'
<1> USE DEF ThreadsInv, loopVars, ranVars
<1>0. /\ UNCHANGED <<busy, waited, dead, retval, job, loopAt, request, nextOffset, threadIdx, joining,
                    res, requests, ran, anyFailed>>
      /\ callerAt = "submit" /\ callerAt' = "await" /\ ~request.sliced /\ Sharing /\ Sharing'
  BY DEF NoRemainder, Sharing
<1>1. ThreadsTypeOK' /\ PlaceOK' /\ OffsetOK' /\ BusyOK' /\ LoopOK' /\ CallerOK'
  BY <1>0 DEF ThreadsTypeOK, Parts, CallStages, PlaceOK, OffsetOK, BusyOK, LoopOK, CallerOK
<1>2. \A k \in Worker : (Pending(k)' <=> Pending(k)) /\ (Unheard(k)' <=> Unheard(k))
  BY <1>0 DEF Pending, Unheard
<1>3. \A k \in Worker, e \in Parts : HasPart(k, e)' <=> HasPart(k, e)
  BY <1>0, <1>2 DEF HasPart
<1>4. JobsOK' /\ RanOK' /\ ResOK'
  BY <1>0, <1>2, <1>3 DEF JobsOK, RanOK, ResOK, Parts
<1> QED BY <1>1, <1>4

(* A thread that is not busy has told what its job returned.               *)
LEMMA WaitKeeps ==
  ASSUME ThreadsInv, threadingWaitJob, NumThreads \in Nat
  PROVE  ThreadsInv'
<1> USE DEF ThreadsInv, ranVars
<1>0. /\ UNCHANGED <<busy, dead, retval, job, loopAt, request, nextOffset, threadIdx, requests, ran, anyFailed>>
      /\ callerAt \in {"await", "asleep"} /\ callerAt' \in {"await", "asleep"} /\ joining < threadIdx
      /\ Sharing /\ Sharing'
  BY DEF threadingWaitJob, Sharing
<1> PICK n \in Worker : n = joining
  BY <1>0 DEF Worker, ThreadsTypeOK
<1>1. \A k \in Worker : Pending(k)' <=> Pending(k)
  BY <1>0 DEF Pending
<1>2. \A k \in Worker, e \in Parts : HasPart(k, e)' <=> HasPart(k, e)
  BY <1>0, <1>1 DEF HasPart
<1>3. JobsOK' /\ RanOK'
  BY <1>0, <1>2 DEF JobsOK, RanOK, Parts, Sharing
<1>4. LoopOK'
  BY <1>0 DEF LoopOK
<1>5. CASE busy[n]
  <2>1. waited' = [waited EXCEPT ![n] = TRUE] /\ callerAt' = "asleep" /\ joining' = joining /\ res' = res
    BY <1>5 DEF threadingWaitJob
  <2>2. ThreadsTypeOK' /\ PlaceOK' /\ OffsetOK' /\ BusyOK' /\ CallerOK'
    BY <1>0, <1>5, <2>1 DEF ThreadsTypeOK, Parts, CallStages, PlaceOK, OffsetOK, perSliceCount, BusyOK, CallerOK
  <2>3. ResOK'
    BY <1>0, <1>1, <2>1 DEF ResOK, Unheard
  <2> QED BY <1>3, <1>4, <2>2, <2>3
<1>6. CASE ~busy[n]
  <2>1. /\ waited' = waited /\ callerAt' = "await" /\ joining' = joining + 1
        /\ res' = (res /\ retval[n] = 0)
    BY <1>6 DEF threadingWaitJob
  <2>2. ThreadsTypeOK' /\ PlaceOK' /\ OffsetOK' /\ CallerOK'
    BY <1>0, <2>1 DEF ThreadsTypeOK, Parts, CallStages, PlaceOK, OffsetOK, CallerOK
  <2>3. BusyOK'
    BY <1>0, <1>6, <2>1 DEF BusyOK, ThreadsTypeOK, Worker
  <2>4. ~Pending(n)
    BY <1>6 DEF Pending
  <2>5. Unheard(n) <=> retval[n] # 0
    BY <1>0, <2>4 DEF Unheard, ThreadsTypeOK
  <2>6. \A k \in Worker : Unheard(k)' <=> Unheard(k) /\ k # n
    BY <1>0, <1>1, <2>1 DEF Unheard, ThreadsTypeOK, Worker
  <2>7. anyFailed <=> ~res \/ \E k \in Worker : Unheard(k)
    BY <1>0 DEF ResOK
  <2>8. anyFailed <=> ~res' \/ \E k \in Worker : Unheard(k)'
    BY <2>1, <2>5, <2>6, <2>7 DEF ThreadsTypeOK
  <2>9. ResOK'
    BY <1>0, <2>1, <2>8 DEF ResOK
  <2> QED BY <1>3, <1>4, <2>2, <2>3, <2>9
<1> QED BY <1>5, <1>6

(* All have been waited for: nothing is pending and every answer is heard. *)
LEMMA RoundKeeps ==
  ASSUME ThreadsInv, EndRound, NumThreads \in Nat
  PROVE  ThreadsInv'
<1> USE DEF ThreadsInv, loopVars, ranVars
<1>0. /\ UNCHANGED <<busy, waited, dead, retval, job, loopAt, request, res, requests, ran, anyFailed>>
      /\ callerAt = "await" /\ Sharing /\ joining = threadIdx /\ threadIdx' = 0 /\ joining' = 0
      /\ callerAt' = IF ~request.sliced /\ nextOffset < request.size THEN "submit"
                     ELSE IF request.sliced /\ request.postRun THEN "post" ELSE "returned"
      /\ nextOffset' = IF callerAt' = "post" THEN 0 ELSE nextOffset
  BY DEF EndRound, Sharing
<1>1. \A k \in Worker : ~busy[k] /\ ~Pending(k) /\ ~Pending(k)' /\ ~Unheard(k)
  BY <1>0 DEF BusyOK, Pending, Unheard, ThreadsTypeOK, Worker
<1>2. \A k \in Worker, e \in Parts : ~HasPart(k, e) /\ ~HasPart(k, e)'
  BY <1>1 DEF HasPart
<1>3. ThreadsTypeOK'
  BY <1>0 DEF ThreadsTypeOK, Parts, CallStages
<1>4. PlaceOK' /\ CallerOK' /\ LoopOK' /\ BusyOK'
  BY <1>0, <1>1 DEF PlaceOK, CallerOK, LoopOK, BusyOK
<1>5. OffsetOK'
  <2>1. request.sliced => request.size \div NumThreads \in Nat
    <3>1. request.size \in Nat /\ (request.sliced => NumThreads > 0)
      BY DEF ThreadsTypeOK, PlaceOK
    <3> QED BY <3>1
  <2>2. \A q \in Nat : 0 * q = 0
    OBVIOUS
  <2> QED BY <1>0, <2>1, <2>2 DEF OffsetOK, perSliceCount, ThreadsTypeOK
<1>6. JobsOK'
  BY <1>0, <1>2 DEF JobsOK, Parts
<1>7. \A e \in Parts : ran[e] = IF e < nextOffset THEN 1 ELSE 0
  BY <1>0, <1>2 DEF RanOK
<1>8. callerAt' # "submit" => nextOffset = request.size
  BY <1>0, SMTT(30) DEF OffsetOK, ThreadsTypeOK
<1>9. \A e \in Parts : e < request.size /\ ~(e < 0)
  BY DEF Parts, ThreadsTypeOK
<1>10. RanOK'
  BY <1>0, <1>2, <1>7, <1>8, <1>9 DEF RanOK, Parts, Sharing
<1>11. ResOK'
  <2>1. anyFailed <=> ~res
    BY <1>0, <1>1 DEF ResOK
  <2>2. \A k \in Worker : ~Unheard(k)'
    BY <1>0 DEF Unheard, Worker
  <2> QED BY <1>0, <2>1, <2>2 DEF ResOK
<1> QED BY <1>3, <1>4, <1>5, <1>6, <1>10, <1>11

(* Every slice has had the first function once; the second follows.        *)
LEMMA PostRunKeeps ==
  ASSUME ThreadsInv, PostRun, NumThreads \in Nat
  PROVE  ThreadsInv'
<1> USE DEF ThreadsInv, loopVars
<1> DEFINE last == threadIdx = NumThreads - 1
           size == IF last THEN request.size - nextOffset ELSE perSliceCount
<1>0. /\ UNCHANGED <<busy, waited, dead, retval, job, loopAt, request, joining, requests>>
      /\ callerAt = "post" /\ callerAt' = IF last THEN "returned" ELSE "post"
      /\ ~Sharing /\ ~Sharing' /\ joining = 0 /\ request.sliced /\ request.postRun
      /\ threadIdx < NumThreads /\ NumThreads > 0
      /\ nextOffset' = nextOffset + size /\ threadIdx' = IF last THEN 0 ELSE threadIdx + 1
  BY DEF PostRun, Sharing, PlaceOK
<1>1. PICK outcome \in Results : /\ RunsPart([offset |-> nextOffset, count |-> size], outcome)
                               /\ res' = (res /\ outcome = 0)
  BY DEF PostRun
<1>2. /\ ran' = [e \in Parts |-> IF e \in nextOffset .. nextOffset + size - 1 THEN ran[e] + 1 ELSE ran[e]]
      /\ anyFailed' = (anyFailed \/ outcome # 0)
  BY <1>1 DEF RunsPart
<1>3. /\ size \in Nat /\ nextOffset \in Nat /\ request.size \in Nat /\ nextOffset + size <= request.size
      /\ last => nextOffset + size = request.size
      /\ ~last => nextOffset + size = (threadIdx + 1) * perSliceCount /\ threadIdx + 1 < NumThreads
  <2>1. threadIdx \in 0 .. NumThreads - 1 /\ request.size \in Nat /\ nextOffset \in Nat /\ nextOffset <= request.size
    BY <1>0 DEF ThreadsTypeOK, OffsetOK
  <2>2. CASE last
    BY <2>1, <2>2
  <2>3. CASE ~last
    <3>1. /\ request.size \div NumThreads \in Nat
          /\ threadIdx * (request.size \div NumThreads) + (request.size \div NumThreads) = (threadIdx + 1) * (request.size \div NumThreads)
          /\ (threadIdx + 1) * (request.size \div NumThreads) <= request.size
      BY <1>0, <2>1, SliceStep
    <3>2. nextOffset = threadIdx * (request.size \div NumThreads)
      BY <1>0 DEF OffsetOK, perSliceCount
    <3>3. size = request.size \div NumThreads /\ perSliceCount = request.size \div NumThreads
      BY <2>3 DEF perSliceCount
    <3>4. threadIdx + 1 < NumThreads
      BY <2>1, <2>3
    <3> QED BY <2>1, <2>3, <3>1, <3>2, <3>3, <3>4
  <2> QED BY <2>2, <2>3
<1> HIDE DEF size
<1>4. \A k \in Worker : ~busy[k] /\ ~Pending(k) /\ ~Pending(k)'
  BY <1>0 DEF BusyOK, Pending
<1>5. \A k \in Worker, e \in Parts : ~HasPart(k, e)'
  BY <1>0, <1>4 DEF HasPart
<1>6. ThreadsTypeOK'
  <2>1. ran' \in [Parts -> Nat]
    BY <1>2 DEF ThreadsTypeOK
  <2>2. callerAt' \in CallStages /\ nextOffset' \in Nat /\ res' \in BOOLEAN /\ anyFailed' \in BOOLEAN
    BY <1>0, <1>1, <1>2, <1>3 DEF ThreadsTypeOK, CallStages
  <2>3. threadIdx' \in 0 .. NumThreads /\ joining \in 0 .. threadIdx'
    BY <1>0, <1>3 DEF ThreadsTypeOK
  <2> QED BY <1>0, <2>1, <2>2, <2>3 DEF ThreadsTypeOK, Parts
<1>7. PlaceOK' /\ BusyOK' /\ LoopOK' /\ CallerOK' /\ OffsetOK'
  BY <1>0, <1>3, <1>4 DEF PlaceOK, BusyOK, LoopOK, CallerOK, OffsetOK, perSliceCount
<1>8. JobsOK'
  BY <1>0, <1>5 DEF JobsOK, Parts
<1>9. RanOK'
  <2>1. ASSUME NEW e \in Parts PROVE ran'[e] = IF e < nextOffset + size THEN 2 ELSE 1
    <3>1. ran[e] = IF e < nextOffset THEN 2 ELSE 1
      BY <1>0 DEF RanOK
    <3>2. e \in Int
      BY DEF Parts
    <3> QED BY <1>2, <1>3, <3>1, <3>2
  <2>2. \A e \in Parts : e < request.size
    BY <1>3 DEF Parts
  <2> QED BY <1>0, <1>3, <2>1, <2>2 DEF RanOK, Parts
<1>10. ResOK'
  BY <1>0, <1>1, <1>2 DEF ResOK
<1> QED BY <1>6, <1>7, <1>8, <1>9, <1>10

LEMMA ReturnKeeps ==
  ASSUME ThreadsInv, Return
  PROVE  ThreadsInv'
<1> USE DEF ThreadsInv, loopVars, ranVars
<1>0. /\ UNCHANGED <<busy, waited, dead, retval, job, loopAt, request, nextOffset, threadIdx, joining,
                    res, requests, ran, anyFailed>>
      /\ callerAt = "returned" /\ callerAt' = "idle" /\ ~Sharing /\ ~Sharing'
  BY DEF Return, Sharing
<1>1. ThreadsTypeOK' /\ PlaceOK' /\ OffsetOK' /\ BusyOK' /\ LoopOK' /\ CallerOK'
  BY <1>0 DEF ThreadsTypeOK, Parts, CallStages, PlaceOK, OffsetOK, BusyOK, LoopOK, CallerOK
<1>2. \A k \in Worker, e \in Parts : HasPart(k, e)' <=> HasPart(k, e)
  BY <1>0 DEF HasPart, Pending
<1>3. JobsOK' /\ RanOK' /\ ResOK'
  BY <1>0, <1>2 DEF JobsOK, RanOK, ResOK, Parts
<1> QED BY <1>1, <1>3

(* The threads are told to end, and joined, while none has work.           *)
LEMMA ReleaseKeeps ==
  ASSUME ThreadsInv, threadingRelease \/ threadStop, NumThreads \in Nat
  PROVE  ThreadsInv'
<1> USE DEF ThreadsInv, loopVars, ranVars
<1>0. /\ UNCHANGED <<busy, waited, retval, job, request, nextOffset, res, requests, ran, anyFailed>>
      /\ callerAt \in {"idle", "release", "join"} /\ callerAt' \in {"release", "join", "released"}
      /\ ~Sharing /\ ~Sharing'
  BY DEF threadingRelease, threadStop, Sharing
<1>1. /\ threadIdx' \in 0 .. NumThreads /\ joining' \in 0 .. threadIdx'
      /\ dead' \in [Worker -> BOOLEAN] /\ loopAt' \in [Worker -> Stages]
      /\ callerAt' = "join" => threadIdx' = NumThreads
  <2>1. CASE threadingRelease
    <3>1. CASE threadIdx < NumThreads
      <4>1. /\ dead' = [dead EXCEPT ![threadIdx] = TRUE] /\ threadIdx' = threadIdx + 1 /\ joining' = joining
            /\ loopAt' = [loopAt EXCEPT ![threadIdx] = IF @ = "asleep" THEN "lock" ELSE @] /\ callerAt' = "release"
        BY <2>1, <3>1 DEF threadingRelease, Notified
      <4>2. dead' \in [Worker -> BOOLEAN] /\ loopAt' \in [Worker -> Stages]
        BY <4>1 DEF ThreadsTypeOK, Stages
      <4>3. threadIdx' \in 0 .. NumThreads /\ joining' \in 0 .. threadIdx'
        BY <3>1, <4>1 DEF ThreadsTypeOK
      <4> QED BY <4>1, <4>2, <4>3
    <3>2. CASE ~(threadIdx < NumThreads)
      BY <2>1, <3>2 DEF threadingRelease, ThreadsTypeOK
    <3> QED BY <3>1, <3>2
  <2>2. CASE threadStop
    BY <2>2 DEF threadStop, ThreadsTypeOK, PlaceOK
  <2> QED BY <2>1, <2>2
<1>2. ThreadsTypeOK' /\ PlaceOK' /\ OffsetOK' /\ BusyOK' /\ CallerOK'
  BY <1>0, <1>1 DEF ThreadsTypeOK, Parts, CallStages, PlaceOK, OffsetOK, BusyOK, CallerOK
<1>3. LoopOK'
  BY <1>0 DEF LoopOK, threadingRelease, threadStop, Notified, ThreadsTypeOK
<1>4. \A k \in Worker : ~Pending(k)'
  BY <1>0 DEF BusyOK, Pending
<1>5. \A k \in Worker : \A e : ~HasPart(k, e)'
  BY <1>4 DEF HasPart
<1>6. JobsOK' /\ RanOK' /\ ResOK'
  BY <1>0, <1>5 DEF JobsOK, RanOK, ResOK
<1> QED BY <1>2, <1>3, <1>6

THEOREM ThreadsInvariant == ThreadsAssumption => (ThreadsSpec => []ThreadsInv)
<1> SUFFICES ASSUME ThreadsAssumption PROVE ThreadsSpec => []ThreadsInv
  OBVIOUS
<1> NumThreads \in Nat
  BY DEF ThreadsAssumption
<1>1. ThreadsInit => ThreadsInv
  <2> SUFFICES ASSUME ThreadsInit PROVE ThreadsInv
    OBVIOUS
  <2>1. ThreadsTypeOK
    <3>1. request \in [sliced : BOOLEAN, size : Nat, postRun : BOOLEAN] /\ ran \in [Parts -> Nat]
      BY DEF ThreadsInit, NoRequest
    <3>2. loopAt \in [Worker -> Stages] /\ callerAt \in CallStages /\ retval \in [Worker -> Int]
      BY DEF ThreadsInit, Stages, CallStages
    <3>3. job \in [Worker -> [offset : Nat, count : Nat]]
      BY DEF ThreadsInit
    <3>4. busy \in [Worker -> BOOLEAN] /\ waited \in [Worker -> BOOLEAN] /\ dead \in [Worker -> BOOLEAN]
      BY DEF ThreadsInit
    <3>5. nextOffset \in Nat /\ threadIdx \in 0 .. NumThreads /\ joining \in 0 .. threadIdx /\ requests \in Nat
      <4>1. nextOffset = 0 /\ threadIdx = 0 /\ joining = 0 /\ requests = 0
        BY DEF ThreadsInit
      <4> QED BY <4>1
    <3>6. res \in BOOLEAN /\ anyFailed \in BOOLEAN
      BY Zenon DEF ThreadsInit
    <3> QED BY <3>1, <3>2, <3>3, <3>4, <3>5, <3>6 DEF ThreadsTypeOK
  <2>2. PlaceOK /\ BusyOK /\ LoopOK /\ CallerOK
    BY DEF ThreadsInit, PlaceOK, BusyOK, LoopOK, CallerOK, NoRequest
  <2>4. OffsetOK
    BY DEF ThreadsInit, OffsetOK, NoRequest
  <2>3. JobsOK /\ RanOK /\ ResOK
    BY DEF ThreadsInit, JobsOK, RanOK, ResOK, HasPart, Pending, Sharing
  <2> QED BY <2>1, <2>2, <2>3, <2>4 DEF ThreadsInv
<1>2. ThreadsInv /\ [ThreadsNext]_threadVars => ThreadsInv'
  <2> SUFFICES ASSUME ThreadsInv, [ThreadsNext]_threadVars PROVE ThreadsInv'
    OBVIOUS
  <2>1. ASSUME NEW i \in Worker, TestDead(i) \/ AwaitWork(i) \/ WaitEnds(i) \/ StartJob(i) PROVE ThreadsInv'
    BY <2>1, LoopKeeps
  <2>2. ASSUME NEW i \in Worker, executeThreadJob(i) PROVE ThreadsInv'
    BY <2>2, RunKeeps
  <2>3. ASSUME NEW i \in Worker, FinishJob(i) PROVE ThreadsInv'
    BY <2>3, FinishKeeps
  <2>4. ASSUME NEW r \in Request, Execute(r) PROVE ThreadsInv'
    <3>1. r \in [sliced : BOOLEAN, size : Nat, postRun : BOOLEAN]
      BY DEF ThreadsAssumption
    <3> QED BY <2>4, <3>1, ExecuteKeeps
  <2>5. CASE SubmitJob
    BY <2>5, SubmitKeeps
  <2>6. CASE RunRemainder
    BY <2>6, RemainderKeeps
  <2>7. CASE NoRemainder
    BY <2>7, NoRemainderKeeps
  <2>8. CASE threadingWaitJob
    BY <2>8, WaitKeeps
  <2>9. CASE EndRound
    BY <2>9, RoundKeeps
  <2>10. CASE PostRun
    BY <2>10, PostRunKeeps
  <2>11. CASE Return
    BY <2>11, ReturnKeeps
  <2>12. CASE threadingRelease \/ threadStop
    BY <2>12, ReleaseKeeps
  <2>13. CASE UNCHANGED threadVars
    <3>1. /\ UNCHANGED <<busy, waited, dead, retval, job, loopAt, request, nextOffset, threadIdx>>
          /\ UNCHANGED <<callerAt, joining, res, requests, ran, anyFailed>>
      BY <2>13 DEF threadVars
    <3>2. ThreadsTypeOK' /\ PlaceOK' /\ OffsetOK' /\ BusyOK' /\ LoopOK' /\ CallerOK'
      BY <3>1 DEF ThreadsInv, ThreadsTypeOK, Parts, PlaceOK, OffsetOK, perSliceCount, BusyOK, LoopOK, CallerOK, Sharing
    <3>3. \A k \in Worker : (Unheard(k)' <=> Unheard(k)) /\ \A e \in Parts : (HasPart(k, e)' <=> HasPart(k, e))
      BY <3>1 DEF HasPart, Pending, Unheard
    <3>4. JobsOK' /\ RanOK' /\ ResOK'
      BY <3>1, <3>3 DEF ThreadsInv, JobsOK, RanOK, ResOK, Parts, Sharing
    <3> QED BY <3>2, <3>4 DEF ThreadsInv
  <2> QED BY <2>1, <2>2, <2>3, <2>4, <2>5, <2>6, <2>7, <2>8, <2>9, <2>10, <2>11, <2>12, <2>13 DEF ThreadsNext
<1> QED BY <1>1, <1>2, PTL DEF ThreadsSpec

(* Whatever the number of threads, the jobs and how the steps of threads    *)
(* and user interleave: a call runs each job or part of its range once and *)
(* says whether one failed, no thread works on when it is over, and nobody *)
(* sleeps whom nobody will wake.                                           *)
THEOREM JobsAlwaysAccounted == ThreadsAssumption => (ThreadsSpec => []JobsAccounted)
<1>1. ThreadsInv => JobsAccounted
  <2> SUFFICES ASSUME ThreadsInv PROVE JobsAccounted
    OBVIOUS
  <2>1. EachRanOnce
    BY DEF ThreadsInv, EachRanOnce, RanOK, ResOK, ThreadsTypeOK
  <2>2. NoneRunsLate
    BY DEF ThreadsInv, NoneRunsLate, BusyOK, LoopOK, Sharing
  <2>3. SleepersAreTold
    BY DEF ThreadsInv, SleepersAreTold, LoopOK, CallerOK
  <2> QED BY <2>1, <2>2, <2>3 DEF JobsAccounted
<1> QED BY <1>1, ThreadsInvariant, PTL

-----------------------------------------------------------------------------
(* The rolling arena. *)

SlotRec == [beginOffset : Nat, endOffset : Nat, bufferIndex : Nat]
BufferRec == [size : {n \in Nat : n >= InitialSize}, allocationCount : Int, released : BOOLEAN]
BlockRec == [index : Nat, buffer : Nat, offset : Int, size : Nat]

Wrap(x, n) == IF x < n THEN x ELSE x - n

LEMMA WrapIs ==
    ASSUME NEW n \in Nat, n > 0, NEW x \in Nat, x < 2 * n
    PROVE  x % n = Wrap(x, n)
<1>1. CASE x < n
  BY <1>1 DEF Wrap
<1>2. CASE x >= n
  BY <1>2 DEF Wrap
<1> QED BY <1>1, <1>2

LEMMA WrapApart ==
    ASSUME NEW n \in Nat, n > 0, NEW base \in 0 .. n - 1, NEW i \in 0 .. n - 1
    PROVE  /\ (i + base) % n = Wrap(i + base, n) /\ (base + i) % n = Wrap(i + base, n)
           /\ Wrap(i + base, n) \in 0 .. n - 1
           /\ \A j \in 0 .. n - 1 : i # j => Wrap(i + base, n) # Wrap(j + base, n)
<1>1. i + base \in Nat /\ i + base < 2 * n /\ base + i = i + base
  OBVIOUS
<1>2. (i + base) % n = Wrap(i + base, n)
  BY <1>1, WrapIs
<1> QED BY <1>1, <1>2 DEF Wrap

LEMMA WrapMoves ==
    ASSUME NEW n \in Nat, n > 0, NEW base \in 0 .. n - 1, NEW held \in 0 .. n - 1, NEW popped \in 0 .. held
    PROVE  /\ Wrap(popped + base, n) \in 0 .. n - 1
           /\ Wrap(Wrap(popped + base, n) + (held - popped), n) = Wrap(base + held, n)
           /\ \A j \in popped .. n - 1 : Wrap((j - popped) + Wrap(popped + base, n), n) = Wrap(j + base, n)
BY DEF Wrap

LEMMA SmallestIs ==
    ASSUME NEW T, T \subseteq Nat, T # {}
    PROVE  \E k \in T : \A j \in T : ~(j < k)
<1>1. \E k \in T : \A j \in T : <<j, k>> \notin OpToRel(<, Nat)
  BY NatLessThanWellFounded, WFMin, Zenon
<1>2. PICK k \in T : \A j \in T : <<j, k>> \notin OpToRel(<, Nat)
  BY <1>1
<1>3. \A j \in T : ~(j < k)
  BY <1>2, Zenon DEF OpToRel
<1> QED BY <1>3

\* A ring of n slots that holds the blocks from the oldest to the next.
RingOK(a, next, n) ==
    /\ n \in Nat /\ n > 0 /\ a.slots \in [0 .. n - 1 -> SlotRec]
    /\ a.front \in 0 .. n - 1 /\ a.back \in 0 .. n - 1
    /\ a.oldest \in Nat /\ next \in Nat /\ a.oldest <= next /\ next - a.oldest < n
    /\ a.front = Wrap(a.back + (next - a.oldest), n)

Noted(a, index, n) == a.slots[Wrap(index - a.oldest + a.back, n)]

\* What was noted of a block is there until it is passed over, and one whose
\* slot did not begin where it ended, which is not in h, is not passed over.
BlockOK(a, next, n, b, h) ==
    /\ b \in BlockRec /\ b.index < next /\ b.buffer \in 1 .. Len(a.buffers)
    /\ b.index >= a.oldest => /\ Noted(a, b.index, n).bufferIndex = b.buffer
                              /\ b.offset \in {0, AlignedUp(Noted(a, b.index, n).beginOffset)}
    /\ b.index \notin h => b.index >= a.oldest /\ ~EmptySlot(Noted(a, b.index, n))

MemoryOK(a) ==
    /\ a.buffers \in Seq(BufferRec) /\ a.buffers # <<>>
    /\ a.bufferFront \in Nat /\ a.bufferBack \in Nat

Fields == {"slots", "front", "back", "oldest", "buffers", "bufferFront", "bufferBack"}

ArenaOK(a, next, held, h) ==
    /\ Fields \subseteq DOMAIN a
    /\ MemoryOK(a)
    /\ \E n : RingOK(a, next, n) /\ \A b \in held : BlockOK(a, next, n, b, h)
    /\ \A b, c \in held : b.index = c.index => b = c

ArenaInv == ArenaOK(Now, allocationIndexNext, blocks, hidden)

-----------------------------------------------------------------------------
LEMMA SlotsAre ==
    ASSUME NEW n \in Nat, NEW f, DOMAIN f = 0 .. n - 1
    PROVE  Cardinality(DOMAIN f) = n
BY FS_Interval

LEMMA NowIs ==
    /\ Now.slots = slots /\ Now.front = slotFront /\ Now.back = slotBack
    /\ Now.oldest = allocationIndexOldest /\ Now.buffers = buffers
    /\ Now.bufferFront = bufferFront /\ Now.bufferBack = bufferBack
    /\ Fields \subseteq DOMAIN Now
    /\ State.slots = slots /\ State.front = slotFront /\ State.back = slotBack
BY DEF Now, State, Fields

LEMMA PlacementIs ==
    ASSUME ArenaAssumption, NEW size \in Sizes, MemoryOK(Now), RoomFor(size + Align - 1)
    PROVE  LET place == Placement(size + Align - 1) IN
           /\ place.buffers \in Seq(BufferRec) /\ place.buffers # <<>>
           /\ Len(place.buffers) >= Len(buffers)
           /\ place.begin \in Nat /\ place.offset \in Nat /\ place.end \in Nat
           /\ place.offset \in {0, place.begin}
<1> DEFINE asked == size + Align - 1
           free == bufferSize - ((bufferFront + bufferSize - bufferBack) % bufferSize) - 1
           Placed(all, begin, offset, end) == [buffers |-> all, begin |-> begin, offset |-> offset, end |-> end]
<1>1. /\ asked \in Nat /\ asked > 0 /\ asked <= 255 * bufferSize
      /\ buffers \in Seq(BufferRec) /\ buffers # <<>> /\ bufferFront \in Nat /\ bufferBack \in Nat
  BY NowIs DEF ArenaAssumption, MemoryOK, RoomFor, Growth
<1>2. bufferSize \in Nat /\ bufferSize >= InitialSize /\ InitialSize \in Nat \ {0}
  <2>1. Len(buffers) \in 1 .. Len(buffers) /\ buffers[Len(buffers)] \in BufferRec
    BY <1>1
  <2> QED BY <2>1 DEF bufferSize, BufferRec, ArenaAssumption
<1> DEFINE apart == (bufferFront + bufferSize - bufferBack) % bufferSize
<1>3. apart \in 0 .. bufferSize - 1
  <2>1. bufferFront + bufferSize - bufferBack \in Int /\ bufferSize \in Nat /\ bufferSize > 0
    BY <1>1, <1>2
  <2> QED BY <2>1
<1>4. free \in Int /\ free >= 0 /\ free < bufferSize
  BY <1>2, <1>3
<1> HIDE DEF apart, free
<1>5. CASE free >= asked /\ bufferSize - bufferFront >= asked
  <2>1. Placement(asked) = Placed(buffers, bufferFront, bufferFront, (bufferFront + asked) % bufferSize)
    BY <1>5 DEF Placement, free, apart
  <2>2. (bufferFront + asked) % bufferSize = Wrap(bufferFront + asked, bufferSize)
    BY <1>1, <1>2, <1>4, <1>5, WrapIs, SMTT(30)
  <2>3. Wrap(bufferFront + asked, bufferSize) \in Nat
    BY <1>1, <1>2, <1>4, <1>5 DEF Wrap
  <2> QED BY <1>1, <2>1, <2>2, <2>3
<1>6. CASE ~(free >= asked /\ bufferSize - bufferFront >= asked) /\ free >= asked /\ bufferBack >= asked
  <2>1. Placement(asked) = Placed(buffers, bufferFront, 0, asked)
    BY <1>6 DEF Placement, free, apart
  <2> QED BY <1>1, <2>1
<1>7. CASE ~(free >= asked /\ bufferSize - bufferFront >= asked) /\ ~(free >= asked /\ bufferBack >= asked)
  <2> DEFINE next == NextSize(free + asked)
             tried == {n \in {bufferSize * m : m \in {2, 4, 8, 16, 32, 64, 128, 256}} : n >= free + asked}
             larger == Append(buffers, NewBuffer(next))
             all == IF next > asked THEN larger ELSE Append(larger, NewBuffer(2 * next))
  <2>1. Placement(asked) = Placed(all, 0, 0, asked)
    BY <1>7 DEF Placement, free, apart
  <2>2. next \in Nat /\ next >= InitialSize
    <3>1. bufferSize * 256 \in tried
      BY <1>1, <1>2, <1>4
    <3>2. \A m \in tried : m \in Nat /\ m >= bufferSize * 2
      BY <1>2
    <3>3. next = CHOOSE m \in tried : \A k \in tried : m <= k
      BY DEF NextSize, Min
    <3> HIDE DEF tried, next
    <3>4. PICK m \in tried : \A k \in tried : ~(k < m)
      <4>1. tried \subseteq Nat /\ tried # {}
        BY <3>1, <3>2
      <4> QED BY <4>1, SmallestIs
    <3>5. \A k \in tried : m <= k
      BY <3>2, <3>4
    <3>6. next \in tried
      BY <3>3, <3>5
    <3> QED BY <1>2, <3>2, <3>6
  <2> HIDE DEF next
  <2>3. NewBuffer(next) \in BufferRec /\ NewBuffer(2 * next) \in BufferRec
    BY <1>2, <2>2 DEF NewBuffer, BufferRec
  <2>4. larger \in Seq(BufferRec) /\ Len(larger) = Len(buffers) + 1
    BY <1>1, <2>3
  <2>5. Len(buffers) \in Nat
    BY <1>1
  <2> HIDE DEF larger
  <2>6. all \in Seq(BufferRec) /\ Len(all) >= Len(buffers) /\ all # <<>>
    <3>1. /\ Append(larger, NewBuffer(2 * next)) \in Seq(BufferRec)
          /\ Len(Append(larger, NewBuffer(2 * next))) = Len(buffers) + 2
      BY <2>3, <2>4, <2>5
    <3>2. all = larger \/ all = Append(larger, NewBuffer(2 * next))
      OBVIOUS
    <3> HIDE DEF all
    <3>3. all \in Seq(BufferRec) /\ Len(all) >= Len(buffers) + 1
      BY <2>4, <2>5, <3>1, <3>2
    <3>4. all # <<>>
      BY <2>5, <3>3
    <3> QED BY <2>5, <3>3, <3>4
  <2> HIDE DEF all
  <2> QED BY <1>1, <2>1, <2>6
<1> QED BY <1>5, <1>6, <1>7

RingFull == (slotFront + 1) % slotsCount = slotBack
BlocksHeld == allocationIndexNext - allocationIndexOldest

\* A ring of m slots with room for one more, in which blocks are found as in slots, of n.
RoomyAs(ring, m, n) ==
    /\ m \in Nat /\ n <= m /\ ring.slots \in [0 .. m - 1 -> SlotRec] /\ Cardinality(DOMAIN ring.slots) = m
    /\ BlocksHeld \in Nat /\ BlocksHeld + 1 < m
    /\ ring.front \in 0 .. m - 1 /\ ring.back = slotBack /\ ring.front = Wrap(slotBack + BlocksHeld, m)
    /\ \A j \in 0 .. BlocksHeld - 1 : ring.slots[Wrap(j + slotBack, m)] = slots[Wrap(j + slotBack, n)]

LEMMA RingNow ==
    ASSUME NEW n, RingOK(Now, allocationIndexNext, n)
    PROVE  /\ n \in Nat /\ n > 0 /\ slots \in [0 .. n - 1 -> SlotRec]
           /\ slotFront \in 0 .. n - 1 /\ slotBack \in 0 .. n - 1
           /\ BlocksHeld \in Nat /\ BlocksHeld < n /\ slotFront = Wrap(slotBack + BlocksHeld, n)
           /\ slotsCount = n
           /\ RingFull <=> BlocksHeld = n - 1
           /\ slotFront = IF slotBack + BlocksHeld < n THEN slotBack + BlocksHeld ELSE slotBack + BlocksHeld - n
<1>1. /\ n \in Nat /\ n > 0 /\ slots \in [0 .. n - 1 -> SlotRec] /\ slotFront \in 0 .. n - 1 /\ slotBack \in 0 .. n - 1
      /\ BlocksHeld \in Nat /\ BlocksHeld < n /\ slotFront = Wrap(slotBack + BlocksHeld, n)
  BY NowIs DEF RingOK, BlocksHeld
<1>2. slotsCount = n
  BY <1>1, SlotsAre DEF slotsCount
<1>3. (slotFront + 1) % n = Wrap(slotFront + 1, n)
  BY <1>1, WrapIs
<1> QED BY <1>1, <1>2, <1>3 DEF RingFull, Wrap

LEMMA DoubledIs ==
    ASSUME NEW n, RingOK(Now, allocationIndexNext, n), RingFull
    PROVE  RoomyAs(rollingArenaDoubleSlots(State), 2 * n, n)
<1> DEFINE ring == rollingArenaDoubleSlots(State)
<1>1. /\ n \in Nat /\ n > 0 /\ slots \in [0 .. n - 1 -> SlotRec]
      /\ slotFront \in 0 .. n - 1 /\ slotBack \in 0 .. n - 1
      /\ BlocksHeld = n - 1 /\ slotsCount = n
      /\ slotFront = (IF slotBack = 0 THEN n - 1 ELSE slotBack - 1)
  BY RingNow
<1>2. /\ ring.slots = [s \in 0 .. 2 * n - 1 |->
            IF s < n THEN slots[s]
            ELSE IF s - n < slotFront /\ slotFront < slotBack THEN slots[s - n] ELSE NewSlot]
      /\ ring.front = (IF slotFront < slotBack THEN slotFront + n ELSE slotFront)
      /\ ring.back = slotBack
  BY <1>1, NowIs DEF rollingArenaDoubleSlots, slotsCount
<1> HIDE DEF ring
<1>3. ASSUME NEW s \in 0 .. 2 * n - 1
      PROVE  /\ s < n => ring.slots[s] = slots[s]
             /\ s >= n /\ s - n < slotFront /\ slotFront < slotBack => ring.slots[s] = slots[s - n]
             /\ ring.slots[s] \in SlotRec
  <2>1. ring.slots[s] = IF s < n THEN slots[s]
                        ELSE IF s - n < slotFront /\ slotFront < slotBack THEN slots[s - n] ELSE NewSlot
    BY <1>2
  <2>2. CASE s < n
    BY <1>1, <2>1, <2>2
  <2>3. CASE s >= n /\ s - n < slotFront /\ slotFront < slotBack
    BY <1>1, <2>1, <2>3
  <2>4. CASE s >= n /\ ~(s - n < slotFront /\ slotFront < slotBack)
    <3>1. ring.slots[s] = NewSlot
      BY <1>1, <2>1, <2>4
    <3> QED BY <1>1, <2>4, <3>1 DEF NewSlot, SlotRec
  <2> QED BY <1>1, <2>2, <2>3, <2>4
<1>4. DOMAIN ring.slots = 0 .. 2 * n - 1 /\ ring.slots \in [0 .. 2 * n - 1 -> SlotRec]
  BY <1>2, <1>3
<1>5. 2 * n \in Nat /\ Cardinality(DOMAIN ring.slots) = 2 * n
  <2>1. 2 * n \in Nat
    BY <1>1
  <2> QED BY <2>1, <1>4, SlotsAre
<1>6. BlocksHeld + 1 < 2 * n /\ ring.front \in 0 .. 2 * n - 1 /\ ring.front = Wrap(slotBack + BlocksHeld, 2 * n)
  BY <1>1, <1>2 DEF Wrap
<1>7. ASSUME NEW j \in 0 .. BlocksHeld - 1
      PROVE  ring.slots[Wrap(j + slotBack, 2 * n)] = slots[Wrap(j + slotBack, n)]
  <2>1. Wrap(j + slotBack, 2 * n) = j + slotBack /\ j + slotBack \in 0 .. 2 * n - 1
    BY <1>1 DEF Wrap
  <2>2. CASE j + slotBack < n
    BY <1>1, <1>3, <2>1, <2>2 DEF Wrap
  <2>3. CASE j + slotBack >= n
    <3>1. j + slotBack - n < slotFront /\ slotFront < slotBack
      BY <1>1, <2>3
    <3>2. ring.slots[j + slotBack] = slots[j + slotBack - n]
      BY <1>1, <1>3, <2>1, <2>3, <3>1
    <3> QED BY <1>1, <2>1, <2>3, <3>2 DEF Wrap
  <2> QED BY <1>1, <2>2, <2>3
<1>8. BlocksHeld \in Nat /\ n <= 2 * n
  BY <1>1
<1>9. RoomyAs(ring, 2 * n, n)
  BY <1>2, <1>4, <1>5, <1>6, <1>7, <1>8 DEF RoomyAs
<1> QED BY <1>9 DEF ring

LEMMA GrownIs ==
    ASSUME NEW n, RingOK(Now, allocationIndexNext, n)
    PROVE  \E m : RoomyAs(IF RingFull THEN rollingArenaDoubleSlots(State) ELSE State, m, n)
<1>1. CASE RingFull
  BY <1>1, DoubledIs
<1>2. CASE ~RingFull
  <2>1. BlocksHeld + 1 < n /\ Cardinality(DOMAIN slots) = n
    BY <1>2, RingNow DEF slotsCount
  <2>2. RoomyAs(State, n, n)
    BY <2>1, RingNow, NowIs DEF RoomyAs
  <2> QED BY <1>2, <2>2
<1> QED BY <1>1, <1>2

\* The state after an allocation, and the block it gives.
LEMMA AllocateKeeps ==
    ASSUME ArenaAssumption, NEW size \in Sizes, ArenaInv, MayAllocate(size), Numbered(size)
    PROVE  LET a == internalAllocate(size) IN
           /\ ArenaOK(a, allocationIndexNext', blocks \cup {a.block}, hidden')
           /\ a.block.index = allocationIndexNext /\ a.oldest = allocationIndexOldest
<1> DEFINE a == internalAllocate(size)
           place == Placement(size + Align - 1)
           ring == IF RingFull THEN rollingArenaDoubleSlots(State) ELSE State
           last == Len(place.buffers)
           noted == [beginOffset |-> place.begin, endOffset |-> place.end, bufferIndex |-> last]
           block == [index |-> allocationIndexNext, buffer |-> last,
                     offset |-> AlignedUp(place.offset), size |-> size]
<1>1. MemoryOK(Now) /\ \A b, c \in blocks : b.index = c.index => b = c
  BY DEF ArenaInv, ArenaOK
<1>2. PICK n : RingOK(Now, allocationIndexNext, n) /\ \A b \in blocks : BlockOK(Now, allocationIndexNext, n, b, hidden)
  BY DEF ArenaInv, ArenaOK
<1>3. PICK m : RoomyAs(ring, m, n)
  BY <1>2, GrownIs
<1>4. /\ a.slots = [ring.slots EXCEPT ![ring.front] = noted]
      /\ a.front = (ring.front + 1) % Cardinality(DOMAIN ring.slots) /\ a.back = ring.back
      /\ a.oldest = allocationIndexOldest
      /\ a.buffers = [place.buffers EXCEPT ![last].allocationCount = @ + 1]
      /\ a.bufferFront = place.end
      /\ a.bufferBack = (IF last > Len(buffers) THEN 0 ELSE bufferBack)
      /\ a.block = block
      /\ Fields \subseteq DOMAIN a
  BY DEF internalAllocate, RingFull, Fields
<1>5. /\ place.buffers \in Seq(BufferRec) /\ place.buffers # <<>> /\ last >= Len(buffers)
      /\ place.begin \in Nat /\ place.offset \in Nat /\ place.end \in Nat
      /\ place.offset \in {0, place.begin}
      /\ allocationIndexNext' = allocationIndexNext + 1
      /\ hidden' = hidden \cup (IF place.begin = place.end THEN {allocationIndexNext} ELSE {})
  BY <1>1, PlacementIs DEF MayAllocate, Numbered
<1> HIDE DEF a, ring, place
<1>6. last \in Nat /\ last \in 1 .. last /\ Len(buffers) \in Nat
  BY <1>1, <1>5, NowIs DEF MemoryOK
<1>7. a.buffers \in Seq(BufferRec) /\ Len(a.buffers) = last /\ a.buffers # <<>>
  <2>1. place.buffers[last] \in BufferRec
    BY <1>5, <1>6
  <2>2. [place.buffers[last] EXCEPT !.allocationCount = @ + 1] \in BufferRec
    BY <2>1 DEF BufferRec
  <2>3. a.buffers = [place.buffers EXCEPT ![last] = [place.buffers[last] EXCEPT !.allocationCount = @ + 1]]
    BY <1>4
  <2> HIDE DEF last
  <2>4. place.buffers \in [1 .. last -> BufferRec]
    BY <1>5 DEF last
  <2>5. a.buffers \in [1 .. last -> BufferRec]
    BY <2>2, <2>3, <2>4
  <2>6. a.buffers \in Seq(BufferRec) /\ Len(a.buffers) = last
    BY <1>6, <2>5
  <2> QED BY <1>6, <2>6 DEF last
<1>8. MemoryOK(a)
  BY <1>1, <1>4, <1>5, <1>7, NowIs DEF MemoryOK
<1> HIDE DEF last
<1>9. noted \in SlotRec /\ block.index = allocationIndexNext /\ block.buffer = last /\ block.offset = AlignedUp(place.offset)
  BY <1>5, <1>6 DEF SlotRec
<1>10. /\ allocationIndexNext \in Nat /\ allocationIndexOldest \in Nat /\ allocationIndexOldest <= allocationIndexNext
       /\ BlocksHeld = allocationIndexNext - allocationIndexOldest
  BY <1>2, NowIs DEF RingOK, BlocksHeld
<1>11. slotBack \in 0 .. n - 1 /\ n \in Nat /\ BlocksHeld < n /\ BlocksHeld \in Nat
  BY <1>2, RingNow
<1>12. /\ m \in Nat /\ BlocksHeld + 1 < m /\ ring.front \in 0 .. m - 1 /\ ring.front = Wrap(slotBack + BlocksHeld, m)
       /\ ring.slots \in [0 .. m - 1 -> SlotRec] /\ Cardinality(DOMAIN ring.slots) = m /\ ring.back = slotBack
       /\ \A j \in 0 .. BlocksHeld - 1 : ring.slots[Wrap(j + slotBack, m)] = slots[Wrap(j + slotBack, n)]
  BY <1>3 DEF RoomyAs
<1>13. slotBack \in 0 .. m - 1 /\ ring.front \in 0 .. m - 1
  <2>1. n <= m
    BY <1>3 DEF RoomyAs
  <2> QED BY <1>11, <1>12, <2>1
<1>14. a.front = Wrap(slotBack + BlocksHeld + 1, m) /\ a.front \in 0 .. m - 1 /\ m > 0
  <2>1. (ring.front + 1) % m = Wrap(ring.front + 1, m)
    BY <1>12, <1>13, WrapIs
  <2>2. a.front = Wrap(ring.front + 1, m)
    BY <1>4, <1>12, <2>1
  <2> QED BY <1>11, <1>12, <1>13, <2>2 DEF Wrap
<1>15. a.slots \in [0 .. m - 1 -> SlotRec] /\ a.slots[ring.front] = noted
       /\ \A s \in 0 .. m - 1 : s # ring.front => a.slots[s] = ring.slots[s]
  <2> HIDE DEF noted
  <2> QED BY <1>4, <1>9, <1>12
<1>16. RingOK(a, allocationIndexNext + 1, m)
  <2>1. /\ allocationIndexNext + 1 - allocationIndexOldest = BlocksHeld + 1
        /\ slotBack + (BlocksHeld + 1) = slotBack + BlocksHeld + 1
        /\ allocationIndexNext + 1 \in Nat /\ allocationIndexOldest <= allocationIndexNext + 1
    BY <1>10, <1>11, <1>13
  <2>2. a.back \in 0 .. m - 1 /\ a.oldest = allocationIndexOldest /\ a.back = slotBack
    BY <1>4, <1>12, <1>13
  <2> QED BY <1>10, <1>12, <1>14, <1>15, <2>1, <2>2 DEF RingOK
<1>17. ASSUME NEW b \in blocks
       PROVE  BlockOK(a, allocationIndexNext + 1, m, b, hidden') /\ b.index \in Nat /\ b.index < allocationIndexNext
  <2>1. /\ b \in BlockRec /\ b.index \in Nat /\ b.index < allocationIndexNext /\ b.buffer \in 1 .. Len(buffers)
        /\ b.index >= allocationIndexOldest =>
              /\ Noted(Now, b.index, n).bufferIndex = b.buffer
              /\ b.offset \in {0, AlignedUp(Noted(Now, b.index, n).beginOffset)}
        /\ b.index \notin hidden => b.index >= allocationIndexOldest /\ ~EmptySlot(Noted(Now, b.index, n))
    BY <1>2, NowIs DEF BlockOK, BlockRec
  <2>2. b.index >= allocationIndexOldest => Noted(a, b.index, m) = Noted(Now, b.index, n)
    <3> SUFFICES ASSUME b.index >= allocationIndexOldest PROVE Noted(a, b.index, m) = Noted(Now, b.index, n)
      OBVIOUS
    <3> DEFINE j == b.index - allocationIndexOldest
    <3>1. j \in 0 .. BlocksHeld - 1
      BY <1>10, <2>1
    <3>2. Noted(Now, b.index, n) = slots[Wrap(j + slotBack, n)] /\ Noted(a, b.index, m) = a.slots[Wrap(j + slotBack, m)]
      BY <1>4, <1>12, NowIs DEF Noted
    <3> HIDE DEF j
    <3>3. Wrap(j + slotBack, m) \in 0 .. m - 1 /\ Wrap(j + slotBack, m) # ring.front
      BY <1>11, <1>12, <1>13, <3>1 DEF Wrap
    <3> QED BY <1>12, <1>15, <3>1, <3>2, <3>3
  <2>3. b.buffer \in 1 .. Len(a.buffers) /\ b.index < allocationIndexNext + 1
    <3>1. last \in Nat /\ Len(buffers) \in Nat /\ last >= Len(buffers) /\ Len(a.buffers) = last
      BY <1>5, <1>6, <1>7
    <3>2. PICK i, x : i = b.index /\ x = b.buffer
      OBVIOUS
    <3>3. i \in Nat /\ i < allocationIndexNext /\ x \in 1 .. Len(buffers)
      BY ONLY <2>1, <3>2
    <3>4. x \in 1 .. Len(a.buffers) /\ i < allocationIndexNext + 1
      BY ONLY <3>1, <3>3, <1>10
    <3> QED BY <3>2, <3>4
  <2>4. b.index \notin hidden' => b.index \notin hidden
    BY <1>5
  <2>5. a.oldest = allocationIndexOldest
    BY <1>4
  <2> QED BY ONLY <2>1, <2>2, <2>3, <2>4, <2>5 DEF BlockOK
<1>18. BlockOK(a, allocationIndexNext + 1, m, block, hidden')
  <2>1. Noted(a, block.index, m) = noted
    <3>1. Noted(a, block.index, m) = a.slots[Wrap(BlocksHeld + slotBack, m)]
      BY <1>4, <1>9, <1>10, <1>12 DEF Noted
    <3>2. Wrap(BlocksHeld + slotBack, m) = ring.front
      BY <1>11, <1>12
    <3> QED BY <1>15, <3>1, <3>2
  <2>2. AlignedUp(place.offset) \in Int
    <3>1. Align \in Nat /\ Align > 0 /\ place.offset \in Nat
      BY <1>5 DEF ArenaAssumption
    <3>2. (place.offset + Align - 1) \div Align \in Int
      BY <3>1
    <3> QED BY <3>1, <3>2 DEF AlignedUp
  <2>3. AlignedUp(0) = 0
    <3>1. Align \in Nat /\ Align > 0 /\ (Align - 1) \div Align = 0
      BY DEF ArenaAssumption
    <3> QED BY <3>1 DEF AlignedUp
  <2>4. block \in BlockRec
    BY <1>6, <1>10, <2>2 DEF BlockRec, ArenaAssumption
  <2>5. /\ block.index \notin hidden' => ~EmptySlot(noted)
        /\ noted.bufferIndex = last /\ noted.beginOffset = place.begin
    BY <1>5 DEF EmptySlot
  <2>6. block.offset \in {0, AlignedUp(place.begin)}
    BY <1>5, <1>9, <2>3
  <2>7. /\ block.index >= a.oldest /\ block.index < allocationIndexNext + 1
        /\ block.buffer \in 1 .. Len(a.buffers)
    BY <1>4, <1>6, <1>7, <1>9, <1>10
  <2> HIDE DEF block, noted
  <2> QED BY <1>9, <2>1, <2>4, <2>5, <2>6, <2>7 DEF BlockOK
<1>19. \A b, c \in blocks \cup {block} : b.index = c.index => b = c
  BY <1>1, <1>9, <1>10, <1>17
<1>20. \A b \in blocks \cup {block} : BlockOK(a, allocationIndexNext + 1, m, b, hidden')
  BY <1>17, <1>18
<1>21. ArenaOK(a, allocationIndexNext + 1, blocks \cup {block}, hidden')
  BY <1>4, <1>8, <1>16, <1>19, <1>20 DEF ArenaOK
<1> QED BY <1>4, <1>5, <1>9, <1>21 DEF a

\* The slots that are passed over are empty.
LEMMA EmptyFromIs ==
    ASSUME NEW n \in Nat, n > 0, NEW ring, DOMAIN ring = 0 .. n - 1,
           NEW from \in 0 .. n - 1, NEW ahead \in 0 .. n - 1
    PROVE  /\ EmptyFrom(ring, from, ahead) \in 0 .. Wrap(ahead + n - from, n)
           /\ \A j \in 0 .. EmptyFrom(ring, from, ahead) - 1 : EmptySlot(ring[Wrap(from + j, n)])
<1> DEFINE held == (ahead + n - from) % n
           Ends(k) == k = held \/ ~EmptySlot(ring[(from + k) % n])
           T == {k \in 0 .. held : Ends(k)}
           Chosen(k) == (\A j \in 0 .. k - 1 : EmptySlot(ring[(from + j) % n])) /\ Ends(k)
<1>1. Cardinality(DOMAIN ring) = n
  BY SlotsAre
<1>2. held = Wrap(ahead + n - from, n) /\ held \in 0 .. n - 1
  <2>1. ahead + n - from \in Nat /\ ahead + n - from < 2 * n
    OBVIOUS
  <2> QED BY <2>1, WrapIs DEF Wrap
<1> HIDE DEF held
<1>3. \A j \in 0 .. held : (from + j) % n = Wrap(from + j, n)
  <2> TAKE j \in 0 .. held
  <2>1. from + j \in Nat /\ from + j < 2 * n
    BY <1>2
  <2> QED BY <2>1, WrapIs
<1>4. \E k \in 0 .. held : Chosen(k)
  <2>1. T \subseteq Nat /\ T # {}
    <3>1. held \in T
      BY <1>2
    <3> QED BY <1>2, <3>1
  <2> HIDE DEF T
  <2>2. PICK k \in T : \A j \in T : ~(j < k)
    BY <2>1, SmallestIs
  <2> USE DEF T
  <2>5. ASSUME NEW j \in 0 .. k - 1 PROVE EmptySlot(ring[(from + j) % n])
    <3>1. k \in 0 .. held /\ j \in 0 .. held /\ j < k /\ j # held
      BY <1>2
    <3>2. j \notin T
      BY <2>2, <3>1
    <3> QED BY <3>1, <3>2
  <2> QED BY <1>2, <2>5
<1>5. EmptyFrom(ring, from, ahead) = CHOOSE k \in 0 .. held : Chosen(k)
  BY <1>1 DEF EmptyFrom, held
<1>6. EmptyFrom(ring, from, ahead) \in 0 .. held /\ Chosen(EmptyFrom(ring, from, ahead))
  <2> HIDE DEF Chosen
  <2> QED BY <1>4, <1>5
<1>7. \A j \in 0 .. EmptyFrom(ring, from, ahead) - 1 : EmptySlot(ring[Wrap(from + j, n)])
  <2> TAKE j \in 0 .. EmptyFrom(ring, from, ahead) - 1
  <2>1. j \in 0 .. held
    BY <1>2, <1>6
  <2> QED BY <1>3, <1>6, <2>1
<1> QED BY <1>2, <1>6, <1>7

LEMMA FreeKeeps ==
    ASSUME NEW a, NEW next, NEW held, NEW h, ArenaOK(a, next, held, h), NEW block \in held,
           block.index >= a.oldest
    PROVE  ArenaOK(internalFree(a, block), next, held \ {block}, h)
<1>1. Fields \subseteq DOMAIN a /\ MemoryOK(a) /\ \A b, c \in held : b.index = c.index => b = c
  BY DEF ArenaOK
<1>2. PICK n : RingOK(a, next, n) /\ \A b \in held : BlockOK(a, next, n, b, h)
  BY DEF ArenaOK
<1>3. /\ n \in Nat /\ n > 0 /\ a.slots \in [0 .. n - 1 -> SlotRec] /\ DOMAIN a.slots = 0 .. n - 1
      /\ a.front \in 0 .. n - 1 /\ a.back \in 0 .. n - 1
      /\ a.oldest \in Nat /\ next \in Nat /\ a.oldest <= next /\ next - a.oldest < n
      /\ a.front = Wrap(a.back + (next - a.oldest), n)
  BY <1>2 DEF RingOK
<1>4. /\ block.index \in a.oldest .. next - 1 /\ block.buffer \in 1 .. Len(a.buffers)
      /\ Noted(a, block.index, n).bufferIndex = block.buffer
  BY <1>2, <1>3 DEF BlockOK, BlockRec
<1> DEFINE slot == SlotOf(a, a.oldest, block.index)
<1>5. slot = Wrap(block.index - a.oldest + a.back, n) /\ slot \in 0 .. n - 1
  <2>1. Cardinality(DOMAIN a.slots) = n
    BY <1>3, SlotsAre
  <2>2. block.index - a.oldest \in 0 .. n - 1
    BY <1>3, <1>4
  <2> QED BY <1>3, <2>1, <2>2, WrapApart DEF SlotOf
<1> HIDE DEF slot
<1> DEFINE begin == a.slots[slot].beginOffset
           buffer == a.slots[slot].bufferIndex
           active == buffer = Len(a.buffers)
           cleared == [a.slots EXCEPT ![slot].beginOffset = a.slots[slot].endOffset]
           passed == EmptyFrom(cleared, slot, a.front)
           popped == IF slot = a.back THEN passed ELSE 0
           left == a.buffers[buffer].allocationCount - 1
           free == internalFree(a, block)
<1>6. /\ free.slots = cleared /\ free.front = a.front /\ free.back = (a.back + popped) % n
      /\ free.oldest = a.oldest + popped
      /\ free.buffers = [a.buffers EXCEPT ![buffer] =
                            [@ EXCEPT !.allocationCount = left, !.released = (left = 0 /\ ~active)]]
      /\ free.bufferFront = a.bufferFront
      /\ free.bufferBack = (IF active /\ begin = a.bufferBack
                            THEN cleared[(slot + passed - 1) % n].endOffset ELSE a.bufferBack)
      /\ Fields \subseteq DOMAIN free
  <2>1. Cardinality(DOMAIN a.slots) = n
    BY <1>3, SlotsAre
  <2> QED BY <2>1, SMTT(30) DEF internalFree, slot, Fields
<1> HIDE DEF free
<1>7. cleared \in [0 .. n - 1 -> SlotRec] /\ DOMAIN cleared = 0 .. n - 1 /\ EmptySlot(cleared[slot])
      /\ \A s \in 0 .. n - 1 : s # slot => cleared[s] = a.slots[s]
  BY <1>3, <1>5 DEF SlotRec, EmptySlot
<1> HIDE DEF cleared
<1>8. /\ passed \in 0 .. Wrap(a.front + n - slot, n)
      /\ \A j \in 0 .. passed - 1 : EmptySlot(cleared[Wrap(slot + j, n)])
  BY <1>3, <1>5, <1>7, EmptyFromIs
<1>9. passed \in Int
  BY <1>3, <1>5, <1>8 DEF Wrap
<1> HIDE DEF passed
<1>10. MemoryOK(free)
  <2>1. buffer = block.buffer /\ buffer \in 1 .. Len(a.buffers)
    BY <1>4, <1>5 DEF Noted
  <2>2. a.buffers \in Seq(BufferRec) /\ a.buffers # <<>> /\ a.bufferFront \in Nat /\ a.bufferBack \in Nat
    BY <1>1 DEF MemoryOK
  <2> HIDE DEF buffer
  <2>3. a.buffers[buffer] \in BufferRec
    BY <2>1, <2>2
  <2> DEFINE rec == [a.buffers[buffer] EXCEPT !.allocationCount = left, !.released = (left = 0 /\ ~active)]
  <2>4. rec \in BufferRec
    <3>1. left \in Int
      BY <2>3 DEF BufferRec
    <3> HIDE DEF left, active
    <3> QED BY <2>3, <3>1 DEF BufferRec
  <2>5. free.buffers = [a.buffers EXCEPT ![buffer] = rec]
    BY <1>6, <2>1, <2>2
  <2> HIDE DEF rec
  <2>6. free.buffers \in Seq(BufferRec) /\ Len(free.buffers) = Len(a.buffers)
    BY <2>1, <2>2, <2>4, <2>5
  <2>7. (slot + passed - 1) % n \in 0 .. n - 1
    <3>1. slot + passed - 1 \in Int
      BY <1>3, <1>5, <1>9
    <3> QED BY <1>3, <3>1
  <2>8. cleared[(slot + passed - 1) % n].endOffset \in Nat
    BY <1>7, <2>7 DEF SlotRec
  <2>9. free.bufferBack \in Nat
    BY <1>6, <2>2, <2>8
  <2>10. free.buffers # <<>>
    BY <2>1, <2>6
  <2> QED BY <1>6, <2>2, <2>6, <2>9, <2>10 DEF MemoryOK
<1>11. popped \in 0 .. next - a.oldest
  <2>1. CASE slot = a.back
    BY <1>3, <1>8, <2>1, SMTT(30) DEF Wrap
  <2>2. CASE slot # a.back
    BY <1>3, <2>2
  <2> QED BY <2>1, <2>2
<1>12. \A j \in 0 .. popped - 1 : EmptySlot(cleared[Wrap(a.back + j, n)])
  BY <1>8
<1> HIDE DEF popped
<1>13. free.back = Wrap(popped + a.back, n) /\ popped \in 0 .. n - 1 /\ next - a.oldest \in 0 .. n - 1
  <2>1. popped \in 0 .. n - 1 /\ next - a.oldest \in 0 .. n - 1
    BY <1>3, <1>11
  <2> QED BY <1>3, <1>6, <2>1, WrapApart
<1>14. RingOK(free, next, n)
  <2>1. free.back \in 0 .. n - 1 /\ free.oldest \in Nat /\ free.oldest <= next /\ next - free.oldest < n
    <3>1. Wrap(popped + a.back, n) \in 0 .. n - 1
      BY <1>3, <1>11, <1>13, WrapApart
    <3>2. free.oldest \in Nat /\ free.oldest <= next /\ next - free.oldest < n
      BY <1>3, <1>6, <1>11, SMTT(30)
    <3> QED BY <1>13, <3>1, <3>2
  <2>2. a.front = Wrap(free.back + (next - free.oldest), n)
    <3>1. next - free.oldest = (next - a.oldest) - popped
      BY <1>3, <1>6, <1>11
    <3>2. Wrap(Wrap(popped + a.back, n) + ((next - a.oldest) - popped), n) = Wrap(a.back + (next - a.oldest), n)
      BY <1>3, <1>11, <1>13, WrapMoves
    <3> QED BY <1>3, <1>13, <3>1, <3>2
  <2> QED BY <1>3, <1>6, <1>7, <2>1, <2>2 DEF RingOK
<1>15. ASSUME NEW b \in held, b # block PROVE BlockOK(free, next, n, b, h)
  <2>1. /\ b \in BlockRec /\ b.index \in Nat /\ b.index < next /\ b.buffer \in 1 .. Len(a.buffers)
        /\ b.index >= a.oldest => /\ Noted(a, b.index, n).bufferIndex = b.buffer
                                  /\ b.offset \in {0, AlignedUp(Noted(a, b.index, n).beginOffset)}
        /\ b.index \notin h => b.index >= a.oldest /\ ~EmptySlot(Noted(a, b.index, n))
    BY <1>2 DEF BlockOK, BlockRec
  <2>2. b.index # block.index
    BY <1>1, <1>15
  <2>3. ASSUME b.index >= a.oldest
        PROVE  /\ ~EmptySlot(Noted(a, b.index, n)) => b.index >= free.oldest
               /\ b.index >= free.oldest => Noted(free, b.index, n) = Noted(a, b.index, n)
    <3> DEFINE place == Wrap(b.index - a.oldest + a.back, n)
    <3>0. b.index - a.oldest \in 0 .. n - 1 /\ block.index - a.oldest \in 0 .. n - 1
          /\ b.index - a.oldest # block.index - a.oldest
      <4>1. \A x \in a.oldest .. next - 1 : x - a.oldest \in 0 .. n - 1 /\ x \in Int
        BY <1>3
      <4>2. b.index \in a.oldest .. next - 1 /\ block.index \in a.oldest .. next - 1 /\ a.oldest \in Int
        BY <1>3, <1>4, <2>1, <2>3
      <4> QED BY ONLY <2>2, <4>1, <4>2
    <3>1. place \in 0 .. n - 1 /\ place # slot
      BY <1>3, <1>5, <3>0, WrapApart
    <3>2. cleared[place] = a.slots[place]
      BY <1>7, <3>1
    <3>3. Noted(a, b.index, n) = cleared[place]
      BY <3>2 DEF Noted
    <3>4. ASSUME ~EmptySlot(Noted(a, b.index, n)) PROVE b.index - a.oldest >= popped
      <4> SUFFICES ASSUME b.index - a.oldest < popped PROVE FALSE
        BY <1>3, <1>11, <2>1
      <4>1. b.index - a.oldest \in 0 .. popped - 1
        BY <1>3, <1>11, <2>1, <3>0
      <4>2. place = Wrap(a.back + (b.index - a.oldest), n)
        <5>1. PICK j : j = b.index - a.oldest /\ j \in Nat
          BY <3>0
        <5>2. j + a.back = a.back + j
          BY <1>3, <5>1
        <5> QED BY <5>1, <5>2
      <4> HIDE DEF place
      <4> QED BY <1>12, <3>3, <3>4, <4>1, <4>2
    <3>5. b.index >= free.oldest <=> b.index - a.oldest >= popped
      BY <1>3, <1>6, <1>11, <2>1
    <3>6. ASSUME b.index >= free.oldest PROVE Wrap(b.index - free.oldest + free.back, n) = place
      <4>1. /\ b.index - free.oldest = (b.index - a.oldest) - popped
            /\ b.index - a.oldest \in popped .. n - 1
        BY <1>3, <1>6, <1>11, <2>1, <3>0, <3>5, <3>6
      <4>2. Wrap(((b.index - a.oldest) - popped) + Wrap(popped + a.back, n), n) = place
        BY <1>3, <1>11, <1>13, <4>1, WrapMoves
      <4> QED BY <1>13, <4>1, <4>2
    <3>7. b.index >= free.oldest => Noted(free, b.index, n) = Noted(a, b.index, n)
      BY <1>6, <3>3, <3>6 DEF Noted
    <3> QED BY ONLY <3>4, <3>5, <3>7
  <2>4. b.buffer \in 1 .. Len(free.buffers)
    BY <1>6, <2>1
  <2>5. b.index >= free.oldest => b.index >= a.oldest
    BY <1>3, <1>6, <1>11, <2>1
  <2> QED BY ONLY <2>1, <2>3, <2>4, <2>5 DEF BlockOK
<1>16. \A b \in held \ {block} : BlockOK(free, next, n, b, h)
  BY <1>15
<1>17. ArenaOK(free, next, held \ {block}, h)
  BY <1>1, <1>6, <1>10, <1>14, <1>16 DEF ArenaOK
<1> QED BY <1>17 DEF free

LEMMA BecomesIs ==
    ASSUME NEW a, NEW next, NEW held, NEW h, ArenaOK(a, next, held, h), Becomes(a),
           allocationIndexNext' = next, blocks' = held, hidden' = h
    PROVE  ArenaInv'
<1> DEFINE now == [slots |-> a.slots, front |-> a.front, back |-> a.back, oldest |-> a.oldest,
                   buffers |-> a.buffers, bufferFront |-> a.bufferFront, bufferBack |-> a.bufferBack]
<1>1. Now' = now
  BY DEF Becomes, Now
<1>2. /\ now.slots = a.slots /\ now.front = a.front /\ now.back = a.back /\ now.oldest = a.oldest
      /\ now.buffers = a.buffers /\ now.bufferFront = a.bufferFront /\ now.bufferBack = a.bufferBack
      /\ Fields \subseteq DOMAIN now
  BY DEF Fields
<1> HIDE DEF now
<1>3. MemoryOK(now)
  BY <1>2 DEF ArenaOK, MemoryOK
<1>4. PICK n : RingOK(a, next, n) /\ \A b \in held : BlockOK(a, next, n, b, h)
  BY DEF ArenaOK
<1>5. RingOK(now, next, n) /\ \A b \in held : BlockOK(now, next, n, b, h)
  BY <1>2, <1>4 DEF RingOK, BlockOK, Noted
<1>6. ArenaOK(now, next, held, h)
  BY <1>2, <1>3, <1>5 DEF ArenaOK
<1> QED BY <1>1, <1>6 DEF ArenaInv

LEMMA ArenaInitInv == ASSUME ArenaAssumption, ArenaInit PROVE ArenaInv
<1>1. /\ slots \in [0 .. InitialCount - 1 -> SlotRec] /\ InitialCount \in Nat /\ InitialCount > 0
  BY DEF ArenaAssumption, ArenaInit, NewSlot, SlotRec
<1>2. buffers \in Seq(BufferRec) /\ buffers # <<>>
  <2>1. NewBuffer(InitialSize) \in BufferRec
    BY DEF NewBuffer, BufferRec, ArenaAssumption
  <2> QED BY <2>1 DEF ArenaInit
<1>3. RingOK(Now, allocationIndexNext, InitialCount)
  BY <1>1, NowIs DEF ArenaInit, RingOK, Wrap
<1>4. MemoryOK(Now) /\ blocks = {}
  BY <1>2, NowIs DEF ArenaInit, MemoryOK
<1> QED BY <1>3, <1>4, NowIs DEF ArenaInv, ArenaOK

LEMMA ResizedKeeps ==
    ASSUME ArenaInv, NEW block \in blocks, NEW size \in Nat,
           blocks' = (blocks \ {block}) \cup {[block EXCEPT !.size = size]},
           UNCHANGED <<slots, slotFront, slotBack, allocationIndexNext, allocationIndexOldest,
                       buffers, bufferFront, bufferBack, hidden>>
    PROVE  ArenaInv'
<1> DEFINE resized == [block EXCEPT !.size = size]
<1>1. PICK n : RingOK(Now, allocationIndexNext, n) /\ \A b \in blocks : BlockOK(Now, allocationIndexNext, n, b, hidden)
  BY DEF ArenaInv, ArenaOK
<1>2. block \in BlockRec
  BY <1>1 DEF BlockOK
<1>3. /\ resized \in BlockRec /\ resized.index = block.index /\ resized.buffer = block.buffer
      /\ resized.offset = block.offset
  BY <1>2 DEF BlockRec
<1> HIDE DEF resized
<1>4. BlockOK(Now, allocationIndexNext, n, resized, hidden)
  BY <1>1, <1>3 DEF BlockOK
<1>5. Now' = Now
  BY DEF Now
<1>6. \A b \in blocks' : BlockOK(Now, allocationIndexNext, n, b, hidden)
  BY <1>1, <1>4 DEF resized
<1>7. \A b, c \in blocks' : b.index = c.index => b = c
  <2>1. \A b, c \in blocks : b.index = c.index => b = c
    BY DEF ArenaInv, ArenaOK
  <2>2. blocks' = (blocks \ {block}) \cup {resized}
    BY DEF resized
  <2> QED BY <1>3, <2>1, <2>2
<1>8. ArenaOK(Now, allocationIndexNext, blocks', hidden)
  BY <1>1, <1>6, <1>7 DEF ArenaInv, ArenaOK
<1> QED BY <1>5, <1>8 DEF ArenaInv

LEMMA ArenaStep ==
    ASSUME ArenaAssumption, ArenaInv, [ArenaNext]_arenaVars
    PROVE  ArenaInv'
<1>1. ASSUME NEW size \in Sizes, rollingArenaAllocate(size) PROVE ArenaInv'
  <2> DEFINE a == internalAllocate(size)
  <2>1. ArenaOK(a, allocationIndexNext', blocks \cup {a.block}, hidden')
    BY <1>1, AllocateKeeps DEF rollingArenaAllocate
  <2>2. Becomes(a) /\ blocks' = blocks \cup {a.block}
    BY <1>1 DEF rollingArenaAllocate
  <2> HIDE DEF a
  <2> QED BY <2>1, <2>2, BecomesIs
<1>2. ASSUME NEW block \in blocks, rollingArenaFree(block) PROVE ArenaInv'
  <2>1. block.index >= Now.oldest
    <3>1. PICK n : RingOK(Now, allocationIndexNext, n) /\ BlockOK(Now, allocationIndexNext, n, block, hidden)
      BY DEF ArenaInv, ArenaOK
    <3>2. block.index \in allocationIndexOldest .. allocationIndexNext - 1
      BY <1>2 DEF rollingArenaFree, MayFree
    <3> QED BY <3>1, <3>2, NowIs DEF RingOK
  <2>2. ArenaOK(internalFree(Now, block), allocationIndexNext, blocks \ {block}, hidden)
    BY <2>1, FreeKeeps DEF ArenaInv
  <2>3. /\ Becomes(internalFree(Now, block)) /\ blocks' = blocks \ {block}
        /\ allocationIndexNext' = allocationIndexNext /\ hidden' = hidden
    BY <1>2 DEF rollingArenaFree
  <2> QED BY <2>2, <2>3, BecomesIs
<1>3. ASSUME NEW block \in blocks, NEW size \in Sizes, rollingArenaReallocate(block, size) PROVE ArenaInv'
  <2>1. CASE UNCHANGED <<slots, slotFront, slotBack, allocationIndexNext, allocationIndexOldest,
                         buffers, bufferFront, bufferBack, hidden>>
             /\ blocks' = (blocks \ {block}) \cup {[block EXCEPT !.size = size]}
    <3>1. size \in Nat
      BY DEF ArenaAssumption
    <3> QED BY <2>1, <3>1, ResizedKeeps
  <2> DEFINE a == internalAllocate(size)
  <2>2. CASE /\ MayFree(block) /\ MayAllocate(size) /\ Numbered(size)
             /\ Becomes(internalFree(a, block))
             /\ blocks' = (blocks \ {block}) \cup {a.block}
    <3>1. /\ ArenaOK(a, allocationIndexNext', blocks \cup {a.block}, hidden')
          /\ a.block.index = allocationIndexNext /\ a.oldest = allocationIndexOldest
      BY <2>2, AllocateKeeps
    <3> HIDE DEF a
    <3>2. block.index < allocationIndexNext /\ block.index >= allocationIndexOldest /\ allocationIndexNext \in Nat
      <4>1. PICK n : RingOK(Now, allocationIndexNext, n)
        BY DEF ArenaInv, ArenaOK
      <4>2. block.index \in allocationIndexOldest .. allocationIndexNext - 1
        BY <2>2 DEF MayFree
      <4>3. allocationIndexOldest \in Nat /\ allocationIndexNext \in Nat
        BY <4>1, NowIs DEF RingOK
      <4> QED BY ONLY <4>2, <4>3
    <3>3. ArenaOK(internalFree(a, block), allocationIndexNext', (blocks \cup {a.block}) \ {block}, hidden')
      BY <3>1, <3>2, FreeKeeps
    <3>4. a.block # block
      BY <3>1, <3>2
    <3>5. (blocks \cup {a.block}) \ {block} = (blocks \ {block}) \cup {a.block}
      BY <3>4
    <3> QED BY <2>2, <3>3, <3>5, BecomesIs
  <2> QED BY <1>3, <2>1, <2>2 DEF rollingArenaReallocate
<1>4. CASE UNCHANGED arenaVars
  BY <1>4 DEF arenaVars, ArenaInv, Now
<1> QED BY <1>1, <1>2, <1>3, <1>4 DEF ArenaNext

LEMMA ArenaFinds == ASSUME ArenaInv PROVE SlotsFindBlocks
<1>1. PICK n : RingOK(Now, allocationIndexNext, n) /\ \A b \in blocks : BlockOK(Now, allocationIndexNext, n, b, hidden)
  BY DEF ArenaInv, ArenaOK
<1>2. /\ n \in Nat /\ n > 0 /\ slots \in [0 .. n - 1 -> SlotRec] /\ slotFront \in 0 .. n - 1 /\ slotBack \in 0 .. n - 1
      /\ BlocksHeld \in Nat /\ BlocksHeld < n /\ slotFront = Wrap(slotBack + BlocksHeld, n) /\ slotsCount = n
  BY <1>1, RingNow
<1>3. allocationIndexOldest \in Nat /\ allocationIndexNext \in Nat /\ BlocksHeld = allocationIndexNext - allocationIndexOldest
  BY <1>1, NowIs DEF RingOK, BlocksHeld
<1>4. (slotFront + n - slotBack) % n = BlocksHeld
  <2>1. slotFront + n - slotBack \in Nat /\ slotFront + n - slotBack < 2 * n
    BY <1>2
  <2>2. (slotFront + n - slotBack) % n = Wrap(slotFront + n - slotBack, n)
    BY <1>2, <2>1, WrapIs
  <2> QED BY <1>2, <2>2 DEF Wrap
<1>5. ASSUME NEW b \in blocks, b.index \notin hidden
      PROVE  LET s == slots[SlotOf(State, allocationIndexOldest, b.index)]
             IN  /\ MayFree(b)
                 /\ ~EmptySlot(s) /\ s.bufferIndex = b.buffer
                 /\ b.offset \in {0, AlignedUp(s.beginOffset)}
  <2>1. /\ b.index \in Nat /\ b.index >= allocationIndexOldest /\ b.index < allocationIndexNext
        /\ ~EmptySlot(Noted(Now, b.index, n)) /\ Noted(Now, b.index, n).bufferIndex = b.buffer
        /\ b.offset \in {0, AlignedUp(Noted(Now, b.index, n).beginOffset)}
    BY <1>1, <1>5, NowIs DEF BlockOK, BlockRec
  <2>2. b.index - allocationIndexOldest \in 0 .. n - 1 /\ MayFree(b)
    <3>1. PICK i : i = b.index
      OBVIOUS
    <3>2. i \in Nat /\ i >= allocationIndexOldest /\ i < allocationIndexNext
      BY ONLY <2>1, <3>1
    <3>3. i - allocationIndexOldest \in 0 .. n - 1 /\ i \in allocationIndexOldest .. allocationIndexNext - 1
      <4>1. PICK o, x, k : o = allocationIndexOldest /\ x = allocationIndexNext /\ k = BlocksHeld
        OBVIOUS
      <4>2. o \in Nat /\ x \in Nat /\ k = x - o /\ k < n /\ n \in Nat /\ i \in Nat /\ i >= o /\ i < x
        BY ONLY <4>1, <3>2, <1>2, <1>3
      <4>3. i - o \in 0 .. n - 1 /\ i \in o .. x - 1
        BY ONLY <4>2
      <4> QED BY <4>1, <4>3
    <3> QED BY <3>1, <3>3 DEF MayFree
  <2>3. SlotOf(State, allocationIndexOldest, b.index) = Wrap(b.index - allocationIndexOldest + slotBack, n)
    <3>1. PICK j : j = b.index - allocationIndexOldest
      OBVIOUS
    <3>2. j \in 0 .. n - 1
      BY <2>2, <3>1
    <3>3. (j + slotBack) % n = Wrap(j + slotBack, n)
      BY ONLY <1>2, <3>2, WrapApart
    <3>4. SlotOf(State, allocationIndexOldest, b.index) = (j + slotBack) % n
      BY <1>2, <3>1, NowIs DEF SlotOf, slotsCount
    <3> QED BY <3>1, <3>3, <3>4
  <2>4. slots[SlotOf(State, allocationIndexOldest, b.index)] = Noted(Now, b.index, n)
    BY <2>3, NowIs DEF Noted
  <2> QED BY <2>1, <2>2, <2>4
<1> QED BY <1>2, <1>3, <1>4, <1>5 DEF SlotsFindBlocks

\* For blocks of any size: through the ring of slots, wrapped and doubled at
\* any time, the number of a block in use leads to what was noted of it, unless
\* its slot began where it ended (rolling_arena.c, internalAllocate and
\* internalFree).
THEOREM SlotsAlwaysFindBlocks ==
    ArenaAssumption => (ArenaSpec => []SlotsFindBlocks)
<1> SUFFICES ASSUME ArenaAssumption PROVE ArenaSpec => []SlotsFindBlocks
  OBVIOUS
<1>1. ArenaInit => ArenaInv
  BY ArenaInitInv
<1>2. ArenaInv /\ [ArenaNext]_arenaVars => ArenaInv'
  BY ArenaStep
<1>3. ArenaInv => SlotsFindBlocks
  BY ArenaFinds
<1> QED BY <1>1, <1>2, <1>3, PTL DEF ArenaSpec

-----------------------------------------------------------------------------
(* Handle pools. *)

(* Either every handle of a slot has been made, or those whose generation   *)
(* the slot has had since it was new.                                       *)
UsedUp(i) == {h \in Handle : h.index = i} \subseteq Made
Counted(i) == \A h \in Handle : h.index = i => (h \in Made <=> h.generation <= pool.generations[i])

MadeOK == Made \subseteq Handle /\ \A i \in 0 .. Capacity - 1 : UsedUp(i) \/ Counted(i)

(* What every handle ever returned says of the pool: its slot has the       *)
(* generation of the handle exactly while its object is there.              *)
TableOK == \A h \in Made :
              table[h] = IF h.generation = pool.generations[h.index] THEN pool.objects[h.index]
                         ELSE NoObject

TableFits == /\ PoolOK(pool, Capacity, Object)
             /\ table \in [Made -> Object \cup {NoObject}]
             /\ MadeOK /\ TableOK

HandleInv == ~misused => TableFits

-----------------------------------------------------------------------------
LEMMA PresentedIs ==
    ASSUME NEW h \in Presented
    PROVE  /\ h.index \in (0 .. Capacity - 1) \cup {NoIndex} /\ h.generation \in Generation
           /\ h.generation \in Nat
           /\ h = handleMake(h.index, h.generation)
<1>1. PICK i \in (0 .. Capacity - 1) \cup {NoIndex}, g \in Generation : h = handleMake(i, g)
  BY DEF Presented
<1>2. h.index = i /\ h.generation = g
  BY <1>1 DEF handleMake
<1>3. g \in Nat
  BY GenerationsAssumption DEF Generation
<1> QED BY <1>1, <1>2, <1>3

LEMMA HandleIs ==
    ASSUME NEW h \in Handle
    PROVE  /\ h.index \in 0 .. Capacity - 1 /\ h.generation \in Generation /\ h.generation \in Nat
           /\ Odd(h.generation) /\ h = handleMake(h.index, h.generation) /\ h # InvalidHandle
<1>1. h \in Presented /\ h.index # NoIndex /\ Odd(h.generation)
  BY DEF Handle, Odd
<1>2. InvalidHandle.index = NoIndex
  BY DEF InvalidHandle, handleMake
<1> QED BY <1>1, <1>2, PresentedIs

LEMMA MakeIs ==
    ASSUME NEW i \in 0 .. Capacity - 1, NEW g \in Generation, Odd(g)
    PROVE  /\ handleMake(i, g) \in Handle
           /\ handleMake(i, g).index = i /\ handleMake(i, g).generation = g
<1>1. PICK h : h = handleMake(i, g)
  OBVIOUS
<1>2. h.index = i /\ h.generation = g
  BY <1>1 DEF handleMake
<1>3. h \in Presented
  BY <1>1 DEF Presented
<1>4. i # NoIndex
  BY UseAssumption, GenerationsAssumption
<1> QED BY <1>1, <1>2, <1>3, <1>4 DEF Handle, Odd

LEMMA MadeHandles ==
    ASSUME TableFits, NEW h \in Made
    PROVE  h \in Handle /\ h # InvalidHandle
BY HandleIs DEF TableFits, MadeOK

LEMMA FitsSame ==
    ASSUME HandleInv, pool' = pool, table' = table, misused' <=> misused
    PROVE  HandleInv'
<1>1. CASE misused
  BY <1>1 DEF HandleInv
<1>2. CASE ~misused
  <2>1. TableFits
    BY <1>2 DEF HandleInv
  <2>2. MadeOK'
    BY <2>1 DEF TableFits, MadeOK, UsedUp, Counted, Made
  <2>3. TableOK' /\ PoolOK(pool', Capacity, Object) /\ table' \in [Made' -> Object \cup {NoObject}]
    BY <2>1 DEF TableFits, TableOK, Made
  <2> QED BY <2>2, <2>3 DEF HandleInv, TableFits
<1> QED BY <1>1, <1>2

LEMMA InitHolds ==
    ASSUME Init
    PROVE  HandleInv /\ Table!Init
<1>1. /\ PoolOK(pool, Capacity, Object)
      /\ \A i \in 0 .. Capacity - 1 : pool.generations[i] = 0
  BY NewPoolIs, UseAssumption DEF Init
<1>2. Made = {}
  BY DEF Init, Made
<1>3. MadeOK
  <2>1. ASSUME NEW i \in 0 .. Capacity - 1, NEW h \in Handle, h.index = i, h.generation <= pool.generations[i]
        PROVE FALSE
    <3>1. h.generation = 0
      BY <1>1, <2>1, HandleIs
    <3> QED BY <3>1, HandleIs DEF Odd
  <2> QED BY <1>2, <2>1 DEF MadeOK, Counted
<1>4. table \in [Made -> Object \cup {NoObject}] /\ TableOK
  BY <1>2 DEF Init, TableOK
<1>5. Table!Init
  BY DEF Init, Table!Init
<1> QED BY <1>1, <1>3, <1>4, <1>5 DEF HandleInv, TableFits

-----------------------------------------------------------------------------
(* A full pool returns the handle that is not one; another takes a slot,    *)
(* whose next handle was never returned, or all its handles were.           *)
LEMMA AddFits ==
    ASSUME TableFits, NEW o \in Object, Add(o), ~misused
    PROVE  TableFits' /\ Table!Add(o)
<1>0. o # NoObject /\ Capacity \in Nat
  BY UseAssumption
<1>1. /\ PoolOK(pool, Capacity, Object)
      /\ table \in [Made -> Object \cup {NoObject}] /\ MadeOK /\ TableOK
  BY DEF TableFits
<1>2. CASE Full(pool)
  <2>1. add(pool, o) = [pool |-> pool, handle |-> InvalidHandle]
    BY <1>2 DEF add
  <2>2. pool' = pool /\ result' = InvalidHandle /\ table' = table /\ misused' = misused
    BY <2>1 DEF Add
  <2>3. TableFits'
    BY <2>2, FitsSame DEF HandleInv
  <2> QED BY <2>2, <2>3 DEF Table!Add
<1>3. CASE ~Full(pool)
  <2>1. PICK i \in 0 .. Capacity - 1 :
             /\ ~InUse(pool, i)
             /\ add(pool, o).handle = handleMake(i, pool.generations[i] + 1)
             /\ add(pool, o).pool.generations = [pool.generations EXCEPT ![i] = pool.generations[i] + 1]
             /\ add(pool, o).pool.objects = [pool.objects EXCEPT ![i] = o]
             /\ PoolOK(add(pool, o).pool, Capacity, Object)
    BY <1>0, <1>1, <1>3, AddIs
  <2>2. PICK g : g = pool.generations[i]
    OBVIOUS
  <2>3. PICK h : h = handleMake(i, g + 1)
    OBVIOUS
  <2>4. /\ pool'.generations = [pool.generations EXCEPT ![i] = g + 1]
        /\ pool'.objects = [pool.objects EXCEPT ![i] = o]
        /\ PoolOK(pool', Capacity, Object)
        /\ result' = h
    BY <2>1, <2>2, <2>3 DEF Add
  <2>5. /\ pool.generations \in [0 .. Capacity - 1 -> Generation]
        /\ pool.objects \in [0 .. Capacity - 1 -> Object \cup {NoObject}]
        /\ DOMAIN pool.generations = 0 .. Capacity - 1
    BY <1>0, <1>1, PoolFields
  <2>6. g \in Nat /\ g + 1 \in Generation /\ ~Odd(g) /\ Odd(g + 1)
    <3>1. g \in Generation /\ ~Odd(g)
      BY <2>1, <2>2, <2>5 DEF InUse
    <3>2. g \in Nat /\ g + 1 \in Generation
      BY <3>1, FreeHasNext
    <3> QED BY <3>1, <3>2, Parity
  <2>7. h \in Handle /\ h.index = i /\ h.generation = g + 1 /\ h # InvalidHandle
    <3>1. h \in Handle /\ h.index = i /\ h.generation = g + 1
      BY <2>3, <2>6, MakeIs
    <3> QED BY <3>1, HandleIs
  <2>9. table' = [k \in Made \cup {h} |-> IF k = h THEN o ELSE table[k]]
    BY <2>1, <2>2, <2>3, <2>7 DEF Add
  <2>10. Made' = Made \cup {h}
    BY <2>9 DEF Made
  <2>11. ASSUME NEW k \in 0 .. Capacity - 1
         PROVE  /\ pool.generations[k] \in Nat
                /\ pool'.generations[k] = IF k = i THEN g + 1 ELSE pool.generations[k]
                /\ pool'.objects[k] = IF k = i THEN o ELSE pool.objects[k]
    <3>1. pool.generations[k] \in Nat
      <4>1. pool.generations[k] \in Generation
        BY <2>5
      <4> QED BY <4>1, GenerationsAssumption DEF Generation
    <3> QED BY <2>4, <2>5, <3>1
  <2>8. h \in Made => UsedUp(i) /\ table[h] = NoObject
    <3>1. UsedUp(i) \/ Counted(i)
      BY <1>1 DEF MadeOK
    <3>2. h \in Made => ~Counted(i)
      BY <2>2, <2>6, <2>7 DEF Counted
    <3>3. h \in Made => table[h] = NoObject
      BY <1>1, <2>2, <2>6, <2>7 DEF TableOK
    <3> QED BY <3>1, <3>2, <3>3
  <2>12. MadeOK'
    <3>1. ASSUME NEW k \in 0 .. Capacity - 1, UsedUp(k) PROVE UsedUp(k)'
      BY <2>10, <3>1 DEF UsedUp
    <3>2. ASSUME NEW k \in 0 .. Capacity - 1, Counted(k) PROVE Counted(k)'
      <4>1. ASSUME NEW w \in Handle, w.index = k
            PROVE  w \in Made' <=> w.generation <= pool'.generations[k]
        <5>1. w \in Made <=> w.generation <= pool.generations[k]
          BY <3>2, <4>1 DEF Counted
        <5>2. CASE k # i
          BY <2>7, <2>10, <2>11, <4>1, <5>1, <5>2
        <5>3. CASE k = i
          <6>1. pool'.generations[k] = g + 1 /\ pool.generations[k] = g
            BY <2>2, <2>11, <5>3
          <6>2. w = h <=> w.generation = g + 1
            BY <2>3, <2>7, <4>1, <5>3, HandleIs
          <6>3. w.generation <= g + 1 <=> w.generation <= g \/ w.generation = g + 1
            BY <2>6, HandleIs
          <6> QED BY <2>10, <5>1, <6>1, <6>2, <6>3
        <5> QED BY <5>2, <5>3
      <4> QED BY <4>1 DEF Counted
    <3>3. Made' \subseteq Handle
      BY <1>1, <2>7, <2>10 DEF MadeOK
    <3> QED BY <1>1, <3>1, <3>2, <3>3 DEF MadeOK
  <2>13. TableOK'
    <3>1. ASSUME NEW k \in Made'
          PROVE  table'[k] = IF k.generation = pool'.generations[k.index] THEN pool'.objects[k.index]
                             ELSE NoObject
      <4>1. CASE k = h
        BY <2>7, <2>9, <2>10, <2>11, <4>1
      <4>2. CASE k # h
        <5>1. k \in Made /\ table'[k] = table[k]
          BY <2>9, <2>10, <4>2
        <5>2. /\ k.index \in 0 .. Capacity - 1 /\ k.generation \in Nat /\ Odd(k.generation)
              /\ k = handleMake(k.index, k.generation)
          BY <5>1, MadeHandles, HandleIs
        <5>3. table[k] = IF k.generation = pool.generations[k.index] THEN pool.objects[k.index] ELSE NoObject
          BY <1>1, <5>1 DEF TableOK
        <5>4. CASE k.index # i
          BY <2>11, <5>1, <5>2, <5>3, <5>4
        <5>5. CASE k.index = i
          <6>1. k.generation # g /\ k.generation # g + 1
            BY <2>3, <2>6, <4>2, <5>2, <5>5
          <6> QED BY <2>2, <2>11, <5>1, <5>3, <5>5, <6>1
        <5> QED BY <5>4, <5>5
      <4> QED BY <4>1, <4>2
    <3> QED BY <3>1 DEF TableOK
  <2>15. table' \in [Made' -> Object \cup {NoObject}]
    BY <1>1, <2>9, <2>10
  <2>16. TableFits'
    BY <2>4, <2>12, <2>13, <2>15 DEF TableFits
  <2>17. Table!Add(o)
    <3>1. Table!Found(h) = NoObject
      BY <2>8 DEF Table!Found, Table!Made, Made
    <3>2. h \in Table!Made => Table!UsedUp(h.index)
      BY <2>7, <2>8 DEF Table!UsedUp, Table!Made, UsedUp, Made
    <3> QED BY <2>4, <2>7, <2>9, <3>1, <3>2 DEF Table!Add, Table!Made, Made
  <2> QED BY <2>16, <2>17
<1> QED BY <1>2, <1>3

LEMMA AddHolds ==
    ASSUME HandleInv, NEW o \in Object, Add(o)
    PROVE  HandleInv' /\ (misused \/ Table!Add(o))
<1>1. CASE misused
  BY <1>1 DEF Add, HandleInv
<1>2. CASE ~misused
  BY <1>2, AddFits DEF HandleInv
<1> QED BY <1>1, <1>2

(* A word leads where the table says; if it is valid it was returned, or it *)
(* is the handle of a free slot and leads nowhere.                          *)
LEMMA LookupIs ==
    ASSUME TableFits, NEW h \in Presented
    PROVE  /\ lookup(pool, h) = Table!Found(h)
           /\ isValid(pool, h) => h.index \in 0 .. Capacity - 1 /\ pool.generations[h.index] = h.generation
           /\ isValid(pool, h) /\ Odd(h.generation) => h \in Made
<1>1. /\ DOMAIN pool.generations = 0 .. Capacity - 1 /\ Capacity \in Nat
      /\ PoolOK(pool, Capacity, Object) /\ MadeOK /\ TableOK
  BY UseAssumption, PoolFields DEF TableFits
<1>2. isValid(pool, h) => h.index \in 0 .. Capacity - 1 /\ pool.generations[h.index] = h.generation
  BY <1>1 DEF isValid, Slots
<1>3. ASSUME isValid(pool, h), Odd(h.generation) PROVE h \in Made
  <2>1. h \in Handle
    BY <1>2, <1>3, UseAssumption, GenerationsAssumption DEF Handle, Odd
  <2>2. UsedUp(h.index) \/ Counted(h.index)
    BY <1>1, <1>2, <1>3 DEF MadeOK
  <2>3. h.generation <= pool.generations[h.index]
    BY <1>2, <1>3, PresentedIs
  <2> QED BY <2>1, <2>2, <2>3 DEF UsedUp, Counted
<1>4. ASSUME isValid(pool, h), ~Odd(h.generation) PROVE h \notin Made /\ pool.objects[h.index] = NoObject
  <2>1. h \notin Made
    BY <1>4, MadeHandles, HandleIs
  <2>2. h.index \in 0 .. Capacity - 1 /\ ~InUse(pool, h.index)
    BY <1>2, <1>4 DEF InUse
  <2> QED BY <1>1, <2>1, <2>2, SlotIs
<1>5. CASE h \in Made
  <2>1. h.index \in 0 .. Capacity - 1
    BY <1>5, MadeHandles, HandleIs
  <2>2. table[h] = IF h.generation = pool.generations[h.index] THEN pool.objects[h.index] ELSE NoObject
    BY <1>1, <1>5 DEF TableOK
  <2>3. lookup(pool, h) = Table!Found(h)
    BY <1>1, <1>5, <2>1, <2>2 DEF lookup, isValid, Slots, Table!Found, Table!Made, Made
  <2> QED BY <1>2, <1>5, <2>3
<1>6. CASE h \notin Made
  <2>1. lookup(pool, h) = NoObject
    BY <1>3, <1>4, <1>6 DEF lookup
  <2>2. Table!Found(h) = NoObject
    BY <1>6 DEF Table!Found, Table!Made, Made
  <2> QED BY <1>2, <1>3, <2>1, <2>2
<1> QED BY <1>5, <1>6

(* The table of a call that removes through a word, or looks it up. *)
LEMMA TableRemoves ==
    ASSUME TableFits, NEW h \in Presented, Remove(h), ~misused
    PROVE  /\ result' = Table!Found(h)
           /\ table' = [k \in Made |-> IF k = h THEN NoObject ELSE table[k]]
           /\ h \notin Made => table' = table
           /\ \E k \in Table!Made \cup {InvalidHandle} : Table!Remove(k)
<1>1. /\ result' = Table!Found(h)
      /\ table' = [k \in Made |-> IF k = h THEN NoObject ELSE table[k]]
      /\ table \in [Made -> Object \cup {NoObject}]
  BY LookupIs DEF Remove, TableFits
<1>2. CASE h \in Made
  BY <1>1, <1>2 DEF Table!Remove, Table!Made, Made
<1>3. CASE h \notin Made
  <2>1. InvalidHandle \notin Made
    BY MadeHandles
  <2>2. Table!Found(h) = NoObject /\ Table!Found(InvalidHandle) = NoObject
    BY <1>3, <2>1 DEF Table!Found, Table!Made, Made
  <2>3. table' = [k \in Made |-> IF k = InvalidHandle THEN NoObject ELSE table[k]]
    BY <1>1, <1>3, <2>1
  <2>4. table' = table
    BY <1>1, <1>3
  <2> QED BY <1>1, <2>2, <2>3, <2>4 DEF Table!Remove, Table!Made, Made
<1> QED BY <1>1, <1>2, <1>3

(* The handle of a slot in use: its generation is bumped, and wraps if it   *)
(* was the last; then all handles of the slot have been made.               *)
LEMMA RemoveFits ==
    ASSUME TableFits, NEW h \in Presented, Remove(h), ~misused, isValid(pool, h), Odd(h.generation)
    PROVE  TableFits'
<1>0. Capacity \in Nat
  BY UseAssumption
<1>1. /\ PoolOK(pool, Capacity, Object)
      /\ table \in [Made -> Object \cup {NoObject}] /\ MadeOK /\ TableOK
  BY DEF TableFits
<1>2. /\ pool' = remove(pool, h)
      /\ table' = [k \in Made |-> IF k = h THEN NoObject ELSE table[k]]
  BY TableRemoves DEF Remove
<1>3. Made' = Made
  BY <1>2 DEF Made
<1>4. /\ DOMAIN pool.generations = 0 .. Capacity - 1
      /\ pool.generations \in [0 .. Capacity - 1 -> Generation]
      /\ pool.objects \in [0 .. Capacity - 1 -> Object \cup {NoObject}]
  BY <1>0, <1>1, PoolFields
<1>5. PICK i, g, next : i = h.index /\ g = h.generation /\ next = GenerationAfter(h.generation)
  OBVIOUS
<1>6. /\ i \in 0 .. Capacity - 1 /\ g \in Generation /\ g \in Nat /\ Odd(g) /\ pool.generations[i] = g
      /\ h = handleMake(i, g) /\ h \in Made
  BY <1>5, LookupIs, PresentedIs
<1>7. /\ pool'.generations = [pool.generations EXCEPT ![i] = next]
      /\ pool'.objects = [pool.objects EXCEPT ![i] = NoObject]
      /\ PoolOK(pool', Capacity, Object)
  <2>1. InUse(pool, h.index) /\ pool.generations[h.index] = h.generation
    BY <1>5, <1>6 DEF InUse
  <2>2. /\ remove(pool, h).generations = [pool.generations EXCEPT ![h.index] = GenerationAfter(pool.generations[h.index])]
        /\ remove(pool, h).objects = [pool.objects EXCEPT ![h.index] = NoObject]
        /\ PoolOK(remove(pool, h), Capacity, Object)
    BY <1>0, <1>1, <2>1, RemoveIs
  <2> QED BY <1>2, <1>5, <2>1, <2>2
<1>8. ~Odd(next) /\ next \in Nat /\ next = IF g + 1 = Generations THEN 0 ELSE g + 1
  <2>0. h.generation \in Generation /\ Odd(h.generation)
    BY <1>5, <1>6
  <2>1. ~Odd(next) /\ next \in Generation
    BY <1>5, <2>0, GenerationAfterIs
  <2> QED BY <1>5, <2>1, GenerationsAssumption DEF GenerationAfter, Generation
<1>9. ASSUME NEW k \in 0 .. Capacity - 1
      PROVE  /\ pool'.generations[k] = IF k = i THEN next ELSE pool.generations[k]
             /\ pool'.objects[k] = IF k = i THEN NoObject ELSE pool.objects[k]
  BY <1>4, <1>7
<1>10. MadeOK'
  <2>1. ASSUME NEW k \in 0 .. Capacity - 1, UsedUp(k) PROVE UsedUp(k)'
    BY <1>3, <2>1 DEF UsedUp
  <2>2. ASSUME NEW k \in 0 .. Capacity - 1, Counted(k), k # i PROVE Counted(k)'
    BY <1>3, <1>9, <2>2 DEF Counted
  <2>3. ASSUME Counted(i), g + 1 = Generations PROVE UsedUp(i)
    <3>1. ASSUME NEW w \in Handle, w.index = i PROVE w \in Made
      <4>1. w.generation <= g
        BY <1>6, <2>3, HandleIs, GenerationsAssumption DEF Generation
      <4> QED BY <1>6, <2>3, <3>1, <4>1 DEF Counted
    <3> QED BY <3>1 DEF UsedUp
  <2>4. ASSUME Counted(i), g + 1 # Generations PROVE Counted(i)'
    <3>1. ASSUME NEW w \in Handle, w.index = i
          PROVE  w \in Made' <=> w.generation <= pool'.generations[i]
      <4>1. w.generation \in Nat /\ w.generation # g + 1 /\ next = g + 1
        BY <1>8, <2>4, HandleIs
      <4>2. w \in Made <=> w.generation <= g
        BY <1>6, <2>4, <3>1 DEF Counted
      <4> QED BY <1>3, <1>6, <1>9, <4>1, <4>2
    <3> QED BY <3>1 DEF Counted
  <2> QED BY <1>1, <1>3, <2>1, <2>2, <2>3, <2>4 DEF MadeOK
<1>11. TableOK'
  <2>1. ASSUME NEW k \in Made
        PROVE  table'[k] = IF k.generation = pool'.generations[k.index] THEN pool'.objects[k.index]
                           ELSE NoObject
    <3>1. /\ k.index \in 0 .. Capacity - 1 /\ k.generation \in Nat /\ Odd(k.generation)
          /\ k = handleMake(k.index, k.generation)
      BY <2>1, MadeHandles, HandleIs
    <3>2. table[k] = IF k.generation = pool.generations[k.index] THEN pool.objects[k.index] ELSE NoObject
      BY <1>1, <2>1 DEF TableOK
    <3>3. table'[k] = IF k = h THEN NoObject ELSE table[k]
      BY <1>2, <2>1
    <3>4. CASE k.index # i
      <4>1. k # h
        BY <1>5, <3>4
      <4> QED BY <1>9, <3>1, <3>2, <3>3, <3>4, <4>1
    <3>5. CASE k.index = i
      <4>1. k.generation # next
        BY <1>8, <3>1
      <4>2. pool'.generations[k.index] = next /\ pool.generations[k.index] = g
        BY <1>6, <1>9, <3>5
      <4>3. k.generation = g => k = h
        BY <1>6, <3>1, <3>5
      <4> QED BY <3>2, <3>3, <4>1, <4>2, <4>3
    <3> QED BY <3>4, <3>5
  <2> QED BY <1>3, <2>1 DEF TableOK
<1>12. table' \in [Made' -> Object \cup {NoObject}]
  BY <1>1, <1>2, <1>3
<1> QED BY <1>7, <1>10, <1>11, <1>12 DEF TableFits

(* A word that leads nowhere changes nothing, unless it is the handle of a  *)
(* free slot.                                                               *)
LEMMA RemoveHolds ==
    ASSUME HandleInv, NEW h \in Presented, Remove(h)
    PROVE  HandleInv' /\ (misused \/ \E k \in Table!Made \cup {InvalidHandle} : Table!Remove(k))
<1>1. CASE misused
  BY <1>1 DEF Remove, HandleInv
<1>2. CASE ~misused
  <2>1. TableFits
    BY <1>2 DEF HandleInv
  <2>2. \E k \in Table!Made \cup {InvalidHandle} : Table!Remove(k)
    BY <1>2, <2>1, TableRemoves
  <2>3. CASE ~isValid(pool, h)
    <3>1. pool' = pool /\ (misused' <=> misused)
      BY <1>2, <2>3 DEF Remove, remove, OfFreeSlot
    <3>2. table' = table
      <4>1. ASSUME h \in Made PROVE table[h] = NoObject
        <5>1. Table!Found(h) = NoObject
          BY <2>1, <2>3, LookupIs DEF lookup
        <5> QED BY <4>1, <5>1 DEF Table!Found, Table!Made, Made
      <4>2. table' = [k \in Made |-> IF k = h THEN NoObject ELSE table[k]]
        BY <1>2, <2>1, TableRemoves
      <4> QED BY <2>1, <4>1, <4>2 DEF TableFits
    <3>3. HandleInv'
      BY <3>1, <3>2, FitsSame
    <3> QED BY <2>2, <3>3
  <2>4. CASE isValid(pool, h) /\ ~Odd(h.generation)
    <3>1. h.generation % 2 = 0
      BY <2>4, PresentedIs DEF Odd
    <3>2. misused'
      BY <2>4, <3>1 DEF Remove, OfFreeSlot
    <3> QED BY <2>2, <3>2 DEF HandleInv
  <2>5. CASE isValid(pool, h) /\ Odd(h.generation)
    BY <1>2, <2>1, <2>2, <2>5, RemoveFits DEF HandleInv
  <2> QED BY <2>3, <2>4, <2>5
<1> QED BY <1>1, <1>2

LEMMA LookupHolds ==
    ASSUME HandleInv, NEW h \in Presented, Lookup(h)
    PROVE  HandleInv' /\ (misused \/ \E k \in Table!Made \cup {InvalidHandle} : Table!Lookup(k))
<1>1. pool' = pool /\ table' = table /\ misused' = misused /\ result' = lookup(pool, h)
  BY DEF Lookup
<1>2. HandleInv'
  BY <1>1, FitsSame
<1>3. CASE misused
  BY <1>2, <1>3
<1>4. CASE ~misused
  <2>1. TableFits /\ result' = Table!Found(h)
    BY <1>1, <1>4, LookupIs DEF HandleInv
  <2>2. CASE h \in Made
    BY <1>1, <1>2, <2>1, <2>2 DEF Table!Lookup, Table!Made, Made
  <2>3. CASE h \notin Made
    <3>1. InvalidHandle \notin Made
      BY <2>1, MadeHandles
    <3>2. Table!Found(h) = Table!Found(InvalidHandle)
      BY <2>3, <3>1 DEF Table!Found, Table!Made, Made
    <3> QED BY <1>1, <1>2, <2>1, <3>2 DEF Table!Lookup
  <2> QED BY <2>2, <2>3
<1> QED BY <1>3, <1>4

-----------------------------------------------------------------------------
(* Whatever callers add, and whatever words they present to remove() and    *)
(* lookup(), stale, forged or zero, a handle of pool.h leads to the object   *)
(* it was made for until that is removed and to nothing afterwards, and is  *)
(* made again only when its slot has used up its generations; until         *)
(* somebody removes through the handle of a free slot.                      *)
THEOREM PoolImplementsTable == Spec => ImplementsTable
<1>1. Init => HandleInv /\ Table!Init
  BY InitHolds
<1>2. HandleInv /\ [Next]_vars => HandleInv' /\ [misused \/ Table!Next]_<<table, result>>
  <2> SUFFICES ASSUME HandleInv, [Next]_vars
               PROVE  HandleInv' /\ [misused \/ Table!Next]_<<table, result>>
    OBVIOUS
  <2>1. CASE UNCHANGED vars
    <3>1. pool' = pool /\ table' = table /\ result' = result /\ misused' = misused
      BY <2>1 DEF vars
    <3>2. HandleInv'
      BY <3>1, FitsSame
    <3> QED BY <3>1, <3>2
  <2>2. ASSUME NEW o \in Object, Add(o) PROVE HandleInv' /\ (misused \/ Table!Next)
    BY <2>2, AddHolds DEF Table!Next
  <2>3. ASSUME NEW h \in Presented, Remove(h) PROVE HandleInv' /\ (misused \/ Table!Next)
    BY <2>3, RemoveHolds DEF Table!Next
  <2>4. ASSUME NEW h \in Presented, Lookup(h) PROVE HandleInv' /\ (misused \/ Table!Next)
    BY <2>4, LookupHolds DEF Table!Next
  <2> QED BY <2>1, <2>2, <2>3, <2>4 DEF Next
<1> QED BY <1>1, <1>2, PTL DEF Spec, ImplementsTable
=============================================================================
