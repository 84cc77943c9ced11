-------------------------- MODULE DecoderApi_proof --------------------------
(***************************************************************************)
(* Locks and pictures agree, pictures in the pipeline keep their handles,  *)
(* and events are delivered in order and none is lost, for any number of   *)
(* threads, decoders, pictures and calls.                                  *)
(***************************************************************************)
EXTENDS DecoderApi, HandlePool_proof, FiniteSetTheorems

Lying == {"nowhere", "idle"}
Place == Lying \cup InPipeline \cup {"baseDone", "outputDone"}
PictureCall == {"free", "lock", "sendBase", "sendPicture"}

(* The pictures and locks of one decoder: its two pools, where each picture *)
(* is, the handle it was sent with, and which have a lock.                  *)
ShelfOK(pics, locks, where, sent, held) ==
    /\ PoolOK(pics, PictureCapacity, Picture) /\ Unique(pics)
    /\ PoolOK(locks, LockCapacity, Picture) /\ Unique(locks)
    /\ where \in [Picture -> Place] /\ sent \in [Picture -> Word] /\ held \subseteq Picture
    /\ \A p \in Picture : Holds(pics, p) => where[p] # "nowhere"
    /\ \A p \in Picture : where[p] \notin Lying => Leads(pics, sent[p], p)
    /\ \A p \in Picture : p \in held <=> Holds(locks, p)
    /\ \A p \in held : Holds(pics, p)

(* A call still to be made of the decoder, with the handle h. *)
CallFits(op, h, pics, locks, where, held) ==
    /\ op \in PictureCall => Returned(pics, h)
    /\ op = "unlock" => Returned(locks, h)
    /\ op = "free" => \/ lookup(pics, h) = NoObject
                      \/ where[lookup(pics, h)] = "idle" /\ lookup(pics, h) \notin held
    /\ op \in {"sendBase", "sendPicture"} => lookup(pics, h) # NoObject /\ where[lookup(pics, h)] = "idle"

-----------------------------------------------------------------------------
(* Pools and calls, as values.                                              *)

LEMMA NoObjectIsNone ==
    /\ NoObject \notin Picture /\ NoObject \notin Context
    /\ PictureCapacity \in Nat /\ LockCapacity \in Nat /\ DecoderCapacity \in Nat
BY ApiAssumption

LEMMA ShelfFields ==
    ASSUME NEW pics, NEW locks, NEW where, NEW sent, NEW held, ShelfOK(pics, locks, where, sent, held)
    PROVE  /\ PoolOK(pics, PictureCapacity, Picture) /\ Unique(pics)
           /\ PoolOK(locks, LockCapacity, Picture) /\ Unique(locks)
           /\ where \in [Picture -> Place] /\ sent \in [Picture -> Word] /\ held \subseteq Picture
           /\ \A p \in Picture : Holds(pics, p) => where[p] # "nowhere"
           /\ \A p \in Picture : where[p] \notin Lying => Leads(pics, sent[p], p)
           /\ \A p \in Picture : p \in held <=> Holds(locks, p)
           /\ \A p \in held : Holds(pics, p)
           /\ DOMAIN pics.generations = 0 .. PictureCapacity - 1
           /\ DOMAIN locks.generations = 0 .. LockCapacity - 1
BY PoolFields, NoObjectIsNone DEF ShelfOK

(* There is a slot for every lock: each belongs to another picture of the   *)
(* pool, which is no larger than the pool of locks.                         *)
LEMMA LocksNeverFull ==
    ASSUME NEW pics, NEW locks, NEW where, NEW sent, NEW held, ShelfOK(pics, locks, where, sent, held),
           NEW p \in Picture, Holds(pics, p), p \notin held
    PROVE  ~Full(locks)
<1> SUFFICES ASSUME Full(locks) PROVE FALSE
  OBVIOUS
<1> DEFINE S == 0 .. LockCapacity - 1
           T == 0 .. PictureCapacity - 1
<1>1. /\ PoolOK(locks, LockCapacity, Picture) /\ Unique(locks) /\ DOMAIN locks.generations = S
      /\ DOMAIN pics.generations = T
      /\ \A x \in Picture : x \in held <=> Holds(locks, x)
      /\ \A x \in held : Holds(pics, x)
      /\ locks.objects \in [S -> Picture \cup {NoObject}]
  BY ShelfFields, PoolFields, NoObjectIsNone
<1>2. ASSUME NEW i \in S PROVE locks.objects[i] \in held
  <2>1. ~OnStack(locks, i)
    BY DEF Full, OnStack
  <2>2. locks.objects[i] # NoObject
    BY <1>1, <2>1, SlotIs, NoObjectIsNone
  <2>3. locks.objects[i] \in Picture
    BY <1>1, <2>2
  <2>4. Holds(locks, locks.objects[i])
    BY <1>1 DEF Holds
  <2> QED BY <1>1, <2>3, <2>4
<1>3. PICK k \in T : pics.objects[k] = p
  BY <1>1 DEF Holds
<1> DEFINE f == [i \in S |-> CHOOSE j \in T : pics.objects[j] = locks.objects[i]]
<1>4. ASSUME NEW i \in S PROVE f[i] \in T /\ pics.objects[f[i]] = locks.objects[i] /\ f[i] # k
  <2>1. \E j \in T : pics.objects[j] = locks.objects[i]
    BY <1>1, <1>2 DEF Holds
  <2>2. f[i] \in T /\ pics.objects[f[i]] = locks.objects[i]
    BY <2>1
  <2>3. locks.objects[i] # p
    BY <1>2
  <2> QED BY <1>3, <2>2, <2>3
<1> HIDE DEF f
<1>5. f \in [S -> T \ {k}]
  BY <1>4 DEF f
<1>6. /\ IsFiniteSet(S) /\ Cardinality(S) = LockCapacity
      /\ IsFiniteSet(T) /\ Cardinality(T) = PictureCapacity
  <2>1. IsFiniteSet(S) /\ Cardinality(S) = LockCapacity
    BY FS_Interval, NoObjectIsNone
  <2>2. IsFiniteSet(T) /\ Cardinality(T) = PictureCapacity
    BY FS_Interval, NoObjectIsNone
  <2> QED BY <2>1, <2>2
<1>7. IsFiniteSet(T \ {k}) /\ Cardinality(T \ {k}) = PictureCapacity - 1
  BY <1>6, FS_RemoveElement
<1>8. Cardinality(T \ {k}) < Cardinality(S)
  BY <1>6, <1>7, ApiAssumption
<1> HIDE DEF S, T
<1>9. PICK i \in S, j \in S : i # j /\ f[i] = f[j]
  BY <1>5, <1>6, <1>7, <1>8, FS_PigeonHole
<1>10. locks.objects[i] = locks.objects[j] /\ locks.objects[i] \in Picture
  <2>1. pics.objects[f[i]] = locks.objects[i]
    BY <1>4
  <2>2. pics.objects[f[j]] = locks.objects[j]
    BY <1>4
  <2>3. locks.objects[i] \in held
    BY <1>2
  <2>4. held \subseteq Picture
    BY ShelfFields
  <2> QED BY <1>9, <2>1, <2>2, <2>3, <2>4
<1> QED BY <1>1, <1>9, <1>10, NoObjectIsNone DEF Unique

-----------------------------------------------------------------------------
(* What each operation does to the shelf, and to the calls of others.       *)

LEMMA AllocShelf ==
    ASSUME NEW pics, NEW locks, NEW where, NEW sent, NEW held, ShelfOK(pics, locks, where, sent, held),
           Unwrapped(pics), NEW p \in Picture, where[p] = "nowhere"
    PROVE  /\ ShelfOK(add(pics, p).pool, locks, [where EXCEPT ![p] = "idle"], sent, held)
           /\ Bumps(pics, add(pics, p).pool)
           /\ \A op, h : CallFits(op, h, pics, locks, where, held)
                 => CallFits(op, h, add(pics, p).pool, locks, [where EXCEPT ![p] = "idle"], held)
<1>0. PICK q, w : q = add(pics, p).pool /\ w = [where EXCEPT ![p] = "idle"]
  OBVIOUS
<1>1. /\ PoolOK(pics, PictureCapacity, Picture) /\ Unique(pics)
      /\ where \in [Picture -> Place] /\ sent \in [Picture -> Word] /\ held \subseteq Picture
      /\ \A x \in Picture : Holds(pics, x) => where[x] # "nowhere"
      /\ \A x \in Picture : where[x] \notin Lying => Leads(pics, sent[x], x)
      /\ \A x \in held : Holds(pics, x)
  BY ShelfFields
<1>2. ~Holds(pics, p) /\ p # NoObject
  BY <1>1, NoObjectIsNone
<1>3. w \in [Picture -> Place] /\ \A x \in Picture : w[x] = IF x = p THEN "idle" ELSE where[x]
  <2>1. "idle" \in Place
    BY DEF Place, Lying
  <2> QED BY <1>0, <1>1, <2>1
<1>4. /\ PoolOK(q, PictureCapacity, Picture) /\ Unique(q) /\ Bumps(pics, q)
      /\ \A x \in Picture : Holds(q, x) => Holds(pics, x) \/ x = p
      /\ \A x \in Picture : Holds(pics, x) => Holds(q, x)
      /\ \A h : Returned(pics, h) => Keeps(pics, q, h)
      /\ \A h \in Word : \A x \in Picture : Leads(pics, h, x) => Leads(q, h, x)
  <2>1. CASE Full(pics)
    <3>1. q = pics
      BY <1>0, <2>1 DEF add
    <3>2. \A h : Returned(pics, h) => Keeps(pics, q, h)
      BY <3>1 DEF Keeps
    <3> QED BY <1>1, <3>1, <3>2, SamePool, NoObjectIsNone
  <2>2. CASE ~Full(pics)
    BY <1>0, <1>1, <1>2, <2>2, AddKeeps, NoObjectIsNone
  <2> QED BY <2>1, <2>2
<1>5. ShelfOK(q, locks, w, sent, held)
  <2>1. ASSUME NEW x \in Picture, Holds(q, x) PROVE w[x] # "nowhere"
    BY <1>1, <1>3, <1>4, <2>1
  <2>2. ASSUME NEW x \in Picture, w[x] \notin Lying PROVE Leads(q, sent[x], x)
    <3>1. x # p
      BY <1>3, <2>2 DEF Lying
    <3>2. where[x] \notin Lying /\ sent[x] \in Word
      BY <1>1, <1>3, <2>2, <3>1
    <3> QED BY <1>1, <1>4, <3>2
  <2>3. ASSUME NEW x \in held PROVE Holds(q, x)
    BY <1>1, <1>4
  <2> QED BY <1>3, <1>4, <2>1, <2>2, <2>3 DEF ShelfOK
<1>6. ASSUME NEW op, NEW h, CallFits(op, h, pics, locks, where, held) PROVE CallFits(op, h, q, locks, w, held)
  <2>1. ASSUME op \in PictureCall
        PROVE  Returned(q, h) /\ lookup(q, h) = lookup(pics, h)
               /\ (lookup(pics, h) # NoObject => w[lookup(pics, h)] = where[lookup(pics, h)])
    <3>1. Returned(pics, h)
      BY <1>6, <2>1 DEF CallFits
    <3>2. Keeps(pics, q, h)
      BY <1>4, <3>1
    <3>3. ASSUME lookup(pics, h) # NoObject PROVE lookup(pics, h) \in Picture /\ lookup(pics, h) # p
      <4>1. lookup(pics, h) \in Picture
        BY <1>1, <3>1, <3>3, ReturnedFinds, NoObjectIsNone
      <4>2. Holds(pics, lookup(pics, h))
        BY <3>3, LookupLeads
      <4> QED BY <1>2, <4>1, <4>2
    <3> QED BY <1>3, <3>2, <3>3 DEF Keeps
  <2> QED BY <1>6, <2>1 DEF CallFits, PictureCall
<1> QED BY <1>0, <1>4, <1>5, <1>6

(* A picture, if there is one, goes from its pool. *)
LEMMA FreeShelf ==
    ASSUME NEW pics, NEW locks, NEW where, NEW sent, NEW held, ShelfOK(pics, locks, where, sent, held),
           Unwrapped(pics), NEW h, CallFits("free", h, pics, locks, where, held),
           NEW w, w = IF lookup(pics, h) = NoObject THEN where ELSE [where EXCEPT ![lookup(pics, h)] = "nowhere"]
    PROVE  /\ ShelfOK(remove(pics, h), locks, w, sent, held)
           /\ Bumps(pics, remove(pics, h))
           /\ \A op, k : CallFits(op, k, pics, locks, where, held) /\ (op \in PictureCall => k # h)
                 => CallFits(op, k, remove(pics, h), locks, w, held)
<1>0. PICK q, p : q = remove(pics, h) /\ p = lookup(pics, h)
  OBVIOUS
<1>1. /\ PoolOK(pics, PictureCapacity, Picture) /\ Unique(pics)
      /\ where \in [Picture -> Place] /\ sent \in [Picture -> Word] /\ held \subseteq Picture
      /\ \A x \in Picture : Holds(pics, x) => where[x] # "nowhere"
      /\ \A x \in Picture : where[x] \notin Lying => Leads(pics, sent[x], x)
      /\ \A x \in held : Holds(pics, x)
  BY ShelfFields
<1>2. Returned(pics, h) /\ (p # NoObject => where[p] = "idle" /\ p \notin held)
  BY <1>0 DEF CallFits, PictureCall
<1>3. p \in Picture \cup {NoObject} /\ (p # NoObject <=> isValid(pics, h))
  BY <1>0, <1>1, <1>2, ReturnedFinds, NoObjectIsNone
<1>4. CASE p = NoObject
  <2>1. q = pics /\ w = where
    BY <1>0, <1>3, <1>4 DEF remove
  <2>2. Bumps(pics, pics)
    BY <1>1, SamePool, NoObjectIsNone
  <2> QED BY <1>0, <2>1, <2>2
<1>5. CASE p # NoObject
  <2>1. p \in Picture /\ isValid(pics, h)
    BY <1>3, <1>5
  <2>2. w \in [Picture -> Place] /\ \A x \in Picture : w[x] = IF x = p THEN "nowhere" ELSE where[x]
    <3>1. "nowhere" \in Place
      BY DEF Place, Lying
    <3>2. w = [where EXCEPT ![p] = "nowhere"]
      BY <1>0, <1>5
    <3> QED BY <1>1, <2>1, <3>1, <3>2
  <2>3. /\ PoolOK(q, PictureCapacity, Picture) /\ Unique(q) /\ Bumps(pics, q)
        /\ \A x \in Picture : Holds(q, x) <=> Holds(pics, x) /\ x # p
        /\ \A k : Returned(pics, k) /\ k # h => Keeps(pics, q, k)
        /\ \A k \in Word : \A x \in Picture : Leads(pics, k, x) /\ x # p => Leads(q, k, x)
    BY <1>0, <1>1, <1>2, <2>1, RemoveKeeps, NoObjectIsNone
  <2>4. ShelfOK(q, locks, w, sent, held)
    <3>1. ASSUME NEW x \in Picture, Holds(q, x) PROVE w[x] # "nowhere"
      BY <1>1, <2>2, <2>3, <3>1
    <3>2. ASSUME NEW x \in Picture, w[x] \notin Lying PROVE Leads(q, sent[x], x)
      <4>1. x # p
        BY <2>2, <3>2 DEF Lying
      <4>2. where[x] \notin Lying /\ sent[x] \in Word
        BY <1>1, <2>2, <3>2, <4>1
      <4> QED BY <1>1, <2>3, <4>1, <4>2
    <3>3. ASSUME NEW x \in held PROVE Holds(q, x)
      BY <1>1, <1>2, <1>5, <2>3
    <3> QED BY <2>2, <2>3, <3>1, <3>2, <3>3 DEF ShelfOK
  <2>5. ASSUME NEW op, NEW k, CallFits(op, k, pics, locks, where, held), op \in PictureCall => k # h
        PROVE  CallFits(op, k, q, locks, w, held)
    <3>1. ASSUME op \in PictureCall
          PROVE  Returned(q, k) /\ lookup(q, k) = lookup(pics, k)
                 /\ (lookup(pics, k) # NoObject => w[lookup(pics, k)] = where[lookup(pics, k)])
      <4>1. Returned(pics, k) /\ k # h
        BY <2>5, <3>1 DEF CallFits
      <4>2. Keeps(pics, q, k)
        BY <2>3, <4>1
      <4>3. ASSUME lookup(pics, k) # NoObject PROVE lookup(pics, k) \in Picture /\ lookup(pics, k) # p
        <5>1. lookup(pics, k) \in Picture /\ Leads(pics, k, lookup(pics, k))
          BY <1>1, <4>1, <4>3, ReturnedFinds, NoObjectIsNone
        <5>2. Leads(pics, h, p)
          BY <1>0, <1>5, LookupLeads
        <5>3. h \in Word /\ k \in Word
          BY <1>2, <4>1 DEF Returned
        <5> QED BY <1>1, <1>5, <4>1, <5>1, <5>2, <5>3, OneHandle
      <4> QED BY <2>2, <4>2, <4>3 DEF Keeps
    <3> QED BY <2>5, <3>1 DEF CallFits, PictureCall
  <2> QED BY <1>0, <2>3, <2>4, <2>5
<1> QED BY <1>4, <1>5

(* A picture that has no lock gets one, and there is a slot for it. *)
LEMMA LockShelf ==
    ASSUME NEW pics, NEW locks, NEW where, NEW sent, NEW held, ShelfOK(pics, locks, where, sent, held),
           Unwrapped(locks), NEW p \in Picture, Holds(pics, p), p \notin held,
           NEW h, lookup(pics, h) = p
    PROVE  /\ ShelfOK(pics, add(locks, p).pool, where, sent, held \cup {p})
           /\ Bumps(locks, add(locks, p).pool)
           /\ \A op, k : CallFits(op, k, pics, locks, where, held) /\ (op \in PictureCall => k # h)
                         /\ Returned(pics, h)
                 => CallFits(op, k, pics, add(locks, p).pool, where, held \cup {p})
<1>0. PICK q : q = add(locks, p).pool
  OBVIOUS
<1>1. /\ PoolOK(pics, PictureCapacity, Picture) /\ Unique(pics)
      /\ PoolOK(locks, LockCapacity, Picture) /\ Unique(locks)
      /\ where \in [Picture -> Place] /\ sent \in [Picture -> Word] /\ held \subseteq Picture
      /\ \A x \in Picture : Holds(pics, x) => where[x] # "nowhere"
      /\ \A x \in Picture : where[x] \notin Lying => Leads(pics, sent[x], x)
      /\ \A x \in Picture : x \in held <=> Holds(locks, x)
      /\ \A x \in held : Holds(pics, x)
  BY ShelfFields
<1>2. ~Full(locks) /\ ~Holds(locks, p) /\ p # NoObject
  BY <1>1, LocksNeverFull, NoObjectIsNone
<1>3. /\ PoolOK(q, LockCapacity, Picture) /\ Unique(q) /\ Bumps(locks, q)
      /\ \A x \in Picture : Holds(q, x) <=> Holds(locks, x) \/ x = p
      /\ \A k : Returned(locks, k) => Keeps(locks, q, k)
  BY <1>0, <1>1, <1>2, AddKeeps, NoObjectIsNone
<1>4. ShelfOK(pics, q, where, sent, held \cup {p})
  <2>1. \A x \in Picture : x \in held \cup {p} <=> Holds(q, x)
    BY <1>1, <1>3
  <2>2. held \cup {p} \subseteq Picture /\ \A x \in held \cup {p} : Holds(pics, x)
    BY <1>1
  <2> QED BY <1>1, <1>3, <2>1, <2>2 DEF ShelfOK
<1>5. ASSUME NEW op, NEW k, CallFits(op, k, pics, locks, where, held), op \in PictureCall => k # h,
             Returned(pics, h)
      PROVE  CallFits(op, k, pics, q, where, held \cup {p})
  <2>1. ASSUME op = "unlock" PROVE Returned(q, k)
    BY <1>3, <1>5, <2>1 DEF CallFits, Keeps
  <2>2. ASSUME op = "free", lookup(pics, k) # NoObject PROVE lookup(pics, k) # p
    <3>1. Returned(pics, k) /\ k # h
      BY <1>5, <2>2 DEF CallFits, PictureCall
    <3>2. Leads(pics, h, p) /\ Leads(pics, k, lookup(pics, k))
      BY <1>2, <2>2, LookupLeads
    <3>3. h \in Word /\ k \in Word
      BY <1>5, <3>1 DEF Returned
    <3> QED BY <1>1, <1>2, <3>1, <3>2, <3>3, OneHandle
  <2> QED BY <1>5, <2>1, <2>2 DEF CallFits
<1> QED BY <1>0, <1>3, <1>4, <1>5

LEMMA UnlockShelf ==
    ASSUME NEW pics, NEW locks, NEW where, NEW sent, NEW held, ShelfOK(pics, locks, where, sent, held),
           Unwrapped(locks), NEW h, Returned(locks, h)
    PROVE  /\ ShelfOK(pics, remove(locks, h), where, sent, held \ {lookup(locks, h)})
           /\ Bumps(locks, remove(locks, h))
           /\ \A op, k : CallFits(op, k, pics, locks, where, held)
                 => CallFits(op, k, pics, remove(locks, h), where, held \ {lookup(locks, h)})
<1>0. PICK q, p : q = remove(locks, h) /\ p = lookup(locks, h)
  OBVIOUS
<1>1. /\ PoolOK(pics, PictureCapacity, Picture) /\ Unique(pics)
      /\ PoolOK(locks, LockCapacity, Picture) /\ Unique(locks)
      /\ where \in [Picture -> Place] /\ sent \in [Picture -> Word] /\ held \subseteq Picture
      /\ \A x \in Picture : Holds(pics, x) => where[x] # "nowhere"
      /\ \A x \in Picture : where[x] \notin Lying => Leads(pics, sent[x], x)
      /\ \A x \in Picture : x \in held <=> Holds(locks, x)
      /\ \A x \in held : Holds(pics, x)
  BY ShelfFields
<1>2. p \in Picture \cup {NoObject} /\ (p # NoObject <=> isValid(locks, h))
  BY <1>0, <1>1, ReturnedFinds, NoObjectIsNone
<1>3. /\ PoolOK(q, LockCapacity, Picture) /\ Unique(q) /\ Bumps(locks, q)
      /\ \A x \in Picture : Holds(q, x) <=> Holds(locks, x) /\ x # p
      /\ \A k : Returned(locks, k) => Returned(q, k)
  <2>1. CASE p = NoObject
    <3>1. q = locks
      BY <1>0, <1>2, <2>1 DEF remove
    <3> QED BY <1>1, <2>1, <3>1, SamePool, NoObjectIsNone
  <2>2. CASE p # NoObject
    <3>1. isValid(locks, h)
      BY <1>2, <2>2
    <3>2. /\ PoolOK(q, LockCapacity, Picture) /\ Unique(q) /\ Bumps(locks, q)
          /\ \A x \in Picture : Holds(q, x) <=> Holds(locks, x) /\ x # p
          /\ \A k : Returned(locks, k) /\ k # h => Keeps(locks, q, k)
          /\ Returned(q, h)
      BY <1>0, <1>1, <3>1, RemoveKeeps, NoObjectIsNone
    <3> QED BY <3>2 DEF Keeps
  <2> QED BY <2>1, <2>2
<1>4. ShelfOK(pics, q, where, sent, held \ {p})
  <2>1. \A x \in Picture : x \in held \ {p} <=> Holds(q, x)
    BY <1>1, <1>3
  <2>2. held \ {p} \subseteq Picture /\ \A x \in held \ {p} : Holds(pics, x)
    BY <1>1
  <2> QED BY <1>1, <1>3, <2>1, <2>2 DEF ShelfOK
<1>5. ASSUME NEW op, NEW k, CallFits(op, k, pics, locks, where, held)
      PROVE  CallFits(op, k, pics, q, where, held \ {p})
  BY <1>3, <1>5 DEF CallFits
<1> QED BY <1>0, <1>3, <1>4, <1>5

(* A picture is sent, with a handle nobody else presents. *)
Sends(h, pics, locks, where, sent, held, w, s) ==
    /\ ShelfOK(pics, locks, where, sent, held)
    /\ \E op \in {"sendBase", "sendPicture"} : CallFits(op, h, pics, locks, where, held)
    /\ \E place \in Place \ {"nowhere"} : w = [where EXCEPT ![lookup(pics, h)] = place]
    /\ s = [sent EXCEPT ![lookup(pics, h)] = h]

LEMMA SendShelf ==
    ASSUME NEW h, NEW pics, NEW locks, NEW where, NEW sent, NEW held, NEW w, NEW s,
           Sends(h, pics, locks, where, sent, held, w, s)
    PROVE  /\ ShelfOK(pics, locks, w, s, held)
           /\ \A o, k : CallFits(o, k, pics, locks, where, held) /\ (o \in PictureCall => k # h)
                 => CallFits(o, k, pics, locks, w, held)
<1>p. PICK p : p = lookup(pics, h)
  OBVIOUS
<1>0. PICK place \in Place \ {"nowhere"} : w = [where EXCEPT ![p] = place] /\ s = [sent EXCEPT ![p] = h]
  BY <1>p DEF Sends
<1>1. /\ PoolOK(pics, PictureCapacity, Picture) /\ Unique(pics)
      /\ where \in [Picture -> Place] /\ sent \in [Picture -> Word] /\ held \subseteq Picture
      /\ \A x \in Picture : Holds(pics, x) => where[x] # "nowhere"
      /\ \A x \in Picture : where[x] \notin Lying => Leads(pics, sent[x], x)
      /\ \A x \in held : Holds(pics, x)
      /\ ShelfOK(pics, locks, where, sent, held)
  BY ShelfFields DEF Sends
<1>2. Returned(pics, h) /\ p # NoObject /\ h \in Word
  BY <1>p DEF Sends, CallFits, PictureCall, Returned
<1>3. p \in Picture /\ Leads(pics, h, p)
  BY <1>p, <1>1, <1>2, ReturnedFinds, NoObjectIsNone
<1>4. /\ w \in [Picture -> Place] /\ s \in [Picture -> Word]
      /\ \A x \in Picture : w[x] = (IF x = p THEN place ELSE where[x]) /\ s[x] = (IF x = p THEN h ELSE sent[x])
  BY <1>0, <1>1, <1>2, <1>3
<1>5. ShelfOK(pics, locks, w, s, held)
  <2>1. ASSUME NEW x \in Picture, Holds(pics, x) PROVE w[x] # "nowhere"
    BY <1>1, <1>4, <2>1
  <2>2. ASSUME NEW x \in Picture, w[x] \notin Lying PROVE Leads(pics, s[x], x)
    BY <1>1, <1>3, <1>4, <2>2
  <2> QED BY <1>1, <1>4, <2>1, <2>2 DEF ShelfOK
<1>6. ASSUME NEW o, NEW k, CallFits(o, k, pics, locks, where, held), o \in PictureCall => k # h
      PROVE  CallFits(o, k, pics, locks, w, held)
  <2>1. ASSUME o \in PictureCall, lookup(pics, k) # NoObject
        PROVE  w[lookup(pics, k)] = where[lookup(pics, k)]
    <3>1. Returned(pics, k) /\ k # h /\ k \in Word
      BY <1>6, <2>1 DEF CallFits, Returned
    <3>2. lookup(pics, k) \in Picture /\ Leads(pics, k, lookup(pics, k))
      BY <1>1, <2>1, <3>1, ReturnedFinds, NoObjectIsNone
    <3>3. lookup(pics, k) # p
      BY <1>1, <1>2, <1>3, <3>1, <3>2, OneHandle
    <3> QED BY <1>4, <3>2, <3>3
  <2> QED BY <1>6, <2>1 DEF CallFits, PictureCall
<1> QED BY <1>5, <1>6

(* A picture comes back from the pipeline. *)
LEMMA ReceiveShelf ==
    ASSUME NEW pics, NEW locks, NEW where, NEW sent, NEW held, ShelfOK(pics, locks, where, sent, held),
           NEW p \in Picture
    PROVE  /\ ShelfOK(pics, locks, [where EXCEPT ![p] = "idle"], sent, held)
           /\ \A op, h : CallFits(op, h, pics, locks, where, held)
                 => CallFits(op, h, pics, locks, [where EXCEPT ![p] = "idle"], held)
<1>0. PICK w : w = [where EXCEPT ![p] = "idle"]
  OBVIOUS
<1>1. /\ PoolOK(pics, PictureCapacity, Picture)
      /\ where \in [Picture -> Place]
      /\ \A x \in Picture : Holds(pics, x) => where[x] # "nowhere"
      /\ \A x \in Picture : where[x] \notin Lying => Leads(pics, sent[x], x)
  BY ShelfFields
<1>2. w \in [Picture -> Place] /\ \A x \in Picture : w[x] = IF x = p THEN "idle" ELSE where[x]
  <2>1. "idle" \in Place
    BY DEF Place, Lying
  <2> QED BY <1>0, <1>1, <2>1
<1>3. ShelfOK(pics, locks, w, sent, held)
  <2>1. ASSUME NEW x \in Picture, Holds(pics, x) PROVE w[x] # "nowhere"
    BY <1>1, <1>2, <2>1
  <2>2. ASSUME NEW x \in Picture, w[x] \notin Lying PROVE Leads(pics, sent[x], x)
    BY <1>1, <1>2, <2>2 DEF Lying
  <2> QED BY <1>2, <2>1, <2>2 DEF ShelfOK
<1>4. ASSUME NEW op, NEW h, CallFits(op, h, pics, locks, where, held) PROVE CallFits(op, h, pics, locks, w, held)
  <2>1. ASSUME op \in PictureCall, lookup(pics, h) # NoObject
        PROVE  where[lookup(pics, h)] = "idle" => w[lookup(pics, h)] = "idle"
    <3>1. Returned(pics, h)
      BY <1>4, <2>1 DEF CallFits
    <3>2. lookup(pics, h) \in Picture
      BY <1>1, <2>1, <3>1, ReturnedFinds, NoObjectIsNone
    <3> QED BY <1>2, <3>2
  <2> QED BY <1>4, <2>1 DEF CallFits, PictureCall
<1> QED BY <1>0, <1>3, <1>4

(* A picture moves within the pipeline. *)
LEMMA MoveShelf ==
    ASSUME NEW pics, NEW locks, NEW where, NEW sent, NEW held, ShelfOK(pics, locks, where, sent, held),
           NEW p \in Picture, where[p] \notin Lying, NEW place \in Place \ Lying
    PROVE  /\ ShelfOK(pics, locks, [where EXCEPT ![p] = place], sent, held)
           /\ \A op, h : CallFits(op, h, pics, locks, where, held)
                 => CallFits(op, h, pics, locks, [where EXCEPT ![p] = place], held)
<1>0. PICK w : w = [where EXCEPT ![p] = place]
  OBVIOUS
<1>1. /\ PoolOK(pics, PictureCapacity, Picture)
      /\ where \in [Picture -> Place]
      /\ \A x \in Picture : Holds(pics, x) => where[x] # "nowhere"
      /\ \A x \in Picture : where[x] \notin Lying => Leads(pics, sent[x], x)
  BY ShelfFields
<1>2. w \in [Picture -> Place] /\ \A x \in Picture : w[x] = IF x = p THEN place ELSE where[x]
  BY <1>0, <1>1
<1>3. ShelfOK(pics, locks, w, sent, held)
  <2>1. ASSUME NEW x \in Picture, Holds(pics, x) PROVE w[x] # "nowhere"
    BY <1>1, <1>2, <2>1 DEF Lying
  <2>2. ASSUME NEW x \in Picture, w[x] \notin Lying PROVE Leads(pics, sent[x], x)
    BY <1>1, <1>2, <2>2
  <2> QED BY <1>2, <2>1, <2>2 DEF ShelfOK
<1>4. ASSUME NEW op, NEW h, CallFits(op, h, pics, locks, where, held) PROVE CallFits(op, h, pics, locks, w, held)
  <2>1. ASSUME op \in PictureCall, lookup(pics, h) # NoObject
        PROVE  where[lookup(pics, h)] = "idle" => w[lookup(pics, h)] = "idle"
    <3>1. Returned(pics, h)
      BY <1>4, <2>1 DEF CallFits
    <3>2. lookup(pics, h) \in Picture
      BY <1>1, <2>1, <3>1, ReturnedFinds, NoObjectIsNone
    <3> QED BY <1>2, <3>2 DEF Lying
  <2> QED BY <1>4, <2>1 DEF CallFits, PictureCall
<1> QED BY <1>0, <1>3, <1>4

LEMMA EmptyShelf ==
    ASSUME NEW sent \in [Picture -> Word]
    PROVE  ShelfOK(NewPool(PictureCapacity), NewPool(LockCapacity), [p \in Picture |-> "nowhere"], sent, {})
<1>1. PICK pics, locks : pics = NewPool(PictureCapacity) /\ locks = NewPool(LockCapacity)
  OBVIOUS
<1>2. /\ PoolOK(pics, PictureCapacity, Picture) /\ Unique(pics)
      /\ \A p \in Picture : ~Holds(pics, p)
  BY <1>1, EmptyPool, NoObjectIsNone
<1>3. /\ PoolOK(locks, LockCapacity, Picture) /\ Unique(locks)
      /\ \A p \in Picture : ~Holds(locks, p)
  BY <1>1, EmptyPool, NoObjectIsNone
<1>4. "nowhere" \in Place /\ "nowhere" \in Lying
  BY DEF Place, Lying
<1> QED BY <1>1, <1>2, <1>3, <1>4 DEF ShelfOK

-----------------------------------------------------------------------------
(* What the shelf shows. *)
LEMMA ShelfShows ==
    ASSUME NEW pics, NEW locks, NEW where, NEW sent, NEW held, ShelfOK(pics, locks, where, sent, held),
           NEW p \in Picture
    PROVE  /\ Cardinality({i \in Slots(locks) : locks.objects[i] = p}) = (IF p \in held THEN 1 ELSE 0)
           /\ p \in held => where[p] # "nowhere"
<1>1. /\ Unique(locks)
      /\ \A x \in Picture : Holds(pics, x) => where[x] # "nowhere"
      /\ \A x \in Picture : x \in held <=> Holds(locks, x)
      /\ \A x \in held : Holds(pics, x)
  BY ShelfFields
<1>2. ASSUME p \in held PROVE Cardinality({i \in Slots(locks) : locks.objects[i] = p}) = 1
  <2>1. PICK i \in DOMAIN locks.generations : locks.objects[i] = p
    BY <1>1, <1>2 DEF Holds
  <2>2. {j \in Slots(locks) : locks.objects[j] = p} = {i}
    BY <1>1, <2>1, NoObjectIsNone DEF Unique, Slots
  <2>3. Cardinality({i}) = 1
    BY FS_Singleton
  <2> QED BY <2>2, <2>3
<1>3. ASSUME p \notin held PROVE Cardinality({i \in Slots(locks) : locks.objects[i] = p}) = 0
  <2>1. {j \in Slots(locks) : locks.objects[j] = p} = {}
    BY <1>1, <1>3 DEF Holds, Slots
  <2> QED BY <2>1, FS_EmptySet
<1> QED BY <1>1, <1>2, <1>3

LEMMA SentShows ==
    ASSUME NEW pics, NEW locks, NEW where, NEW sent, NEW held, ShelfOK(pics, locks, where, sent, held),
           NEW p \in Picture, where[p] \notin Lying
    PROVE  reverseLookup(pics, p) = sent[p]
<1>1. /\ Unique(pics) /\ sent \in [Picture -> Word] /\ Leads(pics, sent[p], p)
      /\ DOMAIN pics.generations = 0 .. PictureCapacity - 1
  BY ShelfFields
<1>2. sent[p] \in Word
  BY <1>1
<1>3. DOMAIN pics.generations \subseteq Nat
  BY <1>1, NoObjectIsNone
<1> QED BY <1>1, <1>2, <1>3, FoundBack, NoObjectIsNone

-----------------------------------------------------------------------------
(* The events of one decoder.                                               *)
EventRec == [type : {"none", "CanSend", "BasePictureDone", "OutputPictureDone", "CanReceive", "Exit", "Flush"},
             picture : Picture \cup {NoObject}]
ThreadRec == [pc : {"wait", "resolve", "callback", "exited"}, event : EventRec]
Flush == Event("Flush", NoObject)
InHand(th) == IF th.pc = "resolve" THEN <<th.event>> ELSE <<>>
Real(s) == \A k \in DOMAIN s : s[k].type # "Flush"

(* What is queued beside the last event, which is queued when the decoder's *)
(* life is at "joining" and ends the thread once the queue is empty.        *)
QueueIs(lf, q, th, rest) ==
    /\ rest \in Seq(EventRec) /\ Real(rest)
    /\ lf \notin {"joining", "freed"} => q = rest /\ th.pc # "exited"
    /\ lf = "joining" => \/ q = Append(rest, Flush) /\ th.pc # "exited"
                         \/ q = <<>> /\ rest = <<>> /\ th.pc = "exited"
    /\ lf = "freed" => q = <<>> /\ rest = <<>> /\ th.pc = "exited"

StreamOK(lf, q, th, gen, del) ==
    /\ gen \in Seq(EventRec) /\ del \in Seq(EventRec) /\ th \in ThreadRec
    /\ \E rest : QueueIs(lf, q, th, rest) /\ gen = (del \o InHand(th)) \o rest

LEMMA EventIs ==
    ASSUME NEW e \in EventRec
    PROVE  /\ <<e>> \in Seq(EventRec) /\ Len(<<e>>) = 1 /\ <<e>>[1] = e
           /\ e.picture \in Picture \cup {NoObject}
<1>1. /\ <<e>> \in Seq(EventRec) /\ Len(<<e>>) = 1 /\ <<e>>[1] = e
  OBVIOUS
<1>2. e.picture \in Picture \cup {NoObject}
  BY DEF EventRec
<1> QED BY <1>1, <1>2

LEMMA Associate ==
    ASSUME NEW s \in Seq(EventRec), NEW t \in Seq(EventRec), NEW u \in Seq(EventRec)
    PROVE  (s \o t) \o u = s \o (t \o u)
OBVIOUS

LEMMA FlushIs ==
    Flush \in EventRec /\ Flush.type = "Flush" /\ Flush.picture = NoObject
BY DEF Flush, Event, EventRec

LEMMA InHandIs ==
    ASSUME NEW th \in ThreadRec
    PROVE  InHand(th) \in Seq(EventRec)
<1>1. th.event \in EventRec
  BY DEF ThreadRec
<1> QED BY <1>1, EventIs DEF InHand

LEMMA GenerateStream ==
    ASSUME NEW lf, lf \notin {"joining", "freed"}, NEW q, NEW th, NEW gen, NEW del,
           StreamOK(lf, q, th, gen, del),
           NEW events \in Seq(EventRec), Real(events)
    PROVE  StreamOK(lf, q \o events, th, gen \o events, del)
<1>1. PICK rest : QueueIs(lf, q, th, rest) /\ gen = (del \o InHand(th)) \o rest
  BY DEF StreamOK
<1>2. /\ gen \in Seq(EventRec) /\ del \in Seq(EventRec) /\ th \in ThreadRec /\ InHand(th) \in Seq(EventRec)
      /\ rest \in Seq(EventRec) /\ Real(rest) /\ q = rest /\ th.pc # "exited"
  BY <1>1, InHandIs DEF StreamOK, QueueIs
<1>3. PICK r : r = rest \o events
  OBVIOUS
<1>4. /\ r \in Seq(EventRec) /\ Len(r) = Len(rest) + Len(events)
      /\ \A i \in 1 .. Len(rest) + Len(events) :
            r[i] = IF i <= Len(rest) THEN rest[i] ELSE events[i - Len(rest)]
  BY <1>2, <1>3, ConcatProperties
<1>5. Real(r)
  <2>1. ASSUME NEW k \in 1 .. Len(rest) + Len(events) PROVE r[k].type # "Flush"
    <3>1. CASE k <= Len(rest)
      <4>1. k \in DOMAIN rest /\ r[k] = rest[k]
        BY <1>2, <1>4, <3>1, LenProperties
      <4> QED BY <1>2, <4>1 DEF Real
    <3>2. CASE ~(k <= Len(rest))
      <4>1. k - Len(rest) \in DOMAIN events /\ r[k] = events[k - Len(rest)]
        BY <1>2, <1>4, <3>2, LenProperties
      <4> QED BY <4>1 DEF Real
    <3> QED BY <3>1, <3>2
  <2>2. DOMAIN r = 1 .. Len(rest) + Len(events)
    BY <1>4, LenProperties
  <2> QED BY <2>1, <2>2 DEF Real
<1>6. QueueIs(lf, q \o events, th, r)
  BY <1>2, <1>3, <1>4, <1>5 DEF QueueIs
<1>7. gen \o events = (del \o InHand(th)) \o r
  <2>1. PICK s : s = del \o InHand(th)
    OBVIOUS
  <2>2. s \in Seq(EventRec)
    BY <1>2, <2>1, ConcatProperties
  <2>3. rest \in Seq(EventRec)
    BY <1>2
  <2>4. (s \o rest) \o events = s \o (rest \o events)
    BY <2>2, <2>3, Associate
  <2> QED BY <1>1, <1>3, <2>1, <2>4
<1>8. gen \o events \in Seq(EventRec)
  BY <1>2, ConcatProperties
<1> QED BY <1>2, <1>6, <1>7, <1>8 DEF StreamOK

(* The next event is taken; one without a picture is delivered at once. *)
Taken(e) == [pc |-> CASE e.type = "Flush" -> "exited" [] e.picture # NoObject -> "resolve" [] OTHER -> "callback",
             event |-> e]
HandedOn(e, del) == IF e.type # "Flush" /\ e.picture = NoObject THEN Append(del, e) ELSE del

LEMMA NextStream ==
    ASSUME NEW lf, NEW q, NEW th, NEW gen, NEW del, StreamOK(lf, q, th, gen, del),
           th.pc = "wait", q # <<>>,
           NEW e, e = Head(q)
    PROVE  StreamOK(lf, Tail(q), Taken(e), gen, HandedOn(e, del))
<1>0. PICK t, d :
         /\ t = [pc |-> CASE e.type = "Flush" -> "exited" [] e.picture # NoObject -> "resolve" [] OTHER -> "callback",
                 event |-> e]
         /\ d = IF e.type # "Flush" /\ e.picture = NoObject THEN Append(del, e) ELSE del
         /\ t = Taken(e) /\ d = HandedOn(e, del)
  BY DEF Taken, HandedOn
<1> SUFFICES StreamOK(lf, Tail(q), t, gen, d)
  BY <1>0
<1>1. PICK rest : QueueIs(lf, q, th, rest) /\ gen = (del \o InHand(th)) \o rest
  BY DEF StreamOK
<1>2. /\ gen \in Seq(EventRec) /\ del \in Seq(EventRec)
      /\ rest \in Seq(EventRec) /\ Real(rest) /\ InHand(th) = <<>>
  BY <1>1 DEF StreamOK, QueueIs, InHand
<1>3. gen = del \o rest
  BY <1>1, <1>2, ConcatEmptySeq
<1>4. lf # "freed" /\ (q = rest \/ (lf = "joining" /\ q = Append(rest, Flush)))
  BY <1>1 DEF QueueIs
<1>5. CASE rest = <<>>
  <2>1. lf = "joining" /\ q = <<Flush>>
    BY <1>4, <1>5
  <2>2. e = Flush /\ Tail(q) = <<>>
    BY <2>1
  <2>3. t = [pc |-> "exited", event |-> Flush] /\ d = del
    BY <1>0, <2>2, FlushIs
  <2>4. t \in ThreadRec /\ InHand(t) = <<>> /\ t.pc = "exited"
    BY <2>3, FlushIs DEF ThreadRec, InHand
  <2>5. QueueIs(lf, Tail(q), t, <<>>)
    BY <1>2, <1>5, <2>1, <2>2, <2>4 DEF QueueIs
  <2>6. gen = (d \o InHand(t)) \o <<>>
    BY <1>2, <1>3, <1>5, <2>3, <2>4, ConcatEmptySeq
  <2> QED BY <1>2, <2>3, <2>4, <2>5, <2>6 DEF StreamOK
<1>6. CASE rest # <<>>
  <2>1. PICK r : r = Tail(rest)
    OBVIOUS
  <2>2. /\ Head(rest) \in EventRec /\ r \in Seq(EventRec) /\ Len(rest) >= 1 /\ Len(r) = Len(rest) - 1
        /\ \A i \in 1 .. Len(r) : r[i] = rest[i + 1]
        /\ Head(rest) = rest[1]
    BY <1>2, <1>6, <2>1
  <2>3. e = Head(rest) /\ (Tail(q) = r \/ (lf = "joining" /\ Tail(q) = Append(r, Flush)))
    <3>1. CASE q = rest
      BY <2>1, <3>1
    <3>2. CASE lf = "joining" /\ q = Append(rest, Flush)
      <4>1. Head(q) = Head(rest) /\ Tail(q) = Append(Tail(rest), Flush)
        BY <1>2, <1>6, <3>2, FlushIs, HeadTailAppend
      <4> QED BY <2>1, <3>2, <4>1
    <3> QED BY <1>4, <3>1, <3>2
  <2>4. e \in EventRec /\ e.type # "Flush"
    <3>1. 1 \in DOMAIN rest
      BY <1>2, <2>2, LenProperties
    <3> QED BY <1>2, <2>2, <2>3, <3>1 DEF Real
  <2>5. Real(r)
    <3>1. ASSUME NEW k \in DOMAIN r PROVE r[k].type # "Flush"
      <4>1. k \in 1 .. Len(r) /\ k + 1 \in DOMAIN rest
        BY <1>2, <2>2, LenProperties
      <4> QED BY <1>2, <2>2, <4>1 DEF Real
    <3> QED BY <3>1 DEF Real
  <2>6. rest = <<e>> \o r
    <3>1. /\ <<e>> \in Seq(EventRec) /\ Len(<<e>>) = 1 /\ <<e>>[1] = e
      BY <2>4, EventIs
    <3>2. /\ <<e>> \o r \in Seq(EventRec) /\ Len(<<e>> \o r) = 1 + Len(r)
          /\ \A i \in 1 .. 1 + Len(r) : (<<e>> \o r)[i] = IF i <= 1 THEN <<e>>[i] ELSE r[i - 1]
      BY <2>2, <3>1, ConcatProperties
    <3>3. Len(<<e>> \o r) = Len(rest)
      BY <2>2, <3>2
    <3>4. ASSUME NEW i \in 1 .. Len(rest) PROVE rest[i] = (<<e>> \o r)[i]
      <4>1. CASE i = 1
        BY <2>2, <2>3, <3>1, <3>2, <4>1
      <4>2. CASE i # 1
        <5>1. i - 1 \in 1 .. Len(r) /\ i \in 1 .. 1 + Len(r) /\ ~(i <= 1)
          BY <2>2, <4>2
        <5>2. (<<e>> \o r)[i] = r[i - 1]
          BY <3>2, <5>1
        <5>3. r[i - 1] = rest[(i - 1) + 1]
          BY <2>2, <5>1
        <5> QED BY <5>1, <5>2, <5>3
      <4> QED BY <4>1, <4>2
    <3> QED BY <1>2, <3>2, <3>3, <3>4, SeqEqual
  <2>7. t \in ThreadRec /\ t.pc # "exited" /\ d \in Seq(EventRec) /\ d \o InHand(t) = del \o <<e>>
    <3>1. CASE e.picture = NoObject
      <4>1. t = [pc |-> "callback", event |-> e] /\ d = Append(del, e)
        BY <1>0, <2>4, <3>1
      <4>2. InHand(t) = <<>> /\ t \in ThreadRec /\ t.pc # "exited"
        BY <2>4, <4>1 DEF InHand, ThreadRec
      <4>3. d \in Seq(EventRec) /\ d = del \o <<e>>
        BY <1>2, <2>4, <4>1, AppendProperties, AppendIsConcat
      <4> QED BY <4>2, <4>3, ConcatEmptySeq
    <3>2. CASE e.picture # NoObject
      <4>1. t = [pc |-> "resolve", event |-> e] /\ d = del
        BY <1>0, <2>4, <3>2
      <4>2. InHand(t) = <<e>> /\ t \in ThreadRec /\ t.pc # "exited"
        BY <2>4, <4>1 DEF InHand, ThreadRec
      <4> QED BY <1>2, <4>1, <4>2
    <3> QED BY <3>1, <3>2
  <2>8. gen = (d \o InHand(t)) \o r
    <3>1. <<e>> \in Seq(EventRec)
      BY <2>4, EventIs
    <3>2. (del \o <<e>>) \o r = del \o (<<e>> \o r)
      <4>1. del \in Seq(EventRec) /\ r \in Seq(EventRec)
        BY <1>2, <2>2
      <4> QED BY <3>1, <4>1, Associate
    <3> QED BY <1>3, <2>6, <2>7, <3>2
  <2>9. QueueIs(lf, Tail(q), t, r)
    <3>1. q = rest \/ lf = "joining"
      BY <1>4
    <3>2. lf = "joining" => Tail(q) = Append(r, Flush)
      <4>1. ASSUME lf = "joining" PROVE q = Append(rest, Flush)
        BY <1>1, <1>6, <4>1 DEF QueueIs
      <4>2. ASSUME lf = "joining" PROVE Tail(q) = Append(Tail(rest), Flush)
        BY <1>2, <1>6, <4>1, <4>2, FlushIs, HeadTailAppend
      <4> QED BY <2>1, <4>2
    <3>3. lf # "joining" => Tail(q) = r
      BY <2>3
    <3> QED BY <1>4, <2>2, <2>5, <2>7, <3>2, <3>3 DEF QueueIs
  <2> QED BY <1>2, <2>7, <2>8, <2>9 DEF StreamOK
<1> QED BY <1>5, <1>6

LEMMA ResolveStream ==
    ASSUME NEW lf, NEW q, NEW th, NEW gen, NEW del, StreamOK(lf, q, th, gen, del), th.pc = "resolve"
    PROVE  StreamOK(lf, q, [th EXCEPT !.pc = "callback"], gen, Append(del, th.event))
<1>1. PICK rest : QueueIs(lf, q, th, rest) /\ gen = (del \o InHand(th)) \o rest
  BY DEF StreamOK
<1>2. gen \in Seq(EventRec) /\ del \in Seq(EventRec) /\ th \in ThreadRec /\ th.event \in EventRec
  BY DEF StreamOK, ThreadRec
<1>3. PICK t : t = [th EXCEPT !.pc = "callback"]
  OBVIOUS
<1>4. t \in ThreadRec /\ t.pc = "callback" /\ InHand(t) = <<>> /\ InHand(th) = <<th.event>>
  BY <1>2, <1>3 DEF ThreadRec, InHand
<1>5. QueueIs(lf, q, t, rest)
  BY <1>1, <1>4 DEF QueueIs
<1>6. Append(del, th.event) \in Seq(EventRec) /\ Append(del, th.event) = del \o <<th.event>>
  BY <1>2, AppendProperties, AppendIsConcat
<1>7. gen = (Append(del, th.event) \o InHand(t)) \o rest
  BY <1>1, <1>4, <1>6, ConcatEmptySeq
<1> QED BY <1>2, <1>3, <1>4, <1>5, <1>6, <1>7 DEF StreamOK

LEMMA CallbackStream ==
    ASSUME NEW lf, NEW q, NEW th, NEW gen, NEW del, StreamOK(lf, q, th, gen, del), th.pc = "callback"
    PROVE  StreamOK(lf, q, [th EXCEPT !.pc = "wait"], gen, del)
<1>1. PICK rest : QueueIs(lf, q, th, rest) /\ gen = (del \o InHand(th)) \o rest
  BY DEF StreamOK
<1>2. gen \in Seq(EventRec) /\ del \in Seq(EventRec) /\ th \in ThreadRec
  BY DEF StreamOK
<1>3. PICK t : t = [th EXCEPT !.pc = "wait"]
  OBVIOUS
<1>4. t \in ThreadRec /\ t.pc = "wait" /\ InHand(t) = InHand(th)
  BY <1>2, <1>3 DEF ThreadRec, InHand
<1>5. QueueIs(lf, q, t, rest)
  BY <1>1, <1>4 DEF QueueIs
<1> QED BY <1>1, <1>2, <1>3, <1>4, <1>5 DEF StreamOK

(* The last event is queued, and the thread that has taken it has ended. *)
LEMMA ReleaseStream ==
    ASSUME NEW lf, lf \notin {"joining", "freed"}, NEW q, NEW th, NEW gen, NEW del,
           StreamOK(lf, q, th, gen, del)
    PROVE  StreamOK("joining", Append(q, Flush), th, gen, del)
<1>1. PICK rest : QueueIs(lf, q, th, rest) /\ gen = (del \o InHand(th)) \o rest
  BY DEF StreamOK
<1>2. QueueIs("joining", Append(q, Flush), th, rest)
  BY <1>1 DEF QueueIs
<1> QED BY <1>1, <1>2 DEF StreamOK

LEMMA JoinStream ==
    ASSUME NEW q, NEW th, NEW gen, NEW del, StreamOK("joining", q, th, gen, del), th.pc = "exited"
    PROVE  StreamOK("freed", q, th, gen, del)
<1>1. PICK rest : QueueIs("joining", q, th, rest) /\ gen = (del \o InHand(th)) \o rest
  BY DEF StreamOK
<1>2. QueueIs("freed", q, th, rest)
  BY <1>1 DEF QueueIs
<1> QED BY <1>1, <1>2 DEF StreamOK

LEMMA OtherLifeStream ==
    ASSUME NEW lf, NEW new, lf \notin {"joining", "freed"}, new \notin {"joining", "freed"},
           NEW q, NEW th, NEW gen, NEW del, StreamOK(lf, q, th, gen, del)
    PROVE  StreamOK(new, q, th, gen, del)
<1>1. PICK rest : QueueIs(lf, q, th, rest) /\ gen = (del \o InHand(th)) \o rest
  BY DEF StreamOK
<1>2. QueueIs(new, q, th, rest)
  BY <1>1 DEF QueueIs
<1> QED BY <1>1, <1>2 DEF StreamOK

(* What the stream shows. *)
Queued(q) == IF q # <<>> /\ q[Len(q)].type = "Flush" THEN SubSeq(q, 1, Len(q) - 1) ELSE q

LEMMA StreamShows ==
    ASSUME NEW lf, NEW q, NEW th, NEW gen, NEW del, StreamOK(lf, q, th, gen, del)
    PROVE  /\ gen = (del \o InHand(th)) \o Queued(q)
           /\ lf = "freed" => Queued(q) = <<>> /\ InHand(th) = <<>>
<1>0. PICK queued : /\ queued = IF q # <<>> /\ q[Len(q)].type = "Flush" THEN SubSeq(q, 1, Len(q) - 1) ELSE q
                    /\ queued = Queued(q)
  BY DEF Queued
<1>1. PICK rest : QueueIs(lf, q, th, rest) /\ gen = (del \o InHand(th)) \o rest
  BY DEF StreamOK
<1>2. rest \in Seq(EventRec) /\ Real(rest) /\ (q = rest \/ q = Append(rest, Flush))
  BY <1>1 DEF QueueIs
<1>3. queued = rest
  <2>1. CASE q = Append(rest, Flush)
    <3>1. /\ q # <<>> /\ Len(q) = Len(rest) + 1 /\ q[Len(q)] = Flush
          /\ \A i \in 1 .. Len(rest) : q[i] = rest[i]
      BY <1>2, <2>1, FlushIs, AppendProperties
    <3>2. Len(rest) \in Nat
      BY <1>2, LenProperties
    <3>3. queued = SubSeq(q, 1, Len(rest))
      BY <1>0, <3>1, <3>2, FlushIs
    <3>4. \A i \in 1 .. Len(rest) : q[i] \in EventRec
      BY <1>2, <3>1, ElementOfSeq
    <3>5. /\ queued \in Seq(EventRec) /\ Len(queued) = Len(rest)
          /\ \A i \in 1 .. Len(rest) : queued[i] = q[i]
      BY <3>2, <3>3, <3>4, SubSeqProperties
    <3> QED BY <1>2, <3>1, <3>5, SeqEqual
  <2>2. CASE q = rest
    <3>1. ASSUME q # <<>> PROVE q[Len(q)].type # "Flush"
      <4>1. Len(rest) \in DOMAIN rest
        BY <1>2, <2>2, <3>1, EmptySeq, LenProperties
      <4> QED BY <1>2, <2>2, <4>1 DEF Real
    <3> QED BY <1>0, <2>2, <3>1
  <2> QED BY <1>2, <2>1, <2>2
<1>4. lf = "freed" => rest = <<>> /\ InHand(th) = <<>>
  BY <1>1 DEF QueueIs, InHand
<1> QED BY <1>0, <1>1, <1>3, <1>4

-----------------------------------------------------------------------------
(* The invariant of the API.                                                *)
Live == {"created", "initialized"}
Pending(c) == c.pc \in {"locking", "inside"}
Gone(lf) == lf \notin Live /\ lf # "unborn"

Fits(a) == /\ call[a].context \in Context
           /\ CallFits(call[a].op, call[a].handle, picturePool[call[a].context],
                       pictureLockPool[call[a].context], at[call[a].context], locked[call[a].context])

Contend(c, k) == /\ Pending(c) /\ Pending(k) /\ c.context = k.context
                 /\ c.op \in PictureCall /\ k.op \in PictureCall

ShelfDomains == /\ DOMAIN picturePool = Context /\ DOMAIN pictureLockPool = Context
                /\ DOMAIN at = Context /\ DOMAIN sentAs = Context /\ DOMAIN locked = Context
                /\ DOMAIN call = Agent

(* Every shelf agrees with the calls under way, and no two of those have    *)
(* one picture's handle.                                                    *)
ShelvesInv ==
    /\ ShelfDomains
    /\ \A d \in Context : ShelfOK(picturePool[d], pictureLockPool[d], at[d], sentAs[d], locked[d])
    /\ \A a \in Agent : Pending(call[a]) => Fits(a)
    /\ \A a, b \in Agent : a # b /\ Contend(call[a], call[b]) => call[a].handle # call[b].handle

QuietOK == \A d \in Context : Gone(life[d]) => \A p \in Picture : at[d][p] \notin InPipeline

(* Only a decoder in the pool is in a call, and one that has left it is     *)
(* quiet.                                                                   *)
LivesInv ==
    /\ DOMAIN life = Context
    /\ PoolOK(decoderPool, DecoderCapacity, Context) /\ Unique(decoderPool)
    /\ \A d \in Context : Holds(decoderPool, d) => life[d] \in Live
    /\ \A a \in Agent : Pending(call[a]) => life[call[a].context] \in Live
    /\ \A a \in Agent : call[a].pc = "destroying" =>
                           call[a].context \in Context /\ Gone(life[call[a].context])
    /\ QuietOK

StreamDomains == /\ DOMAIN m_eventQueue = Context /\ DOMAIN thread = Context
                 /\ DOMAIN generated = Context /\ DOMAIN delivered = Context

StreamsInv ==
    /\ StreamDomains
    /\ \A d \in Context : StreamOK(life[d], m_eventQueue[d], thread[d], generated[d], delivered[d])

(* A generation passes with a call that has been made. *)
Busy == {a \in Agent : Pending(call[a])}
Done == calls - Cardinality(Busy)
Bounded(p, n) == \A i \in DOMAIN p.generations : p.generations[i] <= n

BoundInv ==
    /\ IsFiniteSet(Busy) /\ calls \in Nat /\ calls <= MaxCalls /\ Done \in Nat
    /\ Bounded(decoderPool, Done)
    /\ \A d \in Context : Bounded(picturePool[d], Done) /\ Bounded(pictureLockPool[d], Done)

BasesOK == DOMAIN basesDone = Context /\ \A d \in Context : basesDone[d] \in Seq(Picture)

ApiInv == ShelvesInv /\ LivesInv /\ StreamsInv /\ BoundInv /\ BasesOK

-----------------------------------------------------------------------------
(* One context of several changes. *)
Sets(f, g, d, x) == DOMAIN g = Context /\ g[d] = x /\ \A e \in Context \ {d} : g[e] = f[e]

LEMMA SetsNew ==
    ASSUME NEW f, DOMAIN f = Context, NEW d \in Context, NEW x
    PROVE  Sets(f, [f EXCEPT ![d] = x], d, x)
BY DEF Sets

LEMMA SetsOld ==
    ASSUME NEW f, DOMAIN f = Context, NEW d \in Context
    PROVE  Sets(f, f, d, f[d])
BY DEF Sets

LEMMA PendingIs ==
    /\ ~Pending(NoCall) /\ NoCall.pc = "idle"
    /\ \A c : c.pc = "inside" => Pending(c)
    /\ \A c : c.pc = "locking" => Pending(c)
    /\ \A c : c.pc \in {"idle", "destroying"} => ~Pending(c)
BY DEF Pending, NoCall

LEMMA BoundedUnwrapped ==
    ASSUME BoundInv, NEW capacity \in Nat, NEW S, NEW p, PoolOK(p, capacity, S), Bounded(p, Done)
    PROVE  Unwrapped(p)
<1>1. /\ p.generations \in [0 .. capacity - 1 -> Generation]
      /\ DOMAIN p.generations = 0 .. capacity - 1
  BY PoolFields
<1>2. Cardinality(Busy) \in Nat
  BY FS_CardinalityType DEF BoundInv
<1>3. Done \in Nat /\ Done <= MaxCalls
  BY <1>2, ApiAssumption DEF BoundInv, Done
<1>4. ASSUME NEW i \in 0 .. capacity - 1 PROVE p.generations[i] + 1 < Generations
  <2>1. p.generations[i] \in Generation
    BY <1>1
  <2>2. p.generations[i] \in Nat
    BY <2>1, GenerationsAssumption DEF Generation
  <2>3. p.generations[i] <= Done
    BY <1>1 DEF Bounded
  <2>4. MaxCalls + 1 < Generations
    BY ApiAssumption, GenerationsAssumption
  <2> QED BY <1>3, <2>2, <2>3, <2>4, ApiAssumption, GenerationsAssumption
<1> QED BY <1>1, <1>4 DEF Unwrapped

LEMMA StillBounded ==
    ASSUME NEW capacity \in Nat, NEW S, NEW p, PoolOK(p, capacity, S),
           NEW q, PoolOK(q, capacity, S), Bumps(p, q),
           NEW n \in Nat, Bounded(p, n)
    PROVE  Bounded(q, n + 1)
<1>1. /\ p.generations \in [0 .. capacity - 1 -> Generation]
      /\ q.generations \in [0 .. capacity - 1 -> Generation]
      /\ DOMAIN p.generations = 0 .. capacity - 1 /\ DOMAIN q.generations = 0 .. capacity - 1
  <2>1. p.generations \in [0 .. capacity - 1 -> Generation] /\ DOMAIN p.generations = 0 .. capacity - 1
    BY PoolFields
  <2>2. q.generations \in [0 .. capacity - 1 -> Generation] /\ DOMAIN q.generations = 0 .. capacity - 1
    BY PoolFields
  <2> QED BY <2>1, <2>2
<1>2. ASSUME NEW i \in 0 .. capacity - 1 PROVE q.generations[i] <= n + 1
  <2>1. p.generations[i] \in Generation /\ q.generations[i] \in Generation
    BY <1>1
  <2>2. p.generations[i] \in Nat /\ q.generations[i] \in Nat
    BY <2>1, GenerationsAssumption DEF Generation
  <2>3. q.generations[i] <= p.generations[i] + 1 /\ p.generations[i] <= n
    BY <1>1 DEF Bounded, Bumps
  <2> QED BY <2>2, <2>3
<1> QED BY <1>1, <1>2 DEF Bounded

LEMMA BoundedMore ==
    ASSUME NEW capacity \in Nat, NEW S, NEW p, PoolOK(p, capacity, S), NEW n \in Nat, Bounded(p, n)
    PROVE  Bounded(p, n + 1)
BY SamePool, StillBounded

-----------------------------------------------------------------------------
(* One shelf changes; of the calls under way none is new.                   *)
ShelfStep(d, pics, locks, where, sent, held) ==
    /\ Sets(picturePool, picturePool', d, pics)
    /\ Sets(pictureLockPool, pictureLockPool', d, locks)
    /\ Sets(at, at', d, where)
    /\ Sets(sentAs, sentAs', d, sent)
    /\ Sets(locked, locked', d, held)

Fewer(c, k) ==
    /\ DOMAIN k = Agent
    /\ \A a \in Agent : Pending(k[a]) => /\ Pending(c[a]) /\ k[a].context = c[a].context
                                         /\ k[a].op = c[a].op /\ k[a].handle = c[a].handle

(* The calls still under way on d fit what its shelf becomes. *)
CallsAfter(c, k, d, pics, locks, where, held) ==
    \A a \in Agent : Pending(k[a]) /\ c[a].context = d
                        => CallFits(c[a].op, c[a].handle, pics, locks, where, held)

LEMMA FewerSame == ASSUME NEW c, DOMAIN c = Agent PROVE Fewer(c, c)
BY DEF Fewer

LEMMA FewerLess ==
    ASSUME NEW c, DOMAIN c = Agent, NEW a \in Agent, NEW new, ~Pending(new)
    PROVE  Fewer(c, [c EXCEPT ![a] = new])
BY DEF Fewer

LEMMA ShelvesStep ==
    ASSUME ShelvesInv, NEW d \in Context, NEW pics, NEW locks, NEW where, NEW sent, NEW held,
           ShelfStep(d, pics, locks, where, sent, held), ShelfOK(pics, locks, where, sent, held),
           Fewer(call, call'), CallsAfter(call, call', d, pics, locks, where, held)
    PROVE  ShelvesInv'
<1>1. ShelfDomains'
  BY DEF ShelfStep, Sets, Fewer, ShelfDomains
<1>2. ASSUME NEW e \in Context
      PROVE  ShelfOK(picturePool'[e], pictureLockPool'[e], at'[e], sentAs'[e], locked'[e])
  <2>1. CASE e = d
    BY <2>1 DEF ShelfStep, Sets
  <2>2. CASE e # d
    <3>1. /\ picturePool'[e] = picturePool[e] /\ pictureLockPool'[e] = pictureLockPool[e]
          /\ at'[e] = at[e] /\ sentAs'[e] = sentAs[e] /\ locked'[e] = locked[e]
      BY <2>2 DEF ShelfStep, Sets
    <3> QED BY <3>1 DEF ShelvesInv
  <2> QED BY <2>1, <2>2
<1>3. ASSUME NEW a \in Agent, Pending(call'[a]) PROVE Fits(a)'
  <2>1. /\ Pending(call[a]) /\ call'[a].context = call[a].context
        /\ call'[a].op = call[a].op /\ call'[a].handle = call[a].handle
    BY <1>3 DEF Fewer
  <2>2. Fits(a)
    BY <2>1 DEF ShelvesInv
  <2>3. PICK e \in Context : e = call[a].context
    BY <2>2 DEF Fits
  <2>4. CASE e = d
    <3>1. CallFits(call[a].op, call[a].handle, pics, locks, where, held)
      BY <1>3, <2>3, <2>4 DEF CallsAfter
    <3>2. picturePool'[e] = pics /\ pictureLockPool'[e] = locks /\ at'[e] = where /\ locked'[e] = held
      BY <2>4 DEF ShelfStep, Sets
    <3> QED BY <2>1, <2>3, <3>1, <3>2 DEF Fits
  <2>5. CASE e # d
    <3>1. /\ picturePool'[e] = picturePool[e] /\ pictureLockPool'[e] = pictureLockPool[e]
          /\ at'[e] = at[e] /\ locked'[e] = locked[e]
      BY <2>5 DEF ShelfStep, Sets
    <3> QED BY <2>1, <2>2, <2>3, <3>1 DEF Fits
  <2> QED BY <2>4, <2>5
<1>4. ASSUME NEW a \in Agent, NEW b \in Agent, a # b, Contend(call'[a], call'[b])
      PROVE  call'[a].handle # call'[b].handle
  <2>1. /\ Pending(call[a]) /\ call'[a].context = call[a].context
        /\ call'[a].op = call[a].op /\ call'[a].handle = call[a].handle
    BY <1>4 DEF Fewer, Contend
  <2>2. /\ Pending(call[b]) /\ call'[b].context = call[b].context
        /\ call'[b].op = call[b].op /\ call'[b].handle = call[b].handle
    BY <1>4 DEF Fewer, Contend
  <2>3. Contend(call[a], call[b])
    BY <1>4, <2>1, <2>2 DEF Contend
  <2> QED BY <1>4, <2>1, <2>2, <2>3 DEF ShelvesInv
<1> QED BY <1>1, <1>2, <1>3, <1>4 DEF ShelvesInv

(* Nothing on the shelves changes. *)
LEMMA ShelvesStay ==
    ASSUME ShelvesInv, UNCHANGED pictureVars, Fewer(call, call')
    PROVE  ShelvesInv'
<1>1. /\ picturePool' = picturePool /\ pictureLockPool' = pictureLockPool /\ at' = at
      /\ sentAs' = sentAs /\ locked' = locked
  BY DEF pictureVars
<1>2. ShelfDomains'
  BY <1>1 DEF ShelfDomains, ShelvesInv, Fewer
<1>3. \A e \in Context : ShelfOK(picturePool'[e], pictureLockPool'[e], at'[e], sentAs'[e], locked'[e])
  BY <1>1 DEF ShelvesInv
<1>4. ASSUME NEW a \in Agent, Pending(call'[a]) PROVE Fits(a)'
  <2>1. /\ Pending(call[a]) /\ call'[a].context = call[a].context
        /\ call'[a].op = call[a].op /\ call'[a].handle = call[a].handle
    BY <1>4 DEF Fewer
  <2>2. Fits(a)
    BY <2>1 DEF ShelvesInv
  <2> QED BY <1>1, <2>1, <2>2 DEF Fits
<1>5. ASSUME NEW a \in Agent, NEW b \in Agent, a # b, Contend(call'[a], call'[b])
      PROVE  call'[a].handle # call'[b].handle
  <2>1. /\ Pending(call[a]) /\ call'[a].context = call[a].context
        /\ call'[a].op = call[a].op /\ call'[a].handle = call[a].handle
    BY <1>5 DEF Fewer, Contend
  <2>2. /\ Pending(call[b]) /\ call'[b].context = call[b].context
        /\ call'[b].op = call[b].op /\ call'[b].handle = call[b].handle
    BY <1>5 DEF Fewer, Contend
  <2>3. Contend(call[a], call[b])
    BY <1>5, <2>1, <2>2 DEF Contend
  <2> QED BY <1>5, <2>1, <2>2, <2>3 DEF ShelvesInv
<1> QED BY <1>2, <1>3, <1>4, <1>5 DEF ShelvesInv

(* No decoder comes or goes, and pictures enter the pipeline only of a live *)
(* one.                                                                     *)
Enters(old, new, lf) ==
    \A d \in Context : \A p \in Picture :
        new[d][p] \in InPipeline => old[d][p] \in InPipeline \/ lf[d] \in Live

Moves(old, new) ==
    /\ DOMAIN new = Context
    /\ \A d \in Context : /\ old[d] \in Live <=> new[d] \in Live
                          /\ Gone(old[d]) <=> Gone(new[d])

LEMMA MovesSame == ASSUME NEW f, DOMAIN f = Context PROVE Moves(f, f)
BY DEF Moves

LEMMA LivesStay ==
    ASSUME LivesInv, decoderPool' = decoderPool, Moves(life, life'), Fewer(call, call'),
           \A a \in Agent : call'[a].pc = "destroying" =>
               call[a].pc = "destroying" /\ call'[a].context = call[a].context,
           Enters(at, at', life),
           \A a \in Agent : Pending(call[a]) => call[a].context \in Context
    PROVE  LivesInv'
<1>1. DOMAIN life' = Context /\ \A d \in Context : Holds(decoderPool', d) => life'[d] \in Live
  BY DEF LivesInv, Moves
<1>2. ASSUME NEW a \in Agent, Pending(call'[a]) PROVE life'[call'[a].context] \in Live
  <2>1. Pending(call[a]) /\ call'[a].context = call[a].context
    BY <1>2 DEF Fewer
  <2>2. life[call[a].context] \in Live /\ call[a].context \in Context
    BY <2>1 DEF LivesInv
  <2> QED BY <2>1, <2>2 DEF Moves
<1>3. ASSUME NEW a \in Agent, call'[a].pc = "destroying"
      PROVE  call'[a].context \in Context /\ Gone(life'[call'[a].context])
  <2>1. call[a].pc = "destroying" /\ call'[a].context = call[a].context
    BY <1>3
  <2>2. call[a].context \in Context /\ Gone(life[call[a].context])
    BY <2>1 DEF LivesInv
  <2> QED BY <2>1, <2>2 DEF Moves
<1>4. QuietOK'
  <2>1. ASSUME NEW d \in Context, Gone(life'[d]), NEW p \in Picture PROVE at'[d][p] \notin InPipeline
    <3>1. Gone(life[d])
      BY <2>1 DEF Moves
    <3>2. at[d][p] \notin InPipeline /\ life[d] \notin Live
      BY <3>1 DEF LivesInv, QuietOK, Gone
    <3> QED BY <3>2 DEF Enters
  <2> QED BY <2>1 DEF QuietOK
<1>5. PoolOK(decoderPool', DecoderCapacity, Context) /\ Unique(decoderPool')
  BY DEF LivesInv
<1> QED BY <1>1, <1>2, <1>3, <1>4, <1>5 DEF LivesInv

(* Streams of which nothing changes, not even whether the thread is told to *)
(* end.                                                                     *)
Ending(lf) == lf \in {"joining", "freed"}

LEMMA StreamsStay ==
    ASSUME StreamsInv, UNCHANGED eventVars,
           \A d \in Context : life'[d] = life[d] \/ (~Ending(life[d]) /\ ~Ending(life'[d]))
    PROVE  StreamsInv'
<1>1. m_eventQueue' = m_eventQueue /\ thread' = thread /\ generated' = generated /\ delivered' = delivered
  BY DEF eventVars
<1>2. StreamDomains'
  BY <1>1 DEF StreamDomains, StreamsInv
<1>3. ASSUME NEW d \in Context
      PROVE  StreamOK(life'[d], m_eventQueue'[d], thread'[d], generated'[d], delivered'[d])
  <2>1. StreamOK(life[d], m_eventQueue[d], thread[d], generated[d], delivered[d])
    BY DEF StreamsInv
  <2>2. CASE life'[d] = life[d]
    BY <1>1, <2>1, <2>2
  <2>3. CASE ~Ending(life[d]) /\ ~Ending(life'[d])
    BY <1>1, <2>1, <2>3, OtherLifeStream DEF Ending
  <2> QED BY <2>2, <2>3
<1> QED BY <1>2, <1>3 DEF StreamsInv

(* Of one decoder something changes. *)
LEMMA StreamsStep ==
    ASSUME StreamsInv, NEW d \in Context, NEW lf, NEW q, NEW th, NEW gen, NEW del,
           Sets(life, life', d, lf), Sets(m_eventQueue, m_eventQueue', d, q), Sets(thread, thread', d, th),
           Sets(generated, generated', d, gen), Sets(delivered, delivered', d, del),
           StreamOK(lf, q, th, gen, del)
    PROVE  StreamsInv'
<1>1. StreamDomains'
  BY DEF StreamDomains, Sets
<1>2. ASSUME NEW e \in Context
      PROVE  StreamOK(life'[e], m_eventQueue'[e], thread'[e], generated'[e], delivered'[e])
  <2>1. CASE e = d
    BY <2>1 DEF Sets
  <2>2. CASE e # d
    <3>1. /\ life'[e] = life[e] /\ m_eventQueue'[e] = m_eventQueue[e] /\ thread'[e] = thread[e]
          /\ generated'[e] = generated[e] /\ delivered'[e] = delivered[e]
      BY <2>2 DEF Sets
    <3> QED BY <3>1 DEF StreamsInv
  <2> QED BY <2>1, <2>2
<1> QED BY <1>1, <1>2 DEF StreamsInv

-----------------------------------------------------------------------------
(* The end of a call.                                                       *)
LEMMA SetsDeep ==
    ASSUME NEW f, DOMAIN f = Context, NEW d \in Context, NEW p, NEW x
    PROVE  Sets(f, [f EXCEPT ![d][p] = x], d, [f[d] EXCEPT ![p] = x])
BY DEF Sets

(* Calls that fitted the shelf of d fit what it becomes, those with another *)
(* picture's handle or all of them.                                         *)
CarriesOthers(h, d, pics, locks, where, held) ==
    \A op, k : (/\ CallFits(op, k, picturePool[d], pictureLockPool[d], at[d], locked[d])
                /\ op \in PictureCall => k # h)
                   => CallFits(op, k, pics, locks, where, held)

CarriesAll(d, pics, locks, where, held) ==
    \A op, k : CallFits(op, k, picturePool[d], pictureLockPool[d], at[d], locked[d])
                  => CallFits(op, k, pics, locks, where, held)

LEMMA OthersAfter ==
    ASSUME ShelvesInv, NEW a \in Agent, Pending(call[a]), call[a].op \in PictureCall,
           NEW d, d = call[a].context, NEW h, h = call[a].handle,
           NEW pics, NEW locks, NEW where, NEW held, CarriesOthers(h, d, pics, locks, where, held)
    PROVE  CallsAfter(call, [call EXCEPT ![a] = NoCall], d, pics, locks, where, held)
<1> SUFFICES ASSUME NEW b \in Agent, Pending([call EXCEPT ![a] = NoCall][b]), call[b].context = d
             PROVE  CallFits(call[b].op, call[b].handle, pics, locks, where, held)
  BY DEF CallsAfter
<1>1. b # a /\ Pending(call[b])
  <2>1. DOMAIN call = Agent
    BY DEF ShelvesInv, ShelfDomains
  <2>2. ~Pending(NoCall)
    BY PendingIs
  <2> QED BY <2>1, <2>2
<1>2. CallFits(call[b].op, call[b].handle, picturePool[d], pictureLockPool[d], at[d], locked[d])
  BY <1>1 DEF ShelvesInv, Fits
<1>3. call[b].op \in PictureCall => call[b].handle # h
  BY <1>1 DEF ShelvesInv, Contend
<1> QED BY <1>2, <1>3 DEF CarriesOthers

LEMMA AllAfter ==
    ASSUME ShelvesInv, NEW k, Fewer(call, k), NEW d \in Context,
           NEW pics, NEW locks, NEW where, NEW held, CarriesAll(d, pics, locks, where, held)
    PROVE  CallsAfter(call, k, d, pics, locks, where, held)
<1> SUFFICES ASSUME NEW b \in Agent, Pending(k[b]), call[b].context = d
             PROVE  CallFits(call[b].op, call[b].handle, pics, locks, where, held)
  BY DEF CallsAfter
<1>1. Pending(call[b])
  BY DEF Fewer
<1>2. CallFits(call[b].op, call[b].handle, picturePool[d], pictureLockPool[d], at[d], locked[d])
  BY <1>1 DEF ShelvesInv, Fits
<1> QED BY <1>2 DEF CarriesAll

LEMMA CallerIs ==
    ASSUME ApiInv, NEW a \in Agent, Pending(call[a])
    PROVE  LET d == call[a].context IN
           /\ d \in Context /\ life[d] \in Live
           /\ ShelfOK(picturePool[d], pictureLockPool[d], at[d], sentAs[d], locked[d])
           /\ CallFits(call[a].op, call[a].handle, picturePool[d], pictureLockPool[d], at[d], locked[d])
           /\ Unwrapped(picturePool[d]) /\ Unwrapped(pictureLockPool[d])
<1>1. PICK d \in Context : d = call[a].context
  BY DEF ApiInv, ShelvesInv, Fits
<1>2. /\ life[d] \in Live
      /\ ShelfOK(picturePool[d], pictureLockPool[d], at[d], sentAs[d], locked[d])
      /\ CallFits(call[a].op, call[a].handle, picturePool[d], pictureLockPool[d], at[d], locked[d])
  BY <1>1 DEF ApiInv, ShelvesInv, LivesInv, Fits
<1>3. /\ PoolOK(picturePool[d], PictureCapacity, Picture)
      /\ PoolOK(pictureLockPool[d], LockCapacity, Picture)
  BY <1>2, ShelfFields
<1>4. BoundInv /\ Bounded(picturePool[d], Done) /\ Bounded(pictureLockPool[d], Done)
  BY DEF ApiInv, BoundInv
<1>5. Unwrapped(picturePool[d])
  BY <1>3, <1>4, BoundedUnwrapped, NoObjectIsNone
<1>6. Unwrapped(pictureLockPool[d])
  BY <1>3, <1>4, BoundedUnwrapped, NoObjectIsNone
<1> QED BY <1>1, <1>2, <1>5, <1>6

LEMMA BusyLess ==
    ASSUME BoundInv, DOMAIN call = Agent, NEW a \in Agent, Pending(call[a]),
           call' = [call EXCEPT ![a] = NoCall], calls' = calls
    PROVE  /\ IsFiniteSet(Busy') /\ calls' \in Nat /\ calls' <= MaxCalls /\ Done' \in Nat
           /\ Done' = Done + 1
<1>1. Busy' = Busy \ {a} /\ a \in Busy
  BY PendingIs DEF Busy
<1>2. /\ IsFiniteSet(Busy') /\ Cardinality(Busy') = Cardinality(Busy) - 1
      /\ Cardinality(Busy) \in Nat
  BY <1>1, FS_RemoveElement, FS_CardinalityType DEF BoundInv
<1>3. calls \in Nat /\ calls <= MaxCalls /\ Done \in Nat
  BY DEF BoundInv
<1> QED BY <1>2, <1>3 DEF Done

LEMMA BodyHolds ==
    ASSUME ApiInv, NEW a \in Agent, Pending(call[a]), NEW d, d = call[a].context,
           NEW pics, NEW locks, NEW where, NEW sent, NEW held,
           ShelfStep(d, pics, locks, where, sent, held), ShelfOK(pics, locks, where, sent, held),
           Bumps(picturePool[d], pics), Bumps(pictureLockPool[d], locks),
           CallsAfter(call, call', d, pics, locks, where, held),
           call' = [call EXCEPT ![a] = NoCall], calls' = calls, decoderPool' = decoderPool,
           Moves(life, life')
    PROVE  ShelvesInv' /\ LivesInv' /\ BoundInv'
<1>1. d \in Context /\ life[d] \in Live /\ DOMAIN call = Agent
  BY CallerIs DEF ApiInv, ShelvesInv, ShelfDomains
<1>2. Fewer(call, call')
  BY <1>1, FewerLess, PendingIs
<1>3. ShelvesInv'
  BY <1>1, <1>2, ShelvesStep DEF ApiInv
<1>4. LivesInv'
  <2>1. \A b \in Agent : call'[b].pc = "destroying" =>
            call[b].pc = "destroying" /\ call'[b].context = call[b].context
    BY <1>1, PendingIs
  <2>2. Enters(at, at', life)
    BY <1>1 DEF Enters, ShelfStep, Sets
  <2>3. \A b \in Agent : Pending(call[b]) => call[b].context \in Context
    BY DEF ApiInv, ShelvesInv, Fits
  <2> QED BY <1>2, <2>1, <2>2, <2>3, LivesStay DEF ApiInv
<1>5. BoundInv'
  <2>1. /\ IsFiniteSet(Busy') /\ calls' \in Nat /\ calls' <= MaxCalls /\ Done' \in Nat
        /\ Done' = Done + 1 /\ Done \in Nat
    BY <1>1, BusyLess DEF ApiInv, BoundInv
  <2>2. Bounded(decoderPool', Done')
    <3>1. PoolOK(decoderPool, DecoderCapacity, Context) /\ Bounded(decoderPool, Done)
      BY DEF ApiInv, LivesInv, BoundInv
    <3> QED BY <2>1, <3>1, BoundedMore, NoObjectIsNone
  <2>3. ASSUME NEW e \in Context PROVE Bounded(picturePool'[e], Done') /\ Bounded(pictureLockPool'[e], Done')
    <3>1. /\ PoolOK(picturePool[e], PictureCapacity, Picture) /\ Bounded(picturePool[e], Done)
          /\ PoolOK(pictureLockPool[e], LockCapacity, Picture) /\ Bounded(pictureLockPool[e], Done)
      BY ShelfFields DEF ApiInv, ShelvesInv, BoundInv
    <3>2. /\ PoolOK(picturePool'[e], PictureCapacity, Picture) /\ PoolOK(pictureLockPool'[e], LockCapacity, Picture)
      <4>1. ShelfOK(picturePool'[e], pictureLockPool'[e], at'[e], sentAs'[e], locked'[e])
        BY <1>3 DEF ShelvesInv
      <4> QED BY <4>1, ShelfFields
    <3>3. Bumps(picturePool[e], picturePool'[e]) /\ Bumps(pictureLockPool[e], pictureLockPool'[e])
      <4>1. CASE e = d
        BY <4>1 DEF ShelfStep, Sets
      <4>2. CASE e # d
        <5>1. picturePool'[e] = picturePool[e] /\ pictureLockPool'[e] = pictureLockPool[e]
          BY <4>2 DEF ShelfStep, Sets
        <5> QED BY <3>1, <5>1, SamePool, NoObjectIsNone
      <4> QED BY <4>1, <4>2
    <3>4. Bounded(picturePool'[e], Done + 1)
      BY <2>1, <3>1, <3>2, <3>3, StillBounded, NoObjectIsNone
    <3>5. Bounded(pictureLockPool'[e], Done + 1)
      BY <2>1, <3>1, <3>2, <3>3, StillBounded, NoObjectIsNone
    <3> QED BY <2>1, <3>4, <3>5
  <2> QED BY <2>1, <2>2, <2>3 DEF BoundInv
<1> QED BY <1>3, <1>4, <1>5

(* A call that leaves the shelves alone. *)
LEMMA BodyStays ==
    ASSUME ApiInv, NEW a \in Agent, Pending(call[a]), UNCHANGED pictureVars, Leave(a), Moves(life, life')
    PROVE  ShelvesInv' /\ LivesInv' /\ BoundInv' /\ BasesOK'
<1>1. PICK d : d = call[a].context
  OBVIOUS
<1>2. /\ d \in Context
      /\ ShelfOK(picturePool[d], pictureLockPool[d], at[d], sentAs[d], locked[d])
  BY <1>1, CallerIs
<1>3. /\ picturePool' = picturePool /\ pictureLockPool' = pictureLockPool /\ at' = at
      /\ sentAs' = sentAs /\ locked' = locked /\ basesDone' = basesDone
      /\ call' = [call EXCEPT ![a] = NoCall] /\ calls' = calls /\ decoderPool' = decoderPool
  BY DEF pictureVars, Leave
<1>4. ShelfDomains
  BY DEF ApiInv, ShelvesInv
<1>5. ShelfStep(d, picturePool[d], pictureLockPool[d], at[d], sentAs[d], locked[d])
  BY <1>2, <1>3, <1>4 DEF ShelfStep, Sets, ShelfDomains
<1>6. Bumps(picturePool[d], picturePool[d]) /\ Bumps(pictureLockPool[d], pictureLockPool[d])
  <2>1. PoolOK(picturePool[d], PictureCapacity, Picture) /\ PoolOK(pictureLockPool[d], LockCapacity, Picture)
    BY <1>2, ShelfFields
  <2>2. Bumps(picturePool[d], picturePool[d])
    BY <2>1, SamePool, NoObjectIsNone
  <2>3. Bumps(pictureLockPool[d], pictureLockPool[d])
    BY <2>1, SamePool, NoObjectIsNone
  <2> QED BY <2>2, <2>3
<1>7. CallsAfter(call, call', d, picturePool[d], pictureLockPool[d], at[d], locked[d])
  <2>1. CarriesAll(d, picturePool[d], pictureLockPool[d], at[d], locked[d])
    BY DEF CarriesAll
  <2>2. Fewer(call, call')
    BY <1>3, <1>4, FewerLess, PendingIs DEF ShelfDomains
  <2> QED BY <1>2, <2>1, <2>2, AllAfter DEF ApiInv
<1>8. ShelvesInv' /\ LivesInv' /\ BoundInv'
  BY <1>1, <1>2, <1>3, <1>5, <1>6, <1>7, BodyHolds
<1>9. BasesOK'
  BY <1>3 DEF ApiInv, BasesOK
<1> QED BY <1>8, <1>9

LEMMA LifeDomain ==
    ASSUME ApiInv
    PROVE  DOMAIN life = Context /\ Moves(life, life)
BY MovesSame DEF ApiInv, LivesInv

LEMMA StreamsRest ==
    ASSUME ApiInv, UNCHANGED eventVars, life' = life
    PROVE  StreamsInv'
BY StreamsStay DEF ApiInv

LEMMA ReturnsHolds ==
    ASSUME ApiInv, NEW a \in Agent, Pending(call[a]), Returns(a)
    PROVE  ApiInv'
<1>1. UNCHANGED pictureVars /\ Leave(a) /\ life' = life /\ UNCHANGED eventVars
  BY DEF Returns
<1>2. ShelvesInv' /\ LivesInv' /\ BoundInv' /\ BasesOK'
  BY <1>1, BodyStays, LifeDomain
<1>3. StreamsInv'
  BY <1>1, StreamsRest
<1> QED BY <1>2, <1>3 DEF ApiInv

LEMMA configureHolds ==
    ASSUME ApiInv, NEW a \in Agent, configure(a)
    PROVE  ApiInv'
<1>1. /\ UNCHANGED pictureVars /\ Leave(a) /\ life' = life /\ UNCHANGED eventVars
      /\ Pending(call[a])
  BY PendingIs DEF configure, Inside
<1>2. ShelvesInv' /\ LivesInv' /\ BoundInv' /\ BasesOK'
  BY <1>1, BodyStays, LifeDomain
<1>3. StreamsInv'
  BY <1>1, StreamsRest
<1> QED BY <1>2, <1>3 DEF ApiInv

(* Events are queued on a decoder whose thread has not been told to end. *)
LEMMA GenerateHolds ==
    ASSUME StreamsInv, NEW d \in Context, NEW events \in Seq(EventRec), Real(events), generate(d, events),
           ~Ending(life[d]), NEW lf, ~Ending(lf), Sets(life, life', d, lf)
    PROVE  StreamsInv'
<1>1. /\ StreamDomains
      /\ StreamOK(life[d], m_eventQueue[d], thread[d], generated[d], delivered[d])
  BY DEF StreamsInv
<1>2. thread' = thread /\ delivered' = delivered
  BY DEF generate
<1>3. Sets(thread, thread', d, thread[d]) /\ Sets(delivered, delivered', d, delivered[d])
  BY <1>1, <1>2, SetsOld DEF StreamDomains
<1>4. CASE configured[d]
  <2>1. /\ m_eventQueue' = [m_eventQueue EXCEPT ![d] = m_eventQueue[d] \o events]
        /\ generated' = [generated EXCEPT ![d] = generated[d] \o events]
    BY <1>4 DEF generate
  <2>2. /\ Sets(m_eventQueue, m_eventQueue', d, m_eventQueue[d] \o events)
        /\ Sets(generated, generated', d, generated[d] \o events)
    BY <1>1, <2>1, SetsNew DEF StreamDomains
  <2>3. StreamOK(life[d], m_eventQueue[d] \o events, thread[d], generated[d] \o events, delivered[d])
    BY <1>1, GenerateStream DEF Ending
  <2>4. StreamOK(lf, m_eventQueue[d] \o events, thread[d], generated[d] \o events, delivered[d])
    BY <2>3, OtherLifeStream DEF Ending
  <2> QED BY <1>3, <2>2, <2>4, StreamsStep
<1>5. CASE ~configured[d]
  <2>1. /\ m_eventQueue' = [m_eventQueue EXCEPT ![d] = m_eventQueue[d]]
        /\ generated' = [generated EXCEPT ![d] = generated[d]]
    BY <1>5 DEF generate
  <2>2. /\ Sets(m_eventQueue, m_eventQueue', d, m_eventQueue[d])
        /\ Sets(generated, generated', d, generated[d])
    BY <1>1, <2>1, SetsNew DEF StreamDomains
  <2>3. StreamOK(lf, m_eventQueue[d], thread[d], generated[d], delivered[d])
    BY <1>1, OtherLifeStream DEF Ending
  <2> QED BY <1>3, <2>2, <2>3, StreamsStep
<1> QED BY <1>4, <1>5

LEMMA RealEvent ==
    ASSUME NEW type \in {"CanSend", "BasePictureDone", "OutputPictureDone", "CanReceive", "Exit"},
           NEW p \in Picture \cup {NoObject}
    PROVE  <<Event(type, p)>> \in Seq(EventRec) /\ Real(<<Event(type, p)>>)
<1>1. Event(type, p) \in EventRec /\ Event(type, p).type # "Flush"
  BY DEF Event, EventRec
<1> QED BY <1>1 DEF Real

LEMMA initializeHolds ==
    ASSUME ApiInv, NEW a \in Agent, initialize(a)
    PROVE  ApiInv'
<1>1. PICK d : d = call[a].context
  OBVIOUS
<1>2. Pending(call[a]) /\ d \in Context /\ life[d] = "created" /\ DOMAIN life = Context
  BY <1>1, PendingIs, CallerIs, LifeDomain DEF initialize, Inside
<1>3. /\ UNCHANGED pictureVars /\ Leave(a)
      /\ life' = [life EXCEPT ![d] = "initialized"]
      /\ generate(d, <<Event("CanSend", NoObject)>>)
  BY <1>1 DEF initialize
<1>4. Moves(life, life')
  BY <1>2, <1>3 DEF Moves, Live, Gone
<1>5. ShelvesInv' /\ LivesInv' /\ BoundInv' /\ BasesOK'
  BY <1>2, <1>3, <1>4, BodyStays
<1>6. Sets(life, life', d, "initialized")
  BY <1>2, <1>3, SetsNew
<1>7. StreamsInv'
  <2>1. ~Ending(life[d]) /\ ~Ending("initialized") /\ StreamsInv
    BY <1>2 DEF Ending, ApiInv
  <2>2. <<Event("CanSend", NoObject)>> \in Seq(EventRec) /\ Real(<<Event("CanSend", NoObject)>>)
    BY RealEvent
  <2> QED BY <1>2, <1>3, <1>6, <2>1, <2>2, GenerateHolds
<1> QED BY <1>5, <1>7 DEF ApiInv

(* A call that changes the shelf of its decoder, and queues no event. *)
LEMMA ShelfCallHolds ==
    ASSUME ApiInv, NEW a \in Agent, call[a].pc = "inside", NEW d, d = call[a].context,
           NEW pics, NEW locks, NEW where, NEW sent, NEW held,
           ShelfStep(d, pics, locks, where, sent, held), ShelfOK(pics, locks, where, sent, held),
           Bumps(picturePool[d], pics), Bumps(pictureLockPool[d], locks),
           \/ CarriesAll(d, pics, locks, where, held)
           \/ /\ call[a].op \in PictureCall
              /\ CarriesOthers(call[a].handle, d, pics, locks, where, held),
           Leave(a), life' = life, UNCHANGED eventVars, BasesOK'
    PROVE  ApiInv'
<1>1. /\ Pending(call[a]) /\ d \in Context /\ DOMAIN call = Agent
      /\ call' = [call EXCEPT ![a] = NoCall] /\ calls' = calls /\ decoderPool' = decoderPool
  BY PendingIs, CallerIs DEF ApiInv, ShelvesInv, ShelfDomains, Leave
<1>2. CallsAfter(call, call', d, pics, locks, where, held)
  <2>1. CASE CarriesAll(d, pics, locks, where, held)
    BY <1>1, <2>1, AllAfter, FewerLess, PendingIs DEF ApiInv
  <2>2. CASE call[a].op \in PictureCall /\ CarriesOthers(call[a].handle, d, pics, locks, where, held)
    BY <1>1, <2>2, OthersAfter DEF ApiInv
  <2> QED BY <2>1, <2>2
<1>3. Moves(life, life')
  BY LifeDomain
<1>4. ShelvesInv' /\ LivesInv' /\ BoundInv'
  BY <1>1, <1>2, <1>3, BodyHolds
<1>5. StreamsInv'
  BY StreamsRest
<1> QED BY <1>4, <1>5 DEF ApiInv

(* Where the five parts of a shelf stand when they are not written. *)
LEMMA ShelfSets ==
    ASSUME ApiInv, NEW d \in Context
    PROVE  /\ Sets(picturePool, picturePool, d, picturePool[d])
           /\ Sets(pictureLockPool, pictureLockPool, d, pictureLockPool[d])
           /\ Sets(at, at, d, at[d]) /\ Sets(sentAs, sentAs, d, sentAs[d]) /\ Sets(locked, locked, d, locked[d])
           /\ \A x : Sets(picturePool, [picturePool EXCEPT ![d] = x], d, x)
           /\ \A x : Sets(pictureLockPool, [pictureLockPool EXCEPT ![d] = x], d, x)
           /\ \A x : Sets(locked, [locked EXCEPT ![d] = x], d, x)
           /\ \A p, x : Sets(at, [at EXCEPT ![d][p] = x], d, [at[d] EXCEPT ![p] = x])
           /\ \A p, x : Sets(sentAs, [sentAs EXCEPT ![d][p] = x], d, [sentAs[d] EXCEPT ![p] = x])
<1>1. ShelfDomains
  BY DEF ApiInv, ShelvesInv
<1>2. /\ Sets(picturePool, picturePool, d, picturePool[d])
      /\ Sets(pictureLockPool, pictureLockPool, d, pictureLockPool[d])
      /\ Sets(at, at, d, at[d]) /\ Sets(sentAs, sentAs, d, sentAs[d]) /\ Sets(locked, locked, d, locked[d])
  BY <1>1, SetsOld DEF ShelfDomains
<1>3. /\ \A x : Sets(picturePool, [picturePool EXCEPT ![d] = x], d, x)
      /\ \A x : Sets(pictureLockPool, [pictureLockPool EXCEPT ![d] = x], d, x)
      /\ \A x : Sets(locked, [locked EXCEPT ![d] = x], d, x)
  BY <1>1, SetsNew DEF ShelfDomains
<1>4. /\ \A p, x : Sets(at, [at EXCEPT ![d][p] = x], d, [at[d] EXCEPT ![p] = x])
      /\ \A p, x : Sets(sentAs, [sentAs EXCEPT ![d][p] = x], d, [sentAs[d] EXCEPT ![p] = x])
  BY <1>1, SetsDeep DEF ShelfDomains
<1> QED BY <1>2, <1>3, <1>4

LEMMA ShelfBumps ==
    ASSUME ApiInv, NEW d \in Context
    PROVE  Bumps(picturePool[d], picturePool[d]) /\ Bumps(pictureLockPool[d], pictureLockPool[d])
<1>1. PoolOK(picturePool[d], PictureCapacity, Picture) /\ PoolOK(pictureLockPool[d], LockCapacity, Picture)
  BY ShelfFields DEF ApiInv, ShelvesInv
<1>2. Bumps(picturePool[d], picturePool[d])
  BY <1>1, SamePool, NoObjectIsNone
<1>3. Bumps(pictureLockPool[d], pictureLockPool[d])
  BY <1>1, SamePool, NoObjectIsNone
<1> QED BY <1>2, <1>3

LEMMA BasesStay == ASSUME ApiInv, basesDone' = basesDone PROVE BasesOK'
BY DEF ApiInv, BasesOK

LEMMA AllocPictureHolds ==
    ASSUME ApiInv, NEW a \in Agent, AllocPicture(a)
    PROVE  ApiInv'
<1>1. PICK d : d = call[a].context
  OBVIOUS
<1>2. /\ call[a].pc = "inside" /\ Leave(a) /\ life' = life /\ UNCHANGED eventVars
      /\ pictureLockPool' = pictureLockPool /\ sentAs' = sentAs /\ locked' = locked /\ basesDone' = basesDone
  BY DEF AllocPicture, Running, Inside
<1>3. /\ d \in Context /\ Unwrapped(picturePool[d])
      /\ ShelfOK(picturePool[d], pictureLockPool[d], at[d], sentAs[d], locked[d])
  BY <1>1, <1>2, CallerIs, PendingIs
<1>4. CASE \A p \in Picture : at[d][p] # "nowhere"
  <2>1. UNCHANGED pictureVars
    BY <1>1, <1>2, <1>4 DEF AllocPicture, pictureVars
  <2>2. Returns(a)
    BY <1>2, <2>1 DEF Returns, AllocPicture
  <2> QED BY <1>2, <2>2, ReturnsHolds, PendingIs
<1>5. CASE ~(\A p \in Picture : at[d][p] # "nowhere")
  <2>1. PICK p \in Picture : /\ at[d][p] = "nowhere"
                             /\ at' = [at EXCEPT ![d][p] = "idle"]
                             /\ picturePool' = [picturePool EXCEPT ![d] = add(picturePool[d], p).pool]
    BY <1>1, <1>5 DEF AllocPicture
  <2>2. PICK pics, where : pics = add(picturePool[d], p).pool /\ where = [at[d] EXCEPT ![p] = "idle"]
    OBVIOUS
  <2>3. /\ ShelfOK(pics, pictureLockPool[d], where, sentAs[d], locked[d]) /\ Bumps(picturePool[d], pics)
        /\ CarriesAll(d, pics, pictureLockPool[d], where, locked[d])
    BY <1>3, <2>1, <2>2, AllocShelf DEF CarriesAll
  <2>4. ShelfStep(d, pics, pictureLockPool[d], where, sentAs[d], locked[d])
    BY <1>2, <1>3, <2>1, <2>2, ShelfSets DEF ShelfStep
  <2>5. Bumps(pictureLockPool[d], pictureLockPool[d]) /\ BasesOK'
    BY <1>2, <1>3, ShelfBumps, BasesStay
  <2> QED BY <1>1, <1>2, <2>3, <2>4, <2>5, ShelfCallHolds
<1> QED BY <1>4, <1>5

LEMMA FreePictureHolds ==
    ASSUME ApiInv, NEW a \in Agent, FreePicture(a)
    PROVE  ApiInv'
<1>1. PICK d, h, p : d = call[a].context /\ h = call[a].handle /\ p = lookup(picturePool[d], h)
  OBVIOUS
<1>2. /\ call[a].pc = "inside" /\ call[a].op = "free" /\ Leave(a) /\ life' = life /\ UNCHANGED eventVars
      /\ pictureLockPool' = pictureLockPool /\ sentAs' = sentAs /\ locked' = locked /\ basesDone' = basesDone
      /\ picturePool' = [picturePool EXCEPT ![d] = remove(picturePool[d], h)]
      /\ at' = IF p = NoObject THEN at ELSE [at EXCEPT ![d][p] = "nowhere"]
  BY <1>1 DEF FreePicture, Running, Inside
<1>3. /\ d \in Context /\ Unwrapped(picturePool[d])
      /\ ShelfOK(picturePool[d], pictureLockPool[d], at[d], sentAs[d], locked[d])
      /\ CallFits("free", h, picturePool[d], pictureLockPool[d], at[d], locked[d])
  BY <1>1, <1>2, CallerIs, PendingIs
<1>4. PICK pics, where : /\ pics = remove(picturePool[d], h)
                         /\ where = IF p = NoObject THEN at[d] ELSE [at[d] EXCEPT ![p] = "nowhere"]
  OBVIOUS
<1>5. /\ ShelfOK(pics, pictureLockPool[d], where, sentAs[d], locked[d]) /\ Bumps(picturePool[d], pics)
      /\ CarriesOthers(h, d, pics, pictureLockPool[d], where, locked[d])
  BY <1>1, <1>3, <1>4, FreeShelf DEF CarriesOthers
<1>6. ShelfStep(d, pics, pictureLockPool[d], where, sentAs[d], locked[d])
  <2>1. Sets(at, at', d, where)
    BY <1>2, <1>3, <1>4, ShelfSets
  <2> QED BY <1>2, <1>3, <1>4, <2>1, ShelfSets DEF ShelfStep
<1>7. Bumps(pictureLockPool[d], pictureLockPool[d]) /\ BasesOK' /\ "free" \in PictureCall
  BY <1>2, <1>3, ShelfBumps, BasesStay DEF PictureCall
<1> QED BY <1>1, <1>2, <1>5, <1>6, <1>7, ShelfCallHolds

LEMMA LockPictureHolds ==
    ASSUME ApiInv, NEW a \in Agent, LockPicture(a)
    PROVE  ApiInv'
<1>1. PICK d, h, p : d = call[a].context /\ h = call[a].handle /\ p = lookup(picturePool[d], h)
  OBVIOUS
<1>2. /\ call[a].pc = "inside" /\ call[a].op = "lock" /\ Leave(a) /\ life' = life /\ UNCHANGED eventVars
      /\ picturePool' = picturePool /\ at' = at /\ sentAs' = sentAs /\ basesDone' = basesDone
  BY DEF LockPicture, Running, Inside
<1>3. /\ d \in Context /\ Unwrapped(pictureLockPool[d])
      /\ ShelfOK(picturePool[d], pictureLockPool[d], at[d], sentAs[d], locked[d])
      /\ CallFits("lock", h, picturePool[d], pictureLockPool[d], at[d], locked[d])
  BY <1>1, <1>2, CallerIs, PendingIs
<1>4. CASE p = NoObject \/ p \in locked[d]
  <2>1. UNCHANGED pictureVars
    BY <1>1, <1>2, <1>4 DEF LockPicture, pictureVars
  <2>2. Returns(a)
    BY <1>2, <2>1 DEF Returns, LockPicture
  <2> QED BY <1>2, <2>2, ReturnsHolds, PendingIs
<1>5. CASE ~(p = NoObject \/ p \in locked[d])
  <2>1. /\ locked' = [locked EXCEPT ![d] = locked[d] \cup {p}]
        /\ pictureLockPool' = [pictureLockPool EXCEPT ![d] = add(pictureLockPool[d], p).pool]
    BY <1>1, <1>5 DEF LockPicture
  <2>2. PICK locks, held : locks = add(pictureLockPool[d], p).pool /\ held = locked[d] \cup {p}
    OBVIOUS
  <2>3. Returned(picturePool[d], h) /\ PoolOK(picturePool[d], PictureCapacity, Picture) /\ "lock" \in PictureCall
    BY <1>3, ShelfFields DEF CallFits, PictureCall
  <2>4. p \in Picture /\ Holds(picturePool[d], p)
    BY <1>1, <1>5, <2>3, ReturnedFinds, LookupLeads, NoObjectIsNone
  <2>5. /\ ShelfOK(picturePool[d], locks, at[d], sentAs[d], held) /\ Bumps(pictureLockPool[d], locks)
        /\ CarriesOthers(h, d, picturePool[d], locks, at[d], held)
    BY <1>1, <1>3, <1>5, <2>2, <2>3, <2>4, LockShelf DEF CarriesOthers
  <2>6. ShelfStep(d, picturePool[d], locks, at[d], sentAs[d], held)
    BY <1>2, <1>3, <2>1, <2>2, ShelfSets DEF ShelfStep
  <2>7. Bumps(picturePool[d], picturePool[d]) /\ BasesOK'
    BY <1>2, <1>3, ShelfBumps, BasesStay
  <2> QED BY <1>1, <1>2, <2>3, <2>5, <2>6, <2>7, ShelfCallHolds
<1> QED BY <1>4, <1>5

LEMMA UnlockPictureHolds ==
    ASSUME ApiInv, NEW a \in Agent, UnlockPicture(a)
    PROVE  ApiInv'
<1>1. PICK d, h : d = call[a].context /\ h = call[a].handle
  OBVIOUS
<1>2. PICK locks, held : /\ locks = remove(pictureLockPool[d], h)
                         /\ held = locked[d] \ {lookup(pictureLockPool[d], h)}
  OBVIOUS
<1>3. /\ call[a].pc = "inside" /\ call[a].op = "unlock" /\ Leave(a) /\ life' = life /\ UNCHANGED eventVars
      /\ picturePool' = picturePool /\ at' = at /\ sentAs' = sentAs /\ basesDone' = basesDone
      /\ pictureLockPool' = [pictureLockPool EXCEPT ![d] = locks]
      /\ locked' = [locked EXCEPT ![d] = held]
  BY <1>1, <1>2 DEF UnlockPicture, Running, Inside
<1>4. /\ d \in Context /\ Unwrapped(pictureLockPool[d])
      /\ ShelfOK(picturePool[d], pictureLockPool[d], at[d], sentAs[d], locked[d])
      /\ CallFits("unlock", h, picturePool[d], pictureLockPool[d], at[d], locked[d])
  BY <1>1, <1>3, CallerIs, PendingIs
<1>5. Returned(pictureLockPool[d], h)
  BY <1>4 DEF CallFits
<1>6. /\ ShelfOK(picturePool[d], locks, at[d], sentAs[d], held) /\ Bumps(pictureLockPool[d], locks)
      /\ CarriesAll(d, picturePool[d], locks, at[d], held)
  BY <1>2, <1>4, <1>5, UnlockShelf DEF CarriesAll
<1>7. ShelfStep(d, picturePool[d], locks, at[d], sentAs[d], held)
  BY <1>3, <1>4, ShelfSets DEF ShelfStep
<1>8. Bumps(picturePool[d], picturePool[d]) /\ BasesOK'
  BY <1>3, <1>4, ShelfBumps, BasesStay
<1> QED BY <1>1, <1>3, <1>6, <1>7, <1>8, ShelfCallHolds

LEMMA SendHolds ==
    ASSUME ApiInv, NEW a \in Agent, NEW op \in {"sendBase", "sendPicture"}, NEW place \in Place, place # "nowhere",
           Send(a, op, place)
    PROVE  ApiInv'
<1>1. PICK d, h, p : d = call[a].context /\ h = call[a].handle /\ p = lookup(picturePool[d], h)
  OBVIOUS
<1>2. PICK where, sent : where = [at[d] EXCEPT ![p] = place] /\ sent = [sentAs[d] EXCEPT ![p] = h]
  OBVIOUS
<1>3. /\ call[a].pc = "inside" /\ call[a].op = op /\ Leave(a) /\ life' = life /\ UNCHANGED eventVars
      /\ picturePool' = picturePool /\ pictureLockPool' = pictureLockPool /\ locked' = locked
      /\ basesDone' = basesDone
      /\ at' = [at EXCEPT ![d][p] = place] /\ sentAs' = [sentAs EXCEPT ![d][p] = h]
  BY <1>1 DEF Send, Running, Inside
<1>4. /\ d \in Context
      /\ ShelfOK(picturePool[d], pictureLockPool[d], at[d], sentAs[d], locked[d])
      /\ CallFits(op, h, picturePool[d], pictureLockPool[d], at[d], locked[d])
  BY <1>1, <1>3, CallerIs, PendingIs
<1>5. /\ ShelfOK(picturePool[d], pictureLockPool[d], where, sent, locked[d])
      /\ CarriesOthers(h, d, picturePool[d], pictureLockPool[d], where, locked[d])
  <2>1. Sends(h, picturePool[d], pictureLockPool[d], at[d], sentAs[d], locked[d], where, sent)
    BY <1>1, <1>2, <1>4 DEF Sends
  <2> QED BY <2>1, SendShelf DEF CarriesOthers
<1>6. ShelfStep(d, picturePool[d], pictureLockPool[d], where, sent, locked[d])
  BY <1>2, <1>3, <1>4, ShelfSets DEF ShelfStep
<1>7. /\ Bumps(picturePool[d], picturePool[d]) /\ Bumps(pictureLockPool[d], pictureLockPool[d])
      /\ BasesOK' /\ op \in PictureCall
  BY <1>3, <1>4, ShelfBumps, BasesStay DEF PictureCall
<1> QED BY <1>1, <1>3, <1>5, <1>6, <1>7, ShelfCallHolds

(* A picture is given back. *)
LEMMA ReceiveHolds ==
    ASSUME ApiInv, NEW a \in Agent, call[a].pc = "inside", NEW d, d = call[a].context,
           NEW p \in Picture, at' = [at EXCEPT ![d][p] = "idle"],
           Leave(a), BasesOK',
           UNCHANGED <<life, picturePool, pictureLockPool, sentAs, locked, eventVars>>
    PROVE  ApiInv'
<1>1. /\ d \in Context
      /\ ShelfOK(picturePool[d], pictureLockPool[d], at[d], sentAs[d], locked[d])
  BY CallerIs, PendingIs
<1>2. PICK where : where = [at[d] EXCEPT ![p] = "idle"]
  OBVIOUS
<1>3. /\ ShelfOK(picturePool[d], pictureLockPool[d], where, sentAs[d], locked[d])
      /\ CarriesAll(d, picturePool[d], pictureLockPool[d], where, locked[d])
  BY <1>1, <1>2, ReceiveShelf DEF CarriesAll
<1>4. ShelfStep(d, picturePool[d], pictureLockPool[d], where, sentAs[d], locked[d])
  BY <1>1, <1>2, ShelfSets DEF ShelfStep
<1>5. Bumps(picturePool[d], picturePool[d]) /\ Bumps(pictureLockPool[d], pictureLockPool[d])
  BY <1>1, ShelfBumps
<1>6. life' = life /\ UNCHANGED eventVars
  OBVIOUS
<1> QED BY <1>3, <1>4, <1>5, <1>6, ShelfCallHolds

LEMMA ReceiveDecoderBaseHolds ==
    ASSUME ApiInv, NEW a \in Agent, ReceiveDecoderBase(a)
    PROVE  ApiInv'
<1>1. PICK d : d = call[a].context
  OBVIOUS
<1>2. /\ call[a].pc = "inside" /\ Leave(a)
      /\ UNCHANGED <<life, picturePool, pictureLockPool, sentAs, locked, eventVars>>
  BY DEF ReceiveDecoderBase, Running, Inside
<1>3. d \in Context /\ DOMAIN basesDone = Context /\ basesDone[d] \in Seq(Picture)
  BY <1>1, <1>2, CallerIs, PendingIs DEF ApiInv, BasesOK
<1>4. CASE basesDone[d] = <<>>
  <2>1. UNCHANGED pictureVars
    BY <1>1, <1>2, <1>4 DEF ReceiveDecoderBase, pictureVars
  <2>2. Returns(a)
    BY <1>2, <2>1 DEF Returns, ReceiveDecoderBase
  <2> QED BY <1>2, <2>2, ReturnsHolds, PendingIs
<1>5. CASE basesDone[d] # <<>>
  <2>1. PICK p \in Picture : p = Head(basesDone[d])
    BY <1>3, <1>5
  <2>2. at' = [at EXCEPT ![d][p] = "idle"] /\ basesDone' = [basesDone EXCEPT ![d] = Tail(basesDone[d])]
    BY <1>1, <1>5, <2>1 DEF ReceiveDecoderBase
  <2>3. Tail(basesDone[d]) \in Seq(Picture)
    BY <1>3, <1>5
  <2>4. BasesOK'
    BY <1>3, <2>2, <2>3 DEF BasesOK, ApiInv
  <2> QED BY <1>1, <1>2, <2>2, <2>4, ReceiveHolds
<1> QED BY <1>4, <1>5

LEMMA ReceiveDecoderPictureHolds ==
    ASSUME ApiInv, NEW a \in Agent, ReceiveDecoderPicture(a)
    PROVE  ApiInv'
<1>1. PICK d, done : d = call[a].context /\ done = {p \in Picture : at[d][p] = "outputDone"}
  OBVIOUS
<1>2. /\ call[a].pc = "inside" /\ Leave(a) /\ basesDone' = basesDone
      /\ UNCHANGED <<life, picturePool, pictureLockPool, sentAs, locked, eventVars>>
  BY DEF ReceiveDecoderPicture, Running, Inside
<1>3. CASE done = {}
  <2>1. UNCHANGED pictureVars
    BY <1>1, <1>2, <1>3 DEF ReceiveDecoderPicture, pictureVars
  <2>2. Returns(a)
    BY <1>2, <2>1 DEF Returns, ReceiveDecoderPicture
  <2> QED BY <1>2, <2>2, ReturnsHolds, PendingIs
<1>4. CASE done # {}
  <2>1. PICK p \in Picture : at' = [at EXCEPT ![d][p] = "idle"]
    BY <1>1, <1>4 DEF ReceiveDecoderPicture
  <2>2. BasesOK'
    BY <1>2, BasesStay
  <2> QED BY <1>1, <1>2, <2>1, <2>2, ReceiveHolds
<1> QED BY <1>3, <1>4

LEMMA BodyKeeps ==
    ASSUME ApiInv, NEW a \in Agent, Body(a)
    PROVE  ApiInv'
<1>1. CASE WrongPhase(a)
  BY <1>1, ReturnsHolds, PendingIs DEF WrongPhase
<1>2. CASE configure(a) \/ initialize(a)
  BY <1>2, configureHolds, initializeHolds
<1>3. CASE AllocPicture(a) \/ FreePicture(a) \/ LockPicture(a) \/ UnlockPicture(a)
  BY <1>3, AllocPictureHolds, FreePictureHolds, LockPictureHolds, UnlockPictureHolds
<1>4. CASE SendDecoderBase(a)
  <2>1. "base" \in Place /\ "base" # "nowhere"
    BY DEF Place, InPipeline
  <2> QED BY <1>4, <2>1, SendHolds DEF SendDecoderBase
<1>5. CASE SendDecoderPicture(a)
  <2>1. "output" \in Place /\ "output" # "nowhere"
    BY DEF Place, InPipeline
  <2> QED BY <1>5, <2>1, SendHolds DEF SendDecoderPicture
<1>6. CASE ReceiveDecoderBase(a) \/ ReceiveDecoderPicture(a)
  BY <1>6, ReceiveDecoderBaseHolds, ReceiveDecoderPictureHolds
<1>7. CASE SynchronizeDecoder(a)
  BY <1>7, ReturnsHolds, PendingIs DEF SynchronizeDecoder, Running, Inside
<1> QED BY <1>1, <1>2, <1>3, <1>4, <1>5, <1>6, <1>7 DEF Body

-----------------------------------------------------------------------------
(* Calls that begin, and what the pipeline and the event thread do.         *)

(* No call ends and no pool changes. *)
LEMMA BoundStays ==
    ASSUME ApiInv, Busy' = Busy, calls' = calls, decoderPool' = decoderPool,
           picturePool' = picturePool, pictureLockPool' = pictureLockPool
    PROVE  BoundInv'
BY DEF ApiInv, BoundInv, Done

LEMMA CallsSame ==
    ASSUME ApiInv, call' = call
    PROVE  /\ Busy' = Busy /\ Fewer(call, call') /\ DOMAIN call = Agent
           /\ \A a \in Agent : call'[a].pc = "destroying" => call[a].pc = "destroying" /\ call'[a].context = call[a].context
           /\ \A a \in Agent : Pending(call[a]) => call[a].context \in Context
BY FewerSame DEF Busy, ApiInv, ShelvesInv, ShelfDomains, Fits

LEMMA lockHolds ==
    ASSUME ApiInv, NEW a \in Agent, lock(a)
    PROVE  ApiInv'
<1>1. /\ call[a].pc = "locking" /\ call' = [call EXCEPT ![a] = [call[a] EXCEPT !.pc = "inside"]] /\ calls' = calls
      /\ decoderPool' = decoderPool /\ life' = life /\ UNCHANGED pictureVars /\ UNCHANGED eventVars
  BY DEF lock
<1>2. DOMAIN call = Agent /\ DOMAIN call' = Agent
  BY <1>1 DEF ApiInv, ShelvesInv, ShelfDomains
<1>3. ASSUME NEW b \in Agent
      PROVE  /\ Pending(call'[b]) <=> Pending(call[b])
             /\ Pending(call[b]) => /\ call'[b].context = call[b].context
                                    /\ call'[b].op = call[b].op /\ call'[b].handle = call[b].handle
             /\ call'[b].pc = "destroying" => call[b].pc = "destroying" /\ call'[b].context = call[b].context
  <2>1. CASE b # a
    BY <1>1, <1>2, <2>1
  <2>2. CASE b = a
    <3>1. call'[a] = [call[a] EXCEPT !.pc = "inside"] /\ call[a].pc = "locking"
      BY <1>1, <1>2
    <3>2. Pending(call[a]) /\ call'[a].pc = "inside"
      BY <3>1 DEF Pending
    <3> QED BY <2>2, <3>1, <3>2 DEF Pending
  <2> QED BY <2>1, <2>2
<1>4. Fewer(call, call') /\ Busy' = Busy
  <2>1. Fewer(call, call')
    BY <1>2, <1>3 DEF Fewer
  <2>2. Busy' = Busy
    BY <1>3 DEF Busy
  <2> QED BY <2>1, <2>2
<1>5. ShelvesInv'
  BY <1>1, <1>4, ShelvesStay DEF ApiInv
<1>6. LivesInv'
  <2>1. Enters(at, at', life)
    BY <1>1 DEF Enters, pictureVars
  <2>2. \A b \in Agent : Pending(call[b]) => call[b].context \in Context
    BY DEF ApiInv, ShelvesInv, Fits
  <2> QED BY <1>1, <1>3, <1>4, <2>1, <2>2, LifeDomain, LivesStay DEF ApiInv
<1>7. BoundInv' /\ BasesOK'
  <2>1. BoundInv'
    BY <1>1, <1>4, BoundStays DEF pictureVars
  <2>2. BasesOK'
    BY <1>1, BasesStay DEF pictureVars
  <2> QED BY <2>1, <2>2
<1>8. StreamsInv'
  BY <1>1, StreamsRest
<1> QED BY <1>5, <1>6, <1>7, <1>8 DEF ApiInv

LEMMA MadeIs ==
    ASSUME NEW capacity \in Nat, NEW S, NEW p, PoolOK(p, capacity, S), NEW h \in Made(p)
    PROVE  Returned(p, h) /\ h.index \in 0 .. capacity - 1
<1>1. DOMAIN p.generations = 0 .. capacity - 1 /\ Slots(p) = 0 .. capacity - 1
  BY PoolFields
<1>2. PICK i \in 0 .. capacity - 1, g \in 1 .. 2 * MaxCalls + 1 :
         h = handleMake(i, g) /\ h.generation % 2 = 1 /\ h.generation <= p.generations[h.index]
  BY <1>1 DEF Made
<1>3. h.index = i /\ h.generation = g /\ i \in Nat /\ g \in Nat
  BY <1>2, ApiAssumption DEF handleMake
<1>4. h \in Word
  BY <1>2, <1>3 DEF handleMake, Word
<1> QED BY <1>1, <1>2, <1>3, <1>4 DEF Returned, Odd

(* What may be asked fits the shelf; a picture's handle is not the one that *)
(* no pool returns.                                                         *)
LEMMA PresentableFits ==
    ASSUME ApiInv, NEW d \in Context, NEW o \in Presentable(d)
    PROVE  /\ CallFits(o[1], o[2], picturePool[d], pictureLockPool[d], at[d], locked[d])
           /\ o[1] \in PictureCall => o[2] # InvalidHandle
<1>1. /\ PoolOK(picturePool[d], PictureCapacity, Picture)
      /\ PoolOK(pictureLockPool[d], LockCapacity, Picture)
  BY ShelfFields DEF ApiInv, ShelvesInv
<1>2. ASSUME NEW h \in Made(picturePool[d]) PROVE Returned(picturePool[d], h) /\ h # InvalidHandle
  <2>1. Returned(picturePool[d], h) /\ h.index \in 0 .. PictureCapacity - 1
    BY <1>1, <1>2, MadeIs, NoObjectIsNone
  <2>2. h.index # NoIndex
    BY <2>1, ApiAssumption, GenerationsAssumption
  <2> QED BY <2>1, <2>2 DEF InvalidHandle, handleMake
<1>3. ASSUME NEW h \in Made(pictureLockPool[d]) PROVE Returned(pictureLockPool[d], h)
  BY <1>1, <1>3, MadeIs, NoObjectIsNone
<1>4. CASE o[1] \in {"configure", "initialize", "alloc", "receiveBase", "receivePicture", "synchronize"}
  BY <1>4 DEF CallFits, PictureCall
<1>5. CASE o \in {"lock"} \X Made(picturePool[d])
  BY <1>2, <1>5 DEF CallFits, PictureCall
<1>6. CASE o \in {"unlock"} \X Made(pictureLockPool[d])
  BY <1>3, <1>6 DEF CallFits, PictureCall
<1>7. ASSUME o[1] = "free", o[2] \in Made(picturePool[d]),
             \/ ~isValid(picturePool[d], o[2])
             \/ LET p == lookup(picturePool[d], o[2]) IN p # NoObject /\ at[d][p] = "idle" /\ p \notin locked[d]
      PROVE  /\ CallFits(o[1], o[2], picturePool[d], pictureLockPool[d], at[d], locked[d])
             /\ o[2] # InvalidHandle
  <2>1. ~isValid(picturePool[d], o[2]) => lookup(picturePool[d], o[2]) = NoObject
    BY DEF lookup
  <2> QED BY <1>2, <1>7, <2>1 DEF CallFits, PictureCall
<1>8. ASSUME o[1] \in {"sendBase", "sendPicture"}, o[2] \in Made(picturePool[d]),
             LET p == lookup(picturePool[d], o[2]) IN p # NoObject /\ at[d][p] = "idle" /\ p \notin locked[d]
      PROVE  /\ CallFits(o[1], o[2], picturePool[d], pictureLockPool[d], at[d], locked[d])
             /\ o[2] # InvalidHandle
  BY <1>2, <1>8 DEF CallFits, PictureCall
<1>9. \/ o[1] \in {"configure", "initialize", "alloc", "receiveBase", "receivePicture", "synchronize"}
      \/ o \in {"lock"} \X Made(picturePool[d])
      \/ o \in {"unlock"} \X Made(pictureLockPool[d])
      \/ /\ o[1] = "free" /\ o[2] \in Made(picturePool[d])
         /\ \/ ~isValid(picturePool[d], o[2])
            \/ LET p == lookup(picturePool[d], o[2]) IN p # NoObject /\ at[d][p] = "idle" /\ p \notin locked[d]
      \/ /\ o[1] \in {"sendBase", "sendPicture"} /\ o[2] \in Made(picturePool[d])
         /\ LET p == lookup(picturePool[d], o[2]) IN p # NoObject /\ at[d][p] = "idle" /\ p \notin locked[d]
  BY DEF Presentable
<1> QED BY <1>4, <1>5, <1>6, <1>7, <1>8, <1>9

(* One more call is under way: it takes a generation only when it is made.  *)
LEMMA BusyMore ==
    ASSUME ApiInv, NEW a \in Agent, ~Pending(call[a]), NEW new, Pending(new),
           call' = [call EXCEPT ![a] = new], calls' = calls + 1, calls < MaxCalls
    PROVE  /\ IsFiniteSet(Busy') /\ calls' \in Nat /\ calls' <= MaxCalls /\ Done' = Done
<1>1. DOMAIN call = Agent
  BY DEF ApiInv, ShelvesInv, ShelfDomains
<1>2. Busy' = Busy \cup {a} /\ a \notin Busy
  BY <1>1 DEF Busy
<1>3. /\ IsFiniteSet(Busy') /\ Cardinality(Busy') = Cardinality(Busy) + 1
      /\ Cardinality(Busy) \in Nat
  BY <1>2, FS_AddElement, FS_CardinalityType DEF ApiInv, BoundInv
<1>4. calls \in Nat /\ calls <= MaxCalls /\ Done \in Nat /\ MaxCalls \in Nat
  BY ApiAssumption DEF ApiInv, BoundInv
<1> QED BY <1>3, <1>4 DEF Done

(* A call is made and returns at once, or one that changes no shelf is.    *)
LEMMA BoundMore ==
    ASSUME ApiInv, Busy' = Busy, calls' = calls + 1, calls < MaxCalls,
           picturePool' = picturePool, pictureLockPool' = pictureLockPool,
           PoolOK(decoderPool', DecoderCapacity, Context), Bumps(decoderPool, decoderPool')
    PROVE  BoundInv'
<1>1. Cardinality(Busy) \in Nat
  BY FS_CardinalityType DEF ApiInv, BoundInv
<1>2. /\ IsFiniteSet(Busy') /\ calls' \in Nat /\ calls' <= MaxCalls /\ Done' \in Nat
      /\ Done' = Done + 1 /\ Done \in Nat
  BY <1>1, ApiAssumption DEF ApiInv, BoundInv, Done
<1>3. Bounded(decoderPool', Done')
  BY <1>2, StillBounded, NoObjectIsNone DEF ApiInv, LivesInv, BoundInv
<1>4. ASSUME NEW e \in Context PROVE Bounded(picturePool'[e], Done') /\ Bounded(pictureLockPool'[e], Done')
  <2>1. /\ PoolOK(picturePool[e], PictureCapacity, Picture) /\ Bounded(picturePool[e], Done)
        /\ PoolOK(pictureLockPool[e], LockCapacity, Picture) /\ Bounded(pictureLockPool[e], Done)
    BY ShelfFields DEF ApiInv, ShelvesInv, BoundInv
  <2>2. Bounded(picturePool[e], Done + 1)
    BY <1>2, <2>1, BoundedMore, NoObjectIsNone
  <2>3. Bounded(pictureLockPool[e], Done + 1)
    BY <1>2, <2>1, BoundedMore, NoObjectIsNone
  <2> QED BY <1>2, <2>2, <2>3
<1> QED BY <1>2, <1>3, <1>4 DEF BoundInv

LEMMA DecoderIs ==
    ASSUME ApiInv, NEW h \in Made(decoderPool), NEW d, d = lookup(decoderPool, h), d # NoObject
    PROVE  /\ d \in Context /\ life[d] \in Live /\ Holds(decoderPool, d)
           /\ Returned(decoderPool, h) /\ isValid(decoderPool, h)
<1>1. Returned(decoderPool, h) /\ PoolOK(decoderPool, DecoderCapacity, Context)
  BY MadeIs, NoObjectIsNone DEF ApiInv, LivesInv
<1>2. d \in Context \cup {NoObject}
  BY <1>1, ReturnedFinds, NoObjectIsNone
<1>3. Leads(decoderPool, h, d) /\ Holds(decoderPool, d)
  BY LookupLeads
<1> QED BY <1>1, <1>2, <1>3 DEF ApiInv, LivesInv, Leads

LEMMA LockedDecoderHolds ==
    ASSUME ApiInv, NEW a \in Agent, NEW h \in Made(decoderPool), LockedDecoder(a, h)
    PROVE  ApiInv'
<1>1. PICK d : d = lookup(decoderPool, h)
  OBVIOUS
<1>2. /\ call[a].pc = "idle" /\ calls < MaxCalls /\ calls' = calls + 1
      /\ decoderPool' = decoderPool /\ life' = life /\ UNCHANGED pictureVars /\ UNCHANGED eventVars
  BY DEF LockedDecoder, MayCall
<1>3. /\ picturePool' = picturePool /\ pictureLockPool' = pictureLockPool /\ at' = at
      /\ sentAs' = sentAs /\ locked' = locked /\ basesDone' = basesDone
  BY <1>2 DEF pictureVars
<1>4. StreamsInv' /\ BasesOK' /\ DOMAIN call = Agent
  BY <1>2, <1>3, StreamsRest, BasesStay DEF ApiInv, ShelvesInv, ShelfDomains
<1>5. CASE d = NoObject
  <2>1. call' = call
    BY <1>1, <1>5 DEF LockedDecoder
  <2>2. ShelvesInv'
    BY <1>2, <2>1, CallsSame, ShelvesStay DEF ApiInv
  <2>3. LivesInv'
    <3>1. Enters(at, at', life)
      BY <1>3 DEF Enters
    <3> QED BY <1>2, <2>1, <3>1, CallsSame, LifeDomain, LivesStay DEF ApiInv
  <2>4. BoundInv'
    <3>1. Busy' = Busy
      BY <2>1, CallsSame
    <3>2. PoolOK(decoderPool', DecoderCapacity, Context) /\ Bumps(decoderPool, decoderPool')
      BY <1>2, SamePool, NoObjectIsNone DEF ApiInv, LivesInv
    <3> QED BY <1>2, <1>3, <3>1, <3>2, BoundMore
  <2> QED BY <1>4, <2>2, <2>3, <2>4 DEF ApiInv
<1>6. CASE d # NoObject
  <2>1. PICK o \in Presentable(d) :
            /\ o[2] = InvalidHandle \/ \A b \in Agent : ~Presents(b, d, o[1], o[2])
            /\ call' = [call EXCEPT ![a] = [op |-> o[1], context |-> d, handle |-> o[2], pc |-> "locking"]]
    BY <1>1, <1>6 DEF LockedDecoder
  <2>2. PICK new : new = [op |-> o[1], context |-> d, handle |-> o[2], pc |-> "locking"]
    OBVIOUS
  <2>3. /\ new.op = o[1] /\ new.context = d /\ new.handle = o[2] /\ new.pc = "locking" /\ Pending(new)
        /\ ~Pending(call[a])
    BY <1>2, <2>2 DEF Pending
  <2>4. /\ DOMAIN call' = Agent /\ call'[a] = new
        /\ \A b \in Agent \ {a} : call'[b] = call[b]
    BY <1>4, <2>1, <2>2
  <2>5. d \in Context /\ life[d] \in Live
    BY <1>1, <1>6, DecoderIs
  <2>6. /\ CallFits(o[1], o[2], picturePool[d], pictureLockPool[d], at[d], locked[d])
        /\ o[1] \in PictureCall => o[2] # InvalidHandle
    BY <2>5, PresentableFits
  <2>7. ShelvesInv'
    <3>1. ShelfDomains'
      BY <1>3, <2>4 DEF ApiInv, ShelvesInv, ShelfDomains
    <3>2. \A e \in Context : ShelfOK(picturePool'[e], pictureLockPool'[e], at'[e], sentAs'[e], locked'[e])
      BY <1>3 DEF ApiInv, ShelvesInv
    <3>3. ASSUME NEW b \in Agent, Pending(call'[b]) PROVE Fits(b)'
      <4>1. CASE b = a
        BY <1>3, <2>3, <2>4, <2>5, <2>6, <4>1 DEF Fits
      <4>2. CASE b # a
        <5>1. call'[b] = call[b] /\ Fits(b)
          BY <2>4, <3>3, <4>2 DEF ApiInv, ShelvesInv
        <5> QED BY <1>3, <5>1 DEF Fits
      <4> QED BY <4>1, <4>2
    <3>4. ASSUME NEW b \in Agent, b # a, Contend(new, call[b])
          PROVE  o[2] # call[b].handle
      <4>1. /\ call[b].context = d /\ o[1] \in PictureCall /\ call[b].op \in PictureCall
        BY <2>3, <3>4 DEF Contend
      <4>2. ~Presents(b, d, o[1], o[2])
        BY <2>1, <2>6, <4>1
      <4> QED BY <4>1, <4>2 DEF Presents, PictureCall
    <3>5. ASSUME NEW b \in Agent, NEW c \in Agent, b # c, Contend(call'[b], call'[c])
          PROVE  call'[b].handle # call'[c].handle
      <4>1. CASE b = a
        BY <2>3, <2>4, <3>4, <3>5, <4>1
      <4>2. CASE c = a
        <5>1. Contend(new, call[b]) /\ call'[b] = call[b] /\ call'[c] = new
          BY <2>4, <3>5, <4>2 DEF Contend
        <5> QED BY <2>3, <3>4, <3>5, <4>2, <5>1
      <4>3. CASE b # a /\ c # a
        BY <2>4, <3>5, <4>3 DEF ApiInv, ShelvesInv
      <4> QED BY <4>1, <4>2, <4>3
    <3> QED BY <3>1, <3>2, <3>3, <3>5 DEF ShelvesInv
  <2>8. LivesInv'
    <3>1. ASSUME NEW b \in Agent, Pending(call'[b]) PROVE life'[call'[b].context] \in Live
      <4>1. CASE b = a
        BY <1>2, <2>3, <2>4, <2>5, <4>1
      <4>2. CASE b # a
        BY <1>2, <2>4, <3>1, <4>2 DEF ApiInv, LivesInv
      <4> QED BY <4>1, <4>2
    <3>2. ASSUME NEW b \in Agent, call'[b].pc = "destroying"
          PROVE  call'[b].context \in Context /\ Gone(life'[call'[b].context])
      <4>1. b # a
        BY <2>3, <2>4, <3>2
      <4> QED BY <1>2, <2>4, <3>2, <4>1 DEF ApiInv, LivesInv
    <3>3. QuietOK'
      BY <1>2, <1>3 DEF ApiInv, LivesInv, QuietOK
    <3>4. /\ DOMAIN life' = Context
          /\ PoolOK(decoderPool', DecoderCapacity, Context) /\ Unique(decoderPool')
          /\ \A e \in Context : Holds(decoderPool', e) => life'[e] \in Live
      BY <1>2 DEF ApiInv, LivesInv
    <3> QED BY <3>1, <3>2, <3>3, <3>4 DEF LivesInv
  <2>9. BoundInv'
    <3>1. /\ IsFiniteSet(Busy') /\ calls' \in Nat /\ calls' <= MaxCalls /\ Done' = Done
      BY <1>2, <2>1, <2>2, <2>3, BusyMore
    <3> QED BY <1>2, <1>3, <3>1 DEF ApiInv, BoundInv
  <2> QED BY <1>4, <2>7, <2>8, <2>9 DEF ApiInv
<1> QED BY <1>5, <1>6

-----------------------------------------------------------------------------
(* Steps in which nobody's call changes: the pipeline, the event thread,    *)
(* and most of a destruction.                                               *)
LEMMA LivesSame ==
    ASSUME ApiInv, call' = call, decoderPool' = decoderPool, Moves(life, life'), Enters(at, at', life)
    PROVE  LivesInv'
BY CallsSame, LivesStay DEF ApiInv

LEMMA EntersSame == ASSUME at' = at PROVE Enters(at, at', life)
BY DEF Enters

LEMMA QuietPool ==
    ASSUME ApiInv, UNCHANGED pictureVars, call' = call, calls' = calls, decoderPool' = decoderPool,
           Moves(life, life')
    PROVE  ShelvesInv' /\ LivesInv' /\ BoundInv' /\ BasesOK'
<1>1. /\ picturePool' = picturePool /\ pictureLockPool' = pictureLockPool /\ at' = at /\ basesDone' = basesDone
  BY DEF pictureVars
<1>2. ShelvesInv'
  BY CallsSame, ShelvesStay DEF ApiInv
<1>3. LivesInv'
  BY <1>1, LivesSame, EntersSame
<1>4. BoundInv'
  BY <1>1, CallsSame, BoundStays
<1> QED BY <1>1, <1>2, <1>3, <1>4, BasesStay

LEMMA InPipelineLives ==
    ASSUME ApiInv, NEW d \in Context, NEW p \in Picture, at[d][p] \in InPipeline
    PROVE  ~Ending(life[d]) /\ (Gone(life[d]) => FALSE)
BY DEF ApiInv, LivesInv, QuietOK, Ending, Gone, Live

(* A task moves a picture on. *)
LEMMA MoveHolds ==
    ASSUME ApiInv, NEW d \in Context, NEW p \in Picture, at[d][p] \in InPipeline,
           NEW place \in Place \ Lying, at' = [at EXCEPT ![d][p] = place],
           UNCHANGED <<decoderVars, callVars, picturePool, pictureLockPool, sentAs, locked>>
    PROVE  ShelvesInv' /\ LivesInv' /\ BoundInv'
<1>1. /\ decoderPool' = decoderPool /\ life' = life /\ call' = call /\ calls' = calls
      /\ picturePool' = picturePool /\ pictureLockPool' = pictureLockPool /\ sentAs' = sentAs /\ locked' = locked
  BY DEF decoderVars, callVars
<1>2. PICK where : where = [at[d] EXCEPT ![p] = place]
  OBVIOUS
<1>3. ShelfOK(picturePool[d], pictureLockPool[d], at[d], sentAs[d], locked[d]) /\ at[d][p] \notin Lying
  BY DEF ApiInv, ShelvesInv, InPipeline, Lying
<1>4. /\ ShelfOK(picturePool[d], pictureLockPool[d], where, sentAs[d], locked[d])
      /\ CarriesAll(d, picturePool[d], pictureLockPool[d], where, locked[d])
  BY <1>2, <1>3, MoveShelf DEF CarriesAll
<1>5. ShelfStep(d, picturePool[d], pictureLockPool[d], where, sentAs[d], locked[d])
  BY <1>1, <1>2, ShelfSets DEF ShelfStep
<1>6. Fewer(call, call') /\ CallsAfter(call, call', d, picturePool[d], pictureLockPool[d], where, locked[d])
  BY <1>1, <1>4, CallsSame, AllAfter DEF ApiInv
<1>7. ShelvesInv'
  BY <1>4, <1>5, <1>6, ShelvesStep DEF ApiInv
<1>8. LivesInv'
  <2>1. ~Gone(life[d]) /\ DOMAIN at = Context
    BY InPipelineLives DEF ApiInv, ShelvesInv, ShelfDomains
  <2>2. ASSUME NEW e \in Context, NEW x \in Picture, at'[e][x] \in InPipeline
        PROVE  at[e][x] \in InPipeline \/ life[e] \in Live
    <3>1. CASE e # d
      BY <2>1, <2>2, <3>1
    <3>2. CASE e = d /\ x # p
      <4>1. at'[e] = [at[e] EXCEPT ![p] = place]
        BY <2>1, <3>2
      <4>2. at[e] \in [Picture -> Place]
        BY <1>3, <3>2, ShelfFields
      <4> QED BY <2>2, <3>2, <4>1, <4>2
    <3>3. CASE e = d /\ x = p
      BY <3>3
    <3> QED BY <3>1, <3>2, <3>3
  <2>3. Enters(at, at', life)
    BY <2>2 DEF Enters
  <2> QED BY <1>1, <2>3, LifeDomain, LivesSame
<1>9. BoundInv'
  BY <1>1, CallsSame, BoundStays
<1> QED BY <1>7, <1>8, <1>9

LEMMA BaseAnnouncedHolds ==
    ASSUME ApiInv, NEW d \in Context, NEW p \in Picture, BaseAnnounced(d, p)
    PROVE  ApiInv'
<1>1. /\ at[d][p] = "base" /\ at' = [at EXCEPT ![d][p] = "announced"]
      /\ generate(d, <<Event("BasePictureDone", p)>>)
      /\ UNCHANGED <<decoderVars, callVars, picturePool, pictureLockPool, sentAs, locked>>
      /\ basesDone' = basesDone
  BY DEF BaseAnnounced
<1>2. at[d][p] \in InPipeline /\ "announced" \in Place \ Lying
  BY <1>1 DEF InPipeline, Place, Lying
<1>3. ShelvesInv' /\ LivesInv' /\ BoundInv'
  BY <1>1, <1>2, MoveHolds
<1>4. <<Event("BasePictureDone", p)>> \in Seq(EventRec) /\ Real(<<Event("BasePictureDone", p)>>)
  BY RealEvent
<1>5. ~Ending(life[d]) /\ Sets(life, life', d, life[d])
  <2>1. life' = life
    BY <1>1 DEF decoderVars
  <2> QED BY <1>2, <2>1, InPipelineLives, LifeDomain, SetsOld
<1>6. StreamsInv'
  BY <1>1, <1>4, <1>5, GenerateHolds DEF ApiInv
<1> QED BY <1>1, <1>3, <1>6, BasesStay DEF ApiInv

LEMMA BasePushedHolds ==
    ASSUME ApiInv, NEW d \in Context, NEW p \in Picture, BasePushed(d, p)
    PROVE  ApiInv'
<1>1. /\ at[d][p] = "announced" /\ at' = [at EXCEPT ![d][p] = "baseDone"]
      /\ UNCHANGED <<decoderVars, callVars, picturePool, pictureLockPool, sentAs, locked>>
      /\ basesDone' = [basesDone EXCEPT ![d] = Append(basesDone[d], p)]
      /\ UNCHANGED eventVars /\ life' = life
  BY DEF BasePushed, decoderVars
<1>2. at[d][p] \in InPipeline /\ "baseDone" \in Place \ Lying
  BY <1>1 DEF InPipeline, Place, Lying
<1>3. ShelvesInv' /\ LivesInv' /\ BoundInv'
  BY <1>1, <1>2, MoveHolds
<1>4. BasesOK'
  <2>1. DOMAIN basesDone = Context /\ basesDone[d] \in Seq(Picture) /\ \A e \in Context : basesDone[e] \in Seq(Picture)
    BY DEF ApiInv, BasesOK
  <2>2. Append(basesDone[d], p) \in Seq(Picture)
    BY <2>1
  <2> QED BY <1>1, <2>1, <2>2 DEF BasesOK
<1>5. StreamsInv'
  BY <1>1, StreamsRest
<1> QED BY <1>3, <1>4, <1>5 DEF ApiInv

LEMMA OutputDoneHolds ==
    ASSUME ApiInv, NEW d \in Context, NEW p \in Picture, OutputDone(d, p)
    PROVE  ApiInv'
<1>0. PICK events : events = <<Event("OutputPictureDone", p), Event("CanReceive", NoObject)>>
  OBVIOUS
<1>1. /\ at[d][p] = "output" /\ at' = [at EXCEPT ![d][p] = "outputDone"]
      /\ generate(d, events)
      /\ UNCHANGED <<decoderVars, callVars, picturePool, pictureLockPool, sentAs, locked>>
      /\ basesDone' = basesDone
  BY <1>0 DEF OutputDone
<1>2. at[d][p] \in InPipeline /\ "outputDone" \in Place \ Lying
  BY <1>1 DEF InPipeline, Place, Lying
<1>3. ShelvesInv' /\ LivesInv' /\ BoundInv'
  BY <1>1, <1>2, MoveHolds
<1>4. events \in Seq(EventRec) /\ Real(events)
  <2>1. /\ Event("OutputPictureDone", p) \in EventRec /\ Event("OutputPictureDone", p).type # "Flush"
        /\ Event("CanReceive", NoObject) \in EventRec /\ Event("CanReceive", NoObject).type # "Flush"
    BY DEF Event, EventRec
  <2> QED BY <1>0, <2>1 DEF Real
<1>5. ~Ending(life[d]) /\ Sets(life, life', d, life[d])
  <2>1. life' = life
    BY <1>1 DEF decoderVars
  <2> QED BY <1>2, <2>1, InPipelineLives, LifeDomain, SetsOld
<1>6. StreamsInv'
  BY <1>1, <1>4, <1>5, GenerateHolds DEF ApiInv
<1> QED BY <1>1, <1>3, <1>6, BasesStay DEF ApiInv

(* The event thread changes nothing but its stream. *)
LEMMA ThreadHolds ==
    ASSUME ApiInv, UNCHANGED <<decoderVars, pictureVars, callVars>>,
           NEW d \in Context, NEW q, NEW th, NEW del,
           Sets(m_eventQueue, m_eventQueue', d, q), Sets(thread, thread', d, th),
           generated' = generated, Sets(delivered, delivered', d, del),
           StreamOK(life[d], q, th, generated[d], del)
    PROVE  ApiInv'
<1>1. /\ UNCHANGED pictureVars /\ call' = call /\ calls' = calls /\ decoderPool' = decoderPool /\ life' = life
  BY DEF decoderVars, callVars
<1>2. ShelvesInv' /\ LivesInv' /\ BoundInv' /\ BasesOK'
  BY <1>1, QuietPool, LifeDomain
<1>3. Sets(life, life', d, life[d]) /\ Sets(generated, generated', d, generated[d])
  BY <1>1, LifeDomain, SetsOld DEF ApiInv, StreamsInv, StreamDomains
<1>4. StreamsInv'
  BY <1>3, StreamsStep DEF ApiInv
<1> QED BY <1>2, <1>4 DEF ApiInv

LEMMA StreamSets ==
    ASSUME ApiInv, NEW d \in Context
    PROVE  /\ StreamOK(life[d], m_eventQueue[d], thread[d], generated[d], delivered[d])
           /\ Sets(m_eventQueue, m_eventQueue, d, m_eventQueue[d]) /\ Sets(thread, thread, d, thread[d])
           /\ Sets(generated, generated, d, generated[d]) /\ Sets(delivered, delivered, d, delivered[d])
           /\ \A x : Sets(m_eventQueue, [m_eventQueue EXCEPT ![d] = x], d, x)
           /\ \A x : Sets(thread, [thread EXCEPT ![d] = x], d, x)
           /\ \A x : Sets(delivered, [delivered EXCEPT ![d] = x], d, x)
<1>1. StreamDomains /\ StreamOK(life[d], m_eventQueue[d], thread[d], generated[d], delivered[d])
  BY DEF ApiInv, StreamsInv
<1>2. /\ Sets(m_eventQueue, m_eventQueue, d, m_eventQueue[d]) /\ Sets(thread, thread, d, thread[d])
      /\ Sets(generated, generated, d, generated[d]) /\ Sets(delivered, delivered, d, delivered[d])
  BY <1>1, SetsOld DEF StreamDomains
<1>3. /\ \A x : Sets(m_eventQueue, [m_eventQueue EXCEPT ![d] = x], d, x)
      /\ \A x : Sets(thread, [thread EXCEPT ![d] = x], d, x)
      /\ \A x : Sets(delivered, [delivered EXCEPT ![d] = x], d, x)
  BY <1>1, SetsNew DEF StreamDomains
<1> QED BY <1>1, <1>2, <1>3

LEMMA getNextEventHolds ==
    ASSUME ApiInv, NEW d \in Context, getNextEvent(d)
    PROVE  ApiInv'
<1>1. PICK e, t, del : e = Head(m_eventQueue[d]) /\ t = Taken(e) /\ del = HandedOn(e, delivered[d])
  OBVIOUS
<1>2. /\ thread[d].pc = "wait" /\ m_eventQueue[d] # <<>>
      /\ m_eventQueue' = [m_eventQueue EXCEPT ![d] = Tail(m_eventQueue[d])]
      /\ thread' = [thread EXCEPT ![d] = t]
      /\ delivered' = [delivered EXCEPT ![d] = del]
      /\ UNCHANGED <<decoderVars, pictureVars, callVars>> /\ generated' = generated
  BY <1>1 DEF getNextEvent, Taken, HandedOn
<1>3. StreamOK(life[d], Tail(m_eventQueue[d]), t, generated[d], del)
  <2>1. StreamOK(life[d], m_eventQueue[d], thread[d], generated[d], delivered[d])
    BY StreamSets
  <2> QED BY <1>1, <1>2, <2>1, NextStream
<1> QED BY <1>2, <1>3, StreamSets, ThreadHolds

LEMMA resolveHolds ==
    ASSUME ApiInv, NEW d \in Context, resolve(d)
    PROVE  ApiInv'
<1>1. PICK t, del : t = [thread[d] EXCEPT !.pc = "callback"] /\ del = Append(delivered[d], thread[d].event)
  OBVIOUS
<1>2. /\ thread[d].pc = "resolve"
      /\ thread' = [thread EXCEPT ![d] = t]
      /\ delivered' = [delivered EXCEPT ![d] = del]
      /\ UNCHANGED <<decoderVars, pictureVars, callVars>> /\ generated' = generated
      /\ m_eventQueue' = m_eventQueue
  BY <1>1 DEF resolve
<1>3. StreamOK(life[d], m_eventQueue[d], t, generated[d], del)
  BY <1>1, <1>2, StreamSets, ResolveStream
<1> QED BY <1>2, <1>3, StreamSets, ThreadHolds

LEMMA CallbackReturnsHolds ==
    ASSUME ApiInv, NEW d \in Context, CallbackReturns(d)
    PROVE  ApiInv'
<1>1. PICK t : t = [thread[d] EXCEPT !.pc = "wait"]
  OBVIOUS
<1>2. /\ thread[d].pc = "callback"
      /\ thread' = [thread EXCEPT ![d] = t] /\ delivered' = delivered
      /\ UNCHANGED <<decoderVars, pictureVars, callVars>> /\ generated' = generated
      /\ m_eventQueue' = m_eventQueue
  BY <1>1 DEF CallbackReturns
<1>3. StreamOK(life[d], m_eventQueue[d], t, generated[d], delivered[d])
  BY <1>1, <1>2, StreamSets, CallbackStream
<1> QED BY <1>2, <1>3, StreamSets, ThreadHolds

-----------------------------------------------------------------------------
(* A decoder's life.                                                        *)
LEMMA CreateDecoderHolds ==
    ASSUME ApiInv, NEW c \in Client, NEW d \in Context, CreateDecoder(c, d)
    PROVE  ApiInv'
<1>1. /\ life[d] = "unborn" /\ ~Full(decoderPool) /\ calls < MaxCalls /\ calls' = calls + 1
      /\ decoderPool' = add(decoderPool, d).pool
      /\ life' = [life EXCEPT ![d] = "created"]
      /\ call' = call /\ UNCHANGED pictureVars /\ UNCHANGED eventVars
  BY DEF CreateDecoder, MayCall
<1>2. /\ PoolOK(decoderPool, DecoderCapacity, Context) /\ Unique(decoderPool) /\ DOMAIN life = Context
      /\ \A e \in Context : Holds(decoderPool, e) => life[e] \in Live
  BY DEF ApiInv, LivesInv
<1>3. ~Holds(decoderPool, d)
  BY <1>1, <1>2 DEF Live
<1>4. Unwrapped(decoderPool)
  BY <1>2, BoundedUnwrapped, NoObjectIsNone DEF ApiInv, BoundInv
<1>5. /\ PoolOK(decoderPool', DecoderCapacity, Context) /\ Unique(decoderPool') /\ Bumps(decoderPool, decoderPool')
      /\ \A e \in Context : Holds(decoderPool', e) => Holds(decoderPool, e) \/ e = d
  BY <1>1, <1>2, <1>3, <1>4, AddKeeps, NoObjectIsNone
<1>6. /\ life'[d] = "created" /\ DOMAIN life' = Context /\ \A e \in Context \ {d} : life'[e] = life[e]
  BY <1>1, <1>2
<1>7. ShelvesInv'
  BY <1>1, CallsSame, ShelvesStay DEF ApiInv
<1>8. LivesInv'
  <2>1. ASSUME NEW e \in Context, Holds(decoderPool', e) PROVE life'[e] \in Live
    BY <1>2, <1>5, <1>6, <2>1 DEF Live
  <2>2. ASSUME NEW a \in Agent, Pending(call'[a]) PROVE life'[call'[a].context] \in Live
    <3>1. Pending(call[a]) /\ call'[a].context = call[a].context
      BY <1>1, <2>2
    <3>2. call[a].context \in Context /\ life[call[a].context] \in Live
      BY <3>1, CallsSame, <1>1 DEF ApiInv, LivesInv
    <3> QED BY <1>6, <3>1, <3>2 DEF Live
  <2>3. ASSUME NEW a \in Agent, call'[a].pc = "destroying"
        PROVE  call'[a].context \in Context /\ Gone(life'[call'[a].context])
    <3>1. call'[a].context = call[a].context /\ call[a].context \in Context /\ Gone(life[call[a].context])
      BY <1>1, <2>3 DEF ApiInv, LivesInv
    <3>2. call[a].context # d
      BY <1>1, <3>1 DEF Gone
    <3> QED BY <1>6, <3>1, <3>2
  <2>4. QuietOK'
    <3>1. at' = at
      BY <1>1 DEF pictureVars
    <3>2. \A e \in Context : Gone(life'[e]) => Gone(life[e])
      BY <1>6 DEF Gone, Live
    <3> QED BY <3>1, <3>2 DEF QuietOK, ApiInv, LivesInv
  <2> QED BY <1>5, <1>6, <2>1, <2>2, <2>3, <2>4 DEF LivesInv
<1>9. BoundInv' /\ BasesOK'
  <2>1. picturePool' = picturePool /\ pictureLockPool' = pictureLockPool /\ basesDone' = basesDone
    BY <1>1 DEF pictureVars
  <2>2. Busy' = Busy
    BY <1>1, CallsSame
  <2> QED BY <1>1, <1>5, <2>1, <2>2, BoundMore, BasesStay
<1>10. StreamsInv'
  <2>1. \A e \in Context : life'[e] = life[e] \/ (~Ending(life[e]) /\ ~Ending(life'[e]))
    BY <1>1, <1>6 DEF Ending
  <2> QED BY <1>1, <2>1, StreamsStay DEF ApiInv
<1> QED BY <1>7, <1>8, <1>9, <1>10 DEF ApiInv

LEMMA decoderPoolRemoveHolds ==
    ASSUME ApiInv, NEW c \in Client, NEW h \in Made(decoderPool), decoderPoolRemove(c, h)
    PROVE  ApiInv'
<1>1. PICK d : d = lookup(decoderPool, h)
  OBVIOUS
<1>2. PICK new : new = [op |-> "destroy", context |-> d, handle |-> InvalidHandle, pc |-> "destroying"]
  OBVIOUS
<1>3. /\ d # NoObject /\ call[c].pc = "idle" /\ calls < MaxCalls /\ calls' = calls + 1
      /\ decoderPool' = remove(decoderPool, h)
      /\ life' = [life EXCEPT ![d] = "removed"]
      /\ call' = [call EXCEPT ![c] = new]
      /\ UNCHANGED pictureVars /\ UNCHANGED eventVars
      /\ \A p \in Picture : at[d][p] \notin InPipeline
      /\ \A a \in Agent : call[a].context # d
  BY <1>1, <1>2 DEF decoderPoolRemove, MayCall
<1>4. d \in Context /\ life[d] \in Live /\ Returned(decoderPool, h) /\ isValid(decoderPool, h)
  BY <1>1, <1>3, DecoderIs
<1>5. /\ PoolOK(decoderPool, DecoderCapacity, Context) /\ Unique(decoderPool) /\ DOMAIN life = Context
      /\ \A e \in Context : Holds(decoderPool, e) => life[e] \in Live
      /\ c \in Agent /\ DOMAIN call = Agent
  BY DEF ApiInv, LivesInv, ShelvesInv, ShelfDomains, Agent
<1>6. Unwrapped(decoderPool)
  BY <1>5, BoundedUnwrapped, NoObjectIsNone DEF ApiInv, BoundInv
<1>7. /\ PoolOK(decoderPool', DecoderCapacity, Context) /\ Unique(decoderPool') /\ Bumps(decoderPool, decoderPool')
      /\ \A e \in Context : Holds(decoderPool', e) => Holds(decoderPool, e) /\ e # d
  BY <1>1, <1>3, <1>4, <1>5, <1>6, RemoveKeeps, NoObjectIsNone
<1>8. /\ life'[d] = "removed" /\ DOMAIN life' = Context /\ \A e \in Context \ {d} : life'[e] = life[e]
  BY <1>3, <1>4, <1>5
<1>9. /\ new.pc = "destroying" /\ new.context = d /\ ~Pending(new) /\ ~Pending(call[c])
      /\ call'[c] = new /\ \A b \in Agent \ {c} : call'[b] = call[b]
  BY <1>2, <1>3, <1>5 DEF Pending
<1>10. ShelvesInv'
  <2>1. Fewer(call, call')
    BY <1>3, <1>5, <1>9, FewerLess
  <2> QED BY <1>3, <2>1, ShelvesStay DEF ApiInv
<1>11. LivesInv'
  <2>1. ASSUME NEW e \in Context, Holds(decoderPool', e) PROVE life'[e] \in Live
    BY <1>5, <1>7, <1>8, <2>1
  <2>2. ASSUME NEW a \in Agent, Pending(call'[a]) PROVE life'[call'[a].context] \in Live
    <3>1. a # c /\ call'[a] = call[a] /\ Pending(call[a])
      BY <1>9, <2>2
    <3>2. call[a].context \in Context /\ life[call[a].context] \in Live
      BY <3>1 DEF ApiInv, LivesInv, ShelvesInv, Fits
    <3>3. call[a].context # d
      BY <1>3
    <3> QED BY <1>8, <3>1, <3>2, <3>3
  <2>3. ASSUME NEW a \in Agent, call'[a].pc = "destroying"
        PROVE  call'[a].context \in Context /\ Gone(life'[call'[a].context])
    <3>0. Gone("removed")
      BY DEF Gone, Live
    <3>1. CASE a = c
      BY <1>4, <1>8, <1>9, <3>0, <3>1
    <3>2. CASE a # c
      <4>1. call'[a] = call[a] /\ call[a].context \in Context /\ Gone(life[call[a].context])
        BY <1>9, <2>3, <3>2 DEF ApiInv, LivesInv
      <4>2. call[a].context # d
        BY <1>3
      <4> QED BY <1>8, <4>1, <4>2
    <3> QED BY <3>1, <3>2
  <2>4. QuietOK'
    <3>1. at' = at
      BY <1>3 DEF pictureVars
    <3>2. ASSUME NEW e \in Context, Gone(life'[e]), NEW p \in Picture PROVE at[e][p] \notin InPipeline
      BY <1>3, <1>8, <3>2 DEF QuietOK, ApiInv, LivesInv
    <3> QED BY <3>1, <3>2 DEF QuietOK
  <2> QED BY <1>7, <1>8, <2>1, <2>2, <2>3, <2>4 DEF LivesInv
<1>12. BoundInv' /\ BasesOK'
  <2>1. picturePool' = picturePool /\ pictureLockPool' = pictureLockPool /\ basesDone' = basesDone
    BY <1>3 DEF pictureVars
  <2>2. Busy' = Busy
    BY <1>9 DEF Busy
  <2> QED BY <1>3, <1>7, <2>1, <2>2, BoundMore, BasesStay
<1>13. StreamsInv'
  <2>1. \A e \in Context : life'[e] = life[e] \/ (~Ending(life[e]) /\ ~Ending(life'[e]))
    BY <1>4, <1>8 DEF Ending, Live
  <2> QED BY <1>3, <2>1, StreamsStay DEF ApiInv
<1> QED BY <1>10, <1>11, <1>12, <1>13 DEF ApiInv

(* Of a decoder that is being destroyed. *)
LEMMA DestroyingIs ==
    ASSUME ApiInv, NEW c \in Client, NEW from, Destroying(c, from), NEW to, Becomes(c, to), Gone(to),
           NEW d, d = call[c].context
    PROVE  /\ d \in Context /\ life[d] = from /\ Gone(life[d]) /\ Moves(life, life')
           /\ Sets(life, life', d, to) /\ c \in Agent
<1>1. c \in Agent /\ call[c].pc = "destroying" /\ life[d] = from /\ life' = [life EXCEPT ![d] = to]
  BY DEF Destroying, Becomes, Agent
<1>2. d \in Context /\ Gone(life[d]) /\ DOMAIN life = Context
  BY <1>1 DEF ApiInv, LivesInv
<1>3. Sets(life, life', d, to)
  BY <1>1, <1>2, SetsNew
<1>4. Moves(life, life')
  BY <1>2, <1>3 DEF Moves, Sets, Gone
<1> QED BY <1>1, <1>2, <1>3, <1>4

LEMMA releasePoolsHolds ==
    ASSUME ApiInv, NEW c \in Client, releasePools(c)
    PROVE  ApiInv'
<1>1. PICK d : d = call[c].context
  OBVIOUS
<1>2. PICK pics, locks, where : /\ pics = NewPool(PictureCapacity) /\ locks = NewPool(LockCapacity)
                                /\ where = [p \in Picture |-> "nowhere"]
  OBVIOUS
<1>3. /\ Destroying(c, "removed") /\ Becomes(c, "released")
      /\ picturePool' = [picturePool EXCEPT ![d] = pics]
      /\ pictureLockPool' = [pictureLockPool EXCEPT ![d] = locks]
      /\ at' = [at EXCEPT ![d] = where] /\ locked' = [locked EXCEPT ![d] = {}] /\ sentAs' = sentAs
      /\ basesDone' = [basesDone EXCEPT ![d] = <<>>]
      /\ decoderPool' = decoderPool /\ UNCHANGED eventVars /\ call' = call /\ calls' = calls
  BY <1>1, <1>2 DEF releasePools, callVars
<1>4. /\ d \in Context /\ life[d] = "removed" /\ Gone(life[d]) /\ Moves(life, life')
      /\ Sets(life, life', d, "released")
  <2>1. Gone("released")
    BY DEF Gone, Live
  <2> QED BY <1>1, <1>3, <2>1, DestroyingIs
<1>5. ShelfStep(d, pics, locks, where, sentAs[d], {})
  <2>1. Sets(at, at', d, where)
    BY <1>3, <1>4, SetsNew DEF ApiInv, ShelvesInv, ShelfDomains
  <2> QED BY <1>3, <1>4, <2>1, ShelfSets DEF ShelfStep
<1>6. ShelfOK(pics, locks, where, sentAs[d], {})
  <2>1. ShelfOK(picturePool[d], pictureLockPool[d], at[d], sentAs[d], locked[d])
    BY <1>4 DEF ApiInv, ShelvesInv
  <2>2. sentAs[d] \in [Picture -> Word]
    BY <2>1, ShelfFields
  <2> QED BY <1>2, <2>2, EmptyShelf
<1>7. CallsAfter(call, call', d, pics, locks, where, {})
  <2>1. ASSUME NEW a \in Agent, Pending(call[a]) PROVE call[a].context # d
    BY <1>4, <2>1 DEF ApiInv, LivesInv, Gone
  <2> QED BY <1>3, <2>1 DEF CallsAfter
<1>8. ShelvesInv'
  BY <1>3, <1>4, <1>5, <1>6, <1>7, CallsSame, ShelvesStep DEF ApiInv
<1>9. LivesInv'
  <2>1. \A p \in Picture : where[p] \notin InPipeline
    BY <1>2 DEF InPipeline
  <2>2. Enters(at, at', life)
    BY <1>5, <2>1 DEF Enters, ShelfStep, Sets
  <2> QED BY <1>3, <1>4, <2>2, LivesSame
<1>10. BoundInv'
  <2>1. Done' = Done /\ Busy' = Busy /\ Done \in Nat
    BY <1>3 DEF Done, Busy, ApiInv, BoundInv
  <2>2. Bounded(pics, Done)
    BY <1>2, <2>1, EmptyPool, NoObjectIsNone DEF Bounded
  <2>3. Bounded(locks, Done)
    BY <1>2, <2>1, EmptyPool, NoObjectIsNone DEF Bounded
  <2>4. ASSUME NEW e \in Context PROVE Bounded(picturePool'[e], Done) /\ Bounded(pictureLockPool'[e], Done)
    <3>1. CASE e = d
      BY <1>5, <2>2, <2>3, <3>1 DEF ShelfStep, Sets
    <3>2. CASE e # d
      <4>1. picturePool'[e] = picturePool[e] /\ pictureLockPool'[e] = pictureLockPool[e]
        BY <1>5, <3>2 DEF ShelfStep, Sets
      <4> QED BY <4>1 DEF ApiInv, BoundInv
    <3> QED BY <3>1, <3>2
  <2> QED BY <1>3, <2>1, <2>4 DEF ApiInv, BoundInv
<1>11. BasesOK'
  BY <1>3 DEF ApiInv, BasesOK
<1>12. StreamsInv'
  <2>1. \A e \in Context : life'[e] = life[e] \/ (~Ending(life[e]) /\ ~Ending(life'[e]))
    BY <1>4 DEF Ending, Sets
  <2> QED BY <1>3, <2>1, StreamsStay DEF ApiInv
<1> QED BY <1>8, <1>9, <1>10, <1>11, <1>12 DEF ApiInv

LEMMA DestroyPoolsHolds ==
    ASSUME ApiInv, NEW c \in Client, DestroyPools(c)
    PROVE  ApiInv'
<1>1. PICK d : d = call[c].context
  OBVIOUS
<1>2. /\ Destroying(c, "released") /\ Becomes(c, "poolsGone")
      /\ decoderPool' = decoderPool /\ UNCHANGED pictureVars /\ UNCHANGED eventVars
      /\ call' = call /\ calls' = calls
  BY DEF DestroyPools, callVars
<1>3. /\ d \in Context /\ life[d] = "released" /\ Moves(life, life') /\ Sets(life, life', d, "poolsGone")
  <2>1. Gone("poolsGone")
    BY DEF Gone, Live
  <2> QED BY <1>1, <1>2, <2>1, DestroyingIs
<1>4. ShelvesInv' /\ LivesInv' /\ BoundInv' /\ BasesOK'
  BY <1>2, <1>3, QuietPool
<1>5. StreamsInv'
  <2>1. \A e \in Context : life'[e] = life[e] \/ (~Ending(life[e]) /\ ~Ending(life'[e]))
    BY <1>3 DEF Ending, Sets
  <2> QED BY <1>2, <2>1, StreamsStay DEF ApiInv
<1> QED BY <1>4, <1>5 DEF ApiInv

LEMMA DestroyPipelineHolds ==
    ASSUME ApiInv, NEW c \in Client, DestroyPipeline(c)
    PROVE  ApiInv'
<1>1. PICK d : d = call[c].context
  OBVIOUS
<1>2. /\ Destroying(c, "poolsGone") /\ Becomes(c, "pipelineGone")
      /\ decoderPool' = decoderPool /\ UNCHANGED pictureVars
      /\ call' = call /\ calls' = calls
      /\ generate(d, <<Event("Exit", NoObject)>>) \/ UNCHANGED eventVars
  BY <1>1 DEF DestroyPipeline, callVars
<1>3. /\ d \in Context /\ life[d] = "poolsGone" /\ Moves(life, life') /\ Sets(life, life', d, "pipelineGone")
  <2>1. Gone("pipelineGone")
    BY DEF Gone, Live
  <2> QED BY <1>1, <1>2, <2>1, DestroyingIs
<1>4. ShelvesInv' /\ LivesInv' /\ BoundInv' /\ BasesOK'
  BY <1>2, <1>3, QuietPool
<1>5. CASE generate(d, <<Event("Exit", NoObject)>>)
  <2>1. ~Ending(life[d]) /\ ~Ending("pipelineGone") /\ StreamsInv
    BY <1>3 DEF Ending, ApiInv
  <2>2. <<Event("Exit", NoObject)>> \in Seq(EventRec) /\ Real(<<Event("Exit", NoObject)>>)
    BY RealEvent
  <2>3. StreamsInv'
    BY <1>3, <1>5, <2>1, <2>2, GenerateHolds
  <2> QED BY <1>4, <2>3 DEF ApiInv
<1>6. CASE UNCHANGED eventVars
  <2>1. \A e \in Context : life'[e] = life[e] \/ (~Ending(life[e]) /\ ~Ending(life'[e]))
    BY <1>3 DEF Ending, Sets
  <2>2. StreamsInv'
    BY <1>6, <2>1, StreamsStay DEF ApiInv
  <2> QED BY <1>4, <2>2 DEF ApiInv
<1> QED BY <1>2, <1>5, <1>6

LEMMA releaseHolds ==
    ASSUME ApiInv, NEW c \in Client, release(c)
    PROVE  ApiInv'
<1>1. PICK d : d = call[c].context
  OBVIOUS
<1>2. /\ Destroying(c, "pipelineGone") /\ Becomes(c, "joining")
      /\ decoderPool' = decoderPool /\ UNCHANGED pictureVars
      /\ call' = call /\ calls' = calls
      /\ m_eventQueue' = [m_eventQueue EXCEPT ![d] = Append(m_eventQueue[d], Flush)]
      /\ thread' = thread /\ generated' = generated /\ delivered' = delivered
  BY <1>1 DEF release, callVars, Flush
<1>3. /\ d \in Context /\ life[d] = "pipelineGone" /\ Moves(life, life') /\ Sets(life, life', d, "joining")
  <2>1. Gone("joining")
    BY DEF Gone, Live
  <2> QED BY <1>1, <1>2, <2>1, DestroyingIs
<1>4. ShelvesInv' /\ LivesInv' /\ BoundInv' /\ BasesOK'
  BY <1>2, <1>3, QuietPool
<1>5. StreamsInv'
  <2>1. StreamOK("joining", Append(m_eventQueue[d], Flush), thread[d], generated[d], delivered[d])
    BY <1>3, StreamSets, ReleaseStream
  <2>2. /\ Sets(m_eventQueue, m_eventQueue', d, Append(m_eventQueue[d], Flush))
        /\ Sets(thread, thread', d, thread[d])
        /\ Sets(generated, generated', d, generated[d]) /\ Sets(delivered, delivered', d, delivered[d])
    BY <1>2, <1>3, StreamSets
  <2> QED BY <1>3, <2>1, <2>2, StreamsStep DEF ApiInv
<1> QED BY <1>4, <1>5 DEF ApiInv

LEMMA JoinHolds ==
    ASSUME ApiInv, NEW c \in Client, Join(c)
    PROVE  ApiInv'
<1>1. PICK d : d = call[c].context
  OBVIOUS
<1>2. /\ Destroying(c, "joining") /\ Becomes(c, "freed") /\ thread[d].pc = "exited"
      /\ decoderPool' = decoderPool /\ UNCHANGED pictureVars /\ UNCHANGED eventVars
      /\ call' = [call EXCEPT ![c] = NoCall] /\ calls' = calls
  BY <1>1 DEF Join
<1>3. /\ d \in Context /\ life[d] = "joining" /\ Moves(life, life') /\ Sets(life, life', d, "freed")
      /\ c \in Agent
  <2>1. Gone("freed")
    BY DEF Gone, Live
  <2> QED BY <1>1, <1>2, <2>1, DestroyingIs
<1>4. DOMAIN call = Agent /\ ~Pending(call[c])
  BY <1>2 DEF ApiInv, ShelvesInv, ShelfDomains, Destroying, Pending
<1>5. Fewer(call, call')
  BY <1>2, <1>3, <1>4, FewerLess, PendingIs
<1>6. ShelvesInv'
  BY <1>2, <1>5, ShelvesStay DEF ApiInv
<1>7. LivesInv'
  <2>1. \A b \in Agent : call'[b].pc = "destroying" =>
            call[b].pc = "destroying" /\ call'[b].context = call[b].context
    BY <1>2, <1>4, PendingIs
  <2>2. Enters(at, at', life)
    BY <1>2, EntersSame DEF pictureVars
  <2>3. \A b \in Agent : Pending(call[b]) => call[b].context \in Context
    BY DEF ApiInv, ShelvesInv, Fits
  <2> QED BY <1>2, <1>3, <1>5, <2>1, <2>2, <2>3, LivesStay DEF ApiInv
<1>8. BoundInv' /\ BasesOK'
  <2>1. picturePool' = picturePool /\ pictureLockPool' = pictureLockPool /\ basesDone' = basesDone
    BY <1>2 DEF pictureVars
  <2>2. Busy' = Busy
    BY <1>2, <1>4, PendingIs DEF Busy
  <2> QED BY <1>2, <2>1, <2>2, BoundStays, BasesStay
<1>9. StreamsInv'
  <2>1. StreamOK("freed", m_eventQueue[d], thread[d], generated[d], delivered[d])
    BY <1>2, <1>3, StreamSets, JoinStream
  <2>2. /\ Sets(m_eventQueue, m_eventQueue', d, m_eventQueue[d]) /\ Sets(thread, thread', d, thread[d])
        /\ Sets(generated, generated', d, generated[d]) /\ Sets(delivered, delivered', d, delivered[d])
    BY <1>2, <1>3, StreamSets DEF eventVars
  <2> QED BY <1>3, <2>1, <2>2, StreamsStep DEF ApiInv
<1> QED BY <1>6, <1>7, <1>8, <1>9 DEF ApiInv

-----------------------------------------------------------------------------
LEMMA InitHolds ==
    ASSUME Init
    PROVE  ApiInv
<1>1. /\ decoderPool = NewPool(DecoderCapacity) /\ life = [d \in Context |-> "unborn"]
      /\ picturePool = [d \in Context |-> NewPool(PictureCapacity)]
      /\ pictureLockPool = [d \in Context |-> NewPool(LockCapacity)]
      /\ at = [d \in Context |-> [p \in Picture |-> "nowhere"]]
      /\ sentAs = [d \in Context |-> [p \in Picture |-> InvalidHandle]]
      /\ locked = [d \in Context |-> {}]
      /\ basesDone = [d \in Context |-> <<>>]
      /\ m_eventQueue = [d \in Context |-> <<>>]
      /\ thread = [d \in Context |-> [pc |-> "wait", event |-> NoEvent]]
      /\ call = [a \in Agent |-> NoCall] /\ calls = 0
      /\ generated = [d \in Context |-> <<>>] /\ delivered = [d \in Context |-> <<>>]
  BY DEF Init
<1>2. \A a \in Agent : ~Pending(call[a]) /\ call[a].pc # "destroying"
  BY <1>1, PendingIs
<1>3. ShelvesInv
  <2>1. ShelfDomains
    BY <1>1 DEF ShelfDomains
  <2>2. InvalidHandle \in Word
    BY GenerationsAssumption DEF InvalidHandle, handleMake, Word
  <2>3. ASSUME NEW d \in Context
        PROVE  ShelfOK(picturePool[d], pictureLockPool[d], at[d], sentAs[d], locked[d])
    <3>1. PICK sent \in [Picture -> Word] : sent = [p \in Picture |-> InvalidHandle]
      BY <2>2
    <3>2. /\ picturePool[d] = NewPool(PictureCapacity) /\ pictureLockPool[d] = NewPool(LockCapacity)
          /\ at[d] = [p \in Picture |-> "nowhere"] /\ sentAs[d] = sent /\ locked[d] = {}
      BY <1>1, <3>1
    <3> QED BY <3>2, EmptyShelf
  <2>4. \A a, b \in Agent : ~Contend(call[a], call[b])
    BY <1>2 DEF Contend
  <2> QED BY <1>2, <2>1, <2>3, <2>4 DEF ShelvesInv
<1>4. LivesInv
  <2>1. /\ PoolOK(decoderPool, DecoderCapacity, Context) /\ Unique(decoderPool)
        /\ \A d \in Context : ~Holds(decoderPool, d)
    BY <1>1, EmptyPool, NoObjectIsNone
  <2>2. QuietOK /\ DOMAIN life = Context
    BY <1>1 DEF QuietOK, Gone
  <2> QED BY <1>2, <2>1, <2>2 DEF LivesInv
<1>5. StreamsInv
  <2>1. StreamDomains
    BY <1>1 DEF StreamDomains
  <2>2. ASSUME NEW d \in Context
        PROVE  StreamOK(life[d], m_eventQueue[d], thread[d], generated[d], delivered[d])
    <3>1. PICK th : th = [pc |-> "wait", event |-> NoEvent]
      OBVIOUS
    <3>2. th \in ThreadRec /\ th.pc = "wait"
      BY <3>1 DEF ThreadRec, EventRec, NoEvent
    <3>3. QueueIs("unborn", <<>>, th, <<>>)
      BY <3>2 DEF QueueIs, Real
    <3>4. <<>> \in Seq(EventRec) /\ (<<>> \o InHand(th)) \o <<>> = <<>>
      BY <3>2 DEF InHand
    <3>5. StreamOK("unborn", <<>>, th, <<>>, <<>>)
      BY <3>2, <3>3, <3>4 DEF StreamOK
    <3>6. /\ life[d] = "unborn" /\ m_eventQueue[d] = <<>> /\ thread[d] = th
          /\ generated[d] = <<>> /\ delivered[d] = <<>>
      BY <1>1, <3>1
    <3> QED BY <3>5, <3>6
  <2> QED BY <2>1, <2>2 DEF StreamsInv
<1>6. BoundInv
  <2>1. Busy = {}
    BY <1>2 DEF Busy
  <2>2. IsFiniteSet(Busy) /\ Done = 0 /\ calls <= MaxCalls /\ calls \in Nat
    BY <1>1, <2>1, FS_EmptySet, ApiAssumption DEF Done
  <2>3. Bounded(decoderPool, 0)
    BY <1>1, EmptyPool, NoObjectIsNone DEF Bounded
  <2>4. Bounded(NewPool(PictureCapacity), 0)
    BY EmptyPool, NoObjectIsNone DEF Bounded
  <2>5. Bounded(NewPool(LockCapacity), 0)
    BY EmptyPool, NoObjectIsNone DEF Bounded
  <2>6. \A d \in Context : Bounded(picturePool[d], 0) /\ Bounded(pictureLockPool[d], 0)
    BY <1>1, <2>4, <2>5
  <2> QED BY <2>2, <2>3, <2>6 DEF BoundInv
<1>7. BasesOK
  BY <1>1 DEF BasesOK
<1> QED BY <1>3, <1>4, <1>5, <1>6, <1>7 DEF ApiInv

LEMMA StutterHolds ==
    ASSUME ApiInv, UNCHANGED vars
    PROVE  ApiInv'
<1>1. /\ UNCHANGED pictureVars /\ UNCHANGED eventVars /\ call' = call /\ calls' = calls
      /\ decoderPool' = decoderPool /\ life' = life
  BY DEF vars, callVars, decoderVars
<1>2. ShelvesInv' /\ LivesInv' /\ BoundInv' /\ BasesOK'
  BY <1>1, QuietPool, LifeDomain
<1>3. StreamsInv'
  BY <1>1, StreamsRest
<1> QED BY <1>2, <1>3 DEF ApiInv

LEMMA NextHolds ==
    ASSUME ApiInv, [Next]_vars
    PROVE  ApiInv'
<1>1. ASSUME NEW a \in Agent, lock(a) \/ Body(a) \/ \E h \in Made(decoderPool) : LockedDecoder(a, h)
      PROVE  ApiInv'
  BY <1>1, lockHolds, BodyKeeps, LockedDecoderHolds
<1>2. ASSUME NEW d \in Context, EventThread(d) PROVE ApiInv'
  BY <1>2, getNextEventHolds, resolveHolds, CallbackReturnsHolds DEF EventThread
<1>3. ASSUME NEW d \in Context, NEW p \in Picture, Task(d, p) PROVE ApiInv'
  BY <1>3, BaseAnnouncedHolds, BasePushedHolds, OutputDoneHolds DEF Task
<1>4. ASSUME NEW c \in Client, Destruction(c) PROVE ApiInv'
  BY <1>4, releasePoolsHolds, DestroyPoolsHolds, DestroyPipelineHolds, releaseHolds, JoinHolds DEF Destruction
<1>5. ASSUME NEW c \in Client, NEW d \in Context, CreateDecoder(c, d) PROVE ApiInv'
  BY <1>5, CreateDecoderHolds
<1>6. ASSUME NEW c \in Client, NEW h \in Made(decoderPool), decoderPoolRemove(c, h) PROVE ApiInv'
  BY <1>6, decoderPoolRemoveHolds
<1>7. CASE UNCHANGED vars
  BY <1>7, StutterHolds
<1>8. CASE Next
  BY <1>1, <1>2, <1>3, <1>4, <1>5, <1>6, <1>8 DEF Next
<1> QED BY <1>7, <1>8

(* Shelves, lives, streams and generations stay as described, whatever the  *)
(* threads of the application, the pipeline's tasks and the event threads   *)
(* do.                                                                      *)
THEOREM ApiInvariant == Spec => []ApiInv
<1>1. Init => ApiInv
  BY InitHolds
<1>2. ApiInv /\ [Next]_vars => ApiInv'
  BY NextHolds
<1> QED BY <1>1, <1>2, PTL DEF Spec

(* A locked picture has exactly one lock, is still there, and can be        *)
(* unlocked: lockPicture() and unlockPicture() keep the two pools and the   *)
(* pictures in step, and the pool of locks never runs out.                  *)
THEOREM LocksAlwaysAgree == Spec => []LocksAgree
<1>1. ASSUME ApiInv PROVE LocksAgree
  <2>1. ASSUME NEW d \in Context, NEW p \in Picture
        PROVE  /\ Cardinality({i \in Slots(pictureLockPool[d]) : pictureLockPool[d].objects[i] = p})
                     = (IF p \in locked[d] THEN 1 ELSE 0)
               /\ p \in locked[d] => at[d][p] # "nowhere"
    <3>1. ShelfOK(picturePool[d], pictureLockPool[d], at[d], sentAs[d], locked[d])
      BY <1>1 DEF ApiInv, ShelvesInv
    <3> QED BY <3>1, ShelfShows
  <2> QED BY <2>1 DEF LocksAgree
<1> QED BY <1>1, ApiInvariant, PTL

(* A picture in the pipeline is found by the handle it was sent with, so    *)
(* the one a receive call hands back is the client's own.                   *)
THEOREM HandlesAlwaysKept == Spec => []PipelineKeepsHandles
<1>1. ASSUME ApiInv PROVE PipelineKeepsHandles
  <2>1. ASSUME NEW d \in Context, NEW p \in Picture, at[d][p] \notin {"nowhere", "idle"}
        PROVE  reverseLookup(picturePool[d], p) = sentAs[d][p]
    <3>1. ShelfOK(picturePool[d], pictureLockPool[d], at[d], sentAs[d], locked[d])
      BY <1>1 DEF ApiInv, ShelvesInv
    <3>2. at[d][p] \notin Lying
      BY <2>1 DEF Lying
    <3> QED BY <3>1, <3>2, SentShows
  <2> QED BY <2>1 DEF PipelineKeepsHandles
<1> QED BY <1>1, ApiInvariant, PTL

(* The callback gets the events of a decoder in the order they were queued  *)
(* in, each once, and all of them before the decoder is freed.              *)
THEOREM EventsAlwaysDelivered == Spec => []EventsDelivered
<1>1. ASSUME ApiInv PROVE EventsDelivered
  <2>1. ASSUME NEW d \in Context
        PROVE  LET q == m_eventQueue[d]
                   queued == IF q # <<>> /\ q[Len(q)].type = "Flush" THEN SubSeq(q, 1, Len(q) - 1) ELSE q
                   held == IF thread[d].pc = "resolve" THEN <<thread[d].event>> ELSE <<>>
               IN  /\ generated[d] = delivered[d] \o held \o queued
                   /\ life[d] = "freed" => queued = <<>> /\ held = <<>>
    <3>1. StreamOK(life[d], m_eventQueue[d], thread[d], generated[d], delivered[d])
      BY <1>1, StreamSets
    <3>2. /\ generated[d] = (delivered[d] \o InHand(thread[d])) \o Queued(m_eventQueue[d])
          /\ life[d] = "freed" => Queued(m_eventQueue[d]) = <<>> /\ InHand(thread[d]) = <<>>
      BY <3>1, StreamShows
    <3> QED BY <3>2 DEF InHand, Queued
  <2> QED BY <2>1 DEF EventsDelivered
<1> QED BY <1>1, ApiInvariant, PTL
=============================================================================
