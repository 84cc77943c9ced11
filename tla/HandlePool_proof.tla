-------------------------- MODULE HandlePool_proof --------------------------
(***************************************************************************)
(* Lemmas about handle pools as values: what add() and remove() keep, and  *)
(* which handles lead where afterwards, for every capacity.                *)
(***************************************************************************)
EXTENDS HandlePool, SequenceTheorems, TLAPS

PoolRec(capacity, S) ==
    [objects : [0 .. capacity - 1 -> S \cup {NoObject}],
     generations : [0 .. capacity - 1 -> Generation],
     free : Seq(0 .. capacity - 1)]

Odd(n) == n % 2 = 1
InUse(p, i) == Odd(p.generations[i])
OnStack(p, i) == \E k \in 1 .. Len(p.free) : p.free[k] = i

(* A slot is on the stack of free ones, and once, if its generation is      *)
(* even, and has an object if it is odd.                                    *)
SlotsOK(p) ==
    /\ \A i \in DOMAIN p.generations : OnStack(p, i) <=> ~InUse(p, i)
    /\ \A i \in DOMAIN p.generations : p.objects[i] = NoObject <=> ~InUse(p, i)
    /\ \A j, k \in 1 .. Len(p.free) : p.free[j] = p.free[k] => j = k

PoolOK(p, capacity, S) == p \in PoolRec(capacity, S) /\ SlotsOK(p)

(* No generation is about to wrap. *)
Unwrapped(p) == \A i \in DOMAIN p.generations : p.generations[i] + 1 < Generations

LEMMA NewPoolIs ==
    ASSUME NEW capacity \in Nat, NEW S
    PROVE  /\ PoolOK(NewPool(capacity), capacity, S)
           /\ \A i \in 0 .. capacity - 1 : NewPool(capacity).generations[i] = 0 /\ NewPool(capacity).objects[i] = NoObject
<1> DEFINE p == NewPool(capacity)
<1>1. /\ p.objects = [i \in 0 .. capacity - 1 |-> NoObject]
      /\ p.generations = [i \in 0 .. capacity - 1 |-> 0]
      /\ p.free = [k \in 1 .. capacity |-> k - 1]
      /\ p = [objects |-> p.objects, generations |-> p.generations, free |-> p.free]
  BY DEF NewPool
<1>2. 0 \in Generation
  BY GenerationsAssumption DEF Generation
<1>3. p.free \in Seq(0 .. capacity - 1) /\ Len(p.free) = capacity
  BY <1>1
<1>4. p \in PoolRec(capacity, S)
  BY <1>1, <1>2, <1>3 DEF PoolRec
<1>5. \A k \in 1 .. Len(p.free) : p.free[k] = k - 1
  BY <1>1, <1>3
<1>6. \A i \in 0 .. capacity - 1 : OnStack(p, i) /\ ~InUse(p, i) /\ p.objects[i] = NoObject
  <2> SUFFICES ASSUME NEW i \in 0 .. capacity - 1 PROVE OnStack(p, i) /\ ~InUse(p, i) /\ p.objects[i] = NoObject
    OBVIOUS
  <2>1. i + 1 \in 1 .. Len(p.free) /\ p.free[i + 1] = i
    BY <1>3, <1>5
  <2>2. p.generations[i] = 0 /\ p.objects[i] = NoObject
    BY <1>1
  <2> QED BY <2>1, <2>2 DEF OnStack, InUse, Odd
<1>7. DOMAIN p.generations = 0 .. capacity - 1
  BY <1>1
<1>8. SlotsOK(p)
  <2> HIDE DEF p
  <2> QED BY <1>3, <1>5, <1>6, <1>7 DEF SlotsOK
<1> QED BY <1>1, <1>4, <1>8 DEF PoolOK

LEMMA PoolFields ==
    ASSUME NEW capacity \in Nat, NEW S, NEW p, PoolOK(p, capacity, S)
    PROVE  /\ p.objects \in [0 .. capacity - 1 -> S \cup {NoObject}]
           /\ p.generations \in [0 .. capacity - 1 -> Generation]
           /\ p.free \in Seq(0 .. capacity - 1) /\ Len(p.free) \in Nat
           /\ Slots(p) = 0 .. capacity - 1 /\ DOMAIN p.generations = 0 .. capacity - 1
           /\ SlotsOK(p) /\ p \in PoolRec(capacity, S)
<1>1. p \in PoolRec(capacity, S) /\ SlotsOK(p)
  BY DEF PoolOK
<1>2. /\ p.objects \in [0 .. capacity - 1 -> S \cup {NoObject}]
      /\ p.generations \in [0 .. capacity - 1 -> Generation]
      /\ p.free \in Seq(0 .. capacity - 1)
  BY <1>1 DEF PoolRec
<1>3. Len(p.free) \in Nat
  BY <1>2, LenProperties
<1> QED BY <1>1, <1>2, <1>3 DEF Slots

LEMMA Parity ==
    ASSUME NEW n \in Nat
    PROVE  Odd(n + 1) <=> ~Odd(n)
BY DEF Odd

LEMMA SmallRemainder ==
    ASSUME NEW a \in Nat, NEW b \in Nat, a < b
    PROVE  a % b = a
OBVIOUS

LEMMA NextGeneration ==
    ASSUME NEW g \in Generation, g + 1 < Generations
    PROVE  g \in Nat /\ g + 1 \in Generation /\ (g + 1) % Generations = g + 1
<1>1. Generations \in Nat
  BY GenerationsAssumption
<1>2. g \in Nat /\ g + 1 \in Nat /\ g + 1 \in Generation
  BY <1>1 DEF Generation
<1> QED BY <1>1, <1>2, SmallRemainder

(* The generation of a free slot does not wrap when it is taken: it is even. *)
LEMMA FreeHasNext ==
    ASSUME NEW g \in Generation, ~Odd(g)
    PROVE  g \in Nat /\ g + 1 \in Generation /\ (g + 1) % Generations = g + 1
<1>1. Generations \in Nat /\ Generations % 2 = 0
  BY GenerationsAssumption
<1>2. g \in Nat /\ g < Generations /\ g + 1 # Generations
  BY <1>1 DEF Generation, Odd
<1> QED BY <1>1, <1>2, NextGeneration

(* The generation after that of a slot in use, which may be the last. *)
GenerationAfter(g) == IF g + 1 = Generations THEN 0 ELSE g + 1

LEMMA GenerationAfterIs ==
    ASSUME NEW g \in Generation, Odd(g)
    PROVE  /\ g \in Nat /\ GenerationAfter(g) \in Generation
           /\ (g + 1) % Generations = GenerationAfter(g) /\ ~Odd(GenerationAfter(g))
<1>1. Generations \in Nat /\ Generations >= 4
  BY GenerationsAssumption
<1>2. g \in Nat /\ g < Generations
  BY <1>1 DEF Generation
<1>3. CASE g + 1 = Generations
  <2>1. GenerationAfter(g) = 0 /\ (g + 1) % Generations = 0
    BY <1>1, <1>3 DEF GenerationAfter
  <2> QED BY <1>1, <1>2, <2>1 DEF Generation, Odd
<1>4. CASE g + 1 # Generations
  <2>1. GenerationAfter(g) = g + 1 /\ g + 1 < Generations
    BY <1>1, <1>2, <1>4 DEF GenerationAfter
  <2> QED BY <1>2, <2>1, NextGeneration, Parity
<1> QED BY <1>3, <1>4

LEMMA RecIs ==
    ASSUME NEW capacity \in Nat, NEW S, NEW q,
           NEW objects \in [0 .. capacity - 1 -> S \cup {NoObject}],
           NEW generations \in [0 .. capacity - 1 -> Generation],
           NEW free \in Seq(0 .. capacity - 1),
           q = [objects |-> objects, generations |-> generations, free |-> free]
    PROVE  /\ q \in PoolRec(capacity, S)
           /\ q.objects = objects /\ q.generations = generations /\ q.free = free
           /\ DOMAIN q.generations = 0 .. capacity - 1
BY DEF PoolRec

(* What SlotsOK says of one slot. *)
LEMMA SlotIs ==
    ASSUME NEW capacity \in Nat, NEW S, NEW p, PoolOK(p, capacity, S), NEW i \in 0 .. capacity - 1
    PROVE  /\ OnStack(p, i) <=> ~InUse(p, i)
           /\ p.objects[i] = NoObject <=> ~InUse(p, i)
BY PoolFields DEF SlotsOK

(* The slot that add() takes. *)
LEMMA AddIs ==
    ASSUME NEW capacity \in Nat, NEW S, NEW p, PoolOK(p, capacity, S),
           NEW o \in S, o # NoObject, ~Full(p)
    PROVE  \E i \in 0 .. capacity - 1 :
             /\ ~InUse(p, i)
             /\ add(p, o).handle = handleMake(i, p.generations[i] + 1)
             /\ add(p, o).pool.generations = [p.generations EXCEPT ![i] = p.generations[i] + 1]
             /\ add(p, o).pool.objects = [p.objects EXCEPT ![i] = o]
             /\ PoolOK(add(p, o).pool, capacity, S)
<1>0. PICK n, i, q, f : n = Len(p.free) /\ i = Top(p) /\ q = add(p, o).pool /\ f = p.free
  OBVIOUS
<1>1. /\ p.objects \in [0 .. capacity - 1 -> S \cup {NoObject}]
      /\ p.generations \in [0 .. capacity - 1 -> Generation]
      /\ f \in Seq(0 .. capacity - 1) /\ n \in Nat /\ n = Len(f)
      /\ DOMAIN p.generations = 0 .. capacity - 1 /\ SlotsOK(p)
  BY <1>0, PoolFields
<1>2. n >= 1 /\ i = f[n] /\ i \in 0 .. capacity - 1
  <2>1. f # <<>>
    BY <1>0 DEF Full
  <2>2. n # 0
    BY <1>1, <2>1, EmptySeq
  <2> QED BY <1>0, <1>1, <2>2 DEF Top
<1>3. ~InUse(p, i)
  <2>1. OnStack(p, i)
    BY <1>0, <1>1, <1>2 DEF OnStack
  <2> QED BY <1>2, <2>1, SlotIs
<1>11. \A j, k \in 1 .. n : f[j] = f[k] => j = k
  BY <1>0, <1>1 DEF SlotsOK
<1>4. PICK g \in Generation : g = p.generations[i] + 1 /\ g = (p.generations[i] + 1) % Generations
                              /\ p.generations[i] \in Nat
  <2>1. p.generations[i] \in Generation /\ ~Odd(p.generations[i])
    BY <1>1, <1>2, <1>3 DEF InUse
  <2> QED BY <2>1, FreeHasNext
<1>5. PICK gens : gens = [p.generations EXCEPT ![i] = g]
  OBVIOUS
<1>12. Bumped(p, i) = gens /\ gens[i] = g /\ gens \in [0 .. capacity - 1 -> Generation]
  BY <1>1, <1>2, <1>4, <1>5 DEF Bumped
<1>13. PICK objs : objs = [p.objects EXCEPT ![i] = o]
  OBVIOUS
<1>14. objs \in [0 .. capacity - 1 -> S \cup {NoObject}]
  BY <1>1, <1>13
<1>15. PICK free : free = SubSeq(f, 1, n - 1)
  OBVIOUS
<1>7. /\ free \in Seq(0 .. capacity - 1) /\ Len(free) = n - 1
      /\ \A k \in 1 .. n - 1 : free[k] = f[k]
  BY <1>1, <1>2, <1>15, SubSeqProperties
<1>6. add(p, o) = [pool |-> [objects |-> objs, generations |-> gens, free |-> free],
                   handle |-> handleMake(i, gens[i])]
  BY <1>0, <1>12, <1>13, <1>15 DEF add
<1>8. q = [objects |-> objs, generations |-> gens, free |-> free] /\ add(p, o).handle = handleMake(i, g)
  BY <1>0, <1>6, <1>12
<1>9. /\ q \in PoolRec(capacity, S)
      /\ q.objects = objs /\ q.generations = gens /\ q.free = free
      /\ DOMAIN q.generations = 0 .. capacity - 1
  BY <1>7, <1>8, <1>12, <1>14, RecIs
<1>10. SlotsOK(q)
  <2>2. ASSUME NEW j \in 0 .. capacity - 1 PROVE InUse(q, j) <=> (j = i \/ InUse(p, j))
    <3>1. CASE j = i
      <4>1. q.generations[j] = p.generations[i] + 1
        BY <1>4, <1>9, <1>12, <3>1
      <4> QED BY <1>3, <1>4, <3>1, <4>1, Parity DEF InUse
    <3>2. CASE j # i
      BY <1>1, <1>5, <1>9, <3>2 DEF InUse
    <3> QED BY <3>1, <3>2
  <2>3. ASSUME NEW j \in 0 .. capacity - 1 PROVE q.objects[j] = NoObject <=> ~InUse(q, j)
    BY <1>1, <1>2, <1>9, <1>13, <2>2, SlotIs
  <2>4. ASSUME NEW j \in 0 .. capacity - 1 PROVE OnStack(q, j) <=> ~InUse(q, j)
    <3>1. OnStack(p, j) <=> \E k \in 1 .. n : f[k] = j
      BY <1>0 DEF OnStack
    <3>2. OnStack(q, j) <=> \E k \in 1 .. n - 1 : f[k] = j
      BY <1>2, <1>7, <1>9 DEF OnStack
    <3>3. (\E k \in 1 .. n - 1 : f[k] = j) <=> (\E k \in 1 .. n : f[k] = j) /\ j # i
      <4>1. ASSUME NEW k \in 1 .. n - 1, f[k] = j PROVE k \in 1 .. n /\ f[k] = j /\ j # i
        BY <1>1, <1>2, <1>11, <4>1
      <4>2. ASSUME NEW k \in 1 .. n, f[k] = j, j # i PROVE k \in 1 .. n - 1 /\ f[k] = j
        BY <1>1, <1>2, <4>2
      <4> QED BY <4>1, <4>2
    <3> QED BY <2>2, <3>1, <3>2, <3>3, <1>3, SlotIs
  <2>5. \A j, k \in 1 .. Len(q.free) : q.free[j] = q.free[k] => j = k
    <3> SUFFICES ASSUME NEW j \in 1 .. n - 1, NEW k \in 1 .. n - 1, free[j] = free[k] PROVE j = k
      BY <1>7, <1>9
    <3>1. free[j] = f[j] /\ free[k] = f[k]
      BY <1>7
    <3>2. j \in 1 .. n /\ k \in 1 .. n
      BY <1>1
    <3> QED BY <1>11, <3>1, <3>2
  <2> QED BY <1>9, <2>3, <2>4, <2>5 DEF SlotsOK
<1>16. /\ add(p, o).handle = handleMake(i, p.generations[i] + 1)
       /\ add(p, o).pool.generations = [p.generations EXCEPT ![i] = p.generations[i] + 1]
       /\ add(p, o).pool.objects = [p.objects EXCEPT ![i] = o]
  BY <1>0, <1>4, <1>5, <1>8, <1>9, <1>13
<1>17. PoolOK(add(p, o).pool, capacity, S)
  BY <1>0, <1>9, <1>10 DEF PoolOK
<1> QED BY <1>2, <1>3, <1>16, <1>17

(* A handle that is valid and leads to an object is removed. *)
LEMMA RemoveIs ==
    ASSUME NEW capacity \in Nat, NEW S, NEW p, PoolOK(p, capacity, S),
           NEW h, isValid(p, h), InUse(p, h.index)
    PROVE  /\ h.index \in 0 .. capacity - 1
           /\ remove(p, h).generations = [p.generations EXCEPT ![h.index] = GenerationAfter(p.generations[h.index])]
           /\ remove(p, h).objects = [p.objects EXCEPT ![h.index] = NoObject]
           /\ PoolOK(remove(p, h), capacity, S)
<1>0. PICK n, i, q, f : n = Len(p.free) /\ i = h.index /\ q = remove(p, h) /\ f = p.free
  OBVIOUS
<1>1. /\ p.objects \in [0 .. capacity - 1 -> S \cup {NoObject}]
      /\ p.generations \in [0 .. capacity - 1 -> Generation]
      /\ f \in Seq(0 .. capacity - 1) /\ n \in Nat /\ n = Len(f)
      /\ DOMAIN p.generations = 0 .. capacity - 1 /\ SlotsOK(p)
  BY <1>0, PoolFields
<1>2. i \in 0 .. capacity - 1 /\ InUse(p, i)
  BY <1>0, PoolFields DEF isValid
<1>3. ~OnStack(p, i)
  BY <1>2, SlotIs
<1>11. /\ \A j, k \in 1 .. n : f[j] = f[k] => j = k
       /\ \A k \in 1 .. n : f[k] # i
  <2>1. \A j, k \in 1 .. n : f[j] = f[k] => j = k
    BY <1>0, <1>1 DEF SlotsOK
  <2>2. \A k \in 1 .. n : f[k] # i
    BY <1>0, <1>3 DEF OnStack
  <2> QED BY <2>1, <2>2
<1>4. PICK g \in Generation : g = GenerationAfter(p.generations[i]) /\ g = (p.generations[i] + 1) % Generations
                              /\ ~Odd(g)
  <2>1. p.generations[i] \in Generation /\ Odd(p.generations[i])
    BY <1>1, <1>2 DEF InUse
  <2> QED BY <2>1, GenerationAfterIs
<1>5. PICK gens : gens = [p.generations EXCEPT ![i] = g]
  OBVIOUS
<1>12. Bumped(p, i) = gens /\ gens[i] = g /\ gens \in [0 .. capacity - 1 -> Generation]
  BY <1>1, <1>2, <1>4, <1>5 DEF Bumped
<1>13. PICK objs : objs = [p.objects EXCEPT ![i] = NoObject]
  OBVIOUS
<1>14. objs \in [0 .. capacity - 1 -> S \cup {NoObject}]
  BY <1>1, <1>13
<1>15. PICK free : free = Append(f, i)
  OBVIOUS
<1>7. /\ free \in Seq(0 .. capacity - 1) /\ Len(free) = n + 1
      /\ free[n + 1] = i /\ \A k \in 1 .. n : free[k] = f[k]
  BY <1>1, <1>2, <1>15, AppendProperties
<1>8. q = [objects |-> objs, generations |-> gens, free |-> free]
  BY <1>0, <1>12, <1>13, <1>15 DEF remove
<1>9. /\ q \in PoolRec(capacity, S)
      /\ q.objects = objs /\ q.generations = gens /\ q.free = free
      /\ DOMAIN q.generations = 0 .. capacity - 1
  BY <1>7, <1>8, <1>12, <1>14, RecIs
<1>10. SlotsOK(q)
  <2>2. ASSUME NEW j \in 0 .. capacity - 1 PROVE InUse(q, j) <=> (j # i /\ InUse(p, j))
    <3>1. CASE j = i
      <4>1. q.generations[j] = g
        BY <1>9, <1>12, <3>1
      <4> QED BY <1>4, <3>1, <4>1 DEF InUse
    <3>2. CASE j # i
      BY <1>1, <1>5, <1>9, <3>2 DEF InUse
    <3> QED BY <3>1, <3>2
  <2>3. ASSUME NEW j \in 0 .. capacity - 1 PROVE q.objects[j] = NoObject <=> ~InUse(q, j)
    BY <1>1, <1>2, <1>9, <1>13, <2>2, SlotIs
  <2>4. ASSUME NEW j \in 0 .. capacity - 1 PROVE OnStack(q, j) <=> ~InUse(q, j)
    <3>1. OnStack(p, j) <=> \E k \in 1 .. n : f[k] = j
      BY <1>0 DEF OnStack
    <3>2. OnStack(q, j) <=> \E k \in 1 .. n + 1 : free[k] = j
      BY <1>7, <1>9 DEF OnStack
    <3>3. (\E k \in 1 .. n + 1 : free[k] = j) <=> (\E k \in 1 .. n : f[k] = j) \/ j = i
      <4>1. ASSUME NEW k \in 1 .. n + 1, free[k] = j PROVE (k \in 1 .. n /\ f[k] = j) \/ j = i
        BY <1>1, <1>7, <4>1
      <4>2. ASSUME NEW k \in 1 .. n, f[k] = j PROVE k \in 1 .. n + 1 /\ free[k] = j
        BY <1>1, <1>7, <4>2
      <4>3. n + 1 \in 1 .. n + 1 /\ free[n + 1] = i
        BY <1>1, <1>7
      <4> QED BY <4>1, <4>2, <4>3
    <3> QED BY <2>2, <3>1, <3>2, <3>3, SlotIs
  <2>5. \A j, k \in 1 .. Len(q.free) : q.free[j] = q.free[k] => j = k
    <3> SUFFICES ASSUME NEW j \in 1 .. n + 1, NEW k \in 1 .. n + 1, free[j] = free[k] PROVE j = k
      BY <1>7, <1>9
    <3>1. CASE j \in 1 .. n /\ k \in 1 .. n
      BY <1>7, <1>11, <3>1
    <3>2. CASE j = n + 1 /\ k \in 1 .. n
      BY <1>7, <1>11, <3>2
    <3>3. CASE j \in 1 .. n /\ k = n + 1
      BY <1>7, <1>11, <3>3
    <3> QED BY <1>1, <3>1, <3>2, <3>3
  <2> QED BY <1>9, <2>3, <2>4, <2>5 DEF SlotsOK
<1>16. /\ remove(p, h).generations = [p.generations EXCEPT ![i] = GenerationAfter(p.generations[i])]
       /\ remove(p, h).objects = [p.objects EXCEPT ![i] = NoObject]
  BY <1>0, <1>4, <1>5, <1>9, <1>13
<1>17. PoolOK(remove(p, h), capacity, S)
  BY <1>0, <1>9, <1>10 DEF PoolOK
<1> QED BY <1>0, <1>2, <1>16, <1>17

-----------------------------------------------------------------------------
(* What holders of handles see of a pool in which no object is twice.        *)
Word == [index : Nat, generation : Nat]
Unique(p) == \A i, j \in DOMAIN p.generations : p.objects[i] = p.objects[j] /\ p.objects[i] # NoObject => i = j
Holds(p, o) == \E i \in DOMAIN p.generations : p.objects[i] = o
Leads(p, h, o) == isValid(p, h) /\ p.objects[h.index] = o

(* The pool has returned h. *)
Returned(p, h) == /\ h \in Word /\ h.index \in DOMAIN p.generations
                  /\ Odd(h.generation) /\ h.generation <= p.generations[h.index]

(* Each generation is what it was or the next. *)
Bumps(p, q) == \A i \in DOMAIN p.generations : q.generations[i] <= p.generations[i] + 1

LEMMA WordIs ==
    ASSUME NEW h \in Word
    PROVE  /\ h.index \in Nat /\ h.generation \in Nat
           /\ h = handleMake(h.index, h.generation)
BY DEF Word, handleMake

LEMMA SamePool ==
    ASSUME NEW capacity \in Nat, NEW S, NEW p, PoolOK(p, capacity, S)
    PROVE  Bumps(p, p)
<1>1. /\ p.generations \in [0 .. capacity - 1 -> Generation]
      /\ DOMAIN p.generations = 0 .. capacity - 1
  BY PoolFields
<1>2. ASSUME NEW i \in 0 .. capacity - 1 PROVE p.generations[i] <= p.generations[i] + 1
  <2>1. p.generations[i] \in Nat
    BY <1>1, GenerationsAssumption DEF Generation
  <2> QED BY <2>1
<1> QED BY <1>1, <1>2 DEF Bumps

LEMMA EmptyPool ==
    ASSUME NEW capacity \in Nat, NEW S, NoObject \notin S
    PROVE  /\ PoolOK(NewPool(capacity), capacity, S) /\ Unique(NewPool(capacity))
           /\ \A o \in S : ~Holds(NewPool(capacity), o)
           /\ \A i \in DOMAIN NewPool(capacity).generations : NewPool(capacity).generations[i] = 0
<1>0. PICK p : p = NewPool(capacity)
  OBVIOUS
<1>1. /\ PoolOK(p, capacity, S)
      /\ \A i \in 0 .. capacity - 1 : p.generations[i] = 0 /\ p.objects[i] = NoObject
  BY <1>0, NewPoolIs
<1>2. DOMAIN p.generations = 0 .. capacity - 1
  BY <1>1, PoolFields
<1>3. Unique(p) /\ \A o \in S : ~Holds(p, o)
  BY <1>1, <1>2 DEF Unique, Holds
<1> QED BY <1>0, <1>1, <1>2, <1>3

(* A handle that was returned finds an object exactly if it is valid. *)
LEMMA ReturnedFinds ==
    ASSUME NEW capacity \in Nat, NEW S, NoObject \notin S, NEW p, PoolOK(p, capacity, S),
           NEW h, Returned(p, h)
    PROVE  /\ lookup(p, h) \in S \cup {NoObject}
           /\ h.index \in 0 .. capacity - 1
           /\ lookup(p, h) # NoObject <=> isValid(p, h)
           /\ lookup(p, h) # NoObject => Leads(p, h, lookup(p, h)) /\ InUse(p, h.index)
<1>1. /\ p.objects \in [0 .. capacity - 1 -> S \cup {NoObject}]
      /\ DOMAIN p.generations = 0 .. capacity - 1 /\ h.index \in 0 .. capacity - 1
  BY PoolFields DEF Returned
<1>2. CASE isValid(p, h)
  <2>1. InUse(p, h.index)
    BY <1>2 DEF Returned, isValid, InUse
  <2>2. p.objects[h.index] # NoObject
    BY <1>1, <2>1, SlotIs
  <2>3. lookup(p, h) = p.objects[h.index]
    BY <1>2 DEF lookup
  <2> QED BY <1>1, <1>2, <2>1, <2>2, <2>3 DEF Leads
<1>3. CASE ~isValid(p, h)
  BY <1>1, <1>3 DEF lookup
<1> QED BY <1>2, <1>3

LEMMA OneHandle ==
    ASSUME NEW p, Unique(p), NEW h \in Word, NEW k \in Word, NEW o, o # NoObject,
           Leads(p, h, o), Leads(p, k, o)
    PROVE  h = k
<1>1. h.index = k.index
  BY DEF Leads, isValid, Slots, Unique
<1>2. h.generation = k.generation
  BY <1>1 DEF Leads, isValid
<1> QED BY <1>1, <1>2, WordIs

LEMMA FoundBack ==
    ASSUME NEW p, Unique(p), NEW h \in Word, NEW o, o # NoObject, Leads(p, h, o), DOMAIN p.generations \subseteq Nat
    PROVE  reverseLookup(p, o) = h /\ lookup(p, h) = o /\ Holds(p, o)
<1>0. PICK i : i = h.index
  OBVIOUS
<1>1. i \in DOMAIN p.generations /\ p.objects[i] = o /\ h = handleMake(i, p.generations[i])
  BY <1>0, WordIs DEF Leads, isValid, Slots
<1>2. \A j \in DOMAIN p.generations : p.objects[j] = o => j = i
  BY <1>1 DEF Unique
<1>3. i \in Slots(p) /\ p.objects[i] = o /\ \A j \in Slots(p) : p.objects[j] = o => i <= j
  BY <1>1, <1>2 DEF Slots
<1>4. i = CHOOSE k \in Slots(p) : p.objects[k] = o /\ \A j \in Slots(p) : p.objects[j] = o => k <= j
  BY <1>2, <1>3 DEF Slots
<1>5. reverseLookup(p, o) = handleMake(i, p.generations[i])
  BY <1>3, <1>4 DEF reverseLookup
<1>6. lookup(p, h) = o /\ Holds(p, o)
  BY <1>1 DEF lookup, Leads, Holds
<1> QED BY <1>1, <1>5, <1>6

LEMMA LookupLeads ==
    ASSUME NEW p, NEW h, NEW o, o # NoObject, lookup(p, h) = o
    PROVE  Leads(p, h, o) /\ Holds(p, o)
<1>1. isValid(p, h) /\ p.objects[h.index] = o
  BY DEF lookup
<1> QED BY <1>1 DEF Leads, isValid, Slots, Holds

-----------------------------------------------------------------------------
(* The handles of others when an object comes, and when one goes. *)
Keeps(p, q, h) == Returned(q, h) /\ lookup(q, h) = lookup(p, h)

LEMMA AddKeeps ==
    ASSUME NEW capacity \in Nat, NEW S, NoObject \notin S, NEW p, PoolOK(p, capacity, S), Unwrapped(p), Unique(p),
           NEW o \in S, ~Holds(p, o), ~Full(p)
    PROVE  /\ PoolOK(add(p, o).pool, capacity, S) /\ Unique(add(p, o).pool) /\ Bumps(p, add(p, o).pool)
           /\ \A x \in S : Holds(add(p, o).pool, x) <=> Holds(p, x) \/ x = o
           /\ \A h : Returned(p, h) => Keeps(p, add(p, o).pool, h)
           /\ \A h \in Word : \A x \in S : Leads(p, h, x) => Leads(add(p, o).pool, h, x)
<1>0. PICK q : q = add(p, o).pool
  OBVIOUS
<1>1. PICK i \in 0 .. capacity - 1 :
             /\ ~InUse(p, i)
             /\ q.generations = [p.generations EXCEPT ![i] = p.generations[i] + 1]
             /\ q.objects = [p.objects EXCEPT ![i] = o]
             /\ PoolOK(q, capacity, S)
  BY <1>0, AddIs
<1>2. /\ p.objects \in [0 .. capacity - 1 -> S \cup {NoObject}]
      /\ p.generations \in [0 .. capacity - 1 -> Generation]
      /\ DOMAIN p.generations = 0 .. capacity - 1
  BY PoolFields
<1>3. DOMAIN q.generations = 0 .. capacity - 1
  BY <1>1, <1>2
<1>4. ASSUME NEW k \in 0 .. capacity - 1
      PROVE  /\ p.generations[k] \in Nat
             /\ q.generations[k] = IF k = i THEN p.generations[k] + 1 ELSE p.generations[k]
             /\ q.objects[k] = IF k = i THEN o ELSE p.objects[k]
  <2>1. p.generations[k] \in Nat
    <3>1. p.generations[k] \in Generation
      BY <1>2
    <3> QED BY <3>1, GenerationsAssumption DEF Generation
  <2> QED BY <1>1, <1>2, <2>1
<1>5. p.objects[i] = NoObject
  BY <1>1, SlotIs
<1>6. Unique(q)
  BY <1>2, <1>3, <1>4 DEF Unique, Holds
<1>7. Bumps(p, q)
  BY <1>2, <1>4 DEF Bumps
<1>8. ASSUME NEW x \in S PROVE Holds(q, x) <=> Holds(p, x) \/ x = o
  BY <1>2, <1>3, <1>4, <1>5 DEF Holds
<1>9. ASSUME NEW h, Returned(p, h) PROVE Keeps(p, q, h)
  <2>1. h \in Word /\ h.index \in 0 .. capacity - 1 /\ Odd(h.generation) /\ h.generation <= p.generations[h.index]
    BY <1>2, <1>9 DEF Returned
  <2>2. h.generation \in Nat
    BY <2>1, WordIs
  <2>3. Returned(q, h)
    BY <1>3, <1>4, <2>1, <2>2 DEF Returned
  <2>4. CASE h.index = i
    <3>1. ~Odd(p.generations[i])
      BY <1>1 DEF InUse
    <3>2. h.generation # p.generations[i] /\ h.generation # q.generations[i]
      BY <1>4, <2>1, <2>2, <2>4, <3>1
    <3> QED BY <2>3, <2>4, <3>2 DEF Keeps, lookup, isValid
  <2>5. CASE h.index # i
    BY <1>2, <1>3, <1>4, <2>1, <2>3, <2>5 DEF Keeps, lookup, isValid, Slots
  <2> QED BY <2>4, <2>5
<1>10. ASSUME NEW h \in Word, NEW x \in S, Leads(p, h, x) PROVE Leads(q, h, x)
  <2>1. h.index \in 0 .. capacity - 1 /\ p.objects[h.index] = x /\ p.generations[h.index] = h.generation
    BY <1>2, <1>10 DEF Leads, isValid, Slots
  <2>2. h.index # i
    BY <1>5, <2>1
  <2> QED BY <1>3, <1>4, <2>1, <2>2 DEF Leads, isValid, Slots
<1> QED BY <1>0, <1>1, <1>6, <1>7, <1>8, <1>9, <1>10

LEMMA RemoveKeeps ==
    ASSUME NEW capacity \in Nat, NEW S, NoObject \notin S, NEW p, PoolOK(p, capacity, S), Unwrapped(p), Unique(p),
           NEW h, Returned(p, h), isValid(p, h)
    PROVE  /\ PoolOK(remove(p, h), capacity, S) /\ Unique(remove(p, h)) /\ Bumps(p, remove(p, h))
           /\ \A x \in S : Holds(remove(p, h), x) <=> Holds(p, x) /\ x # lookup(p, h)
           /\ \A k : Returned(p, k) /\ k # h => Keeps(p, remove(p, h), k)
           /\ Returned(remove(p, h), h)
           /\ \A k \in Word : \A x \in S : Leads(p, k, x) /\ x # lookup(p, h) => Leads(remove(p, h), k, x)
<1>0. PICK q, i, o : q = remove(p, h) /\ i = h.index /\ o = lookup(p, h)
  OBVIOUS
<1>1. /\ p.objects \in [0 .. capacity - 1 -> S \cup {NoObject}]
      /\ p.generations \in [0 .. capacity - 1 -> Generation]
      /\ DOMAIN p.generations = 0 .. capacity - 1
  BY PoolFields
<1>2. /\ i \in 0 .. capacity - 1 /\ InUse(p, h.index) /\ p.objects[i] = o /\ o \in S
      /\ h.generation = p.generations[i] /\ h \in Word /\ Odd(h.generation)
  <2>1. Leads(p, h, o) /\ InUse(p, h.index) /\ o \in S
    BY <1>0, ReturnedFinds
  <2> QED BY <1>0, <1>1, <2>1 DEF Leads, isValid, Slots, Returned
<1>3. /\ q.generations = [p.generations EXCEPT ![i] = p.generations[i] + 1]
      /\ q.objects = [p.objects EXCEPT ![i] = NoObject]
      /\ PoolOK(q, capacity, S)
  <2>1. /\ q.generations = [p.generations EXCEPT ![i] = GenerationAfter(p.generations[i])]
        /\ q.objects = [p.objects EXCEPT ![i] = NoObject]
        /\ PoolOK(q, capacity, S)
    BY <1>0, <1>2, RemoveIs
  <2>2. p.generations[i] + 1 # Generations
    <3>1. p.generations[i] + 1 < Generations
      BY <1>1, <1>2 DEF Unwrapped
    <3> QED BY <3>1, GenerationsAssumption
  <2> QED BY <2>1, <2>2 DEF GenerationAfter
<1>4. DOMAIN q.generations = 0 .. capacity - 1
  BY <1>1, <1>3
<1>5. ASSUME NEW k \in 0 .. capacity - 1
      PROVE  /\ p.generations[k] \in Nat
             /\ q.generations[k] = IF k = i THEN p.generations[k] + 1 ELSE p.generations[k]
             /\ q.objects[k] = IF k = i THEN NoObject ELSE p.objects[k]
  <2>1. p.generations[k] \in Nat
    <3>1. p.generations[k] \in Generation
      BY <1>1
    <3> QED BY <3>1, GenerationsAssumption DEF Generation
  <2> QED BY <1>1, <1>3, <2>1
<1>6. Unique(q)
  BY <1>1, <1>4, <1>5 DEF Unique
<1>7. Bumps(p, q)
  BY <1>1, <1>5 DEF Bumps
<1>8. ASSUME NEW x \in S PROVE Holds(q, x) <=> Holds(p, x) /\ x # o
  <2>1. ASSUME NEW k \in 0 .. capacity - 1, p.objects[k] = o PROVE k = i
    BY <1>1, <1>2, <2>1 DEF Unique
  <2> QED BY <1>1, <1>2, <1>4, <1>5, <2>1 DEF Holds
<1>9. ASSUME NEW k, Returned(p, k) PROVE Returned(q, k) /\ (k # h => Keeps(p, q, k))
  <2>1. k \in Word /\ k.index \in 0 .. capacity - 1 /\ Odd(k.generation) /\ k.generation <= p.generations[k.index]
    BY <1>1, <1>9 DEF Returned
  <2>2. k.generation \in Nat
    BY <2>1, WordIs
  <2>3. Returned(q, k)
    BY <1>4, <1>5, <2>1, <2>2 DEF Returned
  <2>4. CASE k.index = i /\ k # h
    <3>1. k.generation # h.generation
      BY <1>0, <1>2, <2>1, <2>4, WordIs
    <3>2. ~Odd(q.generations[i])
      <4>1. q.generations[i] = p.generations[i] + 1 /\ p.generations[i] \in Nat /\ Odd(p.generations[i])
        BY <1>2, <1>5
      <4> QED BY <4>1, Parity
    <3>3. k.generation # p.generations[i] /\ k.generation # q.generations[i]
      BY <1>2, <2>1, <3>1, <3>2
    <3> QED BY <2>3, <2>4, <3>3 DEF Keeps, lookup, isValid
  <2>5. CASE k.index # i
    BY <1>1, <1>4, <1>5, <2>1, <2>3, <2>5 DEF Keeps, lookup, isValid, Slots
  <2> QED BY <2>3, <2>4, <2>5
<1>10. ASSUME NEW k \in Word, NEW x \in S, Leads(p, k, x), x # o PROVE Leads(q, k, x)
  <2>1. k.index \in 0 .. capacity - 1 /\ p.objects[k.index] = x /\ p.generations[k.index] = k.generation
    BY <1>1, <1>10 DEF Leads, isValid, Slots
  <2>2. k.index # i
    BY <1>2, <1>10, <2>1
  <2> QED BY <1>4, <1>5, <2>1, <2>2 DEF Leads, isValid, Slots
<1> QED BY <1>0, <1>3, <1>6, <1>7, <1>8, <1>9, <1>10
=============================================================================
