----------------------------- MODULE HandlePool -----------------------------
(***************************************************************************)
(* Pool<T> of api/src/pool.h: objects in slots, found again through        *)
(* handles.  A handle packs the index of a slot and the generation the     *)
(* slot had when the handle was made into one word; nothing else is ever   *)
(* packed, so it is a record here.  A generation is odd while the slot is  *)
(* in use.  A pool is a value, so that a module can have several.          *)
(***************************************************************************)
EXTENDS Naturals, Sequences

CONSTANTS NoObject,         \* a null pointer
          NoIndex,          \* the index in a word of ones: past the end of any pool
          Generations       \* where a generation wraps: 2^16 in the code

ASSUME GenerationsAssumption ==
    Generations \in Nat /\ Generations >= 4 /\ Generations % 2 = 0 /\ NoIndex \in Nat

Generation == 0 .. Generations - 1
handleMake(index, generation) == [index |-> index, generation |-> generation]

InvalidHandle == handleMake(NoIndex, Generations - 1)
(* A word of zeros, which the API leaves behind when it makes no picture. *)
ZeroHandle == handleMake(0, 0)

(* m_objects, m_generations, and m_freeIndices, a stack whose top is last. *)
NewPool(capacity) ==
    [objects |-> [i \in 0 .. capacity - 1 |-> NoObject],
     generations |-> [i \in 0 .. capacity - 1 |-> 0],
     free |-> [k \in 1 .. capacity |-> k - 1]]

Slots(pool) == DOMAIN pool.generations

isValid(pool, h) == h.index \in Slots(pool) /\ pool.generations[h.index] = h.generation

lookup(pool, h) == IF isValid(pool, h) THEN pool.objects[h.index] ELSE NoObject

reverseLookup(pool, o) ==
    IF \E i \in Slots(pool) : pool.objects[i] = o
    THEN LET i == CHOOSE i \in Slots(pool) :
                      pool.objects[i] = o /\ \A j \in Slots(pool) : pool.objects[j] = o => i <= j
         IN  handleMake(i, pool.generations[i])
    ELSE InvalidHandle

Bumped(pool, i) == [pool.generations EXCEPT ![i] = (@ + 1) % Generations]

Top(pool) == pool.free[Len(pool.free)]
Full(pool) == pool.free = <<>>

(* The pool after add(), and the handle it returns. *)
add(pool, o) ==
    IF Full(pool) \/ o = NoObject
    THEN [pool |-> pool, handle |-> InvalidHandle]
    ELSE LET i == Top(pool)
         IN  [pool |-> [objects |-> [pool.objects EXCEPT ![i] = o],
                        generations |-> Bumped(pool, i),
                        free |-> SubSeq(pool.free, 1, Len(pool.free) - 1)],
              handle |-> handleMake(i, Bumped(pool, i)[i])]

(* Mutant: the generation is bumped when a slot is taken, not when it is left. *)
removeUnbumped(pool, h) ==
    IF ~isValid(pool, h) THEN pool
    ELSE [pool EXCEPT !.free = Append(@, h.index), !.objects[h.index] = NoObject]

(* The pool after remove(); what is returned is what lookup() finds. *)
remove(pool, h) ==
    IF ~isValid(pool, h) THEN pool
    ELSE [objects |-> [pool.objects EXCEPT ![h.index] = NoObject],
          generations |-> Bumped(pool, h.index),
          free |-> Append(pool.free, h.index)]

(* The handles of the slots in use, as at(0), at(1), ... yields them. *)
Held(pool) == {handleMake(i, pool.generations[i]) : i \in {j \in Slots(pool) : pool.generations[j] % 2 = 1}}
=============================================================================
