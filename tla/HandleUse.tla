----------------------------- MODULE HandleUse ------------------------------
(***************************************************************************)
(* One handle pool and callers that add objects, and present any word at   *)
(* all as a handle: ones they were given, however old, the word of zeros,  *)
(* forged ones.  Generations wrap.                                         *)
(***************************************************************************)
EXTENDS HandlePool, FiniteSets

CONSTANTS Object, Capacity

ASSUME UseAssumption == /\ NoObject \notin Object
                        /\ Capacity \in Nat \ {0} /\ Capacity < NoIndex

VARIABLES pool,
          table,        \* history, until misused: whose each returned handle is;
                        \* NoObject once removed
          result,       \* what the last call returned
          misused       \* history: remove() has been called with the handle of a free slot

vars == <<pool, table, result, misused>>

Init == /\ pool = NewPool(Capacity)
        /\ table = [h \in {} |-> NoObject]
        /\ result = InvalidHandle
        /\ misused = FALSE

Made == DOMAIN table

(* NoIndex stands for every index past the end of the pool. *)
Presented == {handleMake(i, g) : i \in (0 .. Capacity - 1) \cup {NoIndex}, g \in Generation}

(* An object is in a pool once. *)
Add(o) ==
    LET r == add(pool, o) IN
    /\ \A i \in Slots(pool) : pool.objects[i] # o
    /\ pool' = r.pool
    /\ result' = r.handle
    /\ table' = IF misused \/ r.handle = InvalidHandle THEN table
                ELSE [g \in Made \cup {r.handle} |-> IF g = r.handle THEN o ELSE table[g]]
    /\ UNCHANGED misused

(* The handle of a free slot has its even generation, and is valid to      *)
(* isValid(): remove() then frees the slot a second time (an assertion of  *)
(* remove() says that it does not).  The stack of free slots, which only   *)
(* such calls make longer than the pool, is bounded by MaxFree.            *)
OfFreeSlot(h) == isValid(pool, h) /\ h.generation % 2 = 0
MaxFree == Capacity + 1

Remove(h) == /\ isValid(pool, h) => Len(pool.free) < MaxFree
             /\ pool' = remove(pool, h)
             /\ result' = lookup(pool, h)
             /\ table' = [g \in Made |-> IF g = h /\ ~misused THEN NoObject ELSE table[g]]
             /\ misused' = (misused \/ OfFreeSlot(h))

Lookup(h) == /\ result' = lookup(pool, h)
             /\ UNCHANGED <<pool, table, misused>>

Next == \/ \E o \in Object : Add(o)
        \/ \E h \in Presented : Remove(h) \/ Lookup(h)

Spec == Init /\ [][Next]_vars

-----------------------------------------------------------------------------
(* The handles a pool gives out: an odd generation is one of a slot in use. *)
Handle == {h \in Presented : h.index # NoIndex /\ h.generation % 2 = 1}

Table == INSTANCE HandleTable

(* Whatever words are presented, a pool behaves like a table that gives a  *)
(* handle to a second object only when it has used up all of the slot's: a *)
(* stale or forged handle finds nothing, however its slot was used again,  *)
(* until somebody removes through the handle of a free slot.               *)
ImplementsTable == Table!Init /\ [][misused \/ Table!Next]_<<table, result>>
=============================================================================
