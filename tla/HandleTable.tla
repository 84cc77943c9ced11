---------------------------- MODULE HandleTable -----------------------------
(***************************************************************************)
(* What the users of a handle pool rely on: a handle leads to the object   *)
(* it was made for until that is removed, and then to nothing; it is made  *)
(* again only when every handle of its slot has been made.                 *)
(***************************************************************************)
CONSTANTS Object, NoObject, Handle, InvalidHandle

VARIABLES table,        \* the objects of the handles made so far; NoObject once removed
          result        \* what the last call returned

Made == DOMAIN table
Found(h) == IF h \in Made THEN table[h] ELSE NoObject

Init == table = [h \in {} |-> NoObject] /\ result = InvalidHandle

UsedUp(i) == {h \in Handle : h.index = i} \subseteq Made

Add(o) == \/ result' = InvalidHandle /\ UNCHANGED table
          \/ /\ result' \in Handle /\ Found(result') = NoObject
             /\ result' \in Made => UsedUp(result'.index)
             /\ table' = [g \in Made \cup {result'} |-> IF g = result' THEN o ELSE table[g]]

Remove(h) == /\ table' = [g \in Made |-> IF g = h THEN NoObject ELSE table[g]]
             /\ result' = Found(h)

Lookup(h) == result' = Found(h) /\ UNCHANGED table

Next == \/ \E o \in Object : Add(o)
        \/ \E h \in Made \cup {InvalidHandle} : Remove(h) \/ Lookup(h)

Spec == Init /\ [][Next]_<<table, result>>
=============================================================================
