---------------------------- MODULE BoundedQueue ----------------------------
(***************************************************************************)
(* What the users of a ring buffer rely on: a queue that never holds more  *)
(* than its capacity and gives elements out in the order they came.        *)
(***************************************************************************)
EXTENDS Naturals, Sequences

CONSTANTS Element, Capacity

VARIABLES queue,
          taken         \* the elements handed out so far

Init == queue = <<>> /\ taken = <<>>

Put(e) == /\ Len(queue) < Capacity
          /\ queue' = Append(queue, e)
          /\ UNCHANGED taken

Take == /\ queue # <<>>
        /\ queue' = Tail(queue)
        /\ taken' = Append(taken, Head(queue))

Next == Take \/ \E e \in Element : Put(e)

Spec == Init /\ [][Next]_<<queue, taken>>
=============================================================================
