---------------------------- MODULE MCTaskPool ------------------------------
(* Instances of TaskPool for TLC. *)
EXTENDS TaskPool, TLC

Shape(i, n, f) == [inputs |-> i, total |-> n, finisher |-> f]

(* Tasks that wait for one input, for two, and one cut into parts. *)
GroupShapes == {Shape(<<0>>, 1, FALSE), Shape(<<1, 0>>, 1, TRUE), Shape(<<0>>, 3, FALSE)}
(* A task that can also stand alone, and one in parts that waits twice. *)
CallShapes == {Shape(<<>>, 1, FALSE), Shape(<<1, 0>>, 3, TRUE)}
SmallShapes == {Shape(<<>>, 1, FALSE)}
Symmetry == Permutations(Task) \cup Permutations(Worker)
=============================================================================
