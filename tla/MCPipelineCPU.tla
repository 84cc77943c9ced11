---------------------------- MODULE MCPipelineCPU ---------------------------
(* Instances of PipelineCPU for TLC. *)
EXTENDS PipelineCPU, TLC

Frames0 == 0 .. 2
Frames3 == 1 .. 3
Frames2 == 1 .. 2
TemporalKinds == {"temporal", "refresh"}
Symmetry == Permutations(Pic)
=============================================================================
