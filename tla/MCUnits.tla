------------------------------- MODULE MCUnits -------------------------------
(* Two algorithms on their inputs, one input to a behaviour: the sizes of a   *)
(* tile up to MaxUnits transform units each way, and messages of user data    *)
(* that hold the enhancement's unit behind a start code.                      *)
EXTENDS TransformUnits, NalUnits

CONSTANT MaxUnits

VARIABLE input

Tiles == {<<w, h, s>> : w \in 1 .. MaxUnits, h \in 1 .. MaxUnits, s \in {1, 2}}

Messages ==
  [codec : CodecType, format : NALFormat, prefix : {3, 4}, inner : {3, 4}, idr : BOOLEAN,
   payload : {<<7>>, <<0, 0, 1, 5>>}]

TileInit == \E t \in Tiles : input = TuStateInitialize(t[1] * 2 ^ t[3], t[2] * 2 ^ t[3], 0, 0, t[3])
TileSpec == TileInit /\ [][UNCHANGED input]_input

MessageInit == input \in Messages
MessageSpec == MessageInit /\ [][UNCHANGED input]_input

\* The two ways to the block-aligned index of a TU agree: from its index in
\* block raster, and from its pixel.  test_transform_unit.cpp expects this.
IndexesAgree == AlignedIndexesAgree(input)

\* What is extracted from a message is what was put in, without what kept it
\* from looking like a start code (extract.c, unencapsulate()).
EmulationUndone == EmulationRemoved(input)
=============================================================================
