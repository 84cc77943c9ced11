------------------------------ MODULE TileLayout ------------------------------
(***************************************************************************)
(* How a global configuration divides the planes of each level of quality  *)
(* (LOQ) into tiles, and how the chunks of a frame's payload are numbered: *)
(* enhancement/src/dimensions.c, chunk.c, and the parts of config_parser.c *)
(* and chunk_parser.c that work out tile sizes, counts and chunk indices.  *)
(***************************************************************************)
EXTENDS Naturals, FiniteSets, SequencesExt, FiniteSetsExt

LOQ0 == 0
LOQ1 == 1
LOQ == {LOQ0, LOQ1}

\* A configuration: width, height, scalingModes [{0, 1} -> {"0D", "1D", "2D"}],
\* chroma, numPlanes, tuSize, numLayers, and luma's tileWidth and tileHeight
\* (those of the plane without tiling).
Planes(g) == 0 .. g.numPlanes - 1

Halved(n, halve) == IF halve THEN (n + 1) \div 2 ELSE n
DivideCeil(n, d) == (n + d - 1) \div d

HalfWidth(g) == g.chroma \in {"420", "422"}
HalfHeight(g) == g.chroma = "420"

\* The picture is made of whole transforms in the smallest plane of any LOQ.
ResolutionAligned(g) ==
  LET chroma(half) == IF g.numPlanes > 1 /\ half THEN 2 ELSE 1
      scaled(modes) == IF g.scalingModes[LOQ0] \in modes THEN 2 ELSE 1
  IN  /\ g.width % (g.tuSize * scaled({"1D", "2D"}) * chroma(HalfWidth(g))) = 0
      /\ g.height % (g.tuSize * scaled({"2D"}) * chroma(HalfHeight(g))) = 0

PlaneWidth(g, loq, plane) ==
  LET scale(n, l) == Halved(n, g.scalingModes[l] # "0D")
  IN  Halved(FoldLeft(scale, g.width, [l \in 1 .. loq |-> l - 1]), plane > 0 /\ HalfWidth(g))

PlaneHeight(g, loq, plane) ==
  LET scale(n, l) == Halved(n, g.scalingModes[l] = "2D")
  IN  Halved(FoldLeft(scale, g.height, [l \in 1 .. loq |-> l - 1]), plane > 0 /\ HalfHeight(g))

\* calculateTileDimensions(): the tile of a chroma plane covers what luma's does.
TileWidth(g, plane) == Halved(g.tileWidth, plane > 0 /\ HalfWidth(g))
TileHeight(g, plane) == Halved(g.tileHeight, plane > 0 /\ HalfHeight(g))

TilesAcross(g, loq, plane) == DivideCeil(PlaneWidth(g, loq, plane), TileWidth(g, plane))
NumTiles(g, plane, loq) ==
  TilesAcross(g, loq, plane) * DivideCeil(PlaneHeight(g, loq, plane), TileHeight(g, plane))

\* calculateTileCounts(): what makes a configuration refused.
TileCountsValid(g) ==
  \A plane \in Planes(g) :
     /\ TileWidth(g, plane) % g.tuSize = 0 /\ TileHeight(g, plane) % g.tuSize = 0
     /\ plane > 1 => \A loq \in LOQ : NumTiles(g, plane, loq) = NumTiles(g, 0, loq)

\* Accepted by parseBlockGlobalConfig(), as far as tiles are concerned.
ConfigAccepted(g) == ResolutionAligned(g) /\ TileCountsValid(g)

TileDimensions(g, loq, plane, tile) ==
  LET across == TilesAcross(g, loq, plane)
      least(a, b) == IF a <= b THEN a ELSE b
  IN  [width  |-> least(TileWidth(g, plane),
                        PlaneWidth(g, loq, plane) - (tile % across) * TileWidth(g, plane)),
       height |-> least(TileHeight(g, plane),
                        PlaneHeight(g, loq, plane) - (tile \div across) * TileHeight(g, plane))]

\* Tile 0 tells how far apart the tiles of the plane are.
TileStart(g, loq, plane, tile) ==
  LET across == TilesAcross(g, loq, plane)
      first  == TileDimensions(g, loq, plane, 0)
  IN  [x |-> (tile % across) * first.width, y |-> (tile \div across) * first.height]

-----------------------------------------------------------------------------
(* Chunks.  A frame f has entropyEnabled, temporalRefresh and              *)
(* temporalSignallingPresent; g.temporalEnabled is of the configuration.   *)

TemporalChunkEnabled(g, f) ==
  /\ g.temporalEnabled
  /\ ~f.temporalRefresh
  /\ f.entropyEnabled \/ f.temporalSignallingPresent

\* parseBlockPictureConfig(): the signalling is there by inference when the
\* picture is enhanced, and says so itself when it is not.
FrameParsed(g, f) ==
  f.entropyEnabled => f.temporalSignallingPresent = (g.temporalEnabled /\ ~f.temporalRefresh)

\* Mutant: the temporal layer of a plane shares the next plane's first chunks.
CalculateTileChunkIndicesShort(g, f) ==
  [residual |-> [p \in 1 .. g.numPlanes |-> [loq \in LOQ |->
      2 * (p - 1) * NumTiles(g, 0, LOQ0) * g.numLayers + loq * NumTiles(g, 0, LOQ0) * g.numLayers]],
   temporal |-> [p \in 1 .. g.numPlanes |-> 2 * p * NumTiles(g, 0, LOQ0) * g.numLayers]]

\* calculateTileChunkIndices(), plane after plane: LOQ0's layers, LOQ1's, then
\* the temporal layer.
CalculateTileChunkIndices(g, f) ==
  LET layers(plane, loq) == IF f.entropyEnabled THEN NumTiles(g, plane, loq) * g.numLayers ELSE 0
      temporal(plane)    == IF TemporalChunkEnabled(g, f) THEN NumTiles(g, plane, LOQ0) ELSE 0
      add(s, plane) ==
        [residual |-> Append(s.residual, [loq \in LOQ |-> s.offset + (IF loq = LOQ0 THEN 0
                                                                   ELSE layers(plane, LOQ0))]),
         temporal |-> Append(s.temporal, s.offset + layers(plane, LOQ0) + layers(plane, LOQ1)),
         offset   |-> s.offset + layers(plane, LOQ0) + layers(plane, LOQ1) + temporal(plane)]
  IN  FoldLeft(add, [residual |-> <<>>, temporal |-> <<>>, offset |-> 0],
               [p \in 1 .. g.numPlanes |-> p - 1])

LayerChunkIndex(g, f, loq, plane, tile, layer) ==
  CalculateTileChunkIndices(g, f).residual[plane + 1][loq] + tile * g.numLayers + layer

TemporalChunkIndex(g, f, plane, tile) ==
  CalculateTileChunkIndices(g, f).temporal[plane + 1] + tile

\* chunkCheckAlloc(): the number of chunks there is room for.
ChunkCount(g, f) ==
  (IF f.entropyEnabled
   THEN MapThenSumSet(LAMBDA p : (NumTiles(g, p, LOQ0) + NumTiles(g, p, LOQ1)) * g.numLayers,
                      Planes(g))
   ELSE 0)
  + (IF f.temporalSignallingPresent
   THEN MapThenSumSet(LAMBDA p : NumTiles(g, p, LOQ0), Planes(g))
   ELSE 0)

-----------------------------------------------------------------------------
Corners(g, loq, plane, tile) ==
  LET of(s, d) == [left |-> s.x, top |-> s.y, right |-> s.x + d.width, bottom |-> s.y + d.height]
  IN  of(TileStart(g, loq, plane, tile), TileDimensions(g, loq, plane, tile))

\* The tiles with these corners are the plane, divided.
Divided(C, width, height, tuSize) ==
  /\ \A t \in DOMAIN C :
       /\ C[t].left < C[t].right /\ C[t].right <= width
       /\ C[t].top < C[t].bottom /\ C[t].bottom <= height
       /\ (C[t].right - C[t].left) % tuSize = 0
       /\ (C[t].bottom - C[t].top) % tuSize = 0
  /\ \A t, u \in DOMAIN C : t # u =>
       \/ C[t].right <= C[u].left \/ C[u].right <= C[t].left
       \/ C[t].bottom <= C[u].top \/ C[u].bottom <= C[t].top
  /\ MapThenSumSet(LAMBDA t : (C[t].right - C[t].left) * (C[t].bottom - C[t].top), DOMAIN C) = width * height

\* Every plane of an accepted configuration is divided among its tiles: no two
\* overlap, together they are as large as the plane, and none leaves it.  Each
\* is made of whole transforms, so that ldeTuStateInitialize() refuses none.
TilesCoverPlanes(g) ==
  \A loq \in LOQ, plane \in Planes(g) :
     Divided([t \in 0 .. NumTiles(g, plane, loq) - 1 |-> Corners(g, loq, plane, t)],
             PlaneWidth(g, loq, plane), PlaneHeight(g, loq, plane), g.tuSize)

\* The chunks a frame refers to, each by what asks for it.
ChunkUsers(g, f) ==
  (IF f.entropyEnabled
   THEN UNION {{<<plane, loq, tile, layer>> : tile \in 0 .. NumTiles(g, plane, loq) - 1,
                                              layer \in 0 .. g.numLayers - 1} :
               plane \in Planes(g), loq \in LOQ}
   ELSE {})
  \cup (IF TemporalChunkEnabled(g, f)
        THEN UNION {{<<plane, tile>> : tile \in 0 .. NumTiles(g, plane, LOQ0) - 1} :
                    plane \in Planes(g)}
        ELSE {})

\* Every tile has a chunk of its own for each of its layers and for its
\* temporal signalling, inside what chunkCheckAlloc() allocates.
ChunksDistinct(g, f) ==
  LET users == ChunkUsers(g, f)
      index(u) == IF Len(u) = 4 THEN LayerChunkIndex(g, f, u[2], u[1], u[3], u[4])
                                ELSE TemporalChunkIndex(g, f, u[1], u[2])
      used == {index(u) : u \in users}
  IN  /\ Cardinality(used) = Cardinality(users)
      /\ used \subseteq 0 .. ChunkCount(g, f) - 1
=============================================================================
