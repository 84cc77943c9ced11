---------------------------- MODULE TransformUnits ----------------------------
(***************************************************************************)
(* How the transform units (TUs) of a tile are numbered: in surface raster,*)
(* in block raster (32x32-pixel blocks in raster order, the TUs of a block *)
(* in raster order) and in block-aligned raster (the same, as though the   *)
(* edge blocks were whole).  enhancement/src/transform_unit.c.             *)
(*                                                                         *)
(* A shift by s is written as a product or a quotient with 2^s.            *)
(***************************************************************************)
EXTENDS Integers

CONSTANT BSTemporalShift  \* log2 of the side of a block in pixels (5 in the code)

ASSUME ShiftAssumption == BSTemporalShift \in Nat \ {0}

BSTemporal == 2 ^ BSTemporalShift

\* ldeTuStateInitialize() refuses a tile that is not made of whole TUs.
TuStateValid(width, height, tuWidthShift) ==
  /\ width % (2 ^ tuWidthShift) = 0
  /\ height % (2 ^ tuWidthShift) = 0

TuStateInitialize(width, height, xOffset, yOffset, tuWidthShift) ==
  LET dims     == 2 ^ (BSTemporalShift - tuWidthShift)
      across   == width \div (2 ^ tuWidthShift)
      down     == height \div (2 ^ tuWidthShift)
      ceil(n)  == (n + BSTemporal - 1) \div BSTemporal
      bottom   == (height % BSTemporal) \div (2 ^ tuWidthShift)
  IN  [tuWidth                |-> 2 ^ tuWidthShift,
       numAcross              |-> across,
       tuTotal                |-> across * down,
       xOffset                |-> xOffset,
       yOffset                |-> yOffset,
       tuPerBlockDims         |-> dims,
       tuPerBlock             |-> dims * dims,
       tuPerBlockRowRightEdge |-> (width % BSTemporal) \div (2 ^ tuWidthShift),
       tuPerBlockColBottomEdge |-> bottom,
       tuPerBlockBottomEdge   |-> bottom * dims,
       tuPerRow               |-> across * dims,
       wholeBlocksPerRow      |-> width \div BSTemporal,
       wholeBlocksPerCol      |-> height \div BSTemporal,
       maxWholeBlockTu        |-> (height \div BSTemporal) * across * dims,
       blocksPerRow           |-> ceil(width),
       blocksPerCol           |-> ceil(height),
       alignedTuPerRow        |-> ((ceil(width) * BSTemporal) \div (2 ^ tuWidthShift)) * dims]

SurfaceRaster(s, tuIndex) ==
  [x |-> (tuIndex % s.numAcross) * s.tuWidth + s.xOffset,
   y |-> (tuIndex \div s.numAcross) * s.tuWidth + s.yOffset]

SurfaceIndex(s, x, y) == (y \div s.tuWidth) * s.numAcross + (x \div s.tuWidth)

\* The pixel at which the TU in column col and row row of a block lies.
BlockPixel(s, blockCol, blockRow, col, row) ==
  [x |-> (col + blockCol * s.tuPerBlockDims) * s.tuWidth + s.xOffset,
   y |-> (row + blockRow * s.tuPerBlockDims) * s.tuWidth + s.yOffset]

BlockRaster(s, tuIndex) ==
  LET blockRow  == tuIndex \div s.tuPerRow
      rowTU     == tuIndex - blockRow * s.tuPerRow
      perBlock  == IF blockRow >= s.wholeBlocksPerCol THEN s.tuPerBlockBottomEdge
                                                      ELSE s.tuPerBlock
      blockCol  == rowTU \div perBlock
      blockTU   == rowTU % perBlock
      perRow    == IF blockCol >= s.wholeBlocksPerRow THEN s.tuPerBlockRowRightEdge
                                                      ELSE s.tuPerBlockDims
  IN  BlockPixel(s, blockCol, blockRow, blockTU % perRow, blockTU \div perRow)

BlockAlignedRaster(s, index) ==
  LET rowTU   == index % s.alignedTuPerRow
      blockTU == rowTU % s.tuPerBlock
  IN  BlockPixel(s, rowTU \div s.tuPerBlock, index \div s.alignedTuPerRow,
                 blockTU % s.tuPerBlockDims, blockTU \div s.tuPerBlockDims)

CoordsBlockAlignedIndex(s, px, py) ==
  LET x == px - s.xOffset
      y == py - s.yOffset
  IN  (y \div BSTemporal) * s.alignedTuPerRow + (x \div BSTemporal) * s.tuPerBlock
        + ((y % BSTemporal) \div s.tuWidth) * s.tuPerBlockDims
        + (x % BSTemporal) \div s.tuWidth

\* The TUs that the partial blocks before tuIndex lack: to the right of every
\* block row above, and, for a TU in a block of the right edge, beside the TU
\* rows above it in that block.
RightEdgeGap(s, tuIndex) ==
  LET lacking == s.tuPerBlockDims - s.tuPerBlockRowRightEdge
      inRow   == tuIndex % s.tuPerRow
  IN  IF s.tuPerBlockRowRightEdge = 0 THEN 0
      ELSE (s.tuPerBlock - s.tuPerBlockRowRightEdge * s.tuPerBlockDims) * (tuIndex \div s.tuPerRow)
             + (IF inRow > s.wholeBlocksPerRow * s.tuPerBlock
                THEN ((inRow % s.tuPerBlock) \div s.tuPerBlockRowRightEdge) * lacking
                ELSE 0)

\* The same below the blocks of the bottom edge.
BottomEdgeGap(s, tuIndex) ==
  LET perBlock  == s.tuPerBlockColBottomEdge * s.tuPerBlockDims
      inEdge    == tuIndex - s.maxWholeBlockTu
      lastBlock == inEdge \div perBlock
  IN  IF s.tuPerBlockColBottomEdge = 0 \/ tuIndex <= s.maxWholeBlockTu THEN 0
      ELSE (s.tuPerBlock - perBlock) * lastBlock
             + (IF lastBlock = s.blocksPerRow - 1 /\ s.tuPerBlockRowRightEdge > 0
                THEN ((inEdge % perBlock) \div s.tuPerBlockRowRightEdge)
                       * (s.tuPerBlockDims - s.tuPerBlockRowRightEdge)
                ELSE 0)

IndexBlockAlignedIndex(s, tuIndex) ==
  tuIndex + RightEdgeGap(s, tuIndex) + BottomEdgeGap(s, tuIndex)

BlockTuCount(s, tuIndex) ==
  LET wide == IF tuIndex % s.tuPerRow >= s.wholeBlocksPerRow * s.tuPerBlock
              THEN s.tuPerBlockRowRightEdge ELSE s.tuPerBlockDims
      high == IF tuIndex >= s.maxWholeBlockTu
              THEN s.tuPerBlockColBottomEdge ELSE s.tuPerBlockDims
  IN  wide * high

IsBlockStart(s, tuIndex) ==
  IF tuIndex >= s.maxWholeBlockTu
  THEN (tuIndex - s.maxWholeBlockTu) % s.tuPerBlockBottomEdge = 0
  ELSE (tuIndex % s.tuPerRow) % s.tuPerBlock = 0

-----------------------------------------------------------------------------
\* Reference: the corner of the block that a pixel of the tile lies in, and
\* the pixels at which the TUs of the tile start.
BlockOf(s, p) == <<(p.x - s.xOffset) \div BSTemporal, (p.y - s.yOffset) \div BSTemporal>>

TusOf(s) ==
  [x : {s.xOffset + s.tuWidth * i : i \in 0 .. s.numAcross - 1},
   y : {s.yOffset + s.tuWidth * i : i \in 0 .. (s.tuTotal \div s.numAcross) - 1}]

\* Block raster goes through every TU of the tile once, block after block;
\* IsBlockStart() is true of exactly the first TU of each block, and adding
\* BlockTuCount() to it leads to the next block, or out of the tile from the
\* last one (of the block in the bottom right corner, which is counted as wide
\* as the others).  The decode loop jumps by these numbers.
BlockRasterVisits(s) ==
  LET Tu  == 0 .. s.tuTotal - 1
      At  == [i \in Tu |-> BlockRaster(s, i)]
      Blk == [i \in Tu |-> BlockOf(s, At[i])]
  IN  /\ {At[i] : i \in Tu} = TusOf(s)
      /\ \A i \in Tu :
           LET start == i = 0 \/ Blk[i - 1] # Blk[i]
               next  == i + BlockTuCount(s, i)
           IN  /\ start = IsBlockStart(s, i)
               /\ start => /\ \A j \in Tu : i <= j /\ j < next => Blk[j] = Blk[i]
                           /\ next \in Tu => Blk[next] # Blk[i]

\* A TU's block-aligned index, worked out from its pixel, leads back to it.
AlignedIndexRoundTrips(s) ==
  \A p \in TusOf(s) : BlockAlignedRaster(s, CoordsBlockAlignedIndex(s, p.x, p.y)) = p

\* The two ways to the block-aligned index of a TU agree: from its index in
\* block raster, and from its pixel.  test_transform_unit.cpp expects this.
AlignedIndexesAgree(s) ==
  \A i \in 0 .. s.tuTotal - 1 :
     LET p == BlockRaster(s, i)
     IN  IndexBlockAlignedIndex(s, i) = CoordsBlockAlignedIndex(s, p.x, p.y)
=============================================================================
