-------------------------- MODULE ConfigPool_proof --------------------------
(***************************************************************************)
(* What the configuration pool promises, for every value of its constants: *)
(* its counts are those of the frames that hold a configuration, and it    *)
(* implements a stream whose frames each keep a copy of the settings.      *)
(*                                                                         *)
(* A payload is any number of blocks, so what parsing one keeps is shown   *)
(* by induction over its blocks: above all that the quantisation matrix of *)
(* a frame is the standard one until a block sets another, which is why a  *)
(* pool that hands on its matrix only when it is set does as a stream that *)
(* always does.                                                            *)
(***************************************************************************)
EXTENDS ConfigPool, FiniteSetTheorems, WellFoundedInduction, NaturalsInduction, TLAPS

(* Induction over a set of numbers, which holds a number when it holds all  *)
(* the smaller ones.                                                        *)
LEMMA AllNumbers ==
    ASSUME NEW S, \A n \in Nat : (\A m \in 0 .. n - 1 : m \in S) => n \in S
    PROVE  Nat \subseteq S
<1> SUFFICES ASSUME Nat \ S # {} PROVE FALSE
  OBVIOUS
<1>1. \E n \in Nat \ S : \A m \in Nat \ S : <<m, n>> \notin OpToRel(<, Nat)
  BY NatLessThanWellFounded, WFMin, Zenon
<1>2. PICK n \in Nat \ S : \A m \in Nat \ S : ~(m < n)
  BY <1>1, Zenon DEF OpToRel
<1>3. \A m \in 0 .. n - 1 : m \in S
  BY <1>2
<1> QED BY <1>2, <1>3

(* A state of the parser between two blocks. *)
StepOf(f, start, blocks, n) ==
    IF n = 0 THEN start
    ELSE LET s == f[n - 1] IN IF s.ok THEN parseBlock(s, blocks[n]) ELSE s

IsAfter(f, start, blocks, k) == f = [n \in 0 .. k |-> StepOf(f, start, blocks, n)]

LEMMA AfterExists ==
    ASSUME NEW start, NEW blocks, NEW k \in Nat
    PROVE  \E f : IsAfter(f, start, blocks, k)
<1> DEFINE S == {n \in Nat : \E f : IsAfter(f, start, blocks, n)}
<1>1. ASSUME NEW n \in Nat, \A m \in 0 .. n - 1 : m \in S PROVE n \in S
  <2>1. CASE n = 0
    <3> DEFINE f == [i \in 0 .. 0 |-> start]
    <3>1. f = [i \in 0 .. n |-> StepOf(f, start, blocks, i)]
      BY <2>1 DEF StepOf
    <3>2. IsAfter(f, start, blocks, n)
      BY <3>1 DEF IsAfter
    <3> QED BY <3>2
  <2>2. CASE n # 0
    <3>1. n - 1 \in 0 .. n - 1 /\ n - 1 \in Nat
      BY <2>2
    <3>2. PICK f : IsAfter(f, start, blocks, n - 1)
      BY <1>1, <3>1
    <3> DEFINE g == [i \in 0 .. n |-> IF i = n THEN StepOf(f, start, blocks, n) ELSE f[i]]
    <3>3. ASSUME NEW i \in 0 .. n PROVE g[i] = StepOf(g, start, blocks, i)
      <4>1. i = 0 \/ g[i - 1] = f[i - 1]
        BY <2>2
      <4>2. StepOf(g, start, blocks, i) = StepOf(f, start, blocks, i)
        BY <4>1 DEF StepOf
      <4>3. i # n => f[i] = StepOf(f, start, blocks, i)
        BY <2>2, <3>2 DEF IsAfter
      <4> QED BY <4>2, <4>3
    <3>4. g = [i \in 0 .. n |-> StepOf(g, start, blocks, i)]
      BY <3>3
    <3>5. IsAfter(g, start, blocks, n)
      BY <3>4 DEF IsAfter
    <3> QED BY <3>5
  <2> QED BY <2>1, <2>2
<1>2. Nat \subseteq S
  BY <1>1, AllNumbers
<1> QED BY <1>2

LEMMA ParseBlocksIs ==
    ASSUME NEW start, NEW blocks, Len(blocks) \in Nat
    PROVE  \E f : IsAfter(f, start, blocks, Len(blocks)) /\ parseBlocks(start, blocks) = f[Len(blocks)]
<1> DEFINE k == Len(blocks)
           c == CHOOSE f : f = [n \in 0 .. k |-> StepOf(f, start, blocks, n)]
<1>1. \E f : f = [n \in 0 .. k |-> StepOf(f, start, blocks, n)]
  BY AfterExists DEF IsAfter
<1>2. c = [n \in 0 .. k |-> StepOf(c, start, blocks, n)]
  BY <1>1, Zenon
<1>3. IsAfter(c, start, blocks, k)
  BY <1>2 DEF IsAfter
<1>4. parseBlocks(start, blocks) = c[k]
  BY Zenon DEF parseBlocks, StepOf
<1> QED BY <1>3, <1>4

(* A matrix is that of the standard until one is set. *)
MatrixOK(m) == m.set = TRUE \/ m = ldeFrameConfigInitialize.quantMatrix

ShapeOK(s) == /\ {"ok", "modified", "frame"} \subseteq DOMAIN s
              /\ "quantMatrix" \in DOMAIN s.frame
              /\ MatrixOK(s.frame.quantMatrix)

LEMMA EndsKeeps ==
    ASSUME NEW s, NEW ok, ShapeOK(s)
    PROVE  ShapeOK(Ends(s, ok))
BY DEF ShapeOK, Ends

LEMMA BlockKeeps ==
    ASSUME NEW s, NEW b, ShapeOK(s)
    PROVE  ShapeOK(parseBlock(s, b))
<1>1. ShapeOK(parseBlockSequenceConfig(s, b))
  BY DEF ShapeOK, Ends, parseBlockSequenceConfig
<1>2. ShapeOK(parseBlockGlobalConfig(s, b))
  BY DEF ShapeOK, Ends, parseBlockGlobalConfig
<1>3. ShapeOK(parseBlockPictureConfig(s, b))
  BY ZenonT(60) DEF ShapeOK, Ends, parseBlockPictureConfig, parseBlockPictureConfigMisc,
         parseBlockPictureConfigQuantMatrix, MatrixOK
<1>4. ShapeOK(parseEncodedData(s, b))
  BY DEF ShapeOK, Ends, parseEncodedData
<1>5. ShapeOK(parseBlockAdditionalInfo(s, b))
  BY DEF ShapeOK, Ends, parseBlockAdditionalInfo, parseSEIPayload, parseHDRPayload,
         parseVUIParameters, parseSFilterPayload
<1> QED BY <1>1, <1>2, <1>3, <1>4, <1>5, EndsKeeps DEF parseBlock

LEMMA BlocksKeep ==
    ASSUME NEW start, NEW blocks, Len(blocks) \in Nat, ShapeOK(start)
    PROVE  ShapeOK(parseBlocks(start, blocks))
<1> DEFINE k == Len(blocks)
<1>1. PICK f : IsAfter(f, start, blocks, k) /\ parseBlocks(start, blocks) = f[k]
  BY ParseBlocksIs
<1> DEFINE S == {n \in Nat : n <= k => ShapeOK(f[n])}
<1>2. ASSUME NEW n \in Nat, \A m \in 0 .. n - 1 : m \in S PROVE n \in S
  <2> SUFFICES ASSUME n <= k PROVE ShapeOK(f[n])
    OBVIOUS
  <2>1. f[n] = StepOf(f, start, blocks, n)
    BY <1>1 DEF IsAfter
  <2>2. CASE n = 0
    BY <2>1, <2>2 DEF StepOf
  <2>3. CASE n # 0
    <3>1. n - 1 \in 0 .. n - 1 /\ n - 1 <= k
      BY <2>3
    <3>2. ShapeOK(f[n - 1])
      BY <1>2, <3>1
    <3>3. ShapeOK(parseBlock(f[n - 1], blocks[n]))
      BY <3>2, BlockKeeps
    <3> QED BY <2>1, <2>3, <3>2, <3>3 DEF StepOf
  <2> QED BY <2>2, <2>3
<1>3. k \in S
  BY <1>2, AllNumbers
<1> QED BY <1>1, <1>3

LEMMA MatrixKept ==
    ASSUME NEW p, Len(p.blocks) \in Nat, NEW global, NEW frame,
           "quantMatrix" \in DOMAIN frame, MatrixOK(frame.quantMatrix)
    PROVE  MatrixOK(ldeConfigsParse(p, global, frame).frame.quantMatrix)
<1> DEFINE begun == [frame EXCEPT !.frameConfigSet = FALSE, !.globalConfigSet = FALSE,
                                  !.idr = p.idr, !.loqEnabled = {}]
<1>1. ShapeOK(Parsing(global, frame))
  BY DEF ShapeOK, Parsing
<1>2. ShapeOK(Parsing(global, begun))
  BY DEF ShapeOK, Parsing
<1>3. /\ ShapeOK(Ends(Parsing(global, frame), FALSE)) /\ ShapeOK(Ends(Parsing(global, begun), FALSE))
      /\ ShapeOK(parseBlocks(Parsing(global, begun), p.blocks))
  BY <1>1, <1>2, EndsKeeps, BlocksKeep
<1>4. ShapeOK(ldeConfigsParse(p, global, frame))
  BY <1>3 DEF ldeConfigsParse
<1> QED BY <1>4 DEF ShapeOK

-----------------------------------------------------------------------------
(* Who uses the settings at a place, and the invariant of the pool.         *)

Holders(a) == {f \in Frame : globalConfig[f] = a}
Users(a) == Cardinality(Holders(a)) + (IF a = latestGlobalConfig THEN 1 ELSE 0)

Entry(e) == e = [globalConfig |-> e.globalConfig, referenceCount |-> e.referenceCount]

PoolInv ==
    /\ latestGlobalConfig \in Place
    /\ globalConfig \in [Frame -> Place \cup {NoPlace}]
    /\ globalConfigs = [a \in Place |-> globalConfigs[a]]
    /\ \A a \in Place : /\ Entry(globalConfigs[a])
                        /\ globalConfigs[a].referenceCount = Users(a)
                        /\ a \in Stored <=> Users(a) > 0
    /\ MatrixOK(quantMatrix)

LEMMA UsersCount ==
    ASSUME PoolAssumption, NEW a
    PROVE  /\ IsFiniteSet(Holders(a)) /\ Cardinality(Holders(a)) \in Nat /\ Users(a) \in Nat
           /\ Users(a) > 0 <=> a = latestGlobalConfig \/ \E f \in Frame : globalConfig[f] = a
<1>1. Holders(a) \in SUBSET Frame
  BY DEF Holders
<1>2. IsFiniteSet(Holders(a))
  BY <1>1, FS_Subset DEF PoolAssumption
<1>3. Cardinality(Holders(a)) \in Nat /\ (Cardinality(Holders(a)) = 0 <=> Holders(a) = {})
  BY <1>2, FS_CardinalityType, FS_EmptySet
<1> QED BY <1>2, <1>3 DEF Users, Holders

(* A frame that comes to hold settings, or lets go of them.                 *)
LEMMA HoldersGrow ==
    ASSUME PoolAssumption, PoolInv, NEW f \in Frame, globalConfig[f] = NoPlace, NEW a \in Place,
           globalConfig' = [globalConfig EXCEPT ![f] = a]
    PROVE  /\ Cardinality(Holders(a)') = Cardinality(Holders(a)) + 1
           /\ \A b \in Place \ {a} : Holders(b)' = Holders(b)
<1>1. Holders(a)' = Holders(a) \cup {f} /\ f \notin Holders(a)
  BY DEF PoolInv, Holders, PoolAssumption
<1>2. \A b \in Place \ {a} : Holders(b)' = Holders(b)
  BY DEF PoolInv, Holders, PoolAssumption
<1> QED BY <1>1, <1>2, UsersCount, FS_AddElement

LEMMA HoldersShrink ==
    ASSUME PoolAssumption, PoolInv, NEW f \in Frame, globalConfig[f] # NoPlace,
           globalConfig' = [globalConfig EXCEPT ![f] = NoPlace]
    PROVE  /\ globalConfig[f] \in Place
           /\ Cardinality(Holders(globalConfig[f])) > 0
           /\ Cardinality({g \in Frame : globalConfig'[g] = globalConfig[f]})
                  = Cardinality(Holders(globalConfig[f])) - 1
           /\ \A b \in Place \ {globalConfig[f]} : Holders(b)' = Holders(b)
<1> DEFINE a == globalConfig[f]
           H == {g \in Frame : globalConfig'[g] = a}
<1>1. a \in Place
  BY DEF PoolInv
<1>2. H = Holders(a) \ {f} /\ f \in Holders(a)
  BY <1>1 DEF PoolInv, Holders, PoolAssumption
<1>3. \A b \in Place \ {a} : Holders(b)' = Holders(b)
  BY DEF PoolInv, Holders, PoolAssumption
<1>4. IsFiniteSet(Holders(a)) /\ Cardinality(Holders(a)) \in Nat
  BY UsersCount
<1>5. Cardinality(H) = Cardinality(Holders(a)) - 1 /\ IsFiniteSet(H)
  BY <1>2, <1>4, FS_RemoveElement
<1>6. Cardinality(H) \in Nat
  BY <1>5, FS_CardinalityType
<1>7. Cardinality(Holders(a)) > 0
  BY <1>4, <1>5, <1>6
<1> QED BY <1>1, <1>3, <1>5, <1>7, Zenon

(* There is a place for new settings: each place in use has a frame to      *)
(* itself, or is that of the latest ones.                                   *)
LEMMA PlaceLeft ==
    ASSUME PoolAssumption, PoolInv, NEW f \in Frame, globalConfig[f] = NoPlace
    PROVE  \E a \in Place : a \notin Stored
<1> SUFFICES ASSUME \A a \in Place : a \in Stored PROVE FALSE
  OBVIOUS
<1>1. ASSUME NEW a \in Place
      PROVE  a = latestGlobalConfig \/ \E g \in Frame : globalConfig[g] = a
  <2>1. Users(a) > 0
    BY DEF PoolInv
  <2> QED BY <2>1, UsersCount
<1> DEFINE s == [g \in Frame |-> IF globalConfig[g] = NoPlace THEN latestGlobalConfig ELSE globalConfig[g]]
<1>2. s \in [Frame -> Place] /\ \A a \in Place : \E g \in Frame : s[g] = a
  BY <1>1 DEF PoolInv, PoolAssumption
<1>3. s \in Surjection(Frame, Place)
  BY <1>2 DEF Surjection
<1>4. Cardinality(Place) <= Cardinality(Frame)
  BY <1>3, FS_Surjection DEF PoolAssumption
<1>5. Cardinality(Place) \in Nat /\ Cardinality(Frame) \in Nat
  BY FS_CardinalityType DEF PoolAssumption
<1> QED BY <1>4, <1>5 DEF PoolAssumption

LEMMA EntryIs ==
    ASSUME NEW e, Entry(e)
    PROVE  /\ e.referenceCount # 0 => e # Free
           /\ \A n : [e EXCEPT !.referenceCount = n] = [globalConfig |-> e.globalConfig, referenceCount |-> n]
BY DEF Entry, Free

(* What an action has to show, place by place.                              *)
LEMMA PoolMoves ==
    ASSUME PoolAssumption, latestGlobalConfig' \in Place,
           globalConfig' \in [Frame -> Place \cup {NoPlace}],
           globalConfigs' = [a \in Place |-> globalConfigs'[a]], MatrixOK(quantMatrix'),
           \A a \in Place : /\ Entry(globalConfigs'[a])
                            /\ globalConfigs'[a].referenceCount = Users(a)'
                            /\ Users(a)' = 0 => globalConfigs'[a] = Free
    PROVE  PoolInv'
<1>1. ASSUME NEW a \in Place
      PROVE  a \in Stored' <=> Users(a)' > 0
  <2>1. Holders(a)' \in SUBSET Frame
    BY DEF Holders
  <2>2. IsFiniteSet(Holders(a)') /\ Cardinality(Holders(a)') \in Nat
    BY <2>1, FS_Subset, FS_CardinalityType DEF PoolAssumption
  <2>3. Users(a)' \in Nat
    BY <2>2 DEF Users
  <2> QED BY <2>3, EntryIs DEF Stored
<1> QED BY <1>1 DEF PoolInv

-----------------------------------------------------------------------------
(* The settings a frame holds, as StreamState has them.                     *)
Held == [f \in Frame |-> IF globalConfig[f] = NoPlace THEN <<>>
                         ELSE <<globalConfigs[globalConfig[f]].globalConfig>>]

LEMMA OthersKeep ==
    ASSUME NEW f \in Frame, NEW h,
           h = IF globalConfig'[f] = NoPlace THEN <<>>
               ELSE <<globalConfigs'[globalConfig'[f]].globalConfig>>,
           \A g \in Frame \ {f} :
               /\ globalConfig'[g] = globalConfig[g]
               /\ globalConfig[g] # NoPlace =>
                      globalConfigs'[globalConfig[g]].globalConfig
                          = globalConfigs[globalConfig[g]].globalConfig
    PROVE  Held' = [Held EXCEPT ![f] = h]
BY DEF Held

LEMMA SingleDiffers == ASSUME NEW g PROVE <<g>> # <<>>
OBVIOUS

(* A frame comes to hold the latest settings.                               *)
LEMMA ReferenceHolds ==
    ASSUME PoolAssumption, PoolInv, NEW f \in Frame, globalConfig[f] = NoPlace,
           Referenced(globalConfigs, f, latestGlobalConfig), UNCHANGED latestGlobalConfig,
           MatrixOK(quantMatrix')
    PROVE  PoolInv' /\ latest' = latest /\ Held' = [Held EXCEPT ![f] = <<latest>>]
<1> DEFINE a == latestGlobalConfig
<1>1. /\ globalConfig[f] = NoPlace /\ a \in Place /\ latestGlobalConfig' = a
      /\ globalConfigs' = [globalConfigs EXCEPT ![a].referenceCount = @ + 1]
      /\ globalConfig' = [globalConfig EXCEPT ![f] = a]
  BY DEF Referenced, PoolInv
<1>2. /\ Cardinality(Holders(a)') = Cardinality(Holders(a)) + 1
      /\ \A b \in Place \ {a} : Holders(b)' = Holders(b)
  BY <1>1, HoldersGrow
<1>3. ASSUME NEW b \in Place
      PROVE  /\ Entry(globalConfigs'[b])
             /\ globalConfigs'[b].referenceCount = Users(b)'
             /\ Users(b)' = 0 => globalConfigs'[b] = Free
             /\ globalConfigs'[b].globalConfig = globalConfigs[b].globalConfig
  <2>1. Entry(globalConfigs[b]) /\ globalConfigs[b].referenceCount = Users(b)
    BY DEF PoolInv
  <2>2. CASE b = a
    <3>1. globalConfigs'[b] = [globalConfig |-> globalConfigs[b].globalConfig,
                               referenceCount |-> Users(b) + 1]
      BY <1>1, <2>1, <2>2, EntryIs DEF PoolInv
    <3>2. Users(b)' = Users(b) + 1 /\ Users(b) \in Nat
      BY <1>1, <1>2, <2>2, UsersCount DEF Users
    <3> QED BY <3>1, <3>2 DEF Entry
  <2>3. CASE b # a
    <3>1. globalConfigs'[b] = globalConfigs[b]
      BY <1>1, <2>3 DEF PoolInv
    <3>2. Users(b)' = Users(b) /\ Users(b) \in Nat
      BY <1>1, <1>2, <2>3, UsersCount DEF Users
    <3> QED BY <2>1, <3>1, <3>2 DEF PoolInv, Stored
  <2> QED BY <2>2, <2>3
<1>4. PoolInv'
  BY <1>1, <1>3, PoolMoves DEF PoolInv
<1>5. latest' = latest
  BY <1>1, <1>3 DEF latest
<1>6. Held' = [Held EXCEPT ![f] = <<latest>>]
  <2>1. <<latest>> = IF globalConfig'[f] = NoPlace THEN <<>>
                     ELSE <<globalConfigs'[globalConfig'[f]].globalConfig>>
    BY <1>1, <1>3 DEF latest, PoolInv, PoolAssumption
  <2>2. ASSUME NEW g \in Frame \ {f}
        PROVE  /\ globalConfig'[g] = globalConfig[g]
               /\ globalConfig[g] # NoPlace =>
                      globalConfigs'[globalConfig[g]].globalConfig
                          = globalConfigs[globalConfig[g]].globalConfig
    BY <1>1, <1>3 DEF PoolInv
  <2> QED BY <2>1, <2>2, OthersKeep
<1> QED BY <1>4, <1>5, <1>6

LEMMA PassthroughHolds ==
    ASSUME PoolAssumption, PoolInv, NEW f \in Frame, ldeConfigPoolFramePassthrough(f)
    PROVE  PoolInv' /\ Stream!Next
<1>1. /\ globalConfig[f] = NoPlace /\ UNCHANGED <<latestGlobalConfig, quantMatrix, ditherEnabled>>
      /\ Referenced(globalConfigs, f, latestGlobalConfig)
  BY DEF ldeConfigPoolFramePassthrough
<1>2. PoolInv' /\ latest' = latest /\ Held' = [Held EXCEPT ![f] = <<latest>>]
  BY <1>1, ReferenceHolds DEF PoolInv
<1>3. Held[f] = <<>> /\ Held'[f] # Held[f]
  BY <1>1, <1>2, SingleDiffers DEF Held
<1>4. Stream!PassThrough(f) /\ Stream!Next
  BY <1>1, <1>2, <1>3 DEF Stream!PassThrough, Stream!Next, Held
<1> QED BY <1>2, <1>4

(* The last user of settings frees them, any other only counts itself off.  *)
LEMMA ReleaseIs ==
    ASSUME NEW configs, NEW a \in Place, configs = [b \in Place |-> configs[b]], Entry(configs[a])
    PROVE  LET after == releaseGlobalConfig(configs, a)
           IN  /\ after = [b \in Place |-> after[b]]
               /\ \A b \in Place \ {a} : after[b] = configs[b]
               /\ after[a] = IF configs[a].referenceCount = 1 THEN Free
                             ELSE [globalConfig |-> configs[a].globalConfig,
                                   referenceCount |-> configs[a].referenceCount - 1]
<1> DEFINE e == configs[a]
<1>1. CASE e.referenceCount = 1
  BY <1>1 DEF releaseGlobalConfig
<1>2. CASE e.referenceCount # 1
  <2>1. releaseGlobalConfig(configs, a)
           = [configs EXCEPT ![a] = [e EXCEPT !.referenceCount = e.referenceCount - 1]]
    BY <1>2 DEF releaseGlobalConfig
  <2>2. [e EXCEPT !.referenceCount = e.referenceCount - 1]
           = [globalConfig |-> e.globalConfig, referenceCount |-> e.referenceCount - 1]
    BY EntryIs
  <2> QED BY <1>2, <2>1, <2>2
<1> QED BY <1>1, <1>2

LEMMA ReleaseHolds ==
    ASSUME PoolAssumption, PoolInv, NEW f \in Frame, ldeConfigPoolFrameRelease(f)
    PROVE  PoolInv' /\ Stream!Next
<1> DEFINE a == globalConfig[f]
<1>1. /\ globalConfig[f] # NoPlace /\ latestGlobalConfig' = latestGlobalConfig
      /\ quantMatrix' = quantMatrix /\ ditherEnabled' = ditherEnabled
      /\ globalConfigs' = releaseGlobalConfig(globalConfigs, a)
      /\ globalConfig' = [globalConfig EXCEPT ![f] = NoPlace]
  BY DEF ldeConfigPoolFrameRelease
<1>2. /\ a \in Place /\ Cardinality(Holders(a)) > 0
      /\ Cardinality({g \in Frame : globalConfig'[g] = a}) = Cardinality(Holders(a)) - 1
      /\ \A b \in Place \ {a} : Holders(b)' = Holders(b)
  BY <1>1, HoldersShrink
<1>3. /\ Entry(globalConfigs[a]) /\ globalConfigs[a].referenceCount = Users(a)
      /\ globalConfigs = [b \in Place |-> globalConfigs[b]]
  BY <1>2 DEF PoolInv
<1>4. /\ globalConfigs' = [b \in Place |-> globalConfigs'[b]]
      /\ \A b \in Place \ {a} : globalConfigs'[b] = globalConfigs[b]
      /\ globalConfigs'[a] = IF Users(a) = 1 THEN Free
                             ELSE [globalConfig |-> globalConfigs[a].globalConfig,
                                   referenceCount |-> Users(a) - 1]
  BY <1>1, <1>2, <1>3, ReleaseIs
<1>5. ASSUME NEW b \in Place
      PROVE  /\ Entry(globalConfigs'[b])
             /\ globalConfigs'[b].referenceCount = Users(b)'
             /\ Users(b)' = 0 => globalConfigs'[b] = Free
             /\ Users(b)' # 0 => globalConfigs'[b].globalConfig = globalConfigs[b].globalConfig
  <2>1. CASE b = a
    <3>1. Users(b)' = Cardinality({g \in Frame : globalConfig'[g] = a})
                         + (IF a = latestGlobalConfig THEN 1 ELSE 0)
      BY <1>1, <2>1 DEF Users, Holders
    <3>2. Users(b)' = Users(a) - 1 /\ Users(a) \in Nat /\ Users(a) >= 1
      BY <1>2, <3>1, UsersCount DEF Users
    <3> QED BY <1>4, <2>1, <3>2 DEF Entry, Free
  <2>2. CASE b # a
    <3>1. Users(b)' = Users(b) /\ Users(b) \in Nat /\ globalConfigs'[b] = globalConfigs[b]
      BY <1>1, <1>2, <1>4, <2>2, UsersCount DEF Users
    <3> QED BY <3>1 DEF PoolInv, Stored
  <2> QED BY <2>1, <2>2
<1>6. PoolInv'
  BY <1>1, <1>4, <1>5, PoolMoves DEF PoolInv
<1>7. ASSUME NEW b \in Place, b = latestGlobalConfig \/ \E g \in Frame \ {f} : globalConfig[g] = b
      PROVE  globalConfigs'[b].globalConfig = globalConfigs[b].globalConfig
  <2>1. b = latestGlobalConfig' \/ \E g \in Frame : globalConfig'[g] = b
    BY <1>1, <1>7 DEF PoolInv
  <2>2. b \in Stored'
    <3>1. CASE b = latestGlobalConfig'
      <4>1. Cardinality(Holders(b)') \in Nat
        <5>1. Holders(b)' \in SUBSET Frame
          BY DEF Holders
        <5> QED BY <5>1, FS_Subset, FS_CardinalityType DEF PoolAssumption
      <4> QED BY <1>6, <3>1, <4>1 DEF PoolInv, Users
    <3>2. CASE \E g \in Frame : globalConfig'[g] = b
      <4>1. Holders(b)' \in SUBSET Frame /\ Holders(b)' # {}
        BY <3>2 DEF Holders
      <4>2. Cardinality(Holders(b)') \in Nat /\ Cardinality(Holders(b)') # 0
        BY <4>1, FS_Subset, FS_CardinalityType, FS_EmptySet DEF PoolAssumption
      <4> QED BY <1>6, <4>2 DEF PoolInv, Users
    <3> QED BY <2>1, <3>1, <3>2
  <2>3. Users(b)' # 0
    BY <1>6, <2>2 DEF PoolInv
  <2> QED BY <1>5, <2>3
<1>8. latest' = latest
  BY <1>1, <1>7 DEF latest, PoolInv
<1>9. Held' = [Held EXCEPT ![f] = <<>>]
  <2>1. <<>> = IF globalConfig'[f] = NoPlace THEN <<>>
               ELSE <<globalConfigs'[globalConfig'[f]].globalConfig>>
    BY <1>1 DEF PoolInv
  <2>2. ASSUME NEW g \in Frame \ {f}
        PROVE  /\ globalConfig'[g] = globalConfig[g]
               /\ globalConfig[g] # NoPlace =>
                      globalConfigs'[globalConfig[g]].globalConfig
                          = globalConfigs[globalConfig[g]].globalConfig
    BY <1>1, <1>7 DEF PoolInv
  <2> QED BY <2>1, <2>2, OthersKeep
<1>10. Held[f] # <<>> /\ Held'[f] # Held[f]
  BY <1>1, <1>9, SingleDiffers DEF Held
<1>11. Stream!Release(f) /\ Stream!Next
  BY <1>1, <1>8, <1>9, <1>10 DEF Stream!Release, Stream!Next, Held
<1> QED BY <1>6, <1>11

-----------------------------------------------------------------------------
(* New settings are put where none are, and the old ones lose a user.       *)
LEMMA ReplaceIs ==
    ASSUME PoolAssumption, PoolInv, NEW f \in Frame, globalConfig[f] = NoPlace,
           NEW global, replaceLatest(f, global)
    PROVE  /\ latestGlobalConfig' \in Place \ Stored
           /\ globalConfig' = [globalConfig EXCEPT ![f] = latestGlobalConfig']
           /\ globalConfigs' = [b \in Place |-> globalConfigs'[b]]
           /\ globalConfigs'[latestGlobalConfig'] = [globalConfig |-> global, referenceCount |-> 2]
           /\ globalConfigs'[latestGlobalConfig] =
                  IF Users(latestGlobalConfig) = 1 THEN Free
                  ELSE [globalConfig |-> latest, referenceCount |-> Users(latestGlobalConfig) - 1]
           /\ \A b \in Place \ {latestGlobalConfig, latestGlobalConfig'} :
                  globalConfigs'[b] = globalConfigs[b]
<1> DEFINE a == CHOOSE free \in Place \ Stored : TRUE
           o == latestGlobalConfig
           c1 == allocateGlobalConfig(globalConfigs, a, global)
           c2 == releaseGlobalConfig(c1, o)
<1>1. a \in Place \ Stored
  BY PlaceLeft
<1>2. latestGlobalConfig' = a /\ globalConfigs' = [c2 EXCEPT ![a].referenceCount = @ + 1]
      /\ globalConfig' = [globalConfig EXCEPT ![f] = a]
  BY DEF replaceLatest, Referenced
<1>3. o \in Place /\ o \in Stored
  BY UsersCount DEF PoolInv
<1>4. /\ Entry(globalConfigs[o]) /\ globalConfigs[o].referenceCount = Users(o)
      /\ globalConfigs = [b \in Place |-> globalConfigs[b]]
  BY <1>3 DEF PoolInv
<1> HIDE DEF a
<1>5. /\ c1 = [b \in Place |-> c1[b]] /\ c1[a] = [globalConfig |-> global, referenceCount |-> 1]
      /\ \A b \in Place \ {a} : c1[b] = globalConfigs[b]
  BY <1>1, <1>4 DEF allocateGlobalConfig
<1> HIDE DEF c1
<1>6. /\ c2 = [b \in Place |-> c2[b]] /\ \A b \in Place \ {o} : c2[b] = c1[b]
      /\ c2[o] = IF c1[o].referenceCount = 1 THEN Free
                 ELSE [globalConfig |-> c1[o].globalConfig, referenceCount |-> c1[o].referenceCount - 1]
  BY <1>1, <1>3, <1>4, <1>5, ReleaseIs
<1> HIDE DEF c2
<1>7. c1[o] = globalConfigs[o] /\ c2[a] = c1[a] /\ a # o
  BY <1>1, <1>3, <1>5, <1>6
<1>8. /\ globalConfigs' = [b \in Place |-> globalConfigs'[b]]
      /\ globalConfigs'[a] = [globalConfig |-> global, referenceCount |-> 2]
      /\ \A b \in Place \ {a} : globalConfigs'[b] = c2[b]
  BY <1>1, <1>2, <1>5, <1>6, <1>7
<1> QED BY <1>1, <1>2, <1>3, <1>4, <1>5, <1>6, <1>7, <1>8 DEF latest

LEMMA ReplaceHolds ==
    ASSUME PoolAssumption, PoolInv, NEW f \in Frame, globalConfig[f] = NoPlace,
           NEW global, replaceLatest(f, global), MatrixOK(quantMatrix')
    PROVE  /\ PoolInv' /\ latest' = global
           /\ Held' = [Held EXCEPT ![f] = <<global>>]
<1>0. PICK a \in Place \ Stored, o \in Place : a = latestGlobalConfig' /\ o = latestGlobalConfig
  BY ReplaceIs DEF PoolInv
<1>1. /\ a \in Place /\ a \notin Stored /\ globalConfig' = [globalConfig EXCEPT ![f] = a]
      /\ globalConfigs' = [b \in Place |-> globalConfigs'[b]]
      /\ globalConfigs'[a] = [globalConfig |-> global, referenceCount |-> 2]
      /\ globalConfigs'[o] = IF Users(o) = 1 THEN Free
                             ELSE [globalConfig |-> latest, referenceCount |-> Users(o) - 1]
      /\ \A b \in Place \ {o, a} : globalConfigs'[b] = globalConfigs[b]
  BY <1>0, ReplaceIs
<1>2. /\ Cardinality(Holders(a)') = Cardinality(Holders(a)) + 1
      /\ \A b \in Place \ {a} : Holders(b)' = Holders(b)
  BY <1>1, HoldersGrow
<1>3. ~(Users(a) > 0) /\ o # a /\ o \in Place /\ Users(o) > 0
  BY <1>0, <1>1, UsersCount DEF PoolInv
<1>4. Cardinality(Holders(a)) = 0 /\ Cardinality(Holders(o)) \in Nat
  BY <1>0, <1>3, UsersCount DEF Users
<1>5. ASSUME NEW b \in Place
      PROVE  /\ Entry(globalConfigs'[b])
             /\ globalConfigs'[b].referenceCount = Users(b)'
             /\ Users(b)' = 0 => globalConfigs'[b] = Free
             /\ b # a /\ Users(b)' # 0 => globalConfigs'[b].globalConfig = globalConfigs[b].globalConfig
  <2>1. CASE b = a
    <3>1. Users(b)' = Cardinality(Holders(a)') + 1
      BY <1>0, <2>1 DEF Users
    <3>2. Users(b)' = 2
      BY <1>2, <1>4, <3>1
    <3> QED BY <1>1, <2>1, <3>2 DEF Entry
  <2>2. CASE b = o
    <3>1. Users(b)' = Cardinality(Holders(o)) /\ Users(o) = Cardinality(Holders(o)) + 1
      BY <1>0, <1>2, <1>3, <1>4, <2>2 DEF Users
    <3>2. CASE Users(o) = 1
      BY <1>1, <1>4, <2>2, <3>1, <3>2 DEF Entry, Free
    <3>3. CASE Users(o) # 1
      BY <1>0, <1>1, <1>3, <1>4, <2>2, <3>1, <3>3 DEF Entry, latest
    <3> QED BY <3>2, <3>3
  <2>3. CASE b # a /\ b # o
    <3>1. Users(b)' = Users(b) /\ Users(b) \in Nat /\ globalConfigs'[b] = globalConfigs[b]
      BY <1>0, <1>1, <1>2, <2>3, UsersCount DEF Users
    <3> QED BY <3>1 DEF PoolInv, Stored
  <2> QED BY <2>1, <2>2, <2>3
<1>6. PoolInv'
  BY <1>0, <1>1, <1>5, PoolMoves DEF PoolInv
<1>7. latest' = global
  BY <1>0, <1>1 DEF latest
<1>8. Held' = [Held EXCEPT ![f] = <<global>>]
  <2>1. <<global>> = IF globalConfig'[f] = NoPlace THEN <<>>
                     ELSE <<globalConfigs'[globalConfig'[f]].globalConfig>>
    BY <1>1 DEF PoolInv, PoolAssumption
  <2>2. ASSUME NEW g \in Frame \ {f}
        PROVE  /\ globalConfig'[g] = globalConfig[g]
               /\ globalConfig[g] # NoPlace =>
                      globalConfigs'[globalConfig[g]].globalConfig
                          = globalConfigs[globalConfig[g]].globalConfig
    <3>1. globalConfig'[g] = globalConfig[g]
      BY <1>1 DEF PoolInv
    <3>2. ASSUME globalConfig[g] # NoPlace
          PROVE  globalConfigs'[globalConfig[g]].globalConfig
                          = globalConfigs[globalConfig[g]].globalConfig
      <4> DEFINE b == globalConfig[g]
      <4>0. b \in Place /\ g \in Holders(b)
        BY <3>2 DEF PoolInv, Holders
      <4>1. b \in Place /\ Users(b) > 0 /\ g \in Holders(b)
        BY <4>0, UsersCount DEF Holders
      <4>2. b # a
        BY <1>3, <4>1
      <4>3. CASE b = o
        <5>1. Cardinality(Holders(o)) # 0
          BY <4>1, <4>3, UsersCount, FS_EmptySet
        <5>2. Users(o) # 1
          BY <1>0, <1>4, <5>1 DEF Users
        <5> QED BY <1>0, <1>1, <4>3, <5>2 DEF latest
      <4>4. CASE b # o
        BY <1>1, <4>1, <4>2, <4>4
      <4> QED BY <4>3, <4>4
    <3> QED BY <3>1, <3>2
  <2> QED BY <2>1, <2>2, OthersKeep
<1> QED BY <1>6, <1>7, <1>8

(* The frame a payload is parsed into is that of StreamState.               *)
LEMMA FramesAgree ==
    ASSUME PoolAssumption, PoolInv, NEW p \in Arrivals
    PROVE  Parsed(p) = Stream!Parsed(p) /\ MatrixOK(Parsed(p).frame.quantMatrix)
<1>1. MatrixOK(quantMatrix)
  BY DEF PoolInv
<1>2. (IF quantMatrix.set THEN quantMatrix ELSE ldeFrameConfigInitialize.quantMatrix) = quantMatrix
  BY <1>1 DEF MatrixOK
<1>3. NextFrame = [ldeFrameConfigInitialize EXCEPT !.quantMatrix = quantMatrix,
                                                   !.ditherEnabled = ditherEnabled]
  BY <1>2 DEF NextFrame, ldeFrameConfigInitialize
<1>4. NextFrame = [ldeFrameConfigInitialize EXCEPT !.ditherEnabled = ditherEnabled,
                                                   !.quantMatrix = quantMatrix]
  BY <1>3 DEF ldeFrameConfigInitialize
<1>5. Parsed(p) = Stream!Parsed(p)
  BY <1>4 DEF Parsed, Stream!Parsed
<1>6. "quantMatrix" \in DOMAIN NextFrame /\ NextFrame.quantMatrix = quantMatrix
  BY <1>3 DEF ldeFrameConfigInitialize
<1>7. Len(p.blocks) \in Nat
  BY DEF PoolAssumption
<1> QED BY <1>1, <1>5, <1>6, <1>7, MatrixKept DEF Parsed

LEMMA InsertHolds ==
    ASSUME PoolAssumption, PoolInv, NEW f \in Frame, NEW p \in Arrivals, ldeConfigPoolFrameInsert(f, p)
    PROVE  PoolInv' /\ [Stream!Next]_<<latest, quantMatrix, ditherEnabled, Held>>
<1> DEFINE r == Parsed(p)
<1>1. r = Stream!Parsed(p) /\ MatrixOK(r.frame.quantMatrix)
  BY FramesAgree
<1>2. globalConfig[f] = NoPlace /\ Held[f] = <<>>
  BY DEF ldeConfigPoolFrameInsert, Held
<1>3. Save(r)
  BY DEF ldeConfigPoolFrameInsert
<1> HIDE DEF r
<1>4. MatrixOK(quantMatrix')
  BY <1>1, <1>3 DEF Save, PoolInv
<1>5. CASE ~r.ok
  <2>1. UNCHANGED configVars
    BY <1>3, <1>5 DEF ldeConfigPoolFrameInsert, Save, configVars, r
  <2>2. PoolInv' /\ UNCHANGED <<latest, quantMatrix, ditherEnabled, Held>>
    BY <2>1 DEF configVars, PoolInv, Users, Holders, Stored, latest, Held
  <2> QED BY <2>2
<1>6. CASE r.ok /\ r.modified /\ r.global # latest
  <2>1. replaceLatest(f, r.global)
    BY <1>6 DEF ldeConfigPoolFrameInsert, r
  <2>2. PoolInv' /\ latest' = r.global /\ Held' = [Held EXCEPT ![f] = <<r.global>>]
    BY <1>2, <1>4, <2>1, ReplaceHolds
  <2>3. Held'[f] # Held[f]
    BY <1>2, <2>2, SingleDiffers DEF Held
  <2>4. Stream!Accept(f, p)
    BY <1>1, <1>2, <1>3, <1>6, <2>2 DEF Stream!Accept, Save, Held
  <2> QED BY <2>2, <2>3, <2>4 DEF Stream!Next, Held
<1>7. CASE r.ok /\ ~(r.modified /\ r.global # latest)
  <2>1. Referenced(globalConfigs, f, latestGlobalConfig) /\ UNCHANGED latestGlobalConfig
    BY <1>7 DEF ldeConfigPoolFrameInsert, r
  <2>2. PoolInv' /\ latest' = latest /\ Held' = [Held EXCEPT ![f] = <<latest>>]
    BY <1>2, <1>4, <2>1, ReferenceHolds
  <2>3. Held'[f] # Held[f]
    BY <1>2, <2>2, SingleDiffers DEF Held
  <2>4. Stream!Accept(f, p)
    BY <1>1, <1>2, <1>3, <1>7, <2>2 DEF Stream!Accept, Save, Held
  <2> QED BY <2>2, <2>3, <2>4 DEF Stream!Next, Held
<1> QED BY <1>5, <1>6, <1>7

LEMMA InitHolds ==
    ASSUME PoolAssumption, ConfigsInit
    PROVE  PoolInv /\ Stream!Init
<1>1. latestGlobalConfig \in Place
  <2>1. Place # {}
    BY FS_EmptySet, FS_CardinalityType DEF PoolAssumption
  <2> QED BY <2>1 DEF ConfigsInit
<1>2. PICK v \in 0 .. BitstreamVersionUnspecified :
          globalConfigs = [a \in Place |-> IF a = latestGlobalConfig
                              THEN [globalConfig |-> ldeGlobalConfigInitialize(v), referenceCount |-> 1]
                              ELSE Free]
  BY DEF ConfigsInit
<1>3. globalConfig = [f \in Frame |-> NoPlace] /\ ditherEnabled = FALSE
      /\ quantMatrix = ldeFrameConfigInitialize.quantMatrix
  BY DEF ConfigsInit
<1>4. ASSUME NEW a \in Place
      PROVE  /\ Entry(globalConfigs[a])
             /\ globalConfigs[a].referenceCount = Users(a)
             /\ a \in Stored <=> Users(a) > 0
  <2>1. Holders(a) = {}
    BY <1>3 DEF Holders, PoolAssumption
  <2>2. Users(a) = IF a = latestGlobalConfig THEN 1 ELSE 0
    BY <2>1, FS_EmptySet DEF Users
  <2>3. CASE a = latestGlobalConfig
    <3>1. globalConfigs[a] = [globalConfig |-> ldeGlobalConfigInitialize(v), referenceCount |-> 1]
      BY <1>2, <2>3
    <3>2. globalConfigs[a] # Free
      BY <3>1 DEF Free
    <3> QED BY <2>2, <2>3, <3>1, <3>2 DEF Entry, Stored
  <2>4. CASE a # latestGlobalConfig
    BY <1>2, <2>2, <2>4 DEF Entry, Stored, Free
  <2> QED BY <2>3, <2>4
<1>5. PoolInv
  BY <1>1, <1>2, <1>3, <1>4 DEF PoolInv, MatrixOK
<1>6. latest = ldeGlobalConfigInitialize(v)
  BY <1>1, <1>2 DEF latest
<1>7. Stream!Init
  BY <1>2, <1>3, <1>6 DEF Stream!Init
<1> QED BY <1>5, <1>7

LEMMA StepHolds ==
    ASSUME PoolAssumption, PoolInv, [ConfigsNext]_configVars
    PROVE  PoolInv' /\ [Stream!Next]_<<latest, quantMatrix, ditherEnabled, Held>>
<1>1. ASSUME NEW f \in Frame, ldeConfigPoolFramePassthrough(f)
      PROVE  PoolInv' /\ Stream!Next
  BY <1>1, PassthroughHolds
<1>2. ASSUME NEW f \in Frame, ldeConfigPoolFrameRelease(f)
      PROVE  PoolInv' /\ Stream!Next
  BY <1>2, ReleaseHolds
<1>3. ASSUME NEW f \in Frame, NEW p \in Arrivals, ldeConfigPoolFrameInsert(f, p)
      PROVE  PoolInv' /\ [Stream!Next]_<<latest, quantMatrix, ditherEnabled, Held>>
  BY <1>3, InsertHolds
<1>4. CASE UNCHANGED configVars
  BY <1>4 DEF configVars, PoolInv, Users, Holders, Stored, latest, Held
<1> QED BY <1>1, <1>2, <1>3, <1>4 DEF ConfigsNext

-----------------------------------------------------------------------------
(* Settings are freed with their last user and never before: the counts of  *)
(* the configuration pool are true, whatever payloads come and however      *)
(* frames are released, and there is always a place for new settings.       *)
THEOREM ConfigsAlwaysReferenced ==
    ASSUME PoolAssumption
    PROVE  ConfigsSpec => []ConfigsReferenced
<1>1. ConfigsInit => PoolInv
  BY InitHolds
<1>2. PoolInv /\ [ConfigsNext]_configVars => PoolInv'
  BY StepHolds
<1>3. PoolInv => ConfigsReferenced
  <2> SUFFICES ASSUME PoolInv PROVE ConfigsReferenced
    OBVIOUS
  <2>1. ASSUME NEW a \in Place
        PROVE  globalConfigs[a].referenceCount = Users(a) /\ (a \in Stored <=> Users(a) > 0)
    BY DEF PoolInv
  <2> QED BY <2>1 DEF ConfigsReferenced, Users, Holders
<1> QED BY <1>1, <1>2, <1>3, PTL DEF ConfigsSpec

(* Sharing settings between frames does not show: the pool implements a     *)
(* stream whose frames each keep a copy of the settings of their time, and  *)
(* in which a payload that fails half way changes nothing.                  *)
THEOREM PoolImplementsStream ==
    ASSUME PoolAssumption
    PROVE  ConfigsSpec => ImplementsStreamState
<1>1. ConfigsInit => PoolInv /\ Stream!Init
  BY InitHolds
<1>2. PoolInv /\ [ConfigsNext]_configVars
        => PoolInv' /\ [Stream!Next]_<<[global |-> latest, quantMatrix |-> quantMatrix,
                                       ditherEnabled |-> ditherEnabled], Held>>
  <2> SUFFICES ASSUME PoolInv, [ConfigsNext]_configVars
               PROVE  PoolInv' /\ [Stream!Next]_<<[global |-> latest, quantMatrix |-> quantMatrix,
                                       ditherEnabled |-> ditherEnabled], Held>>
    OBVIOUS
  <2> QED BY StepHolds
<1> QED BY <1>1, <1>2, PTL DEF ConfigsSpec, ImplementsStreamState, Stream!Spec, Held
=============================================================================
