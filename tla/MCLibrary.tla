------------------------------ MODULE MCLibrary ------------------------------
(***************************************************************************)
(* Seven components that share nothing, checked in one run: a behaviour is *)
(* of one of them, its subject, and the others stay as they start.         *)
(***************************************************************************)
EXTENDS HandleUse, RingBuffer, ConfigPool, RollingArena, LegacyPipeline, PipelineVulkan,
        LegacyThreads

VARIABLE subject

-----------------------------------------------------------------------------
(* Payloads for the configuration pool: what an encoder sends, and three    *)
(* that fail, one of them half way.                                         *)
Sequence == [type |-> "sequence", crop |-> 1, whole |-> TRUE]
Global == [type |-> "global", chroma |-> "420", width |-> 16, baseDepth |-> 8, enhancedDepth |-> 10,
           temporalEnabled |-> TRUE, modifier |-> Absent, multiplier |-> Absent, whole |-> TRUE]
Picture == [type |-> "picture", enabled |-> TRUE, mode |-> "usePrevious", custom |-> "q1",
            refresh |-> FALSE, signalling |-> FALSE, dither |-> TRUE, strength |-> 3, whole |-> TRUE]
Off == [Picture EXCEPT !.enabled = FALSE, !.signalling = TRUE]
Data == [type |-> "data", levels |-> {0}, temporal |-> TRUE, whole |-> TRUE]
Additional(about, info, version) ==
    [type |-> "additional", about |-> about, info |-> info, version |-> version, whole |-> TRUE]
Filler == [type |-> "filler", whole |-> TRUE]

Nal(idr, list) == [unencapsulated |-> TRUE, idr |-> idr, blocks |-> list]

Payloads ==
    {Nal(TRUE, <<Sequence, [Global EXCEPT !.multiplier = 20],
                 [Picture EXCEPT !.mode = "customBoth"], Data>>),
     Nal(TRUE, <<Additional("SEI", "", 1), Global, Off, Data>>),
     Nal(FALSE, <<Picture, Data, Filler, Additional("VUI", "aspect", Absent)>>),
     Nal(FALSE, <<[Picture EXCEPT !.mode = "customLOQ1", !.custom = "q2", !.dither = FALSE],
                  Additional("SFilter", "in loop", Absent), Data>>),
     Nal(FALSE, <<Additional("SEI", "light level", Absent)>>),
     Nal(TRUE, <<Global, [Picture EXCEPT !.mode = "customLOQ0", !.custom = "q3"],
                 [Data EXCEPT !.whole = FALSE]>>),
     Nal(FALSE, <<Additional("HDR", "", Absent)>>)}

-----------------------------------------------------------------------------
(* Payloads and clients for the Vulkan pipeline: a refresh, frames with and *)
(* without residuals for the temporal picture, and one that cannot be       *)
(* parsed; two configurations, each with a prudent client and another.      *)
Levels(good, refresh, loq0, loq1) ==
    [good |-> good, global |-> refresh, idr |-> refresh, temporalRefresh |-> refresh,
     loqEnabled |-> <<loq0, loq1>>]

VulkanPayloads == {Levels(TRUE, TRUE, TRUE, FALSE), Levels(TRUE, FALSE, TRUE, TRUE),
                   Levels(TRUE, FALSE, FALSE, TRUE), Levels(FALSE, FALSE, TRUE, FALSE)}

Tiled == [temporalEnabled |-> FALSE, scaled |-> <<TRUE, TRUE>>, numTiles |-> 2]
Whole == [temporalEnabled |-> TRUE, scaled |-> <<TRUE, FALSE>>, numTiles |-> 1]

VulkanClients ==
    {[prudent |-> p, settings |-> s, sends |-> IF p THEN 6 ELSE 2] : p \in BOOLEAN, s \in {Tiled, Whole}}

-----------------------------------------------------------------------------
(* Calls of the legacy threads: no job, one, and more than there are threads; *)
(* ranges too short for a part to each, and ones that leave a remainder.      *)
ThreadRequests == {r \in [sliced : BOOLEAN, size : {0, 1, 2, 3, 5}, postRun : BOOLEAN] : r.postRun => r.sliced}

-----------------------------------------------------------------------------
ASSUME LibraryAssumption ==
    /\ RingAssumption /\ PoolAssumption /\ ArenaAssumption
    /\ LegacyAssumption /\ VulkanAssumption /\ ThreadsAssumption

Subjects == {"handles", "ring", "configs", "arena", "legacy", "vulkan", "threads"}

LibraryInit ==
    /\ subject \in Subjects
    /\ Init /\ RingInit /\ ConfigsInit /\ ArenaInit /\ LegacyInit /\ VulkanInit /\ ThreadsInit
    /\ subject # "configs" => latest.bitstreamVersion = 0
    /\ subject # "vulkan" => stream = [prudent |-> TRUE, settings |-> Tiled, sends |-> 6]

LibraryNext ==
    /\ UNCHANGED subject
    /\ \/ subject = "handles" /\ Next /\ UNCHANGED <<ringVars, configVars, arenaVars, legacyVars, vulkanVars, threadVars>>
       \/ subject = "ring" /\ RingNext /\ UNCHANGED <<vars, configVars, arenaVars, legacyVars, vulkanVars, threadVars>>
       \/ subject = "configs" /\ ConfigsNext /\ UNCHANGED <<vars, ringVars, arenaVars, legacyVars, vulkanVars, threadVars>>
       \/ subject = "arena" /\ ArenaNext /\ UNCHANGED <<vars, ringVars, configVars, legacyVars, vulkanVars, threadVars>>
       \/ subject = "legacy" /\ LegacyNext /\ UNCHANGED <<vars, ringVars, configVars, arenaVars, vulkanVars, threadVars>>
       \/ subject = "vulkan" /\ VulkanNext /\ UNCHANGED <<vars, ringVars, configVars, arenaVars, legacyVars, threadVars>>
       \/ subject = "threads" /\ ThreadsNext
          /\ UNCHANGED <<vars, ringVars, configVars, arenaVars, legacyVars, vulkanVars>>

LibrarySpec ==
    LibraryInit
    /\ [][LibraryNext]_<<subject, vars, ringVars, configVars, arenaVars, legacyVars, vulkanVars, threadVars>>
=============================================================================
