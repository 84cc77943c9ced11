----------------------------- MODULE ConfigPool -----------------------------
(***************************************************************************)
(* The configuration pool: global settings are shared by the frames that   *)
(* use them and counted; what one frame leaves for the next is kept aside. *)
(***************************************************************************)
EXTENDS ConfigParser, FiniteSets

CONSTANTS Frame,            \* frames a client can hold at a time
          Arrivals,          \* payloads that arrive
          Place,            \* addresses of global settings
          NoPlace

PoolAssumption == /\ NoPlace \notin Place
                  /\ IsFiniteSet(Place) /\ IsFiniteSet(Frame)
                  /\ Cardinality(Place) > Cardinality(Frame)
                  /\ \A p \in Arrivals : Len(p.blocks) \in Nat

VARIABLES globalConfigs,        \* settings and the count of their users at each place
          latestGlobalConfig,   \* a place
          quantMatrix, ditherEnabled,
          globalConfig          \* the place each frame holds

configVars == <<globalConfigs, latestGlobalConfig, quantMatrix, ditherEnabled, globalConfig>>

Free == [globalConfig |-> <<>>, referenceCount |-> 0]
Stored == {a \in Place : globalConfigs[a] # Free}

latest == globalConfigs[latestGlobalConfig].globalConfig

ConfigsInit ==
    /\ latestGlobalConfig = CHOOSE a \in Place : TRUE
    /\ \E v \in 0 .. BitstreamVersionUnspecified :
          globalConfigs = [a \in Place |-> IF a = latestGlobalConfig
                              THEN [globalConfig |-> ldeGlobalConfigInitialize(v), referenceCount |-> 1]
                              ELSE Free]
    /\ quantMatrix = ldeFrameConfigInitialize.quantMatrix
    /\ ditherEnabled = FALSE
    /\ globalConfig = [f \in Frame |-> NoPlace]

(* The settings after one user of those at place a is gone. *)
releaseGlobalConfig(configs, a) ==
    IF configs[a].referenceCount = 1 THEN [configs EXCEPT ![a] = Free]
    ELSE [configs EXCEPT ![a].referenceCount = @ - 1]

allocateGlobalConfig(configs, a, initial) ==
    [configs EXCEPT ![a] = [globalConfig |-> initial, referenceCount |-> 1]]

(* Frame f gets the settings at place a. *)
Referenced(configs, f, a) ==
    /\ globalConfigs' = [configs EXCEPT ![a].referenceCount = @ + 1]
    /\ globalConfig' = [globalConfig EXCEPT ![f] = a]

(* A frame begins with what the last one left; the matrix only if it is set.*)
NextFrame == [ldeFrameConfigInitialize EXCEPT
                !.quantMatrix = IF quantMatrix.set THEN quantMatrix ELSE @,
                !.ditherEnabled = ditherEnabled]

Parsed(p) == ldeConfigsParse(p, latest, NextFrame)

(* Mutant: the settings that were the latest keep the count for it. *)
replaceLatestCounted(f, global) ==
    LET a == CHOOSE free \in Place \ Stored : TRUE
    IN  /\ Stored # Place
        /\ latestGlobalConfig' = a
        /\ Referenced(allocateGlobalConfig(globalConfigs, a, global), f, a)

(* New settings take the place of the latest ones, which lose a user. *)
replaceLatest(f, global) ==
    LET a == CHOOSE free \in Place \ Stored : TRUE
    IN  /\ latestGlobalConfig' = a
        /\ Referenced(releaseGlobalConfig(allocateGlobalConfig(globalConfigs, a, global),
                                          latestGlobalConfig), f, a)

(* Mutant: what a frame leaves is kept although it failed to parse. *)
SaveAlways(r) == /\ quantMatrix' = r.frame.quantMatrix
                 /\ ditherEnabled' = r.frame.ditherEnabled

Save(r) == IF r.ok THEN quantMatrix' = r.frame.quantMatrix /\ ditherEnabled' = r.frame.ditherEnabled
           ELSE UNCHANGED <<quantMatrix, ditherEnabled>>

(* Nothing of a payload that cannot be parsed is kept. *)
ldeConfigPoolFrameInsert(f, p) ==
    LET r == Parsed(p) IN
    /\ globalConfig[f] = NoPlace
    /\ Save(r)
    /\ CASE ~r.ok -> UNCHANGED <<globalConfigs, latestGlobalConfig, globalConfig>>
         [] r.ok /\ r.modified /\ r.global # latest -> replaceLatest(f, r.global)
         [] OTHER -> Referenced(globalConfigs, f, latestGlobalConfig) /\ UNCHANGED latestGlobalConfig

ldeConfigPoolFramePassthrough(f) ==
    /\ globalConfig[f] = NoPlace
    /\ Referenced(globalConfigs, f, latestGlobalConfig)
    /\ UNCHANGED <<latestGlobalConfig, quantMatrix, ditherEnabled>>

ldeConfigPoolFrameRelease(f) ==
    /\ globalConfig[f] # NoPlace
    /\ globalConfigs' = releaseGlobalConfig(globalConfigs, globalConfig[f])
    /\ globalConfig' = [globalConfig EXCEPT ![f] = NoPlace]
    /\ UNCHANGED <<latestGlobalConfig, quantMatrix, ditherEnabled>>

ConfigsNext == \E f \in Frame : \/ ldeConfigPoolFramePassthrough(f) \/ ldeConfigPoolFrameRelease(f)
                         \/ \E p \in Arrivals : ldeConfigPoolFrameInsert(f, p)

ConfigsSpec == ConfigsInit /\ [][ConfigsNext]_configVars

-----------------------------------------------------------------------------
(* Settings are counted once for each frame that holds them and once more   *)
(* while they are the latest, so that they go with their last user and      *)
(* never before.                                                            *)
ConfigsReferenced ==
    \A a \in Place :
        LET users == Cardinality({f \in Frame : globalConfig[f] = a})
                        + (IF a = latestGlobalConfig THEN 1 ELSE 0)
        IN  /\ globalConfigs[a].referenceCount = users
            /\ a \in Stored <=> users > 0

Stream == INSTANCE StreamState WITH
    Payload <- Arrivals,
    state <- [global |-> latest, quantMatrix |-> quantMatrix, ditherEnabled |-> ditherEnabled],
    settings <- [f \in Frame |-> IF globalConfig[f] = NoPlace THEN <<>>
                                 ELSE <<globalConfigs[globalConfig[f]].globalConfig>>]

(* Sharing does not show: a frame keeps the settings it came with while     *)
(* later payloads change them, and a payload that fails half way changes    *)
(* neither the stream nor a frame.                                          *)
ImplementsStreamState == Stream!Spec
=============================================================================
