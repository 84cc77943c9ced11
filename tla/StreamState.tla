----------------------------- MODULE StreamState -----------------------------
(***************************************************************************)
(* What the users of the configuration pool rely on: a stream has one      *)
(* state, which a payload moves on if all of it could be parsed and leaves *)
(* as it was otherwise, and every frame keeps for itself the settings of   *)
(* the moment it came.                                                     *)
(***************************************************************************)
EXTENDS Naturals

CONSTANTS Frame, Payload,
          ldeConfigsParse(_, _, _),     \* the parser, from ConfigParser
          ldeGlobalConfigInitialize(_), ldeFrameConfigInitialize, BitstreamVersionUnspecified

VARIABLES state,        \* settings carried from frame to frame
          settings      \* global settings of each frame that is held, <<>> of the others

Parsed(p) ==
    ldeConfigsParse(p, state.global,
                    [ldeFrameConfigInitialize EXCEPT !.ditherEnabled = state.ditherEnabled,
                                                     !.quantMatrix = state.quantMatrix])

Init == /\ \E v \in 0 .. BitstreamVersionUnspecified :
              state = [global |-> ldeGlobalConfigInitialize(v),
                       quantMatrix |-> ldeFrameConfigInitialize.quantMatrix, ditherEnabled |-> FALSE]
        /\ settings = [f \in Frame |-> <<>>]

Accept(f, p) ==
    /\ settings[f] = <<>>
    /\ Parsed(p).ok
    /\ LET global == IF Parsed(p).modified THEN Parsed(p).global ELSE state.global
       IN  /\ state' = [global |-> global, quantMatrix |-> Parsed(p).frame.quantMatrix,
                        ditherEnabled |-> Parsed(p).frame.ditherEnabled]
           /\ settings' = [settings EXCEPT ![f] = <<global>>]

PassThrough(f) == /\ settings[f] = <<>>
                  /\ settings' = [settings EXCEPT ![f] = <<state.global>>]
                  /\ UNCHANGED state

Release(f) == /\ settings[f] # <<>>
              /\ settings' = [settings EXCEPT ![f] = <<>>]
              /\ UNCHANGED state

Next == \E f \in Frame :
           /\ settings'[f] # settings[f]
           /\ PassThrough(f) \/ Release(f) \/ \E p \in Payload : Accept(f, p)

Spec == Init /\ [][Next]_<<state, settings>>
=============================================================================
