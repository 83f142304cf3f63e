------------------------------ MODULE MCBridge ------------------------------
(* Instances of Bridge for TLC.                                            *)
EXTENDS Bridge, TLC

CONSTANTS r1, r2, a1, a2

\* Two calls that share the client of one of the relays.
BothOnOne == a1 :> r1 @@ a2 :> r1
=============================================================================
