---------------------------- MODULE MCTunnelCore ----------------------------
(* Instances of TunnelCore.                                                *)
EXTENDS TunnelCore, TLC

CONSTANTS de, nl, ru

Places == Permutations({de, nl})
=============================================================================
