----------------------------- MODULE MCDownlink -----------------------------
(* A step and a veto through the relay, and a step watcher's push to the   *)
(* same peer, where they meet.                                             *)
EXTENDS Downlink

CONSTANTS step, veto, watcher, peer

MCPartsOf == [j \in Jobs |-> IF j = veto THEN 1 ELSE 2]
MCPeerOf == [j \in Jobs |-> peer]
=============================================================================
