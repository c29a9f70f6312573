------------------------------- MODULE MCPeers -------------------------------
(* Two peers for Peers. *)
EXTENDS Peers

CONSTANTS alice, bob

MCident == [p \in Peer |-> IF p = alice THEN 1 ELSE 2]
MCRudes == {{}, {bob}}
MCHonest == {{}}
MCmax_conns == [p \in Peer |-> IF p = alice THEN 2 ELSE 1]
MCconnect == {<<bob, alice>>}
=============================================================================
