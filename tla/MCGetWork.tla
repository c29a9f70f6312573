------------------------------ MODULE MCGetWork ------------------------------
(* A client on IPv4 and two on one IPv6 site for GetWork. *)
EXTENDS GetWork, TLC

CONSTANTS old_net, home1, home2, home

MCsite == [x \in Client |-> IF x = old_net THEN no_site ELSE home]
MCsymmetry == Permutations({home1, home2})
=============================================================================
