------------------------------ MODULE MCRequests ------------------------------
(* Two connections of one kind or another for Requests. *)
EXTENDS Requests

CONSTANTS a, b
=============================================================================
