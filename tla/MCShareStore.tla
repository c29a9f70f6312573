----------------------------- MODULE MCShareStore -----------------------------
(* A short chain of shares for ShareStore. *)
EXTENDS ShareStore

MCprevious_hash == <<0, 1>>
=============================================================================
