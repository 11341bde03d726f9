------------------------------- MODULE MCSlob -------------------------------
(***************************************************************************)
(* Slob on an arena whose chunks are often a little longer than a request. *)
(***************************************************************************)
EXTENDS Slob
=============================================================================
