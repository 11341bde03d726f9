----------------------------- MODULE MCContext -----------------------------
(* Context with a line on each chip and a call that exists and one that does  *)
(* not.                                                                      *)
EXTENDS Context
=============================================================================
