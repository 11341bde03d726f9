----------------------------- MODULE MCConsole -----------------------------
(* Console with a screen of two rows and a buffer of four, of which three    *)
(* are used, so that two line feeds after the first line make it scroll.     *)
EXTENDS Console
=============================================================================
