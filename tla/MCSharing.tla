----------------------------- MODULE MCSharing -----------------------------
(***************************************************************************)
(* Sharing with a byte of few bits, which 1 + SignBit threads are as many  *)
(* as it bears, and a short ring, one key with a character and one         *)
(* without, and one control key of each kind.  Owner chooses a thread, so  *)
(* threads are not interchangeable.                                        *)
(***************************************************************************)
EXTENDS Sharing
=============================================================================
