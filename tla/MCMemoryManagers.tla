-------------------------- MODULE MCMemoryManagers --------------------------
(***************************************************************************)
(* The memory managers on small memories.                                  *)
(*                                                                         *)
(* Pages: seven; the first-fit manager is asked for single pages once the  *)
(* kernel has booted, as the kernel asks it; the buddy manager, which no   *)
(* kernel is built with, for two as well; for a number that is not a power *)
(* of two only by its self-test and while booting, because each such       *)
(* request makes its count drift further from the truth.                   *)
(*                                                                         *)
(* kmalloc: requests of the smallest size, a little more, and more than    *)
(* twice that; in an arena of this size there are chunks that fit with and *)
(* without a rest worth splitting off, and that do not fit at all.         *)
(*                                                                         *)
(* Paging: pages of 16 bytes, tables of nine entries, two directory        *)
(* entries for users and one for the kernel; a kernel that ends with page  *)
(* 2, and memory for no, one or two managed pages, the last cut off where  *)
(* the kernel's map ends.                                                  *)
(***************************************************************************)
EXTENDS MemoryManagers

KernelSizes == [m \in Managers |-> IF m = "first_fit" THEN {1} ELSE {1, 2}]

\* A round of the self-test without and one with sizes that are rounded up.
SmallTest == << <<1, 2>>, <<1, 3, 1>> >>

\* Not the index of a page.
NullPage == -1

UserVAs == {<<0, 0>>, <<0, 1>>, <<1, 0>>}
MapFlags == {{"present"}, {"present", "write", "user"}}
=============================================================================
