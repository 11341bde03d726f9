------------------------------- MODULE MCDisk -------------------------------
(* Disk with three sectors and numbers for one more, requests of up to two   *)
(* sectors, and one of a size that is 0 in the driver's arithmetic.          *)
EXTENDS Disk

CONSTANTS d1, d2, none, garbage

Partition(type, start, nr) == [type |-> type, start |-> start, nr |-> nr]

\* No SFS partition, one, two, and one that is not longer than its start.
MCTables == {<<Partition("other", 1, 50)>>,
             <<Partition("sfs", 63, 20000), Partition("other", 1, 50)>>,
             <<Partition("sfs", 63, 20000), Partition("sfs", 2048, 30000)>>,
             <<Partition("sfs", 2048, 1000)>>}
=============================================================================
