-------------------------------- MODULE MCPmm --------------------------------
(* Pmm asked for one or two pages at any time, with the first-fit manager.    *)
EXTENDS Pmm

MultiSizes == [m \in Managers |-> {1, 2}]

\* The first-fit manager does not test itself.
NoTest == <<>>

\* Not the index of a page.
NullPage == -1
=============================================================================
