------------------------------ MODULE MCPrintk ------------------------------
(***************************************************************************)
(* Printk with formats of one conversion whose width, precision or both    *)
(* are given by an argument, and integers of five bits.                    *)
(***************************************************************************)
EXTENDS Printk

StarredFormats ==
    {<<[flags |-> <<>>, width |-> 3, precision |-> 2, star |-> star, letter |-> <<l>>, args |-> <<7>>]>> :
        star \in {{"width"}, {"precision"}, {"width", "precision"}}, l \in {"d", "x"}}
=============================================================================
