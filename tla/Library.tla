------------------------------ MODULE Library ------------------------------
(***************************************************************************)
(* The parts of the kernel that hold no state of their own, side by side:  *)
(* the lists, the red-black trees and the formatting of printk.  A         *)
(* behaviour uses one of them, chosen at the start, so that their states   *)
(* add up and do not multiply.                                             *)
(***************************************************************************)
EXTENDS Integers, List, Rbtree

CONSTANTS
    Formats, Bits    \* of Printk

VARIABLES
    used,   \* what this behaviour uses
    pieces, format, pos, args, buff, stored, pc, flags, field_width, precision

P == INSTANCE Printk

printVars == <<pieces, format, pos, args, buff, stored, pc, flags, field_width, precision>>
libraryVars == <<used, vars, treeVars, printVars>>

LibraryInit ==
    /\ used \in {"list", "rbtree", "printk"}
    /\ Init /\ TreeInit /\ P!Init
    /\ used # "printk" => pieces = <<>>

LibraryNext ==
    \/ used = "list" /\ Next /\ UNCHANGED <<used, treeVars, printVars>>
    \/ used = "rbtree" /\ TreeNext /\ UNCHANGED <<used, vars, printVars>>
    \/ used = "printk" /\ P!Next /\ UNCHANGED <<used, vars, treeVars>>

LibrarySpec == LibraryInit /\ [][LibraryNext]_libraryVars

-----------------------------------------------------------------------------
\* The property of printk, whose comment says what it states; those of the lists
\* and the trees are List's and Rbtree's own.
PrintsAsMeant == P!PrintsAsMeant
=============================================================================
