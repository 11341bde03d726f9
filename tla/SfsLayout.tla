----------------------------- MODULE SfsLayout -----------------------------
(***************************************************************************)
(* Where sfs_mkfs (fs/sfs/sfs.c) puts the parts of a file system on a      *)
(* partition.  Arithmetic is that of uint32_t.                             *)
(* A definition marked FAULT is a plausible slip in the one after it, kept *)
(* to show that a property would notice it.                                *)
(***************************************************************************)
EXTENDS Integers

CONSTANT WORD       \* the modulus of uint32_t

SECTSIZE == 512
BLOCK_SIZE == 2048
SUPER_BLOCK_OFFSET == 4
INODEMAP_OFFSET == 12

Wrap(n) == n % WORD

\* Sectors that are left for the parts after the super block.
AllSectors(start, end) == Wrap(end - start - INODEMAP_OFFSET)

\* FAULT: a map is not rounded up to whole sectors.
MapSectorsDown(n, per) == n \div per

\* The sectors of a map of which one sector serves per sectors of what it maps.
MapSectors(n, per) == n \div per + 1

\* The layout of the partition [start, end).
Layout(start, end) ==
    LET all == AllSectors(start, end)
        inSecs == all \div 10
        blSecs == Wrap(inSecs * 9)
        imStart == Wrap(start + INODEMAP_OFFSET)
        imSecs == MapSectors(inSecs, 512)
        bmStart == Wrap(imStart + imSecs)
        bmSecs == MapSectors(blSecs, BLOCK_SIZE)
        inStart == Wrap(bmStart + bmSecs)
    IN [sb_start |-> Wrap(start + SUPER_BLOCK_OFFSET),
        im_start |-> imStart, im_secs |-> imSecs,
        bm_start |-> bmStart, bm_secs |-> bmSecs,
        in_start |-> inStart, in_secs |-> inSecs,
        bl_start |-> Wrap(inStart + inSecs), bl_secs |-> blSecs,
        inode_count |-> inSecs,
        block_count |-> blSecs \div (BLOCK_SIZE \div SECTSIZE)]

\* The parts follow each other without overlap, with a byte of map for every
\* inode and every block, a sector for every inode and four for every block.
WellFormed(l) ==
    /\ l.sb_start < l.im_start
    /\ l.im_start + l.im_secs = l.bm_start
    /\ l.bm_start + l.bm_secs = l.in_start
    /\ l.in_start + l.in_secs = l.bl_start
    /\ l.inode_count <= l.im_secs * SECTSIZE /\ l.inode_count <= l.in_secs
    /\ l.block_count <= l.bm_secs * SECTSIZE
    /\ l.block_count * BLOCK_SIZE <= l.bl_secs * SECTSIZE
=============================================================================
