-------------------------------- MODULE Slob --------------------------------
(***************************************************************************)
(* kmalloc and kfree (mm/slob.c): an arena of SLOB_PAGE_COUNT pages cut    *)
(* into chunks, each a header followed by length bytes.                    *)
(*                                                                         *)
(* chunks is slob_head: the chunks in list order, each with the address of *)
(* its header.  Addresses count bytes from the start of the arena.  Calls  *)
(* are atomic: only the boot thread allocates, and there is no locking to  *)
(* model.  held records what callers were given; they free each pointer    *)
(* once and write only the bytes they asked for.  A chunk that is handed   *)
(* out unmarked may be handed out or cut again while its first caller      *)
(* still writes to it: a behaviour is followed to the call that does so,   *)
(* after which the list is whatever the callers' data make of it.          *)
(*                                                                         *)
(* A definition marked FAULT is a plausible slip in the one after it, kept *)
(* to show that a property would notice it.                                *)
(***************************************************************************)
EXTENDS Integers, FiniteSets, Sequences, SequencesExt

CONSTANTS
    Arena,  \* bytes slob_init gets from the page allocator
    Sizes   \* the sizes callers ask for

Hdr == 12           \* sizeof(slob_block_t)
SLOB_MIN_PART == 32

ConstantsFit ==
    /\ Arena \in Nat /\ Arena > Hdr
    /\ Sizes \subseteq Nat

VARIABLES
    chunks,     \* the list slob_head
    held,       \* the <<pointer, size>> callers hold
    clash       \* history: kmalloc gave or wrote bytes that a caller holds

vars == <<chunks, held, clash>>

Chunk(a, l, u) == [addr |-> a, length |-> l, used |-> u]

\* slob_init: one free chunk.
Init ==
    /\ chunks = <<Chunk(0, Arena - Hdr, FALSE)>>
    /\ held = {}
    /\ clash = FALSE

\* The length kmalloc looks for.  The header is counted once here and once
\* more when the chunk is split.
Need(size) == (IF size > SLOB_MIN_PART THEN size ELSE SLOB_MIN_PART) + Hdr

\* The chunks kmalloc would take for this length.
Suitable(len) == {i \in DOMAIN chunks : ~ chunks[i].used /\ chunks[i].length > len}

\* FAULT: the header of the rest is not paid for.
SplitFreeHeader(c, len) ==
    <<Chunk(c.addr, len, TRUE), Chunk(c.addr + Hdr + len, c.length - len, FALSE)>>

\* The rest of chunk c is worth a chunk of its own.
Splits(c, len) == c.length - len > Hdr + SLOB_MIN_PART

\* FAULT: the rest is marked used, not the chunk.
SplitMarksRest(c, len) ==
    IF Splits(c, len)
    THEN <<Chunk(c.addr, len, FALSE),
           Chunk(c.addr + Hdr + len, c.length - len - Hdr, TRUE)>>
    ELSE <<c>>

\* split_chunk: what chunk c becomes.  Only if it is cut is it marked used.
Split(c, len) ==
    IF Splits(c, len)
    THEN <<Chunk(c.addr, len, TRUE),
           Chunk(c.addr + Hdr + len, c.length - len - Hdr, FALSE)>>
    ELSE <<c>>

\* The n bytes from a meet what some caller holds, or the header in front of it.
Meets(a, n) == \E h \in held : a < h[1] + h[2] /\ h[1] - Hdr < a + n

Kmalloc(size) ==
    LET i == Min(Suitable(Need(size)))
    IN  /\ Suitable(Need(size)) # {}
        /\ chunks' = SubSeq(chunks, 1, i - 1) \o Split(chunks[i], Need(size))
                        \o SubSeq(chunks, i + 1, Len(chunks))
        /\ held' = held \cup {<<chunks[i].addr + Hdr, size>>}
        /\ clash' = \/ Meets(chunks[i].addr, Hdr + size)
                    \/ /\ Splits(chunks[i], Need(size))
                       /\ Meets(chunks[i].addr + Hdr + Need(size), Hdr)

\* No chunk is long enough: NULL.
KmallocFails(size) ==
    /\ Suitable(Need(size)) = {}
    /\ UNCHANGED vars

\* The chunk, if any, that starts at the caller's pointer and is marked used.
Marked(h) == {i \in DOMAIN chunks : chunks[i].addr + Hdr = h[1] /\ chunks[i].used}

\* FAULT: only the chunk after it is looked at.
GlueNext(i) ==
    LET hi == IF i < Len(chunks) /\ ~ chunks[i + 1].used THEN i + 1 ELSE i
        gain == IF hi = i THEN 0 ELSE chunks[hi].length + Hdr
    IN  SubSeq(chunks, 1, i - 1) \o <<Chunk(chunks[i].addr, chunks[i].length + gain, FALSE)>>
            \o SubSeq(chunks, hi + 1, Len(chunks))

\* glue_chunk: chunk i, now free, joins the free chunks next to it.
Glue(i) ==
    LET lo == IF i > 1 /\ ~ chunks[i - 1].used THEN i - 1 ELSE i
        hi == IF i < Len(chunks) /\ ~ chunks[i + 1].used THEN i + 1 ELSE i
        Gain(j) == IF j = i THEN 0 ELSE chunks[j].length + Hdr
        glued == Chunk(chunks[lo].addr, chunks[i].length + Gain(lo) + Gain(hi), FALSE)
    IN  SubSeq(chunks, 1, lo - 1) \o <<glued>> \o SubSeq(chunks, hi + 1, Len(chunks))

\* kfree leaves a chunk alone that is not marked used.
Kfree(h) ==
    /\ h \in held
    /\ held' = held \ {h}
    /\ chunks' = IF Marked(h) = {} THEN chunks ELSE Glue(CHOOSE i \in Marked(h) : TRUE)
    /\ UNCHANGED clash

Next ==
    /\ ~ clash
    /\ \/ \E size \in Sizes : Kmalloc(size) \/ KmallocFails(size)
       \/ \E h \in held : Kfree(h)

Spec == Init /\ [][Next]_vars

----------------------------------------------------------------------------
\* The chunks tile the arena in address order: no byte is lost or belongs to
\* two chunks, whatever was split and glued.
ChunksTileArena ==
    /\ chunks[1].addr = 0
    /\ \A i \in 1 .. Len(chunks) - 1 :
          chunks[i + 1].addr = chunks[i].addr + Hdr + chunks[i].length
    /\ Last(chunks).addr + Hdr + Last(chunks).length = Arena

\* kfree glues: no two free chunks are neighbours, so memory that has all been
\* freed is one chunk again.
FreeChunksGlued ==
    \A i \in 1 .. Len(chunks) - 1 : chunks[i].used \/ chunks[i + 1].used

\* No marked chunk is lost: some caller holds it, with a size it has room for,
\* and can free it; so once everything is freed the arena is one free chunk
\* again.  The reverse, that every caller's chunk is marked, is false
\* (HandedOutIsMarked).
MarkedAreHeld ==
    /\ \A i \in DOMAIN chunks : chunks[i].used =>
          \E h \in held : h[1] = chunks[i].addr + Hdr /\ h[2] <= chunks[i].length
    /\ held = {} => chunks = <<Chunk(0, Arena - Hdr, FALSE)>>

----------------------------------------------------------------------------
\* What slob.c:25 says of the allocated bit ("whether this block has already
\* been allocated"): it is set in every chunk that was handed out.
HandedOutIsMarked == \A h \in held : Marked(h) # {}
=============================================================================
