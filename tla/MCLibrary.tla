----------------------------- MODULE MCLibrary -----------------------------
(***************************************************************************)
(* Library with two heads and three elements, eight keys and a second node *)
(* for the third of them, and integers of five bits: every conversion with *)
(* every flag, no, a small or a large width, no, zero or a small precision *)
(* and the integers at the edges; pairs of conversions; formats that end   *)
(* within one, and formats with stars, which are read to their end.        *)
(***************************************************************************)
EXTENDS Library, FiniteSets, Sequences, TLC

MCTreeNodes == 1 .. 9
MCKey == [n \in MCTreeNodes |-> IF n = 9 THEN 3 ELSE n]

Interchangeable == Permutations(Heads) \cup Permutations(Items)

T(c) == [text |-> c]
Conv(f, w, p, l, as) ==
    [flags |-> f, width |-> w, precision |-> p, star |-> {}, letter |-> <<l>>, args |-> as]
FlagSeqs == {<<>>, <<"-">>, <<"0">>, <<"+">>, <<" ">>, <<"#">>,
             <<"-", "0">>, <<"+", "0">>, <<"#", "0">>, <<" ", "-">>}
Ints == {-16, -1, 0, 7, 15}

Numbers == {Conv(f, w, p, l, <<n>>) : f \in FlagSeqs, w \in {-1, 3, 10}, p \in {-1, 0, 3},
                                      l \in {"d", "u", "o", "x", "X", "b"}, n \in Ints}

Others == {Conv(f, w, p, "s", <<s>>) :
                f \in {<<>>, <<"-">>}, w \in {-1, 3, 10}, p \in {-1, 0, 3}, s \in {<<>>, <<"k", "l", "m", "n">>}}
     \cup {Conv(f, w, -1, "c", <<"q">>) : f \in {<<>>, <<"-">>}, w \in {-1, 1, 3}}
     \cup {Conv(<<>>, -1, -1, "p", <<n>>) : n \in Ints}
     \cup {Conv(<<>>, -1, -1, "n", <<"address">>), 
           [Conv(<<"+">>, 4, -1, "d", <<7>>) EXCEPT !.letter = <<"l", "i">>]}

Few == {Conv(f, w, p, l, <<7>>) : f \in {<<>>, <<"#", "0">>}, w \in {-1, 10}, p \in {-1, 3}, l \in {"d", "x"}}

Starred == {[Conv(<<>>, w, p, "d", <<7>>) EXCEPT !.star = s] :
                w \in {-3, 3}, p \in {-1, 2}, s \in {{"width"}, {"width", "precision"}}}
     \cup {[Conv(<<>>, 3, p, "d", <<7>>) EXCEPT !.star = {"precision"}] : p \in {-1, 2}}

Ends == {[Conv(f, w, -1, "d", <<>>) EXCEPT !.letter = l] :
                f \in {<<>>, <<"-">>}, w \in {-1, 10}, l \in {<<>>, <<"l">>}}

MCFormats == {<<>>} \cup {<<T("a"), p, T("%")>> : p \in Numbers \cup Others}
   \cup {<<p, T("%"), q>> : p \in Others, q \in Others} \cup {<<p, q>> : p \in Few, q \in Few}
   \cup {<<T("a"), p>> : p \in Starred \cup Ends}
=============================================================================
