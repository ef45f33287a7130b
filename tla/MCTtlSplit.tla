---------------------------- MODULE MCTtlSplit ----------------------------
(***************************************************************************)
(* Files for TtlSplit, and next_2pow() as the code computes it.            *)
(***************************************************************************)
EXTENDS TtlSplit

P == INSTANCE Next2Pow WITH Word <- 256, Shifts <- <<1, 2, 4>>
Pow2(x) == P!next_2pow(x)

\* Directives, statements, and literals that hide a full stop: any two of them, and
\* some that make two pieces.
D == <<"@", ".">>
S == <<"a", ".">>
L == <<"\"", ".", "\"", ".">>
ShortTexts == {FlattenSeq(s) : s \in BoundedSeq({D, S, L}, 2)
                                      \cup {<<D, S, S, S>>, <<S, D, S, L>>, <<S, D, D>>, <<L, S, D>>}}

\* A directive that outgrows every buffer, and a file that has no end.
LongTexts == {<<"b", ".", "@", "c", "c", "c", "c", "c", "c", ".">>,
              <<"d", "d", "d", "d", "d", "d">>}

SplitTexts == ShortTexts \cup LongTexts

===========================================================================
