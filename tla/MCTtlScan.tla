---------------------------- MODULE MCTtlScan -----------------------------
(***************************************************************************)
(* Inputs for TtlScan: short texts over the pieces that steer the scanner. *)
(***************************************************************************)
EXTENDS TtlScan, SequencesExt

\* Texts of up to n of the given tokens, each a sequence of characters.
TextsOf(tokens, n) == {FlattenSeq(s) : s \in BoundedSeq(tokens, n)}

\* Literals: plain, empty, long, escaped, and cut anywhere by a read.
LiteralTexts ==
  TextsOf({<<"\"", "\"", "\"">>, <<"\"">>, <<"\\">>, <<".">>, <<"a">>}, 5)

\* IRIs, comments and white space.
MarkupTexts == TextsOf({<<".">>, <<"<">>, <<">">>, <<"#">>, <<"\n">>, <<" ">>}, 4)

ScanTexts == LiteralTexts \cup MarkupTexts

===========================================================================
