----------------------------- MODULE MCTtlWc ------------------------------
(***************************************************************************)
(* Files for TtlWc.                                                        *)
(***************************************************************************)
EXTENDS TtlWc, SequencesExt

\* Everything that is counted or that hides it from being counted.
CountTexts ==
  {FlattenSeq(s) : s \in BoundedSeq({<<".">>, <<";">>, <<",">>, <<"@">>, <<"\"">>, <<"a">>}, 4)}

\* The same, shorter, for several files.
FileTexts ==
  {FlattenSeq(s) : s \in BoundedSeq({<<";", ",">>, <<".">>, <<"@">>, <<"\"">>}, 3)}

===========================================================================
