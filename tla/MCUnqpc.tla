----------------------------- MODULE MCUnqpc ------------------------------
(***************************************************************************)
(* Lines for Unqpc.                                                        *)
(***************************************************************************)
EXTENDS Unqpc, SequencesExt

\* %, 2, 5 and f: sequences that decode to each other's parts, as %252525, cut
\* short and nested; %, 1, F and E: what is out of the bounds of --only-printable.
ManyLines == BoundedSeq({37, 50, 53, 102}, 6) \cup BoundedSeq({37, 49, 69, 70}, 6)

===========================================================================
