-------------------------- MODULE MCTtlPrefixify --------------------------
(***************************************************************************)
(* Statements, directives and a default prefix for TtlPrefixify.           *)
(***************************************************************************)
EXTENDS TtlPrefixify

P == INSTANCE Next2Pow WITH Word <- 65536, Shifts <- <<1, 2, 4, 8>>
Pow2(x) == P!next_2pow(x)

\* foaf, in short.
Dflt == << [prfx |-> <<"f">>, puri |-> <<"u", "v">>] >>

\* Two IRIs with a text between them, and one that any buffer has to be grown for,
\* with an IRI at its very end.
Two  == <<"<", "u", "v", "x", ">", " ", "<", "u", "y", ">", "<", "u", "v", ">", ".">>
Long == [x \in 1..26 |-> "a"] \o <<"<", "u", "v", "x", ">", ".">>

\* A literal with the beginning of a known IRI, but no end of it.
Lit  == <<"\"", "<", "u", "v", "\"", ".">>

\* A new prefix for a part of a default one's URI; one with a directive that any
\* buffer has to be grown for; a default one for another URI.
NewG == <<"@prefix", "g", ":", "<", "u", ">", ".">>
NewH == <<"@prefix", "h", ":", "<">> \o [x \in 1..26 |-> "a"] \o <<">", ".">>
Redo == <<"@prefix", "f", ":", "<", "w", ">", ".">>

Stmts == {Two, Long, Lit, NewG, NewH, Redo}

\* What InPlaceExact leaves out: a name that is longer than its URI is written over what
\* is still to be moved (ttl-prefixify.c:170-175), and <#xy>. becomes nnn:n::, where
\* ttl-prefixify.yuck:3 has it become nnn:xy. with the full stop.
LongName == << [prfx |-> <<"n", "n", "n">>, puri |-> <<"#">>] >>
Brief    == <<"<", "#", "x", "y", ">", ".">>
ASSUME LongNameOverwrites ==
  /\ Substituted(LongName, Brief) = <<"n", "n", "n", ":", "x", "y", ".">>
  /\ subst(LongName, Brief, 32).text = <<"n", "n", "n", ":", "n", ":", ":">>

===========================================================================
