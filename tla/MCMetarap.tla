----------------------------- MODULE MCMetarap ----------------------------
(***************************************************************************)
(* Filters and inputs for Metarap.  The characters are 97 (a) and so on.   *)
(***************************************************************************)
EXTENDS Metarap

Uri(s)     == [type |-> "uri", str |-> s]
Literal(s) == [type |-> "literal", str |-> s]
Stmt(s, p, o) == [kind |-> "stmt", subj |-> s, pred |-> p, obj |-> o]
Ns(p, u)      == [kind |-> "ns", prefix |-> p, uri |-> u]

P1 == Uri(<<112>>)
P2 == Uri(<<113>>)
O  == Literal(<<111>>)

\* @ab, "@b", <@a:xy>, <@a>, a name of five characters, which takes four words, the empty
\* one, one with an @ of its own and one with a NUL.  b lies in ab, but not if it is first.
Filter ==
  {Stmt(P1, P2, O), Stmt(P2, P1, Literal(<<64, 98>>)), Stmt(P1, P1, Uri(<<64, 97, 98>>)),
   Stmt(P1, P2, Uri(<<64, 97, 58, 120, 121>>)), Stmt(P2, P2, Uri(<<64, 97>>)),
   Stmt(P1, P2, Uri(<<64, 99, 99, 99, 99, 99>>)), Stmt(P1, P1, Literal(<<64, 58, 120>>)),
   Stmt(P2, P2, Literal(<<64, 64, 98>>)), Stmt(P1, P1, Literal(<<64, 98, 0, 98>>)),
   Ns(<<98>>, <<118>>)}

Input ==
  {Stmt(P2, P1, O), Stmt(O, P2, P1), Stmt(O, O, O), Ns(<<97>>, <<117>>), Ns(<<98>>, <<118>>),
   Ns(<<97>>, <<119, 119>>), Ns(<<97, 98>>, <<>>), Ns(<<>>, <<117>>)}

\* @ab and then "@b", with and without a suffix, and an input that declares both names.
PartOfName == {Stmt(P1, P1, Uri(<<64, 97, 98>>)), Stmt(P1, P2, Literal(<<64, 98>>)),
               Stmt(P1, P2, Uri(<<64, 98, 58, 120>>))}
BothNames  == {Stmt(O, P1, P2), Ns(<<97, 98>>, <<117>>), Ns(<<98>>, <<118>>)}

\* Texts that share beginnings and ends, and sums.
Hays  == BoundedSeq({1, 2, 3}, 6)
Needles == BoundedSeq({1, 2, 3}, 3)
ASSUME SearchAssumption == XMemMemIsSearch(Hays, Needles)

H == INSTANCE Murmur3
Keys == UNION {[1..n -> {0, 6, 15}] : n \in 0..6}
ASSUME HashAssumption ==
  /\ H!EveryByteCounts(Keys)
  /\ H!TailIsPadded(Keys)
  /\ H!WholeHash /\ H!DigitsTellBytes
  /\ H!LastNewline(Keys)

===========================================================================
