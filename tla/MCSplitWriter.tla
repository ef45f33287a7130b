-------------------------- MODULE MCSplitWriter ---------------------------
(***************************************************************************)
(* Statements and directives for SplitWriter that do and do not fit into   *)
(* the static buffers, and next_2pow() as the code computes it.            *)
(***************************************************************************)
EXTENDS SplitWriter

P == INSTANCE Next2Pow WITH Word <- 256, Shifts <- <<1, 2, 4>>
Pow2(x) == P!next_2pow(x)

\* A word of 8 bits and the steps 1 and 2 have the proportions of the code's 64 bits
\* and its steps up to 16: the smearing reaches over half of the word.  Up to there
\* (4 GiB in the code) the result is the least power of two that x bytes fit into,
\* and what fits into a grown buffer does not grow past it (ttl-split.c:63-73).
Half == INSTANCE Next2Pow WITH Word <- 256, Shifts <- <<1, 2>>
ASSUME LeastPower ==
  \A x \in 1..16 : LET n == Half!next_2pow(x)
                   IN  n \in {2^e : e \in 0..4} /\ x <= n /\ n < 2 * x
ASSUME Closed ==
  \A x, y \in 1..16 :
    x <= Half!next_2pow(y) => Half!next_2pow(x) <= Half!next_2pow(y)

\* With Buf0 = 8: a short and a long statement, a short and a long directive.
Stmts  == {"s", "S", "d", "D"}
Prefix == {"d", "D"}
Sizes  == [x \in Stmts |-> CASE x = "s" -> 3 [] x = "S" -> 9
                             [] x = "d" -> 3 [] x = "D" -> 10]

===========================================================================
