---------------------------- MODULE SplitPieces ---------------------------
(***************************************************************************)
(* What ttl-split promises for one input: pieces of a fixed number of      *)
(* statements, in the order of the input, each of which begins with the    *)
(* directives that came before it.  Files, buffers and their sizes are not *)
(* part of the promise.                                                    *)
(***************************************************************************)
EXTENDS Integers, Sequences

CONSTANTS
  Item,       \* what may be put: statements and directives
  IsDirective(_),
  nstmt       \* statements per piece

VARIABLES
  pieces,     \* the pieces begun so far
  dirs,       \* the directives so far
  count,      \* statements in the piece being filled
  filling     \* whether a piece is being filled

splitVars == <<pieces, dirs, count, filling>>

SplitInit == pieces = <<>> /\ dirs = <<>> /\ count = 0 /\ filling = FALSE

\* A piece begins with the directives so far.
Begin ==
  /\ ~filling
  /\ pieces' = Append(pieces, dirs)
  /\ filling' = TRUE
  /\ UNCHANGED <<dirs, count>>

\* An item joins the piece, which ends with its nstmt'th statement.
Put(x) ==
  /\ filling
  /\ pieces' = [pieces EXCEPT ![Len(pieces)] = Append(@, x)]
  /\ dirs' = IF IsDirective(x) THEN Append(dirs, x) ELSE dirs
  /\ LET n == IF IsDirective(x) THEN count ELSE count + 1
     IN  /\ filling' = (n < nstmt)
         /\ count' = IF n < nstmt THEN n ELSE 0

\* At the end of the input the last piece is what it is.
Finish ==
  /\ filling' = FALSE /\ count' = 0 /\ dirs' = <<>>
  /\ UNCHANGED pieces

SplitNext == Begin \/ (\E x \in Item : Put(x)) \/ Finish

SplitSpec == SplitInit /\ [][SplitNext]_splitVars

===========================================================================
