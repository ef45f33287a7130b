------------------------------ MODULE TtlLex ------------------------------
(***************************************************************************)
(* What a Turtle text says, independently of how it is read: a lexer that  *)
(* takes the whole text one character at a time, and the statements that   *)
(* it delimits.  The programs never have the whole text; they scan a       *)
(* window of it with string searches (TtlScan).  This module is the        *)
(* reference that scanner is compared with.                                *)
(*                                                                         *)
(* A character is a one-character string; everything that is neither       *)
(* white space nor one of the characters named below lexes alike.          *)
(***************************************************************************)
EXTENDS Integers, Sequences, FiniteSets

Quote     == "\""
Backslash == "\\"
White     == {" ", "\n"}

(***************************************************************************)
(* The lexer's modes.  "free" is outside every token; "fesc" is outside,   *)
(* after an odd number of backslashes; "angles" is inside <...>, "comment" *)
(* after #; "q1" has seen one opening quote, "q2" two (an empty literal,   *)
(* unless a third follows); "quote" and "long" are inside a literal, with  *)
(* "qesc" and "lesc" after an escaping backslash and "l1", "l2" after one  *)
(* or two quotes of a possible end of a long literal.                      *)
(***************************************************************************)
FromFree(c) ==
  CASE c = Quote     -> "q1"
    [] c = Backslash -> "fesc"
    [] c = "<"       -> "angles"
    [] c = "#"       -> "comment"
    [] OTHER         -> "free"

FromQuote(c) ==
  CASE c = Quote     -> "free"
    [] c = Backslash -> "qesc"
    [] OTHER         -> "quote"

FromLong(c, onQuote) ==
  CASE c = Quote     -> onQuote
    [] c = Backslash -> "lesc"
    [] OTHER         -> "long"

LexStep(mode, c) ==
  CASE mode = "free"    -> FromFree(c)
    [] mode = "fesc"    -> IF c \in {Quote, Backslash} THEN "free" ELSE FromFree(c)
    [] mode = "angles"  -> IF c = ">" THEN "free" ELSE "angles"
    [] mode = "comment" -> IF c = "\n" THEN "free" ELSE "comment"
    [] mode = "q1"      -> IF c = Quote THEN "q2" ELSE FromQuote(c)
    [] mode = "q2"      -> IF c = Quote THEN "long" ELSE FromFree(c)
    [] mode = "quote"   -> FromQuote(c)
    [] mode = "qesc"    -> "quote"
    [] mode = "long"    -> FromLong(c, "l1")
    [] mode = "l1"      -> FromLong(c, "l2")
    [] mode = "l2"      -> FromLong(c, "free")
    [] mode = "lesc"    -> "long"

\* Mode after each prefix of the text.
ModeAfter(text) ==
  LET mode[i \in 0..Len(text)] ==
        IF i = 0 THEN "free" ELSE LexStep(mode[i-1], text[i])
  IN  mode

\* A character at i is outside every token when the mode before it is one of these.
Outside == {"free", "fesc", "q2"}

\* Positions of the full stops that conclude a statement.
Ends(text) ==
  LET mode == ModeAfter(text)
  IN  {i \in 1..Len(text) : text[i] = "." /\ mode[i-1] \in Outside}

\* The statement that ends at e: from the first non-white character after the
\* statement before it.
StatementAt(text, e) ==
  LET before == {0} \cup {f \in Ends(text) : f < e}
      prev   == CHOOSE f \in before : \A g \in before : g <= f
      start  == CHOOSE i \in prev+1..e :
                  /\ text[i] \notin White
                  /\ \A j \in prev+1..i-1 : text[j] \in White
  IN  SubSeq(text, start, e)

Statements(text) ==
  LET E == Ends(text)
  IN  [k \in 1..Cardinality(E) |->
         StatementAt(text, CHOOSE e \in E : Cardinality({f \in E : f <= e}) = k)]

\* The longest stretch of the text that no end of a statement cuts.
Longest(text) ==
  LET E == {0, Len(text)} \cup Ends(text)
      stretches == UNION {{e - f : f \in E} : e \in E}
  IN  CHOOSE n \in stretches :
        /\ \E f \in E : f + n \in E /\ \A g \in f+1..f+n-1 : g \notin E
        /\ \A f \in E : n < Len(text) - f => \E g \in f+1..f+n : g \in E

\* The number of stop characters outside every token, from a set of them.
Outsiders(text, C) ==
  LET mode == ModeAfter(text)
  IN  Cardinality({i \in 1..Len(text) : text[i] \in C /\ mode[i-1] \in Outside})

===========================================================================
