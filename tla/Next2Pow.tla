----------------------------- MODULE Next2Pow -----------------------------
(***************************************************************************)
(* next_2pow(), by which the writers of ttl-split and ttl-prefixify round  *)
(* the size of a buffer up (ttl-split.c:63-73, ttl-prefixify.c:84-94).     *)
(* The code smears the top bit of a 64-bit word downwards in steps of 1,   *)
(* 2, 4, 8 and 16 places, half of what the word would need; the module     *)
(* takes the width of the word and the steps as constants.                 *)
(***************************************************************************)
EXTENDS Integers, Sequences, Bitwise

CONSTANTS
  Word,       \* the number of values of a word, 2^64 in the code
  Shifts      \* the steps of the smearing, <<1, 2, 4, 8, 16>> in the code

\* x |= x >> n, for each step n in turn.
smear(x) ==
  LET f[i \in 0..Len(Shifts)] ==
        IF i = 0 THEN x ELSE f[i-1] | (f[i-1] \div 2^Shifts[i])
  IN  f[Len(Shifts)]

\* x--; smear; return ++x; the word wraps around at both ends.
next_2pow(x) == (smear((x + Word - 1) % Word) + 1) % Word

===========================================================================
