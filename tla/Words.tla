------------------------------- MODULE Words ------------------------------
(***************************************************************************)
(* Machine words, scaled down: a 64-bit word has 8 bits here, its 32-bit   *)
(* halves have 4.  What is computed on the words of the code is computed   *)
(* on these, with the same carries that fall off the end.                  *)
(***************************************************************************)
LOCAL INSTANCE Integers

Word == 0..255
Half == 0..15

Bit(x, i) == (x \div 2^i) % 2

\* x ^ y, four bits at a time.
HalfXor == [x \in Half |-> [y \in Half |->
  LET b(k) == (x \div k + y \div k) % 2 IN b(1) + 2 * b(2) + 4 * b(4) + 8 * b(8)]]
x ^^ y == 16 * HalfXor[x \div 16][y \div 16] + HalfXor[x % 16][y % 16]

\* !(x & y): there is no bit that both have.
Halved(x, i) == LET h[k \in 0..i] == IF k = 0 THEN x ELSE h[k-1] \div 2 IN h[i]
Disjoint(x, y) == \A i \in 0..x : Halved(x, i) % 2 = 0 \/ Halved(y, i) % 2 = 0

\* Unsigned arithmetic: what does not fit is lost.
Plus(x, y)  == (x + y) % 256
Minus(x, y) == (x - y) % 256
Times(x, y) == (x * y) % 256
Shr(x, n)   == x \div 2^n
Shl(x, n)   == (x * 2^n) % 256
Rotl(x, n)  == Shl(x, n) + Shr(x, 8 - n)
Rotr(x, n)  == Rotl(x, 8 - n)

Low(x)      == x % 16
High(x)     == x \div 16
Join(lo, hi) == lo + 16 * hi

===========================================================================
