----------------------------- MODULE XxhStream ----------------------------
(***************************************************************************)
(* XXH32 and XXH64, in one go and streamed.  They are alike but for the    *)
(* size of a lane, lane bytes of which four make a stripe: 4 and 8.  What  *)
(* is computed with a lane's bytes does not matter here: an accumulator is *)
(* the sequence of what went into it, so that two hashes that are equal    *)
(* here are so whatever the rounds do.                                     *)
(***************************************************************************)
EXTENDS Integers, Sequences, SequencesExt

Stripe(lane) == 4 * lane
Part(bytes, p, n) == SubSeq(bytes, p + 1, p + n)

\* XXH32_round() and XXH64_round(), of each accumulator in turn.
Round(lane, v, stripe) == [k \in 1..4 |-> Append(v[k], Part(stripe, (k - 1) * lane, lane))]

\* The accumulators as they start; the third is the seed itself.
Seeded(seed) == [k \in 1..4 |-> IF k = 3 THEN <<seed>> ELSE <<seed, k>>]

\* All stripes of bytes.
Rounds(lane, v, bytes) ==
  FoldLeft(LAMBDA w, k : Round(lane, w, Part(bytes, (k - 1) * Stripe(lane), Stripe(lane))),
           v, [k \in 1..Len(bytes) \div Stripe(lane) |-> k])
\* What is left behind them.
Rest(lane, bytes) == Part(bytes, Len(bytes) - (Len(bytes) % Stripe(lane)), Len(bytes) % Stripe(lane))

---------------------------------------------------------------------------
(* How the last bytes are taken: in pieces of which sizes.                 *)

Repeat(x, n) == [k \in 1..n |-> x]

\* XXH32_finalize() with XXH_REROLL, and XXH64_finalize().
Rerolled32(n) == Repeat(4, n \div 4) \o Repeat(1, n % 4)
Pieces64(n) == Repeat(8, n \div 8) \o Repeat(4, (n % 8) \div 4) \o Repeat(1, n % 4)

\* XXH32_finalize() without: the labels that fall through to one another, and what
\* comes behind the last of them.
Labels == {[fall |-> <<12, 8, 4>>, behind |-> 0], [fall |-> <<13, 9, 5>>, behind |-> 1],
           [fall |-> <<14, 10, 6>>, behind |-> 2], [fall |-> <<15, 11, 7, 3, 2, 1, 0>>, behind |-> 0]}
Unrolled32(n) ==
  LET l == CHOOSE l \in Labels : Contains(l.fall, n)
      from == SelectSeq(l.fall, LAMBDA m : m <= n /\ m > 0)
  IN  [k \in DOMAIN from |-> IF from[k] > 3 THEN 4 ELSE 1] \o Repeat(1, l.behind)

Pieces(lane, n) == IF lane = 4 THEN Unrolled32(n) ELSE Pieces64(n)

\* The bytes in pieces of the given sizes.
Finalize(bytes, sizes) ==
  [k \in DOMAIN sizes |-> Part(bytes, FoldLeft(LAMBDA a, b : a + b, 0, SubSeq(sizes, 1, k - 1)), sizes[k])]

\* A length is a word of 32 bits in XXH32, of which there are wrap values here.
Digest(lane, wrap, long, v, len, rest) ==
  [from |-> IF long THEN v ELSE v[3],
   len  |-> IF lane = 4 THEN len % wrap ELSE len,
   last |-> Finalize(rest, Pieces(lane, Len(rest)))]

\* XXH32() and XXH64().
OneGo(lane, wrap, input, seed) ==
  Digest(lane, wrap, Len(input) >= Stripe(lane), Rounds(lane, Seeded(seed), input),
         Len(input), Rest(lane, input))

---------------------------------------------------------------------------
(* Streaming.                                                              *)

\* large_len is there in XXH32 only, whose total may wrap.
StreamReset(seed) == [v |-> Seeded(seed), total |-> 0, large_len |-> FALSE, mem |-> <<>>]

StreamUpdate(lane, wrap, s, input) ==
  LET total == IF lane = 4 THEN (s.total + Len(input)) % wrap ELSE s.total + Len(input)
      large == s.large_len \/ Len(input) >= Stripe(lane) \/ total >= Stripe(lane)
      new   == [s EXCEPT !.total = total, !.large_len = large]
      fill  == IF s.mem = <<>> THEN 0 ELSE Stripe(lane) - Len(s.mem)
      v     == IF s.mem = <<>> THEN s.v ELSE Round(lane, s.v, s.mem \o Part(input, 0, fill))
      bulk  == Part(input, fill, Len(input) - fill)
  IN  IF Len(s.mem) + Len(input) < Stripe(lane) THEN [new EXCEPT !.mem = @ \o input]
      ELSE [new EXCEPT !.v = Rounds(lane, v, bulk), !.mem = Rest(lane, bulk)]

StreamDigest(lane, wrap, s) ==
  Digest(lane, wrap, IF lane = 4 THEN s.large_len ELSE s.total >= Stripe(lane), s.v, s.total,
         IF lane = 4 THEN s.mem ELSE Part(s.mem, 0, s.total % Stripe(lane)))

---------------------------------------------------------------------------
(* Lanes of four bytes with a total that wraps at 32, and of eight.        *)

XXH32(input, seed)     == OneGo(4, 32, input, seed)
XXH32_update(s, input) == StreamUpdate(4, 32, s, input)
XXH32_digest(s)        == StreamDigest(4, 32, s)
XXH64(input, seed)     == OneGo(8, 0, input, seed)
XXH64_update(s, input) == StreamUpdate(8, 0, s, input)
XXH64_digest(s)        == StreamDigest(8, 0, s)

---------------------------------------------------------------------------
\* The switch takes the bytes like the loops.
SwitchIsLoop == \A n \in 0..15 : Unrolled32(n) = Rerolled32(n)
\* The pieces are the bytes, without gaps.
PiecesAreBytes == \A n \in 0..31 : FlattenSeq(Finalize([k \in 1..n |-> k], Pieces64(n))) = [k \in 1..n |-> k]

\* Streams of distinct bytes, in three updates, hash like their bytes in one go, and so
\* does every start of a stream; also when the total has wrapped.
StreamsLikeOneGo(Hash(_, _), Update(_, _), Final(_), lens) ==
  \A n \in lens : LET input == [k \in 1..n |-> k] IN
    \A b \in {b \in lens : b <= n} : \A a \in {a \in lens : a <= b} :
      LET s == Update(StreamReset(0), Part(input, 0, a))
          t == Update(s, Part(input, a, b - a))
          u == Update(t, Part(input, b, n - b))
      IN  Final(t) = Hash(Part(input, 0, b), 0) /\ Final(u) = Hash(input, 0)

Streams32(lens) == StreamsLikeOneGo(XXH32, XXH32_update, XXH32_digest, lens)
Streams64(lens) == StreamsLikeOneGo(XXH64, XXH64_update, XXH64_digest, lens)

===========================================================================
