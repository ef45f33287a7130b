-------------------------------- MODULE Xxh3 ------------------------------
(***************************************************************************)
(* XXH3: hashes of inputs that are long enough for stripes, in one go and  *)
(* by the streaming functions, whose state is a record here.  Sizes are    *)
(* scaled down with the bytes (Xxh3Lanes): a stripe has 16 bytes, the      *)
(* default secret 32, so that there are four stripes to a block.           *)
(***************************************************************************)
EXTENDS Xxh3Lanes

ConsumeRate  == 4                 \* XXH_SECRET_CONSUME_RATE
SecretSize   == 32                \* XXH_SECRET_DEFAULT_SIZE
SecretMin    == 24                \* XXH3_SECRET_SIZE_MIN
BufferSize   == 2 * StripeLen     \* XXH3_INTERNALBUFFER_SIZE
MidsizeMax   == 24                \* XXH3_MIDSIZE_MAX
LastaccStart == 1                 \* XXH_SECRET_LASTACC_START
MergeStart   == 3                 \* XXH_SECRET_MERGEACCS_START

PRIME64_1 == 135
PRIME64_2 == 79
InitAcc == <<61, PRIME64_1, PRIME64_2, 249, 99, 119, 197, 177>>

\* XXH3_kSecret: bytes with no pattern.
kSecret == [i \in 1..SecretSize |-> (i * i * 3 + 7 * i + 5 * (i \div 4)) % 16]

initCustomSecret(seed) == initCustomSecret_scalar(kSecret, seed)
\* Seed 0 is that of the default secret.
SecretFor(seed) == IF seed = 0 THEN kSecret ELSE initCustomSecret(seed)

---------------------------------------------------------------------------
(* Arithmetic on the way out.                                              *)

\* XXH_mult64to128(): by halves, as where there is no wider integer.
mult64to128(x, y) ==
  LET lo_lo == Low(x) * Low(y)   hi_lo == High(x) * Low(y)
      lo_hi == Low(x) * High(y)  hi_hi == High(x) * High(y)
      cross == High(lo_lo) + Low(hi_lo) + lo_hi
      upper == High(hi_lo) + High(cross) + hi_hi
  IN  [low |-> Plus(Shl(cross, 4), Low(lo_lo)), high |-> upper]

mul128_fold64(x, y) == LET p == mult64to128(x, y) IN p.low ^^ p.high

avalanche(h) == xorshift(Times(xorshift(h, 5), 249), 4)

mix2Accs(acc, i, secret, p) ==
  mul128_fold64(acc[i] ^^ ReadLE64(secret, p), acc[i + 1] ^^ ReadLE64(secret, p + LaneBytes))

mergeAccs(acc, secret, p, start) ==
  avalanche(FoldLeft(LAMBDA r, i : Plus(r, mix2Accs(acc, 2 * i + 1, secret, p + 2 * LaneBytes * i)),
                     start, <<0, 1, 2, 3>>))

\* The two halves of the 128-bit hash; the 64-bit one is the first.
Merged(acc, secret, len) ==
  [low64  |-> mergeAccs(acc, secret, MergeStart, Times(len % 256, PRIME64_1)),
   high64 |-> mergeAccs(acc, secret, Len(secret) - StripeLen - MergeStart,
                        255 - Times(len % 256, PRIME64_2))]

---------------------------------------------------------------------------
(* One go.                                                                 *)

\* XXH3_accumulate(): n stripes of the input from p on, with the secret from s on.
accumulate(acc, input, p, secret, s, n) ==
  LET upto[k \in 0..n] ==
        IF k = 0 THEN acc
        ELSE accumulate_512_scalar(upto[k-1], Window(input, p + (k - 1) * StripeLen, StripeLen),
                                 Window(secret, s + (k - 1) * ConsumeRate, StripeLen))
  IN  upto[n]

\* The loop of XXH3_hashLong_internal_loop(): n whole blocks, scrambled after each.
blocks(acc, input, secret, n) ==
  LET limit    == Len(secret) - StripeLen
      perBlock == limit \div ConsumeRate
      upto[k \in 0..n] ==
        IF k = 0 THEN acc
        ELSE scrambleAcc_scalar(
               accumulate(upto[k-1], input, (k - 1) * StripeLen * perBlock, secret, 0, perBlock),
               Window(secret, limit, StripeLen))
  IN  upto[n]

\* XXH3_hashLong_internal_loop().
hashLong_internal_loop(acc, input, secret) ==
  LET len == Len(input)
      limit     == Len(secret) - StripeLen
      perBlock  == limit \div ConsumeRate
      block_len == StripeLen * perBlock
      nb_blocks == (len - 1) \div block_len
      nbStripes == (len - 1 - block_len * nb_blocks) \div StripeLen
      last == accumulate(blocks(acc, input, secret, nb_blocks), input, nb_blocks * block_len, secret, 0, nbStripes)
  IN  accumulate_512_scalar(last, Window(input, len - StripeLen, StripeLen),
                          Window(secret, limit - LastaccStart, StripeLen))

hashLong_128b(input, secret) ==
  Merged(hashLong_internal_loop(InitAcc, input, secret), secret, Len(input))
hashLong_128b_withSeed(input, seed) == hashLong_128b(input, SecretFor(seed))

\* Inputs of at most MidsizeMax bytes have functions of their own (Xxh3Short), of the
\* input, the secret and the seed.
Short128(input, secret, seed) == [low64  |-> <<"low", input, secret, seed>>,
                                  high64 |-> <<"high", input, secret, seed>>]
withSecret128(input, secret) ==
  IF Len(input) <= MidsizeMax THEN Short128(input, secret, 0) ELSE hashLong_128b(input, secret)
withSeed128(input, seed) ==
  IF Len(input) <= MidsizeMax THEN Short128(input, kSecret, seed) ELSE hashLong_128b_withSeed(input, seed)

\* The hash of 64 bits is the low half alone, but for short inputs.
hashLong_64b(input, secret) == hashLong_128b(input, secret).low64
hashLong_64b_withSeed(input, seed) == hashLong_64b(input, SecretFor(seed))

Short64(input, secret, seed) == <<"64 bits", input, secret, seed>>
withSecret64(input, secret) ==
  IF Len(input) <= MidsizeMax THEN Short64(input, secret, 0) ELSE hashLong_64b(input, secret)
withSeed64(input, seed) ==
  IF Len(input) <= MidsizeMax THEN Short64(input, kSecret, seed) ELSE hashLong_64b_withSeed(input, seed)

---------------------------------------------------------------------------
(* Streaming.  bad is no part of the state: it is whether an assertion of  *)
(* the library has failed, or something was copied past the buffer's end.  *)

\* XXH3_reset_internal(); ext is a set with the external secret, or none, of size
\* bytes.
reset_internal(st, seed, ext, size) ==
  [st EXCEPT !.acc = InitAcc, !.bufferedSize = 0, !.nbStripesSoFar = 0, !.totalLen = 0,
             !.seed = seed, !.extSecret = ext, !.secretLimit = size - StripeLen,
             !.nbStripesPerBlock = (size - StripeLen) \div ConsumeRate,
             !.bad = (size < SecretMin)]

reset(st) == reset_internal(st, 0, {kSecret}, SecretSize)
reset_withSecret(st, secret) == reset_internal(st, 0, {secret}, Len(secret))

\* Mutant: the seed of the state before is not looked at.
reset_withSeedKept(st, seed) ==
  IF seed = 0 THEN reset(st)
  ELSE LET new == IF st.seed # 0 THEN st ELSE [st EXCEPT !.customSecret = initCustomSecret(seed)]
       IN  reset_internal(new, seed, {}, SecretSize)

\* XXH3_128bits_reset_withSeed(): the secret of the same seed is not made again.
reset_withSeed(st, seed) ==
  IF seed = 0 THEN reset(st)
  ELSE LET new == IF st.seed = seed THEN st
                  ELSE [st EXCEPT !.customSecret = initCustomSecret(seed)]
       IN  reset_internal(new, seed, {}, SecretSize)

SecretOf(st) == IF st.extSecret = {} THEN st.customSecret
                ELSE CHOOSE s \in st.extSecret : TRUE

\* XXH3_consumeStripes(): n stripes of the input from p on.
consumeStripes(st, input, p, n) ==
  LET secret == SecretOf(st)
      start  == st.nbStripesSoFar * ConsumeRate
      toEnd  == st.nbStripesPerBlock - st.nbStripesSoFar
      after  == n - toEnd
      block  == scrambleAcc_scalar(accumulate(st.acc, input, p, secret, start, toEnd),
                                 Window(secret, st.secretLimit, StripeLen))
      failed == st.bad \/ n > st.nbStripesPerBlock \/ st.nbStripesSoFar >= st.nbStripesPerBlock
  IN  IF toEnd <= n
        THEN [st EXCEPT !.acc = accumulate(block, input, p + toEnd * StripeLen, secret, 0, after),
                        !.nbStripesSoFar = after, !.bad = failed]
        ELSE [st EXCEPT !.acc = accumulate(@, input, p, secret, start, n),
                        !.nbStripesSoFar = @ + n, !.bad = failed]

\* What is copied into the buffer at p.
Buffered(st, p, bytes) ==
  [st EXCEPT !.buffer = [k \in DOMAIN @ |->
                           IF k \in p+1..p+Len(bytes) THEN bytes[k - p] ELSE @[k]],
             !.bad = @ \/ p + Len(bytes) > BufferSize]

\* The buffer, filled up with the first bytes of the input, and consumed.
Filled(st, input) ==
  LET more == BufferSize - st.bufferedSize
      full == Buffered(st, st.bufferedSize, Window(input, 0, more))
  IN  IF st.bufferedSize = 0 THEN st
      ELSE [consumeStripes(full, full.buffer, 0, BufferSize \div StripeLen) EXCEPT !.bufferedSize = 0]

\* The first n whole buffers of the input from p on.
Buffers(st, input, p, n) ==
  LET upto[k \in 0..n] ==
        IF k = 0 THEN st
        ELSE consumeStripes(upto[k-1], input, p + (k - 1) * BufferSize, BufferSize \div StripeLen)
  IN  upto[n]

\* As many of them as leave something behind them: the last of their stripes goes to
\* where the digest looks for it.
Bulk(st, input, p) ==
  LET n == Max({0, (Len(input) - p - 1) \div BufferSize})
      q == p + n * BufferSize
  IN  IF n = 0 THEN st
      ELSE Buffered(Buffers(st, input, p, n), BufferSize - StripeLen,
                    Window(input, q - StripeLen, StripeLen))

\* XXH3_update(): what fits behind what is buffered is copied there; if not, all is
\* consumed but what is left behind the whole buffers, which is not nothing.
Appended(st, input) ==
  [Buffered(st, st.bufferedSize, input) EXCEPT !.bufferedSize = @ + Len(input)]
Consumed(st, input) ==
  LET p    == IF st.bufferedSize = 0 THEN 0 ELSE BufferSize - st.bufferedSize
      bulk == Bulk(Filled(st, input), input, p)
      q    == p + BufferSize * Max({0, (Len(input) - p - 1) \div BufferSize})
      rest == Window(input, q, Len(input) - q)
  IN  [Buffered(bulk, 0, rest) EXCEPT !.bufferedSize = Len(rest), !.bad = @ \/ rest = <<>>]

update(st0, input) ==
  LET st == [st0 EXCEPT !.totalLen = @ + Len(input), !.bad = @ \/ st0.bufferedSize > BufferSize]
  IN  IF st.bufferedSize + Len(input) <= BufferSize THEN Appended(st, input) ELSE Consumed(st, input)

\* XXH3_digest_long(): the accumulators with what is buffered, on a copy.
digest_long(st) ==
  LET n    == (st.bufferedSize - 1) \div StripeLen
      b    == st.bufferedSize
      most == consumeStripes(st, st.buffer, 0, n).acc
      old  == StripeLen - b
      last == IF b >= StripeLen THEN Window(st.buffer, b - StripeLen, StripeLen)
              ELSE Window(st.buffer, BufferSize - old, old) \o Window(st.buffer, 0, b)
  IN  accumulate_512_scalar(IF b >= StripeLen THEN most ELSE st.acc, last,
                          Window(SecretOf(st), st.secretLimit - LastaccStart, StripeLen))

\* XXH3_128bits_digest().
digest(st) ==
  LET secret == SubSeq(SecretOf(st), 1, st.secretLimit + StripeLen)
      short  == Window(st.buffer, 0, st.totalLen)
  IN  IF st.totalLen > MidsizeMax THEN Merged(digest_long(st), secret, st.totalLen)
      ELSE IF st.seed # 0 THEN withSeed128(short, st.seed)
      ELSE withSecret128(short, secret)

\* XXH3_64bits_digest().
digest64(st) ==
  LET secret == SubSeq(SecretOf(st), 1, st.secretLimit + StripeLen)
      short  == Window(st.buffer, 0, st.totalLen)
  IN  IF st.totalLen > MidsizeMax THEN Merged(digest_long(st), secret, st.totalLen).low64
      ELSE IF st.seed # 0 THEN withSeed64(short, st.seed)
      ELSE withSecret64(short, secret)

\* A state as it comes off the stack: nothing is known of it.
Garbage(seed) ==
  [acc |-> InitAcc, customSecret |-> [i \in 1..SecretSize |-> i % 16],
   buffer |-> [i \in 1..BufferSize |-> 15], bufferedSize |-> 7, nbStripesSoFar |-> 9,
   totalLen |-> 5, nbStripesPerBlock |-> 1, secretLimit |-> 3, seed |-> seed,
   extSecret |-> {}, bad |-> FALSE]

---------------------------------------------------------------------------
\* The product by halves is the product.
ProductExact == \A x, y \in Word : LET p == mult64to128(x, y) IN p.low + 256 * p.high = x * y

\* Streams are hashed like their bytes in one go, with any secret that is long enough,
\* cut wherever one likes into three; each state of a stream can be digested.
StreamsAgree(input, secrets, cuts) ==
  \A secret \in secrets : \A m \in cuts : \A n \in {n \in cuts : n >= m} :
    LET a == update(reset_withSecret(Garbage(1), secret), SubSeq(input, 1, m))
        b == update(a, SubSeq(input, m + 1, n))
        c == update(b, SubSeq(input, n + 1, Len(input)))
    IN  /\ ~c.bad
        /\ digest(a) = withSecret128(SubSeq(input, 1, m), secret)
        /\ digest64(a) = withSecret64(SubSeq(input, 1, m), secret)
        /\ digest(c) = withSecret128(input, secret)
        /\ digest64(c) = withSecret64(input, secret)

===========================================================================
