----------------------------- MODULE Xxh3Lanes ----------------------------
(***************************************************************************)
(* The inner loops of XXH3: one stripe of input into the accumulators, the *)
(* scrambling of the accumulators and the secret made from a seed.  The    *)
(* library has a scalar version and one for each kind of vector unit; all  *)
(* of them are here, to be compared.                                       *)
(*                                                                         *)
(* A lane is a 64-bit word as Words has it.  There are eight accumulators, *)
(* and a stripe has eight lanes; in memory a lane is two bytes of four     *)
(* bits, the low one first.                                                *)
(***************************************************************************)
EXTENDS Integers, Sequences, SequencesExt, Words

LaneBytes == 2
AccNb     == 8
StripeLen == AccNb * LaneBytes

PRIME32_1 == 11

\* XXH_readLE64() of the bytes at offset p, counted from 0, and of a whole array.
ReadLE64(bytes, p) == Join(bytes[p + 1], bytes[p + 2])
Lanes(bytes)  == [i \in 1..Len(bytes) \div LaneBytes |-> ReadLE64(bytes, LaneBytes * (i - 1))]
\* XXH_writeLE64().
Bytes(lanes)  == [k \in 1..LaneBytes * Len(lanes) |->
                    LET w == lanes[(k + 1) \div LaneBytes] IN IF k % 2 = 1 THEN Low(w) ELSE High(w)]
Window(bytes, p, n) == SubSeq(bytes, p + 1, p + n)

xorshift(x, n) == x ^^ Shr(x, n)

---------------------------------------------------------------------------
(* Scalar.                                                                 *)

\* The other lane of a pair: i ^ 1, counted from 0.
Pair(i) == IF i % 2 = 1 THEN i + 1 ELSE i - 1

accumulate_512_scalar(acc, input, secret) ==
  LET val == Lanes(input)
      key == Lanes(secret)
      mul(i) == LET k == val[i] ^^ key[i] IN Low(k) * High(k)
  IN  [i \in 1..AccNb |-> Plus(Plus(acc[i], val[Pair(i)]), mul(i))]

scrambleAcc_scalar(acc, secret) ==
  LET key == Lanes(secret)
  IN  [i \in 1..AccNb |-> Times(xorshift(acc[i], 6) ^^ key[i], PRIME32_1)]

\* The lanes of the default secret k are added and subtracted the seed in turn.
initCustomSecret_scalar(k, seed) ==
  LET key == Lanes(k)
  IN  Bytes([i \in DOMAIN key |-> IF i % 2 = 1 THEN Plus(key[i], seed) ELSE Minus(key[i], seed)])

---------------------------------------------------------------------------
(* Vectors are sequences of lanes.  Intel's instructions shuffle 32-bit    *)
(* elements within 128 bits, that is, within two lanes.                    *)

Element(v, block, e) == IF e % 2 = 0 THEN Low(v[2 * block + e \div 2 + 1])
                                     ELSE High(v[2 * block + e \div 2 + 1])
\* _MM_SHUFFLE(d, c, b, a): a chooses the lowest element.
shuffle_epi32(v, d, c, b, a) ==
  [i \in DOMAIN v |-> LET k == (i - 1) \div 2
                      IN  IF i % 2 = 1 THEN Join(Element(v, k, a), Element(v, k, b))
                                       ELSE Join(Element(v, k, c), Element(v, k, d))]
mul_epu32(v, w)  == [i \in DOMAIN v |-> Low(v[i]) * Low(w[i])]
add_epi64(v, w)  == [i \in DOMAIN v |-> Plus(v[i], w[i])]
xor_si(v, w)     == [i \in DOMAIN v |-> v[i] ^^ w[i]]
srli_epi64(v, n) == [i \in DOMAIN v |-> Shr(v[i], n)]
slli_epi64(v, n) == [i \in DOMAIN v |-> Shl(v[i], n)]
set1(n, x)       == [i \in 1..n |-> x]

\* A loop over vectors of n lanes; op gets the i-th one of each array.
Vectors(n, s, op(_)) == FlattenSeq([i \in 1..Len(s) \div n |-> op((i - 1) * n)])
Vector(n, s, at) == SubSeq(s, at + 1, at + n)

X86Accumulate(n, acc, input, secret) ==
  LET step(at) ==
        LET data     == Vector(n, Lanes(input), at)
            data_key == xor_si(data, Vector(n, Lanes(secret), at))
            product  == mul_epu32(data_key, shuffle_epi32(data_key, 0, 3, 0, 1))
            sum      == add_epi64(Vector(n, acc, at), shuffle_epi32(data, 1, 0, 3, 2))
        IN  add_epi64(product, sum)
  IN  Vectors(n, acc, step)

X86Scramble(n, acc, secret) ==
  LET prime32 == set1(n, Join(PRIME32_1, PRIME32_1))
      step(at) ==
        LET a           == Vector(n, acc, at)
            data_key    == xor_si(xor_si(a, srli_epi64(a, 6)), Vector(n, Lanes(secret), at))
            data_key_hi == shuffle_epi32(data_key, 0, 3, 0, 1)
        IN  add_epi64(mul_epu32(data_key, prime32),
                      slli_epi64(mul_epu32(data_key_hi, prime32), 4))
  IN  Vectors(n, acc, step)

\* seeds: the vector that is added to each of the secret's.
X86Secret(k, seeds) ==
  LET n == Len(seeds)
      step(at) == add_epi64(Vector(n, Lanes(k), at), seeds)
  IN  Bytes(Vectors(n, Lanes(k), step))

Neg(x) == Minus(0, x)

accumulate_512_avx512(acc, input, secret) == X86Accumulate(8, acc, input, secret)
scrambleAcc_avx512(acc, secret) == X86Scramble(8, acc, secret)
\* _mm512_mask_set1_epi64(): the mask 0xAA has the odd ones of the lanes from 0 to 7.
initCustomSecret_avx512(k, seed) ==
  X86Secret(k, [i \in 1..8 |-> IF Bit(170, i - 1) = 1 THEN Neg(seed) ELSE seed])

accumulate_512_avx2(acc, input, secret) == X86Accumulate(4, acc, input, secret)
scrambleAcc_avx2(acc, secret) == X86Scramble(4, acc, secret)
initCustomSecret_avx2(k, seed) == X86Secret(k, <<seed, Neg(seed), seed, Neg(seed)>>)

\* SSE2 is the half-scale version of AVX2.
accumulate_512_sse2(acc, input, secret) == X86Accumulate(2, acc, input, secret)
scrambleAcc_sse2(acc, secret) == X86Scramble(2, acc, secret)
initCustomSecret_sse2(k, seed) == X86Secret(k, <<seed, Neg(seed)>>)

---------------------------------------------------------------------------
(* NEON: vectors of two lanes that are split into their low and their high *)
(* halves, by moving and narrowing (aarch64) or by vzip.32, which trades   *)
(* elements between the two 64-bit registers of the vector (ARMv7).        *)

SplitMoved(v)  == [lo |-> <<Low(v[1]), Low(v[2])>>, hi |-> <<High(v[1]), High(v[2])>>]
\* d0 = {e0, e1}, d1 = {e2, e3} become {e0, e2} and {e1, e3}.
SplitZipped(v) == LET d0 == <<Low(v[1]), High(v[1])>>
                      d1 == <<Low(v[2]), High(v[2])>>
                  IN  [lo |-> <<d0[1], d1[1]>>, hi |-> <<d0[2], d1[2]>>]
XXH_SPLIT_IN_PLACE(arm7, v) == IF arm7 THEN SplitZipped(v) ELSE SplitMoved(v)
vextq(v)         == <<v[2], v[1]>>
vmlal(v, a, b)   == [i \in DOMAIN v |-> Plus(v[i], a[i] * b[i])]

accumulate_512_neon(arm7, acc, input, secret) ==
  LET step(at) ==
        LET data == Vector(2, Lanes(input), at)
            s    == XXH_SPLIT_IN_PLACE(arm7, xor_si(data, Vector(2, Lanes(secret), at)))
        IN  vmlal(add_epi64(Vector(2, acc, at), vextq(data)), s.lo, s.hi)
  IN  Vectors(2, acc, step)

scrambleAcc_neon(arm7, acc, secret) ==
  LET prime == set1(2, PRIME32_1)
      step(at) ==
        LET a == Vector(2, acc, at)
            s == XXH_SPLIT_IN_PLACE(arm7, xor_si(xor_si(a, srli_epi64(a, 6)), Vector(2, Lanes(secret), at)))
            prod_hi == vmlal(<<0, 0>>, s.hi, prime)
        IN  vmlal(slli_epi64(prod_hi, 4), s.lo, prime)
  IN  Vectors(2, acc, step)

---------------------------------------------------------------------------
(* VSX: what is loaded from memory has its bytes in the order of the       *)
(* machine; on a big endian one they are turned round.  The instructions   *)
(* vmulouw and vmuleuw count elements from the high end on either.         *)

Reversed(w) == Join(High(w), Low(w))
vec_loadu(be, lane) == LET raw == IF be THEN Reversed(lane) ELSE lane
                       IN  IF be THEN Reversed(raw) ELSE raw
vec_mulo(v, w) == [i \in DOMAIN v |-> Low(v[i]) * Low(w[i])]
vec_mule(v, w) == [i \in DOMAIN v |-> High(v[i]) * High(w[i])]
vec_rl(v, n)   == [i \in DOMAIN v |-> Rotl(v[i], n)]
Loaded(be, bytes, at) ==
  LET v == Vector(2, Lanes(bytes), at) IN [i \in DOMAIN v |-> vec_loadu(be, v[i])]

accumulate_512_vsx(be, acc, input, secret) ==
  LET step(at) ==
        LET data     == Loaded(be, input, at)
            data_key == xor_si(data, Loaded(be, secret, at))
            product  == vec_mulo(data_key, vec_rl(data_key, 4))
        IN  add_epi64(add_epi64(Vector(2, acc, at), product), vextq(data))
  IN  Vectors(2, acc, step)

scrambleAcc_vsx(be, acc, secret) ==
  LET prime == set1(2, Join(PRIME32_1, PRIME32_1))
      step(at) ==
        LET a        == Vector(2, acc, at)
            data_key == xor_si(xor_si(a, srli_epi64(a, 6)), Loaded(be, secret, at))
        IN  add_epi64(vec_mulo(data_key, prime), slli_epi64(vec_mule(data_key, prime), 4))
  IN  Vectors(2, acc, step)

---------------------------------------------------------------------------
\* Every unit computes what the scalar code does, whatever the stripe.
UnitsAgree(accs, stripes, seeds) ==
  /\ \A acc \in accs, in \in stripes, sec \in stripes :
       LET a == accumulate_512_scalar(acc, in, sec)
           s == scrambleAcc_scalar(acc, sec)
       IN  /\ accumulate_512_avx512(acc, in, sec) = a /\ scrambleAcc_avx512(acc, sec) = s
           /\ accumulate_512_avx2(acc, in, sec) = a   /\ scrambleAcc_avx2(acc, sec) = s
           /\ accumulate_512_sse2(acc, in, sec) = a   /\ scrambleAcc_sse2(acc, sec) = s
           /\ \A arm7 \in BOOLEAN : /\ accumulate_512_neon(arm7, acc, in, sec) = a
                                    /\ scrambleAcc_neon(arm7, acc, sec) = s
           /\ \A be \in BOOLEAN : /\ accumulate_512_vsx(be, acc, in, sec) = a
                                  /\ scrambleAcc_vsx(be, acc, sec) = s
  /\ \A k \in stripes, seed \in seeds :
       LET c == initCustomSecret_scalar(k, seed)
       IN  /\ initCustomSecret_avx512(k, seed) = c
           /\ initCustomSecret_avx2(k, seed) = c
           /\ initCustomSecret_sse2(k, seed) = c

===========================================================================
