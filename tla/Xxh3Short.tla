----------------------------- MODULE Xxh3Short ----------------------------
(***************************************************************************)
(* XXH3 of inputs that are too short for stripes, and the secrets that are *)
(* made from seeds of any length.  What matters here is which bytes of the *)
(* input meet which bytes of the secret: sizes are those of the code, and  *)
(* what is computed of them is left out but for where it has two forms.    *)
(***************************************************************************)
EXTENDS Integers, Sequences, SequencesExt, Words

SECRET_SIZE_MIN     == 136
SECRET_SIZE         == 192     \* XXH_SECRET_DEFAULT_SIZE
MIDSIZE_MAX         == 240
MIDSIZE_STARTOFFSET == 3
MIDSIZE_LASTOFFSET  == 17

Bytes(p, n) == p..p+n-1
Read(in, sec) == [in |-> in, sec |-> sec]

---------------------------------------------------------------------------
(* Up to 16 bytes: what is read at once, of the input and of the secret.   *)

Len1to3(n, sec) == <<Read({0, n \div 2, n - 1}, sec)>>
Len4to8(n, sec) == <<Read(Bytes(0, 4) \cup Bytes(n - 4, 4), sec)>>

len_1to3_64b(n)  == Len1to3(n, Bytes(0, 8))
len_4to8_64b(n)  == Len4to8(n, Bytes(8, 16))
len_1to3_128b(n) == Len1to3(n, Bytes(0, 16))
len_4to8_128b(n) == Len4to8(n, Bytes(16, 16))

\* The halves of 9 to 16 bytes have a part of the secret each for 64 bits, and are
\* mixed with one another before they meet the secret for 128.
len_9to16_64b(n)  == <<Read(Bytes(0, 8), Bytes(24, 16)), Read(Bytes(n - 8, 8), Bytes(40, 16))>>
len_9to16_128b(n) == <<Read(Bytes(0, 8) \cup Bytes(n - 8, 8), Bytes(32, 16)),
                       Read(Bytes(n - 8, 8), Bytes(48, 16))>>

len_0to16_64b(n) ==
  CASE n > 8 -> len_9to16_64b(n)
    [] n \in 4..8 -> len_4to8_64b(n)
    [] n \in 1..3 -> len_1to3_64b(n)
    [] n = 0 -> <<Read({}, Bytes(56, 16))>>
len_0to16_128b(n) ==
  CASE n > 8 -> len_9to16_128b(n)
    [] n \in 4..8 -> len_4to8_128b(n)
    [] n \in 1..3 -> len_1to3_128b(n)
    [] n = 0 -> <<Read({}, Bytes(64, 32))>>

---------------------------------------------------------------------------
(* Up to 240 bytes, mixed 16 at a time.                                    *)

mix16B(p, s) == <<Read(Bytes(p, 16), Bytes(s, 16))>>
\* XXH128_mix32B(): two of them that lie anywhere.
mix32B(p, q, s) == mix16B(p, s) \o mix16B(q, s + 16)

When(c, seq) == IF c THEN seq ELSE <<>>

len_17to128_64b(n) ==
     When(n > 96, mix16B(48, 96) \o mix16B(n - 64, 112))
  \o When(n > 64, mix16B(32, 64) \o mix16B(n - 48, 80))
  \o When(n > 32, mix16B(16, 32) \o mix16B(n - 32, 48))
  \o mix16B(0, 0) \o mix16B(n - 16, 16)

len_17to128_128b(n) ==
     When(n > 96, mix32B(48, n - 64, 96))
  \o When(n > 64, mix32B(32, n - 48, 64))
  \o When(n > 32, mix32B(16, n - 32, 32))
  \o mix32B(0, n - 16, 0)

\* The rounds from lo to hi - 1.
RoundsOf(lo, hi, r(_)) == FlattenSeq([k \in 1..hi-lo |-> r(lo + k - 1)])

len_129to240_64b(n) ==
  LET first(i) == mix16B(16 * i, 16 * i)
      more(i)  == mix16B(16 * i, 16 * (i - 8) + MIDSIZE_STARTOFFSET)
  IN  RoundsOf(0, 8, first) \o RoundsOf(8, n \div 16, more)
        \o mix16B(n - 16, SECRET_SIZE_MIN - MIDSIZE_LASTOFFSET)

len_129to240_128b(n) ==
  LET first(i) == mix32B(32 * i, 32 * i + 16, 32 * i)
      more(i)  == mix32B(32 * i, 32 * i + 16, MIDSIZE_STARTOFFSET + 32 * (i - 4))
  IN  RoundsOf(0, 4, first) \o RoundsOf(4, n \div 32, more)
        \o mix32B(n - 16, n - 32, SECRET_SIZE_MIN - MIDSIZE_LASTOFFSET - 16)

Reads64(n)  == IF n <= 16 THEN len_0to16_64b(n) ELSE IF n <= 128 THEN len_17to128_64b(n)
               ELSE len_129to240_64b(n)
Reads128(n) == IF n <= 16 THEN len_0to16_128b(n) ELSE IF n <= 128 THEN len_17to128_128b(n)
               ELSE len_129to240_128b(n)

---------------------------------------------------------------------------
(* XXH3_generateSecret().                                                  *)

\* The seed's bytes, as many as there is room for; what there is is doubled until it is
\* full.
Doubled(seeds, room) ==
  FoldLeft(LAMBDA s, k : s \o SubSeq(s, 1, IF Len(s) < room - Len(s) THEN Len(s) ELSE room - Len(s)),
           SubSeq(seeds, 1, IF Len(seeds) < room THEN Len(seeds) ELSE room),
           [k \in 1..room |-> k])

\* The secret's segments of 16 bytes: the hash of the seed, or of that hash with eight
\* bytes of the seed, as a number, plus that of the segment, for a seed.  They are added up in the code.
generateSecret(customSeed) ==
  LET seeds == Doubled(customSeed, 96)
  IN  IF customSeed = <<>> THEN <<"kSecret">>
      ELSE [n \in 1..SECRET_SIZE \div 16 |->
              IF n = 1 THEN [of |-> customSeed, seed |-> <<>>]
              ELSE [of |-> <<"scrambler">>, seed |-> Append(SubSeq(seeds, 8 * n - 7, 8 * n), n - 1)]]

---------------------------------------------------------------------------
\* Every byte of an input is read, none outside of it, and none outside of the shortest
\* secret there may be.
AllBytesRead(Reads(_)) ==
  \A n \in 0..MIDSIZE_MAX :
    LET r == Reads(n)
    IN  /\ UNION {r[k].in : k \in DOMAIN r} = Bytes(0, n)
        /\ UNION {r[k].sec : k \in DOMAIN r} \subseteq Bytes(0, SECRET_SIZE_MIN)

\* Up to 128 bytes no two reads share a byte of the secret; above, no byte of the input
\* meets the same byte of the secret twice in the same place.
SecretOnce(Reads(_)) ==
  /\ \A n \in 17..128 : LET r == Reads(n) IN
       \A j, k \in DOMAIN r : j # k => r[j].sec \cap r[k].sec = {}
  /\ \A n \in 129..MIDSIZE_MAX : LET r == Reads(n) IN
       \A j, k \in DOMAIN r : j # k => r[j] # r[k]

\* The two ways to add what is in the upper word agree (XXH3_len_9to16_128b()).
UpperWordExact == \A x \in Word : \A p \in 1..15 :
  Plus(16 * High(x), Low(x) * p) = Plus(x, Low(x) * (p - 1))

\* Seeds are repeated from their start, none of their bytes is skipped, and each of the
\* twelve segments but the first has eight of them.
SeedsRepeat(sizes) ==
  \A n \in sizes :
    /\ Doubled([k \in 1..n |-> k], 96) = [k \in 1..96 |-> ((k - 1) % n) + 1]
    /\ LET s == generateSecret([k \in 1..n |-> k])
       IN  Len(s) = 12 /\ \A j \in 2..12 : Len(s[j].seed) = 9

===========================================================================
