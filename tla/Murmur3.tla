------------------------------ MODULE Murmur3 -----------------------------
(***************************************************************************)
(* MurmurHash3_x64_128(), of which metarap and hashl have a copy each, and *)
(* what they print of it.  Words are those of Words, a word has two bytes  *)
(* here and not eight, and a byte has four bits.                           *)
(***************************************************************************)
EXTENDS Integers, Sequences, SequencesExt, Words

\* The constants are as odd as the code's, and rotations leave nothing in its place.
c1 == 213
c2 == 107
W  == 2      \* bytes in a word

fmix64(k0) ==
  LET k1 == k0 ^^ Shr(k0, 5)
      k2 == Times(k1, 205)
      k3 == k2 ^^ Shr(k2, 5)
      k4 == Times(k3, 83)
  IN  k4 ^^ Shr(k4, 5)

Mix1(k) == Times(Rotl(Times(k, c1), 3), c2)
Mix2(k) == Times(Rotl(Times(k, c2), 5), c1)

\* The word at byte p of key.
Load(key, p) == Join(key[p], key[p + 1])

\* One block of two words, the one at byte p.
Block(h, key, p) ==
  LET h1 == Plus(Times(Plus(Rotl(h[1] ^^ Mix1(Load(key, p)), 2), h[2]), 5), 41)
      h2 == Plus(Times(Plus(Rotl(h[2] ^^ Mix2(Load(key, p + W)), 3), h1), 5), 181)
  IN  <<h1, h2>>

Body(key) == FoldLeft(LAMBDA h, i : Block(h, key, 2 * W * (i - 1) + 1), <<0, 0>>,
                      [i \in 1..Len(key) \div (2 * W) |-> i])

\* switch (len & 15): each case falls through to the bytes before its own.
Tail3(h, tail) ==
  LET n   == Len(tail)
      At(i) == IF i <= n THEN tail[i] ELSE 0
      k2  == At(3)
      k1  == Join(At(1), At(2))
  IN  <<IF n > 0 THEN h[1] ^^ Mix1(k1) ELSE h[1], IF n > W THEN h[2] ^^ Mix2(k2) ELSE h[2]>>

Finish3(h, len) ==
  LET a == Plus(h[1] ^^ len, h[2] ^^ len)
      b == Plus(h[2] ^^ len, a)
      c == Plus(fmix64(a), fmix64(b))
  IN  <<c, Plus(fmix64(b), c)>>

MurmurHash3(key) ==
  LET n == Len(key) - (Len(key) % (2 * W))
  IN  Finish3(Tail3(Body(key), SubSeq(key, n + 1, Len(key))), Len(key))

\* No byte is left out: one that is another makes another hash, of any text.
EveryByteCounts(keys) ==
  \A key \in keys : \A i \in DOMAIN key : \A b \in Half \ {key[i]} :
    MurmurHash3([key EXCEPT ![i] = b]) # MurmurHash3(key)

\* Nor does it matter that the copies read a text's last block differently from the
\* others: it is hashed as if it were filled up with zeros.
TailIsPadded(keys) ==
  \A key \in keys : LET t == SubSeq(key, 1, Len(key) % (2 * W))
                        z == t \o [k \in 1..2 * W - Len(t) |-> 0]
                    IN  Tail3(<<7, 9>>, t) = <<7 ^^ Mix1(Load(z, 1)), 9 ^^ Mix2(Load(z, 1 + W))>>

---------------------------------------------------------------------------
(* Hexadecimal digits, of bytes of eight bits.                             *)

c2h(c) == IF c < 10 THEN c ^^ 48 ELSE c + 87

\* mmh3() of metarap: as many bytes as there is room for, the low digit of each
\* first.
mmh3(bytes, tsz) ==
  LET n == Max({m \in 0..Len(bytes) : m = 0 \/ 2 * (m - 1) + 1 < tsz})
  IN  [k \in 1..2 * n |->
         LET b == bytes[(k + 1) \div 2] IN c2h(IF k % 2 = 1 THEN b % 16 ELSE b \div 16)]

\* The name of a resource has the whole hash: 80 characters of which 34 are taken.
WholeHash == \A a \in 0..255 : mmh3([k \in 1..16 |-> a], 80 - 34) \in [1..32 -> (48..57) \cup (97..102)]
\* Two bytes never look the same.
DigitsTellBytes == \A a, b \in 0..255 : mmh3(<<a>>, 2) = mmh3(<<b>>, 2) => a = b

\* hashl.c has the same text again.
HashlHash(key) == MurmurHash3(key)

\* fold1() of hashl: the hashes of the lines, each without the newline that getline()
\* leaves at its end; Newline is a byte that no line has elsewhere.
Fold1(lines, Newline) ==
  LET bare(l) == IF l[Len(l)] = Newline THEN SubSeq(l, 1, Len(l) - 1) ELSE l
  IN  [k \in DOMAIN lines |-> HashlHash(bare(lines[k]))]

\* main() of hashl: FILEs that can't be opened, those of which lines has no entry, are
\* skipped.
HashlMain(files, lines, Newline) ==
  LET there == SelectSeq(files, LAMBDA f : f \in DOMAIN lines)
  IN  [rc  |-> IF Len(there) = Len(files) THEN 0 ELSE 1,
       out |-> FlattenSeq([k \in DOMAIN there |-> Fold1(lines[there[k]], Newline)])]

\* A file whose last line has no newline hashes like one whose last line does.
LastNewline(keys) ==
  \A key \in keys : key # <<>> /\ ~Contains(key, 15) =>
    HashlMain(<<"f", "g", "h">>, ("f" :> <<key, Append(key, 15)>>) @@ ("h" :> <<key>>), 15)
      = [rc |-> 1, out |-> <<MurmurHash3(key), MurmurHash3(key), MurmurHash3(key)>>]

===========================================================================
