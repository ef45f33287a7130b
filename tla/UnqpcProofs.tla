--------------------------- MODULE UnqpcProofs ----------------------------
(***************************************************************************)
(* What holds of fold1() and kilpc() for every line: decoding in place is  *)
(* decoding, it goes on until nothing is left, and each round of it makes  *)
(* the line shorter.                                                       *)
(***************************************************************************)
EXTENDS Unqpc, SequenceTheorems, WellFoundedInduction, TLAPS

Bytes == 0..255

---------------------------------------------------------------------------
(* Decoding, from the end of a line to its front.                          *)

LEMMA LeastOf ==
  ASSUME NEW T, T \subseteq Nat, T # {}
  PROVE  \E x \in T : \A y \in T : x <= y
<1> DEFINE R == OpToRel(<, Nat)
<1>1. IsWellFoundedOn(R, Nat)
  BY NatLessThanWellFounded
<1>2. \A x, y \in Nat : (<<y, x>> \in R) <=> y < x
  BY DEF OpToRel
<1> HIDE DEF R
<1>3. \E x \in T : \A y \in T : ~ (<<y, x>> \in R)
  BY <1>1, WFMin
<1>4. PICK x \in T : \A y \in T : ~ (<<y, x>> \in R)
  BY <1>3
<1>5. \A y \in T : ~ (y < x)
  BY <1>2, <1>4, Zenon
<1> QED
  BY <1>5

\* What holds behind the last character, and at each one if it does at those after
\* it, holds at all of them.
LEMMA FromTheEnd ==
  ASSUME NEW T, NEW n \in Nat, n + 1 \in T,
         \A j \in 1..n : (\A h \in j+1..n+1 : h \in T) => j \in T
  PROVE  \A j \in 1..n+1 : j \in T
<1> DEFINE U == {d \in 0..n : (n + 1) - d \notin T}
<1> SUFFICES ASSUME U # {} PROVE FALSE
  <2>1. ASSUME NEW j \in 1..n+1, j \notin T PROVE FALSE
    <3>1. (n + 1) - j \in U
      BY <2>1
    <3> QED
      BY <3>1
  <2> QED
    BY <2>1
<1>0. U \subseteq Nat
  OBVIOUS
<1>1. PICK d \in U : \A e \in U : d <= e
  <2> HIDE DEF U
  <2> QED
    BY <1>0, LeastOf
<1>2. d \in 0..n /\ (n + 1) - d \notin T
  BY <1>1
<1>3. PICK j \in 1..n : j = (n + 1) - d /\ j \notin T
  <2>1. d # 0
    BY <1>2
  <2> QED
    BY <1>2, <2>1
<1>4. ASSUME NEW h \in j+1..n+1 PROVE h \in T
  <2> DEFINE e == (n + 1) - h
  <2>1. e \in 0..n /\ e < d /\ (n + 1) - e = h
    BY <1>2, <1>3, <1>4
  <2>2. e \notin U
    BY <1>1, <1>2, <2>1
  <2> QED
    BY <2>1, <2>2
<1> QED
  BY <1>3, <1>4

\* The reference does what it says, at each place.
LEMMA Decoding ==
  ASSUME NEW s \in Seq(Bytes)
  PROVE  \A j \in 1..Len(s)+1 :
           DecodedFrom(s)[j] =
             IF j > Len(s) THEN <<>>
             ELSE IF Decodable(s, Len(s), j) THEN <<Byte(s, j)>> \o DecodedFrom(s)[j+3]
                                             ELSE <<s[j]>> \o DecodedFrom(s)[j+1]
<1> DEFINE n == Len(s)
           step(f, j) == IF j > n THEN <<>>
                         ELSE IF Decodable(s, n, j) THEN <<Byte(s, j)>> \o f[j+3]
                                                    ELSE <<s[j]>> \o f[j+1]
           is(f, a)   == f = [j \in a..n+1 |-> step(f, j)]
           T          == {a \in 1..n+1 : \E f : is(f, a)}
<1>0. n \in Nat
  BY LenProperties
<1>1. n + 1 \in T
  <2> DEFINE f == [j \in n+1..n+1 |-> <<>>]
  <2>1. is(f, n + 1)
    BY <1>0
  <2> HIDE DEF is
  <2> QED
    BY <1>0, <2>1
<1>2. ASSUME NEW a \in 1..n, \A h \in a+1..n+1 : h \in T PROVE a \in T
  <2>0. a + 1 \in T
    <3>1. a + 1 \in a+1..n+1
      BY <1>0
    <3> HIDE DEF T
    <3> QED
      BY <1>2, <3>1
  <2>1. PICK f : is(f, a + 1)
    BY <2>0
  <2> DEFINE g == [j \in a..n+1 |-> IF j = a THEN step(f, a) ELSE f[j]]
  <2>2. \A j \in a+1..n+1 : g[j] = f[j]
    BY <1>0
  <2>3. ASSUME NEW j \in a..n+1 PROVE step(g, j) = step(f, j)
    <3>1. CASE j > n
      BY <3>1
    <3>2. CASE j <= n /\ Decodable(s, n, j)
      <4>1. j + 3 \in a+1..n+1
        BY <1>0, <3>2 DEF Decodable
      <4> HIDE DEF g
      <4> QED
        BY <2>2, <4>1
    <3>3. CASE j <= n /\ ~Decodable(s, n, j)
      <4>1. j + 1 \in a+1..n+1
        BY <1>0, <3>3
      <4> HIDE DEF g
      <4> QED
        BY <2>2, <3>3, <4>1
    <3> QED
      BY <1>0, <3>1, <3>2, <3>3
  <2>4. ASSUME NEW j \in a..n+1 PROVE g[j] = step(f, j)
    <3> HIDE DEF step
    <3>1. CASE j = a
      BY <3>1
    <3>2. CASE j # a
      <4>1. j \in a+1..n+1
        BY <1>0, <3>2
      <4> QED
        BY <2>1, <2>2, <4>1
    <3> QED
      BY <3>1, <3>2
  <2>5. is(g, a)
    <3>1. \A j \in a..n+1 : g[j] = step(g, j)
      BY <2>3, <2>4
    <3>2. g = [j \in a..n+1 |-> g[j]]
      OBVIOUS
    <3> HIDE DEF g, step
    <3> QED
      BY <3>1, <3>2
  <2> HIDE DEF is, g
  <2> QED
    BY <1>0, <2>5
<1>3. 1 \in T
  <2> HIDE DEF T
  <2> QED
    BY <1>0, <1>1, <1>2, FromTheEnd
<1>4. PICK f : is(f, 1)
  BY <1>3
<1>5. is(DecodedFrom(s), 1)
  BY <1>4 DEF DecodedFrom
<1> HIDE DEF step
<1>6. \A j \in 1..n+1 : DecodedFrom(s)[j] = step(DecodedFrom(s), j)
  BY <1>5
<1> QED
  BY <1>6 DEF step

LEMMA DecodingEnds ==
  ASSUME NEW s \in Seq(Bytes)
  PROVE  DecodedFrom(s)[Len(s) + 1] = <<>>
<1>1. Len(s) + 1 \in 1..Len(s)+1 /\ Len(s) + 1 > Len(s)
  BY LenProperties
<1> QED
  BY <1>1, Decoding, Zenon

LEMMA DecodingOne ==
  ASSUME NEW s \in Seq(Bytes), NEW j \in 1..Len(s), Decodable(s, Len(s), j)
  PROVE  DecodedFrom(s)[j] = <<Byte(s, j)>> \o DecodedFrom(s)[j + 3]
<1>1. j \in 1..Len(s)+1 /\ ~(j > Len(s))
  BY LenProperties
<1> QED
  BY <1>1, Decoding, Zenon

LEMMA DecodingNone ==
  ASSUME NEW s \in Seq(Bytes), NEW j \in 1..Len(s), ~Decodable(s, Len(s), j)
  PROVE  DecodedFrom(s)[j] = <<s[j]>> \o DecodedFrom(s)[j + 1]
<1>1. j \in 1..Len(s)+1 /\ ~(j > Len(s))
  BY LenProperties
<1> QED
  BY <1>1, Decoding, Zenon

\* The flags do not change, and neither does what a sequence is.
LEMMA SameSequences ==
  ASSUME only_printable' = only_printable
  PROVE  /\ \A s, n, j : Decodable(s, n, j)' = Decodable(s, n, j)
         /\ \A s, n, j : Sequence(s, n, j)' = Sequence(s, n, j)
  BY DEF Decodable, Sequence, High, f1st

LEMMA SameDecoded ==
  ASSUME only_printable' = only_printable
  PROVE  \A s : DecodedFrom(s)' = DecodedFrom(s)
  BY DEF Decodable, High, f1st, DecodedFrom

LEMMA HexDigits ==
  ASSUME NEW s \in Seq(Bytes), NEW n \in 0..Len(s), NEW j \in 1..Len(s),
         Decodable(s, n, j)
  PROVE  Byte(s, j) \in Bytes
<1>1. j + 1 \in 1..Len(s) /\ j + 2 \in 1..Len(s) /\ High(s[j+1]) /\ Low(s[j+2])
  BY DEF Decodable
<1>2. ASSUME NEW c \in Bytes, High(c) \/ Low(c) PROVE Hex(c) \in 0..15
  BY <1>2 DEF Bytes, High, Low, f1st, Upper, Lower, Hex
<1>3. s[j+1] \in Bytes /\ s[j+2] \in Bytes
  BY <1>1, ElementOfSeq
<1> HIDE DEF Bytes
<1>4. Hex(s[j+1]) \in 0..15 /\ Hex(s[j+2]) \in 0..15
  BY <1>1, <1>2, <1>3
<1>5. \A a, b \in 0..15 : 16 * a + b \in Bytes
  BY DEF Bytes
<1> QED
  BY <1>4, <1>5, Zenon DEF Byte

LEMMA DecodedBytes ==
  ASSUME NEW s \in Seq(Bytes)
  PROVE  \A j \in 1..Len(s)+1 : DecodedFrom(s)[j] \in Seq(Bytes)
<1> DEFINE n == Len(s)
           T == {j \in 1..n+1 : DecodedFrom(s)[j] \in Seq(Bytes)}
<1>0. n \in Nat
  BY LenProperties
<1>1. n + 1 \in T
  <2>1. DecodedFrom(s)[n + 1] \in Seq(Bytes)
    BY DecodingEnds, EmptySeq, Zenon
  <2> QED
    BY <1>0, <2>1
<1>2. ASSUME NEW j \in 1..n, \A h \in j+1..n+1 : h \in T PROVE j \in T
  <2>0. j \in 1..n+1
    BY <1>0
  <2> SUFFICES DecodedFrom(s)[j] \in Seq(Bytes)
    BY <2>0
  <2>1. CASE Decodable(s, n, j)
    <3>1. DecodedFrom(s)[j] = <<Byte(s, j)>> \o DecodedFrom(s)[j+3]
      BY <1>0, <2>1, DecodingOne
    <3>2. j + 3 \in j+1..n+1
      BY <1>0, <2>1 DEF Decodable
    <3>3. DecodedFrom(s)[j+3] \in Seq(Bytes)
      BY <1>2, <3>2
    <3>4. Byte(s, j) \in Bytes
      BY <1>0, <2>1, HexDigits
    <3>5. <<Byte(s, j)>> \in Seq(Bytes)
      BY <3>4
    <3> HIDE DEF T
    <3> QED
      BY <3>1, <3>3, <3>5, ConcatProperties
  <2>2. CASE ~Decodable(s, n, j)
    <3>1. DecodedFrom(s)[j] = <<s[j]>> \o DecodedFrom(s)[j+1]
      BY <1>0, <2>2, DecodingNone
    <3>2. j + 1 \in j+1..n+1
      BY <1>0
    <3>3. DecodedFrom(s)[j+1] \in Seq(Bytes)
      BY <1>2, <3>2
    <3>4. s[j] \in Bytes
      BY ElementOfSeq
    <3>5. <<s[j]>> \in Seq(Bytes)
      BY <3>4
    <3> HIDE DEF T
    <3> QED
      BY <3>1, <3>3, <3>5, ConcatProperties
  <2> QED
    BY <2>1, <2>2
<1> HIDE DEF T
<1>3. \A j \in 1..n+1 : j \in T
  BY <1>0, <1>1, <1>2, FromTheEnd
<1> QED
  BY <1>3 DEF T

\* The end of a line decodes on its own as it does in the line.
LEMMA SameTail ==
  ASSUME NEW s \in Seq(Bytes), NEW t \in Seq(Bytes), NEW a \in Nat,
         Len(s) = a + Len(t), \A j \in 1..Len(t) : t[j] = s[a + j]
  PROVE  \A j \in 1..Len(t)+1 : DecodedFrom(t)[j] = DecodedFrom(s)[a + j]
<1> DEFINE n == Len(t)
           T == {j \in 1..n+1 : DecodedFrom(t)[j] = DecodedFrom(s)[a + j]}
<1>0. n \in Nat /\ Len(s) = a + n
  BY LenProperties
<1>1. n + 1 \in T
  <2>1. a + (n + 1) = Len(s) + 1
    BY <1>0
  <2>2. DecodedFrom(s)[a + (n + 1)] = <<>>
    BY <2>1, DecodingEnds
  <2>3. DecodedFrom(t)[n + 1] = <<>>
    BY <1>0, DecodingEnds
  <2> QED
    BY <1>0, <2>2, <2>3
<1>2. ASSUME NEW j \in 1..n, \A h \in j+1..n+1 : h \in T PROVE j \in T
  <2>0. a + j \in 1..Len(s) /\ j \in 1..n+1
    BY <1>0
  <2> SUFFICES DecodedFrom(t)[j] = DecodedFrom(s)[a + j]
    BY <2>0
  <2>1. t[j] = s[a + j]
    OBVIOUS
  <2>2. ASSUME j + 2 <= n
        PROVE  t[j + 1] = s[(a + j) + 1] /\ t[j + 2] = s[(a + j) + 2]
    <3>1. j + 1 \in 1..n /\ j + 2 \in 1..n /\ a + (j + 1) = (a + j) + 1 /\ a + (j + 2) = (a + j) + 2
      BY <1>0, <2>2
    <3> QED
      BY <3>1
  <2>3. Decodable(t, n, j) <=> Decodable(s, Len(s), a + j)
    BY <1>0, <2>1, <2>2 DEF Decodable
  <2>4. CASE Decodable(t, n, j)
    <3>1. j + 2 <= n
      BY <2>4 DEF Decodable
    <3>2. j + 3 \in j+1..n+1 /\ a + (j + 3) = (a + j) + 3
      BY <1>0, <3>1
    <3>3. DecodedFrom(t)[j + 3] = DecodedFrom(s)[(a + j) + 3]
      BY <1>2, <3>2
    <3>4. Byte(t, j) = Byte(s, a + j)
      BY <2>2, <3>1 DEF Byte
    <3>5. DecodedFrom(t)[j] = <<Byte(t, j)>> \o DecodedFrom(t)[j + 3]
      BY <2>0, <2>4, DecodingOne
    <3>6. DecodedFrom(s)[a + j] = <<Byte(s, a + j)>> \o DecodedFrom(s)[(a + j) + 3]
      BY <2>0, <2>3, <2>4, DecodingOne
    <3> QED
      BY <3>3, <3>4, <3>5, <3>6, Zenon
  <2>5. CASE ~Decodable(t, n, j)
    <3>2. j + 1 \in j+1..n+1 /\ a + (j + 1) = (a + j) + 1
      BY <1>0
    <3>3. DecodedFrom(t)[j + 1] = DecodedFrom(s)[(a + j) + 1]
      BY <1>2, <3>2
    <3>5. DecodedFrom(t)[j] = <<t[j]>> \o DecodedFrom(t)[j + 1]
      BY <2>0, <2>5, DecodingNone
    <3>6. DecodedFrom(s)[a + j] = <<s[a + j]>> \o DecodedFrom(s)[(a + j) + 1]
      BY <2>0, <2>3, <2>5, DecodingNone
    <3> QED
      BY <2>1, <3>3, <3>5, <3>6, Zenon
  <2> QED
    BY <2>4, <2>5
<1> HIDE DEF T
<1>3. \A j \in 1..n+1 : j \in T
  BY <1>0, <1>1, <1>2, FromTheEnd
<1> QED
  BY <1>3 DEF T

\* A line without sequences is its own.
LEMMA NothingDecodes ==
  ASSUME NEW s \in Seq(Bytes), \A j \in 1..Len(s) : ~Decodable(s, Len(s), j)
  PROVE  Decoded(s) = s
<1> DEFINE n == Len(s)
           T == {j \in 1..n+1 : DecodedFrom(s)[j] = SubSeq(s, j, n)}
<1>0. n \in Nat
  BY LenProperties
<1>1. n + 1 \in T
  <2>1. SubSeq(s, n + 1, n) = <<>>
    BY <1>0, SubSeqEmpty
  <2>2. DecodedFrom(s)[n + 1] = <<>>
    BY DecodingEnds
  <2>3. n + 1 \in 1..n+1
    BY <1>0
  <2> QED
    BY <2>1, <2>2, <2>3, Zenon
<1>2. ASSUME NEW j \in 1..n, \A h \in j+1..n+1 : h \in T PROVE j \in T
  <2>1. DecodedFrom(s)[j] = <<s[j]>> \o DecodedFrom(s)[j+1]
    BY <1>0, DecodingNone
  <2>2. j + 1 \in j+1..n+1
    BY <1>0
  <2>3. DecodedFrom(s)[j+1] = SubSeq(s, j + 1, n)
    BY <1>2, <2>2
  <2>4. SubSeq(s, j, n) = <<s[j]>> \o SubSeq(s, j + 1, n)
    BY <1>0, SubSeqRecursiveFirst
  <2>5. j \in 1..n+1
    BY <1>0
  <2> QED
    BY <2>1, <2>3, <2>4, <2>5, Zenon
<1> HIDE DEF T
<1>3. 1 \in T
  BY <1>0, <1>1, <1>2, FromTheEnd
<1> QED
  BY <1>3, SubSeqFull DEF T, Decoded

\* A character more, over what was there.
LEMMA Written ==
  ASSUME NEW s \in Seq(Bytes), NEW p \in 1..Len(s), NEW c \in Bytes
  PROVE  LET t == [s EXCEPT ![p] = c]
         IN  /\ t \in Seq(Bytes) /\ Len(t) = Len(s)
             /\ SubSeq(t, 1, p) = SubSeq(s, 1, p - 1) \o <<c>>
<1> DEFINE t == [s EXCEPT ![p] = c]
<1>1. t \in Seq(Bytes) /\ Len(t) = Len(s) /\ t[p] = c /\ \A j \in 1..p-1 : t[j] = s[j]
  BY ExceptSeq, LenProperties
<1> HIDE DEF t
<1>2. SubSeq(t, 1, p) = SubSeq(t, 1, p - 1) \o <<c>>
  BY <1>1, SubSeqRecursiveSecond
<1>3. SubSeq(t, 1, p - 1) = SubSeq(s, 1, p - 1)
  BY <1>1
<1> QED
  BY <1>1, <1>2, <1>3 DEF t

---------------------------------------------------------------------------
(* The invariant.                                                          *)

\* Nothing of a line is left when the next one is read.
Fresh == pc \in {"getline", "haspc", "done"} => i = 1 /\ k = 1

\* What has been written and what was to be read make up the decoded line, and it
\* still is to be read: the writing is behind.
Underway ==
  /\ Len(was) = nrd
  /\ i <= nrd + 1
  /\ \A j \in i..nrd : line[j] = was[j]
  /\ SubSeq(line, 1, k - 1) \o DecodedFrom(was)[i] = Decoded(was)

\* A sequence has been decoded or is still to come.
Shrinks == k < i \/ \E j \in i..nrd : Decodable(was, nrd, j)

DecodeInv ==
  /\ TypeOK
  /\ Fresh
  /\ pc = "kilpc" => Underway /\ Shrinks
  /\ pc = "write" /\ recursive => ~haspc(line, nrd)

LEMMA DecodeInit == Init => DecodeInv
  BY EmptySeq DEF Init, DecodeInv, TypeOK, Fresh

\* A round begins with a line that has a sequence.
LEMMA RoundBegins ==
  ASSUME NEW l \in Seq(Bytes), NEW n \in 0..Len(l), haspc(l, n)
  PROVE  LET w == SubSeq(l, 1, n)
         IN  /\ w \in Seq(Bytes)
             /\ Len(w) = n
             /\ \A j \in 1..n : l[j] = w[j]
             /\ \E j \in 1..n : Decodable(w, n, j)
<1> DEFINE w == SubSeq(l, 1, n)
<1>1. \A j \in 1..n : l[j] \in Bytes
  <2>1. \A j \in 1..n : j \in 1..Len(l)
    BY LenProperties
  <2> QED
    BY <2>1, ElementOfSeq
<1>2. w \in Seq(Bytes) /\ Len(w) = n /\ \A j \in 1..n : w[j] = l[j]
  <2> HIDE DEF Bytes
  <2>1. w \in Seq(Bytes)
    BY <1>1, SubSeqProperties
  <2>2. Len(w) = IF 1 <= n THEN n ELSE 0
    BY <1>1, SubSeqProperties
  <2>3. \A j \in 1..n : w[j] = l[j]
    BY <1>1, SubSeqProperties
  <2> QED
    BY <2>1, <2>2, <2>3
<1>3. PICK j \in 1..n : Sequence(l, n, j)
  BY DEF haspc
<1> HIDE DEF w
<1>4. Decodable(w, n, j)
  <2>1. j \in 1..n /\ j + 1 \in 1..n /\ j + 2 \in 1..n
    BY <1>3 DEF Sequence
  <2>2. w[j] = l[j] /\ w[j + 1] = l[j + 1] /\ w[j + 2] = l[j + 2]
    BY <1>2, <2>1
  <2> QED
    BY <1>3, <2>2 DEF Sequence, Decodable
<1> QED
  BY <1>2, <1>4 DEF w

\* Entering a round.
LEMMA EnterRound ==
  ASSUME DecodeInv, NEW n \in 0..Len(line), haspc(line, n), Enter,
         line' = line, nrd' = n, pc' = "kilpc", UNCHANGED flags
  PROVE  DecodeInv'
<1> DEFINE w == SubSeq(line, 1, n)
<1>0. /\ line \in Seq(Bytes) /\ only_printable' = only_printable
      /\ was' = w /\ i' = 1 /\ k' = 1
  BY DEF DecodeInv, TypeOK, flags, Bytes, Enter
<1>1. /\ w \in Seq(Bytes) /\ Len(w) = n
      /\ \A j \in 1..n : line[j] = w[j]
      /\ \E j \in 1..n : Decodable(w, n, j)
  BY <1>0, RoundBegins
<1>2. \A s, m, j : Decodable(s, m, j)' = Decodable(s, m, j)
  BY <1>0, SameSequences
<1>3. \A s : DecodedFrom(s)' = DecodedFrom(s)
  BY <1>0, SameDecoded
<1> HIDE DEF w
<1>4. TypeOK'
  BY <1>0, <1>1 DEF DecodeInv, TypeOK, flags, Bytes
<1>5. (Len(was) = nrd /\ i <= nrd + 1 /\ \A j \in i..nrd : line[j] = was[j])'
  BY <1>0, <1>1
<1>6. (SubSeq(line, 1, k - 1) \o DecodedFrom(was)[i] = Decoded(was))'
  <2>1. (SubSeq(line, 1, k - 1))' = <<>>
    BY <1>0, SubSeqEmpty
  <2>2. DecodedFrom(was)'[i'] = DecodedFrom(w)[1]
    BY <1>0, <1>3
  <2>3. Decoded(was)' = DecodedFrom(w)[1]
    BY <1>0, <1>3 DEF Decoded
  <2>4. DecodedFrom(w)[1] \in Seq(Bytes)
    <3>1. 1 \in 1..Len(w)+1
      BY <1>1
    <3> QED
      BY <1>1, <3>1, DecodedBytes
  <2>5. <<>> \o DecodedFrom(w)[1] = DecodedFrom(w)[1]
    BY <2>4, ConcatEmptySeq
  <2> QED
    BY <2>1, <2>2, <2>3, <2>5
<1>7. Shrinks'
  BY <1>0, <1>1, <1>2 DEF Shrinks
<1> QED
  BY <1>4, <1>5, <1>6, <1>7 DEF DecodeInv, Fresh, Underway

\* A step of kilpc() writes c for n characters, which is what the reference does there.
LEMMA DecodesOn ==
  ASSUME DecodeInv, pc = "kilpc", i <= nrd, NEW c \in Bytes, NEW n \in {1, 3},
         DecodedFrom(was)[i] = <<c>> \o DecodedFrom(was)[i + n],
         (i + n) - 1 <= nrd, n = 3 \/ ~Decodable(was, nrd, i),
         line' = [line EXCEPT ![k] = c], i' = i + n, k' = k + 1,
         UNCHANGED <<flags, nrd, pc, was>>
  PROVE  DecodeInv'
<1>0. /\ line \in Seq(Bytes) /\ was \in Seq(Bytes)
      /\ nrd \in 0..Len(line) /\ i \in 1..nrd /\ k \in 1..i /\ Len(line) \in Nat
      /\ k \in 1..Len(line)
      /\ only_printable' = only_printable /\ Underway /\ Shrinks
      /\ Len(was) = nrd
  <2>1. TypeOK /\ Underway /\ Shrinks
    BY DEF DecodeInv
  <2>2. Len(was) = nrd
    BY <2>1 DEF Underway
  <2>3. Len(line) \in Nat /\ line \in Seq(Bytes) /\ was \in Seq(Bytes)
    BY <2>1, LenProperties DEF TypeOK, Bytes
  <2>4. nrd \in 0..Len(line) /\ i \in 1..nrd /\ k \in 1..i /\ k \in 1..Len(line)
    BY <2>1, <2>3 DEF TypeOK
  <2>5. only_printable' = only_printable
    BY DEF flags
  <2> QED
    BY <2>1, <2>2, <2>3, <2>4, <2>5
<1>1. /\ line' \in Seq(Bytes) /\ Len(line') = Len(line)
      /\ SubSeq(line', 1, k) = SubSeq(line, 1, k - 1) \o <<c>>
  BY <1>0, Written
<1>2. \A s, m, j : Decodable(s, m, j)' = Decodable(s, m, j)
  BY <1>0, SameSequences
<1>3. \A s : DecodedFrom(s)' = DecodedFrom(s)
  BY <1>0, SameDecoded
<1>4. TypeOK'
  <2>1. i' \in 1..Len(line') + 1 /\ k' \in 1..i' /\ nrd' \in 0..Len(line')
    BY <1>0, <1>1
  <2> QED
    BY <1>0, <1>1, <2>1 DEF DecodeInv, TypeOK, flags, Bytes
<1>5. (Len(was) = nrd /\ i <= nrd + 1 /\ \A j \in i..nrd : line[j] = was[j])'
  <2>1. ASSUME NEW j \in i+n..nrd PROVE line'[j] = was[j]
    <3>1. j \in i..nrd /\ j # k /\ j \in 1..Len(line)
      BY <1>0, <2>1
    <3>2. line'[j] = line[j]
      BY <1>0, <3>1, ExceptSeq
    <3>3. line[j] = was[j]
      BY <1>0, <3>1 DEF Underway
    <3> QED
      BY <3>2, <3>3
  <2>2. Len(was') = nrd' /\ i' <= nrd' + 1
    BY <1>0
  <2> QED
    BY <2>1, <2>2
<1>6. (SubSeq(line, 1, k - 1) \o DecodedFrom(was)[i] = Decoded(was))'
  <2> DEFINE front == SubSeq(line, 1, k - 1)
             rest  == DecodedFrom(was)[i + n]
  <2>1. front \in Seq(Bytes)
    <3>1. \A j \in 1..k-1 : line[j] \in Bytes
      <4>1. \A j \in 1..k-1 : j \in 1..Len(line)
        BY <1>0
      <4> QED
        BY <1>0, <4>1, ElementOfSeq
    <3> QED
      BY <1>0, <3>1, SubSeqProperties
  <2>2. rest \in Seq(Bytes)
    <3>1. i + n \in 1..Len(was)+1
      BY <1>0
    <3> QED
      BY <1>0, <3>1, DecodedBytes
  <2>3. (front \o <<c>>) \o rest = front \o (<<c>> \o rest)
    <3>1. <<c>> \in Seq(Bytes)
      OBVIOUS
    <3> HIDE DEF front, rest
    <3> QED
      BY <2>1, <2>2, <3>1, ConcatAssociative
  <2>4. (SubSeq(line, 1, k - 1))' = front \o <<c>>
    <3>1. k' - 1 = k
      BY <1>0
    <3> QED
      BY <1>1, <3>1
  <2>5. DecodedFrom(was)'[i'] = rest
    BY <1>3
  <2>6. Decoded(was)' = Decoded(was)
    BY <1>3 DEF Decoded
  <2>7. front \o (<<c>> \o rest) = Decoded(was)
    BY <1>0 DEF Underway
  <2> HIDE DEF front, rest
  <2> QED
    BY <2>3, <2>4, <2>5, <2>6, <2>7
<1>7. Shrinks'
  <2>1. CASE k < i \/ n = 3
    <3>1. k' < i'
      BY <1>0, <2>1
    <3> QED
      BY <3>1 DEF Shrinks
  <2>2. CASE ~(k < i) /\ n = 1
    <3>1. PICK j \in i..nrd : Decodable(was, nrd, j)
      BY <1>0, <2>2 DEF Shrinks
    <3>2. j # i
      BY <2>2, <3>1
    <3>3. j \in i'..nrd'
      BY <1>0, <2>2, <3>2
    <3>4. Decodable(was, nrd, j)'
      BY <1>2, <3>1
    <3> QED
      BY <3>3, <3>4 DEF Shrinks
  <2> QED
    BY <2>1, <2>2
<1> QED
  BY <1>4, <1>5, <1>6, <1>7 DEF DecodeInv, Fresh, Underway

LEMMA DecodeStep == DecodeInv /\ [Next]_unqpcVars => DecodeInv'
<1> SUFFICES ASSUME DecodeInv, [Next]_unqpcVars PROVE DecodeInv'
  OBVIOUS
<1>1. TypeOK /\ Fresh
  BY DEF DecodeInv
<1>2. CASE Getline
  <2>1. PICK l \in Lines : line' = l /\ nrd' = Len(l)
    BY <1>2 DEF Getline
  <2>2. l \in Seq(0..255) /\ Len(l) \in Nat
    BY LinesAssumption, LenProperties
  <2>3. TypeOK'
    BY <1>1, <1>2, <2>1, <2>2 DEF Getline, TypeOK, Fresh, flags
  <2>4. Fresh' /\ pc' = "haspc"
    BY <1>1, <1>2 DEF Getline, Fresh
  <2> QED
    BY <2>3, <2>4 DEF DecodeInv
<1>3. CASE Eof
  <2>1. TypeOK' /\ Fresh' /\ pc' = "done"
    BY <1>1, <1>3 DEF Eof, TypeOK, Fresh, flags
  <2> QED
    BY <2>1 DEF DecodeInv
<1>4. CASE Haspc
  <2>1. CASE haspc(line, nrd)
    BY <1>1, <1>4, <2>1, EnterRound DEF Haspc, TypeOK
  <2>2. CASE ~haspc(line, nrd)
    <3>1. TypeOK' /\ Fresh' /\ pc' = "write"
      BY <1>1, <1>4, <2>2 DEF Haspc, TypeOK, Fresh, flags
    <3>2. haspc(line, nrd)' = haspc(line, nrd)
      <4>1. only_printable' = only_printable /\ line' = line /\ nrd' = nrd
        BY <1>4, <2>2 DEF Haspc, flags
      <4> QED
        BY <4>1, SameSequences DEF haspc
    <3> QED
      BY <2>2, <3>1, <3>2 DEF DecodeInv
  <2> QED
    BY <2>1, <2>2
<1>5. CASE Copy
  <2>1. pc = "kilpc" /\ i <= nrd /\ ~Decodable(line, nrd, i) /\ Underway
    BY <1>5 DEF Copy, DecodeInv
  <2>2. i \in 1..nrd /\ nrd \in Nat /\ was \in Seq(Bytes) /\ Len(was) = nrd
    <3>1. i \in Nat /\ i >= 1 /\ nrd \in Nat /\ was \in Seq(Bytes)
      BY <1>1, LenProperties DEF TypeOK, Bytes
    <3> QED
      BY <2>1, <3>1 DEF Underway
  <2>3. line[i] = was[i] /\ was[i] \in Bytes
    BY <2>1, <2>2, ElementOfSeq DEF Underway
  <2>4. ~Decodable(was, nrd, i)
    <3>1. SUFFICES ASSUME Decodable(was, nrd, i) PROVE FALSE
      OBVIOUS
    <3>2. i + 1 \in i..nrd /\ i + 2 \in i..nrd
      BY <2>2, <3>1 DEF Decodable
    <3>3. line[i + 1] = was[i + 1] /\ line[i + 2] = was[i + 2]
      BY <2>1, <3>2 DEF Underway
    <3> QED
      BY <2>1, <2>3, <3>1, <3>3 DEF Decodable
  <2>5. DecodedFrom(was)[i] = <<was[i]>> \o DecodedFrom(was)[i + 1]
    BY <2>2, <2>4, DecodingNone
  <2>6. (i + 1) - 1 <= nrd
    BY <2>2
  <2>7. line' = [line EXCEPT ![k] = was[i]] /\ i' = i + 1 /\ k' = k + 1
        /\ UNCHANGED <<flags, nrd, pc, was>>
    BY <1>5, <2>3 DEF Copy
  <2> HIDE DEF Bytes
  <2> QED
    BY <2>1, <2>3, <2>4, <2>5, <2>6, <2>7, DecodesOn
<1>6. CASE Decode
  <2>1. pc = "kilpc" /\ Decodable(line, nrd, i) /\ Underway
    BY <1>6 DEF Decode, DecodeInv
  <2>2. /\ i \in 1..nrd /\ i + 2 <= nrd /\ nrd \in 0..Len(line) /\ nrd \in Nat
        /\ was \in Seq(Bytes) /\ line \in Seq(Bytes) /\ Len(was) = nrd
    <3>1. /\ i \in Nat /\ i >= 1 /\ nrd \in 0..Len(line) /\ nrd \in Nat
          /\ was \in Seq(Bytes) /\ line \in Seq(Bytes)
      BY <1>1, LenProperties DEF TypeOK, Bytes
    <3> QED
      BY <2>1, <3>1 DEF Underway, Decodable
  <2>3. line[i] = was[i] /\ line[i + 1] = was[i + 1] /\ line[i + 2] = was[i + 2]
    <3>1. i + 1 \in i..nrd /\ i + 2 \in i..nrd /\ i \in i..nrd
      BY <2>2
    <3> QED
      BY <2>1, <3>1 DEF Underway
  <2>4. Decodable(was, nrd, i) /\ Byte(was, i) = Byte(line, i)
    BY <2>1, <2>3 DEF Decodable, Byte
  <2>5. DecodedFrom(was)[i] = <<Byte(line, i)>> \o DecodedFrom(was)[i + 3]
    BY <2>2, <2>4, DecodingOne
  <2>6. Byte(line, i) \in Bytes
    <3>1. i \in 1..Len(line)
      BY <2>2
    <3> QED
      BY <2>1, <2>2, <3>1, HexDigits
  <2>7. (i + 3) - 1 <= nrd /\ i <= nrd
    BY <2>2
  <2>8. line' = [line EXCEPT ![k] = Byte(line, i)] /\ i' = i + 3 /\ k' = k + 1
        /\ UNCHANGED <<flags, nrd, pc, was>>
    BY <1>6 DEF Decode
  <2> HIDE DEF Bytes
  <2> QED
    BY <2>1, <2>5, <2>6, <2>7, <2>8, DecodesOn
<1>7. CASE Return
  <2>1. k - 1 \in 0..Len(line) /\ nrd' = k - 1 /\ line' = line /\ UNCHANGED flags
    <3>1. i \in 1..Len(line)+1 /\ k \in 1..i /\ Len(line) \in Nat
      BY <1>1, LenProperties DEF TypeOK
    <3> QED
      BY <1>7, <3>1 DEF Return
  <2>2. CASE recursive /\ haspc(line, k - 1)
    BY <1>7, <2>1, <2>2, EnterRound DEF Return
  <2>3. CASE ~(recursive /\ haspc(line, k - 1))
    <3>1. pc' = "write" /\ UNCHANGED <<i, k, was>>
      BY <1>7, <2>3 DEF Return
    <3>2. TypeOK' /\ Fresh'
      BY <1>1, <2>1, <3>1 DEF TypeOK, Fresh, flags
    <3>3. only_printable' = only_printable /\ recursive' = recursive
      BY <2>1 DEF flags
    <3>4. haspc(line, nrd)' = haspc(line, k - 1)
      BY <2>1, <3>3, SameSequences DEF haspc
    <3> QED
      BY <2>3, <3>1, <3>2, <3>3, <3>4 DEF DecodeInv
  <2> QED
    BY <2>2, <2>3
<1>8. CASE Write
  <2>1. TypeOK' /\ Fresh' /\ pc' = "getline"
    BY <1>1, <1>8, EmptySeq DEF Write, TypeOK, Fresh, flags
  <2> QED
    BY <2>1 DEF DecodeInv
<1>9. CASE UNCHANGED unqpcVars
  <2>1. only_printable' = only_printable
    BY <1>9 DEF unqpcVars, flags
  <2>2. TypeOK' /\ Fresh'
    BY <1>1, <1>9 DEF unqpcVars, flags, TypeOK, Fresh
  <2>3. Underway' = Underway
    <3>1. \A s : DecodedFrom(s)' = DecodedFrom(s)
      BY <2>1, SameDecoded
    <3>2. DecodedFrom(was)' = DecodedFrom(was) /\ Decoded(was)' = Decoded(was)
      BY <1>9, <3>1 DEF unqpcVars, Decoded
    <3>3. line' = line /\ nrd' = nrd /\ i' = i /\ k' = k /\ was' = was
      BY <1>9 DEF unqpcVars
    <3> QED
      BY <3>2, <3>3 DEF Underway
  <2>4. Shrinks' = Shrinks
    BY <1>9, <2>1, SameSequences DEF unqpcVars, Shrinks
  <2>5. haspc(line, nrd)' = haspc(line, nrd)
    BY <1>9, <2>1, SameSequences DEF unqpcVars, haspc
  <2>6. pc' = pc /\ recursive' = recursive
    BY <1>9 DEF unqpcVars, flags
  <2> QED
    BY <2>2, <2>3, <2>4, <2>5, <2>6 DEF DecodeInv
<1> QED
  BY <1>2, <1>3, <1>4, <1>5, <1>6, <1>7, <1>8, <1>9 DEF Next, Step, Done

LEMMA DecodeCorrect == Spec => []DecodeInv
  BY DecodeInit, DecodeStep, PTL DEF Spec

---------------------------------------------------------------------------
(* Theorems.                                                               *)

\* kilpc() neither reads nor writes outside of the line, and what it writes is
\* behind what it reads (unqpc.c:93-120).
THEOREM TypeCorrect == Spec => []TypeOK
<1>1. DecodeInv => TypeOK
  BY DEF DecodeInv
<1> QED
  BY <1>1, DecodeCorrect, PTL

\* In place, a line decodes to what it would elsewhere, whatever the line and the
\* flags (unqpc.c:93-120).
THEOREM DecodesInPlace == Spec => []InPlace
<1>1. DecodeInv => InPlace
  <2> SUFFICES ASSUME DecodeInv, pc = "kilpc"
               PROVE  SubSeq(line, 1, k - 1) \o Decoded(SubSeq(line, i, nrd)) = Decoded(was)
    BY DEF InPlace
  <2> DEFINE tail == SubSeq(line, i, nrd)
  <2>1. TypeOK /\ Underway
    BY DEF DecodeInv
  <2>2. /\ i \in 1..nrd+1 /\ nrd \in 0..Len(line) /\ Len(line) \in Nat
        /\ was \in Seq(Bytes) /\ line \in Seq(Bytes) /\ Len(was) = nrd
    <3>1. /\ i \in 1..Len(line)+1 /\ nrd \in 0..Len(line) /\ Len(line) \in Nat
          /\ was \in Seq(Bytes) /\ line \in Seq(Bytes)
      BY <2>1, LenProperties DEF TypeOK, Bytes
    <3> QED
      BY <2>1, <3>1 DEF Underway
  <2>3. \A j \in i..nrd : line[j] \in Bytes
    <3>1. \A j \in i..nrd : j \in 1..Len(line)
      BY <2>2
    <3> QED
      BY <2>2, <3>1, ElementOfSeq
  <2>4. /\ tail \in Seq(Bytes)
        /\ Len(tail) = (nrd + 1) - i
        /\ \A j \in 1..(nrd + 1)-i : tail[j] = was[(i - 1) + j]
    <3>1. tail \in Seq(Bytes)
      BY <2>2, <2>3, SubSeqProperties
    <3>2. Len(tail) = (nrd + 1) - i
      BY <2>2
    <3>3. ASSUME NEW j \in 1..(nrd + 1)-i PROVE tail[j] = was[(i - 1) + j]
      <4>1. (i - 1) + j \in i..nrd
        BY <2>2
      <4>2. tail[j] = line[(i - 1) + j]
        BY <2>2
      <4> QED
        BY <2>1, <4>1, <4>2 DEF Underway
    <3> QED
      BY <3>1, <3>2, <3>3
  <2> HIDE DEF tail
  <2>5. Decoded(tail) = DecodedFrom(was)[(i - 1) + 1]
    <3>1. i - 1 \in Nat /\ Len(was) = (i - 1) + Len(tail) /\ 1 \in 1..Len(tail)+1
      BY <2>2, <2>4
    <3>2. \A j \in 1..Len(tail) : tail[j] = was[(i - 1) + j]
      BY <2>4
    <3>3. DecodedFrom(tail)[1] = DecodedFrom(was)[(i - 1) + 1]
      <4> DEFINE a == i - 1
      <4>1. a \in Nat /\ Len(was) = a + Len(tail) /\ \A j \in 1..Len(tail) : tail[j] = was[a + j]
        BY <3>1, <3>2
      <4> HIDE DEF a, Bytes
      <4>2. \A j \in 1..Len(tail)+1 : DecodedFrom(tail)[j] = DecodedFrom(was)[a + j]
        BY <2>2, <2>4, <4>1, SameTail
      <4> QED
        BY <3>1, <4>2 DEF a
    <3> QED
      BY <3>3 DEF Decoded
  <2>6. (i - 1) + 1 = i
    BY <2>2
  <2> QED
    BY <2>1, <2>5, <2>6 DEF Underway, tail
<1> QED
  BY <1>1, DecodeCorrect, PTL

\* With --recursive, decoding goes on until there is nothing to decode, although
\* what is decodable is written down a second time in haspc() (unqpc.c:62-91,
\* :125-134).
THEOREM DecodesAll == Spec => []NothingLeft
<1>1. DecodeInv => NothingLeft
  <2> SUFFICES ASSUME DecodeInv, pc = "write", recursive, ~only_printable
               PROVE  Decoded(SubSeq(line, 1, nrd)) = SubSeq(line, 1, nrd)
    BY DEF NothingLeft
  <2> DEFINE l == SubSeq(line, 1, nrd)
  <2>1. ~haspc(line, nrd) /\ line \in Seq(Bytes) /\ nrd \in 0..Len(line) /\ Len(line) \in Nat
    BY LenProperties DEF DecodeInv, TypeOK, Bytes
  <2>2. l \in Seq(Bytes) /\ Len(l) = nrd /\ \A j \in 1..nrd : l[j] = line[j]
    <3>1. \A j \in 1..nrd : line[j] \in Bytes
      <4>1. \A j \in 1..nrd : j \in 1..Len(line)
        BY <2>1
      <4> QED
        BY <2>1, <4>1, ElementOfSeq
    <3>2. l \in Seq(Bytes)
      BY <2>1, <3>1, SubSeqProperties
    <3> QED
      BY <2>1, <3>2
  <2> HIDE DEF l
  <2>3. ASSUME NEW j \in 1..nrd, Decodable(l, nrd, j) PROVE FALSE
    <3>1. j + 1 \in 1..nrd /\ j + 2 \in 1..nrd
      BY <2>1, <2>3 DEF Decodable
    <3>2. l[j] = line[j] /\ l[j + 1] = line[j + 1] /\ l[j + 2] = line[j + 2]
      BY <2>2, <3>1
    <3>3. Sequence(line, nrd, j)
      BY <2>3, <3>2 DEF Decodable, Sequence
    <3> QED
      BY <2>1, <3>3 DEF haspc
  <2> QED
    BY <2>2, <2>3, NothingDecodes DEF l
<1> QED
  BY <1>1, DecodeCorrect, PTL

\* Each round that is followed by another one has made the line shorter, so that
\* there are no more of them than the line has characters (unqpc.c:130-132).
RoundShortens == pc = "kilpc" /\ (pc' # "kilpc" \/ nrd' # nrd \/ i' < i) => nrd' < nrd
THEOREM RoundsEnd == Spec => [][RoundShortens]_unqpcVars
<1>1. DecodeInv /\ [Next]_unqpcVars => [RoundShortens]_unqpcVars
  <2> SUFFICES ASSUME DecodeInv, Next, pc = "kilpc",
                      pc' # "kilpc" \/ nrd' # nrd \/ i' < i
               PROVE  nrd' < nrd
    BY DEF RoundShortens
  <2>1. TypeOK /\ Underway /\ Shrinks
    BY DEF DecodeInv
  <2>2. i \in Nat /\ k \in 1..i /\ nrd \in Nat /\ i <= nrd + 1
    BY <2>1, LenProperties DEF TypeOK, Underway
  <2>3. Return
    BY <2>2 DEF Next, Step, Getline, Eof, Haspc, Copy, Decode, Write, Done, unqpcVars
  <2>4. i > nrd /\ nrd' = k - 1
    BY <2>3 DEF Return
  <2>5. k < i
    BY <2>1, <2>2, <2>4 DEF Shrinks
  <2> QED
    BY <2>2, <2>4, <2>5
<1> QED
  BY <1>1, DecodeCorrect, PTL DEF Spec

===========================================================================
