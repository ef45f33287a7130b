---------------------------- MODULE HashfProofs ---------------------------
(***************************************************************************)
(* What holds of hashf for any files, strides and buffer, and any number   *)
(* of reads that are short or fail.                                        *)
(***************************************************************************)
EXTENDS Hashf, SequenceTheorems, WellFoundedInduction, TLAPS

Parting == pc \in {"part", "seek"}

\* Why a part always fits: as long as nothing fell short Z is a multiple of a part's
\* size, and after a part that did no other is read before the update.
PartInv ==
  /\ Parting => Z < Bufsz /\ Z % READ = 0
  /\ ~Parting => stp = 0
  /\ pc = "seek" => nrd <= 0

IInv ==
  /\ TypeOK /\ PartInv
  /\ len \in Nat /\ stride \in Strides

LEMMA PartSize == READ = 32
  BY DEF READ, BufferSize, StripeLen, AccNb, LaneBytes

LEMMA MaxOfTwo ==
  ASSUME NEW a \in Int, NEW b \in Int
  PROVE  Max({a, b}) \in {a, b} /\ Max({a, b}) >= a /\ Max({a, b}) >= b
<1>1. \E x \in {a, b} : \A y \in {a, b} : x >= y
  OBVIOUS
<1> QED
  BY <1>1 DEF Max

\* A stride is a number.
LEMMA StrideType ==
  ASSUME NEW s \in Strides, NEW n \in Nat
  PROVE  StrideFor(s, n) \in Nat
<1>1. s.n \in Nat /\ Kilo \in Nat
  BY HashfAssumption
<1>2. \A a, b \in Nat : a * b \in Nat
  OBVIOUS
<1>3. StrideLength(s) \in Nat
  <2>1. s.n * Kilo \in Nat
    BY <1>1, <1>2
  <2>2. s.n * Kilo * Kilo \in Nat
    BY <2>1, <1>1, <1>2
  <2>3. s.n * Kilo * Kilo * Kilo \in Nat
    BY <2>2, <1>1, <1>2
  <2>4. s.n * Kilo * Kilo * Kilo * Kilo \in Nat
    BY <2>3, <1>1, <1>2
  <2> QED
    BY <1>1, <2>1, <2>2, <2>3, <2>4 DEF StrideLength
<1>4. CASE ~IsPercent(s)
  BY <1>3, <1>4 DEF StrideFor
<1>5. CASE IsPercent(s)
  <2>1. StrideLength(s) = s.n
    BY <1>5 DEF StrideLength, IsPercent
  <2>2. s.n > 0 /\ n * 100 \in Nat
    BY <1>5 DEF IsPercent
  <2>3. (n * 100) \div s.n \in Nat
    BY <2>2, <1>1
  <2> QED
    BY <1>5, <2>1, <2>3 DEF StrideFor
<1> QED
  BY <1>4, <1>5

\* The content of a file is as many bytes as it is long.
LEMMA ContentType ==
  ASSUME NEW l \in Nat
  PROVE  Content(l) \in [1..l -> Half]
<1>1. ASSUME NEW k \in 1..l
      PROVE  (k * k + 3 * k + k \div 7) % 16 \in Half
  <2>1. k * k + 3 * k + k \div 7 \in Int
    OBVIOUS
  <2> QED
    BY <2>1 DEF Half
<1> QED
  BY <1>1 DEF Content

\* What read() may return: -1 or not more than was asked for and is left in the file.
LEMMA ResultType ==
  ASSUME len \in Nat, pos \in Nat, left \in Nat, NEW asked \in Nat, NEW n \in Results(asked)
  PROVE  /\ n \in -1..asked /\ (n > 0 => pos + n <= len)
         /\ left = 0 => n = Full(asked)
<1>1. Max({0, len - pos}) \in {0, len - pos} /\ Max({0, len - pos}) >= 0
  BY MaxOfTwo
<1>2. /\ Full(asked) \in 0..asked
      /\ Full(asked) > 0 => pos + Full(asked) <= len
  BY <1>1 DEF Full, Least
<1>3. CASE n = Full(asked)
  BY <1>2, <1>3
<1>4. CASE n # Full(asked)
  <2>1. left # 0 /\ (n = -1 \/ (n \in Shorts /\ n < Full(asked)))
    BY <1>4 DEF Results
  <2> QED
    BY <1>2, <2>1 DEF Shorts
<1> QED
  BY <1>3, <1>4

\* A read leaves a buffer behind it, and not more than its hiccup.
LEMMA ReadType ==
  ASSUME TypeOK, len \in Nat, NEW p \in Nat, NEW asked \in Nat, NEW n, Read(p, asked, n)
  PROVE  /\ n \in -1..asked /\ pos' \in Nat /\ left' \in 0..Hiccups
         /\ B' \in [1..Bufsz -> Half]
<1>1. pos \in Nat /\ left \in 0..Hiccups /\ B \in [1..Bufsz -> Half] /\ left \in Nat
  BY HashfAssumption DEF TypeOK
<1>2. n \in Results(asked)
  BY DEF Read
<1>3. n \in -1..asked /\ (n > 0 => pos + n <= len) /\ (left = 0 => n = Full(asked))
  BY <1>1, <1>2, ResultType
<1>4. left' \in 0..Hiccups
  BY <1>1, <1>3, HashfAssumption DEF Read
<1>5. CASE n > 0
  <2>1. B' = Received(p, n) /\ pos' = pos + n
    BY <1>5 DEF Read
  <2>2. ASSUME NEW k \in 1..Bufsz, k \in p+1..p+n
        PROVE  Content(len)[pos + k - p] \in Half
    <3>1. pos + k - p \in 1..len
      BY <1>1, <1>3, <1>5, <2>2, HashfAssumption
    <3> QED
      BY <3>1, ContentType
  <2>3. Received(p, n) \in [1..Bufsz -> Half]
    BY <1>1, <2>2 DEF Received
  <2> QED
    BY <1>1, <1>3, <1>4, <1>5, <2>1, <2>3
<1>6. CASE ~(n > 0)
  BY <1>1, <1>3, <1>4, <1>6 DEF Read
<1> QED
  BY <1>5, <1>6

LEMMA UnwrittenType == Unwritten \in [1..Bufsz -> Half]
  BY DEF Unwritten, Half

---------------------------------------------------------------------------
LEMMA InitHolds == Init => IInv
<1> SUFFICES ASSUME Init PROVE IInv
  OBVIOUS
<1>1. Unwritten \in [1..Bufsz -> Half]
  BY UnwrittenType
<1>2. TypeOK
  BY <1>1, HashfAssumption, PartSize DEF Init, TypeOK
<1> QED
  BY <1>2 DEF Init, IInv, PartInv, Parting

\* A file as it is begun.
LEMMA Begun ==
  ASSUME IInv, NEW f, NEW l \in Sizes, NEW n \in Sizes \cup {0}, NEW s \in Nat,
         Hash1(f, l, n, s), rc' = rc, stride' = stride, left' = left
  PROVE  IInv'
<1>1. l \in Nat
  BY HashfAssumption
<1>2. pc' \in {"whole", "part", "digest"}
  BY DEF Hash1, Outer
<1>3. /\ B' = Unwritten /\ len' = l /\ fz' = n /\ strd' = s /\ pos' = 0
      /\ i' = 0 /\ stp' = 0 /\ Z' = 0 /\ nrd' = 0
  BY DEF Hash1
<1>4. Unwritten \in [1..Bufsz -> Half]
  BY UnwrittenType
<1>5. TypeOK'
  BY <1>2, <1>3, <1>4, HashfAssumption, PartSize DEF IInv, TypeOK
<1>6. PartInv'
  BY <1>2, <1>3, HashfAssumption, PartSize DEF PartInv, Parting
<1> QED
  BY <1>1, <1>3, <1>5, <1>6 DEF IInv

LEMMA NextHolds ==
  ASSUME IInv, [Next]_vars
  PROVE  IInv'
<1> USE DEF IInv
<1>a. TypeOK /\ PartInv /\ len \in Nat /\ stride \in Strides
  OBVIOUS
<1>1. CASE OpenFails
  BY <1>a, <1>1 DEF OpenFails, TypeOK, PartInv, Parting, state, desc, loop
<1>2. CASE OpenFile
  <2>1. PICK l \in Sizes : \E n \in SizesOf(l) : Hash1(Head(files), l, n, StrideFor(stride, n))
    BY <1>2 DEF OpenFile
  <2>2. PICK n \in SizesOf(l) : Hash1(Head(files), l, n, StrideFor(stride, n))
    BY <2>1
  <2>3. n \in Nat /\ n \in Sizes \cup {0}
    BY HashfAssumption DEF SizesOf
  <2>4. StrideFor(stride, n) \in Nat
    BY <2>3, StrideType
  <2>5. rc' = rc /\ stride' = stride /\ left' = left
    BY <1>2 DEF OpenFile
  <2> QED
    BY <2>2, <2>3, <2>4, <2>5, Begun
<1>3. CASE Stdin
  <2>1. PICK l \in Sizes : Hash1(0, l, 0, 0)
    BY <1>3 DEF Stdin
  <2>2. rc' = rc /\ stride' = stride /\ left' = left
    BY <1>3 DEF Stdin
  <2> QED
    BY <2>1, <2>2, Begun
<1>4. CASE Exit
  BY <1>a, <1>4 DEF Exit, TypeOK, PartInv, Parting, main, state, desc, loop
<1>5. CASE ReadWhole
  <2>0. Bufsz \in Nat /\ Bufsz >= 1 /\ 0 \in Nat
    BY HashfAssumption, PartSize
  <2>1. PICK n \in Results(Bufsz) :
          /\ Read(0, Bufsz, n)
          /\ nrd' = IF n > 0 THEN 1 ELSE 0
          /\ pc' = IF n > 0 THEN pc ELSE "digest"
    BY <1>5 DEF ReadWhole
  <2>2. /\ n \in -1..Bufsz /\ pos' \in Nat /\ left' \in 0..Hiccups /\ B' \in [1..Bufsz -> Half]
    BY <1>a, <2>0, <2>1, ReadType
  <2>3. /\ pc = "whole"
        /\ UNCHANGED <<len, fz, strd, i, stp, Z, rc, stride>>
    BY <1>5 DEF ReadWhole, main
  <2>4. pc' \in {"whole", "digest"} /\ nrd' \in 0..1
    BY <2>1, <2>3
  <2>5. TypeOK'
    BY <1>a, <2>0, <2>2, <2>3, <2>4 DEF TypeOK
  <2>6. PartInv'
    BY <1>a, <2>3, <2>4 DEF PartInv, Parting
  <2> QED
    BY <1>a, <2>3, <2>5, <2>6
<1>6. CASE ReadPart
  <2>0. /\ pc = "part" /\ stp < READ /\ stp \in 0..READ /\ Z \in 0..Bufsz /\ Bufsz \in Nat
        /\ Z < Bufsz /\ Z % READ = 0 /\ READ = 32
    BY <1>a, <1>6, HashfAssumption, PartSize DEF ReadPart, TypeOK, PartInv, Parting
  <2>1. PICK n \in Results(READ - stp) :
          /\ Read(Z + stp, READ - stp, n)
          /\ nrd' = n
          /\ stp' = IF n > 0 THEN stp + n ELSE stp
          /\ pc' = IF n > 0 THEN pc ELSE "seek"
    BY <1>6 DEF ReadPart
  <2>2. Z + stp \in Nat /\ READ - stp \in Nat
    BY <2>0
  <2>3. /\ n \in -1..READ - stp /\ pos' \in Nat /\ left' \in 0..Hiccups /\ B' \in [1..Bufsz -> Half]
    BY <1>a, <2>1, <2>2, ReadType
  <2>4. UNCHANGED <<len, fz, strd, i, Z, rc, stride>>
    BY <1>6 DEF ReadPart, main
  <2>5. /\ pc' \in {"part", "seek"} /\ stp' \in 0..READ /\ nrd' \in -1..Bufsz
        /\ pc' = "seek" => nrd' <= 0
    BY <2>0, <2>1, <2>3, HashfAssumption
  <2>6. TypeOK'
    BY <1>a, <2>3, <2>4, <2>5 DEF TypeOK
  <2>7. PartInv'
    BY <2>0, <2>4, <2>5 DEF PartInv, Parting
  <2> QED
    BY <1>a, <2>4, <2>6, <2>7
<1>7. CASE EndPart
  <2>0. /\ Parting /\ stp \in 0..READ /\ Z \in 0..Bufsz /\ Bufsz \in Nat /\ Bufsz % READ = 0
        /\ Z < Bufsz /\ Z % READ = 0 /\ READ = 32 /\ i \in Nat /\ strd \in Nat /\ nrd \in -1..Bufsz
    BY <1>a, <1>7, HashfAssumption, PartSize DEF EndPart, TypeOK, PartInv, Parting
  <2>1. /\ i' = i + 1 /\ pos' = i' * strd /\ Z' = Z + stp /\ stp' = 0
        /\ pc' = IF Z' < Bufsz /\ nrd > 0 THEN "part" ELSE "update"
        /\ UNCHANGED <<len, B, fz, strd, nrd, left, rc, stride>>
    BY <1>7 DEF EndPart, main
  <2>2. nrd > 0 => stp = READ
    BY <1>a, <1>7, <2>0 DEF EndPart, PartInv
  <2>3. Z' \in 0..Bufsz /\ (nrd > 0 => Z' % READ = 0)
    BY <2>0, <2>1, <2>2
  <2>4. i' \in Nat
    BY <2>0, <2>1
  <2>5. pos' \in Nat
    BY <2>0, <2>1, <2>4
  <2>6. pc' \in {"part", "update"} /\ stp' \in 0..READ
    BY <2>0, <2>1
  <2>7. TypeOK'
    BY <1>a, <2>1, <2>3, <2>4, <2>5, <2>6 DEF TypeOK
  <2>8. PartInv'
    BY <2>1, <2>3, <2>6 DEF PartInv, Parting
  <2> QED
    BY <1>a, <2>1, <2>7, <2>8
<1>8. CASE Update
  <2>1. /\ pc = "update" /\ Z' = 0 /\ pc' = Outer(strd, fz, i)
        /\ UNCHANGED <<len, B, fz, strd, i, stp, nrd, pos, left, rc, stride>>
    BY <1>8 DEF Update, desc, main
  <2>2. pc' \in {"whole", "part", "digest"}
    BY <2>1 DEF Outer
  <2>3. stp = 0
    BY <1>a, <2>1 DEF PartInv, Parting
  <2>4. TypeOK'
    BY <1>a, <2>1, <2>2, HashfAssumption DEF TypeOK
  <2>5. PartInv'
    BY <2>1, <2>2, <2>3, HashfAssumption, PartSize DEF PartInv, Parting
  <2> QED
    BY <1>a, <2>1, <2>4, <2>5
<1>9. CASE Digest
  <2>1. /\ pc = "digest" /\ B' = Unwritten /\ pc' = "main"
        /\ UNCHANGED <<len, fz, strd, i, stp, Z, nrd, pos, left, rc, stride>>
    BY <1>9 DEF Digest, state, desc, loop
  <2>2. TypeOK'
    BY <1>a, <2>1, UnwrittenType DEF TypeOK
  <2>3. PartInv'
    BY <1>a, <2>1 DEF PartInv, Parting
  <2> QED
    BY <1>a, <2>1, <2>2, <2>3
<1>10. CASE UNCHANGED vars
  BY <1>a, <1>10 DEF vars, TypeOK, PartInv, Parting
<1>11. CASE Stopped
  BY <1>10, <1>11 DEF Stopped
<1> QED
  BY <1>1, <1>2, <1>3, <1>4, <1>5, <1>6, <1>7, <1>8, <1>9, <1>10, <1>11 DEF Next

---------------------------------------------------------------------------
\* Natural numbers: the least one of a set, and induction with sets.
LEMMA LeastOf ==
  ASSUME NEW T, T \subseteq Nat, T # {}
  PROVE  \E x \in T : \A y \in T : x <= y
<1> DEFINE R == OpToRel(<, Nat)
<1>1. IsWellFoundedOn(R, Nat)
  BY NatLessThanWellFounded
<1>2. \A x, y \in Nat : (<<y, x>> \in R) <=> y < x
  BY DEF OpToRel
<1> HIDE DEF R
<1>3. \E x \in T : \A y \in T : ~ (<<y, x>> \in R)
  BY <1>1, WFMin
<1>4. PICK x \in T : \A y \in T : ~ (<<y, x>> \in R)
  BY <1>3
<1>5. \A y \in T : ~ (y < x)
  BY <1>2, <1>4, Zenon
<1> QED
  BY <1>5

LEMMA SetInduction ==
  ASSUME NEW T, NEW n \in Nat, 0 \in T, \A j \in 1..n : j - 1 \in T => j \in T
  PROVE  \A j \in 0..n : j \in T
<1> DEFINE U == {j \in 0..n : j \notin T}
<1> SUFFICES ASSUME U # {} PROVE FALSE
  OBVIOUS
<1>0. U \subseteq Nat
  OBVIOUS
<1>1. PICK j \in U : \A h \in U : j <= h
  <2> HIDE DEF U
  <2> QED
    BY <1>0, LeastOf
<1>2. j \in 1..n /\ j - 1 \in 0..n /\ j - 1 < j
  <2>1. j # 0
    BY <1>1
  <2> QED
    BY <2>1
<1>3. j - 1 \notin U
  BY <1>1, <1>2
<1> QED
  BY <1>2, <1>3

---------------------------------------------------------------------------
\* The state of a stream, of which only the sizes matter here.

Fields == {"acc", "customSecret", "buffer", "bufferedSize", "nbStripesSoFar", "totalLen", "seed",
           "extSecret", "secretLimit", "nbStripesPerBlock", "bad"}
IsState(s) == Fields \subseteq DOMAIN s

\* A block has four stripes and is not complete, there is no more in the buffer than
\* it has room for, and no assertion has failed.
StreamFits(s) ==
  /\ IsState(s)
  /\ s.nbStripesPerBlock = 4 /\ s.nbStripesSoFar \in 0..3
  /\ s.bufferedSize \in 0..32
  /\ s.bad = FALSE

LEMMA Scale ==
  /\ StripeLen = 16 /\ BufferSize = 32 /\ ConsumeRate = 4 /\ SecretSize = 32 /\ SecretMin = 24
  /\ BufferSize \div StripeLen = 2
  BY DEF StripeLen, AccNb, LaneBytes, BufferSize, ConsumeRate, SecretSize, SecretMin

LEMMA WindowLength ==
  ASSUME NEW S, NEW b \in Seq(S), NEW p \in Nat, NEW n \in Nat, p + n <= Len(b)
  PROVE  Len(Window(b, p, n)) = n
<1>1. Len(b) \in Nat
  OBVIOUS
<1> QED
  BY <1>1 DEF Window

\* The fields that a step sets, and those it leaves.
LEMMA SetBuffered ==
  ASSUME NEW s, StreamFits(s), NEW b, b \in 0..32,
         NEW r, r = [s EXCEPT !.bufferedSize = b]
  PROVE  StreamFits(r)
  BY DEF StreamFits, IsState, Fields

LEMMA SetBufferedBad ==
  ASSUME NEW s, StreamFits(s), NEW b, b \in 0..32, NEW w, w = FALSE,
         NEW r, r = [s EXCEPT !.bufferedSize = b, !.bad = w]
  PROVE  StreamFits(r)
  BY DEF StreamFits, IsState, Fields

LEMMA SetTotalBad ==
  ASSUME NEW s, StreamFits(s), NEW v, NEW w, w = FALSE,
         NEW r, r = [s EXCEPT !.totalLen = v, !.bad = w]
  PROVE  StreamFits(r)
  BY DEF StreamFits, IsState, Fields

LEMMA WindowType ==
  ASSUME NEW S, NEW m \in Nat, NEW b \in [1..m -> S], NEW n \in 0..m
  PROVE  Window(b, 0, n) \in Seq(S)
<1>1. b \in Seq(S) /\ Len(b) = m
  OBVIOUS
<1>2. SubSeq(b, 1, n) \in Seq(S)
  BY <1>1
<1> QED
  BY <1>2 DEF Window

LEMMA ResetFits ==
  ASSUME NEW old, IsState(old), NEW seed
  PROVE  StreamFits(reset_withSeed(old, seed))
<1>1. ASSUME NEW s, IsState(s), NEW z, NEW ext
      PROVE  StreamFits(reset_internal(s, z, ext, SecretSize))
  <2> DEFINE w == SecretSize < SecretMin
             r(l, n, a) == [s EXCEPT !.acc = a, !.bufferedSize = 0, !.nbStripesSoFar = 0,
                              !.totalLen = 0, !.seed = z, !.extSecret = ext,
                              !.secretLimit = l, !.nbStripesPerBlock = n, !.bad = w]
  <2>1. ~w /\ (SecretSize - StripeLen) \div ConsumeRate = 4
    BY Scale
  <2>2. reset_internal(s, z, ext, SecretSize)
          = r(SecretSize - StripeLen, (SecretSize - StripeLen) \div ConsumeRate, InitAcc)
    BY DEF reset_internal
  <2> HIDE DEF w
  <2>3. ASSUME NEW l, NEW a PROVE StreamFits(r(l, 4, a))
    BY <1>1, <2>1 DEF StreamFits, IsState, Fields
  <2> HIDE DEF r
  <2> QED
    BY <2>1, <2>2, <2>3
<1>2. IsState([old EXCEPT !.customSecret = initCustomSecret(seed)])
  BY DEF IsState
<1>3. reset_withSeed(old, seed) = IF seed = 0 THEN reset_internal(old, 0, {kSecret}, SecretSize)
        ELSE reset_internal(IF old.seed = seed THEN old
                            ELSE [old EXCEPT !.customSecret = initCustomSecret(seed)],
                            seed, {}, SecretSize)
  BY Zenon DEF reset_withSeed, reset
<1> QED
  BY <1>1, <1>2, <1>3

\* Two stripes, which is as many as the buffer holds, are fewer than a block has.
LEMMA ConsumeFits ==
  ASSUME NEW s, StreamFits(s), NEW input, NEW p
  PROVE  /\ StreamFits(consumeStripes(s, input, p, BufferSize \div StripeLen))
         /\ consumeStripes(s, input, p, BufferSize \div StripeLen).bufferedSize = s.bufferedSize
<1> DEFINE toEnd  == s.nbStripesPerBlock - s.nbStripesSoFar
           secret == SecretOf(s)
           start  == s.nbStripesSoFar * ConsumeRate
           block  == scrambleAcc_scalar(accumulate(s.acc, input, p, secret, start, toEnd),
                                        Window(secret, s.secretLimit, StripeLen))
           one    == accumulate(block, input, p + toEnd * StripeLen, secret, 0, 2 - toEnd)
           two    == accumulate(s.acc, input, p, secret, start, 2)
           failed == s.bad \/ 2 > s.nbStripesPerBlock \/ s.nbStripesSoFar >= s.nbStripesPerBlock
           A == consumeStripes(s, input, p, 2)
<1>1. A = IF toEnd <= 2
            THEN [s EXCEPT !.acc = one, !.nbStripesSoFar = 2 - toEnd, !.bad = failed]
            ELSE [s EXCEPT !.acc = two, !.nbStripesSoFar = s.nbStripesSoFar + 2, !.bad = failed]
  BY DEF consumeStripes
<1>2. /\ failed = FALSE /\ toEnd \in 1..4
      /\ toEnd <= 2 => 2 - toEnd \in 0..3
      /\ ~(toEnd <= 2) => s.nbStripesSoFar + 2 \in 0..3
  BY DEF StreamFits
<1> HIDE DEF one, two, failed, A, toEnd
<1>3. StreamFits(A) /\ A.bufferedSize = s.bufferedSize
  <2>1. CASE toEnd <= 2
    <3>1. PICK n : n = 2 - toEnd
      OBVIOUS
    <3>2. n \in 0..3 /\ A = [s EXCEPT !.acc = one, !.nbStripesSoFar = n, !.bad = failed]
      BY <1>1, <1>2, <2>1, <3>1
    <3> QED
      BY <1>2, <3>2 DEF StreamFits, IsState, Fields
  <2>2. CASE ~(toEnd <= 2)
    <3>1. PICK n : n = s.nbStripesSoFar + 2
      OBVIOUS
    <3>2. n \in 0..3 /\ A = [s EXCEPT !.acc = two, !.nbStripesSoFar = n, !.bad = failed]
      BY <1>1, <1>2, <2>2, <3>1
    <3> QED
      BY <1>2, <3>2 DEF StreamFits, IsState, Fields
  <2> QED
    BY <2>1, <2>2
<1> QED
  BY <1>3, Scale DEF A

LEMMA CopyFits ==
  ASSUME NEW s, StreamFits(s), NEW p \in Nat, NEW bytes, Len(bytes) \in Nat, p + Len(bytes) <= 32
  PROVE  StreamFits(Buffered(s, p, bytes)) /\ Buffered(s, p, bytes).bufferedSize = s.bufferedSize
<1> DEFINE w == s.bad \/ p + Len(bytes) > BufferSize
           v == [k \in DOMAIN s.buffer |->
                   IF k \in p+1..p+Len(bytes) THEN bytes[k - p] ELSE s.buffer[k]]
<1>1. Buffered(s, p, bytes) = [s EXCEPT !.buffer = v, !.bad = w]
  BY DEF Buffered
<1>2. w = FALSE
  BY Scale DEF StreamFits
<1> HIDE DEF v, w
<1> QED
  BY <1>1, <1>2 DEF StreamFits, IsState, Fields

\* An input that does not fit behind what is buffered fills the buffer up.
LEMMA FillFits ==
  ASSUME NEW s, StreamFits(s), NEW S, NEW input \in Seq(S), s.bufferedSize + Len(input) > 32
  PROVE  StreamFits(Filled(s, input))
<1> DEFINE more == BufferSize - s.bufferedSize
           part == Window(input, 0, more)
           full == Buffered(s, s.bufferedSize, part)
           rest == consumeStripes(full, full.buffer, 0, BufferSize \div StripeLen)
<1>1. more \in Nat /\ more <= Len(input) /\ Len(input) \in Nat /\ s.bufferedSize \in Nat
      /\ s.bufferedSize + more = 32
  <2>1. PICK b \in 0..32, l \in Nat : b = s.bufferedSize /\ l = Len(input)
    BY DEF StreamFits
  <2>2. more = 32 - b /\ b + l > 32
    BY <2>1, Scale
  <2> HIDE DEF more
  <2>3. 32 - b \in Nat /\ 32 - b <= l /\ b + (32 - b) = 32 /\ b \in Nat /\ l \in Nat
    BY <2>2
  <2> QED
    BY <2>1, <2>2, <2>3, Zenon
<1>2. Len(part) = more
  <2> HIDE DEF more
  <2> QED
    BY <1>1, WindowLength
<1> HIDE DEF more, part
<1>3. StreamFits(full)
  BY <1>1, <1>2, CopyFits
<1> HIDE DEF full
<1>4. StreamFits(rest)
  BY <1>3, ConsumeFits
<1> HIDE DEF rest
<1>5. StreamFits([rest EXCEPT !.bufferedSize = 0])
  <2>1. PICK r : r = [rest EXCEPT !.bufferedSize = 0]
    OBVIOUS
  <2>2. 0 \in 0..32
    OBVIOUS
  <2>3. StreamFits(r)
    BY <1>4, <2>1, <2>2, SetBuffered
  <2> QED
    BY <2>1, <2>3
<1>6. Filled(s, input) = IF s.bufferedSize = 0 THEN s ELSE [rest EXCEPT !.bufferedSize = 0]
  BY DEF Filled, rest, full, part, more
<1> QED
  BY <1>5, <1>6

\* The recursive function of Buffers, as its definition has it.
NextBuffer(s, input, p, k) ==
  consumeStripes(s, input, p + (k - 1) * BufferSize, BufferSize \div StripeLen)
IsConsuming(f, s, input, p, n) ==
  f = [k \in 0..n |-> IF k = 0 THEN s ELSE NextBuffer(f[k-1], input, p, k)]

LEMMA ConsumingFits ==
  ASSUME NEW s, StreamFits(s), NEW input, NEW p, NEW n \in Nat
  PROVE  \E f : IsConsuming(f, s, input, p, n) /\ \A k \in 0..n : StreamFits(f[k])
<1> DEFINE Good(f, a) == IsConsuming(f, s, input, p, a) /\ \A k \in 0..a : StreamFits(f[k])
           T == {a \in 0..n : \E f : Good(f, a)}
<1>1. 0 \in T
  <2> DEFINE f == [k \in 0..0 |-> s]
  <2>1. IsConsuming(f, s, input, p, 0)
    BY DEF IsConsuming
  <2>2. \A k \in 0..0 : StreamFits(f[k])
    OBVIOUS
  <2> HIDE DEF f
  <2> QED
    BY <2>1, <2>2
<1>2. ASSUME NEW a \in 1..n, a - 1 \in T PROVE a \in T
  <2>1. PICK f : Good(f, a - 1)
    BY <1>2
  <2> DEFINE g == [k \in 0..a |-> IF k = a THEN NextBuffer(f[a-1], input, p, a) ELSE f[k]]
  <2>2. g = [k \in 0..a |-> g[k]]
    OBVIOUS
  <2>3. \A k \in 0..a-1 : g[k] = f[k]
    OBVIOUS
  <2>4. g[a] = NextBuffer(f[a-1], input, p, a)
    OBVIOUS
  <2> HIDE DEF g
  <2>5. ASSUME NEW k \in 0..a PROVE g[k] = IF k = 0 THEN s ELSE NextBuffer(g[k-1], input, p, k)
    <3>1. CASE k = 0
      <4>1. g[0] = f[0] /\ f[0] = s
        BY <2>1, <2>3 DEF IsConsuming
      <4> QED
        BY <3>1, <4>1
    <3>2. CASE k \in 1..a-1
      <4>1. k \in 0..a-1 /\ k - 1 \in 0..a-1 /\ k # 0
        BY <3>2
      <4>2. g[k] = f[k] /\ g[k-1] = f[k-1]
        BY <2>3, <4>1
      <4>3. f[k] = NextBuffer(f[k-1], input, p, k)
        BY <2>1, <4>1 DEF IsConsuming
      <4> QED
        BY <4>1, <4>2, <4>3
    <3>3. CASE k = a
      <4>1. a # 0 /\ g[a-1] = f[a-1]
        BY <2>3
      <4> QED
        BY <2>4, <3>3, <4>1
    <3> QED
      BY <3>1, <3>2, <3>3
  <2>6. IsConsuming(g, s, input, p, a)
    BY <2>2, <2>5 DEF IsConsuming
  <2>7. ASSUME NEW k \in 0..a PROVE StreamFits(g[k])
    <3>1. CASE k \in 0..a-1
      BY <2>1, <2>3, <3>1
    <3>2. CASE k = a
      <4>1. StreamFits(f[a-1])
        BY <2>1
      <4> QED
        BY <2>4, <3>2, <4>1, ConsumeFits DEF NextBuffer
    <3> QED
      BY <3>1, <3>2
  <2> QED
    BY <2>6, <2>7
<1> HIDE DEF T
<1>3. \A a \in 0..n : a \in T
  BY <1>1, <1>2, SetInduction
<1> QED
  BY <1>3 DEF T

LEMMA BuffersFit ==
  ASSUME NEW s, StreamFits(s), NEW input, NEW p, NEW n \in Nat
  PROVE  StreamFits(Buffers(s, input, p, n))
<1> DEFINE f == CHOOSE f : IsConsuming(f, s, input, p, n)
<1>1. PICK g : IsConsuming(g, s, input, p, n) /\ \A k \in 0..n : StreamFits(g[k])
  BY ConsumingFits
<1>2. IsConsuming(f, s, input, p, n)
  BY <1>1
<1>3. Buffers(s, input, p, n) = f[n]
  BY Zenon DEF Buffers, IsConsuming, NextBuffer
<1> HIDE DEF f
<1>4. \A k \in 0..n : StreamFits(f[k])
  <2> DEFINE T == {a \in 0..n : StreamFits(f[a])}
  <2>1. 0 \in T
    BY <1>2 DEF IsConsuming
  <2>2. ASSUME NEW a \in 1..n, a - 1 \in T PROVE a \in T
    <3>1. f[a] = NextBuffer(f[a-1], input, p, a)
      BY <1>2 DEF IsConsuming
    <3>2. StreamFits(f[a-1])
      BY <2>2
    <3> QED
      BY <3>1, <3>2, ConsumeFits DEF NextBuffer
  <2> HIDE DEF T
  <2>3. \A a \in 0..n : a \in T
    BY <2>1, <2>2, SetInduction
  <2> QED
    BY <2>3 DEF T
<1> QED
  BY <1>3, <1>4

\* The whole buffers of the input: something is left behind them, and no more than a
\* buffer.
LEMMA Wholes ==
  ASSUME NEW d \in Nat, d >= 1
  PROVE  LET n == Max({0, (d - 1) \div 32})
         IN  n \in Nat /\ d - 32 * n \in 1..32
<1>1. (d - 1) \div 32 \in Nat /\ d - 32 * ((d - 1) \div 32) \in 1..32
  OBVIOUS
<1> DEFINE k == (d - 1) \div 32
<1> HIDE DEF k
<1>2. k \in Nat /\ Max({0, k}) = k
  <2>1. k \in Nat
    BY <1>1 DEF k
  <2>2. 0 \in Int /\ k \in Int /\ k >= 0
    BY <2>1
  <2>3. Max({0, k}) \in {0, k} /\ Max({0, k}) >= 0 /\ Max({0, k}) >= k
    BY <2>2, MaxOfTwo
  <2> QED
    BY <2>1, <2>3
<1> QED
  BY <1>1, <1>2 DEF k

LEMMA BulkFits ==
  ASSUME NEW s, StreamFits(s), NEW S, NEW input \in Seq(S), NEW p \in Nat, p < Len(input)
  PROVE  StreamFits(Bulk(s, input, p))
<1> DEFINE n == Max({0, (Len(input) - p - 1) \div BufferSize})
           q == p + n * BufferSize
           all == Buffers(s, input, p, n)
           w == Window(input, q - StripeLen, StripeLen)
<1>1. n \in Nat /\ (Len(input) - p) - 32 * n \in 1..32 /\ Len(input) \in Nat
  <2>1. Len(input) - p \in Nat /\ Len(input) - p >= 1 /\ Len(input) \in Nat
    OBVIOUS
  <2> QED
    BY <2>1, Wholes, Scale
<1>2. CASE n = 0
  <2>1. Bulk(s, input, p) = s
    BY <1>2 DEF Bulk
  <2> QED
    BY <2>1
<1>3. CASE n # 0
  <2>1. Bulk(s, input, p) = Buffered(all, BufferSize - StripeLen, w)
    BY <1>3 DEF Bulk
  <2>2. StreamFits(all)
    <3> HIDE DEF n
    <3> QED
      BY <1>1, BuffersFit
  <2>3. Len(w) = 16
    <3>1. q - 16 \in Nat /\ (q - 16) + 16 <= Len(input)
      <4>1. q = p + n * 32
        BY Scale
      <4> HIDE DEF n, q
      <4> DEFINE l == Len(input)
      <4>2. n \in Nat /\ n # 0 /\ p \in Nat /\ l \in Nat /\ (l - p) - 32 * n \in 1..32
        BY <1>1, <1>3
      <4> HIDE DEF l
      <4>3. q \in Nat /\ q - 16 \in Nat /\ q <= l
        BY <4>1, <4>2
      <4>4. (q - 16) + 16 = q
        BY <4>3
      <4>5. q - 16 \in Nat /\ (q - 16) + 16 <= l
        BY <4>3, <4>4, Zenon
      <4> QED
        BY <4>5, Zenon DEF l
    <3>2. StripeLen = 16
      BY Scale
    <3> HIDE DEF q
    <3> QED
      BY <3>1, <3>2, WindowLength
  <2>4. BufferSize - StripeLen = 16
    BY Scale
  <2> HIDE DEF all, w
  <2>5. 16 \in Nat /\ Len(w) \in Nat /\ 16 + Len(w) <= 32
    BY <2>3
  <2>6. StreamFits(Buffered(all, 16, w))
    BY <2>2, <2>5, CopyFits
  <2> QED
    BY <2>1, <2>4, <2>6
<1> QED
  BY <1>2, <1>3

\* update() begins with noting the length.
Noted(s, input) ==
  [s EXCEPT !.totalLen = @ + Len(input), !.bad = @ \/ s.bufferedSize > BufferSize]

LEMMA NotedFits ==
  ASSUME NEW s0, StreamFits(s0), NEW input
  PROVE  StreamFits(Noted(s0, input))
<1> DEFINE w == s0.bad \/ s0.bufferedSize > BufferSize
           t == s0.totalLen + Len(input)
<1>1. Noted(s0, input) = [s0 EXCEPT !.totalLen = t, !.bad = w]
  BY DEF Noted
<1>2. w = FALSE
  <2>1. PICK b \in 0..32 : b = s0.bufferedSize
    BY DEF StreamFits
  <2>2. ~(b > BufferSize) /\ s0.bad = FALSE
    BY Scale DEF StreamFits
  <2> QED
    BY <2>1, <2>2
<1> HIDE DEF t, w
<1> QED
  BY <1>1, <1>2, SetTotalBad

\* What the lengths come to.
LEMMA LittleMore ==
  ASSUME NEW b \in 0..32, NEW l \in Nat, b + l <= 32
  PROVE  b \in Nat /\ b + l \in 0..32
  OBVIOUS

Skipped(b)  == IF b = 0 THEN 0 ELSE 32 - b
Taken(b, l) == Skipped(b) + 32 * Max({0, (l - Skipped(b) - 1) \div 32})

LEMMA Amounts ==
  ASSUME NEW b \in 0..32, NEW l \in Nat, b + l > 32
  PROVE  /\ Skipped(b) \in Nat /\ Skipped(b) < l
         /\ Taken(b, l) \in Nat /\ l - Taken(b, l) \in 1..32
         /\ Taken(b, l) + (l - Taken(b, l)) = l
<1> DEFINE p == Skipped(b)
           n == Max({0, (l - p - 1) \div 32})
<1>1. p \in Nat /\ p < l
  BY DEF Skipped
<1> HIDE DEF p
<1>2. PICK d \in Nat : d = l - p /\ d >= 1
  BY <1>1
<1>3. n \in Nat /\ (l - p) - 32 * n \in 1..32
  BY <1>2, Wholes
<1>4. Taken(b, l) = p + 32 * n
  BY DEF Taken, p
<1> HIDE DEF n
<1>5. PICK q : q = p + 32 * n
  OBVIOUS
<1>6. q \in Nat /\ l - q \in 1..32 /\ q + (l - q) = l
  BY <1>1, <1>3, <1>5
<1> QED
  BY <1>1, <1>4, <1>5, <1>6 DEF p

LEMMA AppendedFits ==
  ASSUME NEW s, StreamFits(s), NEW input, NEW b \in 0..32, b = s.bufferedSize,
         NEW l \in Nat, l = Len(input), b + l <= 32
  PROVE  StreamFits(Appended(s, input))
<1>1. b \in Nat /\ b + l \in 0..32 /\ Len(input) \in Nat /\ b + Len(input) <= 32
  <2>1. b \in Nat /\ b + l \in 0..32
    BY LittleMore
  <2> QED
    BY <2>1, Zenon
<1>2. PICK t : t = Buffered(s, b, input)
  OBVIOUS
<1>3. StreamFits(t) /\ t.bufferedSize = b
  BY <1>1, <1>2, CopyFits
<1>4. Appended(s, input) = [t EXCEPT !.bufferedSize = b + l]
  BY <1>2, <1>3 DEF Appended
<1>5. PICK c : c = b + l
  OBVIOUS
<1>6. c \in 0..32 /\ Appended(s, input) = [t EXCEPT !.bufferedSize = c]
  BY <1>1, <1>4, <1>5
<1> QED
  BY <1>3, <1>6, SetBuffered

LEMMA ConsumedFits ==
  ASSUME NEW s, StreamFits(s), NEW S, NEW input \in Seq(S), NEW b \in 0..32, b = s.bufferedSize,
         NEW l \in Nat, l = Len(input), b + l > 32
  PROVE  StreamFits(Consumed(s, input))
<1> DEFINE p == Skipped(b)
           q == Taken(b, l)
           t == Bulk(Filled(s, input), input, p)
           r == Window(input, q, l - q)
           u == Buffered(t, 0, r)
           w == u.bad \/ r = <<>>
<1>1. Consumed(s, input) = [u EXCEPT !.bufferedSize = Len(r), !.bad = w]
  BY Scale DEF Consumed, Skipped, Taken
<1>2. p \in Nat /\ p < l /\ q \in Nat /\ l - q \in 1..32 /\ q + (l - q) = l
  BY Amounts
<1> HIDE DEF p, q
<1>5. StreamFits(t)
  <2>1. s.bufferedSize + Len(input) > 32 /\ p < Len(input)
    BY <1>2, Zenon
  <2>2. StreamFits(Filled(s, input))
    BY <2>1, FillFits
  <2> QED
    BY <1>2, <2>1, <2>2, BulkFits
<1> HIDE DEF t
<1>6. Len(r) \in 1..32
  <2>1. PICK m : m = l - q
    OBVIOUS
  <2>2. m \in 1..32 /\ q + m = Len(input)
    BY <1>2, <2>1, Zenon
  <2>3. Len(Window(input, q, m)) = m
    BY <1>2, <2>2, WindowLength
  <2> QED
    BY <2>1, <2>2, <2>3
<1> HIDE DEF r
<1>7. r # <<>> /\ Len(r) \in Nat /\ 0 + Len(r) <= 32 /\ 0 \in Nat /\ Len(r) \in 0..32
  <2>1. \A k \in 1..32 : k # 0 /\ k \in Nat /\ 0 + k <= 32 /\ 0 \in Nat /\ k \in 0..32
    OBVIOUS
  <2>2. r # <<>>
    BY <1>6, <2>1, EmptySeq
  <2> QED
    BY <1>6, <2>1, <2>2, Zenon
<1>8. StreamFits(u)
  BY <1>5, <1>7, CopyFits
<1> HIDE DEF u
<1>9. w = FALSE
  BY <1>7, <1>8 DEF StreamFits
<1> HIDE DEF w
<1>10. PICK k : k = Len(r)
  OBVIOUS
<1> QED
  BY <1>1, <1>7, <1>8, <1>9, <1>10, SetBufferedBad

\* Whatever is handed to a stream, nothing is copied past the end of its buffer.
LEMMA UpdateFits ==
  ASSUME NEW s0, StreamFits(s0), NEW S, NEW input \in Seq(S)
  PROVE  StreamFits(update(s0, input))
<1>1. PICK s : s = Noted(s0, input)
  OBVIOUS
<1>2. StreamFits(s)
  BY <1>1, NotedFits
<1>3. PICK b \in 0..32, l \in Nat : b = s.bufferedSize /\ l = Len(input)
  BY <1>2 DEF StreamFits
<1>4. update(s0, input) = IF s.bufferedSize + Len(input) <= BufferSize
                          THEN Appended(s, input) ELSE Consumed(s, input)
  BY <1>1, Zenon DEF update, Noted
<1>5. CASE b + l <= 32
  <2>1. update(s0, input) = Appended(s, input)
    BY <1>3, <1>4, <1>5, Scale
  <2> QED
    BY <1>2, <1>3, <1>5, <2>1, AppendedFits
<1>6. CASE b + l > 32
  <2>1. update(s0, input) = Consumed(s, input)
    BY <1>3, <1>4, <1>6, Scale
  <2> QED
    BY <1>2, <1>3, <1>6, <2>1, ConsumedFits
<1> QED
  BY <1>5, <1>6

\* The stack may hold anything, but in hash1() the state is one that was reset.
StateInv ==
  /\ IsState(st) /\ ~st.bad
  /\ Hashing => StreamFits(st)

LEMMA StateStep == IInv /\ StateInv /\ [Next]_vars => StateInv'
<1> SUFFICES ASSUME IInv, StateInv, [Next]_vars PROVE StateInv'
  OBVIOUS
<1>b. /\ B \in [1..Bufsz -> Half] /\ B' \in [1..Bufsz -> Half] /\ Bufsz \in Nat /\ Bufsz >= 1
      /\ Z \in 0..Bufsz
  BY NextHolds, HashfAssumption, PartSize DEF IInv, TypeOK
<1>0. \A z : IsState(Garbage(z))
  BY DEF Garbage, IsState, Fields
<1>1. ASSUME NEW f, NEW l, NEW z, NEW s, Hash1(f, l, z, s) PROVE StreamFits(st')
  <2>1. PICK old \in {st, Garbage(z), Garbage(z + 1)} : st' = reset_withSeed(old, z)
    BY <1>1 DEF Hash1
  <2>2. IsState(old)
    BY <1>0, <2>1 DEF StateInv
  <2> QED
    BY <2>1, <2>2, ResetFits
<1>2. StreamFits(st') => StateInv'
  BY DEF StateInv, StreamFits
<1>3. CASE OpenFile
  BY <1>1, <1>2, <1>3 DEF OpenFile
<1>4. CASE Stdin
  BY <1>1, <1>2, <1>4 DEF Stdin
<1>5. CASE ReadWhole
  <2>1. CASE st' = st
    BY <1>2, <1>5, <2>1 DEF ReadWhole, StateInv, Hashing
  <2>2. CASE Updated(Window(B', 0, 1))
    <3>1. PICK b : b = Window(B', 0, 1)
      OBVIOUS
    <3>2. StreamFits(st) /\ st' = update(st, b)
      BY <1>5, <2>2, <3>1 DEF ReadWhole, StateInv, Hashing, Updated
    <3>3. b \in Seq(Half)
      BY <1>b, <3>1, WindowType
    <3> QED
      BY <1>2, <3>2, <3>3, UpdateFits
  <2> QED
    BY <1>5, <2>1, <2>2 DEF ReadWhole
<1>6. CASE Update
  <2>1. PICK b : b = Window(B, 0, Z)
    OBVIOUS
  <2>2. StreamFits(st) /\ st' = update(st, b)
    BY <1>6, <2>1 DEF Update, StateInv, Hashing, Updated
  <2>3. b \in Seq(Half)
    BY <1>b, <2>1, WindowType
  <2> QED
    BY <1>2, <2>2, <2>3, UpdateFits
<1>7. CASE OpenFails \/ Exit \/ ReadPart \/ EndPart \/ Digest \/ Stopped \/ UNCHANGED vars
  <2>1. st' = st /\ (Hashing' => Hashing)
    BY <1>7 DEF OpenFails, Exit, ReadPart, EndPart, Digest, Stopped, vars, state, Hashing
  <2> QED
    BY <2>1 DEF StateInv
<1> QED
  BY <1>3, <1>4, <1>5, <1>6, <1>7 DEF Next

---------------------------------------------------------------------------
LEMMA Inductive == Spec => []IInv
<1>1. Init => IInv
  BY InitHolds
<1>2. IInv /\ [Next]_vars => IInv'
  BY NextHolds
<1> QED
  BY <1>1, <1>2, PTL DEF Spec

\* The loops of hash1() and main() keep their types (hashf.c:90-108, :176-222); of any
\* files, strides and hiccups, and with any buffer that is a multiple of a part.
THEOREM TypeCorrect == Spec => []TypeOK
<1>1. IInv => TypeOK
  BY DEF IInv
<1> QED
  BY <1>1, Inductive, PTL

\* The parts that are collected between two updates, the one that is being read among
\* them, fit into the buffer of hash1() (hashf.c:99-105), which nothing in the code
\* checks while a part is read.
THEOREM PartsFit == Spec => [](Z + stp <= Bufsz /\ (pc = "part" => Z + READ <= Bufsz))
<1>1. ASSUME IInv
      PROVE  Z + stp <= Bufsz /\ (pc = "part" => Z + READ <= Bufsz)
  <2>1. /\ stp \in 0..READ /\ Z \in 0..Bufsz /\ Bufsz \in Nat /\ READ = 32 /\ Bufsz % READ = 0
    BY <1>1, HashfAssumption, PartSize DEF IInv, TypeOK
  <2>2. CASE Parting
    BY <1>1, <2>1, <2>2 DEF IInv, PartInv
  <2>3. CASE ~Parting
    BY <1>1, <2>1, <2>3 DEF IInv, PartInv, Parting
  <2> QED
    BY <2>2, <2>3
<1> QED
  BY <1>1, Inductive, PTL

\* No assertion of the library fails, nothing is copied past the end of the buffer in
\* the state of a stream, and nothing is read past the end of B: whatever is read, as
\* much of it as there may be, and whatever was on the stack before
\* (hashf.c:83-131, xxhash.h:4560-4706).
THEOREM StaysInBounds == Spec => []InBounds
<1>1. Init => StateInv
  BY DEF Init, StateInv, Garbage, IsState, Fields, Hashing
<1>2. Spec => []StateInv
  BY <1>1, Inductive, StateStep, PTL DEF Spec
<1>3. StateInv /\ (Z + stp <= Bufsz /\ (pc = "part" => Z + READ <= Bufsz)) => InBounds
  BY DEF StateInv, InBounds
<1> QED
  BY <1>2, <1>3, PartsFit, PTL

---------------------------------------------------------------------------
\* Sequences one after the other: the recursive function of FlattenSeq, as its
\* definition has it.
Longer(f, S, k) == IF k = 1 THEN S[k] ELSE f[k-1] \o S[k]
IsFlattening(f, S, n) == f = [k \in 1..n |-> Longer(f, S, k)]

LEMMA OneFlattening ==
  ASSUME NEW S
  PROVE  \E f : IsFlattening(f, S, 1) /\ f[1] = S[1]
<1> DEFINE f == [k \in 1..1 |-> S[1]]
<1>1. IsFlattening(f, S, 1) /\ f[1] = S[1]
  BY DEF IsFlattening, Longer
<1> HIDE DEF f
<1> QED
  BY <1>1

LEMMA NextFlattening ==
  ASSUME NEW S, NEW n \in Nat, n >= 1, NEW f, IsFlattening(f, S, n)
  PROVE  \E g : IsFlattening(g, S, n + 1) /\ g[n + 1] = f[n] \o S[n + 1]
<1> DEFINE g == [k \in 1..n+1 |-> IF k = n + 1 THEN f[n] \o S[n + 1] ELSE f[k]]
<1>1. g = [k \in 1..n+1 |-> g[k]]
  OBVIOUS
<1>2. g[n + 1] = f[n] \o S[n + 1] /\ \A k \in 1..n : g[k] = f[k]
  <2>1. n + 1 \in 1..n+1 /\ \A k \in 1..n : k # n + 1 /\ k \in 1..n+1
    OBVIOUS
  <2> QED
    BY <2>1, Zenon
<1> HIDE DEF g
<1>3. ASSUME NEW k \in 1..n+1 PROVE g[k] = Longer(g, S, k)
  <2>1. CASE k = 1
    BY <1>2, <2>1 DEF IsFlattening, Longer
  <2>2. CASE k \in 2..n
    <3>1. k \in 1..n /\ k - 1 \in 1..n /\ k # 1
      BY <2>2
    <3>2. f[k] = f[k-1] \o S[k]
      BY <3>1 DEF IsFlattening, Longer
    <3> QED
      BY <1>2, <3>1, <3>2 DEF Longer
  <2>3. CASE k = n + 1
    <3>1. k - 1 = n /\ k # 1 /\ n \in 1..n
      BY <2>3
    <3> QED
      BY <1>2, <2>3, <3>1 DEF Longer
  <2> QED
    BY <2>1, <2>2, <2>3
<1>4. IsFlattening(g, S, n + 1)
  BY <1>1, <1>3 DEF IsFlattening
<1> QED
  BY <1>2, <1>4

LEMMA FlatteningExists ==
  ASSUME NEW S, NEW n \in Nat, n >= 1
  PROVE  \E f : IsFlattening(f, S, n)
<1> DEFINE T == {a \in 0..n : a # 0 => \E f : IsFlattening(f, S, a)}
<1>1. 0 \in T
  OBVIOUS
<1>2. ASSUME NEW a \in 1..n, a - 1 \in T PROVE a \in T
  <2>1. CASE a = 1
    BY <2>1, OneFlattening
  <2>2. CASE a # 1
    <3>1. a - 1 \in Nat /\ a - 1 >= 1 /\ (a - 1) + 1 = a /\ a - 1 # 0
      BY <2>2
    <3>2. PICK f : IsFlattening(f, S, a - 1)
      BY <1>2, <3>1
    <3>3. PICK g : IsFlattening(g, S, (a - 1) + 1)
      BY <3>1, <3>2, NextFlattening
    <3> QED
      BY <3>1, <3>3
  <2> QED
    BY <2>1, <2>2
<1> HIDE DEF T
<1>3. n \in T
  BY <1>1, <1>2, SetInduction
<1> QED
  BY <1>3 DEF T

\* Sequences that begin alike are put together alike as far as that goes.
LEMMA FlatteningsAgree ==
  ASSUME NEW S, NEW R, NEW n \in Nat, NEW m \in Nat, 1 <= n, n <= m,
         NEW f, NEW g, IsFlattening(f, S, n), IsFlattening(g, R, m),
         \A k \in 1..n : S[k] = R[k]
  PROVE  f[n] = g[n]
<1> DEFINE T == {a \in 0..n : a # 0 => f[a] = g[a]}
<1>1. 0 \in T
  OBVIOUS
<1>2. ASSUME NEW a \in 1..n, a - 1 \in T PROVE a \in T
  <2>0. a \in 1..m /\ S[a] = R[a]
    OBVIOUS
  <2>1. f[a] = Longer(f, S, a) /\ g[a] = Longer(g, R, a)
    BY <2>0, Zenon DEF IsFlattening
  <2>2. a # 1 => f[a-1] = g[a-1]
    BY <1>2
  <2>3. f[a] = g[a]
    BY <2>0, <2>1, <2>2, Zenon DEF Longer
  <2> QED
    BY <2>3
<1> HIDE DEF T
<1>3. n \in T
  BY <1>1, <1>2, SetInduction
<1> QED
  BY <1>3 DEF T

LEMMA FlattenIs ==
  ASSUME NEW S, NEW n \in Nat, Len(S) = n, n >= 1, NEW f, IsFlattening(f, S, n)
  PROVE  FlattenSeq(S) = f[n]
<1> DEFINE g == CHOOSE g : IsFlattening(g, S, Len(S))
<1>1. IsFlattening(g, S, Len(S))
  OBVIOUS
<1>2. FlattenSeq(S) = IF Len(S) = 0 THEN S ELSE g[Len(S)]
  BY Zenon DEF FlattenSeq, IsFlattening, Longer
<1> HIDE DEF g
<1>3. f[n] = g[n]
  BY <1>1, FlatteningsAgree
<1> QED
  BY <1>2, <1>3

\* What flattening the first n members gives, and what the next one adds.
LEMMA FlattenNone == FlattenSeq(<<>>) = <<>>
  BY EmptySeq DEF FlattenSeq

LEMMA FlattenOne ==
  ASSUME NEW S, Len(S) = 1
  PROVE  FlattenSeq(S) = S[1]
<1>1. PICK f : IsFlattening(f, S, 1) /\ f[1] = S[1]
  BY OneFlattening
<1>2. 1 \in Nat /\ 1 >= 1
  OBVIOUS
<1> QED
  BY <1>1, <1>2, FlattenIs

LEMMA FlattenNext ==
  ASSUME NEW S, NEW R, NEW n \in Nat, n >= 1, Len(S) = n, Len(R) = n + 1,
         \A k \in 1..n : S[k] = R[k]
  PROVE  FlattenSeq(R) = FlattenSeq(S) \o R[n + 1]
<1>1. PICK f : IsFlattening(f, R, n)
  BY FlatteningExists
<1>2. PICK g : IsFlattening(g, R, n + 1) /\ g[n + 1] = f[n] \o R[n + 1]
  BY <1>1, NextFlattening
<1>3. PICK h : IsFlattening(h, S, n)
  BY FlatteningExists
<1>4. h[n] = f[n]
  BY <1>1, <1>3, FlatteningsAgree
<1>5. FlattenSeq(S) = h[n] /\ FlattenSeq(R) = g[n + 1]
  <2>1. n + 1 \in Nat /\ n + 1 >= 1
    OBVIOUS
  <2> QED
    BY <1>2, <1>3, <2>1, FlattenIs
<1> QED
  BY <1>2, <1>4, <1>5

---------------------------------------------------------------------------
\* What is hashed of a file that is read without a hiccup.

HeadAt(l, q) == Window(Content(l), q, Least(READ, l - q))
FirstHeads(n, l, s) == FlattenSeq([k \in 1..n |-> HeadAt(l, (k - 1) * s)])
FirstBytes(m, l) == [k \in 1..m |-> Content(l)[(k - 1) * Bufsz + 1]]

\* What was hashed, and after it what waits to be.
Collected == fed \o Window(B, 0, Z + stp)

\* The size that fstat() gave is right or 0, and a loop is only entered with strides.
FileInv ==
  /\ Hashing => fz \in {len, 0}
  /\ pc = "whole" => ~Strided(strd, fz)
  /\ Parting \/ pc = "update" => Strided(strd, fz)

\* A byte for each buffer that was read, none of them beyond the end.
BytesInv ==
  LET m == Len(fed)
  IN  /\ fed = FirstBytes(m, len)
      /\ pos = Least(m * Bufsz, len)
      /\ (m - 1) * Bufsz < len

\* i parts, or one more if one has been read; that is the whole of it, since a part is
\* short only where the file ends.
HeadsInv ==
  /\ pc = "part" =>
       /\ pos = (i * strd) + stp
       /\ stp = 0 => Collected = FirstHeads(i, len, strd)
       /\ stp # 0 => /\ stp = Least(READ, len - (i * strd))
                     /\ Collected = FirstHeads(i + 1, len, strd)
  /\ pc = "seek" => Collected = FirstHeads(i + 1, len, strd)
  /\ pc = "update" => pos = i * strd /\ Collected = FirstHeads(i, len, strd)

OrderInv ==
  /\ left = Hiccups =>
       /\ Hashing => fed \in Seq(Half)
       /\ pc = "whole" => BytesInv
       /\ HeadsInv
  /\ PartsHashed

LEMMA ContentSeq ==
  ASSUME NEW l \in Nat
  PROVE  Content(l) \in Seq(Half) /\ Len(Content(l)) = l
<1>1. PICK c : c = Content(l)
  OBVIOUS
<1>2. c \in [1..l -> Half]
  BY <1>1, ContentType
<1>3. c \in Seq(Half) /\ Len(c) = l
  BY <1>2
<1> QED
  BY <1>1, <1>3

\* A part is nothing beyond the end of the file.
LEMMA HeadType ==
  ASSUME NEW l \in Nat, NEW q \in Nat
  PROVE  /\ HeadAt(l, q) \in Seq(Half)
         /\ q >= l => HeadAt(l, q) = <<>>
<1>1. PICK c : c = Content(l)
  OBVIOUS
<1>2. c \in [1..l -> Half]
  BY <1>1, ContentType
<1>3. PICK n \in Int : n = Least(READ, l - q)
  <2>1. Least(READ, l - q) \in Int
    BY PartSize DEF Least
  <2> QED
    BY <2>1
<1>4. q + n <= l /\ (q >= l => q + n < q + 1)
  BY <1>3, PartSize DEF Least
<1>5. HeadAt(l, q) = SubSeq(c, q + 1, q + n)
  BY <1>1, <1>3 DEF HeadAt, Window
<1>6. q + 1 \in Int /\ q + n \in Int /\ \A k \in q+1..q+n : c[k] \in Half
  BY <1>2, <1>4
<1> HIDE DEF HeadAt
<1>7. SubSeq(c, q + 1, q + n) \in Seq(Half)
  BY <1>6, SubSeqProperties
<1>8. q >= l => SubSeq(c, q + 1, q + n) = <<>>
  BY <1>4, <1>6, SubSeqEmpty
<1> QED
  BY <1>5, <1>7, <1>8

LEMMA NoHeads ==
  ASSUME NEW l, NEW s
  PROVE  FirstHeads(0, l, s) = <<>>
<1>1. [k \in 1..0 |-> HeadAt(l, (k - 1) * s)] = <<>>
  OBVIOUS
<1> QED
  BY <1>1, FlattenNone DEF FirstHeads

LEMMA NextHead ==
  ASSUME NEW n \in Nat, NEW l \in Nat, NEW s \in Nat
  PROVE  FirstHeads(n + 1, l, s) = FirstHeads(n, l, s) \o HeadAt(l, n * s)
<1> DEFINE S(m) == [k \in 1..m |-> HeadAt(l, (k - 1) * s)]
<1>1. ASSUME NEW m \in Nat PROVE Len(S(m)) = m
  OBVIOUS
<1>2. ASSUME NEW m \in Nat, NEW k \in 1..m PROVE S(m)[k] = HeadAt(l, (k - 1) * s)
  OBVIOUS
<1>3. n + 1 \in Nat /\ n + 1 \in 1..n+1 /\ (n + 1) - 1 = n
  OBVIOUS
<1>4. S(n + 1)[n + 1] = HeadAt(l, n * s)
  <2> HIDE DEF S
  <2>1. S(n + 1)[n + 1] = HeadAt(l, ((n + 1) - 1) * s)
    BY <1>2, <1>3
  <2> QED
    BY <1>3, <2>1
<1>5. FirstHeads(n + 1, l, s) = FlattenSeq(S(n + 1)) /\ FirstHeads(n, l, s) = FlattenSeq(S(n))
  BY DEF FirstHeads
<1>6. CASE n = 0
  <2>1. Len(S(n + 1)) = 1
    BY <1>1, <1>3, <1>6
  <2>2. HeadAt(l, n * s) \in Seq(Half)
    <3>1. n * s \in Nat
      OBVIOUS
    <3> QED
      BY <3>1, HeadType
  <2> HIDE DEF S
  <2>3. FlattenSeq(S(n + 1)) = S(n + 1)[1] /\ 1 = n + 1
    BY <1>6, <2>1, FlattenOne
  <2>4. FirstHeads(n, l, s) = <<>>
    BY <1>6, NoHeads
  <2>5. <<>> \o HeadAt(l, n * s) = HeadAt(l, n * s)
    BY <2>2, ConcatEmptySeq
  <2> QED
    BY <1>4, <1>5, <2>3, <2>4, <2>5
<1>7. CASE n # 0
  <2>1. n >= 1 /\ \A k \in 1..n : k \in 1..n+1
    BY <1>7
  <2>2. Len(S(n)) = n /\ Len(S(n + 1)) = n + 1
    BY <1>1, <1>3
  <2>3. \A k \in 1..n : S(n)[k] = S(n + 1)[k]
    BY <1>2, <1>3, <2>1, Zenon
  <2> HIDE DEF S
  <2>4. FlattenSeq(S(n + 1)) = FlattenSeq(S(n)) \o S(n + 1)[n + 1]
    BY <2>1, <2>2, <2>3, FlattenNext
  <2> QED
    BY <1>4, <1>5, <2>4
<1> QED
  BY <1>6, <1>7

LEMMA HeadsType ==
  ASSUME NEW n \in Nat, NEW l \in Nat, NEW s \in Nat
  PROVE  FirstHeads(n, l, s) \in Seq(Half)
<1> DEFINE T == {a \in 0..n : FirstHeads(a, l, s) \in Seq(Half)}
<1>1. 0 \in T
  <2>1. 0 \in 0..n /\ <<>> \in Seq(Half)
    BY EmptySeq
  <2> QED
    BY <2>1, NoHeads
<1>2. ASSUME NEW a \in 1..n, a - 1 \in T PROVE a \in T
  <2>1. a - 1 \in Nat /\ (a - 1) + 1 = a /\ (a - 1) * s \in Nat
    OBVIOUS
  <2>2. FirstHeads(a, l, s) = FirstHeads(a - 1, l, s) \o HeadAt(l, (a - 1) * s)
    BY <2>1, NextHead
  <2>3. HeadAt(l, (a - 1) * s) \in Seq(Half) /\ FirstHeads(a - 1, l, s) \in Seq(Half)
    BY <1>2, <2>1, HeadType
  <2>4. FirstHeads(a, l, s) \in Seq(Half)
    BY <2>2, <2>3, ConcatProperties
  <2> QED
    BY <2>4
<1> HIDE DEF T
<1>3. n \in T
  BY <1>1, <1>2, SetInduction
<1> QED
  BY <1>3 DEF T

LEMMA Monotonic ==
  ASSUME NEW a \in Nat, NEW b \in Nat, NEW s \in Nat, a <= b
  PROVE  a * s <= b * s
  OBVIOUS

\* Strides beyond the end of the file add nothing.
LEMMA HeadsBeyond ==
  ASSUME NEW n \in Nat, NEW m \in Nat, n <= m, NEW l \in Nat, NEW s \in Nat, n * s >= l
  PROVE  FirstHeads(m, l, s) = FirstHeads(n, l, s)
<1> DEFINE T == {a \in 0..m-n : FirstHeads(n + a, l, s) = FirstHeads(n, l, s)}
<1>1. 0 \in T
  <2>1. n + 0 = n /\ 0 \in 0..m-n
    OBVIOUS
  <2> QED
    BY <2>1
<1>2. ASSUME NEW a \in 1..m-n, a - 1 \in T PROVE a \in T
  <2>1. PICK b \in Nat : b = n + (a - 1)
    OBVIOUS
  <2>2. b + 1 = n + a /\ n <= b
    BY <2>1
  <2>3. b * s \in Nat /\ n * s \in Nat /\ n * s <= b * s
    BY <2>2, Monotonic
  <2>4. b * s >= l
    BY <2>3
  <2>5. FirstHeads(b + 1, l, s) = FirstHeads(b, l, s) \o HeadAt(l, b * s)
    BY NextHead
  <2>6. HeadAt(l, b * s) = <<>> /\ FirstHeads(b, l, s) \in Seq(Half)
    BY <2>3, <2>4, HeadType, HeadsType
  <2>7. FirstHeads(b + 1, l, s) = FirstHeads(b, l, s)
    BY <2>5, <2>6, ConcatEmptySeq
  <2>8. FirstHeads(b, l, s) = FirstHeads(n, l, s)
    BY <1>2, <2>1
  <2> QED
    BY <2>2, <2>7, <2>8
<1> HIDE DEF T
<1>3. m - n \in Nat /\ m - n \in 0..m-n /\ n + (m - n) = m
  OBVIOUS
<1>4. m - n \in T
  BY <1>1, <1>2, <1>3, SetInduction
<1> QED
  BY <1>3, <1>4 DEF T

\* As many as it takes: l divided by s, rounded up.
LEMMA RoundedUp ==
  ASSUME NEW l \in Nat, NEW s \in Nat, s >= 1
  PROVE  /\ (l + s - 1) \div s \in Nat
         /\ ((l + s - 1) \div s) * s >= l
         /\ \A n \in Nat : n * s >= l => (l + s - 1) \div s <= n
         /\ \A n \in Nat : n * s >= l /\ (n - 1) * s < l => (l + s - 1) \div s = n
<1>1. PICK x \in Nat : x = l + s - 1
  OBVIOUS
<1>2. PICK d \in Nat : d = x \div s /\ s * d <= x /\ x < (s * d) + s
  OBVIOUS
<1>3. d * s >= l /\ (d * s) - s < l
  BY <1>1, <1>2
<1>4. ASSUME NEW n \in Nat, n * s >= l, ~(d <= n) PROVE FALSE
  <2>1. n <= d - 1 /\ d - 1 \in Nat
    BY <1>4
  <2>2. n * s <= (d - 1) * s
    BY <2>1, Monotonic
  <2>3. (d - 1) * s = (d * s) - s
    OBVIOUS
  <2>4. n * s \in Nat /\ (d - 1) * s \in Int /\ d * s \in Nat
    OBVIOUS
  <2> QED
    BY <1>3, <1>4, <2>2, <2>3, <2>4
<1>5. ASSUME NEW n \in Nat, n * s >= l, (n - 1) * s < l PROVE d = n
  <2>1. d <= n
    BY <1>4, <1>5
  <2>2. ASSUME d # n PROVE FALSE
    <3>1. d <= n - 1 /\ n - 1 \in Nat
      BY <2>1, <2>2
    <3>2. d * s <= (n - 1) * s
      BY <3>1, Monotonic
    <3>3. d * s \in Nat /\ (n - 1) * s \in Int
      OBVIOUS
    <3> QED
      BY <1>3, <1>5, <3>2, <3>3
  <2> QED
    BY <2>2
<1>6. (l + s - 1) \div s = d
  BY <1>1, <1>2
<1> QED
  BY <1>3, <1>4, <1>5, <1>6

\* The bytes of the buffers.
LEMMA BytesType ==
  ASSUME NEW m \in Nat, NEW l \in Nat, (m - 1) * Bufsz < l
  PROVE  FirstBytes(m, l) \in [1..m -> Half]
<1>1. ASSUME NEW k \in 1..m PROVE Content(l)[(k - 1) * Bufsz + 1] \in Half
  <2>1. Bufsz \in Nat
    BY HashfAssumption
  <2>2. (k - 1) * Bufsz <= (m - 1) * Bufsz
    <3>1. k - 1 \in Nat /\ m - 1 \in Nat /\ k - 1 <= m - 1
      OBVIOUS
    <3> QED
      BY <2>1, <3>1, Monotonic
  <2>3. PICK q \in Nat, r \in Nat : q = (k - 1) * Bufsz /\ r = (m - 1) * Bufsz
    <3>1. k - 1 \in Nat /\ m - 1 \in Nat
      OBVIOUS
    <3> QED
      BY <2>1, <3>1
  <2>4. q + 1 \in 1..l
    BY <2>2, <2>3
  <2>5. Content(l)[q + 1] \in Half
    BY <2>4, ContentType
  <2> QED
    BY <2>3, <2>5
<1> QED
  BY <1>1 DEF FirstBytes

LEMMA NextByte ==
  ASSUME NEW m \in Nat, NEW l \in Nat, m * Bufsz < l
  PROVE  /\ FirstBytes(m + 1, l) = FirstBytes(m, l) \o <<Content(l)[m * Bufsz + 1]>>
         /\ FirstBytes(m + 1, l) \in Seq(Half) /\ Len(FirstBytes(m + 1, l)) = m + 1
<1>1. Bufsz \in Nat /\ m + 1 \in Nat /\ (m + 1) - 1 = m /\ m - 1 \in Int
  BY HashfAssumption
<1>2. (m - 1) * Bufsz < l
  <2>1. (m - 1) * Bufsz = (m * Bufsz) - Bufsz /\ m * Bufsz \in Nat
    BY <1>1
  <2> QED
    BY <1>1, <2>1
<1>3. FirstBytes(m, l) \in [1..m -> Half] /\ FirstBytes(m + 1, l) \in [1..m+1 -> Half]
  BY <1>1, <1>2, BytesType
<1>4. FirstBytes(m + 1, l)[m + 1] = Content(l)[m * Bufsz + 1]
  BY <1>1 DEF FirstBytes
<1>5. \A k \in 1..m : FirstBytes(m + 1, l)[k] = FirstBytes(m, l)[k]
  BY DEF FirstBytes
<1>6. PICK a, b, x : a = FirstBytes(m, l) /\ b = FirstBytes(m + 1, l) /\ x = Content(l)[m * Bufsz + 1]
  OBVIOUS
<1>7. a \in Seq(Half) /\ Len(a) = m /\ b \in Seq(Half) /\ Len(b) = m + 1 /\ x \in Half
  BY <1>3, <1>4, <1>6
<1>8. <<x>> \in Seq(Half) /\ Len(<<x>>) = 1 /\ <<x>>[1] = x
  BY <1>7
<1>9. /\ a \o <<x>> \in Seq(Half) /\ Len(a \o <<x>>) = m + 1
      /\ \A k \in 1..m+1 : (a \o <<x>>)[k] = IF k <= m THEN a[k] ELSE <<x>>[k - m]
  BY <1>7, <1>8, ConcatProperties
<1>10. \A k \in 1..m+1 : (a \o <<x>>)[k] = b[k]
  <2> TAKE k \in 1..m+1
  <2>1. /\ k <= m => k \in 1..m
        /\ ~(k <= m) => k = m + 1 /\ k - m = 1
    OBVIOUS
  <2>2. CASE k <= m
    BY <1>5, <1>6, <1>9, <2>1, <2>2, Zenon
  <2>3. CASE ~(k <= m)
    BY <1>4, <1>6, <1>8, <1>9, <2>1, <2>3, Zenon
  <2> QED
    BY <2>2, <2>3, Zenon
<1>11. a \o <<x>> = b
  BY <1>7, <1>9, <1>10, SeqEqual
<1> QED
  BY <1>6, <1>7, <1>11

---------------------------------------------------------------------------
\* A read that did not fall short.
LEMMA NoHiccup ==
  ASSUME IInv, NEW p, NEW asked, NEW n, Read(p, asked, n), left' = Hiccups
  PROVE  left = Hiccups /\ n = Full(asked)
<1>1. left \in 0..Hiccups /\ Hiccups \in Nat
  BY HashfAssumption DEF IInv, TypeOK
<1> QED
  BY <1>1 DEF Read

LEMMA FullIs ==
  ASSUME IInv, NEW asked \in Nat
  PROVE  Full(asked) = Least(asked, IF pos < len THEN len - pos ELSE 0)
<1>1. len \in Nat /\ pos \in Nat
  BY DEF IInv, TypeOK
<1>2. Max({0, len - pos}) = IF pos < len THEN len - pos ELSE 0
  <2>1. 0 \in Int /\ len - pos \in Int
    BY <1>1
  <2>2. Max({0, len - pos}) \in {0, len - pos} /\ Max({0, len - pos}) >= 0
        /\ Max({0, len - pos}) >= len - pos
    BY <2>1, MaxOfTwo
  <2> QED
    BY <1>1, <2>2
<1> QED
  BY <1>2 DEF Full

\* What was received comes behind what was there.
LEMMA ReceivedBehind ==
  ASSUME IInv, NEW p \in Nat, NEW n \in Nat, n > 0, p + n <= Bufsz, pos + n <= len
  PROVE  /\ Window(Received(p, n), 0, p + n) = Window(B, 0, p) \o Window(Content(len), pos, n)
         /\ Window(B, 0, p) \in Seq(Half)
         /\ Received(p, n)[p + 1] = Content(len)[pos + 1]
<1>1. /\ B \in [1..Bufsz -> Half] /\ len \in Nat /\ pos \in Nat /\ Bufsz \in Nat
      /\ Content(len) \in [1..len -> Half]
  BY ContentType, HashfAssumption DEF IInv, TypeOK
<1>2. PICK r, c, q : r = Received(p, n) /\ c = Content(len) /\ q = pos
  OBVIOUS
<1>q. q \in Nat /\ q + n <= len
  BY <1>1, <1>2
<1>3. \A k \in 1..Bufsz : r[k] = IF k \in p+1..p+n THEN c[q + k - p] ELSE B[k]
  BY <1>1, <1>2, Zenon DEF Received
<1>4. \A k \in q+1..q+n : c[k] \in Half
  <2>1. c \in [1..len -> Half] /\ \A k \in q+1..q+n : k \in 1..len
    BY <1>1, <1>2, <1>q
  <2> QED
    BY <2>1
<1>5. \A k \in 1..p : B[k] \in Half /\ r[k] = B[k]
  <2>1. \A k \in 1..p : k \in 1..Bufsz /\ k \notin p+1..p+n
    BY <1>1
  <2> QED
    BY <1>1, <1>3, <2>1, Zenon
<1>6. \A k \in p+1..p+n : r[k] = c[q + k - p]
  <2>1. \A k \in p+1..p+n : k \in 1..Bufsz
    BY <1>1
  <2> QED
    BY <1>3, <2>1, Zenon
<1>7. \A k \in 1..p+n : r[k] \in Half
  <2> TAKE k \in 1..p+n
  <2>1. CASE k \in 1..p
    BY <1>5, <2>1
  <2>2. CASE k \in p+1..p+n
    <3>1. q + k - p \in q+1..q+n
      BY <1>q, <2>2
    <3> QED
      BY <1>4, <1>6, <2>2, <3>1
  <2> QED
    BY <2>1, <2>2
<1>8. PICK x, y, z : x = SubSeq(r, 1, p + n) /\ y = SubSeq(B, 1, p) /\ z = SubSeq(c, q + 1, q + n)
  OBVIOUS
<1>9. /\ x \in Seq(Half) /\ Len(x) = p + n /\ \A k \in 1..p+n : x[k] = r[k]
  <2>1. 1 \in Int /\ p + n \in Int /\ 1 <= p + n /\ (p + n) - 1 + 1 = p + n
        /\ \A k \in 1..p+n : 1 + k - 1 = k
    OBVIOUS
  <2>2. /\ SubSeq(r, 1, p + n) \in Seq(Half)
        /\ Len(SubSeq(r, 1, p + n)) = IF 1 <= p + n THEN (p + n) - 1 + 1 ELSE 0
        /\ \A k \in 1..(p + n) - 1 + 1 : SubSeq(r, 1, p + n)[k] = r[1 + k - 1]
    BY <1>7, <2>1, SubSeqProperties
  <2> QED
    BY <1>8, <2>1, <2>2
<1>10. /\ y \in Seq(Half) /\ Len(y) = p /\ \A k \in 1..p : y[k] = B[k]
  <2>1. 1 \in Int /\ p \in Int /\ p - 1 + 1 = p /\ (~(1 <= p) => p = 0)
        /\ \A k \in 1..p : 1 + k - 1 = k
    OBVIOUS
  <2>2. /\ SubSeq(B, 1, p) \in Seq(Half)
        /\ Len(SubSeq(B, 1, p)) = IF 1 <= p THEN p - 1 + 1 ELSE 0
        /\ \A k \in 1..p-1+1 : SubSeq(B, 1, p)[k] = B[1 + k - 1]
    BY <1>5, <2>1, SubSeqProperties
  <2> QED
    BY <1>8, <2>1, <2>2
<1>11. /\ z \in Seq(Half) /\ Len(z) = n /\ \A k \in 1..n : z[k] = c[q + k]
  <2>1. q + 1 \in Int /\ q + n \in Int /\ q + 1 <= q + n /\ (q + n) - (q + 1) + 1 = n
        /\ \A k \in 1..n : (q + 1) + k - 1 = q + k
    BY <1>q
  <2>2. /\ SubSeq(c, q + 1, q + n) \in Seq(Half)
        /\ Len(SubSeq(c, q + 1, q + n)) = IF q + 1 <= q + n THEN (q + n) - (q + 1) + 1 ELSE 0
        /\ \A k \in 1..(q + n) - (q + 1) + 1 : SubSeq(c, q + 1, q + n)[k] = c[(q + 1) + k - 1]
    BY <1>4, <2>1, SubSeqProperties
  <2> QED
    BY <1>8, <2>1, <2>2
<1>12. /\ y \o z \in Seq(Half) /\ Len(y \o z) = p + n
       /\ \A k \in 1..p+n : (y \o z)[k] = IF k <= p THEN y[k] ELSE z[k - p]
  BY <1>10, <1>11, ConcatProperties
<1>13. \A k \in 1..p+n : x[k] = (y \o z)[k]
  <2> TAKE k \in 1..p+n
  <2>1. /\ k \in 1..p => k <= p
        /\ k \notin 1..p => /\ k \in p+1..p+n /\ ~(k <= p) /\ k - p \in 1..n
                            /\ q + (k - p) = q + k - p
    BY <1>q
  <2>2. CASE k \in 1..p
    BY <1>5, <1>9, <1>10, <1>12, <2>1, <2>2, Zenon
  <2>3. CASE k \notin 1..p
    <3>1. x[k] = c[q + k - p] /\ (y \o z)[k] = z[k - p]
      BY <1>6, <1>9, <1>12, <2>1, <2>3, Zenon
    <3> QED
      BY <1>11, <2>1, <2>3, <3>1, Zenon
  <2> QED
    BY <2>2, <2>3, Zenon
<1>14. x = y \o z
  BY <1>9, <1>12, <1>13, SeqEqual
<1>15. r[p + 1] = c[q + 1]
  <2>1. p + 1 \in p+1..p+n /\ q + (p + 1) - p = q + 1
    OBVIOUS
  <2> QED
    BY <1>6, <2>1
<1>16. 0 + 1 = 1 /\ 0 + (p + n) = p + n /\ 0 + p = p
  OBVIOUS
<1> QED
  BY <1>2, <1>8, <1>10, <1>14, <1>15, <1>16 DEF Window

LEMMA OneByte ==
  ASSUME NEW b, b[1] \in Half
  PROVE  Window(b, 0, 1) = <<b[1]>>
<1>1. PICK x : x = b[1]
  OBVIOUS
<1>2. 1 \in Int /\ \A k \in 1..1 : b[k] \in Half
  OBVIOUS
<1>3. PICK w : w = SubSeq(b, 1, 1)
  OBVIOUS
<1>4. w \in Seq(Half) /\ Len(w) = 1 /\ w[1] = x
  <2>1. /\ SubSeq(b, 1, 1) \in Seq(Half)
        /\ Len(SubSeq(b, 1, 1)) = IF 1 <= 1 THEN 1 - 1 + 1 ELSE 0
        /\ \A k \in 1..1-1+1 : SubSeq(b, 1, 1)[k] = b[1 + k - 1]
    BY <1>2, SubSeqProperties
  <2>2. 1 <= 1 /\ 1 - 1 + 1 = 1 /\ 1 \in 1..1 /\ 1 + 1 - 1 = 1
    OBVIOUS
  <2> QED
    BY <1>1, <1>3, <2>1, <2>2
<1>5. <<x>> \in Seq(Half) /\ Len(<<x>>) = 1 /\ <<x>>[1] = x
  BY <1>1
<1>6. w = <<x>>
  BY <1>4, <1>5, SeqEqual
<1>7. 0 + 1 = 1
  OBVIOUS
<1> QED
  BY <1>1, <1>3, <1>6, <1>7, Zenon DEF Window

LEMMA NoWindow ==
  ASSUME NEW b
  PROVE  Window(b, 0, 0) = <<>>
<1>1. SubSeq(b, 0 + 1, 0 + 0) = <<>>
  BY SubSeqEmpty
<1> QED
  BY <1>1 DEF Window

---------------------------------------------------------------------------
\* What each step does to it.

LEMMA FileStep ==
  ASSUME IInv, FileInv, [Next]_vars
  PROVE  FileInv'
<1>1. ASSUME NEW f, NEW l \in Nat, NEW z \in {l, 0}, NEW s, Hash1(f, l, z, s)
      PROVE  FileInv'
  <2>1. len' = l /\ fz' = z /\ strd' = s /\ pc' = Outer(s, z, 0)
    BY <1>1 DEF Hash1
  <2> QED
    BY <2>1 DEF FileInv, Parting, Outer
<1>2. CASE OpenFile
  <2>1. PICK l \in Sizes : \E z \in SizesOf(l) : Hash1(Head(files), l, z, StrideFor(stride, z))
    BY <1>2 DEF OpenFile
  <2>2. PICK z \in {l, 0} : Hash1(Head(files), l, z, StrideFor(stride, z))
    BY <2>1 DEF SizesOf
  <2>3. l \in Nat
    BY HashfAssumption
  <2> QED
    BY <1>1, <2>2, <2>3
<1>3. CASE Stdin
  <2>1. PICK l \in Sizes : Hash1(0, l, 0, 0)
    BY <1>3 DEF Stdin
  <2>2. l \in Nat /\ 0 \in {l, 0}
    BY HashfAssumption
  <2> QED
    BY <1>1, <2>1, <2>2
<1>4. CASE OpenFails \/ Exit \/ Digest
  <2>1. pc' \in {"main", "done"}
    BY <1>4 DEF OpenFails, Exit, Digest
  <2> QED
    BY <2>1 DEF FileInv, Hashing, Parting
<1>5. CASE ReadWhole
  <2>1. pc = "whole" /\ pc' \in {"whole", "digest"} /\ fz' = fz /\ len' = len /\ strd' = strd
    BY <1>5 DEF ReadWhole
  <2> QED
    BY <2>1 DEF FileInv, Hashing, Parting
<1>6. CASE ReadPart
  <2>1. pc = "part" /\ pc' \in {"part", "seek"} /\ fz' = fz /\ len' = len /\ strd' = strd
    BY <1>6 DEF ReadPart
  <2> QED
    BY <2>1 DEF FileInv, Hashing, Parting
<1>7. CASE EndPart
  <2>1. Parting /\ pc' \in {"part", "update"} /\ fz' = fz /\ len' = len /\ strd' = strd
    BY <1>7 DEF EndPart, Parting
  <2> QED
    BY <2>1 DEF FileInv, Hashing, Parting
<1>8. CASE Update
  <2>1. pc = "update" /\ pc' = Outer(strd, fz, i) /\ fz' = fz /\ len' = len /\ strd' = strd
    BY <1>8 DEF Update
  <2>2. Strided(strd, fz) /\ fz \in {len, 0} /\ pc' \in {"part", "digest"}
    BY <2>1 DEF FileInv, Hashing, Outer
  <2> QED
    BY <2>1, <2>2 DEF FileInv, Hashing, Parting
<1>9. CASE Stopped \/ UNCHANGED vars
  BY <1>9 DEF FileInv, Hashing, Parting, Stopped, vars
<1> QED
  BY <1>2, <1>3, <1>4, <1>5, <1>6, <1>7, <1>8, <1>9 DEF Next

\* A file has been opened: nothing is collected.
LEMMA OrderBegun ==
  ASSUME NEW f, NEW l \in Nat, NEW z \in Nat, NEW s \in Nat, Hash1(f, l, z, s)
  PROVE  OrderInv'
<1>1. /\ fed' = <<>> /\ pos' = 0 /\ i' = 0 /\ stp' = 0 /\ Z' = 0 /\ len' = l /\ strd' = s
      /\ pc' = Outer(s, z, 0)
  BY DEF Hash1
<1>2. pc' \in {"whole", "part"}
  <2>1. Strided(s, z) => 0 * s < z
    BY PartSize DEF Strided
  <2> QED
    BY <1>1, <2>1 DEF Outer
<1>3. fed' \in Seq(Half) /\ Len(fed') = 0
  BY <1>1, EmptySeq
<1>4. BytesInv'
  <2>1. FirstBytes(0, l) = <<>>
    BY DEF FirstBytes
  <2>2. 0 = Least(0 * Bufsz, l) /\ (0 - 1) * Bufsz < l
    BY HashfAssumption, PartSize DEF Least
  <2> QED
    BY <1>1, <1>3, <2>1, <2>2 DEF BytesInv
<1>5. HeadsInv'
  <2>1. Collected' = <<>>
    <3>1. Window(B', 0, 0) = <<>> /\ <<>> \o <<>> = <<>> /\ 0 + 0 = 0
      BY NoWindow, ConcatEmptySeq, EmptySeq
    <3>2. Collected' = fed' \o Window(B', 0, Z' + stp')
      BY DEF Collected
    <3> QED
      BY <1>1, <3>1, <3>2
  <2>2. FirstHeads(0, l, s) = <<>>
    BY NoHeads
  <2>3. 0 = (0 * s) + 0
    OBVIOUS
  <2> QED
    BY <1>1, <1>2, <2>1, <2>2, <2>3 DEF HeadsInv
<1>6. PartsHashed'
  BY <1>2 DEF PartsHashed
<1> QED
  BY <1>3, <1>4, <1>5, <1>6 DEF OrderInv

\* A buffer of a file without strides: its first byte.
LEMMA OrderWhole ==
  ASSUME IInv, FileInv, OrderInv, ReadWhole
  PROVE  OrderInv'
<1> SUFFICES ASSUME left' = Hiccups PROVE OrderInv'
  <2>1. left' # Hiccups => PartsHashed'
    BY DEF PartsHashed
  <2> QED
    BY <2>1 DEF OrderInv
<1>1. PICK n \in Results(Bufsz) :
        /\ Read(0, Bufsz, n)
        /\ IF n > 0 THEN pc' = pc /\ Updated(Window(B', 0, 1))
                    ELSE pc' = "digest" /\ UNCHANGED <<st, fed>>
  BY DEF ReadWhole
<1>2. pc = "whole" /\ len' = len /\ strd' = strd /\ fz' = fz
  BY DEF ReadWhole
<1>3. left = Hiccups /\ n = Full(Bufsz)
  BY <1>1, NoHiccup
<1>4. len \in Nat /\ pos \in Nat /\ Bufsz \in Nat /\ Bufsz >= 32
  BY HashfAssumption, PartSize DEF IInv, TypeOK
<1>5. n = Least(Bufsz, IF pos < len THEN len - pos ELSE 0)
  BY <1>3, <1>4, FullIs
<1>6. fed \in Seq(Half) /\ BytesInv /\ ~Strided(strd, fz)
  BY <1>2, <1>3 DEF OrderInv, FileInv, Hashing
<1>7. PICK m \in Nat, t \in Nat : m = Len(fed) /\ t = m * Bufsz
  <2>1. Len(fed) \in Nat
    BY <1>6
  <2>2. \A a \in Nat : a * Bufsz \in Nat
    BY <1>4
  <2> QED
    BY <2>1, <2>2
<1>8. fed = FirstBytes(m, len) /\ pos = Least(t, len) /\ (m - 1) * Bufsz < len
  BY <1>6, <1>7 DEF BytesInv
<1>9. CASE n > 0
  <2>1. pos < len /\ pos = t /\ n \in Nat /\ n <= Bufsz /\ pos + n = Least(t + Bufsz, len)
    BY <1>4, <1>5, <1>8, <1>9 DEF Least
  <2>2. B' = Received(0, n) /\ pos' = pos + n
    BY <1>1, <1>9 DEF Read
  <2>3. fed' = fed \o Window(B', 0, 1) /\ pc' = "whole"
    BY <1>1, <1>2, <1>9 DEF Updated
  <2>4. Window(B', 0, 1) = <<Content(len)[t + 1]>>
    <3>1. 0 \in Nat /\ 0 + n <= Bufsz /\ pos + n <= len /\ 0 + 1 = 1
      BY <1>4, <2>1 DEF Least
    <3>2. Received(0, n)[1] = Content(len)[pos + 1]
      BY <1>9, <2>1, <3>1, ReceivedBehind
    <3>3. PICK b : b = Received(0, n)
      OBVIOUS
    <3>4. b[1] \in Half
      <4>1. pos + 1 \in 1..len
        BY <1>4, <2>1
      <4> QED
        BY <1>4, <3>2, <3>3, <4>1, ContentType
    <3>5. Window(b, 0, 1) = <<b[1]>>
      BY <3>4, OneByte
    <3> QED
      BY <2>1, <2>2, <3>2, <3>3, <3>5
  <2>5. /\ FirstBytes(m + 1, len) = FirstBytes(m, len) \o <<Content(len)[t + 1]>>
        /\ FirstBytes(m + 1, len) \in Seq(Half) /\ Len(FirstBytes(m + 1, len)) = m + 1
    BY <1>4, <1>7, <2>1, NextByte
  <2>6. fed' = FirstBytes(m + 1, len) /\ fed' \in Seq(Half) /\ Len(fed') = m + 1
    BY <1>8, <2>3, <2>4, <2>5
  <2>7. (m + 1) * Bufsz = t + Bufsz /\ ((m + 1) - 1) * Bufsz = t
    BY <1>4, <1>7
  <2>8. BytesInv'
    BY <1>2, <2>1, <2>2, <2>6, <2>7 DEF BytesInv
  <2> QED
    BY <2>3, <2>6, <2>8 DEF OrderInv, HeadsInv, PartsHashed
<1>10. CASE ~(n > 0)
  <2>1. fed' = fed /\ pc' = "digest"
    BY <1>1, <1>10
  <2>2. t >= len
    BY <1>4, <1>5, <1>8, <1>10 DEF Least
  <2>3. (len + Bufsz - 1) \div Bufsz = m
    BY <1>4, <1>7, <1>8, <2>2, RoundedUp
  <2>4. fed = [k \in 1..(len + Bufsz - 1) \div Bufsz |-> Content(len)[(k - 1) * Bufsz + 1]]
    BY <1>8, <2>3, Zenon DEF FirstBytes
  <2>5. PartsHashed'
    BY <1>2, <1>6, <2>1, <2>4, Zenon DEF PartsHashed
  <2> QED
    BY <1>6, <2>1, <2>5 DEF OrderInv, HeadsInv
<1> QED
  BY <1>9, <1>10

\* A pass of the for loop: the part, or nothing.
LEMMA OrderPart ==
  ASSUME IInv, FileInv, OrderInv, ReadPart
  PROVE  OrderInv'
<1>0. pc' \in {"part", "seek"}
  BY DEF ReadPart
<1> SUFFICES ASSUME left' = Hiccups PROVE fed' \in Seq(Half) /\ HeadsInv'
  <2>1. PartsHashed'
    BY <1>0 DEF PartsHashed
  <2> QED
    BY <1>0, <2>1 DEF OrderInv
<1>1. PICK n \in Results(READ - stp) :
        /\ Read(Z + stp, READ - stp, n)
        /\ IF n > 0 THEN stp' = stp + n /\ pc' = pc ELSE stp' = stp /\ pc' = "seek"
  BY DEF ReadPart
<1>2. /\ pc = "part" /\ stp < READ
      /\ len' = len /\ strd' = strd /\ i' = i /\ Z' = Z /\ fed' = fed
  BY DEF ReadPart, state
<1>3. left = Hiccups /\ n = Full(READ - stp)
  BY <1>1, NoHiccup
<1>4. /\ len \in Nat /\ pos \in Nat /\ Bufsz \in Nat /\ Bufsz % 32 = 0 /\ READ = 32
      /\ strd \in Nat /\ i \in Nat /\ stp \in 0..32 /\ Z \in Nat /\ Z < Bufsz /\ Z % 32 = 0
  BY <1>2, HashfAssumption, PartSize DEF IInv, TypeOK, PartInv, Parting
<1>5. n = Least(READ - stp, IF pos < len THEN len - pos ELSE 0)
  <2>1. READ - stp \in Nat
    BY <1>4
  <2> QED
    BY <1>3, <2>1, FullIs
<1>6. PICK q \in Nat : q = i * strd
  BY <1>4
<1>7. /\ fed \in Seq(Half) /\ pos = q + stp
      /\ stp = 0 => Collected = FirstHeads(i, len, strd)
      /\ stp # 0 => /\ stp = Least(READ, len - q)
                    /\ Collected = FirstHeads(i + 1, len, strd)
  BY <1>2, <1>3, <1>6 DEF OrderInv, HeadsInv, Hashing
<1>8. Collected' = fed \o Window(B', 0, Z + stp')
  BY <1>2 DEF Collected
<1>9. FirstHeads(i + 1, len, strd) = FirstHeads(i, len, strd) \o HeadAt(len, q)
  BY <1>4, <1>6, NextHead
<1>10. CASE n > 0
  <2>1. stp = 0 /\ pos = q /\ q < len /\ n = Least(READ, len - q) /\ n \in 1..32 /\ pos + n <= len
    BY <1>2, <1>4, <1>5, <1>7, <1>10 DEF Least
  <2>2. B' = Received(Z, n) /\ pos' = pos + n /\ stp' = n /\ pc' = "part"
    <3>1. Z + stp = Z /\ 0 + n = n
      BY <1>4, <2>1
    <3> QED
      BY <1>1, <1>2, <1>10, <2>1, <3>1 DEF Read
  <2>3. /\ Window(Received(Z, n), 0, Z + n) = Window(B, 0, Z) \o Window(Content(len), pos, n)
        /\ Window(B, 0, Z) \in Seq(Half)
    <3>1. Z + n <= Bufsz /\ n \in Nat
      BY <1>4, <2>1
    <3> QED
      BY <1>4, <1>10, <2>1, <3>1, ReceivedBehind
  <2>4. Window(Content(len), pos, n) = HeadAt(len, q)
    BY <2>1 DEF HeadAt
  <2>5. HeadAt(len, q) \in Seq(Half)
    BY <1>4, HeadType
  <2>6. Collected = fed \o Window(B, 0, Z)
    <3>1. Z + stp = Z
      BY <1>4, <2>1
    <3> QED
      BY <3>1 DEF Collected
  <2>7. Collected' = fed \o (Window(B, 0, Z) \o HeadAt(len, q))
    BY <1>8, <2>2, <2>3, <2>4, Zenon
  <2>8. Collected' = Collected \o HeadAt(len, q)
    <3>1. (fed \o Window(B, 0, Z)) \o HeadAt(len, q) = fed \o (Window(B, 0, Z) \o HeadAt(len, q))
      BY <1>7, <2>3, <2>5, ConcatAssociative
    <3> QED
      BY <2>6, <2>7, <3>1, Zenon
  <2>9. Collected' = FirstHeads(i + 1, len, strd)
    BY <1>7, <1>9, <2>1, <2>8
  <2>10. stp' # 0 /\ pos' = q + stp'
    BY <2>1, <2>2
  <2> QED
    BY <1>2, <1>6, <1>7, <2>1, <2>2, <2>9, <2>10 DEF HeadsInv
<1>11. CASE ~(n > 0)
  <2>1. B' = B /\ stp' = stp /\ pc' = "seek"
    BY <1>1, <1>11 DEF Read
  <2>2. Collected' = Collected
    BY <1>2, <2>1 DEF Collected
  <2>3. Collected = FirstHeads(i + 1, len, strd)
    <3>1. CASE stp # 0
      BY <1>7, <3>1
    <3>2. CASE stp = 0
      <4>1. q >= len
        BY <1>4, <1>5, <1>7, <1>11, <3>2 DEF Least
      <4>2. HeadAt(len, q) = <<>> /\ FirstHeads(i, len, strd) \in Seq(Half)
        BY <1>4, <4>1, HeadType, HeadsType
      <4>3. FirstHeads(i + 1, len, strd) = FirstHeads(i, len, strd)
        BY <1>9, <4>2, ConcatEmptySeq
      <4> QED
        BY <1>7, <3>2, <4>3
    <3> QED
      BY <3>1, <3>2
  <2> QED
    BY <1>2, <1>7, <2>1, <2>2, <2>3 DEF HeadsInv
<1> QED
  BY <1>10, <1>11

\* The loop is left: on to the next stride.
LEMMA OrderEnd ==
  ASSUME IInv, FileInv, OrderInv, EndPart
  PROVE  OrderInv'
<1>0. pc' \in {"part", "update"}
  BY DEF EndPart
<1> SUFFICES ASSUME left' = Hiccups PROVE fed' \in Seq(Half) /\ HeadsInv'
  <2>1. PartsHashed'
    BY <1>0 DEF PartsHashed
  <2> QED
    BY <1>0, <2>1 DEF OrderInv
<1>1. /\ pc = "seek" \/ (pc = "part" /\ stp = READ)
      /\ i' = i + 1 /\ pos' = i' * strd /\ Z' = Z + stp /\ stp' = 0
      /\ len' = len /\ strd' = strd /\ B' = B /\ fed' = fed /\ left' = left
  BY DEF EndPart, state
<1>2. /\ strd \in Nat /\ i \in Nat /\ stp \in Nat /\ Z \in Nat
  BY HashfAssumption, PartSize DEF IInv, TypeOK
<1>3. fed \in Seq(Half) /\ HeadsInv
  BY <1>1 DEF OrderInv, Hashing
<1>4. Collected = FirstHeads(i + 1, len, strd)
  BY <1>1, <1>3, PartSize DEF HeadsInv
<1>5. Collected' = Collected
  <2>1. Z' + stp' = Z + stp
    BY <1>1, <1>2
  <2>2. Collected' = fed' \o Window(B', 0, Z' + stp')
    BY DEF Collected
  <2>3. Window(B', 0, Z' + stp') = Window(B, 0, Z + stp)
    BY <1>1, <2>1
  <2> QED
    BY <1>1, <2>2, <2>3 DEF Collected
<1>6. Collected' = FirstHeads(i', len', strd')
  BY <1>1, <1>4, <1>5
<1>7. pos' = (i' * strd') + stp' /\ pos' = i' * strd'
  <2>1. (i + 1) * strd \in Nat
    BY <1>2
  <2> QED
    BY <1>1, <2>1
<1> QED
  BY <1>0, <1>1, <1>3, <1>6, <1>7 DEF HeadsInv

\* What was collected is hashed.
LEMMA OrderUpdate ==
  ASSUME IInv, FileInv, OrderInv, Update
  PROVE  OrderInv'
<1>1. /\ pc = "update" /\ Z' = 0 /\ pc' = Outer(strd, fz, i)
      /\ fed' = fed \o Window(B, 0, Z)
      /\ UNCHANGED <<len, fz, strd, i, stp, B, pos, left>>
  BY DEF Update, Updated, desc
<1>2. Strided(strd, fz) /\ fz \in {len, 0} /\ stp = 0
  BY <1>1 DEF FileInv, Hashing, IInv, PartInv, Parting
<1>3. /\ fz = len /\ strd \in Nat /\ strd >= 1 /\ i \in Nat /\ len \in Nat /\ Z \in Nat
  BY <1>2, HashfAssumption, PartSize DEF IInv, TypeOK, Strided
<1>4. pc' = IF i * strd < len THEN "part" ELSE "digest"
  BY <1>1, <1>2, <1>3 DEF Outer
<1> SUFFICES ASSUME left = Hiccups PROVE fed' \in Seq(Half) /\ HeadsInv' /\ PartsHashed'
  BY <1>1, <1>4 DEF OrderInv, PartsHashed
<1>5. HeadsInv
  BY DEF OrderInv
<1>6. fed' = FirstHeads(i, len, strd)
  <2>1. Z + stp = Z
    BY <1>2, <1>3
  <2>2. Collected = FirstHeads(i, len, strd)
    BY <1>1, <1>5 DEF HeadsInv
  <2> QED
    BY <1>1, <2>1, <2>2 DEF Collected
<1>7. fed' \in Seq(Half)
  BY <1>3, <1>6, HeadsType
<1>8. HeadsInv'
  <2>1. Collected' = fed' \o Window(B, 0, 0)
    <3>1. Z' + stp' = 0
      BY <1>1, <1>2
    <3> QED
      BY <1>1, <3>1 DEF Collected
  <2>2. Collected' = FirstHeads(i', len', strd')
    <3>1. fed' \o <<>> = fed'
      BY <1>7, ConcatEmptySeq
    <3> QED
      BY <1>1, <1>6, <2>1, <3>1, NoWindow
  <2>3. pos' = (i' * strd') + stp' /\ stp' = 0
    <3>1. pos = i * strd
      BY <1>1, <1>5 DEF HeadsInv
    <3>2. i * strd \in Nat
      BY <1>3
    <3> QED
      BY <1>1, <1>2, <3>1, <3>2
  <2> QED
    BY <1>4, <2>2, <2>3 DEF HeadsInv
<1>9. PartsHashed'
  <2> SUFFICES ASSUME pc' = "digest" PROVE fed' = Heads(len, strd)
    BY <1>1, <1>2 DEF PartsHashed
  <2>1. i * strd >= len
    <3>1. i * strd \in Nat /\ ~(i * strd < len)
      BY <1>3, <1>4
    <3> QED
      BY <1>3, <3>1
  <2>2. PICK n : n = (len + strd - 1) \div strd
    OBVIOUS
  <2>3. n \in Nat /\ n * strd >= len /\ n <= i
    BY <1>3, <2>1, <2>2, RoundedUp
  <2>4. FirstHeads(i, len, strd) = FirstHeads(n, len, strd)
    BY <1>3, <2>3, HeadsBeyond
  <2>5. FirstHeads(n, len, strd) = Heads(len, strd)
    BY <2>2 DEF FirstHeads, HeadAt, Heads
  <2> QED
    BY <1>6, <2>4, <2>5
<1> QED
  BY <1>7, <1>8, <1>9

LEMMA OrderStep ==
  ASSUME IInv, FileInv, OrderInv, [Next]_vars
  PROVE  OrderInv'
<1>1. CASE OpenFile
  <2>1. PICK l \in Sizes : \E z \in SizesOf(l) : Hash1(Head(files), l, z, StrideFor(stride, z))
    BY <1>1 DEF OpenFile
  <2>2. PICK z \in SizesOf(l) : Hash1(Head(files), l, z, StrideFor(stride, z))
    BY <2>1
  <2>3. l \in Nat /\ z \in Nat
    BY HashfAssumption DEF SizesOf
  <2>4. StrideFor(stride, z) \in Nat
    BY <2>3, StrideType DEF IInv
  <2> QED
    BY <2>2, <2>3, <2>4, OrderBegun
<1>2. CASE Stdin
  <2>1. PICK l \in Sizes : Hash1(0, l, 0, 0)
    BY <1>2 DEF Stdin
  <2>2. l \in Nat /\ 0 \in Nat
    BY HashfAssumption
  <2> QED
    BY <2>1, <2>2, OrderBegun
<1>3. CASE OpenFails \/ Exit \/ Digest
  <2>1. pc' \in {"main", "done"}
    BY <1>3 DEF OpenFails, Exit, Digest
  <2> QED
    BY <2>1 DEF OrderInv, HeadsInv, PartsHashed, Hashing
<1>4. CASE ReadWhole
  BY <1>4, OrderWhole
<1>5. CASE ReadPart
  BY <1>5, OrderPart
<1>6. CASE EndPart
  BY <1>6, OrderEnd
<1>7. CASE Update
  BY <1>7, OrderUpdate
<1>8. CASE Stopped \/ UNCHANGED vars
  <2>1. UNCHANGED vars
    BY <1>8 DEF Stopped
  <2>2. UNCHANGED <<pc, len, B, pos, fz, strd, i, stp, Z, fed, left>>
    BY <2>1 DEF vars
  <2>3. Hashing' = Hashing /\ BytesInv' = BytesInv /\ Collected' = Collected
    BY <2>2 DEF Hashing, BytesInv, Collected
  <2>4. HeadsInv' = HeadsInv /\ PartsHashed' = PartsHashed
    BY <2>2, <2>3 DEF HeadsInv, PartsHashed
  <2> QED
    BY <2>2, <2>3, <2>4 DEF OrderInv
<1> QED
  BY <1>1, <1>2, <1>3, <1>4, <1>5, <1>6, <1>7, <1>8 DEF Next

\* A file that is read without a hiccup is hashed as --stride says: the start of each
\* stride, every one of them, in order and not twice, however the parts fill the buffer
\* and although the last one is short (hashf.c:95-107); without strides, one byte of
\* each buffer (hashf.c:92-94).  Of files and buffers of any size, and any stride.
THEOREM HashedAsAsked == Spec => []PartsHashed
<1>1. Init => FileInv /\ OrderInv
  BY DEF Init, FileInv, OrderInv, HeadsInv, PartsHashed, Hashing, Parting
<1>2. IInv /\ FileInv /\ OrderInv /\ [Next]_vars => (FileInv /\ OrderInv)'
  BY FileStep, OrderStep
<1>3. Spec => [](FileInv /\ OrderInv)
  BY <1>1, <1>2, Inductive, PTL DEF Spec
<1>4. FileInv /\ OrderInv => PartsHashed
  BY DEF OrderInv
<1> QED
  BY <1>3, <1>4, PTL

---------------------------------------------------------------------------
(* One stripe after the other.                                             *)

\* The recursive function of accumulate, as its definition has it.
NextStripe(a, input, p, secret, s, k) ==
  accumulate_512_scalar(a, Window(input, p + (k - 1) * StripeLen, StripeLen),
                      Window(secret, s + (k - 1) * ConsumeRate, StripeLen))
IsAccumulating(f, acc, input, p, secret, s, n) ==
  f = [k \in 0..n |-> IF k = 0 THEN acc ELSE NextStripe(f[k-1], input, p, secret, s, k)]

LEMMA AccumulatingExists ==
  ASSUME NEW acc, NEW input, NEW p, NEW secret, NEW s, NEW n \in Nat
  PROVE  \E f : IsAccumulating(f, acc, input, p, secret, s, n)
<1> DEFINE T == {a \in 0..n : \E f : IsAccumulating(f, acc, input, p, secret, s, a)}
<1>1. 0 \in T
  <2> DEFINE f == [k \in 0..0 |-> acc]
  <2>1. IsAccumulating(f, acc, input, p, secret, s, 0)
    BY DEF IsAccumulating
  <2> HIDE DEF f
  <2> QED
    BY <2>1
<1>2. ASSUME NEW a \in 1..n, a - 1 \in T PROVE a \in T
  <2>1. PICK f : IsAccumulating(f, acc, input, p, secret, s, a - 1)
    BY <1>2
  <2> DEFINE g == [k \in 0..a |-> IF k = a THEN NextStripe(f[a-1], input, p, secret, s, a) ELSE f[k]]
  <2>2. g = [k \in 0..a |-> g[k]]
    OBVIOUS
  <2>3. \A k \in 0..a-1 : g[k] = f[k]
    OBVIOUS
  <2>4. g[a] = NextStripe(f[a-1], input, p, secret, s, a)
    OBVIOUS
  <2> HIDE DEF g
  <2>5. ASSUME NEW k \in 0..a
        PROVE  g[k] = IF k = 0 THEN acc ELSE NextStripe(g[k-1], input, p, secret, s, k)
    <3>1. CASE k = 0
      <4>1. g[0] = f[0] /\ f[0] = acc
        BY <2>1, <2>3 DEF IsAccumulating
      <4> QED
        BY <3>1, <4>1
    <3>2. CASE k \in 1..a-1
      <4>1. k \in 0..a-1 /\ k - 1 \in 0..a-1 /\ k # 0
        BY <3>2
      <4>2. g[k] = f[k] /\ g[k-1] = f[k-1]
        BY <2>3, <4>1
      <4>3. f[k] = NextStripe(f[k-1], input, p, secret, s, k)
        BY <2>1, <4>1 DEF IsAccumulating
      <4> QED
        BY <4>1, <4>2, <4>3
    <3>3. CASE k = a
      <4>1. a # 0 /\ g[a-1] = f[a-1]
        BY <2>3
      <4> QED
        BY <2>4, <3>3, <4>1
    <3> QED
      BY <3>1, <3>2, <3>3
  <2>6. IsAccumulating(g, acc, input, p, secret, s, a)
    BY <2>2, <2>5 DEF IsAccumulating
  <2> QED
    BY <2>6
<1> HIDE DEF T
<1>3. \A a \in 0..n : a \in T
  BY <1>1, <1>2, SetInduction
<1> QED
  BY <1>3 DEF T

\* No stripe changes nothing, and one more is the next one.
LEMMA AccumulateNone ==
  ASSUME NEW acc, NEW input, NEW p, NEW secret, NEW s
  PROVE  accumulate(acc, input, p, secret, s, 0) = acc
<1> DEFINE f == CHOOSE f : IsAccumulating(f, acc, input, p, secret, s, 0)
<1>1. IsAccumulating(f, acc, input, p, secret, s, 0)
  <2>1. \E g : IsAccumulating(g, acc, input, p, secret, s, 0)
    BY AccumulatingExists
  <2> QED
    BY <2>1
<1>2. accumulate(acc, input, p, secret, s, 0) = f[0]
  BY Zenon DEF accumulate, IsAccumulating, NextStripe
<1> HIDE DEF f
<1> QED
  BY <1>1, <1>2 DEF IsAccumulating

LEMMA AccumulateNext ==
  ASSUME NEW acc, NEW input, NEW p, NEW secret, NEW s, NEW n \in Nat
  PROVE  accumulate(acc, input, p, secret, s, n + 1)
           = NextStripe(accumulate(acc, input, p, secret, s, n), input, p, secret, s, n + 1)
<1> DEFINE f == CHOOSE f : IsAccumulating(f, acc, input, p, secret, s, n)
           m == n + 1
           g == CHOOSE g : IsAccumulating(g, acc, input, p, secret, s, m)
<1>1. IsAccumulating(f, acc, input, p, secret, s, n)
  BY AccumulatingExists
<1>2. m \in Nat /\ m # 0 /\ m - 1 = n /\ m \in 0..m /\ n \in 0..n
  OBVIOUS
<1>3. accumulate(acc, input, p, secret, s, n) = f[n]
  BY Zenon DEF accumulate, IsAccumulating, NextStripe
<1>a. \A k : accumulate(acc, input, p, secret, s, k) =
               (CHOOSE h : IsAccumulating(h, acc, input, p, secret, s, k))[k]
  BY Zenon DEF accumulate, IsAccumulating, NextStripe
<1>4. accumulate(acc, input, p, secret, s, m) = g[m]
  BY <1>a, Zenon
<1> HIDE DEF f, m
<1>5. IsAccumulating(g, acc, input, p, secret, s, m)
  BY <1>2, AccumulatingExists
<1> HIDE DEF g
<1>6. \A k \in 0..n : f[k] = g[k]
  <2> DEFINE T == {k \in 0..n : f[k] = g[k]}
  <2>1. 0 \in T
    BY <1>1, <1>2, <1>5 DEF IsAccumulating
  <2>2. ASSUME NEW k \in 1..n, k - 1 \in T PROVE k \in T
    <3>1. f[k-1] = g[k-1] /\ k \in 0..n /\ k \in 0..m /\ k # 0
      BY <1>2, <2>2
    <3>2. f[k] = NextStripe(f[k-1], input, p, secret, s, k)
      BY <1>1, <3>1 DEF IsAccumulating
    <3>3. g[k] = NextStripe(g[k-1], input, p, secret, s, k)
      BY <1>5, <3>1 DEF IsAccumulating
    <3> QED
      BY <3>1, <3>2, <3>3
  <2> HIDE DEF T
  <2>3. \A k \in 0..n : k \in T
    BY <2>1, <2>2, SetInduction
  <2> QED
    BY <2>3 DEF T
<1>7. g[m] = NextStripe(g[n], input, p, secret, s, m)
  <2>1. g[m] = NextStripe(g[m-1], input, p, secret, s, m)
    BY <1>2, <1>5 DEF IsAccumulating
  <2> QED
    BY <1>2, <2>1
<1>8. accumulate(acc, input, p, secret, s, m)
        = NextStripe(accumulate(acc, input, p, secret, s, n), input, p, secret, s, m)
  BY <1>2, <1>3, <1>4, <1>6, <1>7
<1> QED
  BY <1>8 DEF m

\* The recursive function of blocks, as its definition has it.
NextBlock(a, input, secret, k) ==
  scrambleAcc_scalar(accumulate(a, input, (k - 1) * StripeLen * ((Len(secret) - StripeLen) \div ConsumeRate),
                              secret, 0, (Len(secret) - StripeLen) \div ConsumeRate),
                   Window(secret, Len(secret) - StripeLen, StripeLen))
IsBlocks(f, acc, input, secret, n) ==
  f = [k \in 0..n |-> IF k = 0 THEN acc ELSE NextBlock(f[k-1], input, secret, k)]

LEMMA BlocksExist ==
  ASSUME NEW acc, NEW input, NEW secret, NEW n \in Nat
  PROVE  \E f : IsBlocks(f, acc, input, secret, n)
<1> DEFINE T == {a \in 0..n : \E f : IsBlocks(f, acc, input, secret, a)}
<1>1. 0 \in T
  <2> DEFINE f == [k \in 0..0 |-> acc]
  <2>1. IsBlocks(f, acc, input, secret, 0)
    BY DEF IsBlocks
  <2> HIDE DEF f
  <2> QED
    BY <2>1
<1>2. ASSUME NEW a \in 1..n, a - 1 \in T PROVE a \in T
  <2>1. PICK f : IsBlocks(f, acc, input, secret, a - 1)
    BY <1>2
  <2> DEFINE g == [k \in 0..a |-> IF k = a THEN NextBlock(f[a-1], input, secret, a) ELSE f[k]]
  <2>2. g = [k \in 0..a |-> g[k]]
    OBVIOUS
  <2>3. \A k \in 0..a-1 : g[k] = f[k]
    OBVIOUS
  <2>4. g[a] = NextBlock(f[a-1], input, secret, a)
    OBVIOUS
  <2> HIDE DEF g
  <2>5. ASSUME NEW k \in 0..a
        PROVE  g[k] = IF k = 0 THEN acc ELSE NextBlock(g[k-1], input, secret, k)
    <3>1. CASE k = 0
      <4>1. g[0] = f[0] /\ f[0] = acc
        BY <2>1, <2>3 DEF IsBlocks
      <4> QED
        BY <3>1, <4>1
    <3>2. CASE k \in 1..a-1
      <4>1. k \in 0..a-1 /\ k - 1 \in 0..a-1 /\ k # 0
        BY <3>2
      <4>2. g[k] = f[k] /\ g[k-1] = f[k-1]
        BY <2>3, <4>1
      <4>3. f[k] = NextBlock(f[k-1], input, secret, k)
        BY <2>1, <4>1 DEF IsBlocks
      <4> QED
        BY <4>1, <4>2, <4>3
    <3>3. CASE k = a
      <4>1. a # 0 /\ g[a-1] = f[a-1]
        BY <2>3
      <4> QED
        BY <2>4, <3>3, <4>1
    <3> QED
      BY <3>1, <3>2, <3>3
  <2>6. IsBlocks(g, acc, input, secret, a)
    BY <2>2, <2>5 DEF IsBlocks
  <2> QED
    BY <2>6
<1> HIDE DEF T
<1>3. \A a \in 0..n : a \in T
  BY <1>1, <1>2, SetInduction
<1> QED
  BY <1>3 DEF T

\* No block changes nothing, and one more is the next one.
LEMMA BlocksNone ==
  ASSUME NEW acc, NEW input, NEW secret
  PROVE  blocks(acc, input, secret, 0) = acc
<1> DEFINE f == CHOOSE f : IsBlocks(f, acc, input, secret, 0)
<1>1. IsBlocks(f, acc, input, secret, 0)
  <2>1. \E g : IsBlocks(g, acc, input, secret, 0)
    BY BlocksExist
  <2> QED
    BY <2>1
<1>2. blocks(acc, input, secret, 0) = f[0]
  BY Zenon DEF blocks, IsBlocks, NextBlock
<1> HIDE DEF f
<1> QED
  BY <1>1, <1>2 DEF IsBlocks

LEMMA BlocksNext ==
  ASSUME NEW acc, NEW input, NEW secret, NEW n \in Nat
  PROVE  blocks(acc, input, secret, n + 1)
           = NextBlock(blocks(acc, input, secret, n), input, secret, n + 1)
<1> DEFINE f == CHOOSE f : IsBlocks(f, acc, input, secret, n)
           m == n + 1
           g == CHOOSE g : IsBlocks(g, acc, input, secret, m)
<1>1. IsBlocks(f, acc, input, secret, n)
  BY BlocksExist
<1>2. m \in Nat /\ m # 0 /\ m - 1 = n /\ m \in 0..m /\ n \in 0..n
  OBVIOUS
<1>3. blocks(acc, input, secret, n) = f[n]
  BY Zenon DEF blocks, IsBlocks, NextBlock
<1>a. \A k : blocks(acc, input, secret, k) =
               (CHOOSE h : IsBlocks(h, acc, input, secret, k))[k]
  BY Zenon DEF blocks, IsBlocks, NextBlock
<1>4. blocks(acc, input, secret, m) = g[m]
  BY <1>a, Zenon
<1> HIDE DEF f, m
<1>5. IsBlocks(g, acc, input, secret, m)
  BY <1>2, BlocksExist
<1> HIDE DEF g
<1>6. \A k \in 0..n : f[k] = g[k]
  <2> DEFINE T == {k \in 0..n : f[k] = g[k]}
  <2>1. 0 \in T
    BY <1>1, <1>2, <1>5 DEF IsBlocks
  <2>2. ASSUME NEW k \in 1..n, k - 1 \in T PROVE k \in T
    <3>1. f[k-1] = g[k-1] /\ k \in 0..n /\ k \in 0..m /\ k # 0
      BY <1>2, <2>2
    <3>2. f[k] = NextBlock(f[k-1], input, secret, k)
      BY <1>1, <3>1 DEF IsBlocks
    <3>3. g[k] = NextBlock(g[k-1], input, secret, k)
      BY <1>5, <3>1 DEF IsBlocks
    <3> QED
      BY <3>1, <3>2, <3>3
  <2> HIDE DEF T
  <2>3. \A k \in 0..n : k \in T
    BY <2>1, <2>2, SetInduction
  <2> QED
    BY <2>3 DEF T
<1>7. g[m] = NextBlock(g[n], input, secret, m)
  <2>1. g[m] = NextBlock(g[m-1], input, secret, m)
    BY <1>2, <1>5 DEF IsBlocks
  <2> QED
    BY <1>2, <2>1
<1>8. blocks(acc, input, secret, m)
        = NextBlock(blocks(acc, input, secret, n), input, secret, m)
  BY <1>2, <1>3, <1>4, <1>6, <1>7
<1> QED
  BY <1>8 DEF m

---------------------------------------------------------------------------
(* Bytes that are the same are accumulated alike, wherever they are.       *)

LEMMA WindowIs ==
  ASSUME NEW input \in Seq(Half), NEW q \in Nat, NEW c \in Nat, q + c <= Len(input)
  PROVE  /\ Window(input, q, c) \in Seq(Half) /\ Len(Window(input, q, c)) = c
         /\ \A k \in 1..c : Window(input, q, c)[k] = input[q + k]
<1>1. Len(input) \in Nat
  OBVIOUS
<1> QED
  BY <1>1 DEF Window

LEMMA WindowSame ==
  ASSUME NEW x \in Seq(Half), NEW y \in Seq(Half), NEW p \in Nat, NEW q \in Nat, NEW n \in Nat,
         p + n <= Len(x), q + n <= Len(y), \A k \in 1..n : x[p + k] = y[q + k]
  PROVE  Window(x, p, n) = Window(y, q, n)
<1> DEFINE v == Window(x, p, n)
           w == Window(y, q, n)
<1>1. Len(x) \in Nat /\ Len(y) \in Nat
  OBVIOUS
<1>2. /\ v \in Seq(Half) /\ Len(v) = n /\ \A k \in 1..n : v[k] = x[p + k]
  BY <1>1 DEF Window
<1>3. /\ w \in Seq(Half) /\ Len(w) = n /\ \A k \in 1..n : w[k] = y[q + k]
  BY <1>1 DEF Window
<1> HIDE DEF v, w
<1>4. v = w
  <2>1. \A k \in 1..n : v[k] = w[k]
    BY <1>2, <1>3
  <2> QED
    BY <1>2, <1>3, <2>1, SeqEqual
<1> QED
  BY <1>4 DEF v, w

\* What has been accumulated may come from elsewhere.
LEMMA AccumulateFrom ==
  ASSUME NEW acc, NEW x, NEW p \in Nat, NEW secret, NEW m \in Nat, NEW input, NEW q \in Nat, NEW n \in Nat,
         \A k \in 1..n : Window(input, q + (k - 1) * 16, 16) = Window(x, p + (m + k - 1) * 16, 16)
  PROVE  accumulate(accumulate(acc, x, p, secret, 0, m), input, q, secret, m * 4, n)
           = accumulate(acc, x, p, secret, 0, m + n)
<1> DEFINE a == accumulate(acc, x, p, secret, 0, m)
           T == {k \in 0..n : accumulate(a, input, q, secret, m * 4, k)
                                = accumulate(acc, x, p, secret, 0, m + k)}
<1> HIDE DEF a
<1>1. 0 \in T
  <2>1. m + 0 = m /\ 0 \in 0..n
    OBVIOUS
  <2>2. accumulate(a, input, q, secret, m * 4, 0) = a
    BY AccumulateNone
  <2> QED
    BY <2>1, <2>2 DEF a
<1>2. ASSUME NEW k \in 1..n, k - 1 \in T PROVE k \in T
  <2>1. PICK j \in Nat : j = k - 1
    OBVIOUS
  <2>2. j + 1 = k /\ (m + j) + 1 = m + k /\ m + j \in Nat /\ (m + k) - 1 = m + k - 1
    BY <2>1
  <2>3. accumulate(a, input, q, secret, m * 4, j) = accumulate(acc, x, p, secret, 0, m + j)
    BY <1>2, <2>1
  <2>4. accumulate(a, input, q, secret, m * 4, k)
          = NextStripe(accumulate(a, input, q, secret, m * 4, j), input, q, secret, m * 4, k)
    BY <2>2, AccumulateNext
  <2>5. accumulate(acc, x, p, secret, 0, m + k)
          = NextStripe(accumulate(acc, x, p, secret, 0, m + j), x, p, secret, 0, m + k)
    BY <2>2, AccumulateNext
  <2>6. ASSUME NEW b PROVE NextStripe(b, input, q, secret, m * 4, k) = NextStripe(b, x, p, secret, 0, m + k)
    <3>1. m * 4 + (k - 1) * 4 = 0 + (m + k - 1) * 4
      OBVIOUS
    <3>2. Window(input, q + (k - 1) * 16, 16) = Window(x, p + (m + k - 1) * 16, 16)
      OBVIOUS
    <3>3. NextStripe(b, input, q, secret, m * 4, k)
            = accumulate_512_scalar(b, Window(input, q + (k - 1) * 16, 16),
                                  Window(secret, m * 4 + (k - 1) * 4, 16))
      BY Scale DEF NextStripe
    <3>4. NextStripe(b, x, p, secret, 0, m + k)
            = accumulate_512_scalar(b, Window(x, p + (m + k - 1) * 16, 16),
                                  Window(secret, 0 + (m + k - 1) * 4, 16))
      BY Scale DEF NextStripe
    <3> QED
      BY <3>1, <3>2, <3>3, <3>4, Zenon
  <2> QED
    BY <2>3, <2>4, <2>5, <2>6
<1> HIDE DEF T
<1>3. \A k \in 0..n : k \in T
  BY <1>1, <1>2, SetInduction
<1>4. n \in T
  BY <1>3
<1> QED
  BY <1>4 DEF T, a

LEMMA AccumulateSame ==
  ASSUME NEW acc, NEW x, NEW p \in Nat, NEW secret, NEW input, NEW q \in Nat, NEW n \in Nat,
         \A k \in 1..n : Window(input, q + (k - 1) * 16, 16) = Window(x, p + (k - 1) * 16, 16)
  PROVE  accumulate(acc, input, q, secret, 0, n) = accumulate(acc, x, p, secret, 0, n)
<1>1. \A k \in 1..n : Window(input, q + (k - 1) * 16, 16) = Window(x, p + (0 + k - 1) * 16, 16)
  <2>1. \A k \in 1..n : 0 + k - 1 = k - 1
    OBVIOUS
  <2> QED
    BY <2>1
<1>2. accumulate(accumulate(acc, x, p, secret, 0, 0), input, q, secret, 0 * 4, n)
        = accumulate(acc, x, p, secret, 0, 0 + n)
  BY <1>1, AccumulateFrom
<1>3. 0 * 4 = 0 /\ 0 + n = n
  OBVIOUS
<1> QED
  BY <1>2, <1>3, AccumulateNone

---------------------------------------------------------------------------
(* All of the stripes so far.                                              *)

\* The accumulators after the first n stripes of x.
Digested(x, secret, n) ==
  accumulate(blocks(InitAcc, x, secret, n \div 4), x, 64 * (n \div 4), secret, 0, n % 4)

LEMMA DigestedNone ==
  ASSUME NEW x, NEW secret
  PROVE  Digested(x, secret, 0) = InitAcc
<1>1. 0 \div 4 = 0 /\ 64 * 0 = 0 /\ 0 % 4 = 0
  OBVIOUS
<1> QED
  BY <1>1, BlocksNone, AccumulateNone DEF Digested

\* A block is four stripes and the scrambling behind them.
LEMMA BlockIs ==
  ASSUME NEW x, NEW secret, Len(secret) = 32, NEW n \in Nat
  PROVE  blocks(InitAcc, x, secret, n + 1)
           = scrambleAcc_scalar(accumulate(blocks(InitAcc, x, secret, n), x, 64 * n, secret, 0, 4),
                              Window(secret, 16, 16))
<1> DEFINE L == Len(secret) - StripeLen
           N == (Len(secret) - StripeLen) \div ConsumeRate
           P == (n + 1 - 1) * StripeLen * N
           a == blocks(InitAcc, x, secret, n)
<1>1. L = 16 /\ N = 4 /\ P = 64 * n /\ StripeLen = 16
  BY Scale
<1>2. blocks(InitAcc, x, secret, n + 1) = NextBlock(a, x, secret, n + 1)
  BY BlocksNext
<1>3. NextBlock(a, x, secret, n + 1)
        = scrambleAcc_scalar(accumulate(a, x, P, secret, 0, N), Window(secret, L, StripeLen))
  BY DEF NextBlock
<1> HIDE DEF a, L, N, P
<1>4. NextBlock(a, x, secret, n + 1)
        = scrambleAcc_scalar(accumulate(a, x, 64 * n, secret, 0, 4), Window(secret, 16, 16))
  BY <1>1, <1>3
<1> QED
  BY <1>2, <1>4 DEF a

\* What more of x there is does not matter.
LEMMA BlocksSame ==
  ASSUME NEW x \in Seq(Half), NEW y \in Seq(Half), Len(x) <= Len(y), \A k \in 1..Len(x) : y[k] = x[k],
         NEW secret, Len(secret) = 32, NEW n \in Nat, 64 * n <= Len(x)
  PROVE  blocks(InitAcc, y, secret, n) = blocks(InitAcc, x, secret, n)
<1> DEFINE T == {k \in 0..n : blocks(InitAcc, y, secret, k) = blocks(InitAcc, x, secret, k)}
<1>1. 0 \in T
  BY BlocksNone
<1>2. ASSUME NEW k \in 1..n, k - 1 \in T PROVE k \in T
  <2>1. PICK j \in Nat : j = k - 1
    OBVIOUS
  <2>2. j + 1 = k /\ 64 * j \in Nat /\ 64 * j + 64 <= Len(x)
    BY <2>1
  <2>3. ASSUME NEW g \in 1..4
        PROVE  Window(y, 64 * j + (g - 1) * 16, 16) = Window(x, 64 * j + (g - 1) * 16, 16)
    <3>1. PICK p : p = 64 * j + (g - 1) * 16
      OBVIOUS
    <3>2. p \in Nat /\ p + 16 <= Len(x)
      BY <2>2, <3>1
    <3>3. Len(x) \in Nat /\ Len(y) \in Nat
      OBVIOUS
    <3>4. p + 16 <= Len(y) /\ (\A h \in 1..16 : p + h \in 1..Len(x)) /\ 16 \in Nat
      BY <3>2, <3>3
    <3>5. \A h \in 1..16 : y[p + h] = x[p + h]
      BY <3>4
    <3>6. Window(y, p, 16) = Window(x, p, 16)
      BY <3>2, <3>4, <3>5, WindowSame, Zenon
    <3> QED
      BY <3>1, <3>6
  <2>4. ASSUME NEW a PROVE accumulate(a, y, 64 * j, secret, 0, 4) = accumulate(a, x, 64 * j, secret, 0, 4)
    <3>1. PICK c \in Nat : c = 64 * j
      BY <2>2
    <3>2. PICK r \in Nat : r = 4
      OBVIOUS
    <3>3. \A g \in 1..r : Window(y, c + (g - 1) * 16, 16) = Window(x, c + (g - 1) * 16, 16)
      BY <2>3, <3>1, <3>2
    <3>4. accumulate(a, y, c, secret, 0, r) = accumulate(a, x, c, secret, 0, r)
      BY <3>3, AccumulateSame
    <3> QED
      BY <3>1, <3>2, <3>4
  <2>5. blocks(InitAcc, y, secret, j) = blocks(InitAcc, x, secret, j)
    BY <1>2, <2>1
  <2>6. blocks(InitAcc, y, secret, j + 1) = blocks(InitAcc, x, secret, j + 1)
    <3>1. PICK a : a = blocks(InitAcc, x, secret, j)
      OBVIOUS
    <3>2. blocks(InitAcc, y, secret, j + 1)
            = scrambleAcc_scalar(accumulate(a, y, 64 * j, secret, 0, 4), Window(secret, 16, 16))
      BY <2>5, <3>1, BlockIs
    <3>3. blocks(InitAcc, x, secret, j + 1)
            = scrambleAcc_scalar(accumulate(a, x, 64 * j, secret, 0, 4), Window(secret, 16, 16))
      BY <3>1, BlockIs
    <3> QED
      BY <2>4, <3>2, <3>3
  <2> QED
    BY <2>2, <2>6
<1> HIDE DEF T
<1>3. \A k \in 0..n : k \in T
  BY <1>1, <1>2, SetInduction
<1>4. n \in T
  BY <1>3
<1> QED
  BY <1>4 DEF T

LEMMA DigestedSame ==
  ASSUME NEW x \in Seq(Half), NEW y \in Seq(Half), Len(x) <= Len(y), \A k \in 1..Len(x) : y[k] = x[k],
         NEW secret, Len(secret) = 32, NEW n \in Nat, 16 * n <= Len(x)
  PROVE  Digested(y, secret, n) = Digested(x, secret, n)
<1> DEFINE b == n \div 4
           r == n % 4
<1>1. b \in Nat /\ r \in 0..3 /\ n = 4 * b + r
  OBVIOUS
<1> HIDE DEF b, r
<1>2. Len(x) \in Nat /\ Len(y) \in Nat
  OBVIOUS
<1>3. 64 * b <= Len(x) /\ 64 * b \in Nat /\ 64 * b + 16 * r <= Len(x)
  BY <1>1, <1>2
<1>4. blocks(InitAcc, y, secret, b) = blocks(InitAcc, x, secret, b)
  BY <1>1, <1>3, BlocksSame
<1>5. ASSUME NEW g \in 1..r
      PROVE  Window(y, 64 * b + (g - 1) * 16, 16) = Window(x, 64 * b + (g - 1) * 16, 16)
  <2>1. PICK p : p = 64 * b + (g - 1) * 16
    OBVIOUS
  <2>2. p \in Nat /\ p + 16 <= Len(x)
    <3>1. PICK l \in Nat : l = Len(x)
      BY <1>2
    <3>2. g \in Nat /\ g >= 1 /\ g <= r /\ r \in Nat
      BY <1>1
    <3>3. b \in Nat /\ 64 * b + 16 * r <= l
      BY <1>1, <1>3, <3>1
    <3>4. p \in Nat /\ p + 16 <= l
      BY <2>1, <3>2, <3>3
    <3> QED
      BY <3>1, <3>4
  <2>3. p + 16 <= Len(y) /\ (\A h \in 1..16 : p + h \in 1..Len(x)) /\ 16 \in Nat
    BY <1>2, <2>2
  <2>4. \A h \in 1..16 : y[p + h] = x[p + h]
    BY <2>3
  <2>5. Window(y, p, 16) = Window(x, p, 16)
    BY <2>2, <2>3, <2>4, WindowSame, Zenon
  <2> QED
    BY <2>1, <2>5
<1>6. ASSUME NEW a PROVE accumulate(a, y, 64 * b, secret, 0, r) = accumulate(a, x, 64 * b, secret, 0, r)
  <2>1. PICK c \in Nat : c = 64 * b
    BY <1>3
  <2>2. \A g \in 1..r : Window(y, c + (g - 1) * 16, 16) = Window(x, c + (g - 1) * 16, 16)
    BY <1>5, <2>1
  <2>3. r \in Nat
    BY <1>1
  <2>4. accumulate(a, y, c, secret, 0, r) = accumulate(a, x, c, secret, 0, r)
    BY <2>2, <2>3, AccumulateSame
  <2> QED
    BY <2>1, <2>4
<1> QED
  BY <1>4, <1>6 DEF Digested, b, r

\* The k stripes of the input from p on are those of x after n.
StripesAre(input, p, x, n, k) ==
  \A g \in 1..k : Window(input, p + (g - 1) * 16, 16) = Window(x, (n + g - 1) * 16, 16)

\* A few more stripes that do not complete a block.
LEMMA DigestedWithin ==
  ASSUME NEW x, NEW secret, NEW n \in Nat, NEW input, NEW p \in Nat, NEW k \in 0..4, (n % 4) + k < 4,
         StripesAre(input, p, x, n, k)
  PROVE  accumulate(Digested(x, secret, n), input, p, secret, (n % 4) * 4, k) = Digested(x, secret, n + k)
<1> DEFINE b == n \div 4
           r == n % 4
<1>1. b \in Nat /\ r \in 0..3 /\ n = 4 * b + r /\ k \in Nat /\ r \in Nat
  OBVIOUS
<1>2. (n + k) \div 4 = b /\ (n + k) % 4 = r + k
  BY <1>1
<1>3. Digested(x, secret, n) = accumulate(blocks(InitAcc, x, secret, b), x, 64 * b, secret, 0, r)
  BY DEF Digested
<1>4. Digested(x, secret, n + k) = accumulate(blocks(InitAcc, x, secret, b), x, 64 * b, secret, 0, r + k)
  BY <1>2 DEF Digested
<1> HIDE DEF b, r
<1>5. PICK c \in Nat : c = 64 * b
  BY <1>1
<1>6. ASSUME NEW g \in 1..k
      PROVE  Window(input, p + (g - 1) * 16, 16) = Window(x, c + (r + g - 1) * 16, 16)
  <2>1. c + (r + g - 1) * 16 = (n + g - 1) * 16
    <3>1. ASSUME NEW j \in Nat, NEW u \in Nat, NEW v \in Nat
          PROVE  64 * u + (v + j - 1) * 16 = (4 * u + v + j - 1) * 16
      OBVIOUS
    <3>2. PICK j \in Nat : j = g
      BY <1>1
    <3> QED
      BY <1>1, <1>5, <3>1, <3>2
  <2> QED
    BY <2>1 DEF StripesAre
<1>7. ASSUME NEW a
      PROVE  accumulate(accumulate(a, x, c, secret, 0, r), input, p, secret, r * 4, k)
               = accumulate(a, x, c, secret, 0, r + k)
  BY <1>1, <1>6, AccumulateFrom
<1> QED
  BY <1>3, <1>4, <1>5, <1>7 DEF r

\* A few more that do.
LEMMA DigestedAcross ==
  ASSUME NEW x, NEW secret, Len(secret) = 32, NEW n \in Nat, NEW input, NEW p \in Nat,
         NEW k \in 0..4, (n % 4) + k >= 4,
         StripesAre(input, p, x, n, k)
  PROVE  accumulate(scrambleAcc_scalar(accumulate(Digested(x, secret, n), input, p, secret, (n % 4) * 4, 4 - (n % 4)),
                                       Window(secret, 16, 16)),
                    input, p + (4 - (n % 4)) * 16, secret, 0, (n % 4) + k - 4) = Digested(x, secret, n + k)
<1> DEFINE b == n \div 4
           r == n % 4
           h == r + k - 4
           d == 4 - r
<1>1. b \in Nat /\ r \in 0..3 /\ n = 4 * b + r /\ k \in Nat /\ r \in Nat /\ r + k >= 4
  OBVIOUS
<1>2. (n + k) \div 4 = b + 1 /\ (n + k) % 4 = h
  BY <1>1
<1>3. Digested(x, secret, n) = accumulate(blocks(InitAcc, x, secret, b), x, 64 * b, secret, 0, r)
  BY DEF Digested
<1>4. Digested(x, secret, n + k)
        = accumulate(blocks(InitAcc, x, secret, b + 1), x, 64 * (b + 1), secret, 0, h)
  BY <1>2, Zenon DEF Digested
<1>5. h \in Nat /\ d \in Nat /\ d <= k /\ r + d = 4 /\ h + d = k
  BY <1>1
<1> HIDE DEF b, h, d, r
<1>6. PICK c \in Nat : c = 64 * b
  BY <1>1
<1>7. PICK e \in Nat : e = 64 * (b + 1)
  BY <1>1
<1>8. PICK q \in Nat : q = p + d * 16
  BY <1>5
<1>9. ASSUME NEW g \in 1..d
      PROVE  Window(input, p + (g - 1) * 16, 16) = Window(x, c + (r + g - 1) * 16, 16)
  <2>1. c + (r + g - 1) * 16 = (n + g - 1) * 16 /\ g \in 1..k
    BY <1>1, <1>5, <1>6
  <2> QED
    BY <2>1 DEF StripesAre
<1>10. ASSUME NEW g \in 1..h
       PROVE  Window(input, q + (g - 1) * 16, 16) = Window(x, e + (g - 1) * 16, 16)
  <2>1. PICK j \in 1..k : j = d + g
    BY <1>5
  <2>2. q + (g - 1) * 16 = p + (j - 1) * 16
    BY <1>8, <1>5, <2>1
  <2>3. e + (g - 1) * 16 = (n + j - 1) * 16
    BY <1>1, <1>5, <1>7, <2>1
  <2> QED
    BY <2>2, <2>3 DEF StripesAre
<1>11. ASSUME NEW a
       PROVE  accumulate(accumulate(a, x, c, secret, 0, r), input, p, secret, r * 4, d)
                = accumulate(a, x, c, secret, 0, 4)
  <2>1. accumulate(accumulate(a, x, c, secret, 0, r), input, p, secret, r * 4, d)
          = accumulate(a, x, c, secret, 0, r + d)
    BY <1>1, <1>5, <1>9, AccumulateFrom
  <2> QED
    BY <1>5, <2>1
<1>12. ASSUME NEW a PROVE accumulate(a, input, q, secret, 0, h) = accumulate(a, x, e, secret, 0, h)
  BY <1>5, <1>10, AccumulateSame
<1>13. blocks(InitAcc, x, secret, b + 1)
         = scrambleAcc_scalar(accumulate(blocks(InitAcc, x, secret, b), x, c, secret, 0, 4),
                              Window(secret, 16, 16))
  BY <1>1, <1>6, BlockIs
<1>14. accumulate(Digested(x, secret, n), input, p, secret, r * 4, d)
         = accumulate(blocks(InitAcc, x, secret, b), x, c, secret, 0, 4)
  BY <1>3, <1>6, <1>11
<1>15. accumulate(scrambleAcc_scalar(accumulate(Digested(x, secret, n), input, p, secret, r * 4, d),
                                     Window(secret, 16, 16)), input, q, secret, 0, h)
         = Digested(x, secret, n + k)
  BY <1>4, <1>7, <1>12, <1>13, <1>14
<1> QED
  BY <1>8, <1>15, Zenon DEF d, h, r

\* Hashing in one go: all whole stripes that leave something behind them, then the last one.
LEMMA OneGo ==
  ASSUME NEW x \in Seq(Half), Len(x) >= 1, NEW secret, Len(secret) = 32
  PROVE  hashLong_internal_loop(InitAcc, x, secret)
           = accumulate_512_scalar(Digested(x, secret, (Len(x) - 1) \div 16),
                                   Window(x, Len(x) - 16, 16), Window(secret, 15, 16))
<1> DEFINE l == Len(x)
           limit == Len(secret) - StripeLen
           perBlock == limit \div ConsumeRate
           blockLen == StripeLen * perBlock
           nb == (l - 1) \div blockLen
           ns == (l - 1 - blockLen * nb) \div StripeLen
           n == (l - 1) \div 16
<1>1. limit = 16 /\ perBlock = 4 /\ StripeLen = 16 /\ blockLen = 64 /\ limit - LastaccStart = 15
  BY Scale DEF LastaccStart
<1>2. l \in Nat /\ l >= 1
  OBVIOUS
<1>3. hashLong_internal_loop(InitAcc, x, secret)
        = accumulate_512_scalar(accumulate(blocks(InitAcc, x, secret, nb), x, nb * blockLen, secret, 0, ns),
                                Window(x, l - StripeLen, StripeLen),
                                Window(secret, limit - LastaccStart, StripeLen))
  BY DEF hashLong_internal_loop
<1>4. nb = (l - 1) \div 64 /\ ns = (l - 1 - 64 * nb) \div 16
  BY <1>1
<1> HIDE DEF l, limit, perBlock, blockLen, nb, ns
<1>5. nb = n \div 4 /\ ns = n % 4 /\ nb * blockLen = 64 * (n \div 4)
  <2>1. PICK m \in Nat : m = l - 1
    BY <1>2
  <2>2. m \div 64 = (m \div 16) \div 4 /\ (m - 64 * (m \div 64)) \div 16 = (m \div 16) % 4
    OBVIOUS
  <2>3. n = m \div 16 /\ nb = m \div 64 /\ ns = (m - 64 * nb) \div 16
    BY <1>4, <2>1
  <2>4. nb = n \div 4 /\ ns = n % 4
    BY <2>2, <2>3
  <2>5. nb \in Nat /\ nb * 64 = 64 * nb
    <3>1. PICK h \in Nat : h = m \div 64
      BY <2>1
    <3>2. h * 64 = 64 * h
      OBVIOUS
    <3> QED
      BY <2>3, <3>1, <3>2, Zenon
  <2> QED
    BY <1>1, <2>4, <2>5
<1>6. Digested(x, secret, n) = accumulate(blocks(InitAcc, x, secret, nb), x, nb * blockLen, secret, 0, ns)
  BY <1>5, Zenon DEF Digested
<1> QED
  BY <1>1, <1>3, <1>6 DEF l

---------------------------------------------------------------------------
(* The state of a stream again: what it has of the bytes that were given.  *)

\* What the steps of an update leave alone.
Keeps(r, s) ==
  /\ r.extSecret = s.extSecret /\ r.customSecret = s.customSecret /\ r.secretLimit = s.secretLimit
  /\ r.seed = s.seed /\ r.totalLen = s.totalLen

LEMMA SecretKept ==
  ASSUME NEW r, NEW s, Keeps(r, s)
  PROVE  SecretOf(r) = SecretOf(s)
  BY DEF SecretOf, Keeps

\* The bytes are in the buffer, from p on.
Copied(r, s, p, bytes) ==
  /\ r.buffer \in [1..32 -> Half]
  /\ \A k \in 1..32 : r.buffer[k] = IF k \in p+1..p+Len(bytes) THEN bytes[k - p] ELSE s.buffer[k]

\* A copy into the buffer, in a word.
CopyOf(r, s, p, bytes) ==
  /\ Copied(r, s, p, bytes)
  /\ r.acc = s.acc /\ r.nbStripesSoFar = s.nbStripesSoFar /\ r.bufferedSize = s.bufferedSize
  /\ Keeps(r, s)

\* What may be copied there, and is.
MayCopy(s, p, bytes) ==
  /\ StreamFits(s) /\ s.buffer \in [1..32 -> Half]
  /\ p \in Nat /\ bytes \in Seq(Half) /\ p + Len(bytes) <= 32

LEMMA WithinCopy ==
  ASSUME NEW p \in Nat, NEW l \in Nat, NEW k \in p+1..p+l
  PROVE  k - p \in 1..l
  OBVIOUS

LEMMA CopyMade ==
  ASSUME NEW s, NEW p, NEW bytes, NEW r, r = Buffered(s, p, bytes), MayCopy(s, p, bytes)
  PROVE  CopyOf(r, s, p, bytes)
<1>0. /\ StreamFits(s) /\ s.buffer \in [1..32 -> Half]
      /\ p \in Nat /\ bytes \in Seq(Half) /\ p + Len(bytes) <= 32
  BY DEF MayCopy
<1> DEFINE w == s.bad \/ p + Len(bytes) > BufferSize
           v == [k \in DOMAIN s.buffer |->
                   IF k \in p+1..p+Len(bytes) THEN bytes[k - p] ELSE s.buffer[k]]
<1>1. r = [s EXCEPT !.buffer = v, !.bad = w]
  BY DEF Buffered
<1>2. PICK l \in Nat : l = Len(bytes)
  BY <1>0
<1>3. v \in [1..32 -> Half] /\ \A k \in 1..32 : v[k] = IF k \in p+1..p+Len(bytes) THEN bytes[k - p] ELSE s.buffer[k]
  <2>1. DOMAIN s.buffer = 1..32
    BY <1>0
  <2>2. ASSUME NEW k \in 1..32
        PROVE  (IF k \in p+1..p+l THEN bytes[k - p] ELSE s.buffer[k]) \in Half
    <3>1. CASE k \in p+1..p+l
      <4>1. k - p \in 1..Len(bytes)
        BY <1>0, <1>2, <3>1, WithinCopy
      <4>2. bytes[k - p] \in Half
        BY <1>0, <4>1
      <4> QED
        BY <3>1, <4>2
    <3>2. CASE ~(k \in p+1..p+l)
      BY <1>0, <3>2
    <3> QED
      BY <3>1, <3>2
  <2> QED
    BY <1>2, <2>1, <2>2
<1> HIDE DEF v, w
<1>4. r.buffer = v
  BY <1>0, <1>1 DEF StreamFits, IsState, Fields
<1>5. /\ r.acc = s.acc /\ r.nbStripesSoFar = s.nbStripesSoFar /\ r.bufferedSize = s.bufferedSize
      /\ Keeps(r, s)
  BY <1>0, <1>1 DEF StreamFits, IsState, Fields, Keeps
<1> QED
  BY <1>3, <1>4, <1>5 DEF Copied, CopyOf

\* The accumulators after some more stripes.
LEMMA ConsumeIs ==
  ASSUME NEW s, StreamFits(s), NEW secret, SecretOf(s) = secret, s.secretLimit = 16, Len(secret) = 32,
         NEW x, NEW n \in Nat, s.acc = Digested(x, secret, n), s.nbStripesSoFar = n % 4,
         NEW input, NEW p \in Nat, NEW k \in 0..4,
         StripesAre(input, p, x, n, k),
         NEW r, r = consumeStripes(s, input, p, k)
  PROVE  /\ r.acc = Digested(x, secret, n + k) /\ r.nbStripesSoFar = (n + k) % 4
         /\ r.buffer = s.buffer /\ r.bufferedSize = s.bufferedSize /\ Keeps(r, s)
<1> DEFINE sofar == s.nbStripesSoFar
           toEnd == s.nbStripesPerBlock - sofar
           failed == s.bad \/ k > s.nbStripesPerBlock \/ sofar >= s.nbStripesPerBlock
           block == scrambleAcc_scalar(accumulate(s.acc, input, p, secret, sofar * ConsumeRate, toEnd),
                                       Window(secret, s.secretLimit, StripeLen))
           one == accumulate(block, input, p + toEnd * StripeLen, secret, 0, k - toEnd)
           two == accumulate(s.acc, input, p, secret, sofar * ConsumeRate, k)
<1>1. r = IF toEnd <= k
            THEN [s EXCEPT !.acc = one, !.nbStripesSoFar = k - toEnd, !.bad = failed]
            ELSE [s EXCEPT !.acc = two, !.nbStripesSoFar = sofar + k, !.bad = failed]
  BY DEF consumeStripes
<1>2. /\ sofar = n % 4 /\ toEnd = 4 - (n % 4) /\ ConsumeRate = 4 /\ StripeLen = 16 /\ s.secretLimit = 16
  <2>1. s.nbStripesPerBlock = 4
    BY DEF StreamFits
  <2>2. sofar = n % 4 /\ s.secretLimit = 16
    OBVIOUS
  <2>3. toEnd = 4 - (n % 4)
    BY <2>1, <2>2
  <2>4. ConsumeRate = 4 /\ StripeLen = 16
    BY Scale
  <2> QED
    BY <2>2, <2>3, <2>4, Zenon
<1>3. n % 4 \in 0..3 /\ k \in Nat
  OBVIOUS
<1>4. ASSUME NEW a, NEW c, NEW u, r = [s EXCEPT !.acc = a, !.nbStripesSoFar = c, !.bad = u]
      PROVE  /\ r.acc = a /\ r.nbStripesSoFar = c
             /\ r.buffer = s.buffer /\ r.bufferedSize = s.bufferedSize /\ Keeps(r, s)
  BY <1>4 DEF StreamFits, IsState, Fields, Keeps
<1>5. CASE toEnd <= k
  <2>1. PICK d : d = n % 4
    OBVIOUS
  <2>2. d \in 0..3 /\ d + k >= 4 /\ k - toEnd = d + k - 4 /\ toEnd = 4 - d /\ d + k - 4 = (n + k) % 4
    <3>1. PICK e : e = toEnd
      OBVIOUS
    <3>2. d \in 0..3 /\ e = 4 - d /\ e <= k
      BY <1>2, <1>3, <1>5, <2>1, <3>1, Zenon
    <3>3. d + k >= 4 /\ k - e = d + k - 4
      BY <1>3, <3>2
    <3>4. d + k - 4 = (n + k) % 4
      BY <1>3, <2>1, <3>2, <3>3
    <3> QED
      BY <3>1, <3>2, <3>3, <3>4, Zenon
  <2>3. accumulate(scrambleAcc_scalar(
                     accumulate(Digested(x, secret, n), input, p, secret, (n % 4) * 4, 4 - (n % 4)),
                     Window(secret, 16, 16)),
                   input, p + (4 - (n % 4)) * 16, secret, 0, (n % 4) + k - 4) = Digested(x, secret, n + k)
    <3>1. (n % 4) + k >= 4
      BY <2>1, <2>2, Zenon
    <3> HIDE DEF sofar, toEnd, failed, block, one, two
    <3> QED
      BY <3>1, DigestedAcross
  <2>4. one = Digested(x, secret, n + k)
    <3> HIDE DEF toEnd, sofar
    <3> QED
      BY <1>2, <2>1, <2>2, <2>3
  <2>5. r = [s EXCEPT !.acc = one, !.nbStripesSoFar = k - toEnd, !.bad = failed]
    BY <1>1, <1>5
  <2> HIDE DEF one, failed, toEnd
  <2>6. /\ r.acc = one /\ r.nbStripesSoFar = k - toEnd
        /\ r.buffer = s.buffer /\ r.bufferedSize = s.bufferedSize /\ Keeps(r, s)
    BY <1>4, <2>5, Zenon
  <2> QED
    BY <2>2, <2>4, <2>6
<1>6. CASE ~(toEnd <= k)
  <2>1. (n % 4) + k < 4 /\ (n % 4) + k = (n + k) % 4
    <3> HIDE DEF toEnd
    <3> QED
      BY <1>2, <1>3, <1>6
  <2>2. accumulate(Digested(x, secret, n), input, p, secret, (n % 4) * 4, k) = Digested(x, secret, n + k)
    <3>1. (n % 4) + k < 4
      BY <2>1, Zenon
    <3> HIDE DEF sofar, toEnd, failed, block, one, two
    <3> QED
      BY <3>1, DigestedWithin
  <2>3. two = Digested(x, secret, n + k)
    <3> HIDE DEF toEnd, sofar
    <3> QED
      BY <1>2, <2>2
  <2>4. r = [s EXCEPT !.acc = two, !.nbStripesSoFar = sofar + k, !.bad = failed]
    BY <1>1, <1>6
  <2> HIDE DEF two, failed, sofar
  <2>5. /\ r.acc = two /\ r.nbStripesSoFar = sofar + k
        /\ r.buffer = s.buffer /\ r.bufferedSize = s.bufferedSize /\ Keeps(r, s)
    BY <1>4, <2>4, Zenon
  <2> QED
    BY <1>2, <2>1, <2>3, <2>5
<1> QED
  BY <1>5, <1>6

---------------------------------------------------------------------------
(* What a stream holds of the bytes x.                                     *)

\* m buffers of y are in the accumulators.
Held(s, y, secret, m) ==
  /\ StreamFits(s) /\ s.buffer \in [1..32 -> Half]
  /\ SecretOf(s) = secret /\ s.secretLimit = 16
  /\ s.acc = Digested(y, secret, 2 * m) /\ s.nbStripesSoFar = (2 * m) % 4

\* The last stripe of the last of them is where the digest looks for it.
Tail16(s, y, m) == m # 0 => \A k \in 17..32 : s.buffer[k] = y[(32 * m) + k - 32]

\* What is not there waits in the buffer, which is only empty if there is nothing.
IsStream(s, x, secret, m) ==
  /\ Held(s, x, secret, m)
  /\ 32 * m <= Len(x) /\ s.bufferedSize = Len(x) - (32 * m)
  /\ m # 0 => s.bufferedSize # 0
  /\ \A k \in 1..s.bufferedSize : s.buffer[k] = x[(32 * m) + k]
  /\ s.bufferedSize <= 16 => Tail16(s, x, m)

Extends(y, x) == Len(x) <= Len(y) /\ \A k \in 1..Len(x) : y[k] = x[k]

\* y is x, and the input behind it.
Behind(y, x, input) ==
  /\ Extends(y, x) /\ Len(y) = Len(x) + Len(input)
  /\ \A k \in 1..Len(input) : y[Len(x) + k] = input[k]

LEMMA ConcatBehind ==
  ASSUME NEW x \in Seq(Half), NEW input \in Seq(Half)
  PROVE  x \o input \in Seq(Half) /\ Behind(x \o input, x, input)
<1> DEFINE y == x \o input
<1>1. y \in Seq(Half) /\ Len(y) = Len(x) + Len(input) /\ Len(x) \in Nat /\ Len(input) \in Nat
  OBVIOUS
<1>2. \A k \in 1..Len(x) : y[k] = x[k]
  OBVIOUS
<1>3. \A k \in 1..Len(input) : y[Len(x) + k] = input[k]
  OBVIOUS
<1> HIDE DEF y
<1>4. Behind(y, x, input)
  BY <1>1, <1>2, <1>3 DEF Behind, Extends
<1> QED
  BY <1>1, <1>4 DEF y

LEMMA HeldSame ==
  ASSUME NEW s, NEW x \in Seq(Half), NEW y \in Seq(Half), Extends(y, x), NEW secret, Len(secret) = 32,
         NEW m \in Nat, Held(s, x, secret, m), 32 * m <= Len(x)
  PROVE  Held(s, y, secret, m)
<1>1. PICK n \in Nat : n = 2 * m
  OBVIOUS
<1>2. 16 * n <= Len(x)
  BY <1>1
<1>3. Digested(y, secret, n) = Digested(x, secret, n)
  BY <1>2, DigestedSame DEF Extends
<1> QED
  BY <1>1, <1>3 DEF Held

\* What is held does not depend on what waits.
LEMMA HeldKept ==
  ASSUME NEW s, NEW r, NEW y, NEW secret, NEW m, Held(s, y, secret, m), StreamFits(r),
         r.buffer \in [1..32 -> Half], r.acc = s.acc, r.nbStripesSoFar = s.nbStripesSoFar, Keeps(r, s)
  PROVE  Held(r, y, secret, m)
  BY SecretKept DEF Held, Keeps

LEMMA TailKept ==
  ASSUME NEW s, NEW r, NEW y, NEW m, Tail16(s, y, m), \A k \in 17..32 : r.buffer[k] = s.buffer[k]
  PROVE  Tail16(r, y, m)
  BY DEF Tail16

LEMMA KeepsBoth ==
  ASSUME NEW q, NEW r, NEW s, Keeps(q, r), Keeps(r, s)
  PROVE  Keeps(q, s)
  BY DEF Keeps

\* The n bytes of x from p on are those of y from q on.
SameBytes(x, p, y, q, n) ==
  /\ x \in Seq(Half) /\ y \in Seq(Half) /\ p \in Nat /\ q \in Nat /\ n \in Nat
  /\ p + n <= Len(x) /\ q + n <= Len(y)
  /\ \A k \in 1..n : x[p + k] = y[q + k]

LEMMA SameWithin ==
  ASSUME NEW x, NEW p, NEW y, NEW q, NEW n, SameBytes(x, p, y, q, n),
         NEW a \in Nat, NEW l \in Nat, a + l <= n
  PROVE  SameBytes(x, p + a, y, q + a, l)
<1>1. /\ x \in Seq(Half) /\ y \in Seq(Half) /\ p \in Nat /\ q \in Nat /\ n \in Nat
      /\ p + n <= Len(x) /\ q + n <= Len(y)
  BY DEF SameBytes
<1>2. Len(x) \in Nat /\ Len(y) \in Nat
  BY <1>1
<1>3. p + a \in Nat /\ q + a \in Nat /\ (p + a) + l <= Len(x) /\ (q + a) + l <= Len(y)
  BY <1>1, <1>2
<1>4. ASSUME NEW k \in 1..l PROVE x[(p + a) + k] = y[(q + a) + k]
  <2>1. a + k \in 1..n /\ (p + a) + k = p + (a + k) /\ (q + a) + k = q + (a + k)
    BY <1>1
  <2>2. x[p + (a + k)] = y[q + (a + k)]
    BY <2>1 DEF SameBytes
  <2> QED
    BY <2>1, <2>2
<1> QED
  BY <1>1, <1>3, <1>4 DEF SameBytes

LEMMA SameWindow ==
  ASSUME NEW x, NEW p, NEW y, NEW q, NEW n, SameBytes(x, p, y, q, n)
  PROVE  Window(x, p, n) = Window(y, q, n)
<1>1. /\ x \in Seq(Half) /\ y \in Seq(Half) /\ p \in Nat /\ q \in Nat /\ n \in Nat
      /\ p + n <= Len(x) /\ q + n <= Len(y)
  BY DEF SameBytes
<1>2. PICK v, w : v = Window(x, p, n) /\ w = Window(y, q, n)
  OBVIOUS
<1>3. v \in Seq(Half) /\ Len(v) = n /\ \A k \in 1..n : v[k] = x[p + k]
  BY <1>1, <1>2, WindowIs
<1>4. w \in Seq(Half) /\ Len(w) = n /\ \A k \in 1..n : w[k] = y[q + k]
  BY <1>1, <1>2, WindowIs
<1>5. ASSUME NEW k \in 1..n PROVE v[k] = w[k]
  BY <1>3, <1>4 DEF SameBytes
<1>6. v = w
  BY <1>3, <1>4, <1>5, SeqEqual
<1> QED
  BY <1>2, <1>6

\* Stripes that are the same, as accumulate wants them.
LEMMA SameStripes ==
  ASSUME NEW input, NEW p, NEW y, NEW n \in Nat, NEW k \in Nat, SameBytes(input, p, y, 16 * n, 16 * k)
  PROVE  StripesAre(input, p, y, n, k)
<1> SUFFICES ASSUME NEW g \in 1..k
             PROVE  Window(input, p + (g - 1) * 16, 16) = Window(y, (n + g - 1) * 16, 16)
  BY DEF StripesAre
<1>1. PICK a \in Nat : a = (g - 1) * 16
  OBVIOUS
<1>2. a + 16 <= 16 * k /\ 16 \in Nat /\ (16 * n) + a = (n + g - 1) * 16
  BY <1>1
<1>3. SameBytes(input, p + a, y, (16 * n) + a, 16)
  BY <1>2, SameWithin
<1>4. Window(input, p + a, 16) = Window(y, (16 * n) + a, 16)
  BY <1>3, SameWindow
<1> QED
  BY <1>1, <1>2, <1>4

\* Another buffer is consumed.
LEMMA HeldNext ==
  ASSUME NEW s, NEW y, NEW secret, Len(secret) = 32, NEW m \in Nat, Held(s, y, secret, m),
         NEW input, NEW p, SameBytes(input, p, y, 32 * m, 32),
         NEW r, r = consumeStripes(s, input, p, BufferSize \div StripeLen)
  PROVE  /\ Held(r, y, secret, m + 1) /\ Keeps(r, s)
         /\ r.buffer = s.buffer /\ r.bufferedSize = s.bufferedSize
<1>1. PICK n \in Nat : n = 2 * m
  OBVIOUS
<1>2. PICK k \in 0..4 : k = 2 /\ k = BufferSize \div StripeLen
  BY Scale
<1>3. StripesAre(input, p, y, n, k)
  <2>1. 16 * n = 32 * m /\ 16 * k = 32 /\ k \in Nat
    BY <1>1, <1>2
  <2>2. SameBytes(input, p, y, 16 * n, 16 * k)
    BY <2>1, Zenon
  <2> QED
    BY <2>1, <2>2, SameStripes, Zenon
<1>4. /\ StreamFits(s) /\ SecretOf(s) = secret /\ s.secretLimit = 16
      /\ s.acc = Digested(y, secret, n) /\ s.nbStripesSoFar = n % 4 /\ s.buffer \in [1..32 -> Half]
  BY <1>1 DEF Held
<1>5. r = consumeStripes(s, input, p, k) /\ p \in Nat
  BY <1>2 DEF SameBytes
<1>6. /\ r.acc = Digested(y, secret, n + k) /\ r.nbStripesSoFar = (n + k) % 4
      /\ r.buffer = s.buffer /\ r.bufferedSize = s.bufferedSize /\ Keeps(r, s)
  BY <1>3, <1>4, <1>5, ConsumeIs
<1>7. n + k = 2 * (m + 1)
  BY <1>1, <1>2
<1>8. StreamFits(r)
  BY <1>4, ConsumeFits
<1>9. SecretOf(r) = secret /\ r.secretLimit = 16
  BY <1>4, <1>6, SecretKept DEF Keeps
<1> QED
  BY <1>4, <1>6, <1>7, <1>8, <1>9 DEF Held

---------------------------------------------------------------------------
(* An update, step by step.                                                *)

\* What is behind x is the input.
LEMMA BehindSame ==
  ASSUME NEW x \in Seq(Half), NEW input \in Seq(Half), NEW y \in Seq(Half), Behind(y, x, input)
  PROVE  SameBytes(input, 0, y, Len(x), Len(input))
<1>1. Len(x) \in Nat /\ Len(input) \in Nat /\ 0 \in Nat /\ 0 + Len(input) <= Len(input)
  OBVIOUS
<1>2. Len(y) = Len(x) + Len(input) /\ \A k \in 1..Len(input) : y[Len(x) + k] = input[k]
  BY DEF Behind
<1>3. \A k \in 1..Len(input) : input[0 + k] = y[Len(x) + k]
  BY <1>2
<1> QED
  BY <1>1, <1>2, <1>3 DEF SameBytes

LEMMA FunctionSeq ==
  ASSUME NEW n \in Nat, NEW S, NEW a \in [1..n -> S]
  PROVE  a \in Seq(S) /\ Len(a) = n
  OBVIOUS

\* The buffer is a text as well.
LEMMA BufferSeq ==
  ASSUME NEW b \in [1..32 -> Half]
  PROVE  b \in Seq(Half) /\ Len(b) = 32
  BY FunctionSeq

LEMMA RoomLeft ==
  ASSUME NEW b \in 0..32, NEW l \in Nat, b + l > 32
  PROVE  32 - b \in Nat /\ 32 - b <= l /\ b + (32 - b) = 32 /\ b \in Nat
  OBVIOUS

\* A buffer that is filled up is consumed.
HasBuffered(s, b) == b = s.bufferedSize

\* What it comes to: whole buffers, up to p bytes of the input.
FilledTo(f, s, x, y, secret, p) ==
  \E n \in Nat : Held(f, y, secret, n) /\ Tail16(f, y, n) /\ Keeps(f, s) /\ 32 * n = Len(x) + p

LEMMA FillIs ==
  ASSUME NEW s, NEW x \in Seq(Half), NEW secret, Len(secret) = 32, NEW m \in Nat, IsStream(s, x, secret, m),
         NEW input \in Seq(Half), NEW y \in Seq(Half), Behind(y, x, input),
         NEW b \in 0..32, HasBuffered(s, b), b + Len(input) > 32, NEW f, f = Filled(s, input)
  PROVE  FilledTo(f, s, x, y, secret, Skipped(b))
<1> b = s.bufferedSize
  BY DEF HasBuffered
<1>1. PICK lx \in Nat, li \in Nat : lx = Len(x) /\ li = Len(input)
  OBVIOUS
<1>2. /\ Held(s, x, secret, m) /\ 32 * m <= lx /\ b = lx - (32 * m) /\ lx = (32 * m) + b
      /\ m # 0 => b # 0
  BY <1>1 DEF IsStream
<1>3. Held(s, y, secret, m) /\ StreamFits(s) /\ s.buffer \in [1..32 -> Half]
  <2>1. Extends(y, x) /\ 32 * m <= Len(x)
    BY <1>1, <1>2 DEF Behind
  <2>2. Held(s, y, secret, m)
    BY <1>2, <2>1, HeldSame
  <2> QED
    BY <2>2 DEF Held
<1>4. CASE b = 0
  <2>1. m = 0 /\ f = s
    BY <1>2, <1>4 DEF Filled
  <2>2. 32 * m = lx + Skipped(b)
    BY <1>2, <1>4 DEF Skipped
  <2>3. Tail16(f, y, m) /\ Keeps(f, s)
    BY <2>1 DEF Tail16, Keeps
  <2> QED
    BY <1>1, <1>3, <2>1, <2>2, <2>3 DEF FilledTo
<1>5. CASE b # 0
  <2> DEFINE more == 32 - b
             part == Window(input, 0, more)
             full == Buffered(s, b, part)
             rest == consumeStripes(full, full.buffer, 0, BufferSize \div StripeLen)
  <2>1. f = [rest EXCEPT !.bufferedSize = 0]
    BY <1>5, Scale DEF Filled
  <2>2. more \in Nat /\ more <= li /\ b + more = 32 /\ b \in Nat
    <3>1. b + li > 32
      BY <1>1, Zenon
    <3> QED
      BY <3>1, RoomLeft
  <2> HIDE DEF more
  <2>3. part \in Seq(Half) /\ Len(part) = more /\ \A k \in 1..more : part[k] = input[k]
    BY <1>1, <2>2 DEF Window
  <2> HIDE DEF part
  <2>4. StreamFits(full)
    <3>1. Len(part) \in Nat /\ b + Len(part) <= 32
      BY <2>2, <2>3
    <3> QED
      BY <1>3, <2>2, <3>1, CopyFits
  <2>5. /\ full.buffer \in [1..32 -> Half]
        /\ \A k \in 1..32 : full.buffer[k] = IF k \in b+1..b+more THEN part[k - b] ELSE s.buffer[k]
        /\ full.acc = s.acc /\ full.nbStripesSoFar = s.nbStripesSoFar /\ Keeps(full, s)
    <3>1. b + Len(part) <= 32
      BY <2>2, <2>3
    <3>2. /\ full.buffer \in [1..32 -> Half]
          /\ \A k \in 1..32 : full.buffer[k] = IF k \in b+1..b+Len(part) THEN part[k - b] ELSE s.buffer[k]
          /\ full.acc = s.acc /\ full.nbStripesSoFar = s.nbStripesSoFar /\ Keeps(full, s)
      <4>1. PICK r : r = Buffered(s, b, part)
        OBVIOUS
      <4>2. MayCopy(s, b, part)
        BY <1>3, <2>2, <2>3, <3>1 DEF MayCopy
      <4>3. CopyOf(r, s, b, part)
        BY <4>1, <4>2, CopyMade
      <4> QED
        BY <4>1, <4>3 DEF CopyOf, Copied
    <3> QED
      BY <2>3, <3>2
  <2> HIDE DEF full
  <2>6. Held(full, y, secret, m)
    BY <1>3, <2>4, <2>5, HeldKept
  <2>7. ASSUME NEW k \in 1..32 PROVE full.buffer[k] = y[(32 * m) + k]
    <3>1. CASE k \in b+1..b+more
      <4>1. PICK j \in 1..more : j = k - b
        BY <2>2, <3>1
      <4>2. full.buffer[k] = input[j] /\ j \in 1..li /\ lx + j = (32 * m) + k
        <5>1. full.buffer[k] = part[k - b] /\ part[j] = input[j]
          BY <2>3, <2>5, <3>1, <4>1
        <5>2. j \in 1..li
          BY <2>2, <4>1
        <5>3. lx + j = (32 * m) + k
          BY <1>2, <2>2, <4>1
        <5> QED
          BY <4>1, <5>1, <5>2, <5>3
      <4>3. y[lx + j] = input[j]
        BY <1>1, <4>2 DEF Behind
      <4> QED
        BY <4>2, <4>3
    <3>2. CASE ~(k \in b+1..b+more)
      <4>1. k \in 1..b
        BY <2>2, <3>2
      <4>2. full.buffer[k] = x[(32 * m) + k]
        BY <2>5, <3>2, <4>1 DEF IsStream
      <4>3. (32 * m) + k \in 1..lx
        BY <1>2, <4>1
      <4>4. y[(32 * m) + k] = x[(32 * m) + k]
        BY <1>1, <4>3 DEF Behind, Extends
      <4> QED
        BY <4>2, <4>4
    <3> QED
      BY <3>1, <3>2
  <2>8. SameBytes(full.buffer, 0, y, 32 * m, 32)
    <3>1. full.buffer \in Seq(Half) /\ Len(full.buffer) = 32
      BY <2>5, BufferSeq
    <3>2. Len(y) = lx + li /\ 32 * m \in Nat
      BY <1>1 DEF Behind
    <3>3. (32 * m) + 32 <= Len(y) /\ 0 + 32 <= 32
      BY <1>1, <1>2, <3>2
    <3>4. \A k \in 1..32 : full.buffer[0 + k] = y[(32 * m) + k]
      <4> TAKE k \in 1..32
      <4>1. 0 + k = k
        OBVIOUS
      <4>2. full.buffer[k] = y[(32 * m) + k]
        BY <2>7
      <4> QED
        BY <4>1, <4>2, Zenon
    <3> QED
      BY <3>1, <3>2, <3>3, <3>4 DEF SameBytes
  <2>9. /\ Held(rest, y, secret, m + 1) /\ Keeps(rest, full) /\ rest.buffer = full.buffer
    <3>1. PICK r : r = consumeStripes(full, full.buffer, 0, BufferSize \div StripeLen)
      OBVIOUS
    <3>2. Held(r, y, secret, m + 1) /\ Keeps(r, full) /\ r.buffer = full.buffer
      <4>1. PICK a, u : a = full /\ u = full.buffer
        OBVIOUS
      <4>2. SameBytes(u, 0, y, 32 * m, 32) /\ r = consumeStripes(a, u, 0, BufferSize \div StripeLen)
        BY <2>8, <3>1, <4>1, Zenon
      <4>3. Held(a, y, secret, m)
        BY <2>6, <4>1, Zenon
      <4>4. Held(r, y, secret, m + 1) /\ Keeps(r, a)
            /\ r.buffer = a.buffer /\ r.bufferedSize = a.bufferedSize
        BY <4>2, <4>3, HeldNext
      <4> QED
        BY <4>1, <4>4, Zenon
    <3> QED
      BY <3>1, <3>2
  <2> HIDE DEF rest
  <2>10. StreamFits(rest) /\ rest.buffer \in [1..32 -> Half]
    BY <2>9 DEF Held
  <2>11. /\ f.buffer = rest.buffer /\ f.acc = rest.acc /\ f.nbStripesSoFar = rest.nbStripesSoFar
         /\ Keeps(f, rest)
    BY <2>1, <2>10 DEF StreamFits, IsState, Fields, Keeps
  <2>12. StreamFits(f)
    <3>1. 0 \in 0..32
      OBVIOUS
    <3> QED
      BY <2>1, <2>10, <3>1, SetBuffered
  <2>13. Held(f, y, secret, m + 1)
    BY <2>9, <2>10, <2>11, <2>12, HeldKept
  <2>14. Keeps(f, s)
    BY <2>5, <2>9, <2>11, KeepsBoth
  <2>15. Tail16(f, y, m + 1)
    <3>1. ASSUME NEW k \in 17..32 PROVE f.buffer[k] = y[(32 * (m + 1)) + k - 32]
      <4>1. (32 * (m + 1)) + k - 32 = (32 * m) + k /\ k \in 1..32
        OBVIOUS
      <4> QED
        BY <2>7, <2>9, <2>11, <4>1
    <3> QED
      BY <3>1 DEF Tail16
  <2>16. 32 * (m + 1) = lx + Skipped(b)
    BY <1>2, <1>5 DEF Skipped
  <2> QED
    BY <1>1, <2>13, <2>14, <2>15, <2>16 DEF FilledTo
<1> QED
  BY <1>4, <1>5

---------------------------------------------------------------------------
\* A number of buffers are consumed.
LEMMA BuffersAre ==
  ASSUME NEW s, NEW y, NEW secret, Len(secret) = 32, NEW m \in Nat, Held(s, y, secret, m),
         NEW input, NEW p, NEW n \in Nat, SameBytes(input, p, y, 32 * m, 32 * n),
         NEW r, r = Buffers(s, input, p, n)
  PROVE  Held(r, y, secret, m + n) /\ Keeps(r, s)
<1> DEFINE f == CHOOSE f : IsConsuming(f, s, input, p, n)
<1>1. PICK g : IsConsuming(g, s, input, p, n) /\ \A k \in 0..n : StreamFits(g[k])
  BY ConsumingFits DEF Held
<1>2. IsConsuming(f, s, input, p, n)
  BY <1>1
<1>3. r = f[n]
  BY Zenon DEF Buffers, IsConsuming, NextBuffer
<1> HIDE DEF f
<1> DEFINE T == {a \in 0..n : Held(f[a], y, secret, m + a) /\ Keeps(f[a], s)}
<1>4. 0 \in T
  <2>1. f[0] = s /\ m + 0 = m /\ 0 \in 0..n
    BY <1>2 DEF IsConsuming
  <2> QED
    BY <2>1 DEF Keeps
<1>5. ASSUME NEW a \in 1..n, a - 1 \in T PROVE a \in T
  <2>1. PICK j \in Nat : j = a - 1
    OBVIOUS
  <2>2. PICK c \in Nat : c = m + j
    BY <2>1
  <2>3. Held(f[j], y, secret, c) /\ Keeps(f[j], s)
    BY <1>5, <2>1, <2>2
  <2>4. PICK e \in Nat : e = 32 * j
    BY <2>1
  <2>5. SameBytes(input, p + e, y, (32 * m) + e, 32)
    <3>1. e + 32 <= 32 * n /\ 32 \in Nat
      BY <2>1, <2>4
    <3> QED
      BY <3>1, SameWithin
  <2>6. (32 * m) + e = 32 * c /\ e = (a - 1) * 32 /\ c + 1 = m + a
    BY <2>1, <2>2, <2>4
  <2>7. PICK t : t = f[a]
    OBVIOUS
  <2>8. t = consumeStripes(f[j], input, p + e, BufferSize \div StripeLen)
    <3>1. f[a] = NextBuffer(f[a-1], input, p, a)
      BY <1>2 DEF IsConsuming
    <3> QED
      BY <2>1, <2>6, <2>7, <3>1, Scale DEF NextBuffer
  <2>9. SameBytes(input, p + e, y, 32 * c, 32)
    BY <2>5, <2>6
  <2>10. Held(t, y, secret, c + 1) /\ Keeps(t, f[j])
    BY <2>3, <2>8, <2>9, HeldNext
  <2>11. Keeps(t, s)
    BY <2>3, <2>10, KeepsBoth
  <2> QED
    BY <2>6, <2>7, <2>10, <2>11
<1> HIDE DEF T
<1>6. \A a \in 0..n : a \in T
  BY <1>4, <1>5, SetInduction
<1>7. n \in T
  BY <1>6
<1> QED
  BY <1>3, <1>7 DEF T

\* Where the last stripe of the whole buffers lies.
LEMMA BulkPlaces ==
  ASSUME NEW l \in Nat, NEW p \in Nat, p < l, NEW m \in Nat, NEW n \in Nat, n # 0, l - p - (32 * n) \in 1..32
  PROVE  /\ (p + (32 * n)) - 16 \in Nat /\ ((p + (32 * n)) - 16) + 16 <= l
         /\ \A k \in 17..32 : /\ ((p + (32 * n)) - 16) + (k - 16) = p + ((32 * n) + k - 32)
                              /\ (32 * n) + k - 32 \in 1..l-p
                              /\ (32 * m) + ((32 * n) + k - 32) = (32 * (m + n)) + k - 32
  OBVIOUS

LEMMA WhatIsBehind ==
  ASSUME NEW l \in Nat, NEW p \in Nat, p < l
  PROVE  \E d \in Nat : d = l - p /\ d >= 1
  OBVIOUS

LEMMA WithinBehind ==
  ASSUME NEW l \in Nat, NEW p \in Nat, NEW g \in Nat, NEW e \in Nat, l - p - e \in 1..32
  PROVE  0 \in Nat /\ 0 + e <= l - p /\ p + 0 = p /\ g + 0 = g
  OBVIOUS

LEMMA LastBehind ==
  ASSUME NEW l \in Nat, NEW p \in Nat, NEW g \in Nat, NEW e \in Nat, l - p - e \in 1..32, e >= 32,
         NEW k \in 17..32
  PROVE  /\ ((p + e) - 16) + (k - 16) = p + (e + k - 32)
         /\ e + k - 32 \in 1..l-p
         /\ g + (e + k - 32) = (g + e) + k - 32
  OBVIOUS

LEMMA Buffers32 ==
  ASSUME NEW m \in Nat, NEW n \in Nat
  PROVE  32 * m \in Nat /\ 32 * n \in Nat /\ 32 * (m + n) = (32 * m) + (32 * n) /\ (n # 0 => 32 * n >= 32)
  OBVIOUS

\* The whole buffers are consumed, and the last of their stripes is kept.
LEMMA BulkMade ==
  ASSUME NEW s, NEW y, NEW secret, Len(secret) = 32, NEW m \in Nat, Held(s, y, secret, m),
         NEW input \in Seq(Half), NEW p \in Nat, NEW l \in Nat, l <= Len(input), p < l,
         SameBytes(input, p, y, 32 * m, l - p),
         NEW n \in Nat, n # 0, l - p - (32 * n) \in 1..32,
         NEW r, r = Buffered(Buffers(s, input, p, n), 16, Window(input, (p + (n * 32)) - 16, 16))
  PROVE  Held(r, y, secret, m + n) /\ Tail16(r, y, m + n) /\ Keeps(r, s)
<1>1. PICK all : all = Buffers(s, input, p, n)
  OBVIOUS
<1>2. Held(all, y, secret, m + n) /\ Keeps(all, s)
  <2>1. SameBytes(input, p, y, 32 * m, 32 * n)
    <3>1. PICK e \in Nat, g \in Nat : e = 32 * n /\ g = 32 * m
      BY Buffers32
    <3>2. 0 \in Nat /\ 0 + e <= l - p /\ p + 0 = p /\ g + 0 = g
      <4>1. l - p - e \in 1..32
        BY <3>1, Zenon
      <4> QED
        BY <4>1, WithinBehind
    <3>3. SameBytes(input, p, y, g, l - p)
      BY <3>1, Zenon
    <3>4. SameBytes(input, p + 0, y, g + 0, e)
      BY <3>2, <3>3, SameWithin
    <3> QED
      BY <3>1, <3>2, <3>4, Zenon
  <2> QED
    BY <1>1, <2>1, BuffersAre
<1>3. PICK q : q = (p + (32 * n)) - 16
  OBVIOUS
<1>4. q \in Nat /\ q + 16 <= l /\ n * 32 = 32 * n
  <2>1. ((p + (32 * n)) - 16) \in Nat /\ ((p + (32 * n)) - 16) + 16 <= l
    BY BulkPlaces
  <2> QED
    BY <1>3, <2>1
<1>5. PICK w : w = Window(input, q, 16)
  OBVIOUS
<1>6. w \in Seq(Half) /\ Len(w) = 16 /\ \A k \in 1..16 : w[k] = input[q + k]
  BY <1>4, <1>5 DEF Window
<1>7. r = Buffered(all, 16, w)
  BY <1>1, <1>3, <1>4, <1>5
<1>8. CopyOf(r, all, 16, w)
  <2>1. MayCopy(all, 16, w)
    BY <1>2, <1>6 DEF Held, MayCopy
  <2> QED
    BY <1>7, <2>1, CopyMade
<1>9. StreamFits(r)
  <2>1. StreamFits(all) /\ 16 \in Nat /\ Len(w) \in Nat /\ 16 + Len(w) <= 32
    BY <1>2, <1>6 DEF Held
  <2> QED
    BY <1>7, <2>1, CopyFits
<1>10. Held(r, y, secret, m + n)
  BY <1>2, <1>8, <1>9, HeldKept DEF CopyOf, Copied
<1>11. Keeps(r, s)
  BY <1>2, <1>8, KeepsBoth DEF CopyOf
<1>12. ASSUME NEW k \in 17..32 PROVE r.buffer[k] = y[(32 * (m + n)) + k - 32]
  <2>1. k \in 1..32 /\ k \in 16+1..16+16 /\ k - 16 \in 1..16
    OBVIOUS
  <2>2. r.buffer[k] = w[k - 16]
    BY <1>6, <1>8, <2>1 DEF CopyOf, Copied
  <2>3. w[k - 16] = input[q + (k - 16)]
    BY <1>6, <2>1
  <2>4. PICK j : j = (32 * n) + k - 32
    OBVIOUS
  <2>5. /\ q + (k - 16) = p + j /\ j \in 1..l-p /\ (32 * m) + j = (32 * (m + n)) + k - 32
    <3>1. PICK e \in Nat, g \in Nat : e = 32 * n /\ g = 32 * m /\ e >= 32 /\ 32 * (m + n) = g + e
      BY Buffers32
    <3>2. /\ ((p + e) - 16) + (k - 16) = p + (e + k - 32)
          /\ e + k - 32 \in 1..l-p
          /\ g + (e + k - 32) = (g + e) + k - 32
      <4>1. l - p - e \in 1..32
        BY <3>1, Zenon
      <4> QED
        BY <3>1, <4>1, LastBehind
    <3> QED
      BY <1>3, <2>4, <3>1, <3>2, Zenon
  <2>6. input[p + j] = y[(32 * m) + j]
    BY <2>5 DEF SameBytes
  <2> QED
    BY <2>2, <2>3, <2>5, <2>6
<1>13. Tail16(r, y, m + n)
  BY <1>12 DEF Tail16
<1> QED
  BY <1>10, <1>11, <1>13

\* The same, with its hypotheses in a word.
BulkOf(s, y, secret, m, input, p, l, n, r) ==
  /\ Len(secret) = 32 /\ m \in Nat /\ Held(s, y, secret, m)
  /\ input \in Seq(Half) /\ p \in Nat /\ l \in Nat /\ l <= Len(input) /\ p < l
  /\ SameBytes(input, p, y, 32 * m, l - p)
  /\ n \in Nat /\ n # 0 /\ l - p - (32 * n) \in 1..32
  /\ r = Buffered(Buffers(s, input, p, n), 16, Window(input, (p + (n * 32)) - 16, 16))

LEMMA BulkDone ==
  ASSUME NEW s, NEW y, NEW secret, NEW m, NEW input, NEW p, NEW l, NEW n, NEW r,
         BulkOf(s, y, secret, m, input, p, l, n, r)
  PROVE  Held(r, y, secret, m + n) /\ Tail16(r, y, m + n) /\ Keeps(r, s)
<1> USE DEF BulkOf
<1>1. Len(secret) = 32 /\ m \in Nat /\ Held(s, y, secret, m) /\ SameBytes(input, p, y, 32 * m, l - p)
  OBVIOUS
<1>2. input \in Seq(Half) /\ p \in Nat /\ l \in Nat /\ l <= Len(input) /\ p < l
  OBVIOUS
<1>3. n \in Nat /\ n # 0 /\ l - p - (32 * n) \in 1..32
  OBVIOUS
<1>4. r = Buffered(Buffers(s, input, p, n), 16, Window(input, (p + (n * 32)) - 16, 16))
  OBVIOUS
<1> QED
  BY <1>1, <1>2, <1>3, <1>4, BulkMade, Zenon

\* A state before whole buffers, and what is to be consumed.
BulkFrom(s, y, secret, m, input, p, l) ==
  /\ Len(secret) = 32 /\ m \in Nat /\ Held(s, y, secret, m) /\ Tail16(s, y, m)
  /\ input \in Seq(Half) /\ p \in Nat /\ l \in Nat /\ l = Len(input) /\ p < l
  /\ SameBytes(input, p, y, 32 * m, l - p)

LEMMA BulkIs ==
  ASSUME NEW s, NEW y, NEW secret, NEW m, NEW input, NEW p, NEW l, BulkFrom(s, y, secret, m, input, p, l),
         NEW n, n = Max({0, (l - p - 1) \div 32}), NEW r, r = Bulk(s, input, p)
  PROVE  /\ n \in Nat /\ l - p - (32 * n) \in 1..32
         /\ Held(r, y, secret, m + n) /\ Tail16(r, y, m + n) /\ Keeps(r, s)
<1>0. /\ Len(secret) = 32 /\ m \in Nat /\ Held(s, y, secret, m) /\ Tail16(s, y, m)
      /\ input \in Seq(Half) /\ p \in Nat /\ l \in Nat /\ l = Len(input) /\ p < l
      /\ SameBytes(input, p, y, 32 * m, l - p)
  BY DEF BulkFrom
<1>1. n \in Nat /\ l - p - (32 * n) \in 1..32
  <2>1. PICK d \in Nat : d = l - p /\ d >= 1
    BY <1>0, WhatIsBehind
  <2>2. n = Max({0, (d - 1) \div 32})
    BY <2>1, Zenon
  <2>3. n \in Nat /\ d - 32 * n \in 1..32
    BY <2>1, <2>2, Wholes
  <2> QED
    BY <2>1, <2>3, Zenon
<1>2. r = IF n = 0 THEN s
          ELSE Buffered(Buffers(s, input, p, n), 16, Window(input, (p + (n * 32)) - 16, 16))
  <2>1. BufferSize - StripeLen = 16 /\ BufferSize = 32 /\ StripeLen = 16
    BY Scale
  <2> QED
    BY <1>0, <2>1, Zenon DEF Bulk
<1>3. CASE n = 0
  <2>1. r = s /\ m + n = m
    BY <1>0, <1>2, <1>3
  <2> QED
    BY <1>0, <1>1, <2>1 DEF Keeps
<1>4. CASE n # 0
  <2>1. l <= Len(input)
    BY <1>0
  <2>2. r = Buffered(Buffers(s, input, p, n), 16, Window(input, (p + (n * 32)) - 16, 16))
    BY <1>2, <1>4, Zenon
  <2>3. Held(r, y, secret, m + n) /\ Tail16(r, y, m + n) /\ Keeps(r, s)
    <3>1. BulkOf(s, y, secret, m, input, p, l, n, r)
      BY <1>0, <1>1, <1>4, <2>1, <2>2 DEF BulkOf
    <3> QED
      BY <3>1, BulkDone, Zenon
  <2> QED
    BY <1>1, <2>3
<1> QED
  BY <1>3, <1>4

---------------------------------------------------------------------------
\* What is left behind the whole buffers goes to the start of the buffer.
RestOf(u, rest) == [u EXCEPT !.bufferedSize = Len(rest), !.bad = @ \/ rest = <<>>]

LEMMA RestIs ==
  ASSUME NEW t, NEW y \in Seq(Half), NEW secret, NEW m \in Nat, Held(t, y, secret, m), Tail16(t, y, m),
         NEW input, NEW q, NEW c \in 1..32, SameBytes(input, q, y, 32 * m, c), Len(y) = (32 * m) + c,
         NEW rest, rest = Window(input, q, c), NEW u, u = Buffered(t, 0, rest), NEW r, r = RestOf(u, rest)
  PROVE  IsStream(r, y, secret, m) /\ Keeps(r, t)
<1>1. input \in Seq(Half) /\ q \in Nat /\ q + c <= Len(input)
  BY DEF SameBytes
<1>2. rest \in Seq(Half) /\ Len(rest) = c /\ \A k \in 1..c : rest[k] = input[q + k]
  <2>1. c \in Nat
    OBVIOUS
  <2> QED
    BY <1>1, <2>1, WindowIs
<1>3. c # 0 /\ c \in Nat /\ c \in 0..32 /\ 0 \in Nat /\ 0 + c <= 32 /\ 0 + 1 = 1 /\ 0 + c = c
  OBVIOUS
<1>4. CopyOf(u, t, 0, rest) /\ StreamFits(u)
  <2>1. /\ StreamFits(t) /\ t.buffer \in [1..32 -> Half] /\ 0 \in Nat /\ rest \in Seq(Half)
        /\ 0 + Len(rest) <= 32 /\ Len(rest) \in Nat
    BY <1>2, <1>3 DEF Held
  <2>2. CopyOf(u, t, 0, rest)
    <3>1. MayCopy(t, 0, rest)
      BY <2>1 DEF MayCopy
    <3> QED
      BY <3>1, CopyMade
  <2>3. StreamFits(u)
    BY <2>1, CopyFits
  <2> QED
    BY <2>2, <2>3
<1>5. rest # <<>>
  BY <1>2, <1>3, EmptySeq
<1>6. PICK w : w = (u.bad \/ rest = <<>>)
  OBVIOUS
<1>7. w = FALSE
  BY <1>4, <1>5, <1>6 DEF StreamFits
<1>8. r = [u EXCEPT !.bufferedSize = c, !.bad = w]
  BY <1>2, <1>6 DEF RestOf
<1>9. StreamFits(r)
  BY <1>3, <1>4, <1>7, <1>8 DEF StreamFits, IsState, Fields
<1>10. /\ r.buffer = u.buffer /\ r.acc = u.acc /\ r.nbStripesSoFar = u.nbStripesSoFar
       /\ r.bufferedSize = c /\ Keeps(r, u)
  BY <1>4, <1>8 DEF StreamFits, IsState, Fields, Keeps
<1>11. Keeps(r, t)
  BY <1>4, <1>10, KeepsBoth DEF CopyOf
<1>12. Held(r, y, secret, m)
  <2>1. /\ r.buffer \in [1..32 -> Half] /\ r.acc = t.acc /\ r.nbStripesSoFar = t.nbStripesSoFar
    BY <1>4, <1>10 DEF CopyOf, Copied
  <2> QED
    BY <1>9, <1>11, <2>1, HeldKept
<1>13. ASSUME NEW k \in 1..c PROVE r.buffer[k] = y[(32 * m) + k]
  <2>1. k \in 1..32 /\ k \in 0+1..0+c /\ k - 0 = k
    OBVIOUS
  <2>2. r.buffer[k] = rest[k - 0]
    BY <1>2, <1>4, <1>10, <2>1 DEF CopyOf, Copied
  <2>3. input[q + k] = y[(32 * m) + k]
    BY DEF SameBytes
  <2> QED
    BY <1>2, <2>1, <2>2, <2>3
<1>14. c <= 16 => Tail16(r, y, m)
  <2>1. SUFFICES ASSUME c <= 16 PROVE Tail16(r, y, m)
    OBVIOUS
  <2>2. ASSUME NEW k \in 17..32 PROVE r.buffer[k] = t.buffer[k]
    <3>1. k \in 1..32 /\ ~(k \in 0+1..0+c)
      BY <2>1
    <3> QED
      BY <1>2, <1>4, <1>10, <3>1 DEF CopyOf, Copied
  <2> QED
    BY <2>2, TailKept
<1>15. 32 * m <= Len(y) /\ c = Len(y) - (32 * m)
  BY <1>3
<1> QED
  BY <1>3, <1>10, <1>11, <1>12, <1>13, <1>14, <1>15 DEF IsStream

\* An update that fills the buffer up.
LEMMA ConsumedPlaces ==
  ASSUME NEW lx \in Nat, NEW l \in Nat, NEW p \in Nat, p < l, NEW g \in Nat, g = lx + p,
         NEW e \in Nat, l - p - e \in 1..32
  PROVE  /\ p + (l - p) <= l /\ l - p \in Nat /\ 0 + p = p
         /\ \E c \in 1..32 : /\ c = l - (p + e) /\ e + c <= l - p /\ c \in Nat
                             /\ lx + l = (g + e) + c
  <1>1. PICK c \in 1..32 : c = l - p - e
    OBVIOUS
  <1>2. c = l - (p + e) /\ e + c <= l - p /\ c \in Nat /\ lx + l = (g + e) + c
    BY <1>1
  <1> QED
    BY <1>2

LEMMA ConsumedIs ==
  ASSUME NEW s, NEW x \in Seq(Half), NEW secret, Len(secret) = 32, NEW m \in Nat, IsStream(s, x, secret, m),
         NEW input \in Seq(Half), NEW y \in Seq(Half), Behind(y, x, input),
         NEW b \in 0..32, HasBuffered(s, b), b + Len(input) > 32, NEW r, r = Consumed(s, input)
  PROVE  \E n \in Nat : IsStream(r, y, secret, n) /\ Keeps(r, s)
<1>1. PICK lx \in Nat, l \in Nat : lx = Len(x) /\ l = Len(input)
  OBVIOUS
<1>2. PICK p : p = Skipped(b)
  OBVIOUS
<1>3. p \in Nat /\ p < l
  BY <1>1, <1>2, Amounts DEF HasBuffered
<1>4. PICK f : f = Filled(s, input)
  OBVIOUS
<1>5. PICK m1 \in Nat : Held(f, y, secret, m1) /\ Tail16(f, y, m1) /\ Keeps(f, s) /\ 32 * m1 = lx + p
  <2>1. FilledTo(f, s, x, y, secret, Skipped(b))
    BY <1>4, FillIs
  <2> QED
    BY <1>1, <1>2, <2>1, Zenon DEF FilledTo
<1>6. PICK n : n = Max({0, (l - p - 1) \div 32})
  OBVIOUS
<1>7. PICK t : t = Bulk(f, input, p)
  OBVIOUS
<1>8. SameBytes(input, p, y, 32 * m1, l - p)
  <2>1. SameBytes(input, 0, y, lx, l)
    BY <1>1, BehindSame
  <2>2. p + (l - p) <= l /\ l - p \in Nat /\ 0 + p = p
    BY <1>3
  <2>3. SameBytes(input, 0 + p, y, lx + p, l - p)
    BY <1>3, <2>1, <2>2, SameWithin
  <2> QED
    BY <1>5, <2>2, <2>3, Zenon
<1>9. /\ n \in Nat /\ l - p - (32 * n) \in 1..32
      /\ Held(t, y, secret, m1 + n) /\ Tail16(t, y, m1 + n) /\ Keeps(t, f)
  <2>1. BulkFrom(f, y, secret, m1, input, p, l)
    BY <1>1, <1>3, <1>5, <1>8 DEF BulkFrom
  <2> QED
    BY <1>6, <1>7, <2>1, BulkIs
<1>10. PICK e \in Nat, g \in Nat : e = 32 * n /\ g = 32 * m1 /\ 32 * (m1 + n) = g + e
  BY <1>9, Buffers32
<1>11. PICK c \in 1..32 : c = l - (p + e) /\ e + c <= l - p /\ c \in Nat /\ lx + l = (g + e) + c
  <2>1. g = lx + p /\ l - p - e \in 1..32
    BY <1>5, <1>9, <1>10, Zenon
  <2> QED
    BY <1>3, <2>1, ConsumedPlaces
<1>12. SameBytes(input, p + e, y, 32 * (m1 + n), c)
  <2>1. SameBytes(input, p, y, g, l - p)
    BY <1>8, <1>10, Zenon
  <2>2. SameBytes(input, p + e, y, g + e, c)
    BY <1>11, <2>1, SameWithin
  <2> QED
    BY <1>10, <2>2, Zenon
<1>13. Len(y) = (32 * (m1 + n)) + c
  <2>1. Len(y) = lx + l
    BY <1>1 DEF Behind
  <2> QED
    BY <1>10, <1>11, <2>1, Zenon
<1>14. PICK q : q = p + e
  OBVIOUS
<1>15. PICK rest, u : rest = Window(input, q, c) /\ u = Buffered(t, 0, rest)
  OBVIOUS
<1>16. r = RestOf(u, rest)
  <2>1. Skipped(b) + 32 * Max({0, (l - Skipped(b) - 1) \div 32}) = q
    BY <1>2, <1>6, <1>10, <1>14, Zenon
  <2>2. /\ (IF b = 0 THEN 0 ELSE 32 - b) = p
        /\ BufferSize = 32
    BY <1>2, Scale DEF Skipped
  <2>3. Consumed(s, input) = RestOf(Buffered(Bulk(Filled(s, input), input, p), 0,
                                             Window(input, p + 32 * Max({0, (Len(input) - p - 1) \div 32}),
                                                    Len(input) - (p + 32 * Max({0, (Len(input) - p - 1) \div 32})))),
                                    Window(input, p + 32 * Max({0, (Len(input) - p - 1) \div 32}),
                                                    Len(input) - (p + 32 * Max({0, (Len(input) - p - 1) \div 32}))))
    <3>1. s.bufferedSize = b
      BY DEF HasBuffered
    <3> DEFINE pp == IF s.bufferedSize = 0 THEN 0 ELSE BufferSize - s.bufferedSize
               qq == pp + BufferSize * Max({0, (Len(input) - pp - 1) \div BufferSize})
               what == Window(input, qq, Len(input) - qq)
    <3>2. Consumed(s, input) = RestOf(Buffered(Bulk(Filled(s, input), input, pp), 0, what), what)
      BY Zenon DEF Consumed, RestOf
    <3>3. pp = p /\ qq = p + 32 * Max({0, (Len(input) - p - 1) \div 32})
      BY <2>2, <3>1
    <3> HIDE DEF pp, qq
    <3> QED
      BY <3>2, <3>3
  <2> QED
    BY <1>1, <1>4, <1>6, <1>7, <1>10, <1>11, <1>14, <1>15, <2>3, Zenon
<1>17. IsStream(r, y, secret, m1 + n) /\ Keeps(r, t)
  <2>1. PICK M \in Nat : M = m1 + n
    BY <1>9
  <2>2. /\ Held(t, y, secret, M) /\ Tail16(t, y, M) /\ SameBytes(input, q, y, 32 * M, c)
        /\ Len(y) = (32 * M) + c
    BY <1>9, <1>12, <1>13, <1>14, <2>1, Zenon
  <2>3. IsStream(r, y, secret, M) /\ Keeps(r, t)
    BY <1>15, <1>16, <2>2, RestIs
  <2> QED
    BY <2>1, <2>3, Zenon
<1>18. Keeps(r, s)
  BY <1>5, <1>9, <1>17, KeepsBoth
<1>19. m1 + n \in Nat
  BY <1>9
<1> QED
  BY <1>17, <1>18, <1>19

---------------------------------------------------------------------------
\* An update that fits behind what waits.
LEMMA AppendedPlaces ==
  ASSUME NEW lx \in Nat, NEW g \in Nat, NEW b \in 0..32, b = lx - g, NEW l \in Nat, b + l <= 32
  PROVE  /\ lx = g + b /\ g <= lx + l /\ b + l = (lx + l) - g /\ b + l \in 0..32 /\ b \in Nat
         /\ b # 0 => b + l # 0
         /\ b + l <= 16 => b <= 16
  OBVIOUS

LEMMA AppendedByte ==
  ASSUME NEW lx \in Nat, NEW g \in Nat, NEW b \in 0..32, lx = g + b, NEW l \in Nat, b + l <= 32, NEW k \in 1..b+l
  PROVE  /\ k \in 1..32
         /\ k \in b+1..b+l => k - b \in 1..l /\ lx + (k - b) = g + k
         /\ ~(k \in b+1..b+l) => k \in 1..b /\ g + k \in 1..lx
  OBVIOUS

LEMMA TailByte ==
  ASSUME NEW lx \in Nat, NEW m \in Nat, m # 0, 32 * m <= lx, NEW k \in 17..32
  PROVE  (32 * m) + k - 32 \in 1..lx
  OBVIOUS

LEMMA AppendedIs ==
  ASSUME NEW s, NEW x \in Seq(Half), NEW secret, Len(secret) = 32, NEW m \in Nat, IsStream(s, x, secret, m),
         NEW input \in Seq(Half), NEW y \in Seq(Half), Behind(y, x, input),
         NEW b \in 0..32, HasBuffered(s, b), b + Len(input) <= 32, NEW r, r = Appended(s, input)
  PROVE  IsStream(r, y, secret, m) /\ Keeps(r, s)
<1>1. PICK lx \in Nat, l \in Nat, g \in Nat : lx = Len(x) /\ l = Len(input) /\ g = 32 * m
  OBVIOUS
<1>2. b = lx - g /\ g <= lx /\ (m # 0 => b # 0)
  BY <1>1 DEF IsStream, HasBuffered
<1>3. /\ lx = g + b /\ g <= lx + l /\ b + l = (lx + l) - g /\ b + l \in 0..32 /\ b \in Nat
      /\ b # 0 => b + l # 0
      /\ b + l <= 16 => b <= 16
  <2>1. b + l <= 32
    BY <1>1, Zenon
  <2> QED
    BY <1>2, <2>1, AppendedPlaces
<1>4. Held(s, y, secret, m)
  <2>1. Held(s, x, secret, m) /\ 32 * m <= Len(x) /\ Extends(y, x)
    BY DEF IsStream, Behind
  <2> QED
    BY <2>1, HeldSame
<1>5. PICK u : u = Buffered(s, b, input)
  OBVIOUS
<1>6. CopyOf(u, s, b, input) /\ StreamFits(u)
  <2>1. /\ StreamFits(s) /\ s.buffer \in [1..32 -> Half] /\ b \in Nat /\ input \in Seq(Half)
        /\ b + Len(input) <= 32 /\ Len(input) \in Nat
    BY <1>3, <1>4 DEF Held
  <2>2. CopyOf(u, s, b, input)
    <3>1. MayCopy(s, b, input)
      BY <2>1 DEF MayCopy
    <3> QED
      BY <1>5, <3>1, CopyMade
  <2>3. StreamFits(u)
    BY <1>5, <2>1, CopyFits
  <2> QED
    BY <2>2, <2>3
<1>7. PICK c : c = b + l
  OBVIOUS
<1>8. c \in 0..32 /\ r = [u EXCEPT !.bufferedSize = c]
  <2>1. u.bufferedSize = b
    BY <1>6 DEF CopyOf, HasBuffered
  <2>2. r = [u EXCEPT !.bufferedSize = b + l]
    BY <1>1, <1>5, <2>1, Zenon DEF Appended, HasBuffered
  <2> QED
    BY <1>3, <1>7, <2>2, Zenon
<1>9. /\ r.buffer = u.buffer /\ r.acc = u.acc /\ r.nbStripesSoFar = u.nbStripesSoFar
      /\ r.bufferedSize = c /\ Keeps(r, u) /\ StreamFits(r)
  BY <1>6, <1>8 DEF StreamFits, IsState, Fields, Keeps
<1>10. Keeps(r, s)
  BY <1>6, <1>9, KeepsBoth DEF CopyOf
<1>11. Held(r, y, secret, m)
  <2>1. /\ r.buffer \in [1..32 -> Half] /\ r.acc = s.acc /\ r.nbStripesSoFar = s.nbStripesSoFar
    BY <1>6, <1>9 DEF CopyOf, Copied
  <2> QED
    BY <1>4, <1>9, <1>10, <2>1, HeldKept
<1>12. \A k \in 1..32 : r.buffer[k] = IF k \in b+1..b+l THEN input[k - b] ELSE s.buffer[k]
  BY <1>1, <1>6, <1>9 DEF CopyOf, Copied
<1>13. ASSUME NEW k \in 1..c PROVE r.buffer[k] = y[g + k]
  <2>1. k \in 1..b+l /\ b + l <= 32
    BY <1>1, <1>7, Zenon
  <2>2. /\ k \in 1..32
        /\ k \in b+1..b+l => k - b \in 1..l /\ lx + (k - b) = g + k
        /\ ~(k \in b+1..b+l) => k \in 1..b /\ g + k \in 1..lx
    BY <1>3, <2>1, AppendedByte
  <2>3. CASE k \in b+1..b+l
    <3>1. r.buffer[k] = input[k - b]
      BY <1>12, <2>2, <2>3
    <3>2. y[lx + (k - b)] = input[k - b]
      BY <1>1, <2>2, <2>3 DEF Behind
    <3> QED
      BY <2>2, <2>3, <3>1, <3>2
  <2>4. CASE ~(k \in b+1..b+l)
    <3>1. r.buffer[k] = s.buffer[k]
      BY <1>12, <2>2, <2>4
    <3>2. s.buffer[k] = x[g + k]
      BY <1>1, <2>2, <2>4 DEF IsStream, HasBuffered
    <3>3. y[g + k] = x[g + k]
      BY <1>1, <2>2, <2>4 DEF Behind, Extends
    <3> QED
      BY <3>1, <3>2, <3>3
  <2> QED
    BY <2>3, <2>4
<1>14. c <= 16 => Tail16(r, y, m)
  <2> SUFFICES ASSUME c <= 16, m # 0, NEW k \in 17..32 PROVE r.buffer[k] = y[(32 * m) + k - 32]
    BY DEF Tail16
  <2>1. b <= 16 /\ k \in 1..32 /\ ~(k \in b+1..b+l)
    <3>1. b + l <= 16
      BY <1>7, Zenon
    <3>2. b <= 16
      BY <1>3, <3>1, Zenon
    <3>3. k \in 1..32 /\ ~(k \in b+1..b+l)
      BY <3>1
    <3> QED
      BY <3>2, <3>3
  <2>2. r.buffer[k] = s.buffer[k]
    BY <1>12, <2>1
  <2>3. Tail16(s, x, m)
    BY <2>1 DEF IsStream, HasBuffered
  <2>4. s.buffer[k] = x[(32 * m) + k - 32]
    BY <2>3 DEF Tail16
  <2>5. (32 * m) + k - 32 \in 1..lx
    BY <1>1, <1>2, TailByte
  <2>6. y[(32 * m) + k - 32] = x[(32 * m) + k - 32]
    BY <1>1, <2>5 DEF Behind, Extends
  <2> QED
    BY <2>2, <2>4, <2>6
<1>15. 32 * m <= Len(y) /\ c = Len(y) - (32 * m) /\ (m # 0 => c # 0)
  <2>1. Len(y) = lx + l
    BY <1>1 DEF Behind
  <2> QED
    BY <1>1, <1>2, <1>3, <1>7, <2>1, Zenon
<1> QED
  BY <1>1, <1>9, <1>10, <1>11, <1>13, <1>14, <1>15 DEF IsStream

---------------------------------------------------------------------------
(* Updates and digests.                                                    *)

\* A stream of the bytes x, with the secret.
Streams(s, x, secret) == s.totalLen = Len(x) /\ \E m \in Nat : IsStream(s, x, secret, m)

SameSecrets(r, s) == r.seed = s.seed /\ r.extSecret = s.extSecret /\ r.customSecret = s.customSecret

LongerBy(s, s0, input) == s.totalLen = s0.totalLen + Len(input)

LEMMA NotedIs ==
  ASSUME NEW s0, NEW x, NEW secret, NEW m, IsStream(s0, x, secret, m), NEW input, NEW s, s = Noted(s0, input)
  PROVE  IsStream(s, x, secret, m) /\ SameSecrets(s, s0) /\ LongerBy(s, s0, input)
<1> DEFINE w == s0.bad \/ s0.bufferedSize > BufferSize
           v == s0.totalLen + Len(input)
<1>1. s = [s0 EXCEPT !.totalLen = v, !.bad = w]
  BY DEF Noted
<1>2. StreamFits(s0)
  BY DEF IsStream, Held
<1>3. StreamFits(s)
  BY <1>2, NotedFits
<1> HIDE DEF v, w
<1>4. /\ s.buffer = s0.buffer /\ s.bufferedSize = s0.bufferedSize /\ s.acc = s0.acc
      /\ s.nbStripesSoFar = s0.nbStripesSoFar /\ s.secretLimit = s0.secretLimit
      /\ SameSecrets(s, s0) /\ s.totalLen = v
  BY <1>1, <1>2 DEF StreamFits, IsState, Fields, SameSecrets
<1>5. SecretOf(s) = SecretOf(s0)
  BY <1>4 DEF SecretOf, SameSecrets
<1>6. Held(s, x, secret, m)
  BY <1>3, <1>4, <1>5 DEF IsStream, Held
<1>7. Tail16(s0, x, m) => Tail16(s, x, m)
  BY <1>4 DEF Tail16
<1>8. IsStream(s, x, secret, m)
  BY <1>4, <1>6, <1>7 DEF IsStream
<1> QED
  BY <1>4, <1>8 DEF v, LongerBy

LEMMA UpdateIs ==
  ASSUME NEW s0, NEW x \in Seq(Half), NEW secret, Len(secret) = 32, Streams(s0, x, secret),
         NEW input \in Seq(Half), NEW r, r = update(s0, input)
  PROVE  Streams(r, x \o input, secret) /\ SameSecrets(r, s0)
<1>1. PICK m \in Nat : IsStream(s0, x, secret, m)
  BY DEF Streams
<1>2. PICK s : s = Noted(s0, input)
  OBVIOUS
<1>3. IsStream(s, x, secret, m) /\ SameSecrets(s, s0) /\ LongerBy(s, s0, input)
  BY <1>1, <1>2, NotedIs
<1>4. PICK y \in Seq(Half) : y = x \o input /\ Behind(y, x, input)
  BY ConcatBehind
<1>5. PICK b \in 0..32 : HasBuffered(s, b)
  BY <1>3 DEF IsStream, Held, StreamFits, HasBuffered
<1>6. r = IF b + Len(input) <= 32 THEN Appended(s, input) ELSE Consumed(s, input)
  <2>1. r = IF s.bufferedSize + Len(input) <= BufferSize THEN Appended(s, input) ELSE Consumed(s, input)
    BY <1>2, Zenon DEF update, Noted
  <2> QED
    BY <1>5, <2>1, Scale, Zenon DEF HasBuffered
<1>7. \E n \in Nat : IsStream(r, y, secret, n) /\ Keeps(r, s)
  <2>1. CASE b + Len(input) <= 32
    <3>1. r = Appended(s, input)
      BY <1>6, <2>1
    <3>2. IsStream(r, y, secret, m) /\ Keeps(r, s)
      BY <1>3, <1>4, <1>5, <2>1, <3>1, AppendedIs
    <3> QED
      BY <3>2
  <2>2. CASE ~(b + Len(input) <= 32)
    <3>1. r = Consumed(s, input) /\ b + Len(input) > 32
      <4>1. Len(input) \in Nat
        OBVIOUS
      <4> QED
        BY <1>6, <2>2, <4>1
    <3> QED
      BY <1>3, <1>4, <1>5, <3>1, ConsumedIs
  <2> QED
    BY <2>1, <2>2
<1>8. r.totalLen = s.totalLen /\ SameSecrets(r, s)
  BY <1>7 DEF Keeps, SameSecrets
<1>9. r.totalLen = Len(y)
  BY <1>3, <1>4, <1>8 DEF Streams, Behind, LongerBy
<1>10. SameSecrets(r, s0)
  BY <1>3, <1>8 DEF SameSecrets
<1> QED
  BY <1>4, <1>7, <1>9, <1>10 DEF Streams

\* What waits in the buffer are the last bytes.
LEMMA WaitingBytes ==
  ASSUME NEW s, NEW x \in Seq(Half), NEW secret, NEW m \in Nat, IsStream(s, x, secret, m),
         NEW b \in 0..32, HasBuffered(s, b)
  PROVE  /\ Len(x) = (32 * m) + b /\ (m # 0 => b # 0)
         /\ SameBytes(s.buffer, 0, x, 32 * m, b)
<1>1. PICK lx \in Nat, g \in Nat : lx = Len(x) /\ g = 32 * m
  OBVIOUS
<1>2. b = lx - g /\ g <= lx /\ (m # 0 => b # 0)
  BY <1>1 DEF IsStream, HasBuffered
<1>3. lx = g + b /\ 0 \in Nat /\ b \in Nat /\ 0 + b <= 32 /\ g + b <= lx
  BY <1>2
<1>4. s.buffer \in Seq(Half) /\ Len(s.buffer) = 32
  BY BufferSeq DEF IsStream, Held
<1>5. \A k \in 1..b : s.buffer[0 + k] = x[g + k]
  <2> TAKE k \in 1..b
  <2>1. 0 + k = k
    OBVIOUS
  <2>2. s.buffer[k] = x[g + k]
    BY <1>1 DEF IsStream, HasBuffered
  <2> QED
    BY <2>1, <2>2
<1>6. SameBytes(s.buffer, 0, x, g, b)
  BY <1>1, <1>3, <1>4, <1>5 DEF SameBytes
<1> QED
  BY <1>1, <1>2, <1>3, <1>6

LEMMA LongPlaces ==
  ASSUME NEW m \in Nat, NEW b \in 0..32, NEW lx \in Nat, lx = (32 * m) + b, b >= 16
  PROVE  LET n == (b - 1) \div 16
         IN  /\ n \in 0..4 /\ n \in Nat /\ 0 + (16 * n) <= b /\ 16 * n \in Nat
             /\ (2 * m) + n = (lx - 1) \div 16 /\ b - 16 \in Nat /\ (b - 16) + 16 <= b
             /\ 0 + (b - 16) = b - 16 /\ (32 * m) + (b - 16) = lx - 16 /\ 16 * (2 * m) = 32 * m
  OBVIOUS

\* The last stripe when it is not in the buffer as a whole.
LEMMA LastPlaces ==
  ASSUME NEW m \in Nat, m # 0, NEW b \in 1..15, NEW lx \in Nat, lx = (32 * m) + b
  PROVE  /\ (lx - 1) \div 16 = 2 * m /\ lx - 16 \in Nat /\ (lx - 16) + 16 <= lx
         /\ 16 - b \in Nat /\ 32 - (16 - b) \in Nat /\ (32 - (16 - b)) + (16 - b) <= 32
         /\ \A k \in 1..16-b : /\ (32 - (16 - b)) + k \in 17..32
                               /\ (32 * m) + ((32 - (16 - b)) + k) - 32 = (lx - 16) + k
         /\ \A k \in 1..16 : ~(k \in 1..16-b) => /\ k - (16 - b) \in 1..b
                                                 /\ (32 * m) + (k - (16 - b)) = (lx - 16) + k
  OBVIOUS

---------------------------------------------------------------------------
(* The digest.                                                             *)

\* Buffered bytes that make up a whole last stripe.
LEMMA DigestWhole ==
  ASSUME NEW s, NEW x \in Seq(Half), NEW secret, Len(secret) = 32, NEW m \in Nat, IsStream(s, x, secret, m),
         NEW b \in 0..32, HasBuffered(s, b), b >= 16
  PROVE  /\ consumeStripes(s, s.buffer, 0, (b - 1) \div 16).acc = Digested(x, secret, (Len(x) - 1) \div 16)
         /\ Window(s.buffer, b - 16, 16) = Window(x, Len(x) - 16, 16)
<1>1. PICK lx \in Nat : lx = Len(x)
  OBVIOUS
<1>2. lx = (32 * m) + b /\ SameBytes(s.buffer, 0, x, 32 * m, b)
  BY <1>1, WaitingBytes
<1>3. PICK n : n = (b - 1) \div 16
  OBVIOUS
<1>4. /\ n \in 0..4 /\ n \in Nat /\ 0 + (16 * n) <= b /\ 16 * n \in Nat
      /\ (2 * m) + n = (lx - 1) \div 16 /\ b - 16 \in Nat /\ (b - 16) + 16 <= b
      /\ 0 + (b - 16) = b - 16 /\ (32 * m) + (b - 16) = lx - 16 /\ 16 * (2 * m) = 32 * m
  BY <1>2, <1>3, LongPlaces
<1>5. PICK k \in Nat : k = 2 * m
  OBVIOUS
<1>6. 0 \in Nat /\ 0 + 0 = 0 /\ (32 * m) + 0 = 32 * m /\ 16 \in Nat
  OBVIOUS
<1>7. StripesAre(s.buffer, 0, x, k, n)
  <2>1. SameBytes(s.buffer, 0 + 0, x, (32 * m) + 0, 16 * n)
    BY <1>2, <1>4, <1>6, SameWithin
  <2>2. SameBytes(s.buffer, 0, x, 16 * k, 16 * n)
    BY <1>4, <1>5, <1>6, <2>1, Zenon
  <2> QED
    BY <1>4, <2>2, SameStripes
<1>8. PICK r, u : u = s.buffer /\ r = consumeStripes(s, u, 0, n)
  OBVIOUS
<1>9. r.acc = Digested(x, secret, k + n)
  <2>1. /\ StreamFits(s) /\ SecretOf(s) = secret /\ s.secretLimit = 16
        /\ s.acc = Digested(x, secret, k) /\ s.nbStripesSoFar = k % 4
    BY <1>5 DEF IsStream, Held
  <2>2. StripesAre(u, 0, x, k, n)
    BY <1>7, <1>8
  <2> QED
    BY <1>4, <1>6, <1>8, <2>1, <2>2, ConsumeIs
<1>10. Window(s.buffer, b - 16, 16) = Window(x, lx - 16, 16)
  <2>1. SameBytes(s.buffer, 0 + (b - 16), x, (32 * m) + (b - 16), 16)
    BY <1>2, <1>4, <1>6, SameWithin
  <2>2. Window(s.buffer, 0 + (b - 16), 16) = Window(x, (32 * m) + (b - 16), 16)
    BY <2>1, SameWindow
  <2> QED
    BY <1>4, <2>2, Zenon
<1>11. consumeStripes(s, s.buffer, 0, (b - 1) \div 16).acc = Digested(x, secret, (lx - 1) \div 16)
  BY <1>3, <1>4, <1>5, <1>8, <1>9, Zenon
<1> QED
  BY <1>1, <1>10, <1>11, Zenon

LEMMA ConcatSecond ==
  ASSUME NEW v \in Seq(Half), NEW w \in Seq(Half), NEW j \in 1..Len(w)
  PROVE  (v \o w)[Len(v) + j] = w[j]
  OBVIOUS

\* One of which a part has been consumed.
LEMMA DigestParts ==
  ASSUME NEW s, NEW x \in Seq(Half), NEW secret, NEW m \in Nat, m # 0, IsStream(s, x, secret, m),
         NEW b \in 1..15, HasBuffered(s, b)
  PROVE  /\ s.acc = Digested(x, secret, (Len(x) - 1) \div 16)
         /\ Window(s.buffer, 32 - (16 - b), 16 - b) \o Window(s.buffer, 0, b) = Window(x, Len(x) - 16, 16)
<1>1. PICK lx \in Nat : lx = Len(x)
  OBVIOUS
<1>2. lx = (32 * m) + b
  <2>1. b \in 0..32
    OBVIOUS
  <2> QED
    BY <1>1, <2>1, WaitingBytes
<1>3. /\ (lx - 1) \div 16 = 2 * m /\ lx - 16 \in Nat /\ (lx - 16) + 16 <= lx
      /\ 16 - b \in Nat /\ 32 - (16 - b) \in Nat /\ (32 - (16 - b)) + (16 - b) <= 32
      /\ \A k \in 1..16-b : /\ (32 - (16 - b)) + k \in 17..32
                            /\ (32 * m) + ((32 - (16 - b)) + k) - 32 = (lx - 16) + k
      /\ \A k \in 1..16 : ~(k \in 1..16-b) => /\ k - (16 - b) \in 1..b
                                              /\ (32 * m) + (k - (16 - b)) = (lx - 16) + k
  BY <1>2, LastPlaces
<1>4. s.acc = Digested(x, secret, (lx - 1) \div 16)
  BY <1>3 DEF IsStream, Held
<1> DEFINE o == 16 - b
           v == Window(s.buffer, 32 - o, o)
           w == Window(s.buffer, 0, b)
           e == Window(x, lx - 16, 16)
<1>5. s.buffer \in Seq(Half) /\ Len(s.buffer) = 32
  BY BufferSeq DEF IsStream, Held
<1>6. v \in Seq(Half) /\ Len(v) = o /\ \A k \in 1..o : v[k] = s.buffer[(32 - o) + k]
  <2>1. 32 - o \in Nat /\ o \in Nat /\ (32 - o) + o <= Len(s.buffer)
    BY <1>3, <1>5
  <2> HIDE DEF o
  <2> QED
    BY <1>5, <2>1, WindowIs
<1>7. w \in Seq(Half) /\ Len(w) = b /\ \A k \in 1..b : w[k] = s.buffer[k]
  <2>1. 0 \in Nat /\ b \in Nat /\ 0 + b <= 32 /\ \A k \in 1..b : 0 + k = k
    OBVIOUS
  <2>2. /\ w \in Seq(Half) /\ Len(w) = b /\ \A k \in 1..b : w[k] = s.buffer[0 + k]
    <3>1. 0 + b <= Len(s.buffer)
      BY <1>5, <2>1
    <3> QED
      BY <1>5, <2>1, <3>1, WindowIs
  <2> QED
    BY <2>1, <2>2
<1>8. e \in Seq(Half) /\ Len(e) = 16 /\ \A k \in 1..16 : e[k] = x[(lx - 16) + k]
  <2>1. 16 \in Nat
    OBVIOUS
  <2> QED
    BY <1>1, <1>3, <2>1, WindowIs
<1> HIDE DEF v, w, e
<1>9. ASSUME NEW k \in 1..16 PROVE (v \o w)[k] = e[k]
  <2>1. o \in Nat /\ o + b = 16
    BY <1>3
  <2>2. CASE k \in 1..o
    <3>1. (v \o w)[k] = v[k]
      BY <1>6, <1>7, <2>2
    <3>2. PICK j \in 17..32 : j = (32 - o) + k
      BY <1>3, <2>2
    <3>3. v[k] = s.buffer[j]
      BY <1>6, <2>2, <3>2
    <3>4. s.buffer[j] = x[(32 * m) + j - 32]
      <4>1. b <= 16 /\ s.bufferedSize = b
        BY DEF HasBuffered
      <4> QED
        BY <4>1 DEF IsStream, Tail16
    <3>5. (32 * m) + j - 32 = (lx - 16) + k
      BY <1>3, <2>2, <3>2
    <3> QED
      BY <1>8, <3>1, <3>3, <3>4, <3>5
  <2>3. CASE ~(k \in 1..o)
    <3>1. PICK j \in 1..b : j = k - o /\ (32 * m) + j = (lx - 16) + k
      BY <1>3, <2>3
    <3>2. (v \o w)[k] = w[j]
      <4>1. k = Len(v) + j /\ j \in 1..Len(w)
        BY <1>6, <1>7, <2>1, <3>1
      <4>2. (v \o w)[Len(v) + j] = w[j]
        BY <1>6, <1>7, <4>1, ConcatSecond
      <4> QED
        BY <4>1, <4>2, Zenon
    <3>3. w[j] = s.buffer[j]
      BY <1>7
    <3>4. s.buffer[j] = x[(32 * m) + j]
      BY DEF IsStream, HasBuffered
    <3> QED
      BY <1>8, <3>1, <3>2, <3>3, <3>4
  <2> QED
    BY <2>2, <2>3
<1>10. v \o w = e
  <2>1. v \o w \in Seq(Half) /\ Len(v \o w) = 16
    <3>1. Len(v \o w) = Len(v) + Len(w) /\ v \o w \in Seq(Half)
      BY <1>6, <1>7
    <3>2. o + b = 16
      BY <1>3
    <3> QED
      BY <1>6, <1>7, <3>1, <3>2
  <2> QED
    BY <1>8, <1>9, <2>1, SeqEqual
<1> QED
  BY <1>1, <1>4, <1>10 DEF v, w, e

\* The digest of a long stream is the hash in one go.
LEMMA LongIs ==
  ASSUME NEW s, NEW x \in Seq(Half), NEW secret, Len(secret) = 32, Streams(s, x, secret), Len(x) > 24
  PROVE  digest_long(s) = hashLong_internal_loop(InitAcc, x, secret)
<1>1. PICK m \in Nat : IsStream(s, x, secret, m)
  BY DEF Streams
<1>2. PICK b \in 0..32 : HasBuffered(s, b)
  BY <1>1 DEF IsStream, Held, StreamFits, HasBuffered
<1>3. PICK lx \in Nat : lx = Len(x) /\ lx > 24 /\ lx = (32 * m) + b /\ (m # 0 => b # 0)
  <2>1. Len(x) = (32 * m) + b /\ (m # 0 => b # 0)
    BY <1>1, <1>2, WaitingBytes
  <2>2. Len(x) \in Nat
    OBVIOUS
  <2> QED
    BY <2>1, <2>2
<1>4. PICK acc, last : /\ acc = Digested(x, secret, (Len(x) - 1) \div 16)
                       /\ last = Window(x, Len(x) - 16, 16)
  OBVIOUS
<1>5. hashLong_internal_loop(InitAcc, x, secret)
        = accumulate_512_scalar(acc, last, Window(secret, 15, 16))
  <2>1. Len(x) >= 1
    BY <1>3
  <2> QED
    BY <1>4, <2>1, OneGo
<1>6. /\ s.bufferedSize = b /\ s.secretLimit - LastaccStart = 15 /\ SecretOf(s) = secret
      /\ StripeLen = 16 /\ BufferSize = 32
  BY <1>1, <1>2, Scale DEF IsStream, Held, HasBuffered, LastaccStart
<1>7. digest_long(s)
        = accumulate_512_scalar(IF b >= 16 THEN consumeStripes(s, s.buffer, 0, (b - 1) \div 16).acc ELSE s.acc,
                                IF b >= 16 THEN Window(s.buffer, b - 16, 16)
                                ELSE Window(s.buffer, 32 - (16 - b), 16 - b) \o Window(s.buffer, 0, b),
                                Window(secret, 15, 16))
  BY <1>6, Zenon DEF digest_long
<1>a. PICK r, u, v, k : /\ r = consumeStripes(s, s.buffer, 0, (b - 1) \div 16).acc
                        /\ u = Window(s.buffer, b - 16, 16)
                        /\ v = Window(s.buffer, 32 - (16 - b), 16 - b) \o Window(s.buffer, 0, b)
                        /\ k = Window(secret, 15, 16)
  OBVIOUS
<1>b. digest_long(s) = accumulate_512_scalar(IF b >= 16 THEN r ELSE s.acc, IF b >= 16 THEN u ELSE v, k)
  BY <1>7, <1>a, Zenon
<1>c. hashLong_internal_loop(InitAcc, x, secret) = accumulate_512_scalar(acc, last, k)
  BY <1>5, <1>a, Zenon
<1>8. CASE b >= 16
  <2>1. /\ consumeStripes(s, s.buffer, 0, (b - 1) \div 16).acc = acc
        /\ Window(s.buffer, b - 16, 16) = last
    <3>1. /\ consumeStripes(s, s.buffer, 0, (b - 1) \div 16).acc = Digested(x, secret, (Len(x) - 1) \div 16)
          /\ Window(s.buffer, b - 16, 16) = Window(x, Len(x) - 16, 16)
      BY <1>1, <1>2, <1>8, DigestWhole, Zenon
    <3> QED
      BY <1>4, <3>1, Zenon
  <2> QED
    <3>1. r = acc /\ u = last
      BY <1>a, <2>1, Zenon
    <3> QED
      BY <1>b, <1>c, <1>8, <3>1
<1>9. CASE ~(b >= 16)
  <2>1. m # 0 /\ b \in 1..15
    BY <1>3, <1>9
  <2>2. /\ s.acc = acc
        /\ Window(s.buffer, 32 - (16 - b), 16 - b) \o Window(s.buffer, 0, b) = last
    <3>1. /\ s.acc = Digested(x, secret, (Len(x) - 1) \div 16)
          /\ Window(s.buffer, 32 - (16 - b), 16 - b) \o Window(s.buffer, 0, b) = Window(x, Len(x) - 16, 16)
      BY <1>1, <1>2, <2>1, DigestParts, Zenon
    <3> QED
      BY <1>4, <3>1, Zenon
  <2> QED
    <3>1. s.acc = acc /\ v = last
      BY <1>a, <2>2, Zenon
    <3> QED
      BY <1>b, <1>c, <1>9, <3>1
<1> QED
  BY <1>8, <1>9

\* Secrets have a length that all of them is used.
IsSecret(secret) == Len(secret) = 32 /\ SubSeq(secret, 1, 16 + 16) = secret

LEMMA SecretWhole ==
  ASSUME NEW secret, secret = [k \in 1..32 |-> secret[k]]
  PROVE  IsSecret(secret)
<1>1. \A n \in Nat : \A T : \A a \in [1..n -> T] : a \in Seq(T) /\ Len(a) = n
  BY FunctionSeq
<1>2. 16 + 16 = 32 /\ 32 \in Nat
  OBVIOUS
<1> DEFINE S == {secret[k] : k \in 1..32}
<1>3. secret \in [1..32 -> S]
  OBVIOUS
<1> HIDE DEF S
<1>4. secret \in Seq(S) /\ Len(secret) = 32
  BY <1>1, <1>2, <1>3, Zenon
<1>5. SubSeq(secret, 1, 32) = secret
  <2>1. SubSeq(secret, 1, 32) \in Seq(S) /\ Len(SubSeq(secret, 1, 32)) = 32
        /\ \A k \in 1..32 : SubSeq(secret, 1, 32)[k] = secret[k]
    BY <1>4
  <2> QED
    BY <1>4, <2>1, SeqEqual
<1> QED
  BY <1>2, <1>4, <1>5 DEF IsSecret

\* The hash of a stream is that of its bytes, in one go and with its secret.
LEMMA DigestIs ==
  ASSUME NEW s, NEW x \in Seq(Half), NEW secret, IsSecret(secret), Streams(s, x, secret)
  PROVE  digest(s) = IF Len(x) > 24 THEN hashLong_128b(x, secret)
                     ELSE IF s.seed # 0 THEN withSeed128(x, s.seed) ELSE withSecret128(x, secret)
<1>1. PICK m \in Nat : IsStream(s, x, secret, m)
  BY DEF Streams
<1>2. /\ SecretOf(s) = secret /\ s.secretLimit = 16 /\ s.totalLen = Len(x) /\ StripeLen = 16
      /\ MidsizeMax = 24 /\ Len(secret) = 32
  BY <1>1, Scale DEF IsStream, Held, Streams, IsSecret, MidsizeMax
<1>3. SubSeq(SecretOf(s), 1, s.secretLimit + StripeLen) = secret
  BY <1>2 DEF IsSecret
<1>4. CASE Len(x) > 24
  <2>1. digest_long(s) = hashLong_internal_loop(InitAcc, x, secret)
    BY <1>2, <1>4, LongIs
  <2>2. digest(s) = Merged(digest_long(s), secret, Len(x))
    BY <1>2, <1>3, <1>4, Zenon DEF digest
  <2> QED
    BY <1>4, <2>1, <2>2, Zenon DEF hashLong_128b
<1>5. CASE ~(Len(x) > 24)
  <2>1. PICK lx \in Nat : lx = Len(x) /\ lx <= 24
    BY <1>5
  <2>2. m = 0 /\ (32 * m) = 0
    <3>1. 32 * m <= lx
      BY <1>1, <2>1 DEF IsStream
    <3> QED
      BY <2>1, <3>1
  <2>3. s.bufferedSize = lx /\ \A k \in 1..lx : s.buffer[k] = x[k]
    <3>1. \A k \in 1..lx : 0 + k = k
      OBVIOUS
    <3>2. s.bufferedSize = lx - 0 /\ \A k \in 1..s.bufferedSize : s.buffer[k] = x[0 + k]
      BY <1>1, <2>1, <2>2 DEF IsStream
    <3>3. lx - 0 = lx
      OBVIOUS
    <3> QED
      BY <3>1, <3>2, <3>3
  <2>4. Window(s.buffer, 0, lx) = x
    <3>1. s.buffer \in Seq(Half) /\ Len(s.buffer) = 32
      BY <1>1, BufferSeq DEF IsStream, Held
    <3>2. 0 \in Nat /\ 0 + lx <= 32 /\ \A k \in 1..lx : 0 + k = k
      BY <2>1
    <3> DEFINE w == Window(s.buffer, 0, lx)
    <3>3. w \in Seq(Half) /\ Len(w) = lx /\ \A k \in 1..lx : w[k] = s.buffer[0 + k]
      BY <3>1, <3>2, WindowIs
    <3> HIDE DEF w
    <3>4. \A k \in 1..lx : w[k] = x[k]
      BY <2>3, <3>2, <3>3
    <3>5. w = x
      BY <2>1, <3>3, <3>4, SeqEqual
    <3> QED
      BY <3>5 DEF w
  <2>5. digest(s) = IF s.seed # 0 THEN withSeed128(Window(s.buffer, 0, Len(x)), s.seed)
                    ELSE withSecret128(Window(s.buffer, 0, Len(x)), secret)
    BY <1>2, <1>3, <1>5, Zenon DEF digest
  <2> QED
    BY <1>5, <2>1, <2>4, <2>5, Zenon
<1> QED
  BY <1>4, <1>5

---------------------------------------------------------------------------
(* Resets.                                                                 *)

\* What is left of the state that was found.
IsReset(r, old, z) ==
  /\ r.seed = z /\ r.extSecret = (IF z = 0 THEN {kSecret} ELSE {}) /\ r.totalLen = 0
  /\ r.buffer \in [1..32 -> Half]
  /\ z # 0 => r.customSecret = IF old.seed = z THEN old.customSecret ELSE initCustomSecret(z)
  /\ IsStream(r, <<>>, SecretOf(r), 0)

LEMMA ResetIs ==
  ASSUME NEW old, IsState(old), old.buffer \in [1..32 -> Half], NEW z, NEW r, r = reset_withSeed(old, z)
  PROVE  IsReset(r, old, z)
<1>1. ASSUME NEW s, IsState(s), s.buffer \in [1..32 -> Half], NEW c, NEW ext,
             NEW t, t = reset_internal(s, c, ext, SecretSize)
      PROVE  /\ t.seed = c /\ t.extSecret = ext /\ t.totalLen = 0 /\ t.buffer \in [1..32 -> Half]
             /\ t.customSecret = s.customSecret
             /\ t.acc = InitAcc /\ t.nbStripesSoFar = 0 /\ t.bufferedSize = 0 /\ t.secretLimit = 16
  <2> DEFINE w == SecretSize < SecretMin
             a == InitAcc
             l == SecretSize - StripeLen
             n == (SecretSize - StripeLen) \div ConsumeRate
  <2>1. t = [s EXCEPT !.acc = a, !.bufferedSize = 0, !.nbStripesSoFar = 0,
                      !.totalLen = 0, !.seed = c, !.extSecret = ext,
                      !.secretLimit = l, !.nbStripesPerBlock = n, !.bad = w]
    BY <1>1 DEF reset_internal
  <2>2. l = 16
    BY Scale
  <2> HIDE DEF w, a, l, n
  <2>3. /\ t.seed = c /\ t.extSecret = ext /\ t.totalLen = 0 /\ t.buffer = s.buffer
        /\ t.customSecret = s.customSecret
        /\ t.acc = a /\ t.nbStripesSoFar = 0 /\ t.bufferedSize = 0 /\ t.secretLimit = l
    BY <1>1, <2>1 DEF IsState, Fields
  <2> QED
    BY <1>1, <2>2, <2>3 DEF a
<1>2. PICK new : new = [old EXCEPT !.customSecret = initCustomSecret(z)]
  OBVIOUS
<1>3. IsState(new) /\ new.buffer \in [1..32 -> Half] /\ new.customSecret = initCustomSecret(z)
  BY <1>2 DEF IsState, Fields
<1>4. r = IF z = 0 THEN reset_internal(old, 0, {kSecret}, SecretSize)
          ELSE reset_internal(IF old.seed = z THEN old ELSE new, z, {}, SecretSize)
  BY <1>2, Zenon DEF reset_withSeed, reset
<1>5. /\ r.seed = z /\ r.extSecret = (IF z = 0 THEN {kSecret} ELSE {}) /\ r.totalLen = 0
      /\ r.buffer \in [1..32 -> Half]
      /\ z # 0 => r.customSecret = IF old.seed = z THEN old.customSecret ELSE initCustomSecret(z)
      /\ r.acc = InitAcc /\ r.nbStripesSoFar = 0 /\ r.bufferedSize = 0 /\ r.secretLimit = 16
  <2>1. CASE z = 0
    <3>1. r = reset_internal(old, 0, {kSecret}, SecretSize)
      BY <1>4, <2>1
    <3> QED
      BY <1>1, <2>1, <3>1
  <2>2. CASE z # 0 /\ old.seed = z
    <3>1. r = reset_internal(old, z, {}, SecretSize)
      BY <1>4, <2>2
    <3> QED
      BY <1>1, <2>2, <3>1
  <2>3. CASE z # 0 /\ old.seed # z
    <3>1. r = reset_internal(new, z, {}, SecretSize)
      BY <1>4, <2>3
    <3> QED
      BY <1>1, <1>3, <2>3, <3>1
  <2> QED
    BY <2>1, <2>2, <2>3
<1>6. StreamFits(r)
  BY ResetFits
<1>7. IsStream(r, <<>>, SecretOf(r), 0)
  <2>1. 2 * 0 = 0 /\ 32 * 0 = 0 /\ 0 % 4 = 0 /\ Len(<<>>) = 0 /\ 0 - 0 = 0
    OBVIOUS
  <2>2. r.acc = Digested(<<>>, SecretOf(r), 2 * 0)
    BY <1>5, <2>1, DigestedNone
  <2>3. Held(r, <<>>, SecretOf(r), 0)
    BY <1>5, <1>6, <2>1, <2>2 DEF Held
  <2>4. Tail16(r, <<>>, 0)
    BY DEF Tail16
  <2>5. \A k \in 1..0 : FALSE
    OBVIOUS
  <2> QED
    BY <1>5, <2>1, <2>3, <2>4, <2>5 DEF IsStream
<1> QED
  BY <1>5, <1>7 DEF IsReset

\* The secret under a seed: made from it, unless it was found there.
SecretFound(seed, frn) ==
  IF seed = 0 THEN kSecret ELSE IF frn THEN Garbage(seed).customSecret ELSE initCustomSecret(seed)

SecretKnown(s, frn) == frn \in BOOLEAN /\ (s.seed # 0 => s.customSecret = SecretFound(s.seed, frn))

LEMMA SecretsWhole ==
  ASSUME NEW seed, NEW frn
  PROVE  IsSecret(SecretFound(seed, frn))
<1>2. SecretSize = 32 /\ LaneBytes = 2
  BY Scale DEF LaneBytes
<1>3. IsSecret(kSecret)
  <2>1. kSecret = [k \in 1..32 |-> kSecret[k]]
    BY <1>2 DEF kSecret
  <2> QED
    BY <2>1, SecretWhole
<1>4. IsSecret(Garbage(seed).customSecret)
  <2>1. Garbage(seed).customSecret = [k \in 1..32 |-> k % 16]
    BY <1>2 DEF Garbage
  <2>2. PICK c : c = Garbage(seed).customSecret
    OBVIOUS
  <2>3. c = [k \in 1..32 |-> c[k]]
    BY <2>1, <2>2
  <2>4. IsSecret(c)
    BY <2>3, SecretWhole
  <2> QED
    BY <2>2, <2>4, Zenon
<1>5. IsSecret(initCustomSecret(seed))
  <2>1. Len(kSecret) = 32
    BY <1>3 DEF IsSecret
  <2> DEFINE key == Lanes(kSecret)
             mod == [k \in DOMAIN key |-> IF k % 2 = 1 THEN Plus(key[k], seed) ELSE Minus(key[k], seed)]
  <2>2. DOMAIN key = 1..16
    BY <1>2, <2>1 DEF Lanes
  <2>3. Len(mod) = 16
    <3> HIDE DEF key
    <3> QED
      BY <2>2
  <2> DEFINE g(k) == LET w == mod[(k + 1) \div LaneBytes] IN IF k % 2 = 1 THEN Low(w) ELSE High(w)
  <2>4. initCustomSecret(seed) = [k \in 1..LaneBytes * Len(mod) |-> g(k)]
    BY Zenon DEF initCustomSecret, initCustomSecret_scalar, Bytes
  <2>5. LaneBytes * Len(mod) = 32
    BY <1>2, <2>3
  <2> HIDE DEF g
  <2>6. initCustomSecret(seed) = [k \in 1..32 |-> g(k)]
    BY <2>4, <2>5, Zenon
  <2>7. PICK c : c = initCustomSecret(seed)
    OBVIOUS
  <2>8. c = [k \in 1..32 |-> c[k]]
    BY <2>6, <2>7
  <2>9. IsSecret(c)
    BY <2>8, SecretWhole
  <2> QED
    BY <2>7, <2>9, Zenon
<1> QED
  BY <1>3, <1>4, <1>5 DEF SecretFound

---------------------------------------------------------------------------
(* The streams of hash1().                                                 *)

\* The stream of the bytes x under the seed z.
StreamOf(s, frn, z, x) ==
  /\ s.seed = z /\ (z = 0 => ~frn) /\ x \in Seq(Half)
  /\ Streams(s, x, SecretFound(z, frn))

\* Whether the state was found with the seed.
FoundUnder(g, old, s, frn, z) == g = (z # 0 /\ old.seed = z /\ (old = s => frn))

OnStack(old, s, z) == old \in {s, Garbage(z), Garbage(z + 1)}

LEMMA BeginIs ==
  ASSUME NEW s, IsState(s), s.buffer \in [1..32 -> Half], NEW frn, SecretKnown(s, frn),
         NEW z \in Nat, NEW old, OnStack(old, s, z), NEW r, r = reset_withSeed(old, z),
         NEW g, FoundUnder(g, old, s, frn, z)
  PROVE  r.buffer \in [1..32 -> Half] /\ SecretKnown(r, g) /\ StreamOf(r, g, z, <<>>)
<1>1. /\ \A c : /\ IsState(Garbage(c)) /\ Garbage(c).seed = c
                /\ Garbage(c).buffer \in [1..32 -> Half]
      /\ z + 1 # z
  BY Scale DEF Garbage, IsState, Fields, Half
<1>o. old \in {s, Garbage(z), Garbage(z + 1)}
  BY DEF OnStack
<1>2. IsState(old) /\ old.buffer \in [1..32 -> Half]
  BY <1>1, <1>o
<1>r. IsReset(r, old, z)
  BY <1>2, ResetIs
<1>3. /\ r.seed = z /\ r.extSecret = (IF z = 0 THEN {kSecret} ELSE {}) /\ r.totalLen = 0
      /\ r.buffer \in [1..32 -> Half]
      /\ z # 0 => r.customSecret = IF old.seed = z THEN old.customSecret ELSE initCustomSecret(z)
      /\ IsStream(r, <<>>, SecretOf(r), 0)
  BY <1>r DEF IsReset
<1>g. g = (z # 0 /\ old.seed = z /\ (old = s => frn))
  BY DEF FoundUnder
<1>4. ASSUME z # 0 PROVE r.customSecret = SecretFound(z, g)
  <2>1. CASE old.seed # z
    BY <1>3, <1>4, <1>g, <2>1 DEF SecretFound
  <2>2. CASE old.seed = z /\ old = s
    <3>1. g = frn
      BY <1>4, <1>g, <2>2 DEF SecretKnown
    <3> QED
      BY <1>3, <1>4, <2>2, <3>1 DEF SecretKnown
  <2>3. CASE old.seed = z /\ old # s
    <3>1. old = Garbage(z) /\ g
      BY <1>1, <1>4, <1>g, <1>o, <2>3
    <3> QED
      BY <1>3, <1>4, <2>3, <3>1 DEF SecretFound
  <2> QED
    BY <2>1, <2>2, <2>3
<1>5. SecretKnown(r, g)
  BY <1>3, <1>4, <1>g DEF SecretKnown
<1>6. SecretOf(r) = SecretFound(z, g)
  BY <1>3, <1>4 DEF SecretOf, SecretFound
<1>7. Streams(r, <<>>, SecretFound(z, g))
  <2>1. Len(<<>>) = 0 /\ 0 \in Nat
    OBVIOUS
  <2> QED
    BY <1>3, <1>6, <2>1 DEF Streams
<1>8. <<>> \in Seq(Half)
  OBVIOUS
<1> QED
  BY <1>3, <1>5, <1>7, <1>8, <1>g DEF StreamOf

LEMMA GoesOn ==
  ASSUME NEW s, NEW frn, SecretKnown(s, frn), NEW z, NEW x, StreamOf(s, frn, z, x),
         NEW input \in Seq(Half), NEW r, r = update(s, input)
  PROVE  r.buffer \in [1..32 -> Half] /\ SecretKnown(r, frn) /\ StreamOf(r, frn, z, x \o input)
<1>1. PICK secret : secret = SecretFound(z, frn)
  OBVIOUS
<1>2. Len(secret) = 32
  BY <1>1, SecretsWhole DEF IsSecret
<1>3. x \in Seq(Half) /\ Streams(s, x, secret)
  BY <1>1 DEF StreamOf
<1>4. Streams(r, x \o input, secret) /\ SameSecrets(r, s)
  BY <1>2, <1>3, UpdateIs
<1>5. r.buffer \in [1..32 -> Half]
  BY <1>4 DEF Streams, IsStream, Held
<1>6. SecretKnown(r, frn)
  BY <1>4 DEF SecretKnown, SameSecrets
<1>7. x \o input \in Seq(Half)
  BY <1>3
<1> QED
  BY <1>1, <1>4, <1>5, <1>6, <1>7 DEF StreamOf, SameSecrets

LEMMA EndIs ==
  ASSUME NEW s, NEW frn, NEW z, NEW x, StreamOf(s, frn, z, x)
  PROVE  digest(s) = IF frn /\ Len(x) > MidsizeMax THEN hashLong_128b(x, Garbage(z).customSecret)
                     ELSE withSeed128(x, z)
<1>1. PICK secret : secret = SecretFound(z, frn)
  OBVIOUS
<1>2. IsSecret(secret) /\ x \in Seq(Half) /\ Streams(s, x, secret) /\ s.seed = z /\ (z = 0 => ~frn)
  BY <1>1, SecretsWhole DEF StreamOf
<1>3. digest(s) = IF Len(x) > 24 THEN hashLong_128b(x, secret)
                  ELSE IF z # 0 THEN withSeed128(x, z) ELSE withSecret128(x, secret)
  BY <1>2, DigestIs
<1>4. MidsizeMax = 24 /\ (Len(x) <= 24 <=> ~(Len(x) > 24))
  <2>1. Len(x) \in Nat
    BY <1>2
  <2> QED
    BY <2>1 DEF MidsizeMax
<1>5. CASE Len(x) > 24
  <2>1. withSeed128(x, z) = hashLong_128b(x, SecretFor(z))
    BY <1>4, <1>5, Zenon DEF withSeed128, hashLong_128b_withSeed
  <2>2. secret = IF frn THEN Garbage(z).customSecret ELSE SecretFor(z)
    BY <1>1, <1>2, Zenon DEF SecretFound, SecretFor
  <2> QED
    BY <1>3, <1>4, <1>5, <2>1, <2>2, Zenon
<1>6. CASE ~(Len(x) > 24)
  <2>1. z = 0 => secret = kSecret
    BY <1>1 DEF SecretFound
  <2>2. /\ withSecret128(x, kSecret) = Short128(x, kSecret, 0)
        /\ withSeed128(x, 0) = Short128(x, kSecret, 0)
    BY <1>4, <1>6, Zenon DEF withSecret128, withSeed128
  <2> QED
    BY <1>3, <1>4, <1>6, <2>1, <2>2, Zenon
<1> QED
  BY <1>5, <1>6

\* Why the digest is right: at each step the state is that of a stream of the bytes
\* that were handed over, under the secret that was found or made.
StreamInv ==
  /\ st.buffer \in [1..32 -> Half] /\ SecretKnown(st, foreign)
  /\ Hashing => StreamOf(st, foreign, fz, fed)

LEMMA StreamStep == IInv /\ StateInv /\ StreamInv /\ [Next]_vars => StreamInv'
<1> SUFFICES ASSUME IInv, StateInv, StreamInv, [Next]_vars PROVE StreamInv'
  OBVIOUS
<1>b. /\ B \in [1..Bufsz -> Half] /\ B' \in [1..Bufsz -> Half] /\ Bufsz \in Nat /\ Bufsz >= 1
      /\ Z \in 0..Bufsz
  BY NextHolds, HashfAssumption, PartSize DEF IInv, TypeOK
<1>0. /\ IsState(st) /\ st.buffer \in [1..32 -> Half] /\ SecretKnown(st, foreign)
      /\ Hashing => StreamOf(st, foreign, fz, fed)
  BY DEF StateInv, StreamInv
<1>1. ASSUME NEW f, NEW l \in Nat, NEW z \in Nat, NEW s, Hash1(f, l, z, s) PROVE StreamInv'
  <2>1. PICK old \in {st, Garbage(z), Garbage(z + 1)} :
          /\ st' = reset_withSeed(old, z)
          /\ foreign' = (z # 0 /\ old.seed = z /\ (old = st => foreign))
    BY <1>1 DEF Hash1
  <2>3. PICK r, g : r = st' /\ g = foreign' /\ r = reset_withSeed(old, z)
    BY <2>1
  <2>4. r.buffer \in [1..32 -> Half] /\ SecretKnown(r, g) /\ StreamOf(r, g, z, <<>>)
    <3>1. FoundUnder(g, old, st, foreign, z) /\ OnStack(old, st, z)
      BY <2>1, <2>3 DEF FoundUnder, OnStack
    <3> QED
      BY <1>0, <2>3, <3>1, BeginIs
  <2>5. fz' = z /\ fed' = <<>>
    BY <1>1 DEF Hash1
  <2> QED
    BY <2>3, <2>4, <2>5 DEF StreamInv
<1>2. ASSUME Hashing, NEW b \in Seq(Half), Updated(b), foreign' = foreign, fz' = fz PROVE StreamInv'
  <2>1. PICK r : r = st' /\ r = update(st, b) /\ fed' = fed \o b
    BY <1>2 DEF Updated
  <2>2. r.buffer \in [1..32 -> Half] /\ SecretKnown(r, foreign) /\ StreamOf(r, foreign, fz, fed \o b)
    BY <1>0, <1>2, <2>1, GoesOn
  <2> QED
    BY <1>2, <2>1, <2>2 DEF StreamInv
<1>3. ASSUME st' = st, foreign' = foreign, fed' = fed, fz' = fz, Hashing' => Hashing PROVE StreamInv'
  BY <1>0, <1>3 DEF StreamInv
<1>4. CASE OpenFile
  <2>1. PICK l \in Sizes : \E z \in SizesOf(l) : Hash1(Head(files), l, z, StrideFor(stride, z))
    BY <1>4 DEF OpenFile
  <2>2. PICK z \in {l, 0} : Hash1(Head(files), l, z, StrideFor(stride, z))
    BY <2>1 DEF SizesOf
  <2>3. l \in Nat /\ z \in Nat
    BY HashfAssumption
  <2> QED
    BY <1>1, <2>2, <2>3
<1>5. CASE Stdin
  <2>1. PICK l \in Sizes : Hash1(0, l, 0, 0)
    BY <1>5 DEF Stdin
  <2>2. l \in Nat /\ 0 \in {l, 0}
    BY HashfAssumption
  <2> QED
    BY <1>1, <2>1, <2>2
<1>6. CASE ReadWhole
  <2>1. pc = "whole" /\ foreign' = foreign /\ fz' = fz
    BY <1>6 DEF ReadWhole
  <2>2. CASE UNCHANGED <<st, fed>>
    BY <1>3, <2>1, <2>2 DEF Hashing
  <2>3. CASE Updated(Window(B', 0, 1))
    <3>1. PICK b : b = Window(B', 0, 1)
      OBVIOUS
    <3>2. b \in Seq(Half)
      BY <1>b, <3>1, WindowType
    <3> QED
      BY <1>2, <2>1, <2>3, <3>1, <3>2 DEF Hashing
  <2> QED
    BY <1>6, <2>2, <2>3 DEF ReadWhole
<1>7. CASE Update
  <2>1. pc = "update" /\ foreign' = foreign /\ fz' = fz
    BY <1>7 DEF Update
  <2>2. PICK b : b = Window(B, 0, Z)
    OBVIOUS
  <2>3. b \in Seq(Half) /\ Updated(b)
    BY <1>7, <1>b, <2>2, WindowType DEF Update
  <2> QED
    BY <1>2, <2>1, <2>3 DEF Hashing
<1>8. CASE OpenFails \/ Exit \/ ReadPart \/ EndPart \/ Digest \/ Stopped \/ UNCHANGED vars
  <2>1. st' = st /\ foreign' = foreign /\ fed' = fed /\ fz' = fz /\ (Hashing' => Hashing)
    BY <1>8 DEF OpenFails, Exit, ReadPart, EndPart, Digest, Stopped, vars, state, Hashing
  <2> QED
    BY <1>3, <2>1
<1> QED
  BY <1>4, <1>5, <1>6, <1>7, <1>8 DEF Next

\* Whenever the hash is asked for, it is the one-shot hash of the bytes that were handed
\* over (hashf.c:90-108): however they were cut into updates, and whatever was on the
\* stack before the reset, but for a secret that was found there under the right seed
\* (hashf.c:86, xxhash.h:1008-1017).
THEOREM StreamIsExact == Spec => []StreamExact
<1>1. Init => StateInv /\ StreamInv
  <2>1. SUFFICES ASSUME Init PROVE StateInv /\ StreamInv
    OBVIOUS
  <2>2. st = Garbage(0) /\ foreign = FALSE /\ pc = "main"
    BY <2>1 DEF Init
  <2>3. StateInv
    BY <2>2 DEF StateInv, Garbage, IsState, Fields, Hashing
  <2>4. st.seed = 0 /\ st.buffer \in [1..32 -> Half]
    BY <2>2, Scale DEF Garbage, Half
  <2> QED
    BY <2>2, <2>3, <2>4 DEF StreamInv, SecretKnown, Hashing
<1>2. IInv /\ StateInv /\ [Next]_vars => StateInv'
  BY StateStep
<1>3. IInv /\ StateInv /\ StreamInv /\ [Next]_vars => StreamInv'
  BY StreamStep
<1>4. StreamInv => StreamExact
  BY EndIs DEF StreamInv, StreamExact
<1> QED
  BY <1>1, <1>2, <1>3, <1>4, Inductive, PTL DEF Spec

===========================================================================
