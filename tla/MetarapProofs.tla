--------------------------- MODULE MetarapProofs --------------------------
(***************************************************************************)
(* What holds of metarap for any filter and any input.                     *)
(***************************************************************************)
EXTENDS Metarap, SequenceTheorems, WellFoundedInduction, TLAPS

\* Division with remainder.
LEMMA DivMod ==
  ASSUME NEW n \in Nat, NEW w \in Nat \ {0}
  PROVE  n \div w \in Nat /\ n % w \in 0..w-1 /\ n = w * (n \div w) + (n % w)
  OBVIOUS

\* A multiple leaves nothing.
LEMMA MultipleOf ==
  ASSUME NEW q \in Nat, NEW w \in Nat \ {0}
  PROVE  w * q \in Nat /\ (w * q) % w = 0
  OBVIOUS

\* Of two multiples, one that is larger is larger by the factor at least.
LEMMA NextMultiple ==
  ASSUME NEW a \in Nat, NEW b \in Nat, NEW w \in Nat \ {0},
         a % w = 0, b % w = 0, a < b + w
  PROVE  a <= b
<1> DEFINE p == a \div w
           q == b \div w
<1>1. p \in Nat /\ q \in Nat /\ a = w * p /\ b = w * q
  <2>1. p \in Nat /\ a = w * p + (a % w)
    BY DivMod
  <2>2. q \in Nat /\ b = w * q + (b % w)
    BY DivMod
  <2> HIDE DEF p, q
  <2>3. w * p \in Nat /\ w * q \in Nat
    BY <2>1, <2>2, MultipleOf
  <2> QED
    BY <2>1, <2>2, <2>3
<1> HIDE DEF p, q
<1>2. CASE p <= q
  <2>1. w * p <= w * q
    BY <1>1, <1>2
  <2> QED
    BY <1>1, <2>1
<1>3. CASE ~(p <= q)
  <2>1. w * (q + 1) <= w * p
    BY <1>1, <1>3
  <2>2. w * (q + 1) = w * q + w
    BY <1>1
  <2> QED
    BY <1>1, <2>1, <2>2
<1> QED
  BY <1>2, <1>3

\* The padding ends at a word, and is one word long at most.
LEMMA PadAligns ==
  ASSUME NEW n \in Nat
  PROVE  Pad(n) \in 1..WordSize /\ Pad(n) \in Nat /\ (n + Pad(n)) % WordSize = 0
<1> DEFINE q == n \div WordSize
           m == n % WordSize
<1>w. WordSize \in Nat \ {0}
  BY WordAssumption
<1>1. q \in Nat /\ m \in 0..WordSize-1 /\ n = WordSize * q + m
  BY <1>w, DivMod
<1>2. Pad(n) = WordSize - m
  BY DEF Pad
<1> HIDE DEF q, m
<1>3. q + 1 \in Nat /\ WordSize * (q + 1) = WordSize * q + WordSize /\ WordSize * q \in Nat
  BY <1>1, <1>w
<1>4. n + Pad(n) = WordSize * (q + 1)
  BY <1>w, <1>1, <1>2, <1>3
<1>5. (WordSize * (q + 1)) % WordSize = 0
  BY <1>3, <1>w, MultipleOf
<1>6. Pad(n) \in 1..WordSize /\ Pad(n) \in Nat
  BY <1>w, <1>1, <1>2
<1> QED
  BY <1>4, <1>5, <1>6

\* What add_rplc() appends is the @, the name and its padding.
LEMMA AddRplcLength ==
  ASSUME NEW r \in Seq(Nat), NEW name \in Seq(Nat)
  PROVE  /\ AddRplc(r, name) \in Seq(Nat)
         /\ Len(AddRplc(r, name)) = Len(r) + 1 + Len(name) + Pad(Len(r) + 1 + Len(name))
<1> DEFINE n   == Len(r) + 1 + Len(name)
           pad == [k \in 1..Pad(n) |-> Nul]
<1>1. Len(r) \in Nat /\ Len(name) \in Nat /\ n \in Nat
  BY LenProperties
<1> HIDE DEF n
<1>2. Pad(n) \in Nat
  BY <1>1, PadAligns
<1>3. pad \in Seq(Nat) /\ Len(pad) = Pad(n)
  BY <1>2, IsASeq DEF Nul
<1>4. <<At>> \in Seq(Nat) /\ Len(<<At>>) = 1
  BY DEF At
<1>5. r \o <<At>> \in Seq(Nat) /\ Len(r \o <<At>>) = Len(r) + 1
  BY <1>4, ConcatProperties
<1>6. (r \o <<At>>) \o name \in Seq(Nat) /\ Len((r \o <<At>>) \o name) = n
  BY <1>1, <1>5, ConcatProperties DEF n
<1> HIDE DEF pad
<1>7. /\ ((r \o <<At>>) \o name) \o pad \in Seq(Nat)
      /\ Len(((r \o <<At>>) \o name) \o pad) = n + Pad(n)
  BY <1>1, <1>2, <1>3, <1>6, ConcatProperties
<1>8. AddRplc(r, name) = ((r \o <<At>>) \o name) \o pad
  BY DEF AddRplc, pad, n
<1> QED
  BY <1>7, <1>8 DEF n

\* The check before a name is copied leaves its @ out, and asks for a word of room
\* in place of the padding.  It is enough because what is there ends at a word, and
\* so does the room (metarap.c:370-382).
THEOREM RoomForName ==
  ASSUME NEW r \in Seq(Nat), NEW name \in Seq(Nat), NEW room \in Nat,
         Len(r) % WordSize = 0, room % WordSize = 0,
         Len(r) + Len(name) + WordSize <= room
  PROVE  Len(AddRplc(r, name)) <= room /\ Len(AddRplc(r, name)) % WordSize = 0
<1> DEFINE n == Len(r) + 1 + Len(name)
<1>1. Len(r) \in Nat /\ Len(name) \in Nat /\ n \in Nat
  BY LenProperties
<1>2. Len(AddRplc(r, name)) = n + Pad(n)
  BY AddRplcLength
<1>n. n + WordSize <= room + 1
  BY <1>1, WordAssumption
<1> HIDE DEF n
<1>3. Pad(n) \in 1..WordSize /\ Pad(n) \in Nat /\ (n + Pad(n)) % WordSize = 0
  BY <1>1, PadAligns
<1>4. n + Pad(n) \in Nat /\ n + Pad(n) < room + WordSize
  <2>1. WordSize \in Nat /\ WordSize > 1
    BY WordAssumption
  <2> DEFINE p == Pad(n)
  <2>2. p \in Nat /\ p <= WordSize
    BY <1>3, <2>1
  <2> HIDE DEF p
  <2>3. n + p \in Nat /\ n + p < room + WordSize
    BY <1>1, <1>n, <2>1, <2>2
  <2> QED
    BY <2>3 DEF p
<1>5. n + Pad(n) <= room
  BY <1>3, <1>4, NextMultiple, WordAssumption
<1> QED
  BY <1>2, <1>3, <1>5

---------------------------------------------------------------------------
(***************************************************************************)
(* flts() hands out the coordinates of a pair before the pair is there, and *)
(* nscp() writes at them without a look at the tables.  That they are those *)
(* of a pair does not depend on what the terms and objects are, so nothing  *)
(* is assumed of the events but that they are.                              *)
(***************************************************************************)

\* A sequence, of whatever.
IsSeq(s) == \E S : s \in Seq(S)

\* It has a length, and is defined up to there.
LEMMA SeqShape ==
  ASSUME NEW s, IsSeq(s)
  PROVE  Len(s) \in Nat /\ DOMAIN s = 1..Len(s)
<1>1. PICK S : s \in Seq(S)
  BY DEF IsSeq
<1> QED
  BY <1>1, LenProperties

\* Nothing is a sequence.
LEMMA EmptyAny == IsSeq(<<>>) /\ Len(<<>>) = 0
<1>1. <<>> \in Seq({}) /\ Len(<<>>) = 0
  BY EmptySeq
<1> QED
  BY <1>1 DEF IsSeq

\* Anything may be appended to it, be put behind it or take the place of an element.
LEMMA AppendAny ==
  ASSUME NEW s, NEW e, IsSeq(s)
  PROVE  /\ IsSeq(Append(s, e)) /\ Len(Append(s, e)) = Len(s) + 1
         /\ \A i \in 1..Len(s) : Append(s, e)[i] = s[i]
         /\ Append(s, e)[Len(s) + 1] = e
<1>1. PICK S : s \in Seq(S)
  BY DEF IsSeq
<1> DEFINE T == S \cup {e}
<1>2. s \in Seq(T) /\ e \in T
  BY <1>1, SeqMonotonic
<1> HIDE DEF T
<1>3. /\ Append(s, e) \in Seq(T) /\ Len(Append(s, e)) = Len(s) + 1
      /\ \A i \in 1..Len(s) : Append(s, e)[i] = s[i]
      /\ Append(s, e)[Len(s) + 1] = e
  BY <1>2, AppendProperties
<1> QED
  BY <1>3 DEF IsSeq

LEMMA ConcatAny ==
  ASSUME NEW s, NEW t, IsSeq(s), IsSeq(t)
  PROVE  /\ IsSeq(s \o t) /\ Len(s \o t) = Len(s) + Len(t)
         /\ \A i \in 1..Len(s) + Len(t) :
              (s \o t)[i] = IF i <= Len(s) THEN s[i] ELSE t[i - Len(s)]
<1>1. PICK S : s \in Seq(S)
  BY DEF IsSeq
<1>2. PICK T : t \in Seq(T)
  BY DEF IsSeq
<1> DEFINE U == S \cup T
<1>3. s \in Seq(U) /\ t \in Seq(U)
  BY <1>1, <1>2, SeqMonotonic
<1> HIDE DEF U
<1>4. s \o t \in Seq(U)
  BY <1>3, ConcatProperties
<1> QED
  BY <1>3, <1>4, ConcatProperties DEF IsSeq

LEMMA ExceptAny ==
  ASSUME NEW s, IsSeq(s), NEW i \in 1..Len(s), NEW e
  PROVE  /\ IsSeq([s EXCEPT ![i] = e]) /\ Len([s EXCEPT ![i] = e]) = Len(s)
         /\ \A j \in 1..Len(s) : [s EXCEPT ![i] = e][j] = IF j = i THEN e ELSE s[j]
<1>1. PICK S : s \in Seq(S)
  BY DEF IsSeq
<1> DEFINE T == S \cup {e}
<1>2. s \in Seq(T) /\ e \in T
  BY <1>1, SeqMonotonic
<1> HIDE DEF T
<1>3. /\ [s EXCEPT ![i] = e] \in Seq(T) /\ Len([s EXCEPT ![i] = e]) = Len(s)
      /\ \A j \in 1..Len(s) : [s EXCEPT ![i] = e][j] = IF j = i THEN e ELSE s[j]
  BY <1>2, ExceptSeq
<1> QED
  BY <1>3 DEF IsSeq

\* The same, with the new sequence in a word.
Put(s, i, e) == [s EXCEPT ![i] = e]

LEMMA PutIs ==
  ASSUME NEW s, IsSeq(s), NEW i \in 1..Len(s), NEW e
  PROVE  /\ IsSeq(Put(s, i, e)) /\ Len(Put(s, i, e)) = Len(s)
         /\ \A j \in 1..Len(s) : Put(s, i, e)[j] = IF j = i THEN e ELSE s[j]
<1>1. PICK S : s \in Seq(S)
  BY DEF IsSeq
<1> DEFINE T == S \cup {e}
<1>2. s \in Seq(T) /\ e \in T
  BY <1>1, SeqMonotonic
<1> HIDE DEF T
<1>3. /\ Put(s, i, e) \in Seq(T) /\ Len(Put(s, i, e)) = Len(s)
      /\ \A j \in 1..Len(s) : Put(s, i, e)[j] = IF j = i THEN e ELSE s[j]
  BY <1>2, ExceptSeq DEF Put
<1> QED
  BY <1>3 DEF IsSeq

\* A function of the first n numbers is a sequence of length n.
LEMMA FunctionAny ==
  ASSUME NEW n \in Nat, NEW f, f = [k \in 1..n |-> f[k]]
  PROVE  IsSeq(f) /\ Len(f) = n
<1> DEFINE S == {f[k] : k \in 1..n}
<1>1. f \in [1..n -> S]
  OBVIOUS
<1>2. f \in Seq(S)
  BY <1>1, SeqDef
<1>3. Len(f) \in Nat /\ DOMAIN f = 1..Len(f) /\ DOMAIN f = 1..n
  BY <1>1, <1>2, LenProperties
<1>4. \A l \in Nat : 1..l = 1..n => l = n
  OBVIOUS
<1>5. Len(f) = n
  BY <1>3, <1>4
<1> QED
  BY <1>2, <1>5 DEF IsSeq

---------------------------------------------------------------------------

\* A list of slots, and a list of lists of pairs.
AreSlots(cs) == IsSeq(cs) /\ \A r \in 1..Len(cs) : IsSeq(cs[r].ent)
ArePairs(bs) == IsSeq(bs) /\ \A i \in 1..Len(bs) : IsSeq(bs[i])

CoordInv ==
  /\ IsSeq(terms) /\ ArePairs(beefs) /\ AreSlots(cords)
  /\ TermsDistinct /\ CoordsValid

\* More slots are empty ones, behind those there are.
LEMMA SlotsShape ==
  ASSUME NEW cs, AreSlots(cs), NEW r
  PROVE  /\ AreSlots(Slots(cs, r))
         /\ \A q \in 1..Len(Slots(cs, r)) :
              (q \in 1..Len(cs) /\ Slots(cs, r)[q] = cs[q]) \/ Slots(cs, r)[q].ent = <<>>
<1> DEFINE n == IF cs = <<>> THEN Cords0 ELSE Len(cs)
<1>1. Len(cs) \in Nat /\ n \in Nat
  BY SeqShape, MetarapAssumption DEF AreSlots
<1>2. CASE r < Len(cs)
  BY <1>2 DEF Slots
<1>3. CASE ~(r < Len(cs))
  <2> HIDE DEF n
  <2> DEFINE new == NewSlots(n)
  <2>1. /\ IsSeq(new) /\ Len(new) = n
        /\ \A q \in 1..n : new[q].ent = <<>>
    BY <1>1, FunctionAny DEF NewSlots
  <2>2. Slots(cs, r) = cs \o new
    BY <1>3 DEF Slots, n
  <2> HIDE DEF new
  <2>3. /\ IsSeq(cs \o new) /\ Len(cs \o new) = Len(cs) + n
        /\ \A q \in 1..Len(cs) + n :
             (cs \o new)[q] = IF q <= Len(cs) THEN cs[q] ELSE new[q - Len(cs)]
    BY <2>1, ConcatAny DEF AreSlots
  <2>4. ASSUME NEW q \in 1..Len(cs) + n
        PROVE  \/ q \in 1..Len(cs) /\ (cs \o new)[q] = cs[q]
               \/ (cs \o new)[q].ent = <<>>
    <3>1. CASE q <= Len(cs)
      BY <1>1, <2>3, <3>1
    <3>2. CASE ~(q <= Len(cs))
      <4>1. q - Len(cs) \in 1..n /\ (cs \o new)[q] = new[q - Len(cs)]
        BY <1>1, <2>3, <3>2
      <4> QED
        BY <2>1, <4>1
    <3> QED
      BY <3>1, <3>2
  <2>5. \A q \in 1..Len(cs) + n : IsSeq((cs \o new)[q].ent)
    BY <2>4, EmptyAny DEF AreSlots
  <2> QED
    BY <2>2, <2>3, <2>4, <2>5 DEF AreSlots
<1> QED
  BY <1>2, <1>3

\* An @ object adds its coordinates to one slot, behind those that are there.
LEMMA RegisteredShape ==
  ASSUME AreSlots(cords), NEW i, NEW j, NEW t
  PROVE  LET s == Registered(i, j, t).cords
         IN  /\ AreSlots(s)
             /\ \A q \in 1..Len(s) : \A k \in 1..Len(s[q].ent) :
                  \/ /\ q \in 1..Len(cords) /\ k \in 1..Len(cords[q].ent)
                     /\ s[q].ent[k] = cords[q].ent[k]
                  \/ s[q].ent[k].i = i /\ s[q].ent[k].j = j
<1>1. PICK r : LET cs == Slots(cords, r)
                   c  == WithCord(cs[r + 1], i, j, t, Sufx(t))
               IN  Registered(i, j, t).cords = IF r < Len(cs) THEN [cs EXCEPT ![r + 1] = c] ELSE cs
  BY Zenon DEF Registered
<1> DEFINE cs  == Slots(cords, r)
           new == [i |-> i, j |-> j, proto |-> t]
           c   == WithCord(cs[r + 1], i, j, t, Sufx(t))
           s   == Registered(i, j, t).cords
           Old(q, k, x) == /\ q \in 1..Len(cords) /\ k \in 1..Len(cords[q].ent)
                           /\ x = cords[q].ent[k]
<1>2. /\ AreSlots(cs)
      /\ \A q \in 1..Len(cs) : (q \in 1..Len(cords) /\ cs[q] = cords[q]) \/ cs[q].ent = <<>>
  BY SlotsShape
<1>3. s = IF r < Len(cs) THEN [cs EXCEPT ![r + 1] = c] ELSE cs
  BY <1>1
<1>4. c.ent = Append(cs[r + 1].ent, new)
  BY DEF WithCord
<1>5. new.i = i /\ new.j = j
  OBVIOUS
<1> HIDE DEF cs, s, c, new
<1>6. ASSUME NEW q \in 1..Len(cs), NEW k \in 1..Len(cs[q].ent) PROVE Old(q, k, cs[q].ent[k])
  BY <1>2, EmptyAny
<1>7. CASE s = cs
  BY <1>2, <1>6, <1>7 DEF s
<1>8. CASE s # cs
  <2>1. s = [cs EXCEPT ![r + 1] = c]
    BY <1>3, <1>8
  <2>2. Len(cs) \in Nat /\ DOMAIN cs = 1..Len(cs)
    BY <1>2, SeqShape DEF AreSlots
  <2>3. r + 1 \in 1..Len(cs)
    <3>1. PICK S : cs \in Seq(S)
      BY <1>2 DEF AreSlots, IsSeq
    <3>2. cs \in [1..Len(cs) -> S]
      BY <3>1, LenProperties
    <3>3. r + 1 \in DOMAIN cs
      BY <1>8, <2>1, <3>2
    <3> QED
      BY <2>2, <3>3
  <2>4. IsSeq(cs[r + 1].ent)
    BY <1>2, <2>3 DEF AreSlots
  <2>5. /\ IsSeq(c.ent) /\ Len(c.ent) = Len(cs[r + 1].ent) + 1
        /\ \A k \in 1..Len(cs[r + 1].ent) : c.ent[k] = cs[r + 1].ent[k]
        /\ c.ent[Len(cs[r + 1].ent) + 1] = new
        /\ Len(cs[r + 1].ent) \in Nat
    BY <1>4, <2>4, AppendAny, SeqShape
  <2>6. /\ IsSeq(s) /\ Len(s) = Len(cs)
        /\ \A q \in 1..Len(cs) : s[q] = IF q = r + 1 THEN c ELSE cs[q]
    <3>1. IsSeq(cs)
      BY <1>2 DEF AreSlots
    <3>2. PICK x : x = r + 1
      OBVIOUS
    <3>3. x \in 1..Len(cs) /\ s = Put(cs, x, c)
      BY <2>1, <2>3, <3>2, Zenon DEF Put
    <3> QED
      BY <3>1, <3>2, <3>3, PutIs
  <2>7. AreSlots(s)
    BY <1>2, <2>5, <2>6 DEF AreSlots
  <2>8. ASSUME NEW q \in 1..Len(s), NEW k \in 1..Len(s[q].ent)
        PROVE  Old(q, k, s[q].ent[k]) \/ (s[q].ent[k].i = i /\ s[q].ent[k].j = j)
    <3>1. CASE q # r + 1
      BY <1>6, <2>6, <3>1
    <3>2. CASE q = r + 1 /\ k = Len(cs[r + 1].ent) + 1
      BY <1>5, <2>5, <2>6, <3>2
    <3>3. CASE q = r + 1 /\ k # Len(cs[r + 1].ent) + 1
      <4>1. PICK n \in Nat : n = Len(cs[r + 1].ent)
        BY <2>5
      <4>2. s[q] = c /\ q \in 1..Len(cs)
        BY <2>6, <3>3
      <4>3. k \in 1..n+1 /\ k # n + 1
        BY <2>5, <3>3, <4>1, <4>2
      <4>4. k \in 1..n
        BY <4>1, <4>3
      <4>5. k \in 1..Len(cs[r + 1].ent) /\ s[q].ent[k] = cs[q].ent[k]
        BY <2>5, <3>3, <4>1, <4>2, <4>4
      <4> QED
        BY <1>6, <3>3, <4>2, <4>5
    <3> QED
      BY <3>1, <3>2, <3>3
  <2> QED
    BY <2>7, <2>8 DEF s
<1> QED
  BY <1>7, <1>8

\* flts(), whatever its statement is.
LEMMA FltsStep ==
  ASSUME CoordInv, NEW e, Flts(e)
  PROVE  CoordInv'
<1>1. PICK i, bs, j :
        /\ \/ /\ i = Len(terms) + 1 /\ bs = Append(beefs, <<>>) /\ terms' = Append(terms, e.subj)
              /\ \A n \in DOMAIN terms : terms[n] # e.subj
           \/ i \in DOMAIN terms /\ bs = beefs /\ terms' = terms
        /\ j = Len(bs[i]) + 1
        /\ beefs' = [bs EXCEPT ![i] = Append(bs[i], <<e.pred, Left(e.obj)>>)]
        /\ cords' = cords \/ cords' = Registered(i, j, e.obj).cords
  <2> DEFINE at == {n \in DOMAIN terms : terms[n] = e.subj}
             i  == IF at = {} THEN Len(terms) + 1 ELSE CHOOSE n \in at : TRUE
             bs == IF at = {} THEN Append(beefs, <<>>) ELSE beefs
             j  == Len(bs[i]) + 1
  <2>1. /\ terms' = IF at = {} THEN Append(terms, e.subj) ELSE terms
        /\ beefs' = [bs EXCEPT ![i] = Append(bs[i], <<e.pred, Left(e.obj)>>)]
        /\ cords' = cords \/ cords' = Registered(i, j, e.obj).cords
    BY DEF Flts
  <2>2. CASE at = {}
    <3>1. i = Len(terms) + 1 /\ bs = Append(beefs, <<>>) /\ terms' = Append(terms, e.subj)
      BY <2>1, <2>2
    <3>2. \A n \in DOMAIN terms : terms[n] # e.subj
      BY <2>2
    <3> HIDE DEF at, i, bs
    <3> QED
      BY <2>1, <3>1, <3>2
  <2>3. CASE at # {}
    <3>1. i \in DOMAIN terms /\ bs = beefs /\ terms' = terms
      BY <2>1, <2>3
    <3> HIDE DEF at, i, bs
    <3> QED
      BY <2>1, <3>1
  <2> QED
    BY <2>2, <2>3
<1> DEFINE pair == <<e.pred, Left(e.obj)>>
<1>2. /\ IsSeq(terms) /\ IsSeq(beefs) /\ Len(beefs) = Len(terms) /\ Len(terms) \in Nat
      /\ DOMAIN terms = 1..Len(terms) /\ DOMAIN beefs = 1..Len(terms)
      /\ \A n \in 1..Len(beefs) : IsSeq(beefs[n])
  BY SeqShape DEF CoordInv, TermsDistinct, ArePairs
<1>3. /\ IsSeq(terms') /\ IsInjective(terms') /\ IsSeq(bs) /\ Len(bs) = Len(terms')
      /\ i \in 1..Len(bs) /\ Len(bs) \in Nat
      /\ \A n \in 1..Len(bs) : IsSeq(bs[n])
      /\ \A n \in 1..Len(beefs) : n \in 1..Len(bs) /\ bs[n] = beefs[n]
  <2>1. CASE i \in DOMAIN terms /\ bs = beefs /\ terms' = terms
    BY <1>2, <2>1 DEF CoordInv, TermsDistinct
  <2>2. CASE /\ i = Len(terms) + 1 /\ bs = Append(beefs, <<>>) /\ terms' = Append(terms, e.subj)
             /\ \A n \in DOMAIN terms : terms[n] # e.subj
    <3>1. /\ IsSeq(terms') /\ Len(terms') = Len(terms) + 1
          /\ \A n \in 1..Len(terms) : terms'[n] = terms[n]
          /\ terms'[Len(terms) + 1] = e.subj
      BY <1>2, <2>2, AppendAny
    <3>2. /\ IsSeq(bs) /\ Len(bs) = Len(beefs) + 1
          /\ \A n \in 1..Len(beefs) : bs[n] = beefs[n]
          /\ bs[Len(beefs) + 1] = <<>>
      BY <1>2, <2>2, AppendAny
    <3>3. IsInjective(terms')
      <4>1. DOMAIN terms' = 1..Len(terms) + 1
        BY <3>1, SeqShape
      <4>2. \A a, b \in 1..Len(terms) : terms[a] = terms[b] => a = b
        BY <1>2 DEF CoordInv, TermsDistinct, IsInjective
      <4>3. \A a \in 1..Len(terms) : terms'[a] # terms'[Len(terms) + 1]
        BY <1>2, <2>2, <3>1
      <4>4. \A a \in 1..Len(terms) + 1 : a \in 1..Len(terms) \/ a = Len(terms) + 1
        BY <1>2
      <4> QED
        BY <3>1, <4>1, <4>2, <4>3, <4>4 DEF IsInjective
    <3>4. \A n \in 1..Len(bs) : IsSeq(bs[n])
      <4>1. \A n \in 1..Len(bs) : n \in 1..Len(beefs) \/ n = Len(beefs) + 1
        BY <1>2, <3>2
      <4> QED
        BY <1>2, <3>2, <4>1, EmptyAny
    <3> QED
      BY <1>2, <2>2, <3>1, <3>2, <3>3, <3>4
  <2> QED
    BY <1>1, <2>1, <2>2
<1>4. /\ IsSeq(Append(bs[i], pair)) /\ Len(Append(bs[i], pair)) = j
      /\ Len(bs[i]) \in Nat
  BY <1>1, <1>3, AppendAny, SeqShape
<1>5. /\ IsSeq(beefs') /\ Len(beefs') = Len(bs)
      /\ \A n \in 1..Len(bs) : beefs'[n] = IF n = i THEN Append(bs[i], pair) ELSE bs[n]
  <2> DEFINE p == Append(bs[i], pair)
  <2> HIDE DEF p
  <2>1. /\ IsSeq([bs EXCEPT ![i] = p]) /\ Len([bs EXCEPT ![i] = p]) = Len(bs)
        /\ \A n \in 1..Len(bs) : [bs EXCEPT ![i] = p][n] = IF n = i THEN p ELSE bs[n]
    BY <1>3, ExceptAny
  <2>2. beefs' = [bs EXCEPT ![i] = p]
    BY <1>1 DEF p
  <2> QED
    BY <2>1, <2>2 DEF p
<1> HIDE DEF pair
<1>6. ArePairs(beefs)'
  BY <1>3, <1>4, <1>5 DEF ArePairs
<1>7. TermsDistinct'
  BY <1>3, <1>5 DEF TermsDistinct
<1>8. /\ AreSlots(cords)'
      /\ \A q \in 1..Len(cords') : \A k \in 1..Len(cords'[q].ent) :
           \/ /\ q \in 1..Len(cords) /\ k \in 1..Len(cords[q].ent)
              /\ cords'[q].ent[k] = cords[q].ent[k]
           \/ cords'[q].ent[k].i = i /\ cords'[q].ent[k].j = j
  <2>1. AreSlots(cords)
    BY DEF CoordInv
  <2>2. CASE cords' = cords
    BY <2>1, <2>2 DEF AreSlots
  <2>3. CASE cords' = Registered(i, j, e.obj).cords
    BY <2>1, <2>3, RegisteredShape DEF AreSlots
  <2> QED
    BY <1>1, <2>2, <2>3
\* A list of pairs is as long as it was, or longer by the pair that is new.
<1>9. /\ \A n \in 1..Len(beefs) : \A m \in 1..Len(beefs[n]) :
           n \in DOMAIN beefs' /\ m \in DOMAIN beefs'[n]
      /\ i \in DOMAIN beefs' /\ j \in DOMAIN beefs'[i]
  <2>1. \A n \in 1..Len(beefs') : n \in DOMAIN beefs' /\ DOMAIN beefs'[n] = 1..Len(beefs'[n])
    BY <1>5, <1>6, SeqShape DEF ArePairs
  <2>2. \A n \in 1..Len(bs) : Len(bs[n]) \in Nat
    BY <1>3, SeqShape
  <2>3. ASSUME NEW n \in 1..Len(bs), NEW m \in 1..Len(bs[n]) PROVE m \in 1..Len(beefs'[n])
    <3>1. CASE n # i
      BY <1>5, <3>1
    <3>2. CASE n = i
      <4>1. Len(beefs'[n]) = Len(bs[n]) + 1
        BY <1>1, <1>4, <1>5, <3>2
      <4> QED
        BY <2>2, <4>1
    <3> QED
      BY <3>1, <3>2
  <2>4. j \in 1..Len(beefs'[i])
    BY <1>1, <1>3, <1>4, <1>5
  <2> QED
    BY <1>3, <1>5, <2>1, <2>3, <2>4, SMTT(30)
<1>10. CoordsValid'
  <2>1. \A q \in 1..Len(cords) : \A k \in 1..Len(cords[q].ent) :
          /\ cords[q].ent[k].i \in 1..Len(beefs)
          /\ cords[q].ent[k].j \in 1..Len(beefs[cords[q].ent[k].i])
    <3>1. DOMAIN cords = 1..Len(cords) /\ \A q \in 1..Len(cords) : DOMAIN cords[q].ent = 1..Len(cords[q].ent)
      BY SeqShape DEF CoordInv, AreSlots
    <3>2. DOMAIN beefs = 1..Len(beefs) /\ \A n \in 1..Len(beefs) : DOMAIN beefs[n] = 1..Len(beefs[n])
      BY <1>2, SeqShape
    <3> QED
      BY <3>1, <3>2 DEF CoordInv, CoordsValid
  <2>2. /\ DOMAIN cords' = 1..Len(cords')
        /\ \A q \in 1..Len(cords') : DOMAIN cords'[q].ent = 1..Len(cords'[q].ent)
    BY <1>8, SeqShape DEF AreSlots
  <2> SUFFICES ASSUME NEW q \in 1..Len(cords'), NEW k \in 1..Len(cords'[q].ent)
               PROVE  /\ cords'[q].ent[k].i \in DOMAIN beefs'
                      /\ cords'[q].ent[k].j \in DOMAIN beefs'[cords'[q].ent[k].i]
    BY <2>2 DEF CoordsValid
  <2>3. CASE /\ q \in 1..Len(cords) /\ k \in 1..Len(cords[q].ent)
             /\ cords'[q].ent[k] = cords[q].ent[k]
    BY <1>9, <2>1, <2>3
  <2>4. CASE cords'[q].ent[k].i = i /\ cords'[q].ent[k].j = j
    BY <1>9, <2>4
  <2> QED
    BY <1>8, <2>3, <2>4
<1> QED
  BY <1>3, <1>6, <1>7, <1>8, <1>10 DEF CoordInv

\* nscp(), whatever the namespace is, leaves each list of pairs as long as it is.
LEMMA NscpStep ==
  ASSUME CoordInv, NEW e, Nscp(e), UNCHANGED <<terms, cords>>
  PROVE  CoordInv'
<1>1. /\ IsSeq(beefs) /\ Len(beefs) \in Nat /\ DOMAIN beefs = 1..Len(beefs)
      /\ \A i \in 1..Len(beefs) : /\ Len(beefs[i]) \in Nat
                                  /\ DOMAIN beefs[i] = 1..Len(beefs[i])
  BY SeqShape DEF CoordInv, ArePairs
<1>2. CASE beefs' = beefs
  BY <1>2 DEF CoordInv, ArePairs, AreSlots, TermsDistinct, CoordsValid
<1>3. CASE beefs' # beefs
  <2>1. /\ beefs' = [i \in DOMAIN beefs |-> beefs'[i]]
        /\ \A i \in DOMAIN beefs : beefs'[i] = [j \in DOMAIN beefs[i] |-> beefs'[i][j]]
    BY <1>3 DEF Nscp
  <2>2. IsSeq(beefs') /\ Len(beefs') = Len(beefs)
    BY <1>1, <2>1, FunctionAny
  <2>3. ASSUME NEW i \in 1..Len(beefs)
        PROVE  IsSeq(beefs'[i]) /\ DOMAIN beefs'[i] = DOMAIN beefs[i]
    <3> DEFINE n == Len(beefs[i])
               f == beefs'[i]
    <3>1. n \in Nat /\ f = [j \in 1..n |-> f[j]]
      BY <1>1, <2>1
    <3> HIDE DEF n, f
    <3>2. IsSeq(f) /\ DOMAIN f = 1..n
      BY <3>1, FunctionAny
    <3> QED
      BY <1>1, <3>2 DEF n, f
  <2>4. DOMAIN beefs' = DOMAIN beefs
    BY <1>1, <2>1
  <2> QED
    BY <1>1, <2>2, <2>3, <2>4 DEF CoordInv, ArePairs, AreSlots, TermsDistinct, CoordsValid
<1> QED
  BY <1>2, <1>3

\* The tables are empty at first, and flts() and nscp() are all that changes them.
LEMMA CoordInit == Init => CoordInv
<1> SUFFICES ASSUME Init PROVE CoordInv
  OBVIOUS
<1>1. terms = <<>> /\ beefs = <<>> /\ cords = <<>>
  BY DEF Init
<1>2. IsSeq(<<>>) /\ Len(<<>>) = 0 /\ DOMAIN <<>> = 1..0
  BY EmptyAny, SeqShape
<1> QED
  BY <1>1, <1>2 DEF CoordInv, ArePairs, AreSlots, TermsDistinct, CoordsValid, IsInjective

LEMMA CoordStep == CoordInv /\ [Next]_vars => CoordInv'
<1> SUFFICES ASSUME CoordInv, [Next]_vars PROVE CoordInv'
  OBVIOUS
<1> USE DEF vars, filterVars, rplcVars
<1>1. ASSUME UNCHANGED <<terms, beefs, cords>> PROVE CoordInv'
  BY <1>1 DEF CoordInv, ArePairs, AreSlots, TermsDistinct, CoordsValid
<1>2. CASE Start
  BY <1>1, <1>2 DEF Start
<1>3. CASE Fails \/ FilterEnds \/ InputEnds
  BY <1>1, <1>3 DEF Fails, FilterEnds, InputEnds
<1>4. CASE ReadFilter
  <2>1. PICK e \in FilterEvents : IF e.kind = "ns" THEN Nmsp(e) ELSE Flts(e)
    BY <1>4 DEF ReadFilter
  <2>2. CASE Nmsp(e)
    BY <1>1, <2>2 DEF Nmsp
  <2>3. CASE Flts(e)
    BY <2>3, FltsStep
  <2> QED
    BY <2>1, <2>2, <2>3
<1>5. CASE ReadInput
  <2>1. PICK e \in InputEvents : Nscp(e) \/ UNCHANGED beefs
    BY <1>5 DEF ReadInput
  <2>2. UNCHANGED <<terms, cords>>
    BY <1>5 DEF ReadInput
  <2>3. CASE Nscp(e)
    BY <2>2, <2>3, NscpStep
  <2> QED
    BY <1>1, <2>1, <2>2, <2>3
<1>6. CASE UNCHANGED vars
  BY <1>1, <1>6
<1> QED
  BY <1>2, <1>3, <1>4, <1>5, <1>6 DEF Next

\* Every coordinate that nscp() writes at is that of a pair that flts() has made, and
\* no subject is among the terms twice, so that the first list of pairs that prnt()
\* finds is the only one: for any filter and any input, whatever the slots turn out
\* to be, and also where a table has been overrun (metarap.c:488-563, :575-647).
THEOREM CoordsSafe == Spec => [](TermsDistinct /\ CoordsValid)
<1>1. CoordInv => TermsDistinct /\ CoordsValid
  BY DEF CoordInv
<1> QED
  BY <1>1, CoordInit, CoordStep, PTL DEF Spec

---------------------------------------------------------------------------
(***************************************************************************)
(* The tables.  For the rest something is needed of the events: that terms *)
(* and names are texts (EventAssumption).                                  *)
(***************************************************************************)

\* Natural numbers: the least one of a set, and induction with sets.
LEMMA LeastOf ==
  ASSUME NEW T, T \subseteq Nat, T # {}
  PROVE  \E x \in T : \A y \in T : x <= y
<1> DEFINE R == OpToRel(<, Nat)
<1>1. IsWellFoundedOn(R, Nat)
  BY NatLessThanWellFounded
<1>2. \A x, y \in Nat : (<<y, x>> \in R) <=> y < x
  BY DEF OpToRel
<1> HIDE DEF R
<1>3. \E x \in T : \A y \in T : ~ (<<y, x>> \in R)
  BY <1>1, WFMin
<1>4. PICK x \in T : \A y \in T : ~ (<<y, x>> \in R)
  BY <1>3
<1>5. \A y \in T : ~ (y < x)
  BY <1>2, <1>4, Zenon
<1> QED
  BY <1>5

LEMMA MinOf ==
  ASSUME NEW T, T \subseteq Nat, T # {}
  PROVE  Min(T) \in T /\ \A y \in T : Min(T) <= y
<1>1. \E x \in T : \A y \in T : x <= y
  BY LeastOf
<1> QED
  BY <1>1 DEF Min

LEMMA SetInduction ==
  ASSUME NEW T, NEW n \in Nat, 0 \in T, \A j \in 1..n : j - 1 \in T => j \in T
  PROVE  \A j \in 0..n : j \in T
<1> DEFINE U == {j \in 0..n : j \notin T}
<1> SUFFICES ASSUME U # {} PROVE FALSE
  OBVIOUS
<1>0. U \subseteq Nat
  OBVIOUS
<1>1. PICK j \in U : \A h \in U : j <= h
  <2> HIDE DEF U
  <2> QED
    BY <1>0, LeastOf
<1>2. j \in 1..n /\ j - 1 \in 0..n /\ j - 1 < j
  <2>1. j # 0
    BY <1>1
  <2> QED
    BY <2>1
<1>3. j - 1 \notin U
  BY <1>1, <1>2
<1> QED
  BY <1>2, <1>3

---------------------------------------------------------------------------
(* The rule for the pairs: it grows at a count that has no bit in common   *)
(* with the count it leads to (metarap.c:397, :598).                       *)

\* Halving, as the definition has it, up to the n-th time.
IsHalving(h, x, n) == h = [k \in 0..n |-> IF k = 0 THEN x ELSE h[k-1] \div 2]

LEMMA HalvingExists ==
  ASSUME NEW x \in Nat, NEW n \in Nat
  PROVE  \E h : IsHalving(h, x, n)
<1> DEFINE T == {a \in 0..n : \E h : IsHalving(h, x, a)}
<1>1. 0 \in T
  <2> DEFINE h == [k \in 0..0 |-> x]
  <2>1. IsHalving(h, x, 0)
    BY DEF IsHalving
  <2> HIDE DEF h
  <2> QED
    BY <2>1
<1>2. ASSUME NEW a \in 1..n, a - 1 \in T PROVE a \in T
  <2>1. PICK h : IsHalving(h, x, a - 1)
    BY <1>2
  <2> DEFINE g == [k \in 0..a |-> IF k = a THEN h[a-1] \div 2 ELSE h[k]]
  <2>2. ASSUME NEW k \in 0..a PROVE g[k] = IF k = 0 THEN x ELSE g[k-1] \div 2
    <3>1. CASE k = 0
      BY <2>1, <3>1 DEF IsHalving
    <3>2. CASE k \in 1..a-1
      <4>1. g[k] = h[k] /\ g[k-1] = h[k-1]
        BY <3>2
      <4>2. h[k] = h[k-1] \div 2
        BY <2>1, <3>2 DEF IsHalving
      <4> HIDE DEF g
      <4> QED
        BY <3>2, <4>1, <4>2
    <3>3. CASE k = a
      BY <3>3
    <3> QED
      BY <3>1, <3>2, <3>3
  <2>3. g = [k \in 0..a |-> g[k]]
    OBVIOUS
  <2> HIDE DEF g
  <2>4. IsHalving(g, x, a)
    BY <2>2, <2>3 DEF IsHalving
  <2> QED
    BY <2>4
<1> HIDE DEF T
<1>3. \A a \in 0..n : a \in T
  BY <1>1, <1>2, SetInduction
<1>4. n \in T
  BY <1>3
<1> QED
  BY <1>4 DEF T

LEMMA HalvedIs ==
  ASSUME NEW x \in Nat, NEW n \in Nat
  PROVE  \E h : IsHalving(h, x, n) /\ Halved(x, n) = h[n]
<1> DEFINE h == CHOOSE h : IsHalving(h, x, n)
<1>1. IsHalving(h, x, n)
  BY HalvingExists
<1>2. Halved(x, n) = h[n]
  BY Zenon DEF Halved, IsHalving
<1> HIDE DEF h
<1> QED
  BY <1>1, <1>2

\* However often something is halved, it is always the same until then.
LEMMA HalvingsAgree ==
  ASSUME NEW x \in Nat, NEW m \in Nat, NEW n \in Nat, NEW g, NEW h,
         IsHalving(g, x, m), IsHalving(h, x, n), m <= n
  PROVE  \A k \in 0..m : g[k] = h[k] /\ g[k] \in Nat
<1> DEFINE T == {k \in 0..m : g[k] = h[k] /\ g[k] \in Nat}
<1>1. 0 \in T
  BY DEF IsHalving
<1>2. ASSUME NEW k \in 1..m, k - 1 \in T PROVE k \in T
  <2>1. g[k] = g[k-1] \div 2 /\ h[k] = h[k-1] \div 2
    BY DEF IsHalving
  <2>2. g[k-1] = h[k-1] /\ g[k-1] \in Nat
    BY <1>2
  <2> QED
    BY <2>1, <2>2
<1> HIDE DEF T
<1>3. \A k \in 0..m : k \in T
  BY <1>1, <1>2, SetInduction
<1> QED
  BY <1>3 DEF T

LEMMA HalvedStep ==
  ASSUME NEW x \in Nat, NEW n \in Nat
  PROVE  /\ Halved(x, 0) = x /\ Halved(x, n) \in Nat
         /\ Halved(x, n + 1) = Halved(x, n) \div 2
<1>1. PICK g : IsHalving(g, x, n) /\ Halved(x, n) = g[n]
  BY HalvedIs
<1>2. PICK h : IsHalving(h, x, n + 1) /\ Halved(x, n + 1) = h[n + 1]
  BY HalvedIs
<1>3. PICK z : IsHalving(z, x, 0) /\ Halved(x, 0) = z[0]
  BY HalvedIs
<1>4. g[n] = h[n] /\ g[n] \in Nat
  BY <1>1, <1>2, HalvingsAgree
<1>5. h[n + 1] = h[n] \div 2
  <2>1. n + 1 \in 0..n+1 /\ n + 1 # 0 /\ (n + 1) - 1 = n
    OBVIOUS
  <2> QED
    BY <1>2, <2>1 DEF IsHalving
<1> QED
  BY <1>1, <1>2, <1>3, <1>4, <1>5 DEF IsHalving

\* What is halved once already has to be halved once less.
LEMMA HalvedShift ==
  ASSUME NEW x \in Nat, NEW n \in Nat
  PROVE  Halved(x, n + 1) = Halved(x \div 2, n)
<1> DEFINE T == {k \in 0..n : Halved(x, k + 1) = Halved(x \div 2, k)}
<1>0. x \div 2 \in Nat
  OBVIOUS
<1>1. 0 \in T
  <2>1. Halved(x, 0 + 1) = Halved(x, 0) \div 2 /\ Halved(x, 0) = x
    BY HalvedStep
  <2>2. Halved(x \div 2, 0) = x \div 2
    BY <1>0, HalvedStep
  <2> QED
    BY <2>1, <2>2
<1>2. ASSUME NEW k \in 1..n, k - 1 \in T PROVE k \in T
  <2> DEFINE j == k - 1
  <2>1. j \in Nat /\ k = j + 1 /\ k \in Nat
    OBVIOUS
  <2>2. Halved(x, j + 1) = Halved(x \div 2, j)
    BY <1>2
  <2> HIDE DEF j
  <2>3. Halved(x, k + 1) = Halved(x, k) \div 2
    BY <2>1, HalvedStep
  <2>4. Halved(x \div 2, j + 1) = Halved(x \div 2, j) \div 2
    BY <1>0, <2>1, HalvedStep
  <2> QED
    BY <2>1, <2>2, <2>3, <2>4
<1> HIDE DEF T
<1>3. \A k \in 0..n : k \in T
  BY <1>1, <1>2, SetInduction
<1>4. n \in T
  BY <1>3
<1> QED
  BY <1>4 DEF T

\* Nothing is left of a number that is halved as often.
LEMMA HalvedOut ==
  ASSUME NEW x \in Nat, NEW n \in Nat, x <= n
  PROVE  Halved(x, n) = 0
<1> DEFINE T == {k \in 0..n : Halved(x, k) = 0 \/ Halved(x, k) + k <= x}
<1>1. 0 \in T
  BY HalvedStep
<1>2. ASSUME NEW k \in 1..n, k - 1 \in T PROVE k \in T
  <2> DEFINE j == k - 1
  <2>1. j \in Nat /\ k = j + 1
    OBVIOUS
  <2>2. Halved(x, j) = 0 \/ Halved(x, j) + j <= x
    BY <1>2
  <2> HIDE DEF j
  <2>3. Halved(x, j) \in Nat /\ Halved(x, j + 1) = Halved(x, j) \div 2
    BY <2>1, HalvedStep
  <2>4. Halved(x, k) = 0 \/ Halved(x, k) + k <= x
    BY <2>1, <2>2, <2>3
  <2> QED
    BY <2>4
<1> HIDE DEF T
<1>3. \A k \in 0..n : k \in T
  BY <1>1, <1>2, SetInduction
<1>4. n \in T
  BY <1>3
<1>5. Halved(x, n) \in Nat
  BY HalvedStep
<1>6. Halved(x, n) = 0 \/ Halved(x, n) + n <= x
  BY <1>4 DEF T
<1> QED
  BY <1>5, <1>6

\* If an even count m is one at which a list grows, to 2m + 4, then so is the last
\* one for which that is enough.
LEMMA NextGrowth ==
  ASSUME NEW m \in Nat, m % 2 = 0, Disjoint(m, m + 2)
  PROVE  Disjoint(2 * m + 2, 2 * m + 4)
<1> DEFINE x == 2 * m + 2
           y == 2 * m + 4
<1> SUFFICES ASSUME NEW i \in 0..x PROVE Halved(x, i) % 2 = 0 \/ Halved(y, i) % 2 = 0
  BY DEF Disjoint
<1>0. x \in Nat /\ y \in Nat /\ i \in Nat
  OBVIOUS
<1>1. CASE i = 0
  BY <1>0, <1>1, HalvedStep
<1>2. CASE i = 1
  <2>1. Halved(y, 0 + 1) = Halved(y, 0) \div 2 /\ Halved(y, 0) = y
    BY <1>0, HalvedStep
  <2> QED
    BY <1>2, <2>1
<1>3. CASE i >= 2
  <2> DEFINE j == i - 1
             k == i - 2
  <2>1. j \in Nat /\ k \in Nat /\ i = j + 1 /\ j = k + 1
    BY <1>3
  <2>2. x \div 2 = m + 1 /\ y \div 2 = m + 2 /\ (m + 1) \div 2 = m \div 2
    OBVIOUS
  <2> HIDE DEF x, y, j, k
  <2>3. Halved(x, i) = Halved(m + 1, j) /\ Halved(y, i) = Halved(m + 2, j)
    BY <1>0, <2>1, <2>2, HalvedShift
  <2>4. Halved(m + 1, j) = Halved(m \div 2, k)
    <3>1. Halved(m + 1, k + 1) = Halved((m + 1) \div 2, k)
      BY <2>1, HalvedShift
    <3> QED
      BY <2>1, <2>2, <3>1
  <2>5. Halved(m, j) = Halved(m \div 2, k)
    BY <2>1, HalvedShift
  <2>6. CASE j \in 0..m
    BY <2>3, <2>4, <2>5, <2>6 DEF Disjoint
  <2>7. CASE j \notin 0..m
    <3>1. Halved(m, j) = 0
      BY <2>1, <2>7, HalvedOut
    <3> QED
      BY <2>3, <2>4, <2>5, <3>1
  <2> QED
    BY <2>6, <2>7
<1> QED
  BY <1>0, <1>1, <1>2, <1>3

\* A list of n numbers has room for c: it has not grown, or it has last at g.
Roomy(n, c) ==
  /\ n \in Nat /\ c \in Nat /\ n % 2 = 0
  /\ \/ n = 0 /\ c = 0
     \/ \E g \in Nat : /\ g % 2 = 0 /\ Disjoint(g, g + 2)
                       /\ c = 2 * g + 4 /\ g + 2 <= n /\ n <= 2 * g + 2

\* There is room for two more then, and the next growth is in time.
LEMMA PairRoomEnough ==
  ASSUME NEW n, NEW c, Roomy(n, c)
  PROVE  Roomy(n + 2, PairRoom(n, c)) /\ n + 2 <= PairRoom(n, c)
<1>1. n \in Nat /\ c \in Nat /\ n % 2 = 0 /\ (n + 2) % 2 = 0
  BY DEF Roomy
<1>2. CASE Disjoint(n, n + 2)
  <2>1. PairRoom(n, c) = 2 * n + 4
    BY <1>1, <1>2 DEF PairRoom
  <2>2. n + 2 <= n + 2 /\ n + 2 <= 2 * n + 2 /\ n + 2 <= 2 * n + 4 /\ 2 * n + 4 \in Nat
    BY <1>1
  <2> HIDE DEF PairRoom
  <2> QED
    BY <1>1, <1>2, <2>1, <2>2 DEF Roomy
<1>3. CASE ~Disjoint(n, n + 2)
  <2>1. PairRoom(n, c) = c
    BY <1>3 DEF PairRoom
  <2>2. n # 0
    <3>1. Halved(0, 0) = 0
      BY HalvedStep
    <3>2. Disjoint(0, 0 + 2)
      BY <3>1 DEF Disjoint
    <3> QED
      BY <1>3, <3>2
  <2>3. PICK g \in Nat : /\ g % 2 = 0 /\ Disjoint(g, g + 2)
                         /\ c = 2 * g + 4 /\ g + 2 <= n /\ n <= 2 * g + 2
    BY <2>2 DEF Roomy
  <2>4. n # 2 * g + 2
    <3>1. Disjoint(2 * g + 2, 2 * g + 4)
      BY <2>3, NextGrowth
    <3>2. ASSUME n = 2 * g + 2 PROVE FALSE
      <4>1. n + 2 = 2 * g + 4
        BY <3>2
      <4> QED
        BY <1>3, <3>1, <3>2, <4>1
    <3> QED
      BY <3>2
  <2>5. n + 2 <= 2 * g + 2 /\ g + 2 <= n + 2 /\ n + 2 <= c
    BY <1>1, <2>3, <2>4
  <2> QED
    BY <1>1, <2>1, <2>3, <2>5 DEF Roomy
<1> QED
  BY <1>2, <1>3

---------------------------------------------------------------------------
(* Room that is doubled until it is enough (metarap.c:273, :374).          *)

IsDoubling(d, need) ==
  d = [y \in 1..need |-> IF 2 * y < need THEN d[2 * y] ELSE 2 * y]

LEMMA DoublingExists ==
  ASSUME NEW need \in Nat
  PROVE  \E d : IsDoubling(d, need)
<1> DEFINE at(d, y) == IF 2 * y < need THEN d[2 * y] ELSE 2 * y
           is(d, a) == \A y \in 1..need : y + a > need => d[y] = at(d, y)
           T == {a \in 0..need : \E d : d = [y \in 1..need |-> d[y]] /\ is(d, a)}
<1>1. 0 \in T
  <2> DEFINE d == [y \in 1..need |-> 0]
  <2>1. d = [y \in 1..need |-> d[y]] /\ is(d, 0)
    OBVIOUS
  <2> HIDE DEF d, is
  <2> QED
    BY <2>1
<1>2. ASSUME NEW a \in 1..need, a - 1 \in T PROVE a \in T
  <2>1. PICK d : d = [y \in 1..need |-> d[y]] /\ is(d, a - 1)
    BY <1>2
  <2> DEFINE x == (need - a) + 1
             g == [y \in 1..need |-> IF y = x THEN at(d, x) ELSE d[y]]
  <2>2. x \in 1..need /\ \A y \in 1..need : (y + a > need <=> y >= x) /\ (y + (a - 1) > need <=> y > x)
    OBVIOUS
  <2>3. g = [y \in 1..need |-> g[y]] /\ g[x] = at(d, x)
        /\ \A y \in 1..need : y # x => g[y] = d[y]
    BY <2>2
  <2> HIDE DEF x, g
  <2>4. ASSUME NEW y \in 1..need, y + a > need PROVE g[y] = at(g, y)
    <3>1. 2 * y < need => 2 * y \in 1..need /\ 2 * y > x
      BY <2>2, <2>4
    <3>2. at(g, y) = at(d, y)
      BY <2>2, <2>3, <3>1
    <3>3. CASE y = x
      BY <2>3, <3>2, <3>3
    <3>4. CASE y # x
      <4>1. y + (a - 1) > need
        BY <2>2, <2>4, <3>4
      <4>2. d[y] = at(d, y)
        BY <2>1, <4>1
      <4> QED
        BY <2>3, <3>2, <3>4, <4>2
    <3> QED
      BY <3>3, <3>4
  <2>5. is(g, a)
    BY <2>4
  <2> HIDE DEF is
  <2> QED
    BY <2>3, <2>5
<1>3. \A a \in 0..need : a \in T
  <2> HIDE DEF T
  <2> QED
    BY <1>1, <1>2, SetInduction
<1>4. PICK d : d = [y \in 1..need |-> d[y]] /\ is(d, need)
  <2>1. need \in T
    BY <1>3
  <2> QED
    BY <2>1
<1>5. \A y \in 1..need : d[y] = at(d, y)
  <2>1. \A y \in 1..need : y + need > need
    OBVIOUS
  <2> HIDE DEF at
  <2> QED
    BY <1>4, <2>1
<1>6. IsDoubling(d, need)
  BY <1>4, <1>5 DEF IsDoubling
<1> QED
  BY <1>6

LEMMA DoubleMultiple ==
  ASSUME NEW y \in Nat, NEW w \in Nat \ {0}, y % w = 0
  PROVE  (2 * y) % w = 0
<1> DEFINE q == y \div w
<1>1. q \in Nat /\ y = w * q + (y % w)
  BY DivMod
<1> HIDE DEF q
<1>2. 2 * y = w * (2 * q) /\ 2 * q \in Nat
  BY <1>1
<1> QED
  BY <1>2, MultipleOf

\* It is enough then, and a multiple of what it was a multiple of.
LEMMA DoubledEnough ==
  ASSUME NEW need \in Nat, NEW room \in 1..need, NEW w \in Nat \ {0}, room % w = 0
  PROVE  Doubled(room, need) \in Nat /\ need <= Doubled(room, need) /\ Doubled(room, need) % w = 0
<1> DEFINE d == CHOOSE d : IsDoubling(d, need)
<1>1. IsDoubling(d, need)
  BY DoublingExists
<1>2. Doubled(room, need) = d[room]
  BY Zenon DEF Doubled, IsDoubling
<1> HIDE DEF d
<1>3. \A y \in 1..need : d[y] = IF 2 * y < need THEN d[2 * y] ELSE 2 * y
  BY <1>1 DEF IsDoubling
<1> DEFINE fine(y) == d[y] \in Nat /\ need <= d[y] /\ (y % w = 0 => d[y] % w = 0)
           T == {a \in 0..need : \A y \in 1..need : y + a > need => fine(y)}
<1>4. 0 \in T
  OBVIOUS
<1>5. ASSUME NEW a \in 1..need, a - 1 \in T PROVE a \in T
  <2> SUFFICES ASSUME NEW y \in 1..need, y + a > need PROVE fine(y)
    OBVIOUS
  <2>1. y % w = 0 => (2 * y) % w = 0
    <3>1. y \in Nat
      OBVIOUS
    <3> QED
      BY <3>1, DoubleMultiple
  <2>2. CASE 2 * y < need
    <3>1. 2 * y \in 1..need /\ 2 * y + (a - 1) > need
      BY <2>2
    <3>2. fine(2 * y)
      BY <1>5, <3>1
    <3> QED
      BY <1>3, <2>1, <2>2, <3>2
  <2>3. CASE ~(2 * y < need)
    <3>1. d[y] = 2 * y
      BY <1>3, <2>3
    <3> QED
      BY <2>1, <2>3, <3>1
  <2> QED
    BY <2>2, <2>3
<1>6. \A a \in 0..need : a \in T
  <2> HIDE DEF T
  <2> QED
    BY <1>4, <1>5, SetInduction
<1>7. need \in T /\ room + need > need
  BY <1>6
<1>8. fine(room)
  BY <1>7
<1> QED
  BY <1>2, <1>8

---------------------------------------------------------------------------
(* The text that is hashed (metarap.c:259-282).                            *)

\* What is in the buffer fits into it.
BufFits(b) ==
  /\ b.s \in Seq(Nat) /\ b.z \in Nat \ {0}
  /\ Len(b.s) <= b.z

LEMMA WriteFits ==
  ASSUME NEW b, BufFits(b), NEW s \in Seq(Nat)
  PROVE  BufFits(Write(b, s))
<1> DEFINE n == Len(b.s) + Len(s)
           new == Write(b, s)
<1>1. Len(b.s) \in Nat /\ Len(s) \in Nat /\ b.z \in Nat /\ b.z >= 1 /\ Len(b.s) <= b.z
  BY LenProperties DEF BufFits
<1>2. b.s \o s \in Seq(Nat) /\ Len(b.s \o s) = n
  BY ConcatProperties DEF BufFits
<1>3. /\ new.s = b.s \o s
      /\ new.z = IF Len(s) = 1 THEN IF Len(b.s) >= b.z THEN 2 * b.z ELSE b.z
                 ELSE IF n >= b.z THEN Doubled(b.z, n) ELSE b.z
  BY DEF Write
<1>4. new.z \in Nat /\ new.z >= 1 /\ n <= new.z
  <2>1. CASE Len(s) = 1
    BY <1>1, <1>3, <2>1
  <2>2. CASE Len(s) # 1 /\ n >= b.z
    <3> DEFINE room == b.z
    <3>1. n \in Nat /\ room \in 1..n /\ room % 1 = 0
      BY <1>1, <2>2
    <3> HIDE DEF n, room
    <3>2. Doubled(room, n) \in Nat /\ n <= Doubled(room, n)
      BY <3>1, DoubledEnough
    <3>3. new.z = Doubled(room, n)
      BY <1>3, <2>2 DEF room
    <3> HIDE DEF new
    <3> QED
      BY <3>1, <3>2, <3>3
  <2>3. CASE Len(s) # 1 /\ ~(n >= b.z)
    BY <1>1, <1>3, <2>3
  <2> QED
    BY <2>1, <2>2, <2>3
<1> HIDE DEF new
<1> QED
  BY <1>2, <1>3, <1>4 DEF BufFits, new

IsWriting(w, b, ts, n) ==
  w = [k \in 0..n |-> IF k = 0 THEN b ELSE Write(w[k-1], ts[k])]

LEMMA WritingExists ==
  ASSUME NEW b, NEW ts, NEW n \in Nat
  PROVE  \E w : IsWriting(w, b, ts, n)
<1> DEFINE T == {a \in 0..n : \E w : IsWriting(w, b, ts, a)}
<1>1. 0 \in T
  <2> DEFINE w == [k \in 0..0 |-> b]
  <2>1. IsWriting(w, b, ts, 0)
    BY DEF IsWriting
  <2> HIDE DEF w
  <2> QED
    BY <2>1
<1>2. ASSUME NEW a \in 1..n, a - 1 \in T PROVE a \in T
  <2>1. PICK w : IsWriting(w, b, ts, a - 1)
    BY <1>2
  <2> DEFINE g == [k \in 0..a |-> IF k = a THEN Write(w[a-1], ts[a]) ELSE w[k]]
  <2>2. ASSUME NEW k \in 0..a PROVE g[k] = IF k = 0 THEN b ELSE Write(g[k-1], ts[k])
    <3>1. CASE k = 0
      BY <2>1, <3>1 DEF IsWriting
    <3>2. CASE k \in 1..a-1
      <4>1. g[k] = w[k] /\ g[k-1] = w[k-1]
        BY <3>2
      <4>2. w[k] = Write(w[k-1], ts[k])
        BY <2>1, <3>2 DEF IsWriting
      <4> HIDE DEF g
      <4> QED
        BY <3>2, <4>1, <4>2
    <3>3. CASE k = a
      BY <3>3
    <3> QED
      BY <3>1, <3>2, <3>3
  <2>3. g = [k \in 0..a |-> g[k]]
    OBVIOUS
  <2> HIDE DEF g
  <2>4. IsWriting(g, b, ts, a)
    BY <2>2, <2>3 DEF IsWriting
  <2> QED
    BY <2>4
<1> HIDE DEF T
<1>3. \A a \in 0..n : a \in T
  BY <1>1, <1>2, SetInduction
<1>4. n \in T
  BY <1>3
<1> QED
  BY <1>4 DEF T

LEMMA WrittenFits ==
  ASSUME NEW b, BufFits(b), NEW ts, Len(ts) \in Nat, \A k \in 1..Len(ts) : ts[k] \in Seq(Nat)
  PROVE  BufFits(Written(b, ts))
<1> DEFINE n == Len(ts)
           w == CHOOSE w : IsWriting(w, b, ts, n)
<1>1. IsWriting(w, b, ts, n)
  <2> HIDE DEF n
  <2>1. n \in Nat
    BY DEF n
  <2> QED
    BY <2>1, WritingExists
<1>2. Written(b, ts) = w[n]
  BY Zenon DEF Written, IsWriting
<1> HIDE DEF w
<1> DEFINE T == {k \in 0..n : BufFits(w[k])}
<1>3. 0 \in T
  BY <1>1 DEF IsWriting
<1>4. ASSUME NEW k \in 1..n, k - 1 \in T PROVE k \in T
  <2>1. w[k] = Write(w[k-1], ts[k])
    BY <1>1 DEF IsWriting
  <2>2. BufFits(w[k-1]) /\ ts[k] \in Seq(Nat)
    BY <1>4
  <2>3. BufFits(w[k])
    BY <2>1, <2>2, WriteFits
  <2> QED
    BY <2>3
<1>5. \A k \in 0..n : k \in T
  <2> HIDE DEF T
  <2> QED
    BY <1>3, <1>4, SetInduction
<1>6. n \in T
  BY <1>5
<1> QED
  BY <1>2, <1>6

\* The line of a statement is seven texts.
LEMMA NTriplesTexts ==
  ASSUME NEW e, e.subj \in Term, e.pred \in Term, e.obj \in Term
  PROVE  LET ts == NTriples(e)
         IN  Len(ts) = 7 /\ \A k \in 1..7 : ts[k] \in Seq(Nat)
<1> DEFINE text(t) == IF t.type = "uri" THEN <<60>> \o t.str \o <<62>>
                      ELSE <<34>> \o t.str \o <<34>>
           ts == << text(e.subj), <<32>>, text(e.pred), <<32>>, text(e.obj), <<32, 46>>, <<10>> >>
<1>1. ASSUME NEW t \in Term PROVE text(t) \in Seq(Nat)
  <2>1. t.str \in Seq(Nat)
    BY DEF Term
  <2>2. \A a, b \in Seq(Nat) : a \o b \in Seq(Nat)
    BY ConcatProperties
  <2>3. <<60>> \in Seq(Nat) /\ <<62>> \in Seq(Nat) /\ <<34>> \in Seq(Nat)
    OBVIOUS
  <2>4. <<60>> \o t.str \in Seq(Nat) /\ <<34>> \o t.str \in Seq(Nat)
    BY <2>1, <2>2, <2>3
  <2>5. (<<60>> \o t.str) \o <<62>> \in Seq(Nat)
    BY <2>2, <2>3, <2>4
  <2>6. (<<34>> \o t.str) \o <<34>> \in Seq(Nat)
    BY <2>2, <2>3, <2>4
  <2> QED
    BY <2>5, <2>6
<1>2. NTriples(e) = ts
  BY DEF NTriples
<1>3. text(e.subj) \in Seq(Nat) /\ text(e.pred) \in Seq(Nat) /\ text(e.obj) \in Seq(Nat)
  BY <1>1
<1>4. <<32>> \in Seq(Nat) /\ <<32, 46>> \in Seq(Nat) /\ <<10>> \in Seq(Nat)
  OBVIOUS
<1> HIDE DEF text
<1>5. Len(ts) = 7 /\ \A k \in 1..7 : ts[k] \in Seq(Nat)
  <2>1. Len(ts) = 7
    OBVIOUS
  <2>2. \A k \in 1..7 : k = 1 \/ k = 2 \/ k = 3 \/ k = 4 \/ k = 5 \/ k = 6 \/ k = 7
    OBVIOUS
  <2>3. /\ ts[1] \in Seq(Nat) /\ ts[2] \in Seq(Nat) /\ ts[3] \in Seq(Nat) /\ ts[4] \in Seq(Nat)
        /\ ts[5] \in Seq(Nat) /\ ts[6] \in Seq(Nat) /\ ts[7] \in Seq(Nat)
    BY <1>3, <1>4
  <2> HIDE DEF ts
  <2> QED
    BY <2>1, <2>2, <2>3
<1> QED
  BY <1>2, <1>5

---------------------------------------------------------------------------
(* Names and suffixes of @ objects (metarap.c:613-642, :464-497).          *)

LEMMA NameShape ==
  ASSUME NEW t \in Term, IsAtObject(t)
  PROVE  /\ t.str \in Seq(Nat) /\ Len(t.str) \in Nat /\ Len(t.str) >= 1
         /\ Name(t) \in Seq(Nat) /\ Len(Name(t)) \in Nat /\ Len(Name(t)) <= Len(t.str) - 1
         /\ Sufx(t) \in Nat /\ Sufx(t) = (Len(t.str) - 1) - Len(Name(t))
         /\ \A p \in 2..Len(t.str) : t.str[p] = Colon => Len(Name(t)) <= p - 2
<1> DEFINE l    == Len(t.str)
           ends == {p \in 2..Len(t.str) : t.str[p] = Colon} \cup {Len(t.str) + 1}
           m    == Min(ends)
<1>1. t.str \in Seq(Nat) /\ l \in Nat /\ l >= 1
  <2>1. t.str \in Seq(Nat) /\ t.str # <<>>
    BY DEF Term, IsAtObject
  <2> QED
    BY <2>1, LenProperties, EmptySeq
<1>2. m \in ends /\ \A p \in ends : m <= p
  <2>1. ends \subseteq Nat /\ ends # {}
    BY <1>1
  <2> HIDE DEF ends
  <2> QED
    BY <2>1, MinOf
<1>3. m \in 2..l+1 /\ \A p \in 2..l : t.str[p] = Colon => m <= p
  BY <1>1, <1>2
<1>4. Name(t) = SubSeq(t.str, 2, m - 1)
  BY DEF Name
<1> HIDE DEF ends, m
<1>5. SubSeq(t.str, 2, m - 1) \in Seq(Nat) /\ Len(SubSeq(t.str, 2, m - 1)) = m - 2
  <2>1. 2 \in 1..l+1 /\ m - 1 \in (2 - 1)..l /\ ((m - 1) - 2) + 1 = m - 2
    BY <1>1, <1>3
  <2> QED
    BY <1>1, <2>1, SubSeqProperties, SMTT(30)
<1>6. Len(Name(t)) = m - 2
  BY <1>4, <1>5
<1>7. Sufx(t) = (l - 1) - Len(Name(t))
  BY DEF Sufx
<1> DEFINE name == Name(t)
<1>8. name \in Seq(Nat) /\ Len(name) = m - 2 /\ Sufx(t) = (l - 1) - Len(name)
  BY <1>4, <1>5, <1>6, <1>7
<1>9. m \in Nat /\ m >= 2 /\ m <= l + 1
  BY <1>1, <1>3
<1> HIDE DEF name
<1>10. Len(name) \in Nat /\ Len(name) <= l - 1 /\ Sufx(t) \in Nat
  BY <1>1, <1>8, <1>9
<1>11. ASSUME NEW p \in 2..l, t.str[p] = Colon PROVE Len(name) <= p - 2
  <2>1. m <= p
    BY <1>3, <1>11
  <2> QED
    BY <1>1, <1>8, <1>9, <2>1
<1> QED
  BY <1>1, <1>8, <1>10, <1>11 DEF name

\* What is put together for an object is no longer than the URI and its own suffix.
LEMMA ResolvedFits ==
  ASSUME NEW t \in Term, IsAtObject(t), NEW e, e.prefix \in Seq(Nat), e.uri \in Seq(Nat)
  PROVE  Len(Resolved(t, e).str) <= Len(e.uri) + Sufx(t)
<1> DEFINE n == Len(e.prefix)
           l == Len(t.str)
           with == n < Len(t.str) - 1 /\ t.str[n + 2] = Colon
           sfx == IF with THEN SubSeq(t.str, n + 3, Len(t.str)) ELSE <<>>
<1>1. /\ t.str \in Seq(Nat) /\ l \in Nat /\ l >= 1 /\ n \in Nat
      /\ Sufx(t) \in Nat /\ Sufx(t) = (l - 1) - Len(Name(t)) /\ Len(Name(t)) \in Nat
      /\ \A p \in 2..l : t.str[p] = Colon => Len(Name(t)) <= p - 2
  BY NameShape, LenProperties
<1>2. sfx \in Seq(Nat) /\ Len(sfx) <= Sufx(t) /\ Len(sfx) \in Nat
  <2>1. CASE with
    <3>1. n + 2 \in 2..l /\ t.str[n + 2] = Colon
      BY <1>1, <2>1, SMTT(30)
    <3>a. Len(Name(t)) <= (n + 2) - 2
      BY <1>1, <3>1, Zenon
    <3>2. Len(Name(t)) <= n
      BY <1>1, <3>a
    <3>3. n + 3 \in 1..l+1 /\ l \in (n + 3) - 1..l /\ (l - (n + 3)) + 1 = l - (n + 2)
      BY <1>1, <3>1, SMTT(30)
    <3>4. SubSeq(t.str, n + 3, l) \in Seq(Nat) /\ Len(SubSeq(t.str, n + 3, l)) = l - (n + 2)
      <4> DEFINE s == t.str
                 m == n + 3
      <4>1. s \in Seq(Nat) /\ m \in 1..Len(s)+1 /\ l \in m-1..Len(s) /\ (l - m) + 1 = l - (n + 2)
        BY <1>1, <3>3
      <4> HIDE DEF s, m, l
      <4>2. SubSeq(s, m, l) \in Seq(Nat) /\ Len(SubSeq(s, m, l)) = IF m <= l THEN (l - m) + 1 ELSE 0
        BY <4>1, SubSeqProperties
      <4>3. (IF m <= l THEN (l - m) + 1 ELSE 0) = l - (n + 2)
        <5>1. l \in Nat /\ n \in Nat /\ n + 2 <= l
          BY <1>1, <3>1
        <5> HIDE DEF n
        <5> QED
          BY <5>1 DEF m
      <4> QED
        BY <4>2, <4>3 DEF s, m
    <3>5. sfx = SubSeq(t.str, n + 3, l)
      BY <2>1
    <3> HIDE DEF sfx
    <3> QED
      <4> DEFINE nm == Len(Name(t))
                 sx == Sufx(t)
                 ls == Len(sfx)
      <4>1. l \in Nat /\ n \in Nat /\ n + 2 <= l
        BY <1>1, <3>1
      <4>2. nm \in Nat /\ nm <= n /\ sx = (l - 1) - nm /\ ls = l - (n + 2)
        BY <1>1, <3>2, <3>4, <3>5
      <4>3. sfx \in Seq(Nat)
        BY <3>4, <3>5
      <4> HIDE DEF nm, sx, ls, n, l
      <4>4. ls <= sx /\ ls \in Nat
        BY <4>1, <4>2
      <4> QED
        BY <4>3, <4>4 DEF ls, sx
  <2>2. CASE ~with
    <3>1. sfx = <<>>
      BY <2>2
    <3> HIDE DEF sfx
    <3> QED
      BY <1>1, <3>1, EmptySeq
  <2> QED
    BY <2>1, <2>2
<1>3. Resolved(t, e).str = e.uri \o sfx
  <2>1. Resolved(t, e) = [t EXCEPT !.str = e.uri \o sfx]
    BY DEF Resolved
  <2> HIDE DEF sfx
  <2> QED
    BY <2>1 DEF Term
<1> HIDE DEF sfx
<1>4. Len(e.uri \o sfx) = Len(e.uri) + Len(sfx) /\ Len(e.uri) \in Nat
  BY <1>2, ConcatProperties, LenProperties
<1> QED
  <2>1. Len(Resolved(t, e).str) = Len(e.uri) + Len(sfx)
    BY <1>3, <1>4
  <2> DEFINE a == Len(Resolved(t, e).str)
             b == Len(e.uri)
             c == Len(sfx)
             d == Sufx(t)
  <2>2. a = b + c /\ b \in Nat /\ c \in Nat /\ d \in Nat /\ c <= d
    BY <1>1, <1>2, <1>4, <2>1
  <2> HIDE DEF a, b, c, d
  <2>3. a <= b + d
    BY <2>2
  <2> QED
    BY <2>3 DEF a, b, d

LEMMA ResolvedText ==
  ASSUME NEW t \in Term, IsAtObject(t), NEW e, e.prefix \in Seq(Nat), e.uri \in Seq(Nat)
  PROVE  Len(Resolved(t, e).str) \in Nat
<1> DEFINE sfx == IF Len(e.prefix) < Len(t.str) - 1 /\ t.str[Len(e.prefix) + 2] = Colon
                    THEN SubSeq(t.str, Len(e.prefix) + 3, Len(t.str)) ELSE <<>>
<1>1. sfx \in Seq(Nat)
  <2>1. t.str \in Seq(Nat) /\ Len(t.str) \in Nat /\ Len(e.prefix) \in Nat
    BY NameShape, LenProperties
  <2> DEFINE s == t.str
             m == Len(e.prefix) + 3
             n == Len(t.str)
  <2>2. m \in Int /\ n \in Int /\ \A k \in m..n : k \in 1..n
    BY <2>1
  <2>3. \A k \in m..n : s[k] \in Nat
    BY <2>1, <2>2, ElementOfSeq
  <2> HIDE DEF s, m, n
  <2>4. SubSeq(s, m, n) \in Seq(Nat)
    BY <2>2, <2>3, SubSeqProperties
  <2> QED
    BY <2>4, EmptySeq DEF s, m, n
<1>2. Resolved(t, e).str = e.uri \o sfx
  <2>1. Resolved(t, e) = [t EXCEPT !.str = e.uri \o sfx]
    BY DEF Resolved
  <2> HIDE DEF sfx
  <2> QED
    BY <2>1 DEF Term
<1> HIDE DEF sfx
<1>3. e.uri \o sfx \in Seq(Nat)
  BY <1>1, ConcatProperties
<1> QED
  BY <1>2, <1>3, LenProperties

---------------------------------------------------------------------------
(* The names and their slots (metarap.c:172-227, :351-396).                *)

\* A hit of find_rplc() is behind an @.
LEMMA FoundBehindAt ==
  ASSUME NEW r \in Seq(Nat), NEW name \in Seq(Nat), NEW x \in FindRplc(r, name)
  PROVE  \E q \in 1..Len(r) : r[q] = At /\ x = q \div WordSize
<1>1. PICK p \in XMemMem(r, name) : p > 1 /\ r[p - 1] = At /\ x = (p - 1) \div WordSize
  BY DEF FindRplc
<1>2. name # <<>>
  <2>1. name = <<>> => XMemMem(r, name) = {1}
    BY DEF XMemMem
  <2> QED
    BY <1>1, <2>1
<1>3. p \in Nat /\ p <= Len(r)
  <2> DEFINE n == Len(name)
             starts == Least({h \in DOMAIN r : r[h] = name[1]})
             Agrees(b) == /\ XorSum(Window(r, b, n)) = XorSum(name)
                          /\ Window(r, b, n - 1) = SubSeq(name, 1, n - 1)
             Fit(h) == {b \in h..Len(r) - n + 1 :
                          IF b = h THEN Window(r, b, n) = name ELSE Agrees(b)}
  <2>1. XMemMem(r, name) = UNION {Least(Fit(h)) : h \in starts}
    <3>1. XMemMem(r, name) = IF name = <<>> THEN {1} ELSE UNION {Least(Fit(h)) : h \in starts}
      BY Zenon DEF XMemMem
    <3> HIDE DEF Fit, starts, n
    <3> QED
      BY <1>2, <3>1
  <2>2. PICK h \in starts : p \in Least(Fit(h))
    BY <1>1, <2>1
  <2>3. n \in Nat /\ n >= 1 /\ Len(r) \in Nat
    BY <1>2, LenProperties, EmptySeq
  <2>4. h \in Nat
    <3> DEFINE S == {k \in DOMAIN r : r[k] = name[1]}
    <3>1. S \subseteq Nat
      BY LenProperties
    <3>2. S # {} /\ h = Min(S)
      BY <2>2 DEF Least
    <3> HIDE DEF S
    <3> QED
      BY <3>1, <3>2, MinOf
  <2>5. p \in Fit(h)
    <3>1. Fit(h) \subseteq Nat
      BY <2>4
    <3> HIDE DEF Fit
    <3>2. Fit(h) # {} /\ p = Min(Fit(h))
      BY <2>2 DEF Least
    <3> QED
      BY <3>1, <3>2, MinOf
  <2>6. p \in h..Len(r) - n + 1
    BY <2>5
  <2> QED
    BY <2>3, <2>4, <2>6
<1>4. p - 1 \in 1..Len(r)
  BY <1>1, <1>3
<1> QED
  BY <1>1, <1>4

\* add_rplc() leaves the names as they are, and writes one @ if the name has none.
LEMMA AddRplcAt ==
  ASSUME NEW rp \in Seq(Nat), NEW name \in Seq(Nat)
  PROVE  /\ \A q \in 1..Len(rp) : AddRplc(rp, name)[q] = rp[q]
         /\ At \notin ToSet(name) =>
              \A q \in 1..Len(AddRplc(rp, name)) :
                AddRplc(rp, name)[q] = At => q <= Len(rp) + 1
<1> DEFINE n   == Len(rp) + 1 + Len(name)
           pad == [k \in 1..Pad(n) |-> Nul]
           a   == rp \o <<At>>
           b   == a \o name
           c   == b \o pad
<1>1. Len(rp) \in Nat /\ Len(name) \in Nat /\ n \in Nat
  BY LenProperties
<1> HIDE DEF n
<1>2. Pad(n) \in Nat
  BY <1>1, PadAligns
<1>3. /\ pad \in Seq(Nat) /\ Len(pad) = Pad(n) /\ \A k \in 1..Pad(n) : pad[k] = Nul
  BY <1>2, IsASeq DEF Nul
<1>4. <<At>> \in Seq(Nat) /\ Len(<<At>>) = 1
  BY DEF At
<1>5. /\ a \in Seq(Nat) /\ Len(a) = Len(rp) + 1
      /\ \A q \in 1..Len(rp) : a[q] = rp[q]
  BY <1>1, <1>4, ConcatProperties
<1> HIDE DEF a, pad
<1>6. /\ b \in Seq(Nat) /\ Len(b) = n
      /\ \A q \in 1..Len(a) : b[q] = a[q]
      /\ \A q \in 1..Len(a) + Len(name) : q > Len(a) => b[q] = name[q - Len(a)]
  <2>1. /\ a \o name \in Seq(Nat) /\ Len(a \o name) = Len(a) + Len(name)
        /\ \A i \in 1 .. Len(a) + Len(name) : (a \o name)[i] =
              IF i <= Len(a) THEN a[i] ELSE name[i - Len(a)]
    BY <1>5, ConcatProperties
  <2>2. Len(a) \in Nat /\ n = Len(a) + Len(name)
    BY <1>1, <1>5 DEF n
  <2> HIDE DEF b
  <2>3. b = a \o name
    BY DEF b
  <2> QED
    BY <1>1, <2>1, <2>2, <2>3
<1> HIDE DEF b
<1>7. /\ c \in Seq(Nat) /\ Len(c) = n + Pad(n)
      /\ \A q \in 1..n : c[q] = b[q]
      /\ \A q \in 1..n + Pad(n) : q > n => c[q] = Nul
  <2>1. /\ b \o pad \in Seq(Nat) /\ Len(b \o pad) = Len(b) + Len(pad)
        /\ \A i \in 1 .. Len(b) + Len(pad) : (b \o pad)[i] =
              IF i <= Len(b) THEN b[i] ELSE pad[i - Len(b)]
    BY <1>3, <1>6, ConcatProperties
  <2>2. Len(b) = n /\ Len(pad) = Pad(n)
    BY <1>3, <1>6
  <2> DEFINE p == Pad(n)
  <2>3. p \in Nat
    BY <1>2
  <2> HIDE DEF p
  <2>4. \A i \in 1..n + p : i > n => i - n \in 1..p
    BY <1>1, <2>3
  <2>5. \A k \in 1..p : pad[k] = Nul
    BY <1>3 DEF p
  <2>6. Len(pad) = p
    BY <2>2 DEF p
  <2>7. \A i \in 1..n + p : (b \o pad)[i] = IF i <= n THEN b[i] ELSE pad[i - n]
    BY <2>1, <2>2, <2>6
  <2>8. \A i \in 1..n + p : i > n => (b \o pad)[i] = Nul
    <3>1. \A i \in 1..n + p : i > n => ~(i <= n)
      BY <1>1, <2>3
    <3> QED
      BY <2>4, <2>5, <2>7, <3>1
  <2>9. \A i \in 1..n : (b \o pad)[i] = b[i]
    <3>1. \A i \in 1..n : i \in 1..n + p /\ i <= n
      BY <1>1, <2>3
    <3> QED
      BY <2>7, <3>1
  <2> QED
    BY <2>1, <2>2, <2>6, <2>8, <2>9 DEF p, c
<1> HIDE DEF c
<1>8. AddRplc(rp, name) = c
  BY DEF AddRplc, a, b, c, pad, n
<1>9. ASSUME NEW q \in 1..Len(rp) PROVE c[q] = rp[q]
  <2>1. q \in 1..n /\ q \in 1..Len(a)
    BY <1>1, <1>5 DEF n
  <2> QED
    BY <1>5, <1>6, <1>7, <2>1
<1>10. ASSUME At \notin ToSet(name), NEW q \in 1..Len(c), c[q] = At, q > Len(rp) + 1 PROVE FALSE
  <2> DEFINE p == Pad(n)
  <2>1. p \in Nat /\ Len(c) = n + p
    BY <1>2, <1>7
  <2>2. CASE q <= n
    <3>1. q \in 1..n
      BY <1>1, <2>2
    <3>2. q \in 1..Len(a) + Len(name) /\ q > Len(a) /\ q - Len(a) \in 1..Len(name)
      BY <1>1, <1>5, <1>10, <3>1 DEF n
    <3>3. c[q] = name[q - Len(a)]
      BY <1>6, <1>7, <3>1, <3>2
    <3>4. DOMAIN name = 1..Len(name)
      BY LenProperties
    <3>5. c[q] \in ToSet(name)
      BY <3>2, <3>3, <3>4 DEF ToSet
    <3> QED
      BY <1>10, <3>5
  <2>3. CASE q > n
    <3> HIDE DEF p
    <3>1. q \in 1..n + p
      BY <2>1
    <3>2. c[q] = Nul
      BY <1>7, <2>3, <3>1 DEF p
    <3> QED
      BY <1>10, <3>2 DEF Nul, At
  <2> QED
    BY <1>1, <2>2, <2>3
<1> QED
  BY <1>8, <1>9, <1>10

\* Whole words in front of a string change nothing about its padding.
LEMMA ModAdd ==
  ASSUME NEW w \in Nat \ {0}, NEW q \in Nat, NEW m \in 0..w-1
  PROVE  (w * q + m) % w = m /\ (w * q + m) \div w = q
OBVIOUS

LEMMA PadPeriodic ==
  ASSUME NEW a \in Nat, NEW n \in Nat, a % WordSize = 0
  PROVE  Pad(a + n) = Pad(n) /\ (a + n) \div WordSize = (a \div WordSize) + (n \div WordSize)
<1> DEFINE q == a \div WordSize
           p == n \div WordSize
           m == n % WordSize
<1>w. WordSize \in Nat \ {0}
  BY WordAssumption
<1>1. q \in Nat /\ a = WordSize * q + (a % WordSize)
  BY <1>w, DivMod
<1>2. p \in Nat /\ m \in 0..WordSize-1 /\ n = WordSize * p + m
  BY <1>w, DivMod
<1> HIDE DEF q, p, m
<1>3. WordSize * (q + p) = WordSize * q + WordSize * p /\ WordSize * q \in Nat /\ WordSize * p \in Nat
  BY <1>w, <1>1, <1>2
<1>4. a + n = WordSize * (q + p) + m /\ q + p \in Nat
  BY <1>w, <1>1, <1>2, <1>3
<1>5. (WordSize * (q + p) + m) % WordSize = m /\ (WordSize * (q + p) + m) \div WordSize = q + p
  BY <1>w, <1>2, <1>4, ModAdd
<1>6. (a + n) % WordSize = n % WordSize
  BY <1>4, <1>5 DEF m
<1> QED
  BY <1>4, <1>5, <1>6 DEF Pad, q, p

\* The names are whole words, and there is room for them.
NamesFit(rp, z) ==
  /\ rp \in Seq(Nat) /\ Len(rp) % WordSize = 0
  /\ z \in Nat /\ z % WordSize = 0 /\ Len(rp) <= z

LEMMA AddFits ==
  ASSUME NEW rp, NEW room, NamesFit(rp, room), room > 0, NEW name \in Seq(Nat)
  PROVE  NamesFit(AddRplc(rp, name), RplcRoom(rp, room, name)) /\ RplcRoom(rp, room, name) > 0
<1> DEFINE need == Len(rp) + Len(name) + WordSize
           z    == RplcRoom(rp, room, name)
<1>1. rp \in Seq(Nat) /\ Len(rp) % WordSize = 0 /\ room \in Nat /\ room % WordSize = 0
  BY DEF NamesFit
<1>2. need \in Nat /\ WordSize \in Nat \ {0} /\ need > 0
  BY <1>1, LenProperties, WordAssumption
<1>3. z = IF need >= room THEN Doubled(room, need) ELSE room
  BY DEF RplcRoom
<1>4. z \in Nat /\ need <= z /\ z % WordSize = 0
  <2> HIDE DEF need, z
  <2>1. CASE need >= room
    <3>1. room \in 1..need
      BY <1>1, <1>2, <2>1
    <3>2. Doubled(room, need) \in Nat /\ need <= Doubled(room, need) /\ Doubled(room, need) % WordSize = 0
      BY <1>1, <1>2, <3>1, DoubledEnough
    <3> QED
      BY <1>3, <2>1, <3>2
  <2>2. CASE ~(need >= room)
    BY <1>1, <1>2, <1>3, <2>2
  <2> QED
    BY <2>1, <2>2
<1> HIDE DEF z
<1>5. Len(AddRplc(rp, name)) <= z /\ Len(AddRplc(rp, name)) % WordSize = 0
  BY <1>1, <1>4, RoomForName
<1>6. AddRplc(rp, name) \in Seq(Nat)
  BY <1>1, AddRplcLength
<1>7. z > 0
  BY <1>2, <1>4
<1> QED
  BY <1>4, <1>5, <1>6, <1>7 DEF NamesFit, z

\* n slots are enough for the names: there is one wherever an @ is, and the next
\* doubling adds as many as a name that is short takes.
Cover(rp, n) ==
  /\ n = 0 => Len(rp) = 0
  /\ n # 0 => n >= Cords0 /\ Len(rp) \div WordSize < n + Cords0
  /\ \A q \in 1..Len(rp) : rp[q] = At => q \div WordSize < n

\* The number of slots once there is to be one that is numbered r.
Slotted(n, r) == IF r < n THEN n ELSE n + (IF n = 0 THEN Cords0 ELSE n)

LEMMA CoverAdd ==
  ASSUME NEW rp \in Seq(Nat), Len(rp) % WordSize = 0, NEW n \in Nat, Cover(rp, n),
         NEW name \in Seq(Nat), Short(name), At \notin ToSet(name)
  PROVE  LET r == Len(rp) \div WordSize
         IN  r \in Nat /\ r < Slotted(n, r) /\ Cover(AddRplc(rp, name), Slotted(n, r))
<1> DEFINE r   == Len(rp) \div WordSize
           m   == Slotted(n, r)
           l   == Len(rp)
           k   == 1 + Len(name)
           new == AddRplc(rp, name)
<1>1. l \in Nat /\ k \in Nat /\ k >= 1 /\ r \in Nat /\ Cords0 \in Nat /\ Cords0 > 0
      /\ WordSize \in Nat /\ WordSize > 1 /\ Len(name) \in Nat
  <2>1. Len(rp) \in Nat /\ Len(name) \in Nat
    BY LenProperties
  <2>2. WordSize \in Nat /\ WordSize > 1 /\ Cords0 \in Nat /\ Cords0 > 0
    BY WordAssumption, MetarapAssumption
  <2>3. r \in Nat
    BY <2>1, <2>2, DivMod
  <2> QED
    BY <2>1, <2>2, <2>3
<1>w. WordSize \in Nat \ {0}
  BY <1>1
<1>2. m \in Nat /\ m >= Cords0 /\ r < m
  <2> HIDE DEF r
  <2>0. m = IF r < n THEN n ELSE n + (IF n = 0 THEN Cords0 ELSE n)
    BY DEF Slotted
  <2>1. n = 0 => r = 0
    <3>1. n = 0 => Len(rp) = 0
      BY DEF Cover
    <3>2. 0 \div WordSize = 0
      BY <1>1
    <3> QED
      BY <3>1, <3>2 DEF r
  <2>2. n # 0 => n >= Cords0 /\ r < n + Cords0
    BY DEF Cover, r
  <2> HIDE DEF m
  <2> QED
    BY <1>1, <2>0, <2>1, <2>2
<1>3. Pad(l + k) = Pad(k)
  BY <1>1, PadPeriodic
<1>4. Pad(k) \in Nat /\ (k + Pad(k)) % WordSize = 0
  BY <1>1, PadAligns
<1> DEFINE u == k + Pad(k)
<1>5. new \in Seq(Nat) /\ Len(new) = l + u
  <2>1. new \in Seq(Nat) /\ Len(new) = l + 1 + Len(name) + Pad(l + 1 + Len(name))
    BY AddRplcLength
  <2>2. l + 1 + Len(name) = l + k
    BY <1>1
  <2>3. Len(new) = (l + k) + Pad(k)
    BY <1>3, <2>1, <2>2
  <2> HIDE DEF new, l, k
  <2> QED
    BY <1>1, <1>4, <2>1, <2>3
<1>6. u \in Nat /\ u <= Cords0 * WordSize
  <2>1. Len(name) + 1 = k
    BY <1>1
  <2>2. k + Pad(k) <= Cords0 * WordSize
    BY <2>1 DEF Short
  <2> DEFINE p == Pad(k)
             x == Cords0 * WordSize
  <2>3. p \in Nat /\ k + p <= x
    BY <1>4, <2>2
  <2> HIDE DEF k, p, x
  <2>4. k + p \in Nat
    BY <1>1, <2>3
  <2> QED
    BY <2>3, <2>4 DEF p, x
<1>7. u \div WordSize \in Nat /\ u \div WordSize <= Cords0
  <2> HIDE DEF u
  <2> DEFINE v == u \div WordSize
  <2>1. v \in Nat /\ u = WordSize * v + (u % WordSize) /\ u % WordSize \in 0..WordSize-1
    BY <1>w, <1>6, DivMod
  <2> HIDE DEF v
  <2>2. u % WordSize = 0
    BY <1>4 DEF u
  <2>3. u = WordSize * v
    BY <1>1, <2>1, <2>2
  <2>4. ~(v > Cords0)
    <3> SUFFICES ASSUME v > Cords0 PROVE FALSE
      OBVIOUS
    <3>1. WordSize * (Cords0 + 1) <= WordSize * v
      BY <1>1, <2>1
    <3>2. WordSize * (Cords0 + 1) = Cords0 * WordSize + WordSize /\ Cords0 * WordSize \in Nat
      BY <1>1
    <3> QED
      BY <1>1, <1>6, <2>3, <3>1, <3>2
  <2> QED
    BY <1>1, <2>1, <2>4 DEF v
<1>8. Len(new) \div WordSize < m + Cords0
  <2> HIDE DEF m, u, new, l
  <2>1. (l + u) \div WordSize = (l \div WordSize) + (u \div WordSize)
    BY <1>1, <1>6, PadPeriodic DEF l
  <2>2. l \div WordSize = r
    BY DEF l
  <2> HIDE DEF r
  <2> DEFINE v == u \div WordSize
  <2>3. Len(new) \div WordSize = r + v
    BY <1>5, <2>1, <2>2
  <2>4. v \in Nat /\ v <= Cords0
    BY <1>7
  <2> HIDE DEF v
  <2> QED
    BY <1>1, <1>2, <2>3, <2>4
<1>9. ASSUME NEW q \in 1..Len(new), new[q] = At PROVE q \div WordSize < m
  <2>1. CASE q <= l
    <3>1. q \in 1..l /\ rp[q] = At
      BY <1>1, <1>9, <2>1, AddRplcAt
    <3>2. q \div WordSize < n
      BY <3>1 DEF Cover
    <3>3. n <= m
      BY <1>1, <1>2 DEF Slotted
    <3>4. q \div WordSize \in Nat
      <4>1. q \in Nat
        BY <1>1, <3>1
      <4> QED
        BY <1>w, <4>1, DivMod
    <3> HIDE DEF m
    <3> QED
      BY <1>2, <3>2, <3>3, <3>4
  <2>2. CASE q = l + 1
    <3>1. (l + 1) \div WordSize = (l \div WordSize) + (1 \div WordSize)
      BY <1>1, PadPeriodic
    <3>2. 1 \div WordSize = 0
      <4> DEFINE o == 1
                 v == o \div WordSize
                 m1 == o % WordSize
      <4>o. o \in Nat /\ o = 1
        OBVIOUS
      <4> HIDE DEF o
      <4>1. v \in Nat /\ m1 \in 0..WordSize-1 /\ o = WordSize * v + m1
        BY <1>w, <4>o, DivMod
      <4> HIDE DEF v, m1
      <4>2. v # 0 => WordSize * v >= WordSize
        BY <1>1, <4>1
      <4>3. v = 0
        BY <1>1, <4>1, <4>2, <4>o
      <4> QED
        BY <4>3, <4>o DEF v
    <3>3. (l + 1) \div WordSize = r
      BY <1>1, <3>1, <3>2
    <3> QED
      BY <1>2, <2>2, <3>3
  <2>3. CASE q > l + 1
    BY <1>1, <1>9, <2>3, AddRplcAt
  <2> QED
    BY <1>1, <2>1, <2>2, <2>3
<1> HIDE DEF m, new
<1>10. Cover(new, m)
  BY <1>1, <1>2, <1>8, <1>9 DEF Cover
<1> QED
  BY <1>1, <1>2, <1>10 DEF m, new

---------------------------------------------------------------------------
(* The slots (metarap.c:387-405, :589-647).                                *)

\* A slot has room for its coordinates, and its suffix is the longest one of its
\* objects.
SlotFits(c) ==
  /\ IsSeq(c.ent) /\ Roomy(2 * Len(c.ent), c.cap) /\ c.sufx \in Nat
  /\ \A k \in 1..Len(c.ent) :
       /\ c.ent[k].proto \in Term /\ IsAtObject(c.ent[k].proto)
       /\ Sufx(c.ent[k].proto) <= c.sufx
SlotsFit(cs) == IsSeq(cs) /\ \A r \in 1..Len(cs) : SlotFits(cs[r])

LEMMA EmptySlotFits ==
  ASSUME NEW c, c.ent = <<>>, c.cap = 0, c.sufx = 0
  PROVE  SlotFits(c)
<1>1. IsSeq(c.ent) /\ Len(c.ent) = 0
  BY EmptyAny
<1>2. Roomy(0, 0)
  BY DEF Roomy
<1>3. 2 * Len(c.ent) = 0
  BY <1>1
<1> QED
  BY <1>1, <1>2, <1>3 DEF SlotFits

LEMMA WithCordFits ==
  ASSUME NEW c, SlotFits(c), NEW i, NEW j, NEW t \in Term, IsAtObject(t)
  PROVE  LET d == WithCord(c, i, j, t, Sufx(t))
         IN  SlotFits(d) /\ 2 * Len(d.ent) <= d.cap
<1> DEFINE d   == WithCord(c, i, j, t, Sufx(t))
           new == [i |-> i, j |-> j, proto |-> t]
           n   == 2 * Len(c.ent)
<1>1. d.ent = Append(c.ent, new) /\ d.cap = PairRoom(n, c.cap)
      /\ d.sufx = IF Sufx(t) > c.sufx THEN Sufx(t) ELSE c.sufx
  BY DEF WithCord
<1>2. new.proto = t
  OBVIOUS
<1> HIDE DEF d, new
<1>3. /\ IsSeq(c.ent) /\ Roomy(n, c.cap) /\ c.sufx \in Nat
      /\ \A k \in 1..Len(c.ent) :
           /\ c.ent[k].proto \in Term /\ IsAtObject(c.ent[k].proto)
           /\ Sufx(c.ent[k].proto) <= c.sufx
  BY DEF SlotFits
<1>4. /\ IsSeq(d.ent) /\ Len(d.ent) = Len(c.ent) + 1 /\ Len(c.ent) \in Nat
      /\ \A k \in 1..Len(c.ent) : d.ent[k] = c.ent[k]
      /\ d.ent[Len(c.ent) + 1] = new
  BY <1>1, <1>3, AppendAny, SeqShape
<1>5. 2 * Len(d.ent) = n + 2
  BY <1>4
<1> HIDE DEF n
<1>6. Roomy(n + 2, d.cap) /\ n + 2 <= d.cap
  BY <1>1, <1>3, PairRoomEnough
<1>7. Sufx(t) \in Nat
  BY NameShape
<1>8. d.sufx \in Nat /\ Sufx(t) <= d.sufx /\ c.sufx <= d.sufx
  <2> DEFINE a == Sufx(t)
             b == c.sufx
             s == d.sufx
  <2>1. a \in Nat /\ b \in Nat /\ s = IF a > b THEN a ELSE b
    BY <1>1, <1>3, <1>7
  <2> HIDE DEF a, b, s
  <2>2. s \in Nat /\ a <= s /\ b <= s
    BY <2>1
  <2> QED
    BY <2>2 DEF a, b, s
<1>9. ASSUME NEW k \in 1..Len(d.ent)
      PROVE  /\ d.ent[k].proto \in Term /\ IsAtObject(d.ent[k].proto)
             /\ Sufx(d.ent[k].proto) <= d.sufx
  <2>1. CASE k \in 1..Len(c.ent)
    <3> DEFINE u == c.ent[k].proto
    <3>1. d.ent[k].proto = u /\ u \in Term /\ IsAtObject(u) /\ Sufx(u) <= c.sufx
      BY <1>3, <1>4, <2>1
    <3> HIDE DEF u
    <3>2. Sufx(u) \in Nat
      BY <3>1, NameShape
    <3> DEFINE a == Sufx(u)
    <3>3. a \in Nat /\ a <= c.sufx
      BY <3>1, <3>2
    <3> HIDE DEF a
    <3>4. a <= d.sufx
      BY <1>3, <1>8, <3>3
    <3> QED
      BY <3>1, <3>4 DEF a
  <2>2. CASE k = Len(c.ent) + 1
    BY <1>2, <1>4, <1>8, <2>2
  <2>3. k \in 1..Len(c.ent) \/ k = Len(c.ent) + 1
    BY <1>4
  <2> QED
    BY <2>1, <2>2, <2>3
<1>10. Roomy(2 * Len(d.ent), d.cap) /\ 2 * Len(d.ent) <= d.cap
  BY <1>5, <1>6
<1>11. SlotFits(d)
  BY <1>4, <1>8, <1>9, <1>10 DEF SlotFits
<1> QED
  BY <1>10, <1>11 DEF d

LEMMA SlotsMore ==
  ASSUME NEW cs, SlotsFit(cs), NEW r
  PROVE  SlotsFit(Slots(cs, r)) /\ Len(Slots(cs, r)) = Slotted(Len(cs), r)
<1>1. IsSeq(cs) /\ Len(cs) \in Nat /\ Cords0 \in Nat
  BY SeqShape, MetarapAssumption DEF SlotsFit
<1>2. cs = <<>> <=> Len(cs) = 0
  <2>1. PICK S : cs \in Seq(S)
    BY <1>1 DEF IsSeq
  <2> QED
    BY <2>1, EmptySeq
<1>3. CASE r < Len(cs)
  <2>1. Slots(cs, r) = cs /\ Slotted(Len(cs), r) = Len(cs)
    BY <1>3 DEF Slots, Slotted
  <2> QED
    BY <2>1
<1>4. CASE ~(r < Len(cs))
  <2> DEFINE n   == IF cs = <<>> THEN Cords0 ELSE Len(cs)
             new == NewSlots(n)
             l   == Len(cs)
  <2>1. n \in Nat
    BY <1>1
  <2>2. Slots(cs, r) = cs \o new
    BY <1>4 DEF Slots
  <2>3. Slotted(Len(cs), r) = l + n
    BY <1>2, <1>4 DEF Slotted
  <2> HIDE DEF n
  <2>4. /\ IsSeq(new) /\ Len(new) = n
        /\ \A q \in 1..n : new[q].ent = <<>> /\ new[q].cap = 0 /\ new[q].sufx = 0
    BY <2>1, FunctionAny DEF NewSlots
  <2> HIDE DEF new
  <2>5. \A q \in 1..n : SlotFits(new[q])
    BY <2>4, EmptySlotFits
  <2>6. /\ IsSeq(cs \o new) /\ Len(cs \o new) = Len(cs) + Len(new)
        /\ \A q \in 1..Len(cs) + Len(new) :
             (cs \o new)[q] = IF q <= Len(cs) THEN cs[q] ELSE new[q - Len(cs)]
    BY <1>1, <2>4, ConcatAny
  <2>7. ASSUME NEW q \in 1..l + n PROVE SlotFits((cs \o new)[q])
    <3>1. (cs \o new)[q] = IF q <= l THEN cs[q] ELSE new[q - l]
      BY <2>4, <2>6
    <3>2. CASE q <= l
      <4>1. q \in 1..Len(cs)
        BY <1>1, <2>1, <3>2
      <4> QED
        BY <3>1, <3>2, <4>1 DEF SlotsFit
    <3>3. CASE ~(q <= l)
      <4>1. q - l \in 1..n
        BY <1>1, <2>1, <3>3
      <4> QED
        BY <2>5, <3>1, <3>3, <4>1
    <3> QED
      BY <3>2, <3>3
  <2>8. Len(cs \o new) = l + n
    BY <2>4, <2>6
  <2> HIDE DEF l
  <2> QED
    BY <2>2, <2>3, <2>6, <2>7, <2>8 DEF SlotsFit
<1> QED
  BY <1>3, <1>4

LEMMA SlotPut ==
  ASSUME NEW cs, SlotsFit(cs), NEW x, x \in 1..Len(cs), NEW c, SlotFits(c)
  PROVE  SlotsFit([cs EXCEPT ![x] = c]) /\ Len([cs EXCEPT ![x] = c]) = Len(cs)
<1> DEFINE new == [cs EXCEPT ![x] = c]
<1>1. /\ IsSeq(new) /\ Len(new) = Len(cs)
      /\ \A q \in 1..Len(cs) : new[q] = IF q = x THEN c ELSE cs[q]
  <2>1. IsSeq(cs)
    BY DEF SlotsFit
  <2>2. /\ IsSeq([cs EXCEPT ![x] = c])
        /\ Len([cs EXCEPT ![x] = c]) = Len(cs)
    BY <2>1, ExceptAny
  <2>3. \A q \in 1..Len(cs) : [cs EXCEPT ![x] = c][q] = IF q = x THEN c ELSE cs[q]
    BY <2>1, ExceptAny
  <2> QED
    BY <2>2, <2>3
<1> QED
  BY <1>1 DEF SlotsFit

\* flts() with an @ object leaves room in every table, and there is a slot for the
\* name if names are short and have no @.
LEMMA RegisteredFits ==
  ASSUME SlotsFit(cords), NamesFit(rplc, zrplc), zrplc > 0,
         NEW i, NEW j, NEW t \in Term, IsAtObject(t)
  PROVE  LET g == Registered(i, j, t)
         IN  /\ SlotsFit(g.cords) /\ NamesFit(g.rplc, g.zrplc) /\ g.zrplc > 0
             /\ g.far \in BOOLEAN
             /\ Cover(rplc, Len(cords)) /\ Short(Name(t)) /\ At \notin ToSet(Name(t)) =>
                  ~g.far /\ Cover(g.rplc, Len(g.cords))
<1> DEFINE name == Name(t)
           g    == Registered(i, j, t)
           Plain == Cover(rplc, Len(cords)) /\ Short(Name(t)) /\ At \notin ToSet(Name(t))
<1>0. name \in Seq(Nat) /\ rplc \in Seq(Nat) /\ Len(rplc) % WordSize = 0 /\ Len(cords) \in Nat
      /\ WordSize \in Nat \ {0}
  BY NameShape, SeqShape, WordAssumption DEF NamesFit, SlotsFit
<1>1. PICK r, names, room :
        /\ \/ /\ r = Len(rplc) \div WordSize
              /\ names = AddRplc(rplc, name) /\ room = RplcRoom(rplc, zrplc, name)
           \/ r \in FindRplc(rplc, name) /\ names = rplc /\ room = zrplc
        /\ LET cs == Slots(cords, r)
               c  == WithCord(cs[r + 1], i, j, t, Sufx(t))
           IN  g = [rplc  |-> names,
                    zrplc |-> room,
                    cords |-> IF r < Len(cs) THEN [cs EXCEPT ![r + 1] = c] ELSE cs,
                    far   |-> Len(names) > room \/ (r < Len(cs) => 2 * Len(c.ent) > c.cap)]
  <2> DEFINE known == FindRplc(rplc, Name(t))
             fresh == known = {}
             r     == IF fresh THEN Len(rplc) \div WordSize ELSE CHOOSE x \in known : TRUE
             names == IF fresh THEN AddRplc(rplc, Name(t)) ELSE rplc
             room  == IF fresh THEN RplcRoom(rplc, zrplc, Name(t)) ELSE zrplc
  <2>1. \/ /\ r = Len(rplc) \div WordSize
           /\ names = AddRplc(rplc, name) /\ room = RplcRoom(rplc, zrplc, name)
        \/ r \in FindRplc(rplc, name) /\ names = rplc /\ room = zrplc
    <3>1. CASE fresh
      BY <3>1
    <3>2. CASE ~fresh
      <4>1. r \in known
        BY <3>2
      <4> QED
        BY <3>2, <4>1
    <3> QED
      BY <3>1, <3>2
  <2>2. LET cs == Slots(cords, r)
            c  == WithCord(cs[r + 1], i, j, t, Sufx(t))
        IN  g = [rplc  |-> names,
                 zrplc |-> room,
                 cords |-> IF r < Len(cs) THEN [cs EXCEPT ![r + 1] = c] ELSE cs,
                 far   |-> Len(names) > room \/ (r < Len(cs) => 2 * Len(c.ent) > c.cap)]
    BY Zenon DEF Registered
  <2> HIDE DEF known, fresh, r, names, room, g
  <2> QED
    BY <2>1, <2>2
<1> DEFINE cs == Slots(cords, r)
           c  == WithCord(cs[r + 1], i, j, t, Sufx(t))
<1>2. /\ g.rplc = names /\ g.zrplc = room
      /\ g.cords = IF r < Len(cs) THEN [cs EXCEPT ![r + 1] = c] ELSE cs
      /\ g.far = (Len(names) > room \/ (r < Len(cs) => 2 * Len(c.ent) > c.cap))
  BY <1>1
<1> HIDE DEF g, name, c, cs
<1>3. NamesFit(names, room) /\ room > 0
  BY <1>0, <1>1, AddFits
<1>4. ~(Len(names) > room)
  <2>1. Len(names) \in Nat /\ room \in Nat /\ Len(names) <= room
    BY <1>3, LenProperties DEF NamesFit
  <2> QED
    BY <2>1
<1>5. r \in Nat
  <2>1. Len(rplc) \div WordSize \in Nat
    BY <1>0, DivMod, LenProperties
  <2>2. r \in FindRplc(rplc, name) => r \in Nat
    <3> SUFFICES ASSUME r \in FindRplc(rplc, name) PROVE r \in Nat
      OBVIOUS
    <3>1. PICK q \in 1..Len(rplc) : rplc[q] = At /\ r = q \div WordSize
      BY <1>0, FoundBehindAt
    <3>2. q \in Nat
      BY <1>0, LenProperties
    <3> QED
      BY <1>0, <3>1, <3>2, DivMod
  <2> QED
    BY <1>1, <2>1, <2>2
<1>6. SlotsFit(cs) /\ Len(cs) = Slotted(Len(cords), r)
  BY SlotsMore DEF cs
<1>7. r < Len(cs) => /\ r + 1 \in 1..Len(cs) /\ SlotFits(c) /\ ~(2 * Len(c.ent) > c.cap)
  <2> SUFFICES ASSUME r < Len(cs)
               PROVE  r + 1 \in 1..Len(cs) /\ SlotFits(c) /\ ~(2 * Len(c.ent) > c.cap)
    OBVIOUS
  <2> DEFINE x == r + 1
  <2>1. Len(cs) \in Nat
    BY <1>6, SeqShape DEF SlotsFit
  <2>2. x \in 1..Len(cs)
    BY <1>5, <2>1
  <2>3. SlotFits(cs[x])
    BY <1>6, <2>2 DEF SlotsFit
  <2>4. c = WithCord(cs[x], i, j, t, Sufx(t))
    BY DEF c
  <2> HIDE DEF x
  <2>5. SlotFits(c) /\ 2 * Len(c.ent) <= c.cap
    BY <2>3, <2>4, WithCordFits
  <2>6. c.cap \in Nat /\ Len(c.ent) \in Nat
    BY <2>5, SeqShape DEF SlotFits, Roomy
  <2>7. ~(2 * Len(c.ent) > c.cap)
    BY <2>5, <2>6
  <2> QED
    BY <2>2, <2>5, <2>7 DEF x
<1>8. SlotsFit(g.cords) /\ Len(g.cords) = Len(cs)
  <2>1. CASE r < Len(cs)
    <3> DEFINE x == r + 1
    <3>1. x \in 1..Len(cs) /\ SlotFits(c) /\ g.cords = [cs EXCEPT ![x] = c]
      BY <1>2, <1>7, <2>1
    <3> HIDE DEF x
    <3>2. SlotsFit([cs EXCEPT ![x] = c]) /\ Len([cs EXCEPT ![x] = c]) = Len(cs)
      BY <1>6, <3>1, SlotPut
    <3> QED
      BY <3>1, <3>2
  <2>2. CASE ~(r < Len(cs))
    BY <1>2, <1>6, <2>2
  <2> QED
    BY <2>1, <2>2
<1>9. ASSUME Plain PROVE r < Len(cs) /\ Cover(names, Len(cs))
  <2>1. CASE r = Len(rplc) \div WordSize /\ names = AddRplc(rplc, name)
    <3>1. Short(name) /\ At \notin ToSet(name) /\ Cover(rplc, Len(cords))
      BY <1>9 DEF name
    <3> QED
      BY <1>0, <1>6, <2>1, <3>1, CoverAdd
  <2>2. CASE r \in FindRplc(rplc, name) /\ names = rplc
    <3>1. PICK q \in 1..Len(rplc) : rplc[q] = At /\ r = q \div WordSize
      BY <1>0, <2>2, FoundBehindAt
    <3>2. r < Len(cords)
      BY <1>9, <3>1 DEF Cover
    <3>3. Len(cs) = Len(cords)
      BY <1>6, <3>2 DEF Slotted
    <3> QED
      BY <1>9, <2>2, <3>2, <3>3
  <2> QED
    BY <1>1, <2>1, <2>2
<1>10. ASSUME Plain PROVE ~g.far /\ Cover(g.rplc, Len(g.cords))
  BY <1>2, <1>4, <1>7, <1>8, <1>9, <1>10
<1>11. g.far \in BOOLEAN
  BY <1>2
<1> QED
  BY <1>2, <1>3, <1>8, <1>10, <1>11 DEF g

---------------------------------------------------------------------------
(* All of the tables.                                                      *)

\* The names are such as the slots and the search are made for.
NamesFine == \A t \in AtObjects : Short(Name(t)) /\ At \notin ToSet(Name(t))

MainOK ==
  /\ main \in {"start", "filter", "input", "end", "aborted"} /\ rc \in {0, 1} /\ far \in BOOLEAN
  /\ main = "start" => Len(terms) = 0 /\ rplc = <<>>
  /\ main = "filter" => zterms > 0 /\ zrplc > 0

ListsFit ==
  /\ zterms \in Nat /\ Len(terms) <= zterms
  /\ IsSeq(zbeefs) /\ Len(zbeefs) = Len(terms)
  /\ \A i \in 1..Len(terms) : Roomy(2 * Len(beefs[i]), zbeefs[i])

TableInv ==
  /\ CoordInv /\ MainOK /\ ListsFit
  /\ SlotsFit(cords) /\ NamesFit(rplc, zrplc) /\ BufFits(mem)
  /\ IsSeq(told)
  /\ NamesFine => ~far /\ Cover(rplc, Len(cords))

\* What the filter has said stays said.
LEMMA AtObjectsGrow ==
  ASSUME IsSeq(told), NEW e, told' = Append(told, e)
  PROVE  /\ IsSeq(told') /\ (NamesFine' => NamesFine)
         /\ e.kind = "stmt" /\ IsAtObject(e.obj) /\ NamesFine' =>
              Short(Name(e.obj)) /\ At \notin ToSet(Name(e.obj))
<1>1. /\ IsSeq(told') /\ Len(told') = Len(told) + 1 /\ Len(told) \in Nat
      /\ \A n \in 1..Len(told) : told'[n] = told[n]
      /\ told'[Len(told) + 1] = e
  BY AppendAny, SeqShape
<1>2. DOMAIN told = 1..Len(told) /\ DOMAIN told' = 1..Len(told) + 1
  BY <1>1, SeqShape
<1>3. AtObjects \subseteq AtObjects'
  <2> SUFFICES ASSUME NEW n \in DOMAIN told, told[n].kind = "stmt", IsAtObject(told[n].obj)
               PROVE  told[n].obj \in AtObjects'
    BY DEF AtObjects
  <2>1. n \in DOMAIN told' /\ told'[n] = told[n]
    BY <1>1, <1>2
  <2> QED
    BY <2>1 DEF AtObjects
<1>4. e.kind = "stmt" /\ IsAtObject(e.obj) => e.obj \in AtObjects'
  <2> SUFFICES ASSUME e.kind = "stmt", IsAtObject(e.obj) PROVE e.obj \in AtObjects'
    OBVIOUS
  <2> DEFINE n == Len(told) + 1
  <2>1. n \in DOMAIN told' /\ told'[n] = e
    BY <1>1, <1>2
  <2> HIDE DEF n
  <2> QED
    BY <2>1 DEF AtObjects
<1> QED
  BY <1>1, <1>3, <1>4 DEF NamesFine

\* flts(): the terms, the pairs of each, and the slots.
LEMMA FltsFits ==
  ASSUME TableInv, main = "filter", NEW e, e.kind = "stmt",
         e.obj \in Term, Flts(e), ~far, told' = Append(told, e), UNCHANGED <<main, rc, mem>>
  PROVE  TableInv'
<1>c. CoordInv'
  BY FltsStep DEF TableInv
<1>1. PICK i, bs, zs, j, r :
        /\ \/ /\ i = Len(terms) + 1 /\ bs = Append(beefs, <<>>) /\ zs = Append(zbeefs, 0)
              /\ terms' = Append(terms, e.subj)
              /\ zterms' = IF Len(terms) >= zterms THEN 2 * zterms ELSE zterms
           \/ /\ i \in DOMAIN terms /\ bs = beefs /\ zs = zbeefs
              /\ UNCHANGED <<terms, zterms>>
        /\ j = Len(bs[i]) + 1
        /\ beefs' = [bs EXCEPT ![i] = Append(bs[i], <<e.pred, Left(e.obj)>>)]
        /\ zbeefs' = [zs EXCEPT ![i] = PairRoom(2 * (j - 1), zs[i])]
        /\ r = IF IsAtObject(e.obj) THEN Registered(i, j, e.obj)
               ELSE [rplc |-> rplc, zrplc |-> zrplc, cords |-> cords, far |-> FALSE]
        /\ rplc' = r.rplc /\ zrplc' = r.zrplc /\ cords' = r.cords
        /\ far' = (r.far \/ Len(terms') > zterms' \/ 2 * j > zbeefs'[i])
  <2> DEFINE at == {n \in DOMAIN terms : terms[n] = e.subj}
             i  == IF at = {} THEN Len(terms) + 1 ELSE CHOOSE n \in at : TRUE
             bs == IF at = {} THEN Append(beefs, <<>>) ELSE beefs
             zs == IF at = {} THEN Append(zbeefs, 0) ELSE zbeefs
             j  == Len(bs[i]) + 1
             r  == IF IsAtObject(e.obj) THEN Registered(i, j, e.obj)
                   ELSE [rplc |-> rplc, zrplc |-> zrplc, cords |-> cords, far |-> FALSE]
  <2>0. /\ terms'  = IF at = {} THEN Append(terms, e.subj) ELSE terms
        /\ zterms' = IF at = {} /\ Len(terms) >= zterms THEN 2 * zterms ELSE zterms
    BY DEF Flts
  <2>1. /\ beefs' = [bs EXCEPT ![i] = Append(bs[i], <<e.pred, Left(e.obj)>>)]
        /\ zbeefs' = [zs EXCEPT ![i] = PairRoom(2 * (j - 1), zs[i])]
        /\ rplc' = r.rplc /\ zrplc' = r.zrplc /\ cords' = r.cords
        /\ far' = (r.far \/ Len(terms') > zterms' \/ 2 * j > zbeefs'[i])
    BY DEF Flts
  <2>2. CASE at = {}
    <3>1. /\ i = Len(terms) + 1 /\ bs = Append(beefs, <<>>) /\ zs = Append(zbeefs, 0)
          /\ terms' = Append(terms, e.subj)
          /\ zterms' = IF Len(terms) >= zterms THEN 2 * zterms ELSE zterms
      <4>1. i = Len(terms) + 1 /\ bs = Append(beefs, <<>>) /\ zs = Append(zbeefs, 0)
        BY <2>2, Zenon
      <4> HIDE DEF at, i, bs, zs, j, r
      <4>2. /\ terms' = Append(terms, e.subj)
            /\ zterms' = IF Len(terms) >= zterms THEN 2 * zterms ELSE zterms
        BY <2>0, <2>2, Zenon
      <4> QED
        BY <4>1, <4>2, Zenon
    <3>2. /\ rplc' = r.rplc /\ zrplc' = r.zrplc /\ cords' = r.cords
          /\ far' = (r.far \/ Len(terms') > zterms' \/ 2 * j > zbeefs'[i])
          /\ beefs' = [bs EXCEPT ![i] = Append(bs[i], <<e.pred, Left(e.obj)>>)]
          /\ zbeefs' = [zs EXCEPT ![i] = PairRoom(2 * (j - 1), zs[i])]
      BY <2>1
    <3> HIDE DEF at, i, bs, zs
    <3>3. j = Len(bs[i]) + 1
      OBVIOUS
    <3> HIDE DEF j
    <3>4. r = IF IsAtObject(e.obj) THEN Registered(i, j, e.obj)
              ELSE [rplc |-> rplc, zrplc |-> zrplc, cords |-> cords, far |-> FALSE]
      OBVIOUS
    <3> HIDE DEF r
    <3> WITNESS i, bs, zs, j, r
    <3> QED
      BY <3>1, <3>2, <3>3, <3>4
  <2>3. CASE at # {}
    <3>1. /\ i \in DOMAIN terms /\ bs = beefs /\ zs = zbeefs
          /\ UNCHANGED <<terms, zterms>>
      BY <2>0, <2>3
    <3>2. /\ rplc' = r.rplc /\ zrplc' = r.zrplc /\ cords' = r.cords
          /\ far' = (r.far \/ Len(terms') > zterms' \/ 2 * j > zbeefs'[i])
          /\ beefs' = [bs EXCEPT ![i] = Append(bs[i], <<e.pred, Left(e.obj)>>)]
          /\ zbeefs' = [zs EXCEPT ![i] = PairRoom(2 * (j - 1), zs[i])]
      BY <2>1
    <3> HIDE DEF at, i, bs, zs
    <3>3. j = Len(bs[i]) + 1
      OBVIOUS
    <3> HIDE DEF j
    <3>4. r = IF IsAtObject(e.obj) THEN Registered(i, j, e.obj)
              ELSE [rplc |-> rplc, zrplc |-> zrplc, cords |-> cords, far |-> FALSE]
      OBVIOUS
    <3> HIDE DEF r
    <3> WITNESS i, bs, zs, j, r
    <3> QED
      BY <3>1, <3>2, <3>3, <3>4
  <2> QED
    BY <2>2, <2>3
<1>2. /\ IsSeq(terms) /\ Len(terms) \in Nat /\ DOMAIN terms = 1..Len(terms)
      /\ IsSeq(beefs) /\ Len(beefs) = Len(terms)
      /\ \A n \in 1..Len(terms) : IsSeq(beefs[n])
      /\ IsSeq(zbeefs) /\ Len(zbeefs) = Len(terms) /\ zterms \in Nat /\ zterms > 0
      /\ Len(terms) <= zterms
      /\ \A n \in 1..Len(terms) : Roomy(2 * Len(beefs[n]), zbeefs[n])
  BY SeqShape DEF TableInv, CoordInv, TermsDistinct, ArePairs, ListsFit, MainOK
<1>3. /\ Len(terms') \in Nat /\ zterms' \in Nat /\ zterms' > 0 /\ Len(terms') <= zterms'
      /\ i \in 1..Len(terms')
      /\ IsSeq(bs) /\ Len(bs) = Len(terms') /\ IsSeq(zs) /\ Len(zs) = Len(terms')
      /\ \A n \in 1..Len(terms') : IsSeq(bs[n]) /\ Roomy(2 * Len(bs[n]), zs[n])
  <2>1. CASE i \in DOMAIN terms /\ bs = beefs /\ zs = zbeefs /\ UNCHANGED <<terms, zterms>>
    BY <1>2, <2>1
  <2>2. CASE /\ i = Len(terms) + 1 /\ bs = Append(beefs, <<>>) /\ zs = Append(zbeefs, 0)
             /\ terms' = Append(terms, e.subj)
             /\ zterms' = IF Len(terms) >= zterms THEN 2 * zterms ELSE zterms
    <3>1. Len(terms') = Len(terms) + 1
      BY <1>2, <2>2, AppendAny
    <3>2. /\ IsSeq(bs) /\ Len(bs) = Len(terms) + 1 /\ bs[Len(terms) + 1] = <<>>
          /\ \A n \in 1..Len(terms) : bs[n] = beefs[n]
      BY <1>2, <2>2, AppendAny
    <3>3. /\ IsSeq(zs) /\ Len(zs) = Len(terms) + 1 /\ zs[Len(terms) + 1] = 0
          /\ \A n \in 1..Len(terms) : zs[n] = zbeefs[n]
      BY <1>2, <2>2, AppendAny
    <3>4. zterms' \in Nat /\ zterms' > 0 /\ Len(terms) + 1 <= zterms'
      BY <1>2, <2>2
    <3>5. IsSeq(<<>>) /\ Roomy(2 * Len(<<>>), 0)
      <4>1. IsSeq(<<>>) /\ Len(<<>>) = 0
        BY EmptyAny
      <4>2. Roomy(0, 0) /\ 2 * 0 = 0
        BY DEF Roomy
      <4> QED
        BY <4>1, <4>2
    <3>6. ASSUME NEW n \in 1..Len(terms) + 1 PROVE IsSeq(bs[n]) /\ Roomy(2 * Len(bs[n]), zs[n])
      <4>1. CASE n \in 1..Len(terms)
        BY <1>2, <3>2, <3>3, <4>1
      <4>2. CASE n = Len(terms) + 1
        BY <3>2, <3>3, <3>5, <4>2
      <4> QED
        BY <1>2, <4>1, <4>2
    <3>7. i \in 1..Len(terms) + 1 /\ Len(terms) + 1 \in Nat
      BY <1>2, <2>2
    <3> QED
      BY <3>1, <3>2, <3>3, <3>4, <3>6, <3>7
  <2> QED
    BY <1>1, <2>1, <2>2
<1> DEFINE pair == <<e.pred, Left(e.obj)>>
           room == PairRoom(2 * (j - 1), zs[i])
<1>4. /\ Len(bs[i]) \in Nat /\ Len(Append(bs[i], pair)) = j /\ j \in Nat
      /\ Roomy(2 * j, room) /\ 2 * j <= room /\ room \in Nat
  <2>1. Len(bs[i]) \in Nat /\ Len(Append(bs[i], pair)) = Len(bs[i]) + 1
    BY <1>3, AppendAny, SeqShape
  <2>2. Roomy(2 * Len(bs[i]), zs[i])
    BY <1>3
  <2> DEFINE n == 2 * Len(bs[i])
  <2>3. Roomy(n + 2, PairRoom(n, zs[i])) /\ n + 2 <= PairRoom(n, zs[i])
    BY <2>2, PairRoomEnough
  <2>4. n = 2 * (j - 1) /\ n + 2 = 2 * j /\ j \in Nat
    BY <1>1, <2>1
  <2>5. Roomy(2 * j, room) /\ 2 * j <= room
    BY <2>3, <2>4
  <2> HIDE DEF room, pair
  <2>6. room \in Nat
    BY <2>5 DEF Roomy
  <2> QED
    BY <1>1, <2>1, <2>4, <2>5, <2>6
<1>5. \A n \in 1..Len(terms') : beefs'[n] = IF n = i THEN Append(bs[i], pair) ELSE bs[n]
  <2> DEFINE p == Append(bs[i], pair)
  <2> HIDE DEF p
  <2>1. \A n \in 1..Len(bs) : [bs EXCEPT ![i] = p][n] = IF n = i THEN p ELSE bs[n]
    BY <1>3, ExceptAny
  <2>2. beefs' = [bs EXCEPT ![i] = p]
    BY <1>1 DEF p
  <2> QED
    BY <1>3, <2>1, <2>2 DEF p
<1>6. /\ IsSeq(zbeefs') /\ Len(zbeefs') = Len(terms')
      /\ \A n \in 1..Len(terms') : zbeefs'[n] = IF n = i THEN room ELSE zs[n]
  <2> HIDE DEF room
  <2>1. /\ IsSeq([zs EXCEPT ![i] = room]) /\ Len([zs EXCEPT ![i] = room]) = Len(zs)
    BY <1>3, ExceptAny
  <2>2. \A n \in 1..Len(zs) : [zs EXCEPT ![i] = room][n] = IF n = i THEN room ELSE zs[n]
    BY <1>3, ExceptAny
  <2>3. zbeefs' = [zs EXCEPT ![i] = room]
    BY <1>1 DEF room
  <2> QED
    BY <1>3, <2>1, <2>2, <2>3
<1> HIDE DEF pair, room
<1>7. ListsFit'
  <2>1. ASSUME NEW n \in 1..Len(terms') PROVE Roomy(2 * Len(beefs'[n]), zbeefs'[n])
    <3>1. CASE n = i
      BY <1>4, <1>5, <1>6, <3>1
    <3>2. CASE n # i
      BY <1>3, <1>5, <1>6, <3>2
    <3> QED
      BY <3>1, <3>2
  <2> QED
    BY <1>3, <1>6, <2>1 DEF ListsFit
<1>8. ~(Len(terms') > zterms' \/ 2 * j > zbeefs'[i])
  BY <1>3, <1>4, <1>6
<1>9. far' = r.far
  <2>1. r.far \in BOOLEAN
    BY <1>1, RegisteredFits DEF TableInv, MainOK
  <2> QED
    BY <1>1, <1>8, <2>1
<1>10. IsSeq(told') /\ (NamesFine' => NamesFine)
  BY AtObjectsGrow DEF TableInv
<1>11. SlotsFit(r.cords) /\ NamesFit(r.rplc, r.zrplc) /\ r.zrplc > 0 /\ r.far \in BOOLEAN
       /\ (NamesFine' => ~r.far /\ Cover(r.rplc, Len(r.cords)))
  <2>1. SlotsFit(cords) /\ NamesFit(rplc, zrplc) /\ zrplc > 0 /\ (NamesFine => Cover(rplc, Len(cords)))
    BY DEF TableInv, MainOK
  <2>2. CASE ~IsAtObject(e.obj)
    <3>1. r.rplc = rplc /\ r.zrplc = zrplc /\ r.cords = cords /\ r.far = FALSE
      BY <1>1, <2>2
    <3> QED
      BY <1>10, <2>1, <3>1
  <2>3. CASE IsAtObject(e.obj)
    <3>1. r = Registered(i, j, e.obj)
      BY <1>1, <2>3
    <3>2. NamesFine' => Short(Name(e.obj)) /\ At \notin ToSet(Name(e.obj))
      BY <2>3, AtObjectsGrow DEF TableInv
    <3>3. /\ SlotsFit(r.cords) /\ NamesFit(r.rplc, r.zrplc) /\ r.zrplc > 0
          /\ r.far \in BOOLEAN
          /\ Cover(rplc, Len(cords)) /\ Short(Name(e.obj)) /\ At \notin ToSet(Name(e.obj)) =>
               ~r.far /\ Cover(r.rplc, Len(r.cords))
      BY <2>1, <2>3, <3>1, RegisteredFits
    <3> QED
      BY <1>10, <2>1, <3>2, <3>3
  <2> QED
    BY <2>2, <2>3
<1>12. SlotsFit(cords)' /\ NamesFit(rplc, zrplc)' /\ (NamesFine => ~far /\ Cover(rplc, Len(cords)))'
  <2>1. SlotsFit(cords') /\ NamesFit(rplc', zrplc') /\ (NamesFine' => ~far' /\ Cover(rplc', Len(cords')))
    BY <1>1, <1>9, <1>11
  <2> QED
    BY <2>1
<1>13. MainOK'
  BY <1>1, <1>3, <1>9, <1>11 DEF TableInv, MainOK
<1>14. BufFits(mem)'
  BY DEF TableInv, BufFits
<1> QED
  BY <1>c, <1>7, <1>10, <1>12, <1>13, <1>14 DEF TableInv

\* nscp() leaves each list as long as it is.
LEMMA NscpLengths ==
  ASSUME CoordInv, NEW e, Nscp(e)
  PROVE  \A i \in 1..Len(beefs) : Len(beefs'[i]) = Len(beefs[i])
<1>1. /\ DOMAIN beefs = 1..Len(beefs)
      /\ \A i \in 1..Len(beefs) : Len(beefs[i]) \in Nat /\ DOMAIN beefs[i] = 1..Len(beefs[i])
  BY SeqShape DEF CoordInv, ArePairs
<1>2. CASE beefs' = beefs
  BY <1>2
<1>3. CASE beefs' # beefs
  <2>1. \A i \in DOMAIN beefs : beefs'[i] = [j \in DOMAIN beefs[i] |-> beefs'[i][j]]
    BY <1>3 DEF Nscp
  <2> SUFFICES ASSUME NEW i \in 1..Len(beefs) PROVE Len(beefs'[i]) = Len(beefs[i])
    OBVIOUS
  <2> DEFINE n == Len(beefs[i])
             f == beefs'[i]
  <2>2. n \in Nat /\ f = [j \in 1..n |-> f[j]]
    BY <1>1, <2>1
  <2> HIDE DEF n, f
  <2>3. Len(f) = n
    BY <2>2, FunctionAny
  <2> QED
    BY <2>3 DEF n, f
<1> QED
  BY <1>2, <1>3

\* It seeks no slot that is not there if there is one for each @, and what it puts
\* together fits.
LEMMA NscpFar ==
  ASSUME SlotsFit(cords), NamesFit(rplc, zrplc), far \in BOOLEAN,
         NEW e, e.prefix \in Seq(Nat), e.uri \in Seq(Nat), Nscp(e)
  PROVE  far' \in BOOLEAN /\ (Cover(rplc, Len(cords)) /\ ~far => ~far')
<1>0. rplc \in Seq(Nat) /\ Len(cords) \in Nat /\ WordSize \in Nat \ {0} /\ Len(rplc) \in Nat
  BY SeqShape, WordAssumption, LenProperties DEF NamesFit, SlotsFit
<1>1. CASE FindRplc(rplc, e.prefix) = {}
  BY <1>1 DEF Nscp
<1>2. CASE FindRplc(rplc, e.prefix) # {}
  <2> DEFINE known == FindRplc(rplc, e.prefix)
             r     == CHOOSE x \in known : TRUE
  <2>1. r \in FindRplc(rplc, e.prefix)
    BY <1>2
  <2>2. /\ r >= Len(cords) => far' = TRUE
        /\ ~(r >= Len(cords)) =>
             far' = \E k \in DOMAIN cords[r + 1].ent :
                      Len(Resolved(cords[r + 1].ent[k].proto, e).str)
                        > Len(e.uri) + cords[r + 1].sufx
    BY <1>2 DEF Nscp
  <2> HIDE DEF known, r
  <2>3. PICK q \in 1..Len(rplc) : rplc[q] = At /\ r = q \div WordSize
    BY <1>0, <2>1, FoundBehindAt
  <2>4. r \in Nat
    <3>1. q \in Nat
      BY <1>0, <2>3
    <3> QED
      BY <1>0, <2>3, <3>1, DivMod
  <2>5. Cover(rplc, Len(cords)) => r < Len(cords)
    BY <2>3 DEF Cover
  <2>6. ~(r >= Len(cords)) => ~far'
    <3> SUFFICES ASSUME ~(r >= Len(cords)),
                        NEW k \in DOMAIN cords[r + 1].ent
                 PROVE  ~(Len(Resolved(cords[r + 1].ent[k].proto, e).str)
                            > Len(e.uri) + cords[r + 1].sufx)
      BY <2>2
    <3> DEFINE x == r + 1
               c == cords[x]
               t == c.ent[k].proto
    <3>1. x \in 1..Len(cords)
      BY <1>0, <2>4
    <3> HIDE DEF x
    <3>2. SlotFits(c)
      BY <3>1 DEF SlotsFit
    <3>3. DOMAIN c.ent = 1..Len(c.ent)
      BY <3>2, SeqShape DEF SlotFits
    <3>4. k \in DOMAIN c.ent
      BY DEF x
    <3> HIDE DEF c
    <3>5. t \in Term /\ IsAtObject(t) /\ Sufx(t) <= c.sufx /\ c.sufx \in Nat
      BY <3>2, <3>3, <3>4 DEF SlotFits
    <3> HIDE DEF t
    <3>6. Len(Resolved(t, e).str) <= Len(e.uri) + Sufx(t)
      BY <3>5, ResolvedFits
    <3>7. Sufx(t) \in Nat /\ Len(e.uri) \in Nat
      BY <3>5, NameShape, LenProperties
    <3>8. Len(Resolved(t, e).str) \in Nat
      BY <3>5, ResolvedText
    <3> DEFINE a == Len(Resolved(t, e).str)
               b == Len(e.uri)
               s == Sufx(t)
               z == c.sufx
    <3>9. a \in Nat /\ b \in Nat /\ s \in Nat /\ z \in Nat /\ a <= b + s /\ s <= z
      BY <3>5, <3>6, <3>7, <3>8
    <3> HIDE DEF a, b, s, z
    <3>10. ~(a > b + z)
      BY <3>9
    <3> QED
      BY <3>10 DEF a, b, z, t, c, x
  <2>7. far' \in BOOLEAN
    BY <2>2
  <2> QED
    BY <1>0, <2>4, <2>5, <2>6, <2>7
<1> QED
  BY <1>1, <1>2

\* An action that leaves the tables alone.
LEMMA Untouched ==
  ASSUME TableInv, MainOK', UNCHANGED <<terms, zterms, beefs, zbeefs, rplc, zrplc, cords, told>>,
         BufFits(mem'), ~far => ~far'
  PROVE  TableInv'
<1>1. CoordInv'
  BY DEF TableInv, CoordInv, ArePairs, AreSlots, TermsDistinct, CoordsValid
<1>2. ListsFit'
  BY DEF TableInv, ListsFit
<1>3. SlotsFit(cords)' /\ NamesFit(rplc, zrplc)' /\ IsSeq(told)'
  BY DEF TableInv, SlotsFit, NamesFit, IsSeq
<1>4. BufFits(mem)'
  BY DEF BufFits
<1>5. NamesFine' => NamesFine
  BY DEF NamesFine, AtObjects
<1>6. (NamesFine => ~far /\ Cover(rplc, Len(cords)))'
  <2>1. NamesFine' => ~far' /\ Cover(rplc, Len(cords))
    BY <1>5 DEF TableInv
  <2>2. Cover(rplc, Len(cords)) => Cover(rplc, Len(cords))'
    BY DEF Cover
  <2> QED
    BY <2>1, <2>2
<1> QED
  BY <1>1, <1>2, <1>3, <1>4, <1>6 DEF TableInv

LEMMA TableInit == Init => TableInv
<1> SUFFICES ASSUME Init PROVE TableInv
  OBVIOUS
<1>1. CoordInv
  BY CoordInit
<1>2. IsSeq(<<>>) /\ Len(<<>>) = 0 /\ <<>> \in Seq(Nat)
  BY EmptyAny, EmptySeq
<1>3. MainOK
  BY <1>2 DEF Init, MainOK
<1>4. ListsFit
  BY <1>2 DEF Init, ListsFit
<1>5. SlotsFit(cords)
  BY <1>2 DEF Init, SlotsFit
<1>6. NamesFit(rplc, zrplc)
  <2>1. 0 % WordSize = 0
    BY WordAssumption
  <2> QED
    BY <1>2, <2>1 DEF Init, NamesFit
<1>7. BufFits(mem)
  <2>1. Buf0 \in Nat \ {0}
    BY MetarapAssumption
  <2> QED
    BY <1>2, <2>1 DEF Init, BufFits
<1>8. ~far /\ Cover(rplc, Len(cords)) /\ IsSeq(told)
  BY <1>2 DEF Init, Cover
<1> QED
  BY <1>1, <1>3, <1>4, <1>5, <1>6, <1>7, <1>8 DEF TableInv

LEMMA TableStep == TableInv /\ [Next]_vars => TableInv'
<1> SUFFICES ASSUME TableInv, [Next]_vars PROVE TableInv'
  OBVIOUS
<1> USE DEF vars, filterVars, rplcVars
<1>m. MainOK /\ BufFits(mem) /\ far \in BOOLEAN /\ CoordInv
  BY DEF TableInv, MainOK
<1>1. CASE Start
  <2>1. /\ main = "start" /\ UNCHANGED <<rc, terms, beefs, zbeefs, rplc, cords, mem, far, told, heard>>
        /\ \/ main' = "filter" /\ zterms' = Terms0 /\ zrplc' = Rplc0
           \/ main' = "input" /\ UNCHANGED <<zterms, zrplc>>
    BY <1>1 DEF Start
  <2>2. CASE main' = "input" /\ UNCHANGED <<zterms, zrplc>>
    <3>1. MainOK'
      BY <1>m, <2>1, <2>2 DEF MainOK
    <3> QED
      BY <1>m, <2>1, <2>2, <3>1, Untouched
  <2>3. CASE main' = "filter" /\ zterms' = Terms0 /\ zrplc' = Rplc0
    <3>1. Terms0 \in Nat \ {0} /\ Rplc0 \in Nat \ {0} /\ Rplc0 % WordSize = 0
      BY MetarapAssumption
    <3>2. MainOK'
      BY <1>m, <2>1, <2>3, <3>1 DEF MainOK
    <3>3. CoordInv'
      BY <1>m, <2>1 DEF CoordInv, ArePairs, AreSlots, TermsDistinct, CoordsValid
    <3>4. ListsFit'
      BY <1>m, <2>1, <2>3, <3>1 DEF TableInv, ListsFit, MainOK
    <3>5. NamesFit(rplc, zrplc)'
      <4>1. Len(rplc') = 0 /\ rplc' \in Seq(Nat)
        BY <1>m, <2>1, EmptySeq DEF MainOK
      <4> QED
        BY <2>1, <2>3, <3>1, <4>1 DEF TableInv, NamesFit
    <3>6. SlotsFit(cords)' /\ IsSeq(told)' /\ BufFits(mem)'
      BY <2>1 DEF TableInv, SlotsFit, IsSeq, BufFits
    <3>7. (NamesFine => ~far /\ Cover(rplc, Len(cords)))'
      BY <2>1 DEF TableInv, NamesFine, AtObjects, Cover
    <3> QED
      BY <3>2, <3>3, <3>4, <3>5, <3>6, <3>7 DEF TableInv
  <2> QED
    BY <2>1, <2>2, <2>3
<1>2. CASE Fails
  <2>1. rc' = 1 /\ main' \in {"end", "aborted"}
        /\ UNCHANGED <<filterVars, rplcVars, mem, fold, far, told, heard>>
    BY <1>2 DEF Fails, Frees
  <2>2. MainOK'
    BY <1>m, <2>1 DEF MainOK
  <2> QED
    BY <1>m, <2>1, <2>2, Untouched
<1>3. CASE FilterEnds
  <2>1. MainOK'
    BY <1>m, <1>3 DEF MainOK, FilterEnds
  <2> QED
    BY <1>m, <1>3, <2>1, Untouched DEF FilterEnds
<1>4. CASE InputEnds
  <2>1. main' \in {"end", "aborted"}
        /\ UNCHANGED <<rc, filterVars, rplcVars, mem, fold, far, told, heard>>
    BY <1>4 DEF InputEnds, Frees
  <2>2. MainOK'
    BY <1>m, <2>1 DEF MainOK
  <2> QED
    BY <1>m, <2>1, <2>2, Untouched
<1>5. CASE ReadFilter
  <2>1. PICK e \in FilterEvents :
          /\ told' = Append(told, e)
          /\ IF e.kind = "ns" THEN Nmsp(e) ELSE Flts(e)
    BY <1>5 DEF ReadFilter
  <2>2. main = "filter" /\ ~far /\ UNCHANGED <<main, rc, mem>>
    BY <1>5 DEF ReadFilter
  <2>3. CASE e.kind = "ns"
    <3>1. UNCHANGED <<filterVars, rplcVars, far>>
      BY <2>1, <2>3 DEF Nmsp
    <3>2. IsSeq(told') /\ (NamesFine' => NamesFine)
      BY <2>1, AtObjectsGrow DEF TableInv
    <3>3. CoordInv'
      BY <1>m, <3>1 DEF CoordInv, ArePairs, AreSlots, TermsDistinct, CoordsValid
    <3>4. ListsFit' /\ MainOK'
      BY <1>m, <2>2, <3>1 DEF TableInv, ListsFit, MainOK
    <3>5. SlotsFit(cords)' /\ NamesFit(rplc, zrplc)' /\ BufFits(mem)'
      BY <2>2, <3>1 DEF TableInv, SlotsFit, NamesFit, IsSeq, BufFits
    <3>6. (NamesFine => ~far /\ Cover(rplc, Len(cords)))'
      <4>1. NamesFine => ~far /\ Cover(rplc, Len(cords))
        BY DEF TableInv
      <4>2. NamesFine' => ~far' /\ Cover(rplc', Len(cords'))
        BY <3>1, <3>2, <4>1
      <4> QED
        BY <4>2
    <3> QED
      BY <3>2, <3>3, <3>4, <3>5, <3>6 DEF TableInv
  <2>4. CASE e.kind # "ns"
    <3>1. e.kind = "stmt" /\ e.obj \in Term
      BY <2>4, EventAssumption
    <3> QED
      BY <2>1, <2>2, <2>4, <3>1, FltsFits
  <2> QED
    BY <2>3, <2>4
<1>6. CASE ReadInput
  <2>1. PICK e \in InputEvents :
          IF e.kind = "ns" THEN Nscp(e) /\ UNCHANGED <<mem, fold>>
                           ELSE Prnt(e) /\ UNCHANGED beefs
    BY <1>6 DEF ReadInput
  <2>2. ~far /\ main = "input"
        /\ UNCHANGED <<main, rc, terms, zterms, zbeefs, rplcVars, told>>
    BY <1>6 DEF ReadInput
  <2>3. CASE e.kind = "ns"
    <3>1. e.prefix \in Seq(Nat) /\ e.uri \in Seq(Nat)
      BY <2>3, EventAssumption
    <3>2. Nscp(e) /\ UNCHANGED <<mem, fold>>
      BY <2>1, <2>3
    <3>3. far' \in BOOLEAN /\ (Cover(rplc, Len(cords)) /\ ~far => ~far')
      BY <3>1, <3>2, NscpFar DEF TableInv, MainOK
    <3>4. CoordInv'
      BY <1>m, <2>2, <3>2, NscpStep
    <3>5. MainOK'
      BY <1>m, <2>2, <3>3 DEF MainOK
    <3>6. ListsFit'
      <4>1. \A i \in 1..Len(beefs) : Len(beefs'[i]) = Len(beefs[i])
        BY <1>m, <3>2, NscpLengths
      <4>2. Len(beefs) = Len(terms)
        BY <1>m DEF CoordInv, TermsDistinct
      <4> QED
        BY <2>2, <4>1, <4>2 DEF TableInv, ListsFit
    <3>7. SlotsFit(cords)' /\ NamesFit(rplc, zrplc)' /\ BufFits(mem)' /\ IsSeq(told)'
      BY <2>2, <3>2 DEF TableInv, SlotsFit, NamesFit, IsSeq, BufFits
    <3>8. (NamesFine => ~far /\ Cover(rplc, Len(cords)))'
      <4>1. NamesFine => ~far /\ Cover(rplc, Len(cords))
        BY DEF TableInv
      <4>2. NamesFine' => NamesFine
        BY <2>2 DEF NamesFine, AtObjects
      <4>3. NamesFine' => ~far' /\ Cover(rplc', Len(cords'))
        BY <2>2, <3>3, <4>1, <4>2
      <4> QED
        BY <4>3
    <3> QED
      BY <3>4, <3>5, <3>6, <3>7, <3>8 DEF TableInv
  <2>4. CASE e.kind # "ns"
    <3>1. e.subj \in Term /\ e.pred \in Term /\ e.obj \in Term
      BY <2>4, EventAssumption
    <3>2. Prnt(e) /\ UNCHANGED beefs
      BY <2>1, <2>4
    <3>3. BufFits(Written(mem, NTriples(e)))
      <4>1. Len(NTriples(e)) = 7 /\ \A k \in 1..7 : NTriples(e)[k] \in Seq(Nat)
        BY <3>1, NTriplesTexts
      <4> DEFINE ts == NTriples(e)
      <4>2. Len(ts) \in Nat /\ \A k \in 1..Len(ts) : ts[k] \in Seq(Nat)
        BY <4>1
      <4> HIDE DEF ts
      <4>3. BufFits(Written(mem, ts))
        BY <1>m, <4>2, WrittenFits
      <4> QED
        BY <4>3 DEF ts
    <3>4. far' \in BOOLEAN /\ ~far' /\ BufFits(mem')
      <4> DEFINE b == Written(mem, NTriples(e))
      <4>1. \/ UNCHANGED <<mem, far>>
            \/ mem' = [s |-> <<>>, z |-> b.z] /\ far' = (Len(b.s) > b.z)
        BY <3>2 DEF Prnt
      <4> HIDE DEF b
      <4>2. /\ b.s \in Seq(Nat) /\ b.z \in Nat \ {0} /\ Len(b.s) <= b.z /\ Len(b.s) \in Nat
        BY <3>3, LenProperties DEF BufFits, b
      <4>3. BufFits([s |-> <<>>, z |-> b.z])
        BY <4>2, EmptySeq DEF BufFits
      <4>4. ~(Len(b.s) > b.z)
        BY <4>2
      <4> QED
        BY <1>m, <2>2, <4>1, <4>3, <4>4
    <3>5. MainOK'
      BY <1>m, <2>2, <3>4 DEF MainOK
    <3> QED
      BY <2>2, <3>2, <3>4, <3>5, Untouched
  <2> QED
    BY <2>3, <2>4
<1>7. CASE UNCHANGED vars
  <2>1. MainOK'
    BY <1>m, <1>7 DEF MainOK
  <2> QED
    BY <1>m, <1>7, <2>1, Untouched
<1> QED
  BY <1>1, <1>2, <1>3, <1>4, <1>5, <1>6, <1>7 DEF Next

\* The tables of subjects and pairs stay as long as each other, the names stay whole
\* words, and every number in the tables is one, for any filter and any input
\* (metarap.c:366-410, :575-647).
THEOREM TypeCorrect == Spec => []TypeOK
<1>1. TableInv => TypeOK
  <2> SUFFICES ASSUME TableInv PROVE TypeOK
    OBVIOUS
  <2>1. TermsDistinct /\ CoordsValid
    BY DEF TableInv, CoordInv
  <2>2. mem.z \in Nat /\ zrplc \in Nat /\ zterms \in Nat
    BY DEF TableInv, ListsFit, NamesFit, BufFits
  <2>3. Len(zbeefs) = Len(terms) /\ Len(rplc) % WordSize = 0
    BY DEF TableInv, ListsFit, NamesFit
  <2>4. main \in {"start", "filter", "input", "end", "aborted"} /\ rc \in {0, 1} /\ far \in BOOLEAN
    BY DEF TableInv, MainOK
  <2> QED
    BY <2>1, <2>2, <2>3, <2>4 DEF TypeOK
<1> QED
  BY <1>1, TableInit, TableStep, PTL DEF Spec

\* No write and no search leaves a table, however many subjects, pairs and names there
\* are and whatever the input declares, as long as a name is no longer than the slots
\* that are there at first and has no @: the room for pairs is doubled in time although
\* the rule looks at the count alone, names and padding fit, there is a slot for each
\* name, the buffer has room for each statement and a URI for each suffix
\* (metarap.c:258-279, :370-380, :390-405, :464-468, :589-605).
THEOREM TablesSafe == Spec => []TablesInBounds
<1>1. TableInv => TablesInBounds
  BY DEF TableInv, TablesInBounds, NamesFine, NamesPlain
<1> QED
  BY <1>1, TableInit, TableStep, PTL DEF Spec

---------------------------------------------------------------------------
(* The search (metarap.c:172-224): sums are xors, and an xor with a fixed  *)
(* byte tells bytes apart.                                                 *)

\* Four bits say which number it is.
LEMMA HalfBits ==
  ASSUME NEW x \in Half, NEW y \in Half,
         \A k \in {1, 2, 4, 8} : (x \div k) % 2 = (y \div k) % 2
  PROVE  x = y
<1>1. /\ (x \div 1) % 2 = (y \div 1) % 2 /\ (x \div 2) % 2 = (y \div 2) % 2
      /\ (x \div 4) % 2 = (y \div 4) % 2 /\ (x \div 8) % 2 = (y \div 8) % 2
  OBVIOUS
<1>2. x \in 0..15 /\ y \in 0..15
  BY DEF Half
<1> QED
  BY <1>1, <1>2

\* A sum of bits that one of two numbers turns into the same.
LEMMA BitSum ==
  ASSUME NEW a \in Nat, NEW b \in Nat, NEW c \in Nat, (a + b) % 2 = (a + c) % 2
  PROVE  b % 2 = c % 2
  OBVIOUS

\* Four bits make a number, and are its bits.
LEMMA FourBits ==
  ASSUME NEW a \in 0..1, NEW b \in 0..1, NEW c \in 0..1, NEW d \in 0..1,
         NEW e \in 0..1, NEW f \in 0..1, NEW g \in 0..1, NEW h \in 0..1
  PROVE  /\ a + 2 * b + 4 * c + 8 * d \in Half
         /\ a + 2 * b + 4 * c + 8 * d = e + 2 * f + 4 * g + 8 * h => a = e /\ b = f /\ c = g /\ d = h
  BY DEF Half

\* What one half of a byte turns others into tells them apart.
LEMMA HalfXorCancels ==
  ASSUME NEW x \in Half, NEW y \in Half, NEW z \in Half
  PROVE  HalfXor[x][y] \in Half /\ (HalfXor[x][y] = HalfXor[x][z] => y = z)
<1> DEFINE b(w, k) == (x \div k + w \div k) % 2
           sum(w)  == b(w, 1) + 2 * b(w, 2) + 4 * b(w, 4) + 8 * b(w, 8)
<1>1. \A w \in Half : HalfXor[x][w] = sum(w)
  BY DEF HalfXor
<1>2. \A w \in Half : \A k \in {1, 2, 4, 8} : b(w, k) \in 0..1 /\ x \div k \in Nat /\ w \div k \in Nat
  BY DEF Half
<1>3. \A w \in Half : sum(w) \in Half
  <2> TAKE w \in Half
  <2>1. /\ b(w, 1) \in 0..1 /\ b(w, 2) \in 0..1 /\ b(w, 4) \in 0..1 /\ b(w, 8) \in 0..1
    BY <1>2
  <2> HIDE DEF b
  <2> QED
    BY <2>1, FourBits
<1>4. ASSUME sum(y) = sum(z) PROVE \A k \in {1, 2, 4, 8} : b(y, k) = b(z, k)
  <2>1. /\ b(y, 1) \in 0..1 /\ b(y, 2) \in 0..1 /\ b(y, 4) \in 0..1 /\ b(y, 8) \in 0..1
        /\ b(z, 1) \in 0..1 /\ b(z, 2) \in 0..1 /\ b(z, 4) \in 0..1 /\ b(z, 8) \in 0..1
    BY <1>2
  <2> HIDE DEF b
  <2>2. b(y, 1) = b(z, 1) /\ b(y, 2) = b(z, 2) /\ b(y, 4) = b(z, 4) /\ b(y, 8) = b(z, 8)
    BY <1>4, <2>1, FourBits
  <2> QED
    BY <2>2
<1>5. ASSUME sum(y) = sum(z), NEW k \in {1, 2, 4, 8} PROVE (y \div k) % 2 = (z \div k) % 2
  <2>1. b(y, k) = b(z, k)
    BY <1>4, <1>5
  <2>2. x \div k \in Nat /\ y \div k \in Nat /\ z \div k \in Nat
    BY <1>2
  <2> QED
    BY <2>1, <2>2, BitSum
<1> HIDE DEF sum
<1> QED
  BY <1>1, <1>3, <1>5, HalfBits

\* What one byte turns others into tells them apart.
LEMMA XorCancels ==
  ASSUME NEW x \in Word, NEW y \in Word, NEW z \in Word
  PROVE  x ^^ y \in Word /\ (x ^^ y = x ^^ z => y = z)
<1>1. \A w \in Word : w \div 16 \in Half /\ w % 16 \in Half /\ w = 16 * (w \div 16) + (w % 16)
  BY DEF Word, Half
<1> DEFINE h(w) == HalfXor[x \div 16][w \div 16]
           l(w) == HalfXor[x % 16][w % 16]
<1>2. \A w \in Word : x ^^ w = 16 * h(w) + l(w)
  BY Zenon DEF ^^
<1>3. h(y) \in Half /\ l(y) \in Half /\ h(z) \in Half /\ l(z) \in Half
  BY <1>1, HalfXorCancels
<1>4. h(y) = h(z) => y \div 16 = z \div 16
  BY <1>1, HalfXorCancels
<1>5. l(y) = l(z) => y % 16 = z % 16
  BY <1>1, HalfXorCancels
<1> HIDE DEF h, l
<1>6. 16 * h(y) + l(y) \in Word /\ (16 * h(y) + l(y) = 16 * h(z) + l(z) => h(y) = h(z) /\ l(y) = l(z))
  BY <1>3 DEF Half, Word
<1>7. y \div 16 = z \div 16 /\ y % 16 = z % 16 => y = z
  BY <1>1
<1>8. x ^^ y = 16 * h(y) + l(y) /\ x ^^ z = 16 * h(z) + l(z)
  BY <1>2, Zenon
<1> QED
  BY <1>8, <1>4, <1>5, <1>6, <1>7, Zenon

\* The sums of the first n characters of a text, as the definition has them.
IsSumming(f, s, n) == f = [i \in 0..n |-> IF i = 0 THEN 0 ELSE f[i-1] ^^ s[i]]

\* There are such sums.
LEMMA SummingExists ==
  ASSUME NEW s, NEW n \in Nat
  PROVE  \E f : IsSumming(f, s, n)
<1> DEFINE T == {a \in 0..n : \E f : IsSumming(f, s, a)}
<1>1. 0 \in T
  <2> DEFINE f == [i \in 0..0 |-> 0]
  <2>1. IsSumming(f, s, 0)
    BY DEF IsSumming
  <2> HIDE DEF f
  <2> QED
    BY <2>1
<1>2. ASSUME NEW a \in 1..n, a - 1 \in T PROVE a \in T
  <2>1. PICK f : IsSumming(f, s, a - 1)
    BY <1>2
  <2> DEFINE x == f[a-1] ^^ s[a]
             g == [i \in 0..a |-> IF i = a THEN x ELSE f[i]]
  <2>2. ASSUME NEW i \in 0..a PROVE g[i] = IF i = 0 THEN 0 ELSE g[i-1] ^^ s[i]
    <3>1. CASE i = 0
      BY <2>1, <3>1 DEF IsSumming
    <3>2. CASE i \in 1..a-1
      <4>1. g[i] = f[i] /\ g[i-1] = f[i-1]
        BY <3>2
      <4>2. f[i] = f[i-1] ^^ s[i]
        BY <2>1, <3>2 DEF IsSumming
      <4> HIDE DEF g
      <4>3. i # 0
        BY <3>2
      <4> QED
        BY <4>1, <4>2, <4>3, Zenon
    <3>3. CASE i = a
      <4>1. g[i] = x /\ g[i-1] = f[a-1] /\ i # 0
        BY <3>3
      <4> HIDE DEF g
      <4> QED
        BY <3>3, <4>1, Zenon
    <3> QED
      BY <3>1, <3>2, <3>3
  <2>3. g = [i \in 0..a |-> g[i]]
    OBVIOUS
  <2> HIDE DEF g
  <2>4. IsSumming(g, s, a)
    BY <2>2, <2>3 DEF IsSumming
  <2> QED
    BY <2>4
<1> HIDE DEF T
<1>3. \A a \in 0..n : a \in T
  BY <1>1, <1>2, SetInduction
<1>4. n \in T
  BY <1>3
<1> QED
  BY <1>4 DEF T

\* The sum of a text is the last one.
LEMMA XorSumIs ==
  ASSUME NEW s, Len(s) \in Nat
  PROVE  \E f : IsSumming(f, s, Len(s)) /\ XorSum(s) = f[Len(s)]
<1> DEFINE f == CHOOSE f : IsSumming(f, s, Len(s))
<1>1. IsSumming(f, s, Len(s))
  BY SummingExists
<1>2. XorSum(s) = f[Len(s)]
  BY Zenon DEF XorSum, IsSumming
<1> HIDE DEF f
<1> QED
  BY <1>1, <1>2

\* Texts that agree have the same sums as far as they do.
LEMMA SumsAgree ==
  ASSUME NEW s, NEW t, NEW m \in Nat, NEW n \in 0..m, NEW f, NEW g,
         IsSumming(f, s, m), IsSumming(g, t, m),
         \A k \in 1..n : s[k] = t[k] /\ s[k] \in Word
  PROVE  f[n] = g[n] /\ f[n] \in Word
<1> DEFINE T == {k \in 0..n : f[k] = g[k] /\ f[k] \in Word}
<1>1. 0 \in T
  BY DEF IsSumming, Word
<1>2. ASSUME NEW k \in 1..n, k - 1 \in T PROVE k \in T
  <2>1. f[k] = f[k-1] ^^ s[k] /\ g[k] = g[k-1] ^^ t[k]
    BY DEF IsSumming
  <2>2. f[k-1] = g[k-1] /\ f[k-1] \in Word
    BY <1>2
  <2>3. f[k] = g[k]
    BY <2>1, <2>2, Zenon
  <2>4. f[k-1] ^^ s[k] \in Word
    BY <2>2, XorCancels
  <2>5. f[k] \in Word
    BY <2>1, <2>4, Zenon
  <2> QED
    BY <2>3, <2>5
<1> HIDE DEF T
<1>3. \A k \in 0..n : k \in T
  BY <1>1, <1>2, SetInduction
<1>4. n \in T
  BY <1>3
<1> QED
  BY <1>4 DEF T

\* When the sums agree and so do all characters but the last, it does as well.
LEMMA LastOfSum ==
  ASSUME NEW s, NEW t, NEW n \in Nat \ {0}, Len(s) = n, Len(t) = n, XorSum(s) = XorSum(t),
         \A k \in 1..n : s[k] \in Word /\ t[k] \in Word, \A k \in 1..n-1 : s[k] = t[k]
  PROVE  s[n] = t[n]
<1>1. PICK f : IsSumming(f, s, n) /\ XorSum(s) = f[n]
  BY XorSumIs
<1>2. PICK g : IsSumming(g, t, n) /\ XorSum(t) = g[n]
  BY XorSumIs
<1>3. n - 1 \in 0..n /\ n \in 1..n /\ n \in Nat /\ \A k \in 1..n-1 : s[k] = t[k] /\ s[k] \in Word
  OBVIOUS
<1>4. f[n-1] = g[n-1] /\ f[n-1] \in Word
  BY <1>1, <1>2, <1>3, SumsAgree
<1>5. f[n] = f[n-1] ^^ s[n] /\ g[n] = g[n-1] ^^ t[n]
  BY <1>1, <1>2, <1>3 DEF IsSumming
<1>6. f[n-1] ^^ s[n] = f[n-1] ^^ t[n]
  BY <1>1, <1>2, <1>4, <1>5, Zenon
<1> QED
  BY <1>3, <1>4, <1>6, XorCancels

\* The characters of a window.
LEMMA WindowShape ==
  ASSUME NEW s \in Seq(Nat), NEW p \in Nat, NEW n \in Nat, p >= 1, p + n <= Len(s) + 1
  PROVE  /\ Window(s, p, n) \in Seq(Nat) /\ Len(Window(s, p, n)) = n
         /\ \A k \in 1..n : Window(s, p, n)[k] = s[(p - 1) + k]
<1>1. Len(s) \in Nat
  BY LenProperties
<1> DEFINE q == p + n - 1
<1>2. p \in Int /\ q \in Int /\ (q - p) + 1 = n /\ (p <= q <=> n > 0) /\ p..q \subseteq 1..Len(s)
  BY <1>1
<1>e. \A k \in 1..Len(s) : s[k] \in Nat
  BY ElementOfSeq
<1>4. Window(s, p, n) = SubSeq(s, p, q)
  BY DEF Window
<1> HIDE DEF q
<1>3. /\ SubSeq(s, p, q) \in Seq(Nat) /\ Len(SubSeq(s, p, q)) = IF p <= q THEN (q - p) + 1 ELSE 0
      /\ \A k \in 1..(q - p) + 1 : SubSeq(s, p, q)[k] = s[(p + k) - 1]
  <2>1. \A k \in p..q : s[k] \in Nat
    BY <1>2, <1>e
  <2> QED
    BY <1>2, <2>1, SubSeqProperties, SMTT(30)
<1>5. ASSUME NEW k \in 1..n PROVE SubSeq(s, p, q)[k] = s[(p - 1) + k]
  <2>1. (p + k) - 1 = (p - 1) + k
    OBVIOUS
  <2> QED
    BY <1>2, <1>3, <2>1
<1>6. (IF p <= q THEN (q - p) + 1 ELSE 0) = n
  BY <1>2
<1>7. SubSeq(s, p, q) \in Seq(Nat) /\ Len(SubSeq(s, p, q)) = n
  BY <1>3, <1>6, Zenon
<1> QED
  BY <1>4, <1>5, <1>7, Zenon

\* Sums that agree and all characters but the last: that is a hit.
LEMMA SumsFindHits ==
  ASSUME NEW hay \in Seq(Nat), NEW ndl \in Seq(Nat), Bytes(hay), Bytes(ndl), ndl # <<>>,
         NEW p \in Nat, p >= 1, p + Len(ndl) <= Len(hay) + 1
  PROVE  LET n == Len(ndl)
         IN  (/\ XorSum(Window(hay, p, n)) = XorSum(ndl)
              /\ Window(hay, p, n - 1) = SubSeq(ndl, 1, n - 1)) <=> Window(hay, p, n) = ndl
<1> DEFINE n == Len(ndl)
           w == Window(hay, p, n)
           v == Window(hay, p, n - 1)
           u == SubSeq(ndl, 1, n - 1)
<1>1. n \in Nat \ {0} /\ Len(hay) \in Nat /\ Len(ndl) = n /\ p + n <= Len(hay) + 1
  BY LenProperties, EmptySeq
<1>2. u = Window(ndl, 1, n - 1)
  <2>1. (1 + (n - 1)) - 1 = n - 1
    BY <1>1
  <2> QED
    BY <2>1 DEF Window
<1>3. u \in Seq(Nat) /\ Len(u) = n - 1 /\ \A k \in 1..n-1 : u[k] = ndl[k]
  <2>1. n - 1 \in Nat /\ 1 + (n - 1) <= Len(ndl) + 1
    BY <1>1
  <2>2. /\ Window(ndl, 1, n - 1) \in Seq(Nat) /\ Len(Window(ndl, 1, n - 1)) = n - 1
        /\ \A k \in 1..n-1 : Window(ndl, 1, n - 1)[k] = ndl[(1 - 1) + k]
    BY <2>1, WindowShape
  <2>3. \A k \in 1..n-1 : (1 - 1) + k = k
    OBVIOUS
  <2> HIDE DEF u
  <2> QED
    BY <1>2, <2>2, <2>3
<1>4. w \in Seq(Nat) /\ Len(w) = n /\ \A k \in 1..n : w[k] = hay[(p - 1) + k]
  BY <1>1, WindowShape
<1>5. v \in Seq(Nat) /\ Len(v) = n - 1 /\ \A k \in 1..n-1 : v[k] = hay[(p - 1) + k]
  <2>1. n - 1 \in Nat /\ p + (n - 1) <= Len(hay) + 1
    BY <1>1
  <2> QED
    BY <2>1, WindowShape
<1>6. \A k \in 1..n : w[k] \in Word /\ ndl[k] \in Word
  <2> TAKE k \in 1..n
  <2>1. (p - 1) + k \in 1..Len(hay)
    BY <1>1
  <2> HIDE DEF w
  <2> QED
    BY <1>4, <2>1 DEF Bytes
<1> HIDE DEF v, u, w, n
<1>7. \A k \in 1..n-1 : k \in 1..n /\ v[k] = w[k] /\ u[k] = ndl[k]
  <2> TAKE k \in 1..n-1
  <2>1. k \in 1..n
    BY <1>1
  <2> QED
    BY <1>3, <1>4, <1>5, <2>1
<1>8. ASSUME XorSum(w) = XorSum(ndl), v = u PROVE w = ndl
  <2>1. \A k \in 1..n-1 : w[k] = ndl[k]
    BY <1>7, <1>8
  <2>2. w[n] = ndl[n]
    BY <1>1, <1>4, <1>6, <1>8, <2>1, LastOfSum
  <2>3. \A k \in 1..n : k \in 1..n-1 \/ k = n
    BY <1>1
  <2>4. \A k \in 1..n : w[k] = ndl[k]
    BY <2>1, <2>2, <2>3
  <2> QED
    BY <1>1, <1>4, <2>4, SeqEqual
<1>9. ASSUME w = ndl PROVE XorSum(w) = XorSum(ndl) /\ v = u
  <2>1. \A k \in 1..n-1 : v[k] = u[k]
    BY <1>7, <1>9
  <2>2. v = u
    BY <1>3, <1>5, <2>1, SeqEqual
  <2> QED
    BY <1>9, <2>2
<1> QED
  BY <1>8, <1>9 DEF n, u, v, w

\* xmemmem() finds the first place where the needle is, and no other, although it
\* compares sums in place of the last character, and looks for the needle itself only
\* where its first character is for the first time (metarap.c:172-224).
THEOREM SearchIsExact ==
  ASSUME NEW hay \in Seq(Nat), NEW ndl \in Seq(Nat), Bytes(hay), Bytes(ndl), ndl # <<>>
  PROVE  XMemMem(hay, ndl) = Least(Hits(hay, ndl))
<1> DEFINE n == Len(ndl)
           S == {h \in DOMAIN hay : hay[h] = ndl[1]}
           starts == Least(S)
           Agrees(b) == /\ XorSum(Window(hay, b, n)) = XorSum(ndl)
                        /\ Window(hay, b, n - 1) = SubSeq(ndl, 1, n - 1)
           Fit(h) == {b \in h..Len(hay) - n + 1 :
                        IF b = h THEN Window(hay, b, n) = ndl ELSE Agrees(b)}
           Hit == Hits(hay, ndl)
<1>1. XMemMem(hay, ndl) = UNION {Least(Fit(h)) : h \in starts}
  <2>1. XMemMem(hay, ndl) = IF ndl = <<>> THEN {1} ELSE UNION {Least(Fit(h)) : h \in starts}
    BY Zenon DEF XMemMem
  <2> HIDE DEF Fit, starts, n
  <2> QED
    BY <2>1
<1>2. n \in Nat /\ n >= 1 /\ Len(hay) \in Nat /\ DOMAIN hay = 1..Len(hay)
  BY LenProperties, EmptySeq
<1>3. Hit = {b \in 1..Len(hay) - n + 1 : Window(hay, b, n) = ndl}
  BY DEF Hits
<1>4. ASSUME NEW b \in Hit PROVE b \in S /\ b \in 1..Len(hay) - n + 1
  <2>1. b \in Nat /\ b >= 1 /\ b + n <= Len(hay) + 1 /\ Window(hay, b, n) = ndl
    BY <1>2, <1>3
  <2>2. 1 \in 1..n /\ (b - 1) + 1 = b /\ b \in 1..Len(hay)
    BY <1>2, <2>1
  <2>3. Window(hay, b, n)[1] = hay[(b - 1) + 1]
    BY <1>2, <2>1, <2>2, WindowShape
  <2>4. hay[b] = ndl[1]
    BY <2>1, <2>2, <2>3
  <2> QED
    BY <1>2, <1>3, <2>2, <2>4
<1>5. CASE S = {}
  <2>1. starts = {} /\ Hit = {}
    BY <1>4, <1>5 DEF Least
  <2> HIDE DEF Fit, starts, Hit
  <2>2. Least(Hit) = {}
    BY <2>1 DEF Least
  <2> QED
    BY <1>1, <2>1, <2>2 DEF Hit
<1>6. CASE S # {}
  <2> DEFINE h == Min(S)
  <2>1. S \subseteq Nat /\ \A k \in S : k >= 1
    BY <1>2
  <2>2. starts = {h}
    BY <1>6 DEF Least
  <2>3. h \in S /\ \A k \in S : h <= k
    <3> HIDE DEF S
    <3> QED
      BY <1>6, <2>1, MinOf
  <2>4. h \in Nat /\ h >= 1
    BY <2>1, <2>3
  <2> HIDE DEF S, h, starts
  <2>5. ASSUME NEW b \in Nat, b >= 1, b + n <= Len(hay) + 1
        PROVE  Agrees(b) <=> Window(hay, b, n) = ndl
    BY <2>5, SumsFindHits
  <2>6. \A b \in h..Len(hay) - n + 1 : b \in Nat /\ b >= 1 /\ b + n <= Len(hay) + 1
    BY <1>2, <2>4
  <2>7. \A b \in h..Len(hay) - n + 1 : Agrees(b) <=> Window(hay, b, n) = ndl
    <3> HIDE DEF Agrees, n
    <3> QED
      BY <2>5, <2>6
  <2>8. Fit(h) = {b \in h..Len(hay) - n + 1 : Window(hay, b, n) = ndl}
    <3> HIDE DEF Agrees, n
    <3> QED
      BY <2>7
  <2>9. Fit(h) = Hit
    <3> HIDE DEF Fit, Hit, n
    <3>1. ASSUME NEW b \in Hit PROVE b \in Fit(h)
      <4>1. b \in S /\ b \in 1..Len(hay) - n + 1 /\ Window(hay, b, n) = ndl
        BY <1>3, <1>4, <3>1
      <4>2. h <= b
        BY <2>3, <4>1
      <4>3. b \in h..Len(hay) - n + 1
        BY <1>2, <2>4, <4>1, <4>2
      <4> QED
        BY <2>8, <4>1, <4>3
    <3>2. ASSUME NEW b \in Fit(h) PROVE b \in Hit
      <4>1. b \in h..Len(hay) - n + 1 /\ Window(hay, b, n) = ndl
        BY <2>8, <3>2
      <4>2. b \in 1..Len(hay) - n + 1
        BY <1>2, <2>4, <4>1
      <4> QED
        BY <1>3, <4>1, <4>2
    <3> QED
      BY <3>1, <3>2
  <2> HIDE DEF Fit, Hit
  <2>10. UNION {Least(Fit(x)) : x \in starts} = Least(Hit)
    BY <2>2, <2>9
  <2> QED
    BY <1>1, <2>10 DEF Hit
<1> QED
  BY <1>5, <1>6

\* What is found is there.
LEMMA SearchFinds ==
  ASSUME NEW hay \in Seq(Nat), NEW ndl \in Seq(Nat), Bytes(hay), Bytes(ndl), ndl # <<>>,
         NEW p \in XMemMem(hay, ndl)
  PROVE  /\ p \in Nat /\ p >= 1 /\ p + Len(ndl) <= Len(hay) + 1
         /\ \A k \in 1..Len(ndl) : hay[(p - 1) + k] = ndl[k]
<1> DEFINE n == Len(ndl)
           Hit == Hits(hay, ndl)
<1>1. Hit = {b \in 1..Len(hay) - n + 1 : Window(hay, b, n) = ndl}
  BY DEF Hits
<1>2. n \in Nat /\ Len(hay) \in Nat
  BY LenProperties
<1>3. p \in Hit
  <2>1. Hit # {} /\ p = Min(Hit)
    BY SearchIsExact DEF Least
  <2>2. Hit \subseteq Nat
    BY <1>1
  <2> HIDE DEF Hit
  <2> QED
    BY <2>1, <2>2, MinOf
<1>4. p \in Nat /\ p >= 1 /\ p + n <= Len(hay) + 1 /\ Window(hay, p, n) = ndl
  BY <1>1, <1>2, <1>3
<1>5. \A k \in 1..n : Window(hay, p, n)[k] = hay[(p - 1) + k]
  BY <1>2, <1>4, WindowShape
<1> QED
  BY <1>4, <1>5

\* Which slot an @ object goes to, behind the ones that are there.
LEMMA RegisteredSlot ==
  ASSUME AreSlots(cords), NEW i, NEW j, NEW t
  PROVE  \E r :
           LET g == Registered(i, j, t)
           IN  /\ \/ r = Len(rplc) \div WordSize /\ g.rplc = AddRplc(rplc, Name(t))
                  \/ r \in FindRplc(rplc, Name(t)) /\ g.rplc = rplc
               /\ AreSlots(g.cords)
               /\ \A q \in 1..Len(g.cords) : \A k \in 1..Len(g.cords[q].ent) :
                    \/ /\ q \in 1..Len(cords) /\ k \in 1..Len(cords[q].ent)
                       /\ g.cords[q].ent[k] = cords[q].ent[k]
                    \/ q = r + 1 /\ g.cords[q].ent[k] = [i |-> i, j |-> j, proto |-> t]
<1> DEFINE name == Name(t)
           g    == Registered(i, j, t)
<1>1. PICK r, names :
        /\ \/ r = Len(rplc) \div WordSize /\ names = AddRplc(rplc, name)
           \/ r \in FindRplc(rplc, name) /\ names = rplc
        /\ g.rplc = names
        /\ LET cs == Slots(cords, r)
               c  == WithCord(cs[r + 1], i, j, t, Sufx(t))
           IN  g.cords = IF r < Len(cs) THEN [cs EXCEPT ![r + 1] = c] ELSE cs
  <2> DEFINE known == FindRplc(rplc, Name(t))
             fresh == known = {}
             r     == IF fresh THEN Len(rplc) \div WordSize ELSE CHOOSE x \in known : TRUE
             names == IF fresh THEN AddRplc(rplc, Name(t)) ELSE rplc
             room  == IF fresh THEN RplcRoom(rplc, zrplc, Name(t)) ELSE zrplc
  <2>1. \/ r = Len(rplc) \div WordSize /\ names = AddRplc(rplc, name)
        \/ r \in FindRplc(rplc, name) /\ names = rplc
    <3>1. CASE fresh
      BY <3>1
    <3>2. CASE ~fresh
      <4>1. r \in known
        BY <3>2
      <4> QED
        BY <3>2, <4>1
    <3> QED
      BY <3>1, <3>2
  <2>2. LET cs == Slots(cords, r)
            c  == WithCord(cs[r + 1], i, j, t, Sufx(t))
        IN  g = [rplc  |-> names,
                 zrplc |-> room,
                 cords |-> IF r < Len(cs) THEN [cs EXCEPT ![r + 1] = c] ELSE cs,
                 far   |-> Len(names) > room \/ (r < Len(cs) => 2 * Len(c.ent) > c.cap)]
    BY Zenon DEF Registered
  <2> HIDE DEF known, fresh, r, names, room, g
  <2> QED
    BY <2>1, <2>2
<1> DEFINE cs  == Slots(cords, r)
           new == [i |-> i, j |-> j, proto |-> t]
           c   == WithCord(cs[r + 1], i, j, t, Sufx(t))
           s   == g.cords
           Old(q, k, x) == /\ q \in 1..Len(cords) /\ k \in 1..Len(cords[q].ent)
                           /\ x = cords[q].ent[k]
<1>2. /\ AreSlots(cs)
      /\ \A q \in 1..Len(cs) : (q \in 1..Len(cords) /\ cs[q] = cords[q]) \/ cs[q].ent = <<>>
  BY SlotsShape
<1>3. s = IF r < Len(cs) THEN [cs EXCEPT ![r + 1] = c] ELSE cs
  BY <1>1
<1>4. c.ent = Append(cs[r + 1].ent, new)
  BY DEF WithCord
<1> HIDE DEF cs, s, c, new
<1>6. ASSUME NEW q \in 1..Len(cs), NEW k \in 1..Len(cs[q].ent) PROVE Old(q, k, cs[q].ent[k])
  BY <1>2, EmptyAny
<1>7. /\ AreSlots(s)
      /\ \A q \in 1..Len(s) : \A k \in 1..Len(s[q].ent) :
           Old(q, k, s[q].ent[k]) \/ (q = r + 1 /\ s[q].ent[k] = new)
  <2>1. CASE s = cs
    BY <1>2, <1>6, <2>1
  <2>2. CASE s # cs
    <3>1. s = [cs EXCEPT ![r + 1] = c]
      BY <1>3, <2>2
    <3>2. Len(cs) \in Nat /\ DOMAIN cs = 1..Len(cs)
      BY <1>2, SeqShape DEF AreSlots
    <3>3. r + 1 \in 1..Len(cs)
      <4>1. PICK S : cs \in Seq(S)
        BY <1>2 DEF AreSlots, IsSeq
      <4>2. cs \in [1..Len(cs) -> S]
        BY <4>1, LenProperties
      <4>3. r + 1 \in DOMAIN cs
        BY <2>2, <3>1, <4>2
      <4> QED
        BY <3>2, <4>3
    <3>4. IsSeq(cs[r + 1].ent)
      BY <1>2, <3>3 DEF AreSlots
    <3>5. /\ IsSeq(c.ent) /\ Len(c.ent) = Len(cs[r + 1].ent) + 1
          /\ \A k \in 1..Len(cs[r + 1].ent) : c.ent[k] = cs[r + 1].ent[k]
          /\ c.ent[Len(cs[r + 1].ent) + 1] = new
          /\ Len(cs[r + 1].ent) \in Nat
      BY <1>4, <3>4, AppendAny, SeqShape
    <3>6. /\ IsSeq(s) /\ Len(s) = Len(cs)
          /\ \A q \in 1..Len(cs) : s[q] = IF q = r + 1 THEN c ELSE cs[q]
      <4>1. IsSeq(cs)
        BY <1>2 DEF AreSlots
      <4>2. PICK x : x = r + 1
        OBVIOUS
      <4>3. x \in 1..Len(cs) /\ s = Put(cs, x, c)
        BY <3>1, <3>3, <4>2, Zenon DEF Put
      <4> QED
        BY <4>1, <4>2, <4>3, PutIs
    <3>7. AreSlots(s)
      BY <1>2, <3>5, <3>6 DEF AreSlots
    <3>8. ASSUME NEW q \in 1..Len(s), NEW k \in 1..Len(s[q].ent)
          PROVE  Old(q, k, s[q].ent[k]) \/ (q = r + 1 /\ s[q].ent[k] = new)
      <4>1. CASE q # r + 1
        BY <1>6, <3>6, <4>1
      <4>2. CASE q = r + 1 /\ k = Len(cs[r + 1].ent) + 1
        BY <3>5, <3>6, <4>2
      <4>3. CASE q = r + 1 /\ k # Len(cs[r + 1].ent) + 1
        <5>1. k \in 1..Len(cs[r + 1].ent) /\ s[q].ent[k] = cs[q].ent[k]
          BY <3>5, <3>6, <4>3
        <5> QED
          BY <1>6, <3>6, <4>3, <5>1
      <4> QED
        BY <4>1, <4>2, <4>3
    <3> QED
      BY <3>7, <3>8
  <2> QED
    BY <2>1, <2>2
<1> HIDE DEF g
<1>8. g.rplc = AddRplc(rplc, name) \/ g.rplc = rplc
  BY <1>1
<1> QED
  BY <1>1, <1>7 DEF s, g, new

\* What add_rplc() leaves behind the names that were there: an @, the name, and NULs.
LEMMA AddRplcIs ==
  ASSUME NEW rp \in Seq(Nat), NEW name \in Seq(Nat)
  PROVE  LET new == AddRplc(rp, name)
             l   == Len(rp) + 1
         IN  /\ new \in Seq(Nat) /\ l + Len(name) + 1 \in 1..Len(new)
             /\ \A q \in 1..Len(rp) : new[q] = rp[q]
             /\ new[l] = At
             /\ \A k \in 1..Len(name) : new[l + k] = name[k]
             /\ \A q \in l + Len(name) + 1..Len(new) : new[q] = Nul
<1> DEFINE l   == Len(rp) + 1
           n   == Len(rp) + 1 + Len(name)
           p   == Pad(n)
           pad == [k \in 1..p |-> Nul]
           a   == rp \o <<At>>
           b   == a \o name
           c   == b \o pad
<1>1. Len(rp) \in Nat /\ Len(name) \in Nat /\ n \in Nat /\ n = l + Len(name) /\ l \in Nat
  BY LenProperties
<1>0. AddRplc(rp, name) = c
  BY DEF AddRplc
<1> HIDE DEF n
<1>2. p \in Nat /\ p >= 1
  <2>1. p \in Nat /\ p \in 1..WordSize /\ WordSize \in Nat
    BY <1>1, PadAligns, WordAssumption
  <2> HIDE DEF p
  <2> QED
    BY <2>1
<1> HIDE DEF p
<1>3. pad \in Seq(Nat) /\ Len(pad) = p /\ \A k \in 1..p : pad[k] = Nul
  BY <1>2, IsASeq DEF Nul
<1>4. <<At>> \in Seq(Nat) /\ Len(<<At>>) = 1 /\ <<At>>[1] = At
  BY DEF At
<1> HIDE DEF pad
<1>5. /\ a \in Seq(Nat) /\ Len(a) = l
      /\ \A q \in 1..l : a[q] = IF q <= Len(rp) THEN rp[q] ELSE <<At>>[q - Len(rp)]
  BY <1>4, ConcatProperties
<1>6. (\A q \in 1..Len(rp) : a[q] = rp[q]) /\ a[l] = At
  <2>1. l \in 1..l /\ ~(l <= Len(rp)) /\ l - Len(rp) = 1 /\ \A q \in 1..Len(rp) : q \in 1..l /\ q <= Len(rp)
    BY <1>1
  <2> HIDE DEF a, l
  <2> QED
    BY <1>4, <1>5, <2>1
<1> HIDE DEF a
<1>7. /\ b \in Seq(Nat) /\ Len(b) = n
      /\ \A q \in 1..n : b[q] = IF q <= l THEN a[q] ELSE name[q - l]
  <2>1. /\ b \in Seq(Nat) /\ Len(b) = Len(a) + Len(name)
        /\ \A q \in 1..Len(a) + Len(name) : b[q] = IF q <= Len(a) THEN a[q] ELSE name[q - Len(a)]
    <3>1. a \in Seq(Nat) /\ name \in Seq(Nat)
      BY <1>5
    <3> HIDE DEF l
    <3> QED
      BY <3>1, ConcatProperties
  <2> HIDE DEF b, l
  <2>2. Len(a) + Len(name) = n /\ Len(a) = l
    BY <1>1, <1>5
  <2> HIDE DEF n
  <2> QED
    BY <2>1, <2>2, Zenon
<1>8. (\A q \in 1..l : b[q] = a[q]) /\ \A k \in 1..Len(name) : b[l + k] = name[k]
  <2> HIDE DEF b, l
  <2>1. \A q \in 1..l : q \in 1..n /\ q <= l
    BY <1>1
  <2>2. \A k \in 1..Len(name) : l + k \in 1..n /\ ~(l + k <= l) /\ (l + k) - l = k
    BY <1>1
  <2> QED
    BY <1>7, <2>1, <2>2
<1> HIDE DEF b
<1>9. /\ c \in Seq(Nat) /\ Len(c) = n + p
      /\ \A q \in 1..n + p : c[q] = IF q <= n THEN b[q] ELSE pad[q - n]
  <2>1. /\ c \in Seq(Nat) /\ Len(c) = Len(b) + Len(pad)
        /\ \A q \in 1..Len(b) + Len(pad) : c[q] = IF q <= Len(b) THEN b[q] ELSE pad[q - Len(b)]
    BY <1>3, <1>7, ConcatProperties
  <2> HIDE DEF c
  <2> QED
    BY <1>3, <1>7, <2>1
<1> HIDE DEF c, l
<1>10. (\A q \in 1..n : c[q] = b[q]) /\ \A q \in n + 1..n + p : c[q] = Nul
  <2>1. \A q \in 1..n : q \in 1..n + p /\ q <= n
    BY <1>1, <1>2
  <2>2. \A q \in n + 1..n + p : q \in 1..n + p /\ ~(q <= n) /\ q - n \in 1..p
    BY <1>1, <1>2
  <2> QED
    BY <1>3, <1>9, <2>1, <2>2
<1>11. /\ \A q \in 1..Len(rp) : q \in 1..l /\ q \in 1..n
       /\ l \in 1..l /\ l \in 1..n /\ \A k \in 1..Len(name) : l + k \in 1..n
       /\ n + 1 \in 1..n + p
  BY <1>1, <1>2 DEF l
<1>12. \A q \in 1..Len(rp) : c[q] = rp[q]
  BY <1>6, <1>8, <1>10, <1>11
<1>13. c[l] = At /\ \A k \in 1..Len(name) : c[l + k] = name[k]
  BY <1>6, <1>8, <1>10, <1>11
<1>14. n + 1 = l + Len(name) + 1
  BY <1>1
<1> QED
  BY <1>0, <1>9, <1>10, <1>11, <1>12, <1>13, <1>14 DEF l

---------------------------------------------------------------------------
(* The names are at their slots.                                           *)

\* A name is written at a slot, between an @ and a NUL, and has no NUL itself.
WrittenAt(rp, r, name) ==
  /\ name \in Seq(Nat) /\ r \in Nat
  /\ (r * WordSize + 2) + Len(name) \in 1..Len(rp)
  /\ \A k \in 1..Len(name) : rp[(r * WordSize + 1) + k] = name[k] /\ name[k] # Nul
  /\ rp[(r * WordSize + 2) + Len(name)] = Nul

NamesWritten(rp, cs) ==
  \A q \in 1..Len(cs) : \A k \in 1..Len(cs[q].ent) : WrittenAt(rp, q - 1, Name(cs[q].ent[k].proto))

\* An @ is where a slot begins.
AtsAligned(rp) == \A q \in 1..Len(rp) : rp[q] = At => q = (q \div WordSize) * WordSize + 1

\* The last name has its NUL.
Ended(rp) == Len(rp) > 0 => rp[Len(rp)] = Nul

SlotInv ==
  /\ Bytes(rplc) /\ Ended(rplc)
  /\ NamesPlain /\ NamesEnd => AtsAligned(rplc) /\ NamesWritten(rplc, cords)

\* What is behind the names does not matter.
LEMMA StaysWritten ==
  ASSUME NEW rp, NEW new, NEW r, NEW name, WrittenAt(rp, r, name),
         Len(rp) \in Nat, Len(new) \in Nat, Len(rp) <= Len(new),
         \A q \in 1..Len(rp) : new[q] = rp[q]
  PROVE  WrittenAt(new, r, name)
<1> DEFINE b == r * WordSize
           n == Len(name)
<1>1. /\ name \in Seq(Nat) /\ r \in Nat
      /\ (b + 2) + n \in 1..Len(rp)
      /\ \A k \in 1..n : rp[(b + 1) + k] = name[k] /\ name[k] # Nul
      /\ rp[(b + 2) + n] = Nul
  BY DEF WrittenAt
<1>2. b \in Nat /\ n \in Nat
  BY <1>1, LenProperties, WordAssumption
<1> HIDE DEF b, n
<1>3. (b + 2) + n \in 1..Len(new) /\ new[(b + 2) + n] = Nul
  BY <1>1
<1>4. \A k \in 1..n : new[(b + 1) + k] = name[k] /\ name[k] # Nul
  <2> TAKE k \in 1..n
  <2>1. (b + 1) + k \in 1..Len(rp)
    BY <1>1, <1>2
  <2> QED
    BY <1>1, <2>1
<1> QED
  BY <1>1, <1>3, <1>4 DEF WrittenAt, b, n

\* Slots have a size.
LEMMA WordPositive == WordSize \in Nat \ {0} /\ \A r \in Nat : r * WordSize \in Nat
  BY WordAssumption

\* The name that is written at a slot is the one that is read there.
LEMMA NameAtIs ==
  ASSUME NEW r, NEW name, WrittenAt(rplc, r, name), rplc \in Seq(Nat)
  PROVE  NameAt(r) = name
<1> DEFINE b == r * WordSize
           p == b + 2
           n == Len(name)
           Z == {q \in p..Len(rplc) : rplc[q] = Nul}
           e == Min(Z)
<1>1. name \in Seq(Nat) /\ n \in Nat /\ p \in Nat /\ p >= 2 /\ p + n \in 1..Len(rplc) /\ rplc[p + n] = Nul
      /\ Len(rplc) \in Nat /\ p - 1 = b + 1
  <2>1. name \in Seq(Nat) /\ r \in Nat /\ p + n \in 1..Len(rplc) /\ rplc[p + n] = Nul
    BY DEF WrittenAt
  <2>2. b \in Nat /\ n \in Nat /\ Len(rplc) \in Nat
    BY <2>1, WordPositive, LenProperties
  <2> HIDE DEF b, n
  <2> QED
    BY <2>1, <2>2
<1>2. \A k \in 1..n : rplc[(p - 1) + k] = name[k] /\ name[k] # Nul
  <2>1. \A k \in 1..n : rplc[(b + 1) + k] = name[k] /\ name[k] # Nul
    BY DEF WrittenAt
  <2> HIDE DEF b
  <2> QED
    BY <1>1, <2>1
<1>b. \A x : SubSeq(rplc, p, x) = SubSeq(rplc, r * WordSize + 2, x)
  OBVIOUS
<1>3. NameAt(r) = Window(rplc, p, e - p)
  <2>1. NameAt(r) = SubSeq(rplc, p, e - 1)
    BY Zenon DEF NameAt
  <2>2. e \in Z
    <3>1. Z \subseteq Nat /\ p + n \in Z
      BY <1>1
    <3> HIDE DEF Z
    <3> QED
      BY <3>1, MinOf
  <2>3. p + ((e - p) - 1) = e - 1
    BY <1>1, <2>2
  <2> HIDE DEF b, p, Z, e
  <2>4. Window(rplc, p, e - p) = SubSeq(rplc, p, p + ((e - p) - 1))
    BY Zenon DEF Window
  <2> QED
    BY <2>1, <2>3, <2>4, Zenon
<1> HIDE DEF b, p
<1>4. e = p + n
  <2>1. Z \subseteq Nat /\ p + n \in Z
    BY <1>1
  <2>2. e \in Z /\ e <= p + n
    <3> HIDE DEF Z
    <3> QED
      BY <2>1, MinOf
  <2>3. ~(e < p + n)
    <3> SUFFICES ASSUME e < p + n PROVE FALSE
      OBVIOUS
    <3> DEFINE k == (e - p) + 1
    <3>0. e \in Nat /\ e >= p
      BY <1>1, <2>2
    <3>1. k \in 1..n /\ (p - 1) + k = e
      <4> HIDE DEF e, n
      <4> QED
        BY <1>1, <3>0
    <3> QED
      BY <1>2, <2>2, <3>1
  <2>4. e \in Nat
    BY <2>1, <2>2
  <2> HIDE DEF e
  <2> QED
    BY <1>1, <2>2, <2>3, <2>4
<1> HIDE DEF e, n
<1>5. e - p = n
  BY <1>1, <1>4
<1> DEFINE w == Window(rplc, p, n)
<1>6. w \in Seq(Nat) /\ Len(w) = n /\ \A k \in 1..n : w[k] = rplc[(p - 1) + k]
  <2>1. p >= 1 /\ p + n <= Len(rplc) + 1
    BY <1>1
  <2> QED
    BY <1>1, <2>1, WindowShape
<1> HIDE DEF w
<1>7. w = name
  <2>1. \A k \in 1..n : w[k] = name[k]
    BY <1>2, <1>6
  <2> QED
    BY <1>1, <1>6, <2>1, SeqEqual DEF n
<1> QED
  BY <1>3, <1>5, <1>7 DEF w

\* A name that is found is written there.
LEMMA FoundIsWritten ==
  ASSUME NEW rp \in Seq(Nat), NEW name \in Seq(Nat), Bytes(rp), Bytes(name),
         AtsAligned(rp), Ended(rp), \A k \in 1..Len(name) : name[k] # Nul,
         NEW r \in FindRplc(rp, name)
  PROVE  WrittenAt(rp, r, name)
<1> DEFINE n == Len(name)
<1>1. PICK p \in XMemMem(rp, name) :
        p > 1 /\ rp[p - 1] = At /\ rp[p + n] = Nul /\ r = (p - 1) \div WordSize
  BY DEF FindRplc
<1>2. name # <<>>
  <2>1. name = <<>> => XMemMem(rp, name) = {1}
    BY DEF XMemMem
  <2> QED
    BY <1>1, <2>1
<1>3. /\ p \in Nat /\ p + n <= Len(rp) + 1
      /\ \A k \in 1..n : rp[(p - 1) + k] = name[k]
  BY <1>2, SearchFinds
<1>4. n \in Nat /\ n >= 1 /\ Len(rp) \in Nat
  BY <1>2, LenProperties, EmptySeq
<1> HIDE DEF n
<1>5. p + n # Len(rp) + 1
  <2> SUFFICES ASSUME p + n = Len(rp) + 1 PROVE FALSE
    OBVIOUS
  <2>1. n \in 1..n /\ (p - 1) + n = Len(rp) /\ Len(rp) > 0
    BY <1>1, <1>3, <1>4
  <2>2. rp[Len(rp)] = name[n]
    BY <1>3, <2>1
  <2> QED
    BY <2>1, <2>2 DEF Ended, n
<1> DEFINE b == r * WordSize
<1>6. p - 1 = b + 1 /\ r \in Nat
  <2>1. p - 1 \in 1..Len(rp)
    BY <1>1, <1>3, <1>4
  <2>2. p - 1 = ((p - 1) \div WordSize) * WordSize + 1
    BY <1>1, <2>1 DEF AtsAligned
  <2>3. (p - 1) \div WordSize \in Nat
    <3>1. p - 1 \in Nat
      BY <2>1
    <3> QED
      BY <3>1, DivMod, WordPositive
  <2> QED
    BY <1>1, <2>2, <2>3
<1>7. b \in Nat
  BY <1>6, WordPositive
<1> HIDE DEF b
<1>8. (b + 2) + n = p + n /\ (b + 2) + n \in 1..Len(rp) /\ \A k \in 1..n : (b + 1) + k = (p - 1) + k
  <2> DEFINE m == Len(rp)
  <2>1. m \in Nat /\ n \in Nat /\ p \in Nat /\ b \in Nat /\ p + n <= m + 1 /\ p + n # m + 1 /\ p - 1 = b + 1
    BY <1>3, <1>4, <1>5, <1>6, <1>7
  <2> HIDE DEF m
  <2>2. (b + 2) + n = p + n /\ (b + 2) + n \in 1..m
    BY <2>1
  <2>3. \A k \in 1..n : (b + 1) + k = (p - 1) + k
    BY <2>1
  <2> QED
    BY <2>2, <2>3 DEF m
<1> QED
  BY <1>1, <1>3, <1>6, <1>8 DEF WrittenAt, b, n

\* A name that is added is written at the slot behind the others.
LEMMA AddedIsWritten ==
  ASSUME NEW rp \in Seq(Nat), NEW name \in Seq(Nat), Len(rp) % WordSize = 0
  PROVE  LET new == AddRplc(rp, name)
         IN  /\ Bytes(rp) /\ Bytes(name) => Bytes(new)
             /\ Ended(new) /\ Len(rp) <= Len(new) /\ \A q \in 1..Len(rp) : new[q] = rp[q]
             /\ (\A k \in 1..Len(name) : name[k] # Nul) => WrittenAt(new, Len(rp) \div WordSize, name)
             /\ (\A k \in 1..Len(name) : name[k] # At) /\ AtsAligned(rp) => AtsAligned(new)
<1> DEFINE new == AddRplc(rp, name)
           l   == Len(rp) + 1
           n   == Len(name)
           r   == Len(rp) \div WordSize
           b   == r * WordSize
<1>1. /\ new \in Seq(Nat) /\ l + n + 1 \in 1..Len(new)
      /\ \A q \in 1..Len(rp) : new[q] = rp[q]
      /\ new[l] = At
      /\ \A k \in 1..n : new[l + k] = name[k]
      /\ \A q \in l + n + 1..Len(new) : new[q] = Nul
  BY AddRplcIs
<1>2. Len(rp) \in Nat /\ n \in Nat /\ Len(new) \in Nat /\ l \in Nat
  BY <1>1, LenProperties
<1>3. r \in Nat /\ b = Len(rp) /\ b \in Nat
  <2>1. r \in Nat /\ Len(rp) = WordSize * r + (Len(rp) % WordSize) /\ WordSize \in Nat
    BY <1>2, DivMod, WordPositive
  <2> HIDE DEF r
  <2>2. WordSize * r = r * WordSize /\ r * WordSize \in Nat
    BY <2>1
  <2> QED
    BY <1>2, <2>1, <2>2
<1> HIDE DEF new, r
<1>4. ASSUME NEW q \in 1..Len(new)
      PROVE  \/ q \in 1..Len(rp) /\ new[q] = rp[q]
             \/ q = l /\ new[q] = At
             \/ q - l \in 1..n /\ new[q] = name[q - l]
             \/ new[q] = Nul
  <2>1. q \in 1..Len(rp) \/ q = l \/ (q - l \in 1..n /\ l + (q - l) = q) \/ q \in l + n + 1..Len(new)
    BY <1>2
  <2> HIDE DEF l, n
  <2> QED
    BY <1>1, <2>1
<1>5. Bytes(rp) /\ Bytes(name) => Bytes(new)
  <2> SUFFICES ASSUME Bytes(rp), Bytes(name), NEW q \in 1..Len(new) PROVE new[q] \in Word
    BY DEF Bytes
  <2>1. At \in Word /\ Nul \in Word
    BY DEF At, Nul, Word
  <2> HIDE DEF l
  <2> QED
    BY <1>4, <2>1 DEF Bytes
<1>6. Len(rp) <= Len(new) /\ Len(new) > 0 /\ Len(new) \in l + n + 1..Len(new)
  BY <1>1, <1>2
<1>7. Ended(new)
  BY <1>1, <1>6 DEF Ended
<1>8. (\A k \in 1..n : name[k] # Nul) => WrittenAt(new, r, name)
  <2>1. l = b + 1 /\ (b + 2) + n = l + n + 1 /\ l + n + 1 \in l + n + 1..Len(new)
    <3>1. l = b + 1 /\ l + n + 1 \in 1..Len(new)
      BY <1>1, <1>3
    <3> HIDE DEF b, l, n
    <3> QED
      BY <1>2, <1>3, <3>1
  <2> HIDE DEF b, l
  <2>2. (b + 2) + n \in 1..Len(new) /\ new[(b + 2) + n] = Nul /\ \A k \in 1..n : new[(b + 1) + k] = name[k]
    BY <1>1, <2>1
  <2> QED
    BY <1>3, <2>2 DEF WrittenAt, b
<1>9. ASSUME \A k \in 1..n : name[k] # At, AtsAligned(rp) PROVE AtsAligned(new)
  <2> SUFFICES ASSUME NEW q \in 1..Len(new), new[q] = At
               PROVE  q = (q \div WordSize) * WordSize + 1
    BY DEF AtsAligned
  <2>1. (q \in 1..Len(rp) /\ new[q] = rp[q]) \/ q = l
    <3>1. At # Nul
      BY DEF At, Nul
    <3> HIDE DEF l, n
    <3> QED
      BY <1>4, <1>9, <3>1
  <2>2. CASE q \in 1..Len(rp) /\ new[q] = rp[q]
    BY <1>9, <2>2 DEF AtsAligned
  <2>3. CASE q = l
    <3>1. q = WordSize * r + 1 /\ WordSize \in Nat \ {0} /\ 1 \in 0..WordSize-1
      <4>1. b = WordSize * r
        BY <1>3, WordAssumption
      <4> QED
        BY <1>3, <2>3, <4>1, WordAssumption
    <3>2. q \div WordSize = r
      BY <1>3, <3>1, ModAdd
    <3>3. q = b + 1
      BY <1>2, <1>3, <2>3
    <3> QED
      BY <3>2, <3>3
  <2> QED
    BY <2>1, <2>2, <2>3
<1> QED
  BY <1>1, <1>5, <1>6, <1>7, <1>8, <1>9 DEF new, r

\* A name is made of the object's characters.
LEMMA NameBytes ==
  ASSUME NEW t \in Term, IsAtObject(t), Bytes(t.str)
  PROVE  Bytes(Name(t))
<1> DEFINE l    == Len(t.str)
           ends == {p \in 2..Len(t.str) : t.str[p] = Colon} \cup {Len(t.str) + 1}
           m    == Min(ends)
           s    == SubSeq(t.str, 2, m - 1)
<1>1. t.str \in Seq(Nat) /\ l \in Nat /\ l >= 1
  BY NameShape
<1>2. m \in 2..l+1
  <2>1. ends \subseteq Nat /\ ends # {} /\ ends \subseteq 2..l+1
    BY <1>1
  <2> HIDE DEF ends
  <2> QED
    BY <2>1, MinOf
<1>3. Name(t) = s
  BY DEF Name
<1> HIDE DEF ends, m
<1>4. Len(s) = m - 2 /\ \A k \in 1..m - 2 : s[k] = t.str[k + 1]
  <2>1. \A k \in 2..m-1 : t.str[k] \in Nat
    <3>1. \A k \in 2..m-1 : k \in 1..l
      BY <1>1, <1>2
    <3> QED
      BY <1>1, <3>1, ElementOfSeq
  <2>2. 2 \in Int /\ m - 1 \in Int /\ m \in Nat /\ m >= 2
    BY <1>1, <1>2
  <2>3. /\ Len(s) = IF 2 <= m - 1 THEN ((m - 1) - 2) + 1 ELSE 0
        /\ \A k \in 1..((m - 1) - 2) + 1 : s[k] = t.str[(2 + k) - 1]
    BY <2>1, <2>2, SubSeqProperties
  <2> HIDE DEF s
  <2>4. ((m - 1) - 2) + 1 = m - 2 /\ (~(2 <= m - 1) => m - 2 = 0)
    BY <2>2
  <2>5. \A k \in 1..m - 2 : (2 + k) - 1 = k + 1
    BY <2>2
  <2> QED
    BY <2>3, <2>4, <2>5
<1> HIDE DEF s
<1>5. ASSUME NEW k \in 1..Len(s) PROVE s[k] \in Word
  <2>1. k \in 1..m - 2 /\ k + 1 \in 1..l
    BY <1>1, <1>2, <1>4
  <2> QED
    BY <1>4, <2>1 DEF Bytes
<1> QED
  BY <1>3, <1>5 DEF Bytes

\* To register an object keeps the names where they are and writes a new one at its slot.
LEMMA RegisteredNamed ==
  ASSUME AreSlots(cords), NamesFit(rplc, zrplc), Bytes(rplc), Ended(rplc),
         NEW i, NEW j, NEW t \in Term, IsAtObject(t), Bytes(t.str)
  PROVE  LET g == Registered(i, j, t)
         IN  /\ Bytes(g.rplc) /\ Ended(g.rplc)
             /\ /\ AtsAligned(rplc) /\ NamesWritten(rplc, cords)
                /\ At \notin ToSet(Name(t)) /\ Nul \notin ToSet(Name(t))
                => AtsAligned(g.rplc) /\ NamesWritten(g.rplc, g.cords)
<1> DEFINE g    == Registered(i, j, t)
           name == Name(t)
           Fine == /\ AtsAligned(rplc) /\ NamesWritten(rplc, cords)
                   /\ At \notin ToSet(name) /\ Nul \notin ToSet(name)
<1>1. PICK r :
        /\ \/ r = Len(rplc) \div WordSize /\ g.rplc = AddRplc(rplc, name)
           \/ r \in FindRplc(rplc, name) /\ g.rplc = rplc
        /\ AreSlots(g.cords)
        /\ \A q \in 1..Len(g.cords) : \A k \in 1..Len(g.cords[q].ent) :
             \/ /\ q \in 1..Len(cords) /\ k \in 1..Len(cords[q].ent)
                /\ g.cords[q].ent[k] = cords[q].ent[k]
             \/ q = r + 1 /\ g.cords[q].ent[k] = [i |-> i, j |-> j, proto |-> t]
  BY RegisteredSlot
<1>2. name \in Seq(Nat) /\ Bytes(name) /\ rplc \in Seq(Nat) /\ Len(rplc) % WordSize = 0
  BY NameShape, NameBytes DEF NamesFit
<1>3. /\ At \notin ToSet(name) => \A k \in 1..Len(name) : name[k] # At
      /\ Nul \notin ToSet(name) => \A k \in 1..Len(name) : name[k] # Nul
  <2>1. DOMAIN name = 1..Len(name)
    BY <1>2, LenProperties
  <2> HIDE DEF name
  <2> QED
    BY <2>1 DEF ToSet
<1> HIDE DEF g, name
<1>4. /\ Bytes(g.rplc) /\ Ended(g.rplc) /\ g.rplc \in Seq(Nat)
      /\ Len(rplc) <= Len(g.rplc) /\ \A q \in 1..Len(rplc) : g.rplc[q] = rplc[q]
      /\ Fine => AtsAligned(g.rplc) /\ WrittenAt(g.rplc, r, name)
  <2>1. CASE r = Len(rplc) \div WordSize /\ g.rplc = AddRplc(rplc, name)
    <3>1. AddRplc(rplc, name) \in Seq(Nat)
      BY <1>2, AddRplcIs
    <3>2. /\ Bytes(AddRplc(rplc, name))
          /\ Ended(AddRplc(rplc, name)) /\ Len(rplc) <= Len(AddRplc(rplc, name))
          /\ \A q \in 1..Len(rplc) : AddRplc(rplc, name)[q] = rplc[q]
      BY <1>2, AddedIsWritten
    <3>3. Fine => /\ AtsAligned(AddRplc(rplc, name))
                  /\ WrittenAt(AddRplc(rplc, name), Len(rplc) \div WordSize, name)
      BY <1>2, <1>3, AddedIsWritten
    <3> HIDE DEF Fine
    <3> QED
      BY <2>1, <3>1, <3>2, <3>3
  <2>2. CASE r \in FindRplc(rplc, name) /\ g.rplc = rplc
    <3>1. Fine => AtsAligned(rplc) /\ WrittenAt(rplc, r, name)
      BY <1>2, <1>3, <2>2, FoundIsWritten
    <3>2. Len(rplc) <= Len(rplc)
      BY <1>2, LenProperties
    <3> HIDE DEF Fine
    <3> QED
      BY <1>2, <2>2, <3>1, <3>2
  <2> QED
    BY <1>1, <2>1, <2>2
<1>5. ASSUME Fine PROVE NamesWritten(g.rplc, g.cords)
  <2> SUFFICES ASSUME NEW q \in 1..Len(g.cords), NEW k \in 1..Len(g.cords[q].ent)
               PROVE  WrittenAt(g.rplc, q - 1, Name(g.cords[q].ent[k].proto))
    BY DEF NamesWritten
  <2>1. CASE /\ q \in 1..Len(cords) /\ k \in 1..Len(cords[q].ent)
             /\ g.cords[q].ent[k] = cords[q].ent[k]
    <3> DEFINE n == Name(cords[q].ent[k].proto)
               x == q - 1
    <3>1. WrittenAt(rplc, x, n)
      BY <1>5, <2>1 DEF NamesWritten
    <3>2. Len(rplc) \in Nat /\ Len(g.rplc) \in Nat
      BY <1>2, <1>4, LenProperties
    <3> HIDE DEF n, x
    <3>3. WrittenAt(g.rplc, x, n)
      BY <1>4, <3>1, <3>2, StaysWritten
    <3> QED
      BY <2>1, <3>3 DEF n, x
  <2>2. CASE q = r + 1 /\ g.cords[q].ent[k] = [i |-> i, j |-> j, proto |-> t]
    <3>1. g.cords[q].ent[k].proto = t
      BY <2>2
    <3>2. WrittenAt(g.rplc, r, name)
      BY <1>4, <1>5
    <3>3. q - 1 = r
      <4>1. r \in Nat
        BY <3>2 DEF WrittenAt
      <4> QED
        BY <2>2, <4>1
    <3> QED
      BY <3>1, <3>2, <3>3 DEF name
  <2> QED
    BY <1>1, <2>1, <2>2
<1> QED
  BY <1>4, <1>5 DEF g, name

\* The @ objects of the filter, if it goes on.
LEMMA AtObjectsStay ==
  ASSUME IsSeq(told), NEW e, told' = Append(told, e)
  PROVE  /\ AtObjects \subseteq AtObjects'
         /\ e.kind = "stmt" /\ IsAtObject(e.obj) => e.obj \in AtObjects'
<1>1. /\ IsSeq(told') /\ Len(told') = Len(told) + 1 /\ Len(told) \in Nat
      /\ \A n \in 1..Len(told) : told'[n] = told[n]
      /\ told'[Len(told) + 1] = e
  BY AppendAny, SeqShape
<1>2. DOMAIN told = 1..Len(told) /\ DOMAIN told' = 1..Len(told) + 1
  BY <1>1, SeqShape
<1>3. AtObjects \subseteq AtObjects'
  <2> SUFFICES ASSUME NEW n \in DOMAIN told, told[n].kind = "stmt", IsAtObject(told[n].obj)
               PROVE  told[n].obj \in AtObjects'
    BY DEF AtObjects
  <2>1. n \in DOMAIN told' /\ told'[n] = told[n]
    BY <1>1, <1>2
  <2> QED
    BY <2>1 DEF AtObjects
<1>4. ASSUME e.kind = "stmt", IsAtObject(e.obj) PROVE e.obj \in AtObjects'
  <2> DEFINE n == Len(told) + 1
  <2>1. n \in DOMAIN told' /\ told'[n] = e
    BY <1>1, <1>2
  <2> HIDE DEF n
  <2> QED
    BY <1>4, <2>1 DEF AtObjects
<1> QED
  BY <1>3, <1>4

\* What leaves the names, the slots and the filter alone.
LEMMA SlotsUntouched ==
  ASSUME SlotInv, UNCHANGED <<rplc, cords>>, AtObjects \subseteq AtObjects'
  PROVE  SlotInv'
<1>1. NamesPlain' /\ NamesEnd' => NamesPlain /\ NamesEnd
  BY DEF NamesPlain, NamesEnd
<1>2. Bytes(rplc') /\ Ended(rplc') /\ (AtsAligned(rplc) /\ NamesWritten(rplc, cords)
        => AtsAligned(rplc') /\ NamesWritten(rplc', cords'))
  BY DEF SlotInv
<1> QED
  BY <1>1, <1>2 DEF SlotInv

\* No names at first.
LEMMA SlotInit == Init => SlotInv
<1> SUFFICES ASSUME Init PROVE SlotInv
  OBVIOUS
<1>1. Len(rplc) = 0 /\ Len(cords) = 0
  BY EmptyAny DEF Init
<1> QED
  BY <1>1 DEF SlotInv, Bytes, Ended, AtsAligned, NamesWritten

\* Only the filter puts names anywhere.
LEMMA SlotStep == TableInv /\ SlotInv /\ [Next]_vars => SlotInv'
<1> SUFFICES ASSUME TableInv, SlotInv, [Next]_vars PROVE SlotInv'
  OBVIOUS
<1> USE DEF vars, filterVars, rplcVars
<1>1. CASE ReadFilter
  <2>1. PICK e \in FilterEvents :
          /\ told' = Append(told, e)
          /\ IF e.kind = "ns" THEN Nmsp(e) ELSE Flts(e)
    BY <1>1 DEF ReadFilter
  <2>2. IsSeq(told)
    BY DEF TableInv
  <2>3. /\ AtObjects \subseteq AtObjects'
        /\ e.kind = "stmt" /\ IsAtObject(e.obj) => e.obj \in AtObjects'
    BY <2>1, <2>2, AtObjectsStay
  <2>4. CASE e.kind = "ns"
    <3>1. UNCHANGED <<rplc, cords>>
      BY <2>1, <2>4 DEF Nmsp
    <3> QED
      BY <2>3, <3>1, SlotsUntouched
  <2>5. CASE e.kind # "ns"
    <3>1. e.kind = "stmt" /\ e.obj \in Term /\ Bytes(e.obj.str)
      BY <2>5, EventAssumption, ByteAssumption
    <3>2. PICK i, j : LET r == IF IsAtObject(e.obj) THEN Registered(i, j, e.obj)
                               ELSE [rplc |-> rplc, zrplc |-> zrplc, cords |-> cords, far |-> FALSE]
                      IN  rplc' = r.rplc /\ cords' = r.cords
      BY <2>1, <2>5, Zenon DEF Flts
    <3>3. CASE ~IsAtObject(e.obj)
      <4>1. UNCHANGED <<rplc, cords>>
        BY <3>2, <3>3
      <4> QED
        BY <2>3, <4>1, SlotsUntouched
    <3>4. CASE IsAtObject(e.obj)
      <4> DEFINE g == Registered(i, j, e.obj)
                 name == Name(e.obj)
      <4>1. rplc' = g.rplc /\ cords' = g.cords
        BY <3>2, <3>4
      <4>2. AreSlots(cords) /\ NamesFit(rplc, zrplc) /\ Bytes(rplc) /\ Ended(rplc)
        BY DEF TableInv, CoordInv, SlotInv
      <4>3. /\ Bytes(g.rplc) /\ Ended(g.rplc)
            /\ /\ AtsAligned(rplc) /\ NamesWritten(rplc, cords)
               /\ At \notin ToSet(name) /\ Nul \notin ToSet(name)
               => AtsAligned(g.rplc) /\ NamesWritten(g.rplc, g.cords)
        BY <3>1, <3>4, <4>2, RegisteredNamed
      <4>4. NamesPlain' /\ NamesEnd' =>
              /\ NamesPlain /\ NamesEnd
              /\ At \notin ToSet(name) /\ Nul \notin ToSet(name)
        BY <2>3, <3>1, <3>4 DEF NamesPlain, NamesEnd
      <4> HIDE DEF g, name
      <4>5. NamesPlain' /\ NamesEnd' => AtsAligned(g.rplc) /\ NamesWritten(g.rplc, g.cords)
        BY <4>3, <4>4 DEF SlotInv
      <4>6. Bytes(rplc') /\ Ended(rplc')
            /\ (NamesPlain' /\ NamesEnd' => AtsAligned(rplc') /\ NamesWritten(rplc', cords'))
        BY <4>1, <4>3, <4>5
      <4> QED
        BY <4>6 DEF SlotInv
    <3> QED
      BY <3>3, <3>4
  <2> QED
    BY <2>4, <2>5
<1>2. CASE ~ReadFilter
  <2>1. UNCHANGED <<rplc, cords, told>>
    BY <1>2 DEF Next, Start, Fails, FilterEnds, ReadInput, InputEnds
  <2>2. AtObjects \subseteq AtObjects'
    BY <2>1 DEF AtObjects
  <2> QED
    BY <2>1, <2>2, SlotsUntouched
<1> QED
  BY <1>1, <1>2

\* An object waits at the slot of its own name, however many names there are, in
\* whatever order they come and however they are parts of each other, as long as none has
\* an @ or a NUL: what find_rplc() finds, by sums and behind an @, is the whole of a name,
\* and it is the index that add_rplc() gave it (metarap.c:351-384, :625-642).
THEOREM SlotsHaveNames == Spec => []SlotsNamed
<1>1. TableInv /\ SlotInv => SlotsNamed
  <2> SUFFICES ASSUME TableInv, SlotInv, NamesPlain, NamesEnd,
                      NEW r \in DOMAIN cords, NEW k \in DOMAIN cords[r].ent
               PROVE  Name(cords[r].ent[k].proto) = NameAt(r - 1)
    BY DEF SlotsNamed
  <2>1. AreSlots(cords) /\ rplc \in Seq(Nat)
    BY DEF TableInv, CoordInv, NamesFit
  <2>2. r \in 1..Len(cords) /\ k \in 1..Len(cords[r].ent)
    BY <2>1, SeqShape DEF AreSlots
  <2>3. WrittenAt(rplc, r - 1, Name(cords[r].ent[k].proto))
    BY <2>2 DEF SlotInv, NamesWritten
  <2> QED
    BY <2>1, <2>3, NameAtIs
<1> QED
  BY <1>1, TableInit, TableStep, SlotInit, SlotStep, PTL DEF Spec

---------------------------------------------------------------------------
(* Sequences of anything, once more.                                       *)

\* Sequences that have the same length and the same members are the same.
LEMMA SameAny ==
  ASSUME NEW s, NEW t, IsSeq(s), IsSeq(t), Len(s) = Len(t), \A k \in 1..Len(s) : s[k] = t[k]
  PROVE  s = t
<1>1. PICK S : s \in Seq(S)
  BY DEF IsSeq
<1>2. PICK R : t \in Seq(R)
  BY DEF IsSeq
<1>3. s \in Seq(S \cup R) /\ t \in Seq(S \cup R)
  <2>1. s \in [1..Len(s) -> S] /\ t \in [1..Len(t) -> R] /\ Len(s) \in Nat /\ Len(t) \in Nat
    BY <1>1, <1>2, LenProperties
  <2>2. s \in [1..Len(s) -> S \cup R] /\ t \in [1..Len(t) -> S \cup R]
    BY <2>1
  <2> QED
    BY <2>1, <2>2, SeqDef
<1> QED
  BY <1>3, SeqEqual

\* Three sequences may be put together from either end.
LEMMA ConcatAssocAny ==
  ASSUME NEW s, NEW t, NEW u, IsSeq(s), IsSeq(t), IsSeq(u)
  PROVE  (s \o t) \o u = s \o (t \o u) /\ IsSeq(s \o (t \o u))
<1>1. Len(s) \in Nat /\ Len(t) \in Nat /\ Len(u) \in Nat
  BY SeqShape
<1> DEFINE a == s \o t
           b == t \o u
           c == a \o u
           d == s \o b
<1>2. IsSeq(a) /\ Len(a) = Len(s) + Len(t)
      /\ \A k \in 1..Len(s) + Len(t) : a[k] = IF k <= Len(s) THEN s[k] ELSE t[k - Len(s)]
  BY ConcatAny
<1>3. IsSeq(b) /\ Len(b) = Len(t) + Len(u)
      /\ \A k \in 1..Len(t) + Len(u) : b[k] = IF k <= Len(t) THEN t[k] ELSE u[k - Len(t)]
  BY ConcatAny
<1> HIDE DEF a, b
<1>4. IsSeq(c) /\ Len(c) = Len(a) + Len(u)
      /\ \A k \in 1..Len(a) + Len(u) : c[k] = IF k <= Len(a) THEN a[k] ELSE u[k - Len(a)]
  BY <1>2, ConcatAny
<1>5. IsSeq(d) /\ Len(d) = Len(s) + Len(b)
      /\ \A k \in 1..Len(s) + Len(b) : d[k] = IF k <= Len(s) THEN s[k] ELSE b[k - Len(s)]
  BY <1>3, ConcatAny
<1> HIDE DEF c, d
<1> DEFINE x == Len(s)
           y == Len(t)
           z == Len(u)
<1>6. x \in Nat /\ y \in Nat /\ z \in Nat /\ Len(a) = x + y /\ Len(b) = y + z
  BY <1>1, <1>2, <1>3
<1>7. Len(c) = Len(d)
  BY <1>4, <1>5, <1>6
<1>8. ASSUME NEW k \in 1..Len(c) PROVE c[k] = d[k]
  <2>0. k \in 1..(x + y) + z /\ k \in 1..x + (y + z)
    BY <1>4, <1>6
  <2>1. /\ c[k] = IF k <= x + y THEN a[k] ELSE u[k - (x + y)]
        /\ d[k] = IF k <= x THEN s[k] ELSE b[k - x]
    BY <1>4, <1>5, <1>6, <2>0
  <2> HIDE DEF x, y, z
  <2>2. CASE k <= x
    <3>1. k \in 1..x + y /\ k <= x + y
      BY <1>6, <2>0, <2>2
    <3>2. a[k] = s[k]
      BY <1>2, <2>2, <3>1 DEF x, y
    <3> QED
      BY <2>1, <2>2, <3>1, <3>2
  <2>3. CASE ~(k <= x) /\ k <= x + y
    <3>1. k \in 1..x + y /\ k - x \in 1..y + z /\ k - x <= y
      BY <1>6, <2>0, <2>3
    <3>2. a[k] = t[k - x]
      BY <1>2, <2>3, <3>1 DEF x, y
    <3>3. b[k - x] = t[k - x]
      BY <1>3, <3>1 DEF y, z
    <3> QED
      BY <2>1, <2>3, <3>2, <3>3
  <2>4. CASE ~(k <= x + y)
    <3>1. ~(k <= x) /\ k - x \in 1..y + z /\ ~(k - x <= y) /\ (k - x) - y = k - (x + y)
      BY <1>6, <2>0, <2>4
    <3>2. b[k - x] = u[(k - x) - y]
      BY <1>3, <3>1 DEF y, z
    <3> QED
      BY <2>1, <2>4, <3>1, <3>2
  <2> QED
    BY <2>2, <2>3, <2>4
<1>9. c = d
  BY <1>4, <1>5, <1>7, <1>8, SameAny
<1> QED
  BY <1>5, <1>9 DEF c, d, a, b

\* One member alone.
LEMMA OneAny ==
  ASSUME NEW e
  PROVE  IsSeq(<<e>>) /\ Len(<<e>>) = 1 /\ <<e>>[1] = e
<1>1. <<e>> \in Seq({e})
  OBVIOUS
<1> QED
  BY <1>1 DEF IsSeq

\* To append a member is to put it behind.
LEMMA AppendBehind ==
  ASSUME NEW s, NEW e, IsSeq(s)
  PROVE  Append(s, e) = s \o <<e>>
<1> DEFINE a == Append(s, e)
           b == <<e>>
           c == s \o b
<1>1. IsSeq(a) /\ Len(a) = Len(s) + 1 /\ (\A k \in 1..Len(s) : a[k] = s[k]) /\ a[Len(s) + 1] = e
  BY AppendAny
<1>2. IsSeq(b) /\ Len(b) = 1 /\ b[1] = e
  BY OneAny
<1>3. Len(s) \in Nat
  BY SeqShape
<1> HIDE DEF a, b
<1>4. IsSeq(c) /\ Len(c) = Len(s) + 1
      /\ \A k \in 1..Len(s) + 1 : c[k] = IF k <= Len(s) THEN s[k] ELSE b[k - Len(s)]
  BY <1>2, ConcatAny
<1> HIDE DEF c
<1>5. ASSUME NEW k \in 1..Len(s) + 1 PROVE a[k] = c[k]
  <2>1. CASE k <= Len(s)
    BY <1>1, <1>3, <1>4, <2>1
  <2>2. CASE ~(k <= Len(s))
    <3>1. k = Len(s) + 1 /\ k - Len(s) = 1
      BY <1>3, <2>2
    <3> QED
      BY <1>1, <1>2, <1>4, <2>2, <3>1
  <2> QED
    BY <2>1, <2>2
<1>6. a = c
  BY <1>1, <1>4, <1>5, SameAny
<1> QED
  BY <1>6 DEF a, b, c

\* Nothing put behind.
LEMMA ConcatNone ==
  ASSUME NEW s, IsSeq(s)
  PROVE  s \o <<>> = s /\ <<>> \o s = s
<1>1. PICK S : s \in Seq(S)
  BY DEF IsSeq
<1> QED
  BY <1>1, ConcatEmptySeq

---------------------------------------------------------------------------
(* The members that are kept.                                              *)

\* What is kept of the first members of a sequence, as the definition has it.
IsKeeping(f, s, I, n) ==
  f = [k \in 0..n |-> IF k = 0 THEN <<>> ELSE IF k \in I THEN Append(f[k-1], s[k]) ELSE f[k-1]]

LEMMA KeepingStep ==
  ASSUME NEW f, NEW s, NEW I, NEW n \in Nat, IsKeeping(f, s, I, n)
  PROVE  /\ f[0] = <<>>
         /\ \A k \in 1..n : f[k] = IF k \in I THEN Append(f[k-1], s[k]) ELSE f[k-1]
<1>1. f[0] = <<>>
  BY DEF IsKeeping
<1>2. ASSUME NEW k \in 1..n PROVE f[k] = IF k \in I THEN Append(f[k-1], s[k]) ELSE f[k-1]
  <2>1. k \in 0..n /\ k # 0
    OBVIOUS
  <2>2. f[k] = IF k = 0 THEN <<>> ELSE IF k \in I THEN Append(f[k-1], s[k]) ELSE f[k-1]
    BY <2>1, Zenon DEF IsKeeping
  <2> QED
    BY <2>1, <2>2, Zenon
<1> QED
  BY <1>1, <1>2

LEMMA KeepingExists ==
  ASSUME NEW s, NEW I, NEW n \in Nat
  PROVE  \E f : IsKeeping(f, s, I, n)
<1> DEFINE T == {a \in 0..n : \E f : IsKeeping(f, s, I, a)}
<1>1. 0 \in T
  <2> DEFINE f == [k \in 0..0 |-> <<>>]
  <2>1. IsKeeping(f, s, I, 0)
    BY DEF IsKeeping
  <2> HIDE DEF f
  <2> QED
    BY <2>1
<1>2. ASSUME NEW a \in 1..n, a - 1 \in T PROVE a \in T
  <2>1. PICK f : IsKeeping(f, s, I, a - 1)
    BY <1>2
  <2> DEFINE x == IF a \in I THEN Append(f[a-1], s[a]) ELSE f[a-1]
             g == [k \in 0..a |-> IF k = a THEN x ELSE f[k]]
  <2>2. ASSUME NEW k \in 0..a
        PROVE  g[k] = IF k = 0 THEN <<>> ELSE IF k \in I THEN Append(g[k-1], s[k]) ELSE g[k-1]
    <3>1. CASE k = 0
      BY <2>1, <3>1 DEF IsKeeping
    <3>2. CASE k \in 1..a-1
      <4>1. g[k] = f[k] /\ g[k-1] = f[k-1]
        BY <3>2
      <4>2. f[k] = IF k \in I THEN Append(f[k-1], s[k]) ELSE f[k-1]
        BY <2>1, <3>2, KeepingStep
      <4> HIDE DEF g
      <4>3. k # 0
        BY <3>2
      <4> QED
        BY <4>1, <4>2, <4>3, Zenon
    <3>3. CASE k = a
      <4>1. g[k] = x /\ g[k-1] = f[a-1] /\ k # 0
        BY <3>3
      <4> HIDE DEF g
      <4> QED
        BY <3>3, <4>1, Zenon
    <3> QED
      BY <3>1, <3>2, <3>3
  <2>3. g = [k \in 0..a |-> g[k]]
    OBVIOUS
  <2> HIDE DEF g
  <2>4. IsKeeping(g, s, I, a)
    BY <2>2, <2>3 DEF IsKeeping
  <2> QED
    BY <2>4
<1> HIDE DEF T
<1>3. \A a \in 0..n : a \in T
  BY <1>1, <1>2, SetInduction
<1>4. n \in T
  BY <1>3
<1> QED
  BY <1>4 DEF T

LEMMA KeptIs ==
  ASSUME NEW s, NEW I, Len(s) \in Nat
  PROVE  \E f : IsKeeping(f, s, I, Len(s)) /\ Kept(s, I) = f[Len(s)]
<1> DEFINE f == CHOOSE f : IsKeeping(f, s, I, Len(s))
<1>1. IsKeeping(f, s, I, Len(s))
  BY KeepingExists
<1>2. Kept(s, I) = f[Len(s)]
  BY Zenon DEF Kept, IsKeeping
<1> HIDE DEF f
<1> QED
  BY <1>1, <1>2

\* Two lists of which the same places are kept: what is left of one and of the other has
\* come from the same places.
Alike(a, b, s, t, I, n) ==
  /\ IsSeq(a) /\ IsSeq(b) /\ Len(a) = Len(b)
  /\ \A x \in 1..Len(a) : \E y \in 1..n : y \in I /\ a[x] = s[y] /\ b[x] = t[y]

LEMMA KeepingsAlike ==
  ASSUME NEW s, NEW t, NEW I, NEW J, NEW n \in Nat, NEW m \in Nat, NEW l \in Nat, n <= m, n <= l,
         NEW f, NEW g, IsKeeping(f, s, I, m), IsKeeping(g, t, J, l),
         \A k \in 1..n : k \in I <=> k \in J
  PROVE  Alike(f[n], g[n], s, t, I, n)
<1> DEFINE T == {k \in 0..n : Alike(f[k], g[k], s, t, I, k)}
<1>1. 0 \in T
  <2>1. f[0] = <<>> /\ g[0] = <<>>
    BY DEF IsKeeping
  <2> QED
    BY <2>1, EmptyAny DEF Alike
<1>2. ASSUME NEW k \in 1..n, k - 1 \in T PROVE k \in T
  <2>1. /\ f[k] = IF k \in I THEN Append(f[k-1], s[k]) ELSE f[k-1]
        /\ g[k] = IF k \in J THEN Append(g[k-1], t[k]) ELSE g[k-1]
    <3>1. k \in 1..m /\ k \in 1..l
      OBVIOUS
    <3> QED
      BY <3>1, KeepingStep
  <2>2. Alike(f[k-1], g[k-1], s, t, I, k - 1) /\ k - 1 \in Nat /\ \A y \in 1..k-1 : y \in 1..k
    BY <1>2
  <2>3. CASE k \in I
    <3> DEFINE a == f[k-1]
               b == g[k-1]
               c == Append(a, s[k])
               d == Append(b, t[k])
    <3>1. f[k] = c /\ g[k] = d
      BY <2>1, <2>3
    <3>2. IsSeq(a) /\ IsSeq(b) /\ Len(a) = Len(b) /\ Len(a) \in Nat
          /\ \A x \in 1..Len(a) : \E y \in 1..k-1 : y \in I /\ a[x] = s[y] /\ b[x] = t[y]
      BY <2>2, SeqShape DEF Alike
    <3> HIDE DEF a, b
    <3>3. /\ IsSeq(c) /\ Len(c) = Len(a) + 1
          /\ (\A x \in 1..Len(a) : c[x] = a[x]) /\ c[Len(a) + 1] = s[k]
      BY <3>2, AppendAny
    <3>4. /\ IsSeq(d) /\ Len(d) = Len(a) + 1
          /\ (\A x \in 1..Len(a) : d[x] = b[x]) /\ d[Len(a) + 1] = t[k]
      BY <3>2, AppendAny
    <3> HIDE DEF c, d
    <3>5. ASSUME NEW x \in 1..Len(c) PROVE \E y \in 1..k : y \in I /\ c[x] = s[y] /\ d[x] = t[y]
      <4>1. CASE x = Len(a) + 1
        <5>1. k \in 1..k /\ k \in I /\ c[x] = s[k] /\ d[x] = t[k]
          BY <2>3, <3>3, <3>4, <4>1
        <5> QED
          BY <5>1
      <4>2. CASE x \in 1..Len(a)
        <5>1. PICK y \in 1..k-1 : y \in I /\ a[x] = s[y] /\ b[x] = t[y]
          BY <3>2, <4>2
        <5> QED
          BY <3>3, <3>4, <4>2, <5>1
      <4> QED
        BY <3>2, <3>3, <4>1, <4>2
    <3>6. Alike(c, d, s, t, I, k)
      BY <3>3, <3>4, <3>5 DEF Alike
    <3> QED
      BY <3>1, <3>6
  <2>4. CASE k \notin I
    <3>1. f[k] = f[k-1] /\ g[k] = g[k-1]
      BY <2>1, <2>4
    <3>2. Alike(f[k-1], g[k-1], s, t, I, k)
      BY <2>2 DEF Alike
    <3>3. Alike(f[k], g[k], s, t, I, k)
      BY <3>1, <3>2, Zenon
    <3> QED
      BY <3>3
  <2> QED
    BY <2>3, <2>4
<1> HIDE DEF T
<1>3. \A k \in 0..n : k \in T
  BY <1>1, <1>2, SetInduction
<1>4. n \in T
  BY <1>3
<1> QED
  BY <1>4 DEF T

LEMMA KeptAlike ==
  ASSUME NEW s, NEW t, NEW I, NEW J, Len(s) \in Nat, Len(t) = Len(s),
         \A k \in 1..Len(s) : k \in I <=> k \in J
  PROVE  Alike(Kept(s, I), Kept(t, J), s, t, I, Len(s))
<1>1. PICK f : IsKeeping(f, s, I, Len(s)) /\ Kept(s, I) = f[Len(s)]
  BY KeptIs
<1>2. PICK g : IsKeeping(g, t, J, Len(s)) /\ Kept(t, J) = g[Len(s)]
  BY KeptIs
<1>3. Alike(f[Len(s)], g[Len(s)], s, t, I, Len(s))
  <2> DEFINE n == Len(s)
  <2>1. /\ n \in Nat /\ n <= n /\ IsKeeping(f, s, I, n) /\ IsKeeping(g, t, J, n)
        /\ \A k \in 1..n : k \in I <=> k \in J
    BY <1>1, <1>2
  <2> HIDE DEF n
  <2>2. Alike(f[n], g[n], s, t, I, n)
    BY <2>1, KeepingsAlike
  <2> QED
    BY <2>2 DEF n
<1> QED
  BY <1>1, <1>2, <1>3, Zenon

\* What is kept of a list that gets one more member.
LEMMA KeptAppend ==
  ASSUME NEW s, IsSeq(s), NEW e, NEW I, NEW J, \A k \in 1..Len(s) : k \in I <=> k \in J
  PROVE  /\ IsSeq(Kept(s, I))
         /\ Kept(Append(s, e), J) =
              IF Len(s) + 1 \in J THEN Append(Kept(s, I), e) ELSE Kept(s, I)
<1> DEFINE n == Len(s)
           a == Append(s, e)
<1>1. n \in Nat
  BY SeqShape
<1>2. IsSeq(a) /\ Len(a) = n + 1 /\ (\A k \in 1..n : a[k] = s[k]) /\ a[n + 1] = e
  BY AppendAny
<1> HIDE DEF n, a
<1>3. PICK f : IsKeeping(f, s, I, n) /\ Kept(s, I) = f[n]
  BY <1>1, KeptIs DEF n
<1>4. PICK g : IsKeeping(g, a, J, n + 1) /\ Kept(a, J) = g[n + 1]
  <2>1. Len(a) \in Nat
    BY <1>1, <1>2
  <2> QED
    BY <1>2, <2>1, KeptIs
<1>5. Alike(f[n], g[n], s, a, I, n)
  <2>1. n + 1 \in Nat /\ n <= n + 1 /\ n <= n /\ \A k \in 1..n : k \in I <=> k \in J
    BY <1>1 DEF n
  <2> QED
    BY <1>1, <1>3, <1>4, <2>1, KeepingsAlike
<1>6. f[n] = g[n] /\ IsSeq(f[n])
  <2>1. IsSeq(f[n]) /\ IsSeq(g[n]) /\ Len(f[n]) = Len(g[n])
    BY <1>5 DEF Alike
  <2>2. ASSUME NEW x \in 1..Len(f[n]) PROVE f[n][x] = g[n][x]
    <3>1. PICK y \in 1..n : f[n][x] = s[y] /\ g[n][x] = a[y]
      BY <1>5 DEF Alike
    <3> QED
      BY <1>2, <3>1
  <2> QED
    BY <2>1, <2>2, SameAny
<1>7. g[n + 1] = IF n + 1 \in J THEN Append(g[n], a[n + 1]) ELSE g[n]
  <2>1. n + 1 \in 0..n+1 /\ n + 1 # 0 /\ (n + 1) - 1 = n
    BY <1>1
  <2>2. n + 1 \in Nat /\ n + 1 \in 1..n+1
    BY <1>1
  <2>3. g[n + 1] = IF n + 1 \in J THEN Append(g[(n + 1) - 1], a[n + 1]) ELSE g[(n + 1) - 1]
    BY <1>4, <2>2, KeepingStep
  <2> QED
    BY <2>1, <2>3, Zenon
<1>8. Kept(a, J) = IF n + 1 \in J THEN Append(Kept(s, I), e) ELSE Kept(s, I)
  BY <1>2, <1>3, <1>4, <1>6, <1>7, Zenon
<1> QED
  BY <1>3, <1>6, <1>8 DEF a, n

\* Nothing is kept of nothing.
LEMMA KeptNone ==
  ASSUME NEW I
  PROVE  Kept(<<>>, I) = <<>>
<1>1. Len(<<>>) = 0 /\ 0 \in Nat
  BY EmptyAny
<1>2. PICK f : IsKeeping(f, <<>>, I, 0) /\ Kept(<<>>, I) = f[0]
  BY <1>1, KeptIs
<1> QED
  BY <1>2 DEF IsKeeping

\* Sequences one after the other: the recursive function of FlattenSeq, as its
\* definition has it.
Longer(f, S, k) == IF k = 1 THEN S[k] ELSE f[k-1] \o S[k]
IsFlattening(f, S, n) == f = [k \in 1..n |-> Longer(f, S, k)]

LEMMA OneFlattening ==
  ASSUME NEW S
  PROVE  \E f : IsFlattening(f, S, 1) /\ f[1] = S[1]
<1> DEFINE f == [k \in 1..1 |-> S[1]]
<1>1. IsFlattening(f, S, 1) /\ f[1] = S[1]
  BY DEF IsFlattening, Longer
<1> HIDE DEF f
<1> QED
  BY <1>1

LEMMA NextFlattening ==
  ASSUME NEW S, NEW n \in Nat, n >= 1, NEW f, IsFlattening(f, S, n)
  PROVE  \E g : IsFlattening(g, S, n + 1) /\ g[n + 1] = f[n] \o S[n + 1]
<1> DEFINE g == [k \in 1..n+1 |-> IF k = n + 1 THEN f[n] \o S[n + 1] ELSE f[k]]
<1>1. g = [k \in 1..n+1 |-> g[k]]
  OBVIOUS
<1>2. g[n + 1] = f[n] \o S[n + 1] /\ \A k \in 1..n : g[k] = f[k]
  <2>1. n + 1 \in 1..n+1 /\ \A k \in 1..n : k # n + 1 /\ k \in 1..n+1
    OBVIOUS
  <2> QED
    BY <2>1, Zenon
<1> HIDE DEF g
<1>3. ASSUME NEW k \in 1..n+1 PROVE g[k] = Longer(g, S, k)
  <2>1. CASE k = 1
    BY <1>2, <2>1 DEF IsFlattening, Longer
  <2>2. CASE k \in 2..n
    <3>1. k \in 1..n /\ k - 1 \in 1..n /\ k # 1
      BY <2>2
    <3>2. f[k] = f[k-1] \o S[k]
      BY <3>1 DEF IsFlattening, Longer
    <3> QED
      BY <1>2, <3>1, <3>2 DEF Longer
  <2>3. CASE k = n + 1
    <3>1. k - 1 = n /\ k # 1 /\ n \in 1..n
      BY <2>3
    <3> QED
      BY <1>2, <2>3, <3>1 DEF Longer
  <2> QED
    BY <2>1, <2>2, <2>3
<1>4. IsFlattening(g, S, n + 1)
  BY <1>1, <1>3 DEF IsFlattening
<1> QED
  BY <1>2, <1>4

LEMMA FlatteningExists ==
  ASSUME NEW S, NEW n \in Nat, n >= 1
  PROVE  \E f : IsFlattening(f, S, n)
<1> DEFINE T == {a \in 0..n : a # 0 => \E f : IsFlattening(f, S, a)}
<1>1. 0 \in T
  OBVIOUS
<1>2. ASSUME NEW a \in 1..n, a - 1 \in T PROVE a \in T
  <2>1. CASE a = 1
    BY <2>1, OneFlattening
  <2>2. CASE a # 1
    <3>1. a - 1 \in Nat /\ a - 1 >= 1 /\ (a - 1) + 1 = a /\ a - 1 # 0
      BY <2>2
    <3>2. PICK f : IsFlattening(f, S, a - 1)
      BY <1>2, <3>1
    <3>3. PICK g : IsFlattening(g, S, (a - 1) + 1)
      BY <3>1, <3>2, NextFlattening
    <3> QED
      BY <3>1, <3>3
  <2> QED
    BY <2>1, <2>2
<1> HIDE DEF T
<1>3. n \in T
  BY <1>1, <1>2, SetInduction
<1> QED
  BY <1>3 DEF T

\* Sequences that begin alike are put together alike as far as that goes.
LEMMA FlatteningsAgree ==
  ASSUME NEW S, NEW R, NEW n \in Nat, NEW m \in Nat, 1 <= n, n <= m,
         NEW f, NEW g, IsFlattening(f, S, n), IsFlattening(g, R, m),
         \A k \in 1..n : S[k] = R[k]
  PROVE  f[n] = g[n]
<1> DEFINE T == {a \in 0..n : a # 0 => f[a] = g[a]}
<1>1. 0 \in T
  OBVIOUS
<1>2. ASSUME NEW a \in 1..n, a - 1 \in T PROVE a \in T
  <2>0. a \in 1..m /\ S[a] = R[a]
    OBVIOUS
  <2>1. f[a] = Longer(f, S, a) /\ g[a] = Longer(g, R, a)
    BY <2>0, Zenon DEF IsFlattening
  <2>2. a # 1 => f[a-1] = g[a-1]
    BY <1>2
  <2>3. f[a] = g[a]
    BY <2>0, <2>1, <2>2, Zenon DEF Longer
  <2> QED
    BY <2>3
<1> HIDE DEF T
<1>3. n \in T
  BY <1>1, <1>2, SetInduction
<1> QED
  BY <1>3 DEF T

LEMMA FlattenIs ==
  ASSUME NEW S, NEW n \in Nat, Len(S) = n, n >= 1, NEW f, IsFlattening(f, S, n)
  PROVE  FlattenSeq(S) = f[n]
<1> DEFINE g == CHOOSE g : IsFlattening(g, S, Len(S))
<1>1. IsFlattening(g, S, Len(S))
  OBVIOUS
<1>2. FlattenSeq(S) = IF Len(S) = 0 THEN S ELSE g[Len(S)]
  BY Zenon DEF FlattenSeq, IsFlattening, Longer
<1> HIDE DEF g
<1>3. f[n] = g[n]
  BY <1>1, FlatteningsAgree
<1> QED
  BY <1>2, <1>3

\* What flattening the first n members gives, and what the next one adds.
LEMMA FlattenNone == FlattenSeq(<<>>) = <<>>
  BY EmptySeq DEF FlattenSeq

LEMMA FlattenOne ==
  ASSUME NEW S, Len(S) = 1
  PROVE  FlattenSeq(S) = S[1]
<1>1. PICK f : IsFlattening(f, S, 1) /\ f[1] = S[1]
  BY OneFlattening
<1>2. 1 \in Nat /\ 1 >= 1
  OBVIOUS
<1> QED
  BY <1>1, <1>2, FlattenIs

LEMMA FlattenNext ==
  ASSUME NEW S, NEW R, NEW n \in Nat, n >= 1, Len(S) = n, Len(R) = n + 1,
         \A k \in 1..n : S[k] = R[k]
  PROVE  FlattenSeq(R) = FlattenSeq(S) \o R[n + 1]
<1>1. PICK f : IsFlattening(f, R, n)
  BY FlatteningExists
<1>2. PICK g : IsFlattening(g, R, n + 1) /\ g[n + 1] = f[n] \o R[n + 1]
  BY <1>1, NextFlattening
<1>3. PICK h : IsFlattening(h, S, n)
  BY FlatteningExists
<1>4. h[n] = f[n]
  BY <1>1, <1>3, FlatteningsAgree
<1>5. FlattenSeq(S) = h[n] /\ FlattenSeq(R) = g[n + 1]
  <2>1. n + 1 \in Nat /\ n + 1 >= 1
    OBVIOUS
  <2> QED
    BY <1>2, <1>3, <2>1, FlattenIs
<1> QED
  BY <1>2, <1>4, <1>5

---------------------------------------------------------------------------
(* What the search finds once a name is added (metarap.c:351-384).         *)

\* A name that neither ends early nor begins another one.
PlainName(x) ==
  x \in Seq(Nat) /\ x # <<>> /\ Bytes(x) /\ \A k \in 1..Len(x) : x[k] # At /\ x[k] # Nul

\* x lies in hay from p on; and from nowhere before.
Fits(hay, x, p) ==
  /\ p \in Nat /\ p >= 1 /\ p + Len(x) <= Len(hay) + 1
  /\ \A k \in 1..Len(x) : hay[(p - 1) + k] = x[k]
FirstFit(hay, x, p) == Fits(hay, x, p) /\ \A q : Fits(hay, x, q) => p <= q

LEMMA HitsAre ==
  ASSUME NEW hay \in Seq(Nat), NEW x \in Seq(Nat), NEW p
  PROVE  p \in Hits(hay, x) <=> Fits(hay, x, p)
<1> DEFINE n == Len(x)
           w == Window(hay, p, n)
<1>1. n \in Nat /\ Len(hay) \in Nat
  BY LenProperties
<1>2. Hits(hay, x) = {q \in 1..Len(hay) - n + 1 : Window(hay, q, n) = x}
  BY DEF Hits
<1>3. p \in Hits(hay, x) <=> p \in Nat /\ p >= 1 /\ p + n <= Len(hay) + 1 /\ w = x
  <2> HIDE DEF n, w
  <2>1. p \in 1..Len(hay) - n + 1 <=> p \in Nat /\ p >= 1 /\ p + n <= Len(hay) + 1
    BY <1>1
  <2> QED
    BY <1>2, <2>1 DEF w
<1>4. ASSUME p \in Nat, p >= 1, p + n <= Len(hay) + 1
      PROVE  w = x <=> \A k \in 1..n : hay[(p - 1) + k] = x[k]
  <2>1. w \in Seq(Nat) /\ Len(w) = n /\ \A k \in 1..n : w[k] = hay[(p - 1) + k]
    BY <1>1, <1>4, WindowShape
  <2> HIDE DEF w
  <2>2. w = x => \A k \in 1..n : hay[(p - 1) + k] = x[k]
    BY <2>1
  <2>3. (\A k \in 1..n : hay[(p - 1) + k] = x[k]) => w = x
    BY <2>1, SeqEqual
  <2> QED
    BY <2>2, <2>3
<1> HIDE DEF n, w
<1>5. p \in Hits(hay, x) <=> /\ p \in Nat /\ p >= 1 /\ p + n <= Len(hay) + 1
                             /\ \A k \in 1..n : hay[(p - 1) + k] = x[k]
  BY <1>3, <1>4
<1> QED
  BY <1>5 DEF Fits, n

\* The search goes by the first place.
LEMMA FoundAt ==
  ASSUME NEW rp \in Seq(Nat), Bytes(rp), NEW x, PlainName(x)
  PROVE  /\ Hits(rp, x) = {} => FindRplc(rp, x) = {}
         /\ Hits(rp, x) # {} => \E p : FirstFit(rp, x, p)
         /\ \A p : FirstFit(rp, x, p) =>
              FindRplc(rp, x) = IF p > 1 /\ rp[p - 1] = At /\ rp[p + Len(x)] = Nul
                                  THEN {(p - 1) \div WordSize} ELSE {}
<1>1. x \in Seq(Nat) /\ x # <<>> /\ Bytes(x)
  BY DEF PlainName
<1>2. XMemMem(rp, x) = Least(Hits(rp, x))
  BY <1>1, SearchIsExact
<1>3. \A p : p \in Hits(rp, x) <=> Fits(rp, x, p)
  BY <1>1, HitsAre
<1> DEFINE F(P) == {(p - 1) \div WordSize : p \in {p \in P :
                      p > 1 /\ rp[p - 1] = At /\ rp[p + Len(x)] = Nul}}
<1>4. FindRplc(rp, x) = F(Least(Hits(rp, x)))
  BY <1>2 DEF FindRplc
<1>5. ASSUME Hits(rp, x) = {} PROVE FindRplc(rp, x) = {}
  BY <1>4, <1>5 DEF Least
<1>6. Hits(rp, x) \subseteq Nat
  <2> SUFFICES ASSUME NEW p \in Hits(rp, x) PROVE p \in Nat
    OBVIOUS
  <2> QED
    BY <1>3 DEF Fits
<1>7. ASSUME Hits(rp, x) # {} PROVE FirstFit(rp, x, Min(Hits(rp, x)))
  <2>1. Min(Hits(rp, x)) \in Hits(rp, x) /\ \A q \in Hits(rp, x) : Min(Hits(rp, x)) <= q
    BY <1>6, <1>7, MinOf
  <2> QED
    BY <1>3, <2>1 DEF FirstFit
<1>8. ASSUME NEW p, FirstFit(rp, x, p) PROVE Least(Hits(rp, x)) = {p}
  <2>1. p \in Hits(rp, x) /\ \A q \in Hits(rp, x) : p <= q
    BY <1>3, <1>8 DEF FirstFit
  <2>2. Min(Hits(rp, x)) \in Hits(rp, x) /\ \A q \in Hits(rp, x) : Min(Hits(rp, x)) <= q
    BY <1>6, <2>1, MinOf
  <2>3. Min(Hits(rp, x)) = p
    <3> DEFINE z == Min(Hits(rp, x))
    <3>1. z \in Nat /\ p \in Nat /\ z <= p /\ p <= z
      BY <1>6, <2>1, <2>2
    <3> HIDE DEF z
    <3>2. z = p
      BY <3>1
    <3> QED
      BY <3>2 DEF z
  <2> QED
    BY <2>1, <2>3 DEF Least
<1>9. ASSUME NEW p, FirstFit(rp, x, p)
      PROVE  FindRplc(rp, x) = IF p > 1 /\ rp[p - 1] = At /\ rp[p + Len(x)] = Nul
                                 THEN {(p - 1) \div WordSize} ELSE {}
  <2>1. FindRplc(rp, x) = F({p})
    BY <1>4, <1>8, <1>9
  <2> QED
    BY <2>1
<1> QED
  BY <1>5, <1>7, <1>9

\* A name behind the others is found where it is, or within it, or where it was before.
LEMMA FitsAfterAdd ==
  ASSUME NEW rp \in Seq(Nat), NEW m \in Seq(Nat), NEW x, PlainName(x), NEW p
  PROVE  Fits(AddRplc(rp, m), x, p) <=>
           Fits(rp, x, p) \/ \E q : Fits(m, x, q) /\ p = (Len(rp) + 1) + q
<1> DEFINE new == AddRplc(rp, m)
           l   == Len(rp) + 1
           n   == Len(x)
           w   == Len(m)
           z   == Len(new)
<1>1. x \in Seq(Nat) /\ x # <<>> /\ \A k \in 1..n : x[k] # At /\ x[k] # Nul
  BY DEF PlainName
<1>2. n \in Nat /\ n >= 1 /\ w \in Nat /\ l \in Nat /\ l >= 1 /\ Len(rp) = l - 1
  BY <1>1, LenProperties, EmptySeq
<1>3. /\ new \in Seq(Nat) /\ l + w + 1 \in 1..z
      /\ \A q \in 1..l-1 : new[q] = rp[q]
      /\ new[l] = At
      /\ \A k \in 1..w : new[l + k] = m[k]
      /\ \A q \in (l + w + 1)..z : new[q] = Nul
  BY <1>2, AddRplcIs
<1>4. z \in Nat
  BY <1>3, LenProperties
<1>5. Fits(new, x, p) <=> /\ p \in Nat /\ p >= 1 /\ p + n <= z + 1
                          /\ \A k \in 1..n : new[(p - 1) + k] = x[k]
  BY DEF Fits
<1>6. Fits(rp, x, p) <=> /\ p \in Nat /\ p >= 1 /\ p + n <= l
                         /\ \A k \in 1..n : rp[(p - 1) + k] = x[k]
  BY <1>2 DEF Fits
<1>7. \A q : Fits(m, x, q) <=> /\ q \in Nat /\ q >= 1 /\ q + n <= w + 1
                               /\ \A k \in 1..n : m[(q - 1) + k] = x[k]
  BY DEF Fits
<1> HIDE DEF new, l, n, w, z
<1>8. ASSUME Fits(new, x, p) PROVE Fits(rp, x, p) \/ \E q : Fits(m, x, q) /\ p = l + q
  <2>0. p \in Nat /\ p >= 1 /\ p + n <= z + 1 /\ \A k \in 1..n : new[(p - 1) + k] = x[k]
    BY <1>5, <1>8
  <2>1. CASE p + n <= l
    <3>1. \A k \in 1..n : (p - 1) + k \in 1..l-1
      BY <1>2, <2>0, <2>1
    <3> QED
      BY <1>3, <1>6, <2>0, <2>1, <3>1
  <2>2. CASE p <= l /\ ~(p + n <= l)
    <3> DEFINE k == (l - p) + 1
    <3>1. k \in 1..n /\ (p - 1) + k = l
      BY <1>2, <2>0, <2>2
    <3> HIDE DEF k
    <3>2. new[l] = x[k]
      BY <2>0, <3>1
    <3> QED
      BY <1>1, <1>3, <3>1, <3>2 DEF n
  <2>3. CASE l < p /\ p + n <= l + w + 1
    <3> DEFINE q == p - l
    <3>1. q \in Nat /\ q >= 1 /\ q + n <= w + 1 /\ p = l + q
          /\ \A k \in 1..n : (q - 1) + k \in 1..w /\ l + ((q - 1) + k) = (p - 1) + k
      BY <1>2, <2>0, <2>3
    <3> HIDE DEF q
    <3>2. \A k \in 1..n : m[(q - 1) + k] = x[k]
      BY <1>3, <2>0, <3>1
    <3> QED
      BY <1>7, <3>1, <3>2
  <2>4. CASE l < p /\ ~(p + n <= l + w + 1)
    <3>1. PICK k \in 1..n : (p - 1) + k \in (l + w + 1)..z
      <4>1. CASE p >= l + w + 1
        <5>1. 1 \in 1..n /\ (p - 1) + 1 \in (l + w + 1)..z
          BY <1>2, <1>4, <2>0, <4>1
        <5> QED
          BY <5>1
      <4>2. CASE ~(p >= l + w + 1)
        <5> DEFINE k == ((l + w + 1) - p) + 1
        <5>1. k \in 1..n /\ (p - 1) + k \in (l + w + 1)..z
          BY <1>2, <1>3, <1>4, <2>0, <2>4, <4>2
        <5> QED
          BY <5>1
      <4> QED
        BY <4>1, <4>2
    <3>2. new[(p - 1) + k] = Nul /\ new[(p - 1) + k] = x[k]
      BY <1>3, <2>0, <3>1
    <3> QED
      BY <1>1, <3>2 DEF n
  <2> QED
    BY <1>2, <2>0, <2>1, <2>2, <2>3, <2>4
<1>9. ASSUME Fits(rp, x, p) PROVE Fits(new, x, p)
  <2>1. p \in Nat /\ p >= 1 /\ p + n <= l /\ \A k \in 1..n : rp[(p - 1) + k] = x[k]
    BY <1>6, <1>9
  <2>2. p + n <= z + 1 /\ \A k \in 1..n : (p - 1) + k \in 1..l-1
    <3>1. l + w + 1 \in 1..z
      BY <1>3
    <3>2. p \in Nat /\ p >= 1 /\ p + n <= l
      BY <2>1
    <3>3. p + n <= z + 1
      BY <1>2, <1>4, <3>1, <3>2
    <3> QED
      BY <1>2, <3>2, <3>3
  <2> QED
    BY <1>3, <1>5, <2>1, <2>2
<1>10. ASSUME NEW q, Fits(m, x, q), p = l + q PROVE Fits(new, x, p)
  <2>1. q \in Nat /\ q >= 1 /\ q + n <= w + 1 /\ \A k \in 1..n : m[(q - 1) + k] = x[k]
    BY <1>7, <1>10
  <2>2. p \in Nat /\ p >= 1 /\ p + n <= z + 1
        /\ \A k \in 1..n : (q - 1) + k \in 1..w /\ l + ((q - 1) + k) = (p - 1) + k
    BY <1>2, <1>3, <1>4, <1>10, <2>1
  <2>3. \A k \in 1..n : new[(p - 1) + k] = x[k]
    BY <1>3, <2>1, <2>2
  <2> QED
    BY <1>5, <2>2, <2>3
<1>11. Fits(new, x, p) <=> Fits(rp, x, p) \/ \E q : Fits(m, x, q) /\ p = l + q
  BY <1>8, <1>9, <1>10
<1> QED
  BY <1>11 DEF new, l

\* What is found once a name is added: what was found before, and the name itself if it
\* lay nowhere.
LEMMA FoundAfterAdd ==
  ASSUME NEW rp \in Seq(Nat), Bytes(rp), Ended(rp), Len(rp) % WordSize = 0,
         NEW m \in Seq(Nat), Bytes(m), \A k \in 1..Len(m) : m[k] # At /\ m[k] # Nul,
         NEW x, PlainName(x)
  PROVE  /\ Hits(AddRplc(rp, m), x) # {} <=> Hits(rp, x) # {} \/ Hits(m, x) # {}
         /\ Hits(rp, x) # {} => FindRplc(AddRplc(rp, m), x) = FindRplc(rp, x)
         /\ Hits(rp, x) = {} => FindRplc(AddRplc(rp, m), x) =
                                  IF x = m THEN {Len(rp) \div WordSize} ELSE {}
<1> DEFINE new == AddRplc(rp, m)
           l   == Len(rp) + 1
           n   == Len(x)
           w   == Len(m)
<1>1. x \in Seq(Nat) /\ x # <<>> /\ \A k \in 1..n : x[k] # At /\ x[k] # Nul
  BY DEF PlainName
<1>2. n \in Nat /\ n >= 1 /\ w \in Nat /\ l \in Nat /\ l >= 1 /\ Len(rp) = l - 1
  BY <1>1, LenProperties, EmptySeq
<1>3. /\ new \in Seq(Nat) /\ l + w + 1 \in 1..Len(new)
      /\ \A q \in 1..l-1 : new[q] = rp[q]
      /\ new[l] = At
      /\ \A k \in 1..w : new[l + k] = m[k]
      /\ \A q \in (l + w + 1)..Len(new) : new[q] = Nul
  BY <1>2, AddRplcIs, SMTT(30)
<1>4. Bytes(new)
  BY AddedIsWritten
<1>5. \A p : p \in Hits(rp, x) <=> Fits(rp, x, p)
  BY <1>1, HitsAre
<1>6. \A p : p \in Hits(m, x) <=> Fits(m, x, p)
  BY <1>1, HitsAre
<1>7. \A p : p \in Hits(new, x) <=> Fits(new, x, p)
  BY <1>1, <1>3, HitsAre
<1>8. \A p : Fits(new, x, p) <=> Fits(rp, x, p) \/ \E q : Fits(m, x, q) /\ p = l + q
  BY FitsAfterAdd
<1>9. /\ Hits(new, x) = {} => FindRplc(new, x) = {}
      /\ Hits(new, x) # {} => \E p : FirstFit(new, x, p)
      /\ \A p : FirstFit(new, x, p) =>
           FindRplc(new, x) = IF p > 1 /\ new[p - 1] = At /\ new[p + n] = Nul
                              THEN {(p - 1) \div WordSize} ELSE {}
  BY <1>3, <1>4, FoundAt
<1>10. /\ Hits(rp, x) # {} => \E p : FirstFit(rp, x, p)
       /\ \A p : FirstFit(rp, x, p) =>
            FindRplc(rp, x) = IF p > 1 /\ rp[p - 1] = At /\ rp[p + n] = Nul
                              THEN {(p - 1) \div WordSize} ELSE {}
  BY FoundAt
<1>11. \A y \in {rp, m} : \A p : Fits(y, x, p) =>
         p \in Nat /\ p >= 1 /\ p + n <= Len(y) + 1 /\ \A k \in 1..n : y[(p - 1) + k] = x[k]
  BY DEF Fits
<1>e. Len(rp) > 0 => rp[Len(rp)] = Nul
  BY DEF Ended
<1>d. (l - 1) % WordSize = 0
  BY <1>2
<1> HIDE DEF new, l, n, w
<1>12. Hits(new, x) # {} <=> Hits(rp, x) # {} \/ Hits(m, x) # {}
  BY <1>5, <1>6, <1>7, <1>8
<1>13. ASSUME Hits(rp, x) # {} PROVE FindRplc(new, x) = FindRplc(rp, x)
  <2>1. PICK p : FirstFit(rp, x, p)
    BY <1>10, <1>13
  <2>2. p \in Nat /\ p >= 1 /\ p + n <= l /\ \A k \in 1..n : rp[(p - 1) + k] = x[k]
    BY <1>2, <1>11, <2>1 DEF FirstFit
  <2>3. ASSUME NEW q, Fits(new, x, q) PROVE p <= q
    <3>1. CASE Fits(rp, x, q)
      BY <2>1, <3>1 DEF FirstFit
    <3>2. CASE \E b : Fits(m, x, b) /\ q = l + b
      <4>1. PICK b : Fits(m, x, b) /\ q = l + b
        BY <3>2
      <4>2. b \in Nat
        BY <1>11, <4>1
      <4> QED
        BY <1>2, <2>2, <4>1, <4>2
    <3> QED
      BY <1>8, <2>3, <3>1, <3>2
  <2>4. FirstFit(new, x, p)
    BY <1>8, <2>1, <2>3 DEF FirstFit
  <2>5. p + n # l
    <3> SUFFICES ASSUME p + n = l PROVE FALSE
      OBVIOUS
    <3>1. n \in 1..n /\ (p - 1) + n = Len(rp) /\ Len(rp) > 0
      BY <1>2, <2>2
    <3>2. rp[Len(rp)] = x[n]
      BY <2>2, <3>1
    <3> QED
      BY <1>1, <1>e, <3>1, <3>2 DEF n
  <2>6. p + n \in 1..l-1 /\ (p > 1 => p - 1 \in 1..l-1)
    BY <1>2, <2>2, <2>5
  <2>7. new[p + n] = rp[p + n] /\ (p > 1 => new[p - 1] = rp[p - 1])
    BY <1>3, <2>6
  <2> QED
    BY <1>9, <1>10, <2>1, <2>4, <2>7
<1>14. ASSUME Hits(rp, x) = {}, x = m PROVE FindRplc(new, x) = {Len(rp) \div WordSize}
  <2> DEFINE p == l + 1
  <2>1. Fits(m, x, 1)
    <3>1. 1 + n <= w + 1 /\ \A k \in 1..n : (1 - 1) + k = k
      BY <1>2, <1>14 DEF n, w
    <3> QED
      BY <1>14, <3>1 DEF Fits, n, w
  <2>2. Fits(new, x, p)
    BY <1>8, <2>1
  <2>3. ASSUME NEW q, Fits(new, x, q) PROVE p <= q
    <3>1. PICK b : Fits(m, x, b) /\ q = l + b
      BY <1>5, <1>8, <1>14, <2>3
    <3>2. b \in Nat /\ b >= 1
      BY <1>11, <3>1
    <3> QED
      BY <1>2, <3>1, <3>2
  <2>4. FirstFit(new, x, p)
    BY <2>2, <2>3 DEF FirstFit
  <2>5. p > 1 /\ p - 1 = l /\ p + n = l + w + 1
    BY <1>2, <1>14 DEF n, w
  <2> HIDE DEF p
  <2>6. new[p - 1] = At /\ new[p + n] = Nul
    <3>1. Len(new) \in Nat /\ p + n \in (l + w + 1)..Len(new)
      BY <1>2, <1>3, <2>5
    <3> QED
      BY <1>3, <2>5, <3>1
  <2>7. FindRplc(new, x) = {l \div WordSize}
    BY <1>9, <2>4, <2>5, <2>6
  <2>8. l \div WordSize = Len(rp) \div WordSize
    <3> DEFINE a == Len(rp)
               q == a \div WordSize
    <3>1. WordSize \in Nat \ {0} /\ 1 \in 0..WordSize-1 /\ a \in Nat /\ l = a + 1
      BY <1>2, WordAssumption
    <3>2. q \in Nat /\ a = WordSize * q + (a % WordSize)
      <4> HIDE DEF a
      <4> QED
        BY <3>1, DivMod
    <3>3. a = WordSize * q /\ WordSize * q \in Nat
      <4>1. WordSize * q \in Nat
        <5> HIDE DEF q
        <5> QED
          BY <3>1, <3>2, MultipleOf
      <4>2. a % WordSize = 0
        OBVIOUS
      <4> HIDE DEF q, a
      <4> QED
        BY <3>2, <4>1, <4>2
    <3> HIDE DEF q
    <3>4. (WordSize * q + 1) \div WordSize = q
      BY <3>1, <3>2, ModAdd
    <3>5. l = WordSize * q + 1
      BY <3>1, <3>3
    <3> QED
      BY <3>4, <3>5 DEF q
  <2> QED
    BY <2>7, <2>8
<1>15. ASSUME Hits(rp, x) = {}, x # m PROVE FindRplc(new, x) = {}
  <2>1. CASE Hits(new, x) = {}
    BY <1>9, <2>1
  <2>2. CASE Hits(new, x) # {}
    <3>1. PICK p : FirstFit(new, x, p)
      BY <1>9, <2>2
    <3>2. PICK q : Fits(m, x, q) /\ p = l + q
      BY <1>5, <1>8, <1>15, <3>1 DEF FirstFit
    <3>3. q \in Nat /\ q >= 1 /\ q + n <= w + 1 /\ \A k \in 1..n : m[(q - 1) + k] = x[k]
      BY <1>11, <3>2 DEF w
    <3>4. ~(p > 1 /\ new[p - 1] = At /\ new[p + n] = Nul)
      <4> SUFFICES ASSUME new[p - 1] = At, new[p + n] = Nul PROVE FALSE
        OBVIOUS
      <4>1. q = 1
        <5> SUFFICES ASSUME q # 1 PROVE FALSE
          OBVIOUS
        <5>1. q - 1 \in 1..w /\ l + (q - 1) = p - 1
          BY <1>2, <3>2, <3>3
        <5>2. new[p - 1] = m[q - 1] /\ m[q - 1] # At
          BY <1>3, <5>1 DEF w
        <5> QED
          BY <5>2
      <4>2. n = w
        <5> SUFFICES ASSUME n # w PROVE FALSE
          OBVIOUS
        <5>1. n + 1 \in 1..w /\ l + (n + 1) = p + n
          BY <1>2, <3>2, <3>3, <4>1
        <5>2. new[p + n] = m[n + 1] /\ m[n + 1] # Nul
          BY <1>3, <5>1 DEF w
        <5> QED
          BY <5>2
      <4>3. \A k \in 1..n : m[k] = x[k]
        <5>1. \A k \in 1..n : (q - 1) + k = k
          BY <4>1
        <5> QED
          BY <3>3, <5>1
      <4>4. x = m
        BY <1>1, <4>2, <4>3, SeqEqual DEF n, w
      <4> QED
        BY <1>15, <4>4
    <3> QED
      BY <1>9, <3>1, <3>4
  <2> QED
    BY <2>1, <2>2
<1> QED
  BY <1>12, <1>13, <1>14, <1>15 DEF new

---------------------------------------------------------------------------
(* What the filter has mentioned, and what of it is never found.           *)

\* The filter so far.
ToldInv == IsSeq(told) /\ \A n \in 1..Len(told) : told[n] \in FilterEvents

\* x was mentioned; x lies within a name that was.
Seen(x)   == \E n \in DOMAIN told : x \in Mentioned(n)
Within(x) == \E n \in DOMAIN told : \E m \in Mentioned(n) : Hits(m, x) # {}

\* What e mentions.
NamesOf(e) == IF e.kind = "stmt" /\ IsAtObject(e.obj) THEN {Name(e.obj)} ELSE {}

\* A name lies in rplc if it does in one of the filter's, and is found if it is one of
\* them and not hidden.
HitInv ==
  NamesPlain /\ NamesEnd =>
    \A x : PlainName(x) => /\ Hits(rplc, x) # {} <=> Within(x)
                           /\ FindRplc(rplc, x) # {} <=> Seen(x) /\ ~IsHidden(x)

\* The empty name is not found.
LEMMA EmptyNotFound ==
  ASSUME NEW rp
  PROVE  FindRplc(rp, <<>>) = {}
<1>1. XMemMem(rp, <<>>) = {1}
  BY DEF XMemMem
<1> QED
  BY <1>1 DEF FindRplc

\* A name lies in itself.
LEMMA HitsItself ==
  ASSUME NEW x \in Seq(Nat)
  PROVE  Hits(x, x) # {}
<1>1. Len(x) \in Nat
  BY LenProperties
<1>2. \A k \in 1..Len(x) : (1 - 1) + k = k
  OBVIOUS
<1>3. Fits(x, x, 1)
  BY <1>1, <1>2 DEF Fits
<1> QED
  BY <1>3, HitsAre

\* What the filter says next changes nothing about the names that it has mentioned.
LEMMA ToldGrows ==
  ASSUME IsSeq(told), NEW e, told' = Append(told, e)
  PROVE  /\ DOMAIN told = 1..Len(told) /\ DOMAIN told' = 1..Len(told) + 1 /\ Len(told) \in Nat
         /\ IsSeq(told') /\ Len(told') = Len(told) + 1
         /\ \A n \in 1..Len(told) : told'[n] = told[n]
         /\ told'[Len(told) + 1] = e
<1>1. /\ IsSeq(told') /\ Len(told') = Len(told) + 1 /\ Len(told) \in Nat
      /\ \A n \in 1..Len(told) : told'[n] = told[n]
      /\ told'[Len(told) + 1] = e
  BY AppendAny, SeqShape
<1> QED
  BY <1>1, SeqShape

LEMMA SeenGrows ==
  ASSUME IsSeq(told), NEW e, told' = Append(told, e), NEW x
  PROVE  /\ Seen(x)' <=> Seen(x) \/ x \in NamesOf(e)
         /\ Within(x)' <=> Within(x) \/ \E m \in NamesOf(e) : Hits(m, x) # {}
         /\ Seen(x) => (IsHidden(x)' <=> IsHidden(x))
         /\ ~Seen(x) /\ x \in NamesOf(e) => (IsHidden(x)' <=> x = <<>> \/ Within(x))
<1>a. PICK l \in Nat : l = Len(told)
  BY ToldGrows
<1> DEFINE New == NamesOf(e)
           M(n) == IF n = l + 1 THEN New ELSE NamesOf(told[n])
           W(n) == \E m \in M(n) : Hits(m, x) # {}
           N(n) == \A k \in 1..n : x \notin M(k)
<1>1. DOMAIN told = 1..l /\ DOMAIN told' = 1..l+1 /\ l \in Nat
  BY <1>a, ToldGrows
<1>2. (\A n \in 1..l : told'[n] = told[n]) /\ told'[l + 1] = e
  BY <1>a, ToldGrows
<1> HIDE DEF New
<1>3. (\A n \in 1..l+1 : NamesOf(told'[n]) = M(n)) /\ \A n \in 1..l : NamesOf(told[n]) = M(n)
  <2>1. \A n \in 1..l : n # l + 1
    BY <1>1
  <2>2. \A n \in 1..l+1 : n \in 1..l \/ n = l + 1
    BY <1>1
  <2>3. NamesOf(told'[l + 1]) = New
    BY <1>2 DEF New
  <2> QED
    BY <1>2, <2>1, <2>2, <2>3
<1>4. M(l + 1) = New
  OBVIOUS
<1> HIDE DEF M
<1>5. (Seen(x) <=> \E n \in 1..l : x \in M(n)) /\ (Seen(x)' <=> \E n \in 1..l+1 : x \in M(n))
  <2>1. Seen(x)' <=> \E n \in 1..l+1 : x \in NamesOf(told'[n])
    BY <1>1, Zenon DEF Seen, Mentioned, NamesOf
  <2>2. Seen(x) <=> \E n \in 1..l : x \in NamesOf(told[n])
    BY <1>1, Zenon DEF Seen, Mentioned, NamesOf
  <2> QED
    BY <1>3, <2>1, <2>2
<1>6. (Within(x) <=> \E n \in 1..l : W(n)) /\ (Within(x)' <=> \E n \in 1..l+1 : W(n))
  <2>1. Within(x)' <=> \E n \in 1..l+1 : \E m \in NamesOf(told'[n]) : Hits(m, x) # {}
    BY <1>1, Zenon DEF Within, Mentioned, NamesOf
  <2>2. Within(x) <=> \E n \in 1..l : \E m \in NamesOf(told[n]) : Hits(m, x) # {}
    BY <1>1, Zenon DEF Within, Mentioned, NamesOf
  <2> QED
    BY <1>3, <2>1, <2>2
<1>7. /\ IsHidden(x) <=> (x = <<>>) \/ \E n \in 1..l : W(n) /\ N(n)
      /\ IsHidden(x)' <=> (x = <<>>) \/ \E n \in 1..l+1 : W(n) /\ N(n)
  <2>1. IsHidden(x)' <=> \/ x = <<>>
                         \/ \E n \in 1..l+1 : /\ \E m \in NamesOf(told'[n]) : Hits(m, x) # {}
                                              /\ \A k \in 1..n : x \notin NamesOf(told'[k])
    BY <1>1, Zenon DEF IsHidden, Mentioned, NamesOf
  <2>2. IsHidden(x) <=> \/ x = <<>>
                        \/ \E n \in 1..l : /\ \E m \in NamesOf(told[n]) : Hits(m, x) # {}
                                           /\ \A k \in 1..n : x \notin NamesOf(told[k])
    BY <1>1, Zenon DEF IsHidden, Mentioned, NamesOf
  <2>3. \A n \in 1..l+1 : \A k \in 1..n : k \in 1..l+1
    BY <1>1
  <2>4. \A n \in 1..l : \A k \in 1..n : k \in 1..l
    BY <1>1
  <2>5. \A n \in 1..l+1 : (\A k \in 1..n : x \notin NamesOf(told'[k])) <=> N(n)
    BY <1>3, <2>3
  <2>6. \A n \in 1..l : (\A k \in 1..n : x \notin NamesOf(told[k])) <=> N(n)
    BY <1>3, <2>4
  <2>7. \A n \in 1..l+1 : (\E m \in NamesOf(told'[n]) : Hits(m, x) # {}) <=> W(n)
    BY <1>3
  <2>8. \A n \in 1..l : (\E m \in NamesOf(told[n]) : Hits(m, x) # {}) <=> W(n)
    BY <1>3
  <2> HIDE DEF W, N
  <2>9. IsHidden(x) <=> (x = <<>>) \/ \E n \in 1..l : W(n) /\ N(n)
    BY <2>2, <2>6, <2>8
  <2>10. IsHidden(x)' <=> (x = <<>>) \/ \E n \in 1..l+1 : W(n) /\ N(n)
    BY <2>1, <2>5, <2>7
  <2> QED
    BY <2>9, <2>10
<1>8. l + 1 \in 1..l+1 /\ (\A n \in 1..l : n \in 1..l+1) /\ \A n \in 1..l+1 : n \in 1..l \/ n = l + 1
  BY <1>1
<1>9. Seen(x)' <=> Seen(x) \/ x \in New
  BY <1>4, <1>5, <1>8
<1>10. Within(x)' <=> Within(x) \/ \E m \in New : Hits(m, x) # {}
  <2>1. W(l + 1) <=> \E m \in New : Hits(m, x) # {}
    BY <1>4
  <2> HIDE DEF W
  <2> QED
    BY <1>6, <1>8, <2>1
<1>11. ASSUME Seen(x) PROVE IsHidden(x)' <=> IsHidden(x)
  <2>1. PICK s \in 1..l : x \in M(s)
    BY <1>5, <1>11
  <2>2. ~N(l + 1)
    BY <1>8, <2>1
  <2> HIDE DEF W, N
  <2> QED
    BY <1>7, <1>8, <2>2
<1>12. ASSUME ~Seen(x), x \in New PROVE IsHidden(x)' <=> x = <<>> \/ Within(x)
  <2>1. ~N(l + 1)
    BY <1>4, <1>8, <1>12
  <2>2. \A n \in 1..l : N(n)
    <3> SUFFICES ASSUME NEW n \in 1..l, NEW k \in 1..n PROVE x \notin M(k)
      OBVIOUS
    <3>1. k \in 1..l
      BY <1>1
    <3> QED
      BY <1>5, <1>12, <3>1
  <2> HIDE DEF W, N
  <2> QED
    BY <1>6, <1>7, <1>8, <2>1, <2>2
<1> QED
  BY <1>9, <1>10, <1>11, <1>12 DEF New

\* The names of the filter are texts, and fine if it says so.
LEMMA MentionedFine ==
  ASSUME ToldInv, NamesPlain, NamesEnd, NEW n \in DOMAIN told, NEW m \in Mentioned(n)
  PROVE  m \in Seq(Nat) /\ Bytes(m) /\ \A k \in 1..Len(m) : m[k] # At /\ m[k] # Nul
<1>1. told[n].kind = "stmt" /\ IsAtObject(told[n].obj) /\ m = Name(told[n].obj)
  BY DEF Mentioned
<1> DEFINE t == told[n].obj
<1>2. t \in AtObjects
  BY <1>1 DEF AtObjects
<1>3. t \in Term /\ Bytes(t.str)
  <2>1. n \in 1..Len(told)
    BY SeqShape DEF ToldInv
  <2>2. told[n] \in FilterEvents /\ told[n].kind # "ns"
    BY <1>1, <2>1 DEF ToldInv
  <2> QED
    BY <2>2, EventAssumption, ByteAssumption
<1>4. At \notin ToSet(m) /\ Nul \notin ToSet(m)
  BY <1>1, <1>2 DEF NamesPlain, NamesEnd
<1> HIDE DEF t
<1>5. m \in Seq(Nat) /\ Bytes(m)
  BY <1>1, <1>3, NameShape, NameBytes DEF t
<1>6. DOMAIN m = 1..Len(m)
  BY <1>5, LenProperties
<1> QED
  BY <1>4, <1>5, <1>6 DEF ToSet

MentionsFine ==
  \A n \in DOMAIN told : \A m \in NamesOf(told[n]) :
    m \in Seq(Nat) /\ Bytes(m) /\ \A k \in 1..Len(m) : m[k] # At /\ m[k] # Nul

LEMMA AllMentionedFine == ToldInv /\ NamesPlain /\ NamesEnd => MentionsFine
  BY MentionedFine DEF MentionsFine, Mentioned, NamesOf

\* A name that is mentioned lies within one that is.
LEMMA SeenWithin ==
  ASSUME NEW x, PlainName(x), Seen(x)
  PROVE  Within(x)
<1>1. Hits(x, x) # {}
  BY HitsItself DEF PlainName
<1> QED
  BY <1>1 DEF Seen, Within

\* A statement of the filter with an @ object: its name is found or added.
LEMMA HitsOfObject ==
  ASSUME ToldInv, HitInv, SlotInv, rplc \in Seq(Nat), Len(rplc) % WordSize = 0,
         NEW e, told' = Append(told, e), e.kind = "stmt", IsAtObject(e.obj),
         ToldInv', NamesPlain', NamesEnd', NamesPlain, NamesEnd,
         \/ FindRplc(rplc, Name(e.obj)) = {} /\ rplc' = AddRplc(rplc, Name(e.obj))
         \/ FindRplc(rplc, Name(e.obj)) # {} /\ rplc' = rplc
  PROVE  HitInv'
<1> DEFINE m == Name(e.obj)
<1>1. NamesOf(e) = {m}
  BY DEF NamesOf
<1>2. m \in Seq(Nat) /\ Bytes(m) /\ \A k \in 1..Len(m) : m[k] # At /\ m[k] # Nul
  <2>1. \E n \in DOMAIN told' : m \in NamesOf(told'[n])
    <3> DEFINE n == Len(told) + 1
    <3>1. n \in DOMAIN told' /\ told'[n] = e
      <4>1. DOMAIN told' = 1..Len(told) + 1 /\ Len(told) \in Nat /\ told'[Len(told) + 1] = e
        BY ToldGrows DEF ToldInv
      <4> QED
        BY <4>1
    <3> HIDE DEF n
    <3> QED
      BY <1>1, <3>1
  <2>2. (ToldInv /\ NamesPlain /\ NamesEnd => MentionsFine)'
    BY AllMentionedFine, PTL
  <2>3. MentionsFine'
    BY <2>2
  <2> QED
    BY <2>1, <2>3 DEF MentionsFine
<1> HIDE DEF m
<1>3. SUFFICES ASSUME NEW x, PlainName(x)
               PROVE  /\ Hits(rplc', x) # {} <=> Within(x)'
                      /\ FindRplc(rplc', x) # {} <=> Seen(x)' /\ ~IsHidden(x)'
  BY DEF HitInv
<1>4. x # <<>> /\ x \in Seq(Nat)
  BY <1>3 DEF PlainName
<1>5. /\ Seen(x)' <=> Seen(x) \/ x = m
      /\ Within(x)' <=> Within(x) \/ Hits(m, x) # {}
      /\ Seen(x) => (IsHidden(x)' <=> IsHidden(x))
      /\ ~Seen(x) /\ x = m => (IsHidden(x)' <=> Within(x))
  <2>1. /\ Seen(x)' <=> Seen(x) \/ x \in NamesOf(e)
        /\ Within(x)' <=> Within(x) \/ \E y \in NamesOf(e) : Hits(y, x) # {}
        /\ Seen(x) => (IsHidden(x)' <=> IsHidden(x))
        /\ ~Seen(x) /\ x \in NamesOf(e) => (IsHidden(x)' <=> x = <<>> \/ Within(x))
    BY SeenGrows DEF ToldInv
  <2> QED
    BY <1>1, <1>4, <2>1
<1>6. /\ Hits(rplc, x) # {} <=> Within(x)
      /\ FindRplc(rplc, x) # {} <=> Seen(x) /\ ~IsHidden(x)
  BY <1>3 DEF HitInv
<1>7. Seen(x) => Within(x)
  BY <1>3, SeenWithin
<1>8. CASE FindRplc(rplc, m) = {} /\ rplc' = AddRplc(rplc, m)
  <2>1. Bytes(rplc) /\ Ended(rplc)
    BY DEF SlotInv
  <2>2. /\ Hits(AddRplc(rplc, m), x) # {} <=> Hits(rplc, x) # {} \/ Hits(m, x) # {}
        /\ Hits(rplc, x) # {} => FindRplc(AddRplc(rplc, m), x) = FindRplc(rplc, x)
        /\ Hits(rplc, x) = {} => FindRplc(AddRplc(rplc, m), x) =
                                   IF x = m THEN {Len(rplc) \div WordSize} ELSE {}
    BY <1>2, <1>3, <2>1, FoundAfterAdd
  <2>3. Hits(rplc', x) # {} <=> Within(x)'
    BY <1>5, <1>6, <1>8, <2>2
  <2>4. CASE Hits(rplc, x) # {}
    <3>1. FindRplc(rplc', x) = FindRplc(rplc, x) /\ Within(x)
      BY <1>6, <1>8, <2>2, <2>4
    <3>2. CASE Seen(x)
      BY <1>5, <1>6, <2>3, <3>1, <3>2
    <3>3. CASE ~Seen(x) /\ x = m
      BY <1>5, <1>8, <2>3, <3>1, <3>3
    <3>4. CASE ~Seen(x) /\ x # m
      BY <1>5, <1>6, <2>3, <3>1, <3>4
    <3> QED
      BY <3>2, <3>3, <3>4
  <2>5. CASE Hits(rplc, x) = {}
    <3>1. FindRplc(rplc', x) # {} <=> x = m
      BY <1>8, <2>2, <2>5
    <3>2. ~Within(x) /\ ~Seen(x)
      BY <1>6, <1>7, <2>5
    <3> QED
      BY <1>5, <2>3, <3>1, <3>2
  <2> QED
    BY <2>4, <2>5
<1>9. CASE FindRplc(rplc, m) # {} /\ rplc' = rplc
  <2>1. PlainName(m)
    <3>1. m # <<>>
      BY <1>9, EmptyNotFound
    <3> QED
      BY <1>2, <3>1 DEF PlainName
  <2>2. Seen(m)
    BY <1>9, <2>1 DEF HitInv
  <2>3. Hits(m, x) # {} => Within(x)
    BY <2>2 DEF Seen, Within
  <2>4. x = m => Seen(x)
    BY <2>2
  <2>5. Hits(rplc', x) # {} <=> Within(x)'
    BY <1>5, <1>6, <1>9, <2>3
  <2>6. FindRplc(rplc', x) # {} <=> Seen(x)' /\ ~IsHidden(x)'
    BY <1>5, <1>6, <1>9, <2>4
  <2> QED
    BY <2>5, <2>6
<1> QED
  BY <1>8, <1>9 DEF m

\* Anything else the filter says.
LEMMA HitsOfOther ==
  ASSUME ToldInv, HitInv, NEW e, told' = Append(told, e), ~(e.kind = "stmt" /\ IsAtObject(e.obj)),
         NamesPlain, NamesEnd, rplc' = rplc
  PROVE  HitInv'
<1>1. NamesOf(e) = {}
  BY DEF NamesOf
<1>3. SUFFICES ASSUME NEW x, PlainName(x)
               PROVE  /\ Hits(rplc', x) # {} <=> Within(x)'
                      /\ FindRplc(rplc', x) # {} <=> Seen(x)' /\ ~IsHidden(x)'
  BY DEF HitInv
<1>5. /\ Seen(x)' <=> Seen(x)
      /\ Within(x)' <=> Within(x)
      /\ Seen(x) => (IsHidden(x)' <=> IsHidden(x))
  <2>1. /\ Seen(x)' <=> Seen(x) \/ x \in NamesOf(e)
        /\ Within(x)' <=> Within(x) \/ \E y \in NamesOf(e) : Hits(y, x) # {}
        /\ Seen(x) => (IsHidden(x)' <=> IsHidden(x))
    BY SeenGrows DEF ToldInv
  <2> QED
    BY <1>1, <2>1
<1>6. /\ Hits(rplc, x) # {} <=> Within(x)
      /\ FindRplc(rplc, x) # {} <=> Seen(x) /\ ~IsHidden(x)
  BY <1>3 DEF HitInv
<1> QED
  BY <1>5, <1>6

---------------------------------------------------------------------------
(* What is expected, as it depends on the filter td and the input hd.  For *)
(* an invariant it must say something about every filter: an object with a *)
(* hidden name, of which MetadataExact says nothing, waits for ever.       *)

HiddenIn(td, x) ==
  \/ x = <<>>
  \/ \E n \in DOMAIN td : /\ \E m \in NamesOf(td[n]) : Hits(m, x) # {}
                          /\ \A k \in 1..n : x \notin NamesOf(td[k])
GivenIn(hd, k, x) == {n \in 1..k-1 : hd[n].kind = "ns" /\ hd[n].prefix = x}
LastIn(hd, k, x) == {n \in GivenIn(hd, k, x) : \A m \in GivenIn(hd, k, x) : m <= n}
With(t, s) == [t EXCEPT !.str = s]
GotFrom(hd, n, t) == [t EXCEPT !.str = hd[n].uri \o Suffix(t)]
ReadyIn(td, hd, k, t) ==
  IF IsAtObject(t) /\ HiddenIn(td, Name(t)) THEN {}
  ELSE IF ~IsAtObject(t) THEN {t} ELSE {GotFrom(hd, n, t) : n \in LastIn(hd, k, Name(t))}
AboutIn(td, s) == Kept(td, {n \in DOMAIN td : td[n].kind = "stmt" /\ td[n].subj = s})
Member(S) == CHOOSE o \in S : TRUE
ReadyOnes(td, hd, k, fs) == Kept(fs, {n \in DOMAIN fs : ReadyIn(td, hd, k, fs[n].obj) # {}})
LineHash(e) == [type |-> "uri", mmh3 |-> Front(FlattenSeq(NTriples(e)))]
AsPairs(td, hd, k, h, ready) ==
  [n \in DOMAIN ready |-> <<h, ready[n].pred, Member(ReadyIn(td, hd, k, ready[n].obj))>>]
OutputIn(td, hd, k) ==
  IF hd[k].kind = "ns" \/ (AboutIn(td, hd[k].pred) = <<>> /\ \E n \in DOMAIN td : td[n].kind = "stmt")
  THEN <<>>
  ELSE Reified(LineHash(hd[k]), hd[k])
         \o AsPairs(td, hd, k, LineHash(hd[k]), ReadyOnes(td, hd, k, AboutIn(td, hd[k].pred)))
NamespacesIn(td) == Kept(td, {n \in DOMAIN td : td[n].kind = "ns"})
OutputsIn(td, hd) == [k \in DOMAIN hd |-> OutputIn(td, hd, k)]
ExpectedIn(td, hd) ==
  <<[kind |-> "ns", rdf |-> "rdf"]>> \o NamespacesIn(td) \o FlattenSeq(OutputsIn(td, hd))

LEMMA HiddenIs ==
  ASSUME NEW x
  PROVE  IsHidden(x) <=> HiddenIn(told, x)
  BY Zenon DEF IsHidden, HiddenIn, Mentioned, NamesOf

\* What an object has become, as its pair has it.
Value(td, hd, t) ==
  IF ReadyIn(td, hd, Len(hd) + 1, t) = {} THEN nul_term ELSE Member(ReadyIn(td, hd, Len(hd) + 1, t))

\* What comes later changes nothing about what has been.
LEMMA ReadyStays ==
  ASSUME NEW td, NEW hd, IsSeq(hd), NEW e, NEW k \in 1..Len(hd)+1, NEW t
  PROVE  ReadyIn(td, Append(hd, e), k, t) = ReadyIn(td, hd, k, t)
<1> DEFINE new == Append(hd, e)
           x   == Name(t)
<1>1. Len(hd) \in Nat /\ \A n \in 1..Len(hd) : new[n] = hd[n]
  BY AppendAny, SeqShape
<1> HIDE DEF new, x
<1>2. \A n \in 1..k-1 : new[n] = hd[n]
  BY <1>1
<1>3. GivenIn(new, k, x) = GivenIn(hd, k, x)
  BY <1>2 DEF GivenIn
<1>4. LastIn(new, k, x) = LastIn(hd, k, x) /\ \A n \in LastIn(hd, k, x) : new[n] = hd[n]
  <2>1. LastIn(new, k, x) = LastIn(hd, k, x)
    BY <1>3 DEF LastIn
  <2>2. \A n \in LastIn(hd, k, x) : n \in 1..k-1
    BY DEF LastIn, GivenIn
  <2> QED
    BY <1>2, <2>1, <2>2
<1>5. \A n \in LastIn(hd, k, x) : GotFrom(new, n, t) = GotFrom(hd, n, t)
  BY <1>4 DEF GotFrom
<1>6. {GotFrom(new, n, t) : n \in LastIn(new, k, x)} = {GotFrom(hd, n, t) : n \in LastIn(hd, k, x)}
  BY <1>4, <1>5
<1> QED
  BY <1>6 DEF ReadyIn, new, x

LEMMA OutputStays ==
  ASSUME NEW td, NEW hd, IsSeq(hd), NEW e, NEW k \in 1..Len(hd)
  PROVE  OutputIn(td, Append(hd, e), k) = OutputIn(td, hd, k)
<1> DEFINE new == Append(hd, e)
           fs  == AboutIn(td, hd[k].pred)
           h   == LineHash(hd[k])
<1>1. new[k] = hd[k]
  BY AppendAny
<1>2. ASSUME NEW t PROVE ReadyIn(td, new, k, t) = ReadyIn(td, hd, k, t)
  <2>1. k \in 1..Len(hd)+1
    BY SeqShape
  <2> QED
    BY <2>1, ReadyStays
<1> HIDE DEF new, fs, h
<1>3. ReadyOnes(td, new, k, fs) = ReadyOnes(td, hd, k, fs)
  <2>1. {n \in DOMAIN fs : ReadyIn(td, new, k, fs[n].obj) # {}}
          = {n \in DOMAIN fs : ReadyIn(td, hd, k, fs[n].obj) # {}}
    BY <1>2
  <2> QED
    BY <2>1, Zenon DEF ReadyOnes
<1>4. ASSUME NEW ready PROVE AsPairs(td, new, k, h, ready) = AsPairs(td, hd, k, h, ready)
  <2>1. ASSUME NEW n PROVE ReadyIn(td, new, k, ready[n].obj) = ReadyIn(td, hd, k, ready[n].obj)
    BY <1>2
  <2>2. ASSUME NEW n PROVE <<h, ready[n].pred, Member(ReadyIn(td, new, k, ready[n].obj))>>
                             = <<h, ready[n].pred, Member(ReadyIn(td, hd, k, ready[n].obj))>>
    BY <2>1, Zenon
  <2> QED
    BY <2>2 DEF AsPairs
<1> QED
  BY <1>1, <1>3, <1>4, Zenon DEF OutputIn, new, fs, h

\* A statement is no news for an object.
LEMMA ValueStays ==
  ASSUME NEW td, NEW hd, IsSeq(hd), NEW e, NEW t, e.kind = "ns" => ~IsAtObject(t) \/ e.prefix # Name(t)
  PROVE  Value(td, Append(hd, e), t) = Value(td, hd, t)
<1>1. CASE ~IsAtObject(t)
  BY <1>1 DEF Value, ReadyIn
<1>2. CASE IsAtObject(t)
  <2> DEFINE new == Append(hd, e)
             x   == Name(t)
             l   == Len(hd) + 1
  <2>1. Len(hd) \in Nat /\ Len(new) = l /\ (\A n \in 1..l-1 : new[n] = hd[n]) /\ new[l] = e
    <3>1. Len(hd) \in Nat /\ l - 1 = Len(hd)
      BY SeqShape
    <3> QED
      BY <3>1, AppendAny
  <2>2. ~(e.kind = "ns" /\ e.prefix = x)
    BY <1>2
  <2> HIDE DEF new, x
  <2>3. GivenIn(new, l + 1, x) = GivenIn(hd, l, x)
    <3>1. ASSUME NEW n PROVE n \in GivenIn(new, l + 1, x) <=> n \in GivenIn(hd, l, x)
      <4>1. n \in 1..(l + 1) - 1 <=> n = l \/ n \in 1..l-1
        BY <2>1
      <4> HIDE DEF l
      <4> QED
        BY <2>1, <2>2, <4>1 DEF GivenIn
    <3> QED
      BY <3>1
  <2>4. ReadyIn(td, new, l + 1, t) = ReadyIn(td, new, l, t)
    <3>1. GivenIn(new, l, x) = GivenIn(hd, l, x)
      BY <2>1 DEF GivenIn
    <3>2. LastIn(new, l + 1, x) = LastIn(new, l, x)
      BY <2>3, <3>1, Zenon DEF LastIn
    <3> HIDE DEF l
    <3> QED
      BY <3>2, Zenon DEF ReadyIn, x
  <2>5. ReadyIn(td, new, l, t) = ReadyIn(td, hd, l, t)
    <3>1. l \in 1..Len(hd)+1
      BY <2>1
    <3> HIDE DEF l
    <3> QED
      BY <3>1, ReadyStays DEF new
  <2>6. Len(new) + 1 = l + 1
    BY <2>1
  <2> HIDE DEF l
  <2>7. ReadyIn(td, new, Len(new) + 1, t) = ReadyIn(td, hd, l, t)
    BY <2>4, <2>5, <2>6, Zenon
  <2> QED
    BY <2>7, Zenon DEF Value, new, l
<1> QED
  BY <1>1, <1>2

\* The namespace that it waits for is, unless its name is hidden.
LEMMA ValueComes ==
  ASSUME NEW td, NEW hd, IsSeq(hd), NEW e, e.kind = "ns", NEW t, IsAtObject(t), e.prefix = Name(t)
  PROVE  /\ HiddenIn(td, Name(t)) => Value(td, Append(hd, e), t) = nul_term
         /\ ~HiddenIn(td, Name(t)) => Value(td, Append(hd, e), t) = With(t, e.uri \o Suffix(t))
<1> DEFINE new == Append(hd, e)
           x   == Name(t)
           l   == Len(hd) + 1
<1>1. Len(hd) \in Nat /\ Len(new) = l /\ new[l] = e /\ l \in Nat /\ l >= 1
  BY AppendAny, SeqShape
<1>2. CASE HiddenIn(td, x)
  BY <1>2 DEF Value, ReadyIn
<1>3. CASE ~HiddenIn(td, x)
  <2> HIDE DEF new, x, l
  <2>1. l \in GivenIn(new, l + 1, x) /\ \A m \in GivenIn(new, l + 1, x) : m \in Nat /\ m <= l
    <3>1. (l + 1) - 1 = l /\ l \in 1..l /\ \A m \in 1..l : m \in Nat /\ m <= l
      BY <1>1
    <3> QED
      BY <1>1, <3>1 DEF GivenIn, x
  <2>2. LastIn(new, l + 1, x) = {l}
    BY <1>1, <2>1 DEF LastIn
  <2>3. ReadyIn(td, new, l + 1, t) = {GotFrom(new, l, t)}
    BY <1>3, <2>2 DEF ReadyIn, x
  <2>4. Value(td, new, t) = GotFrom(new, l, t)
    <3>1. Len(new) + 1 = l + 1
      BY <1>1
    <3> DEFINE g == GotFrom(new, l, t)
    <3>2. Member({g}) = g
      BY DEF Member
    <3>3. {g} # {}
      OBVIOUS
    <3> HIDE DEF g
    <3> QED
      BY <2>3, <3>1, <3>2, <3>3, Zenon DEF Value, g
  <2>5. GotFrom(new, l, t) = With(t, e.uri \o Suffix(t))
    BY <1>1, Zenon DEF GotFrom, With
  <2> QED
    BY <1>3, <2>4, <2>5, Zenon DEF new, x
<1> QED
  BY <1>2, <1>3

\* Before there is any input, an @ object waits.
LEMMA ValueAtFirst ==
  ASSUME NEW td, NEW t
  PROVE  Value(td, <<>>, t) = Left(t)
<1>1. Len(<<>>) + 1 = 1 /\ 1..1-1 = {}
  BY EmptyAny
<1>2. GivenIn(<<>>, 1, Name(t)) = {}
  BY <1>1 DEF GivenIn
<1>3. LastIn(<<>>, 1, Name(t)) = {}
  BY <1>2 DEF LastIn
<1>4. ReadyIn(td, <<>>, 1, t) = IF IsAtObject(t) THEN {} ELSE {t}
  BY <1>3 DEF ReadyIn
<1>5. CASE IsAtObject(t)
  <2>1. ReadyIn(td, <<>>, Len(<<>>) + 1, t) = {}
    BY <1>1, <1>4, <1>5, Zenon
  <2> QED
    BY <1>5, <2>1, Zenon DEF Value, Left
<1>6. CASE ~IsAtObject(t)
  <2>1. ReadyIn(td, <<>>, Len(<<>>) + 1, t) = {t}
    BY <1>1, <1>4, <1>6, Zenon
  <2>2. Member({t}) = t /\ {t} # {}
    BY DEF Member
  <2> QED
    BY <1>6, <2>1, <2>2, Zenon DEF Value, Left
<1> QED
  BY <1>5, <1>6

\* A value is nul_term if and only if the object is not ready.
LEMMA ValueReady ==
  ASSUME NEW td, NEW hd, NEW t \in Term
  PROVE  LET R == ReadyIn(td, hd, Len(hd) + 1, t)
         IN  /\ Value(td, hd, t) = IF R = {} THEN nul_term ELSE Member(R)
             /\ Value(td, hd, t).type # "unknown" <=> R # {}
<1> DEFINE R == ReadyIn(td, hd, Len(hd) + 1, t)
<1>1. Value(td, hd, t) = IF R = {} THEN nul_term ELSE Member(R)
  BY Zenon DEF Value
<1>2. \A o \in R : o.type # "unknown"
  <2>1. t.type # "unknown" /\ t = [type |-> t.type, str |-> t.str]
    BY DEF Term
  <2>2. ASSUME NEW s PROVE [t EXCEPT !.str = s].type = t.type
    BY <2>1
  <2>3. \A n : GotFrom(hd, n, t).type = t.type
    BY <2>2 DEF GotFrom
  <2> QED
    BY <2>1, <2>3 DEF ReadyIn
<1> HIDE DEF R
<1>3. R # {} => Member(R) \in R
  BY DEF Member
<1>4. nul_term.type = "unknown"
  BY DEF nul_term
<1> QED
  BY <1>1, <1>2, <1>3, <1>4 DEF R

---------------------------------------------------------------------------
(* The statements of the filter and the pairs they leave.                  *)

\* What nscp() puts together for an object of the name that is declared.
LEMMA ResolvedIs ==
  ASSUME NEW t \in Term, IsAtObject(t), NEW e, e.prefix = Name(t)
  PROVE  Resolved(t, e) = With(t, e.uri \o Suffix(t))
<1> DEFINE l    == Len(t.str)
           s    == t.str
           ends == {p \in 2..l : s[p] = Colon} \cup {l + 1}
           m    == Min(ends)
           n    == Len(Name(t))
           sfx  == IF n < l - 1 /\ s[n + 2] = Colon THEN SubSeq(s, n + 3, l) ELSE <<>>
<1>1. s \in Seq(Nat) /\ l \in Nat /\ l >= 1 /\ n \in Nat /\ n <= l - 1
  BY NameShape
<1>2. m \in ends /\ m \in 2..l+1
  <2>1. ends \subseteq Nat /\ ends # {} /\ ends \subseteq 2..l+1
    BY <1>1
  <2>2. m \in ends
    <3> HIDE DEF ends
    <3> QED
      BY <2>1, MinOf
  <2> QED
    BY <2>1, <2>2
<1>3. Name(t) = SubSeq(s, 2, m - 1)
  BY DEF Name
<1>4. n = m - 2
  <2> HIDE DEF ends, m, s
  <2>1. 2 \in 1..Len(s)+1 /\ m - 1 \in (2 - 1)..Len(s) /\ ((m - 1) - 2) + 1 = m - 2
    <3>1. Len(s) = l /\ l \in Nat /\ m \in 2..l+1
      BY <1>1, <1>2 DEF s
    <3> HIDE DEF l
    <3> QED
      BY <3>1
  <2>2. Len(SubSeq(s, 2, m - 1)) = IF 2 <= m - 1 THEN ((m - 1) - 2) + 1 ELSE 0
    BY <1>1, <2>1, SubSeqProperties
  <2>3. m \in Nat /\ m >= 2
    BY <1>1, <1>2
  <2> QED
    BY <1>3, <2>1, <2>2, <2>3
<1>5. sfx = SubSeq(s, n + 3, l)
  <2>1. CASE n < l - 1
    <3>1. m # l + 1 /\ m = n + 2
      BY <1>1, <1>2, <1>4, <2>1
    <3>2. s[n + 2] = Colon
      BY <1>2, <3>1
    <3> QED
      BY <2>1, <3>2
  <2>2. CASE ~(n < l - 1)
    <3>1. n + 3 = l + 2
      BY <1>1, <2>2
    <3>2. SubSeq(s, n + 3, l) = <<>>
      <4> HIDE DEF s, n
      <4>1. l \in Nat /\ n + 3 > l
        BY <1>1, <3>1
      <4> HIDE DEF l
      <4> QED
        BY <1>1, <4>1
    <3> QED
      BY <2>2, <3>2
  <2> QED
    BY <2>1, <2>2
<1>6. Resolved(t, e) = [t EXCEPT !.str = e.uri \o sfx]
  BY Zenon DEF Resolved
<1> QED
  BY <1>5, <1>6, Zenon DEF Suffix, With

LEMMA AboutShape ==
  ASSUME NEW td, IsSeq(td), NEW s
  PROVE  /\ IsSeq(AboutIn(td, s))
         /\ \A k \in 1..Len(AboutIn(td, s)) : \E n \in 1..Len(td) :
              AboutIn(td, s)[k] = td[n] /\ td[n].kind = "stmt" /\ td[n].subj = s
<1> DEFINE I == {n \in DOMAIN td : td[n].kind = "stmt" /\ td[n].subj = s}
<1>1. Len(td) \in Nat /\ DOMAIN td = 1..Len(td)
  BY SeqShape
<1> DEFINE a == Kept(td, I)
<1>2. Alike(a, a, td, td, I, Len(td))
  <2> HIDE DEF I
  <2> QED
    BY <1>1, KeptAlike
<1>3. AboutIn(td, s) = a
  BY DEF AboutIn
<1> HIDE DEF a
<1> QED
  BY <1>2, <1>3 DEF Alike

LEMMA AboutAppend ==
  ASSUME NEW td, IsSeq(td), NEW e, NEW s
  PROVE  AboutIn(Append(td, e), s) =
           IF e.kind = "stmt" /\ e.subj = s THEN Append(AboutIn(td, s), e) ELSE AboutIn(td, s)
<1> DEFINE new  == Append(td, e)
           I    == {n \in DOMAIN td : td[n].kind = "stmt" /\ td[n].subj = s}
           J    == {n \in DOMAIN new : new[n].kind = "stmt" /\ new[n].subj = s}
<1>1. /\ Len(td) \in Nat /\ DOMAIN td = 1..Len(td) /\ DOMAIN new = 1..Len(td)+1
      /\ (\A n \in 1..Len(td) : new[n] = td[n]) /\ new[Len(td) + 1] = e
  BY AppendAny, SeqShape
<1> HIDE DEF new
<1>2. \A k \in 1..Len(td) : k \in I <=> k \in J
  BY <1>1
<1>3. Len(td) + 1 \in J <=> e.kind = "stmt" /\ e.subj = s
  BY <1>1
<1> HIDE DEF I, J
<1>4. Kept(new, J) = IF Len(td) + 1 \in J THEN Append(Kept(td, I), e) ELSE Kept(td, I)
  BY <1>2, KeptAppend DEF new
<1> QED
  BY <1>3, <1>4, Zenon DEF AboutIn, new, I, J

LEMMA AboutNobody ==
  ASSUME NEW td, IsSeq(td), NEW s, \A n \in 1..Len(td) : ~(td[n].kind = "stmt" /\ td[n].subj = s)
  PROVE  AboutIn(td, s) = <<>>
<1> DEFINE a == AboutIn(td, s)
<1>1. IsSeq(a) /\ \A k \in 1..Len(a) : FALSE
  BY AboutShape
<1> HIDE DEF a
<1>2. Len(a) \in Nat
  BY <1>1, SeqShape
<1>3. Len(a) = 0
  <2> SUFFICES ASSUME Len(a) # 0 PROVE FALSE
    OBVIOUS
  <2>1. 1 \in 1..Len(a)
    BY <1>2
  <2> QED
    BY <1>1, <2>1
<1>4. a = <<>>
  BY <1>1, <1>3, EmptyAny, SameAny
<1> QED
  BY <1>4 DEF a

\* Each subject has as many pairs as the filter has statements about it, and it has some.
AboutInv ==
  /\ \A i \in 1..Len(terms) : /\ Len(AboutIn(told, terms[i])) >= 1
                              /\ Len(beefs[i]) = Len(AboutIn(told, terms[i]))
  /\ \A n \in 1..Len(told) : told[n].kind = "stmt" => \E i \in 1..Len(terms) : terms[i] = told[n].subj

\* What waits in a slot is the object of a pair.
EntInv ==
  \A q \in 1..Len(cords) : \A k \in 1..Len(cords[q].ent) :
    LET c == cords[q].ent[k] IN c.proto = AboutIn(told, terms[c.i])[c.j].obj

\* An @ object waits wherever its name is found.
HasEnt(cs, q, c) == q \in 1..Len(cs) /\ \E k \in 1..Len(cs[q].ent) : cs[q].ent[k] = c
Waits(rp, cs, i, j, o) ==
  \A r \in FindRplc(rp, Name(o)) : r \in Nat /\ HasEnt(cs, r + 1, [i |-> i, j |-> j, proto |-> o])
WaitInv ==
  ~far /\ NamesPlain /\ NamesEnd =>
    \A i \in 1..Len(terms) : \A j \in 1..Len(beefs[i]) : \A o :
      o = AboutIn(told, terms[i])[j].obj /\ IsAtObject(o) => Waits(rplc, cords, i, j, o)

\* A pair has the predicate of its statement and what has become of the object.
PairInv ==
  ~far /\ NamesPlain /\ NamesEnd =>
    \A i \in 1..Len(terms) : \A j \in 1..Len(beefs[i]) : \A f :
      f = AboutIn(told, terms[i])[j] => beefs[i][j] = <<f.pred, Value(told, heard, f.obj)>>

\* flts(): the list that gets the pair, which may be a new one.
LEMMA FltsShape ==
  ASSUME CoordInv, NEW e, Flts(e)
  PROVE  \E i, j, b :
           /\ i \in 1..Len(terms') /\ terms'[i] = e.subj
           /\ \A n \in 1..Len(terms) : n \in 1..Len(terms') /\ terms'[n] = terms[n]
           /\ \A n \in 1..Len(terms') : n # i => n \in 1..Len(terms) /\ beefs'[n] = beefs[n]
           /\ \/ i \in 1..Len(terms) /\ b = beefs[i]
              \/ i = Len(terms) + 1 /\ b = <<>> /\ \A n \in 1..Len(terms) : terms[n] # e.subj
           /\ IsSeq(b) /\ j = Len(b) + 1
           /\ beefs'[i] = Append(b, <<e.pred, Left(e.obj)>>)
           /\ IF IsAtObject(e.obj)
                THEN LET g == Registered(i, j, e.obj)
                     IN  rplc' = g.rplc /\ cords' = g.cords /\ (g.far => far')
                ELSE rplc' = rplc /\ cords' = cords
<1>1. PICK i, bs, j :
        /\ \/ /\ i = Len(terms) + 1 /\ bs = Append(beefs, <<>>) /\ terms' = Append(terms, e.subj)
              /\ \A n \in DOMAIN terms : terms[n] # e.subj
           \/ i \in DOMAIN terms /\ terms[i] = e.subj /\ bs = beefs /\ terms' = terms
        /\ j = Len(bs[i]) + 1
        /\ beefs' = [bs EXCEPT ![i] = Append(bs[i], <<e.pred, Left(e.obj)>>)]
        /\ IF IsAtObject(e.obj)
             THEN LET g == Registered(i, j, e.obj)
                  IN  rplc' = g.rplc /\ cords' = g.cords /\ (g.far => far')
             ELSE rplc' = rplc /\ cords' = cords
  <2> DEFINE at == {n \in DOMAIN terms : terms[n] = e.subj}
             i  == IF at = {} THEN Len(terms) + 1 ELSE CHOOSE n \in at : TRUE
             bs == IF at = {} THEN Append(beefs, <<>>) ELSE beefs
             j  == Len(bs[i]) + 1
             g  == Registered(i, j, e.obj)
             r  == IF IsAtObject(e.obj) THEN g
                   ELSE [rplc |-> rplc, zrplc |-> zrplc, cords |-> cords, far |-> FALSE]
  <2>1. /\ terms' = IF at = {} THEN Append(terms, e.subj) ELSE terms
        /\ beefs' = [bs EXCEPT ![i] = Append(bs[i], <<e.pred, Left(e.obj)>>)]
        /\ rplc' = r.rplc /\ cords' = r.cords
        /\ r.far => far'
    BY Zenon DEF Flts
  <2>2. CASE at = {}
    <3>1. i = Len(terms) + 1 /\ bs = Append(beefs, <<>>) /\ terms' = Append(terms, e.subj)
      BY <2>1, <2>2
    <3>2. \A n \in DOMAIN terms : terms[n] # e.subj
      BY <2>2
    <3> HIDE DEF at, i, bs, g
    <3> QED
      BY <2>1, <3>1, <3>2 DEF g
  <2>3. CASE at # {}
    <3>1. i \in DOMAIN terms /\ terms[i] = e.subj /\ bs = beefs /\ terms' = terms
      <4>1. i \in at
        BY <2>3
      <4> QED
        BY <2>1, <2>3, <4>1
    <3> HIDE DEF at, i, bs, g
    <3> QED
      BY <2>1, <3>1 DEF g
  <2> QED
    BY <2>2, <2>3
<1> DEFINE pair == <<e.pred, Left(e.obj)>>
           p    == Append(bs[i], pair)
<1>2. /\ IsSeq(terms) /\ IsSeq(beefs) /\ Len(beefs) = Len(terms) /\ Len(terms) \in Nat
      /\ DOMAIN terms = 1..Len(terms) /\ DOMAIN beefs = 1..Len(terms)
      /\ \A n \in 1..Len(terms) : IsSeq(beefs[n])
  BY SeqShape DEF CoordInv, TermsDistinct, ArePairs
<1> HIDE DEF p, pair
<1>3. /\ IsSeq(bs) /\ Len(bs) = Len(terms') /\ i \in 1..Len(terms') /\ terms'[i] = e.subj
      /\ \A n \in 1..Len(terms) : n \in 1..Len(terms') /\ terms'[n] = terms[n] /\ bs[n] = beefs[n]
      /\ \A n \in 1..Len(terms') : n # i => n \in 1..Len(terms)
      /\ \/ i \in 1..Len(terms) /\ bs[i] = beefs[i]
         \/ i = Len(terms) + 1 /\ bs[i] = <<>> /\ \A n \in 1..Len(terms) : terms[n] # e.subj
      /\ IsSeq(bs[i])
  <2>1. CASE i \in DOMAIN terms /\ terms[i] = e.subj /\ bs = beefs /\ terms' = terms
    BY <1>2, <2>1
  <2>2. CASE /\ i = Len(terms) + 1 /\ bs = Append(beefs, <<>>) /\ terms' = Append(terms, e.subj)
             /\ \A n \in DOMAIN terms : terms[n] # e.subj
    <3>1. /\ Len(terms') = Len(terms) + 1
          /\ \A n \in 1..Len(terms) : terms'[n] = terms[n]
          /\ terms'[Len(terms) + 1] = e.subj
      BY <1>2, <2>2, AppendAny
    <3>2. /\ IsSeq(bs) /\ Len(bs) = Len(terms) + 1
          /\ \A n \in 1..Len(terms) : bs[n] = beefs[n]
          /\ bs[Len(terms) + 1] = <<>>
      BY <1>2, <2>2, AppendAny
    <3>3. /\ Len(terms) + 1 \in 1..Len(terms) + 1
          /\ \A n \in 1..Len(terms) : n \in 1..Len(terms) + 1
          /\ \A n \in 1..Len(terms) + 1 : n # Len(terms) + 1 => n \in 1..Len(terms)
      BY <1>2
    <3> QED
      BY <1>2, <2>2, <3>1, <3>2, <3>3, EmptyAny
  <2> QED
    BY <1>1, <2>1, <2>2
<1>4. /\ IsSeq(beefs') /\ Len(beefs') = Len(bs)
      /\ \A n \in 1..Len(bs) : beefs'[n] = IF n = i THEN p ELSE bs[n]
  <2>1. /\ IsSeq([bs EXCEPT ![i] = p]) /\ Len([bs EXCEPT ![i] = p]) = Len(bs)
        /\ \A n \in 1..Len(bs) : [bs EXCEPT ![i] = p][n] = IF n = i THEN p ELSE bs[n]
    BY <1>3, ExceptAny
  <2>2. beefs' = [bs EXCEPT ![i] = p]
    BY <1>1 DEF p, pair
  <2> QED
    BY <2>1, <2>2
<1>5. /\ beefs'[i] = Append(bs[i], <<e.pred, Left(e.obj)>>)
      /\ \A n \in 1..Len(terms') : n # i => n \in 1..Len(terms) /\ beefs'[n] = beefs[n]
  BY <1>3, <1>4 DEF p, pair
<1> QED
  BY <1>1, <1>3, <1>5, SMTT(30)

\* The pairs after a statement of the filter: the new one and those that were there.
LEMMA FltsPairs ==
  ASSUME CoordInv, IsSeq(told), AboutInv, NEW e, e.kind = "stmt", Flts(e), told' = Append(told, e),
         TermsDistinct'
  PROVE  /\ AboutInv'
         /\ \E i, j :
              /\ i \in 1..Len(terms') /\ j \in 1..Len(beefs'[i])
              /\ AboutIn(told', terms'[i])[j] = e
              /\ \A n \in 1..Len(terms) : \A m \in 1..Len(beefs[n]) :
                   /\ n \in 1..Len(terms') /\ m \in 1..Len(beefs'[n])
                   /\ AboutIn(told', terms'[n])[m] = AboutIn(told, terms[n])[m]
              /\ \A n \in 1..Len(terms') : \A m \in 1..Len(beefs'[n]) :
                   \/ n = i /\ m = j /\ beefs'[n][m] = <<e.pred, Left(e.obj)>>
                   \/ n \in 1..Len(terms) /\ m \in 1..Len(beefs[n]) /\ beefs'[n][m] = beefs[n][m]
              /\ IF IsAtObject(e.obj)
                   THEN LET g == Registered(i, j, e.obj)
                        IN  rplc' = g.rplc /\ cords' = g.cords /\ (g.far => far')
                   ELSE rplc' = rplc /\ cords' = cords
<1>1. PICK i, j, b :
           /\ i \in 1..Len(terms') /\ terms'[i] = e.subj
           /\ \A n \in 1..Len(terms) : n \in 1..Len(terms') /\ terms'[n] = terms[n]
           /\ \A n \in 1..Len(terms') : n # i => n \in 1..Len(terms) /\ beefs'[n] = beefs[n]
           /\ \/ i \in 1..Len(terms) /\ b = beefs[i]
              \/ i = Len(terms) + 1 /\ b = <<>> /\ \A n \in 1..Len(terms) : terms[n] # e.subj
           /\ IsSeq(b) /\ j = Len(b) + 1
           /\ beefs'[i] = Append(b, <<e.pred, Left(e.obj)>>)
           /\ IF IsAtObject(e.obj)
                THEN LET g == Registered(i, j, e.obj)
                     IN  rplc' = g.rplc /\ cords' = g.cords /\ (g.far => far')
                ELSE rplc' = rplc /\ cords' = cords
  BY FltsShape
<1> DEFINE a  == AboutIn(told, e.subj)
           a2 == AboutIn(told', e.subj)
           pr == <<e.pred, Left(e.obj)>>
<1>2. Len(terms) \in Nat /\ IsSeq(terms) /\ DOMAIN terms = 1..Len(terms)
  BY SeqShape DEF CoordInv
<1>3. a2 = Append(a, e) /\ IsSeq(a)
  BY AboutAppend, AboutShape
<1>4. \A n \in 1..Len(terms') : n # i => terms'[n] # e.subj
  <2>1. DOMAIN terms' = 1..Len(terms')
    <3>1. CoordInv'
      BY FltsStep
    <3> QED
      BY <3>1, SeqShape DEF CoordInv
  <2> QED
    BY <1>1, <2>1 DEF TermsDistinct, IsInjective
<1>5. \A n \in 1..Len(terms') : n # i => AboutIn(told', terms'[n]) = AboutIn(told, terms[n])
  <2> SUFFICES ASSUME NEW n \in 1..Len(terms'), n # i
               PROVE  AboutIn(told', terms'[n]) = AboutIn(told, terms[n])
    OBVIOUS
  <2>1. terms'[n] = terms[n] /\ e.subj # terms[n]
    BY <1>1, <1>4
  <2>2. AboutIn(told', terms[n]) = AboutIn(told, terms[n])
    BY <2>1, AboutAppend
  <2> QED
    BY <2>1, <2>2
<1>6. Len(a) = Len(b)
  <2>1. CASE i \in 1..Len(terms) /\ b = beefs[i]
    <3>1. terms[i] = e.subj
      BY <1>1, <2>1
    <3> QED
      BY <2>1, <3>1 DEF AboutInv
  <2>2. CASE i = Len(terms) + 1 /\ b = <<>> /\ \A n \in 1..Len(terms) : terms[n] # e.subj
    <3>1. \A n \in 1..Len(told) : ~(told[n].kind = "stmt" /\ told[n].subj = e.subj)
      BY <2>2 DEF AboutInv
    <3>2. a = <<>>
      BY <3>1, AboutNobody
    <3> QED
      BY <2>2, <3>2
  <2> QED
    BY <1>1, <2>1, <2>2
<1> HIDE DEF a, a2, pr
<1>7. /\ IsSeq(a2) /\ Len(a2) = j /\ (\A m \in 1..j-1 : a2[m] = a[m]) /\ a2[j] = e
      /\ j \in Nat /\ j >= 1 /\ Len(b) = j - 1
  <2>1. IsSeq(a2) /\ Len(a2) = Len(a) + 1 /\ (\A m \in 1..Len(a) : a2[m] = a[m]) /\ a2[Len(a) + 1] = e
    BY <1>3, AppendAny
  <2>2. Len(b) \in Nat /\ j = Len(b) + 1
    BY <1>1, SeqShape
  <2>3. Len(a) = j - 1 /\ j \in Nat /\ j >= 1 /\ Len(b) = j - 1 /\ Len(a) + 1 = j
    BY <1>6, <2>2
  <2> QED
    BY <2>1, <2>3
<1>8. Len(beefs'[i]) = j /\ (\A m \in 1..j-1 : beefs'[i][m] = b[m]) /\ beefs'[i][j] = pr
  <2> DEFINE c == Append(b, pr)
  <2>1. Len(c) = Len(b) + 1 /\ (\A m \in 1..Len(b) : c[m] = b[m]) /\ c[Len(b) + 1] = pr
    BY <1>1, AppendAny
  <2>2. beefs'[i] = c
    BY <1>1 DEF pr
  <2>3. Len(b) + 1 = j
    BY <1>1
  <2> HIDE DEF c
  <2> QED
    BY <1>7, <2>1, <2>2, <2>3
<1>9. AboutIn(told', terms'[i]) = a2
  BY <1>1 DEF a2
<1>10. \A m \in 1..j : m \in 1..j-1 \/ m = j
  BY <1>7
<1>11. i \in 1..Len(terms) => terms[i] = e.subj /\ b = beefs[i] /\ AboutIn(told, terms[i]) = a
  <2> SUFFICES ASSUME i \in 1..Len(terms)
               PROVE  terms[i] = e.subj /\ b = beefs[i] /\ AboutIn(told, terms[i]) = a
    OBVIOUS
  <2>1. i # Len(terms) + 1
    BY <1>2
  <2>2. terms[i] = e.subj
    BY <1>1
  <2> QED
    BY <1>1, <2>1, <2>2 DEF a
<1>12. i \notin 1..Len(terms) => b = <<>> /\ j = 1
  BY <1>1, <1>7, EmptyAny
<1>13. AboutInv'
  <2>1. ASSUME NEW n \in 1..Len(terms')
        PROVE  Len(AboutIn(told', terms'[n])) >= 1 /\ Len(beefs'[n]) = Len(AboutIn(told', terms'[n]))
    <3>1. CASE n = i
      BY <1>7, <1>8, <1>9, <3>1
    <3>2. CASE n # i
      BY <1>1, <1>5, <3>2 DEF AboutInv
    <3> QED
      BY <3>1, <3>2
  <2>2. ASSUME NEW n \in 1..Len(told'), told'[n].kind = "stmt"
        PROVE  \E k \in 1..Len(terms') : terms'[k] = told'[n].subj
    <3>1. /\ Len(told') = Len(told) + 1 /\ Len(told) \in Nat
          /\ (\A k \in 1..Len(told) : told'[k] = told[k]) /\ told'[Len(told) + 1] = e
      BY ToldGrows
    <3>2. CASE n \in 1..Len(told)
      <4>1. PICK k \in 1..Len(terms) : terms[k] = told[n].subj
        BY <2>2, <3>1, <3>2 DEF AboutInv
      <4> QED
        BY <1>1, <3>1, <3>2, <4>1
    <3>3. CASE n = Len(told) + 1
      BY <1>1, <3>1, <3>3
    <3> QED
      BY <3>1, <3>2, <3>3
  <2> QED
    BY <2>1, <2>2 DEF AboutInv
<1>14. ASSUME NEW n \in 1..Len(terms), NEW m \in 1..Len(beefs[n])
       PROVE  /\ n \in 1..Len(terms') /\ m \in 1..Len(beefs'[n])
              /\ AboutIn(told', terms'[n])[m] = AboutIn(told, terms[n])[m]
  <2>1. CASE n = i
    <3>1. b = beefs[n] /\ AboutIn(told, terms[n]) = a
      BY <1>11, <2>1
    <3>2. m \in 1..j-1
      BY <1>7, <3>1
    <3>3. m \in 1..j
      BY <1>7, <3>2
    <3> QED
      BY <1>1, <1>7, <1>8, <1>9, <2>1, <3>1, <3>2, <3>3
  <2>2. CASE n # i
    <3>1. n \in 1..Len(terms')
      BY <1>1
    <3> QED
      BY <1>1, <1>5, <2>2, <3>1
  <2> QED
    BY <2>1, <2>2
<1>15. ASSUME NEW n \in 1..Len(terms'), NEW m \in 1..Len(beefs'[n])
       PROVE  \/ n = i /\ m = j /\ beefs'[n][m] = pr
              \/ n \in 1..Len(terms) /\ m \in 1..Len(beefs[n]) /\ beefs'[n][m] = beefs[n][m]
  <2>1. CASE n = i
    <3>1. m \in 1..j
      BY <1>8, <2>1
    <3>2. CASE m = j
      BY <1>8, <2>1, <3>2
    <3>3. CASE m \in 1..j-1
      <4>1. i \in 1..Len(terms)
        BY <1>7, <1>12, <3>3
      <4>2. b = beefs[i] /\ m \in 1..Len(b)
        BY <1>7, <1>11, <3>3, <4>1
      <4> QED
        BY <1>8, <2>1, <3>3, <4>1, <4>2
    <3> QED
      BY <1>10, <3>1, <3>2, <3>3
  <2>2. CASE n # i
    BY <1>1, <2>2
  <2> QED
    BY <2>1, <2>2
<1>16. j \in 1..Len(beefs'[i]) /\ AboutIn(told', terms'[i])[j] = e
  <2>1. j \in 1..j
    BY <1>7
  <2>2. a2[j] = e
    BY <1>7
  <2>3. Len(beefs'[i]) = j
    BY <1>8
  <2>4. j \in 1..Len(beefs'[i])
    BY <2>1, <2>3
  <2>5. AboutIn(told', terms'[i])[j] = e
    BY <1>9, <2>2
  <2> QED
    BY <2>4, <2>5
<1>17. \A n \in 1..Len(terms) : \A m \in 1..Len(beefs[n]) :
         /\ n \in 1..Len(terms') /\ m \in 1..Len(beefs'[n])
         /\ AboutIn(told', terms'[n])[m] = AboutIn(told, terms[n])[m]
  BY <1>14
<1>18. \A n \in 1..Len(terms') : \A m \in 1..Len(beefs'[n]) :
         \/ n = i /\ m = j /\ beefs'[n][m] = <<e.pred, Left(e.obj)>>
         \/ n \in 1..Len(terms) /\ m \in 1..Len(beefs[n]) /\ beefs'[n][m] = beefs[n][m]
  BY <1>15 DEF pr
<1>19. i \in 1..Len(terms') /\ IF IsAtObject(e.obj)
         THEN LET g == Registered(i, j, e.obj)
              IN  rplc' = g.rplc /\ cords' = g.cords /\ (g.far => far')
         ELSE rplc' = rplc /\ cords' = cords
  BY <1>1
<1> HIDE <1>1
<1> QED
  BY <1>13, <1>16, <1>17, <1>18, <1>19, ZenonT(60)

\* An @ object is put behind those that are in its slot, and the rest stays.
LEMMA SlotsKeep ==
  ASSUME NEW cs, AreSlots(cs), NEW r \in Nat
  PROVE  \A q \in 1..Len(cs) : q \in 1..Len(Slots(cs, r)) /\ Slots(cs, r)[q] = cs[q]
<1> DEFINE n == IF cs = <<>> THEN Cords0 ELSE Len(cs)
<1>1. Len(cs) \in Nat /\ n \in Nat
  BY SeqShape, MetarapAssumption DEF AreSlots
<1>2. CASE r < Len(cs)
  BY <1>2 DEF Slots
<1>3. CASE ~(r < Len(cs))
  <2> HIDE DEF n
  <2> DEFINE new == NewSlots(n)
  <2>1. IsSeq(new) /\ Len(new) = n
    BY <1>1, FunctionAny DEF NewSlots
  <2>2. Slots(cs, r) = cs \o new
    BY <1>3 DEF Slots, n
  <2> HIDE DEF new
  <2>3. /\ Len(cs \o new) = Len(cs) + n
        /\ \A q \in 1..Len(cs) + n :
             (cs \o new)[q] = IF q <= Len(cs) THEN cs[q] ELSE new[q - Len(cs)]
    BY <2>1, ConcatAny DEF AreSlots
  <2>4. \A q \in 1..Len(cs) : q \in 1..Len(cs) + n /\ q <= Len(cs)
    BY <1>1
  <2> QED
    BY <2>2, <2>3, <2>4
<1> QED
  BY <1>2, <1>3

\* All that is in a slot of bs is in the slot of cs.
HaveAll(cs, bs) ==
  \A q \in 1..Len(bs) : \A k \in 1..Len(bs[q].ent) :
    q \in 1..Len(cs) /\ k \in 1..Len(cs[q].ent) /\ cs[q].ent[k] = bs[q].ent[k]

LEMMA RegisteredHere ==
  ASSUME AreSlots(cords), rplc \in Seq(Nat), NEW i, NEW j, NEW t, Name(t) \in Seq(Nat),
         NEW g, g = Registered(i, j, t), ~g.far
  PROVE  \E r \in Nat :
           /\ \/ /\ FindRplc(rplc, Name(t)) = {} /\ r = Len(rplc) \div WordSize
                 /\ g.rplc = AddRplc(rplc, Name(t))
              \/ r \in FindRplc(rplc, Name(t)) /\ g.rplc = rplc
           /\ HasEnt(g.cords, r + 1, [i |-> i, j |-> j, proto |-> t])
           /\ HaveAll(g.cords, cords)
<1> DEFINE name == Name(t)
<1>1. PICK r \in Nat :
        /\ \/ FindRplc(rplc, name) = {} /\ r = Len(rplc) \div WordSize /\ g.rplc = AddRplc(rplc, name)
           \/ r \in FindRplc(rplc, name) /\ g.rplc = rplc
        /\ r < Len(Slots(cords, r))
        /\ g.cords = [Slots(cords, r) EXCEPT ![r + 1] = WithCord(Slots(cords, r)[r + 1], i, j, t, Sufx(t))]
  <2> DEFINE known == FindRplc(rplc, Name(t))
             fresh == known = {}
             r     == IF fresh THEN Len(rplc) \div WordSize ELSE CHOOSE x \in known : TRUE
             names == IF fresh THEN AddRplc(rplc, Name(t)) ELSE rplc
             room  == IF fresh THEN RplcRoom(rplc, zrplc, Name(t)) ELSE zrplc
             cs    == Slots(cords, r)
             c     == WithCord(cs[r + 1], i, j, t, Sufx(t))
  <2>1. \/ fresh /\ r = Len(rplc) \div WordSize /\ names = AddRplc(rplc, name)
        \/ r \in known /\ names = rplc
    <3>1. CASE fresh
      BY <3>1
    <3>2. CASE ~fresh
      <4>1. r \in known
        BY <3>2
      <4> QED
        BY <3>2, <4>1
    <3> QED
      BY <3>1, <3>2
  <2> HIDE DEF r
  <2>2. r \in Nat
    <3>1. CASE r = Len(rplc) \div WordSize
      <4>1. Len(rplc) \in Nat /\ WordSize \in Nat \ {0}
        BY WordPositive
      <4> QED
        BY <3>1, <4>1, DivMod
    <3>2. CASE r \in known
      <4>1. PICK q \in 1..Len(rplc) : r = q \div WordSize
        BY <3>2, FoundBehindAt
      <4>2. q \in Nat /\ WordSize \in Nat \ {0}
        BY WordPositive
      <4> QED
        BY <4>1, <4>2, DivMod
    <3> QED
      BY <2>1, <3>1, <3>2
  <2>3. g = [rplc  |-> names,
             zrplc |-> room,
             cords |-> IF r < Len(cs) THEN [cs EXCEPT ![r + 1] = c] ELSE cs,
             far   |-> Len(names) > room \/ (r < Len(cs) => 2 * Len(c.ent) > c.cap)]
    BY Zenon DEF Registered, r
  <2> HIDE DEF known, r, names, room, cs, c
  <2>4. g.rplc = names /\ r < Len(cs) /\ g.cords = [cs EXCEPT ![r + 1] = c]
    <3>1. g.rplc = names /\ g.cords = IF r < Len(cs) THEN [cs EXCEPT ![r + 1] = c] ELSE cs
      BY <2>3
    <3>2. g.far = (Len(names) > room \/ (r < Len(cs) => 2 * Len(c.ent) > c.cap))
      BY <2>3
    <3>3. ~g.far
      OBVIOUS
    <3>4. r < Len(cs)
      BY <3>2, <3>3
    <3> QED
      BY <3>1, <3>4
  <2>5. g.cords = [Slots(cords, r) EXCEPT ![r + 1] = WithCord(Slots(cords, r)[r + 1], i, j, t, Sufx(t))]
    BY <2>4, Zenon DEF c, cs
  <2>6. r < Len(Slots(cords, r))
    BY <2>4 DEF cs
  <2>7. \/ FindRplc(rplc, name) = {} /\ r = Len(rplc) \div WordSize /\ g.rplc = AddRplc(rplc, name)
        \/ r \in FindRplc(rplc, name) /\ g.rplc = rplc
    BY <2>1, <2>4 DEF known
  <2> HIDE DEF fresh, name
  <2> QED
    BY <2>2, <2>5, <2>6, <2>7
<1> DEFINE cs  == Slots(cords, r)
           new == [i |-> i, j |-> j, proto |-> t]
           c   == WithCord(cs[r + 1], i, j, t, Sufx(t))
           s   == g.cords
           x   == r + 1
<1>2. AreSlots(cs) /\ \A q \in 1..Len(cords) : q \in 1..Len(cs) /\ cs[q] = cords[q]
  BY SlotsShape, SlotsKeep
<1>3. s = [cs EXCEPT ![x] = c] /\ r < Len(cs)
  BY <1>1
<1>4. c.ent = Append(cs[x].ent, new)
  BY DEF WithCord
<1>5. x \in 1..Len(cs) /\ x = r + 1
  <2>1. Len(cs) \in Nat
    BY <1>2, SeqShape DEF AreSlots
  <2> HIDE DEF cs
  <2> QED
    BY <1>3, <2>1
<1> HIDE DEF cs, s, c, new, x
<1>6. /\ IsSeq(c.ent) /\ Len(c.ent) = Len(cs[x].ent) + 1
      /\ \A k \in 1..Len(cs[x].ent) : c.ent[k] = cs[x].ent[k]
      /\ c.ent[Len(cs[x].ent) + 1] = new
      /\ Len(cs[x].ent) \in Nat
  <2>1. IsSeq(cs[x].ent)
    BY <1>2, <1>5 DEF AreSlots
  <2> QED
    BY <1>4, <2>1, AppendAny, SeqShape
<1>7. Len(s) = Len(cs) /\ \A q \in 1..Len(cs) : s[q] = IF q = x THEN c ELSE cs[q]
  <2>1. IsSeq(cs)
    BY <1>2 DEF AreSlots
  <2>2. /\ Len([cs EXCEPT ![x] = c]) = Len(cs)
        /\ \A q \in 1..Len(cs) : [cs EXCEPT ![x] = c][q] = IF q = x THEN c ELSE cs[q]
    BY <1>5, <2>1, ExceptAny
  <2> QED
    BY <1>3, <2>2
<1>8. ASSUME NEW q \in 1..Len(cords), NEW k \in 1..Len(cords[q].ent)
      PROVE  q \in 1..Len(s) /\ k \in 1..Len(s[q].ent) /\ s[q].ent[k] = cords[q].ent[k]
  <2>1. q \in 1..Len(cs) /\ cs[q] = cords[q]
    BY <1>2
  <2>2. CASE q = x
    <3>1. k \in 1..Len(cs[x].ent) /\ k \in 1..Len(cs[x].ent) + 1
      BY <1>6, <2>1, <2>2
    <3> QED
      BY <1>6, <1>7, <2>1, <2>2, <3>1
  <2>3. CASE q # x
    BY <1>7, <2>1, <2>3
  <2> QED
    BY <2>2, <2>3
<1>9. x \in 1..Len(s) /\ \E k \in 1..Len(s[x].ent) : s[x].ent[k] = new
  <2>1. Len(cs[x].ent) + 1 \in 1..Len(c.ent)
    BY <1>6
  <2> QED
    BY <1>5, <1>6, <1>7, <2>1
<1>10. HasEnt(g.cords, r + 1, [i |-> i, j |-> j, proto |-> t])
  BY <1>5, <1>9 DEF s, new, HasEnt
<1>11. HaveAll(g.cords, cords)
  BY <1>8 DEF s, HaveAll
<1>12. \/ FindRplc(rplc, name) = {} /\ r = Len(rplc) \div WordSize /\ g.rplc = AddRplc(rplc, name)
       \/ r \in FindRplc(rplc, name) /\ g.rplc = rplc
  BY <1>1
<1> QED
  BY <1>10, <1>11, <1>12

LEMMA RegisteredNames ==
  ASSUME NEW i, NEW j, NEW t
  PROVE  Registered(i, j, t).rplc = IF FindRplc(rplc, Name(t)) = {} THEN AddRplc(rplc, Name(t)) ELSE rplc
  BY DEF Registered

\* What is known of the filter and of what it left.
FilterInv == ToldInv /\ HitInv /\ AboutInv /\ EntInv /\ WaitInv /\ PairInv

\* Names that are plain and end were so before.
LEMMA NamesBefore ==
  ASSUME AtObjects \subseteq AtObjects'
  PROVE  (NamesPlain' => NamesPlain) /\ (NamesEnd' => NamesEnd)
  BY DEF NamesPlain, NamesEnd

\* An object of the filter's is a term, and its name is mentioned.
LEMMA ObjectNamed ==
  ASSUME ToldInv, NamesPlain, NamesEnd, NEW s, NEW j \in 1..Len(AboutIn(told, s)),
         NEW o, o = AboutIn(told, s)[j].obj
  PROVE  /\ o \in Term /\ Bytes(o.str)
         /\ IsAtObject(o) => /\ Seen(Name(o)) /\ Name(o) \in Seq(Nat) /\ Bytes(Name(o))
                             /\ \A k \in 1..Len(Name(o)) : Name(o)[k] # At /\ Name(o)[k] # Nul
                             /\ Name(o) # <<>> => PlainName(Name(o))
<1>1. PICK n \in 1..Len(told) : AboutIn(told, s)[j] = told[n] /\ told[n].kind = "stmt"
  BY AboutShape DEF ToldInv
<1>2. told[n] \in FilterEvents /\ o = told[n].obj /\ told[n].kind # "ns"
  BY <1>1 DEF ToldInv
<1>3. o \in Term /\ Bytes(o.str)
  BY <1>2, EventAssumption, ByteAssumption
<1>4. ASSUME IsAtObject(o)
      PROVE  /\ Seen(Name(o)) /\ Name(o) \in Seq(Nat) /\ Bytes(Name(o))
             /\ \A k \in 1..Len(Name(o)) : Name(o)[k] # At /\ Name(o)[k] # Nul
  <2>1. n \in DOMAIN told
    BY SeqShape DEF ToldInv
  <2>2. Name(o) \in Mentioned(n)
    BY <1>1, <1>2, <1>4 DEF Mentioned
  <2>3. Seen(Name(o))
    BY <2>1, <2>2 DEF Seen
  <2> QED
    BY <2>1, <2>2, <2>3, MentionedFine
<1> QED
  BY <1>3, <1>4 DEF PlainName

\* A name is found once, and the empty one is not.
LEMMA FoundOnce ==
  ASSUME NEW rp \in Seq(Nat), Bytes(rp), NEW x, x = <<>> \/ PlainName(x),
         NEW p \in FindRplc(rp, x), NEW q \in FindRplc(rp, x)
  PROVE  p = q
<1>1. PlainName(x)
  BY EmptyNotFound
<1>2. PICK z : FirstFit(rp, x, z)
  BY <1>1, FoundAt
<1>3. FindRplc(rp, x) \subseteq {(z - 1) \div WordSize}
  BY <1>1, <1>2, FoundAt
<1> QED
  BY <1>3

\* Names that are known stay where they were found.
LEMMA FoundStays ==
  ASSUME ToldInv, HitInv, SlotInv, rplc \in Seq(Nat), Len(rplc) % WordSize = 0,
         NamesPlain, NamesEnd, NEW x, PlainName(x), Seen(x),
         NEW m \in Seq(Nat), Bytes(m), \A k \in 1..Len(m) : m[k] # At /\ m[k] # Nul
  PROVE  FindRplc(AddRplc(rplc, m), x) = FindRplc(rplc, x)
<1>1. Hits(rplc, x) # {}
  BY SeenWithin DEF HitInv
<1>2. Bytes(rplc) /\ Ended(rplc)
  BY DEF SlotInv
<1> QED
  BY <1>1, <1>2, FoundAfterAdd

\* The objects that wait after another one has been registered.
LEMMA WaitsStay ==
  ASSUME ToldInv, HitInv, SlotInv, rplc \in Seq(Nat), Len(rplc) % WordSize = 0, AreSlots(cords),
         NamesPlain, NamesEnd,
         NEW m \in Seq(Nat), Bytes(m), \A k \in 1..Len(m) : m[k] # At /\ m[k] # Nul,
         NEW rp, rp = rplc \/ rp = AddRplc(rplc, m),
         NEW cs, HaveAll(cs, cords),
         NEW i, NEW j, NEW o, (PlainName(Name(o)) /\ Seen(Name(o))) \/ Name(o) = <<>>,
         Waits(rplc, cords, i, j, o)
  PROVE  Waits(rp, cs, i, j, o)
<1>1. FindRplc(rp, Name(o)) \subseteq FindRplc(rplc, Name(o))
  <2>1. CASE Name(o) = <<>>
    BY <2>1, EmptyNotFound
  <2>2. CASE PlainName(Name(o)) /\ Seen(Name(o))
    <3>1. FindRplc(AddRplc(rplc, m), Name(o)) = FindRplc(rplc, Name(o))
      BY <2>2, FoundStays
    <3> QED
      BY <3>1
  <2> QED
    BY <2>1, <2>2
<1> DEFINE c == [i |-> i, j |-> j, proto |-> o]
<1>2. ASSUME NEW q, HasEnt(cords, q, c) PROVE HasEnt(cs, q, c)
  <2> HIDE DEF c
  <2> QED
    BY <1>2 DEF HasEnt, HaveAll
<1> QED
  BY <1>1, <1>2 DEF Waits

\* The object that has just been registered waits.
LEMMA NewWaits ==
  ASSUME ToldInv, HitInv, SlotInv, rplc \in Seq(Nat), Len(rplc) % WordSize = 0, AreSlots(cords),
         NEW i, NEW j, NEW t, NEW g, g = Registered(i, j, t), ~g.far,
         Name(t) \in Seq(Nat), Bytes(Name(t)), \A k \in 1..Len(Name(t)) : Name(t)[k] # At /\ Name(t)[k] # Nul
  PROVE  Waits(g.rplc, g.cords, i, j, t) /\ HaveAll(g.cords, cords)
<1> DEFINE m == Name(t)
           c == [i |-> i, j |-> j, proto |-> t]
<1>1. PICK r \in Nat :
         /\ \/ FindRplc(rplc, m) = {} /\ r = Len(rplc) \div WordSize /\ g.rplc = AddRplc(rplc, m)
            \/ r \in FindRplc(rplc, m) /\ g.rplc = rplc
         /\ HasEnt(g.cords, r + 1, c)
         /\ HaveAll(g.cords, cords)
  BY RegisteredHere
<1>2. m = <<>> \/ PlainName(m)
  BY DEF PlainName
<1>3. Bytes(rplc) /\ Ended(rplc)
  BY DEF SlotInv
<1> HIDE DEF m, c
<1>4. \A p \in FindRplc(g.rplc, m) : p = r
  <2>1. CASE FindRplc(rplc, m) = {} /\ r = Len(rplc) \div WordSize /\ g.rplc = AddRplc(rplc, m)
    <3>1. CASE m = <<>>
      BY <3>1, EmptyNotFound
    <3>2. CASE PlainName(m)
      <4>1. /\ Hits(rplc, m) # {} => FindRplc(AddRplc(rplc, m), m) = FindRplc(rplc, m)
            /\ Hits(rplc, m) = {} => FindRplc(AddRplc(rplc, m), m) = {Len(rplc) \div WordSize}
        BY <1>3, <3>2, FoundAfterAdd DEF m
      <4> QED
        BY <2>1, <4>1
    <3> QED
      BY <1>2, <3>1, <3>2
  <2>2. CASE r \in FindRplc(rplc, m) /\ g.rplc = rplc
    BY <1>2, <1>3, <2>2, FoundOnce
  <2> QED
    BY <1>1, <2>1, <2>2
<1>5. Waits(g.rplc, g.cords, i, j, t)
  BY <1>1, <1>4 DEF Waits, m, c
<1> QED
  BY <1>1, <1>5

\* The coordinates in a slot are those of a pair.
LEMMA EntIsPair ==
  ASSUME CoordInv, NEW q \in 1..Len(cords), NEW k \in 1..Len(cords[q].ent),
         NEW c, c = cords[q].ent[k]
  PROVE  c.i \in 1..Len(terms) /\ c.i \in 1..Len(beefs) /\ c.j \in 1..Len(beefs[c.i])
<1>1. /\ DOMAIN cords = 1..Len(cords) /\ DOMAIN cords[q].ent = 1..Len(cords[q].ent)
      /\ DOMAIN beefs = 1..Len(beefs) /\ Len(beefs) = Len(terms)
  BY SeqShape DEF CoordInv, AreSlots, ArePairs, TermsDistinct
<1>2. c.i \in DOMAIN beefs /\ c.j \in DOMAIN beefs[c.i]
  BY <1>1 DEF CoordInv, CoordsValid
<1>3. DOMAIN beefs[c.i] = 1..Len(beefs[c.i])
  BY <1>1, <1>2, SeqShape DEF CoordInv, ArePairs
<1> QED
  BY <1>1, <1>2, <1>3

\* flts(): a statement of the filter.
LEMMA FltsFilters ==
  ASSUME TableInv, SlotInv, FilterInv, heard = <<>>, ~far,
         NEW e \in FilterEvents, e.kind = "stmt", Flts(e), told' = Append(told, e), heard' = heard
  PROVE  FilterInv'
<1>1. /\ CoordInv /\ rplc \in Seq(Nat) /\ Len(rplc) % WordSize = 0 /\ AreSlots(cords)
      /\ ToldInv /\ HitInv /\ AboutInv /\ EntInv /\ WaitInv /\ PairInv /\ IsSeq(told)
  BY DEF TableInv, CoordInv, NamesFit, FilterInv, ToldInv
<1>2. CoordInv' /\ TermsDistinct'
  <2>1. CoordInv'
    BY <1>1, FltsStep
  <2> QED
    BY <2>1 DEF CoordInv
<1>3. /\ AboutInv'
      /\ \E i, j :
           /\ i \in 1..Len(terms') /\ j \in 1..Len(beefs'[i])
           /\ AboutIn(told', terms'[i])[j] = e
           /\ \A n \in 1..Len(terms) : \A m \in 1..Len(beefs[n]) :
                /\ n \in 1..Len(terms') /\ m \in 1..Len(beefs'[n])
                /\ AboutIn(told', terms'[n])[m] = AboutIn(told, terms[n])[m]
           /\ \A n \in 1..Len(terms') : \A m \in 1..Len(beefs'[n]) :
                \/ n = i /\ m = j /\ beefs'[n][m] = <<e.pred, Left(e.obj)>>
                \/ n \in 1..Len(terms) /\ m \in 1..Len(beefs[n]) /\ beefs'[n][m] = beefs[n][m]
           /\ IF IsAtObject(e.obj)
                THEN LET g == Registered(i, j, e.obj)
                     IN  rplc' = g.rplc /\ cords' = g.cords /\ (g.far => far')
                ELSE rplc' = rplc /\ cords' = cords
  BY <1>1, <1>2, FltsPairs
<1>4. PICK i, j :
        /\ i \in 1..Len(terms') /\ j \in 1..Len(beefs'[i])
        /\ AboutIn(told', terms'[i])[j] = e
        /\ \A n \in 1..Len(terms) : \A m \in 1..Len(beefs[n]) :
             /\ n \in 1..Len(terms') /\ m \in 1..Len(beefs'[n])
             /\ AboutIn(told', terms'[n])[m] = AboutIn(told, terms[n])[m]
        /\ \A n \in 1..Len(terms') : \A m \in 1..Len(beefs'[n]) :
             \/ n = i /\ m = j /\ beefs'[n][m] = <<e.pred, Left(e.obj)>>
             \/ n \in 1..Len(terms) /\ m \in 1..Len(beefs[n]) /\ beefs'[n][m] = beefs[n][m]
        /\ IF IsAtObject(e.obj)
             THEN LET g == Registered(i, j, e.obj)
                  IN  rplc' = g.rplc /\ cords' = g.cords /\ (g.far => far')
             ELSE rplc' = rplc /\ cords' = cords
  BY <1>3
<1> DEFINE t == e.obj
<1>5. ToldInv' /\ IsSeq(told') /\ Len(told) \in Nat
  <2>1. /\ IsSeq(told') /\ Len(told') = Len(told) + 1 /\ Len(told) \in Nat
        /\ (\A n \in 1..Len(told) : told'[n] = told[n]) /\ told'[Len(told) + 1] = e
    BY <1>1, ToldGrows
  <2>2. \A n \in 1..Len(told) + 1 : n \in 1..Len(told) \/ n = Len(told) + 1
    BY <2>1
  <2>3. \A n \in 1..Len(told) : told[n] \in FilterEvents
    BY <1>1 DEF ToldInv
  <2> QED
    BY <2>1, <2>2, <2>3 DEF ToldInv
<1>6. AtObjects \subseteq AtObjects' /\ (NamesPlain' => NamesPlain) /\ (NamesEnd' => NamesEnd)
  <2>1. AtObjects \subseteq AtObjects'
    BY <1>1, AtObjectsStay
  <2> QED
    BY <2>1, NamesBefore
<1>7. IF IsAtObject(t)
        THEN LET g == Registered(i, j, t) IN rplc' = g.rplc /\ cords' = g.cords /\ (g.far => far')
        ELSE rplc' = rplc /\ cords' = cords
  BY <1>4
<1>8. HitInv'
  <2> SUFFICES ASSUME NamesPlain', NamesEnd' PROVE HitInv'
    BY DEF HitInv
  <2>1. CASE IsAtObject(t)
    <3>1. \/ FindRplc(rplc, Name(t)) = {} /\ rplc' = AddRplc(rplc, Name(t))
          \/ FindRplc(rplc, Name(t)) # {} /\ rplc' = rplc
      BY <1>7, <2>1, RegisteredNames
    <3> QED
      BY <1>1, <1>5, <1>6, <2>1, <3>1, HitsOfObject
  <2>2. CASE ~IsAtObject(t)
    BY <1>1, <1>6, <1>7, <2>2, HitsOfOther
  <2> QED
    BY <2>1, <2>2
<1>9. \A n \in 1..Len(terms) : \A m \in 1..Len(beefs[n]) :
        /\ n \in 1..Len(terms') /\ m \in 1..Len(beefs'[n])
        /\ AboutIn(told', terms'[n])[m] = AboutIn(told, terms[n])[m]
  BY <1>4
<1>10. EntInv'
  <2>1. ASSUME NEW q \in 1..Len(cords'), NEW k \in 1..Len(cords'[q].ent)
        PROVE  \/ q \in 1..Len(cords) /\ k \in 1..Len(cords[q].ent) /\ cords'[q].ent[k] = cords[q].ent[k]
               \/ cords'[q].ent[k] = [i |-> i, j |-> j, proto |-> t]
    <3>1. CASE IsAtObject(t)
      BY <1>1, <1>7, <3>1, RegisteredSlot
    <3>2. CASE ~IsAtObject(t)
      BY <1>7, <3>2
    <3> QED
      BY <3>1, <3>2
  <2> SUFFICES ASSUME NEW q \in 1..Len(cords'), NEW k \in 1..Len(cords'[q].ent), NEW c, c = cords'[q].ent[k]
               PROVE  c.proto = AboutIn(told', terms'[c.i])[c.j].obj
    BY DEF EntInv
  <2>2. CASE q \in 1..Len(cords) /\ k \in 1..Len(cords[q].ent) /\ c = cords[q].ent[k]
    <3>1. c.proto = AboutIn(told, terms[c.i])[c.j].obj
      BY <1>1, <2>2 DEF EntInv
    <3>2. c.i \in 1..Len(terms) /\ c.j \in 1..Len(beefs[c.i])
      BY <1>1, <2>2, EntIsPair
    <3> QED
      BY <1>9, <3>1, <3>2
  <2>3. CASE c = [i |-> i, j |-> j, proto |-> t]
    BY <1>4, <2>3
  <2> QED
    BY <2>1, <2>2, <2>3
<1>11. \A n \in 1..Len(terms') : \A m \in 1..Len(beefs'[n]) :
         \/ n = i /\ m = j /\ beefs'[n][m] = <<e.pred, Left(t)>>
         \/ n \in 1..Len(terms) /\ m \in 1..Len(beefs[n]) /\ beefs'[n][m] = beefs[n][m]
  BY <1>4
<1>12. AboutIn(told', terms'[i])[j] = e
  BY <1>4
<1>13. \A n \in 1..Len(terms) : Len(beefs[n]) = Len(AboutIn(told, terms[n]))
  BY <1>1 DEF AboutInv
<1>14. WaitInv'
  <2> SUFFICES ASSUME ~far', NamesPlain', NamesEnd',
                      NEW n \in 1..Len(terms'), NEW m \in 1..Len(beefs'[n]),
                      NEW o, o = AboutIn(told', terms'[n])[m].obj, IsAtObject(o)
               PROVE  Waits(rplc', cords', n, m, o)
    BY DEF WaitInv
  <2>1. ASSUME IsAtObject(t)
        PROVE  /\ Name(t) \in Seq(Nat) /\ Bytes(Name(t))
               /\ \A k \in 1..Len(Name(t)) : Name(t)[k] # At /\ Name(t)[k] # Nul
    <3>1. t \in AtObjects'
      BY <1>1, <2>1, AtObjectsStay
    <3>2. At \notin ToSet(Name(t)) /\ Nul \notin ToSet(Name(t))
      BY <3>1 DEF NamesPlain, NamesEnd
    <3>3. t \in Term /\ Bytes(t.str)
      BY EventAssumption, ByteAssumption
    <3> HIDE DEF t
    <3>4. Name(t) \in Seq(Nat) /\ Bytes(Name(t))
      BY <2>1, <3>3, NameShape, NameBytes
    <3>5. DOMAIN Name(t) = 1..Len(Name(t))
      BY <3>4, LenProperties
    <3> QED
      BY <3>2, <3>4, <3>5 DEF ToSet
  <2>2. PICK g : IsAtObject(t) => /\ g = Registered(i, j, t) /\ ~g.far
                                  /\ rplc' = g.rplc /\ cords' = g.cords
    BY <1>7
  <2>3. IsAtObject(t) => /\ Waits(rplc', cords', i, j, t) /\ HaveAll(cords', cords)
                         /\ (rplc' = rplc \/ rplc' = AddRplc(rplc, Name(t)))
    <3> SUFFICES ASSUME IsAtObject(t)
                 PROVE  /\ Waits(rplc', cords', i, j, t) /\ HaveAll(cords', cords)
                        /\ (rplc' = rplc \/ rplc' = AddRplc(rplc, Name(t)))
      OBVIOUS
    <3>1. Waits(g.rplc, g.cords, i, j, t) /\ HaveAll(g.cords, cords)
      BY <1>1, <2>1, <2>2, NewWaits
    <3>2. rplc' = rplc \/ rplc' = AddRplc(rplc, Name(t))
      BY <2>2, RegisteredNames
    <3> QED
      BY <2>2, <3>1, <3>2
  <2>4. CASE n = i /\ m = j
    BY <1>12, <2>3, <2>4
  <2>5. CASE n \in 1..Len(terms) /\ m \in 1..Len(beefs[n])
    <3>1. o = AboutIn(told, terms[n])[m].obj /\ m \in 1..Len(AboutIn(told, terms[n]))
      BY <1>9, <1>13, <2>5
    <3>2. Waits(rplc, cords, n, m, o)
      BY <1>1, <1>6, <2>5, <3>1 DEF WaitInv
    <3>3. CASE ~IsAtObject(t)
      BY <1>7, <3>2, <3>3
    <3>4. CASE IsAtObject(t)
      <4>1. (PlainName(Name(o)) /\ Seen(Name(o))) \/ Name(o) = <<>>
        BY <1>1, <1>6, <3>1, ObjectNamed
      <4> HIDE DEF t
      <4> QED
        BY <1>1, <1>6, <2>1, <2>3, <3>2, <3>4, <4>1, WaitsStay
    <3> QED
      BY <3>3, <3>4
  <2> QED
    BY <1>11, <2>4, <2>5
<1>15. PairInv'
  <2> SUFFICES ASSUME ~far', NamesPlain', NamesEnd',
                      NEW n \in 1..Len(terms'), NEW m \in 1..Len(beefs'[n]),
                      NEW f, f = AboutIn(told', terms'[n])[m]
               PROVE  beefs'[n][m] = <<f.pred, Value(told', heard', f.obj)>>
    BY DEF PairInv
  <2>1. Value(told', heard', f.obj) = Left(f.obj) /\ Value(told, heard, f.obj) = Left(f.obj)
    BY ValueAtFirst
  <2>2. CASE n = i /\ m = j /\ beefs'[n][m] = <<e.pred, Left(t)>>
    BY <1>12, <2>1, <2>2
  <2>3. CASE n \in 1..Len(terms) /\ m \in 1..Len(beefs[n]) /\ beefs'[n][m] = beefs[n][m]
    <3>1. f = AboutIn(told, terms[n])[m]
      BY <1>9, <2>3
    <3>2. beefs[n][m] = <<f.pred, Value(told, heard, f.obj)>>
      BY <1>1, <1>6, <2>3, <3>1 DEF PairInv
    <3> QED
      BY <2>1, <2>3, <3>2
  <2> QED
    BY <1>11, <2>2, <2>3
<1> QED
  BY <1>3, <1>5, <1>8, <1>10, <1>14, <1>15 DEF FilterInv

\* What the output starts with: a namespace of its own and those of the filter.
LEMMA NoOutputs ==
  ASSUME NEW td
  PROVE  FlattenSeq(OutputsIn(td, <<>>)) = <<>>
<1>1. OutputsIn(td, <<>>) = <<>>
  <2> DEFINE s == OutputsIn(td, <<>>)
  <2>1. DOMAIN <<>> = {} /\ 1..0 = {}
    OBVIOUS
  <2>2. s = [k \in 1..0 |-> OutputIn(td, <<>>, k)]
    BY <2>1, Zenon DEF OutputsIn
  <2>3. s = [k \in 1..0 |-> s[k]]
    BY <2>1, <2>2
  <2> HIDE DEF s
  <2>4. IsSeq(s) /\ Len(s) = 0
    BY <2>3, FunctionAny
  <2>5. s = <<>>
    BY <2>4, EmptyAny, SameAny
  <2> QED
    BY <2>5 DEF s
<1> QED
  BY <1>1, FlattenNone

LEMMA NamespacesAppend ==
  ASSUME NEW td, IsSeq(td), NEW e
  PROVE  /\ IsSeq(NamespacesIn(td))
         /\ NamespacesIn(Append(td, e)) =
              IF e.kind = "ns" THEN Append(NamespacesIn(td), e) ELSE NamespacesIn(td)
<1> DEFINE new == Append(td, e)
           I   == {n \in DOMAIN td : td[n].kind = "ns"}
           J   == {n \in DOMAIN new : new[n].kind = "ns"}
<1>1. /\ Len(td) \in Nat /\ DOMAIN td = 1..Len(td) /\ DOMAIN new = 1..Len(td)+1
      /\ (\A n \in 1..Len(td) : new[n] = td[n]) /\ new[Len(td) + 1] = e
  BY AppendAny, SeqShape
<1> HIDE DEF new
<1>2. \A k \in 1..Len(td) : k \in I <=> k \in J
  BY <1>1
<1>3. Len(td) + 1 \in J <=> e.kind = "ns"
  BY <1>1
<1> HIDE DEF I, J
<1>4. /\ IsSeq(Kept(td, I))
      /\ Kept(new, J) = IF Len(td) + 1 \in J THEN Append(Kept(td, I), e) ELSE Kept(td, I)
  BY <1>2, KeptAppend DEF new
<1> QED
  BY <1>3, <1>4, Zenon DEF NamespacesIn, new, I, J

LEMMA ExpectedFirst ==
  ASSUME NEW td, IsSeq(td)
  PROVE  /\ IsSeq(ExpectedIn(td, <<>>))
         /\ ExpectedIn(td, <<>>) = <<[kind |-> "ns", rdf |-> "rdf"]>> \o NamespacesIn(td)
<1> DEFINE h == <<[kind |-> "ns", rdf |-> "rdf"]>>
           N == NamespacesIn(td)
<1>1. IsSeq(h) /\ IsSeq(N)
  BY OneAny, NamespacesAppend
<1>2. ExpectedIn(td, <<>>) = h \o N \o FlattenSeq(OutputsIn(td, <<>>))
  BY Zenon DEF ExpectedIn
<1> HIDE DEF h, N
<1>3. IsSeq(h \o N) /\ (h \o N) \o <<>> = h \o N
  BY <1>1, ConcatAny, ConcatNone
<1>4. ExpectedIn(td, <<>>) = h \o N
  BY <1>2, <1>3, NoOutputs
<1> QED
  BY <1>3, <1>4 DEF h, N

LEMMA ExpectedFiltered ==
  ASSUME NEW td, IsSeq(td), NEW e
  PROVE  ExpectedIn(Append(td, e), <<>>) =
           IF e.kind = "ns" THEN Append(ExpectedIn(td, <<>>), e) ELSE ExpectedIn(td, <<>>)
<1> DEFINE h == <<[kind |-> "ns", rdf |-> "rdf"]>>
           N == NamespacesIn(td)
           M == NamespacesIn(Append(td, e))
<1>1. IsSeq(h) /\ IsSeq(N) /\ IsSeq(Append(td, e)) /\ IsSeq(<<e>>)
  BY OneAny, NamespacesAppend, AppendAny
<1>2. ExpectedIn(Append(td, e), <<>>) = h \o M /\ ExpectedIn(td, <<>>) = h \o N
  BY <1>1, ExpectedFirst
<1>3. M = IF e.kind = "ns" THEN Append(N, e) ELSE N
  BY NamespacesAppend
<1> HIDE DEF h, N, M
<1>4. h \o Append(N, e) = Append(h \o N, e)
  <2>1. Append(N, e) = N \o <<e>>
    BY <1>1, AppendBehind
  <2>2. IsSeq(h \o N)
    BY <1>1, ConcatAny
  <2>3. Append(h \o N, e) = (h \o N) \o <<e>>
    BY <2>2, AppendBehind
  <2>4. (h \o N) \o <<e>> = h \o (N \o <<e>>)
    BY <1>1, ConcatAssocAny
  <2> QED
    BY <2>1, <2>3, <2>4
<1> QED
  BY <1>2, <1>3, <1>4

\* nmsp(): a namespace of the filter is no news for its objects.
LEMMA NmspFilters ==
  ASSUME FilterInv, CoordInv, heard = <<>>, NEW e \in FilterEvents, e.kind = "ns", told' = Append(told, e),
         heard' = heard, UNCHANGED <<terms, beefs, rplc, cords, far>>
  PROVE  FilterInv'
<1>1. /\ ToldInv /\ HitInv /\ AboutInv /\ EntInv /\ WaitInv /\ PairInv /\ IsSeq(told)
      /\ terms' = terms /\ beefs' = beefs /\ rplc' = rplc /\ cords' = cords /\ far' = far
  BY DEF FilterInv, ToldInv
<1>2. /\ IsSeq(told') /\ Len(told') = Len(told) + 1 /\ Len(told) \in Nat
      /\ (\A n \in 1..Len(told) : told'[n] = told[n]) /\ told'[Len(told) + 1] = e
      /\ (\A n \in 1..Len(told) + 1 : n \in 1..Len(told) \/ n = Len(told) + 1)
  <2>1. /\ IsSeq(told') /\ Len(told') = Len(told) + 1 /\ Len(told) \in Nat
        /\ (\A n \in 1..Len(told) : told'[n] = told[n]) /\ told'[Len(told) + 1] = e
    BY <1>1, ToldGrows
  <2> QED
    BY <2>1
<1>3. ToldInv'
  <2>1. \A n \in 1..Len(told) : told[n] \in FilterEvents
    BY <1>1 DEF ToldInv
  <2> QED
    BY <1>2, <2>1 DEF ToldInv
<1>4. (NamesPlain' => NamesPlain) /\ (NamesEnd' => NamesEnd)
  <2>1. AtObjects \subseteq AtObjects'
    BY <1>1, AtObjectsStay
  <2> QED
    BY <2>1, NamesBefore
<1>5. HitInv'
  <2> SUFFICES ASSUME NamesPlain', NamesEnd' PROVE HitInv'
    BY DEF HitInv
  <2> QED
    BY <1>1, <1>4, HitsOfOther
<1>6. \A s : AboutIn(told', s) = AboutIn(told, s)
  BY <1>1, AboutAppend
<1>7. AboutInv'
  <2>1. \A i \in 1..Len(terms) : Len(AboutIn(told, terms[i])) >= 1 /\ Len(beefs[i]) = Len(AboutIn(told, terms[i]))
    BY <1>1 DEF AboutInv
  <2>2. \A n \in 1..Len(told) : told[n].kind = "stmt" => \E i \in 1..Len(terms) : terms[i] = told[n].subj
    BY <1>1 DEF AboutInv
  <2>3. \A n \in 1..Len(told') : told'[n].kind = "stmt" => \E i \in 1..Len(terms) : terms[i] = told'[n].subj
    BY <1>2, <2>2
  <2> QED
    BY <1>1, <1>6, <2>1, <2>3 DEF AboutInv
<1>8. EntInv'
  <2> SUFFICES ASSUME NEW q \in 1..Len(cords), NEW k \in 1..Len(cords[q].ent), NEW c, c = cords[q].ent[k]
               PROVE  c.proto = AboutIn(told', terms[c.i])[c.j].obj
    BY <1>1 DEF EntInv
  <2>1. c.proto = AboutIn(told, terms[c.i])[c.j].obj
    BY <1>1 DEF EntInv
  <2> QED
    BY <1>6, <2>1
<1>9. WaitInv'
  <2> SUFFICES ASSUME ~far, NamesPlain', NamesEnd', NEW n \in 1..Len(terms), NEW m \in 1..Len(beefs[n]),
                      NEW o, o = AboutIn(told', terms[n])[m].obj, IsAtObject(o)
               PROVE  Waits(rplc, cords, n, m, o)
    BY <1>1 DEF WaitInv
  <2> QED
    BY <1>1, <1>4, <1>6 DEF WaitInv
<1>10. PairInv'
  <2> SUFFICES ASSUME ~far, NamesPlain', NamesEnd', NEW n \in 1..Len(terms), NEW m \in 1..Len(beefs[n]),
                      NEW f, f = AboutIn(told', terms[n])[m]
               PROVE  beefs[n][m] = <<f.pred, Value(told', heard', f.obj)>>
    BY <1>1 DEF PairInv
  <2>1. Value(told', heard', f.obj) = Left(f.obj) /\ Value(told, heard, f.obj) = Left(f.obj)
    BY ValueAtFirst
  <2> QED
    BY <1>1, <1>4, <1>6, <2>1 DEF PairInv
<1> QED
  BY <1>3, <1>5, <1>7, <1>8, <1>9, <1>10 DEF FilterInv

---------------------------------------------------------------------------
(* The namespaces of the input.                                            *)

LEMMA MaxOf ==
  ASSUME NEW T, NEW n \in Nat, T \subseteq 1..n, T # {}
  PROVE  Max(T) \in T
<1> DEFINE S == {z \in 0..n : n - z \in T}
<1>1. PICK t \in T : t \in 1..n
  OBVIOUS
<1>2. n - t \in 0..n /\ n - (n - t) = t
  BY <1>1
<1>3. n - t \in S
  <2> DEFINE z == n - t
  <2>1. z \in 0..n /\ n - z = t
    BY <1>2
  <2> HIDE DEF z
  <2>2. z \in S
    BY <1>1, <2>1
  <2> QED
    BY <2>2 DEF z
<1>4. S \subseteq Nat /\ S # {}
  <2>1. S \subseteq 0..n
    OBVIOUS
  <2> HIDE DEF S
  <2> QED
    BY <1>3, <2>1
<1>5. PICK x \in S : \A y \in S : x <= y
  <2> HIDE DEF S
  <2> QED
    BY <1>4, LeastOf
<1>6. n - x \in T /\ \A y \in T : n - x >= y
  <2>1. x \in 0..n /\ n - x \in T
    BY <1>5
  <2>2. ASSUME NEW y \in T PROVE n - x >= y
    <3>1. y \in 1..n /\ n - y \in 0..n /\ n - (n - y) = y
      OBVIOUS
    <3>2. n - y \in S
      BY <3>1
    <3>3. x <= n - y
      BY <1>5, <3>2
    <3> QED
      BY <2>1, <3>1, <3>3
  <2> QED
    BY <2>1, <2>2
<1> QED
  BY <1>6 DEF Max

\* The places of a slot that belong to a pair, and what nscp() makes of it.
Those(c, i, j) == {k \in DOMAIN c.ent : c.ent[k].i = i /\ c.ent[k].j = j}
Updated(c, e, i, j, p) ==
  IF Those(c, i, j) = {} THEN p ELSE <<p[1], Resolved(c.ent[Max(Those(c, i, j))].proto, e)>>
AllUpdated(bs, new, c, e) ==
  \A i \in DOMAIN bs : \A j \in DOMAIN bs[i] : new[i][j] = Updated(c, e, i, j, bs[i][j])

LEMMA NscpShape ==
  ASSUME CoordInv, NEW e, Nscp(e), ~far'
  PROVE  \/ FindRplc(rplc, e.prefix) = {} /\ beefs' = beefs
         \/ \E r \in FindRplc(rplc, e.prefix) :
              ~(r >= Len(cords)) /\ AllUpdated(beefs, beefs', cords[r + 1], e)
<1> DEFINE known == FindRplc(rplc, e.prefix)
           r     == CHOOSE x \in known : TRUE
           c     == cords[r + 1]
<1>1. CASE known = {}
  BY <1>1 DEF Nscp
<1>2. CASE known # {}
  <2>1. r \in known
    BY <1>2
  <2> DEFINE to(i, j) == {k \in DOMAIN c.ent : c.ent[k].i = i /\ c.ent[k].j = j}
             new(i, j) == Resolved(c.ent[Max(to(i, j))].proto, e)
  <2>2. IF r >= Len(cords) THEN far' = TRUE /\ UNCHANGED beefs
        ELSE beefs' = [i \in DOMAIN beefs |-> [j \in DOMAIN beefs[i] |->
                 IF to(i, j) = {} THEN beefs[i][j] ELSE <<beefs[i][j][1], new(i, j)>>]]
    BY <1>2, Zenon DEF Nscp
  <2>3. ~(r >= Len(cords))
    <3> HIDE DEF r, c, to, new
    <3>1. r >= Len(cords) => far' = TRUE
      BY <2>2, Zenon
    <3> QED
      BY <3>1, Zenon
  <2>4. beefs' = [i \in DOMAIN beefs |-> [j \in DOMAIN beefs[i] |->
                 IF to(i, j) = {} THEN beefs[i][j] ELSE <<beefs[i][j][1], new(i, j)>>]]
    BY <2>2, <2>3, Zenon
  <2>5. ASSUME NEW i, NEW j PROVE to(i, j) = Those(c, i, j)
    BY Zenon DEF Those
  <2> HIDE DEF c, to
  <2>6. ASSUME NEW i \in DOMAIN beefs, NEW j \in DOMAIN beefs[i]
        PROVE  beefs'[i][j] = Updated(c, e, i, j, beefs[i][j])
    <3>1. beefs'[i][j] = IF to(i, j) = {} THEN beefs[i][j] ELSE <<beefs[i][j][1], new(i, j)>>
      BY <2>4
    <3> QED
      BY <2>5, <3>1, Zenon DEF Updated
  <2>7. AllUpdated(beefs, beefs', c, e)
    BY <2>6 DEF AllUpdated
  <2> HIDE DEF r
  <2> QED
    BY <2>1, <2>3, <2>7 DEF c
<1> QED
  BY <1>1, <1>2

LEMMA ResolvesTo ==
  ASSUME IsSeq(heard), NEW e, e.kind = "ns", NEW t \in Term, IsAtObject(t), e.prefix = Name(t),
         ~HiddenIn(told, Name(t))
  PROVE  Value(told, Append(heard, e), t) = Resolved(t, e)
<1>1. Value(told, Append(heard, e), t) = With(t, e.uri \o Suffix(t))
  BY ValueComes
<1>2. Resolved(t, e) = With(t, e.uri \o Suffix(t))
  BY ResolvedIs
<1> QED
  BY <1>1, <1>2, Zenon

\* An object that waits is resolved by the namespace that its name stands for.
LEMMA NscpValue ==
  ASSUME TableInv, SlotInv, FilterInv, IsSeq(heard), ~far, NamesPlain, NamesEnd,
         NEW e \in InputEvents, e.kind = "ns", NEW r \in FindRplc(rplc, e.prefix),
         r \in Nat, r < Len(cords), NEW i \in 1..Len(terms), NEW j \in 1..Len(beefs[i]),
         NEW f, f = AboutIn(told, terms[i])[j]
  PROVE  Updated(cords[r + 1], e, i, j, beefs[i][j]) = <<f.pred, Value(told, Append(heard, e), f.obj)>>
<1> DEFINE x == r + 1
           c == cords[x]
           o == f.obj
           T == Those(c, i, j)
<1>1. /\ CoordInv /\ rplc \in Seq(Nat) /\ SlotsFit(cords) /\ Len(cords) \in Nat
      /\ ToldInv /\ HitInv /\ AboutInv /\ EntInv /\ WaitInv /\ PairInv
  BY SeqShape DEF TableInv, CoordInv, AreSlots, NamesFit, FilterInv
<1>2. x \in 1..Len(cords) /\ x - 1 = r
  BY <1>1
<1> HIDE DEF x
<1>3. j \in 1..Len(AboutIn(told, terms[i]))
  BY <1>1 DEF AboutInv
<1>4. beefs[i][j] = <<f.pred, Value(told, heard, o)>>
  BY <1>1 DEF PairInv
<1>5. IsAtObject(o) => Waits(rplc, cords, i, j, o)
  BY <1>1 DEF WaitInv
<1>6. /\ o \in Term
      /\ IsAtObject(o) => Name(o) \in Seq(Nat) /\ Seen(Name(o)) /\ (Name(o) # <<>> => PlainName(Name(o)))
  BY <1>1, <1>3, ObjectNamed
<1>7. IsSeq(c.ent) /\ DOMAIN c.ent = 1..Len(c.ent) /\ Len(c.ent) \in Nat
  BY <1>1, <1>2, SeqShape DEF SlotsFit, SlotFits
<1>8. CASE T = {}
  <2>1. ~IsAtObject(o) \/ e.prefix # Name(o)
    <3> SUFFICES ASSUME IsAtObject(o), e.prefix = Name(o) PROVE FALSE
      OBVIOUS
    <3>1. HasEnt(cords, x, [i |-> i, j |-> j, proto |-> o])
      BY <1>5 DEF Waits, x
    <3> QED
      BY <1>7, <1>8, <3>1 DEF HasEnt, Those
  <2>2. Value(told, Append(heard, e), o) = Value(told, heard, o)
    BY <2>1, ValueStays
  <2> QED
    BY <1>4, <1>8, <2>2 DEF Updated, x
<1>9. CASE T # {}
  <2> DEFINE k == Max(T)
  <2>1. k \in T
    <3>1. T \subseteq 1..Len(c.ent)
      BY <1>7 DEF Those
    <3> HIDE DEF T, c
    <3> QED
      BY <1>7, <1>9, <3>1, MaxOf
  <2>2. k \in 1..Len(c.ent) /\ c.ent[k].i = i /\ c.ent[k].j = j
    BY <1>7, <2>1 DEF Those
  <2> HIDE DEF k, T
  <2>3. c.ent[k].proto = o
    BY <1>1, <1>2, <2>2 DEF EntInv
  <2>4. IsAtObject(o)
    BY <1>1, <1>2, <2>2, <2>3 DEF SlotsFit, SlotFits
  <2>5. Name(o) = e.prefix
    <3>1. AtsAligned(rplc) /\ NamesWritten(rplc, cords) /\ Bytes(rplc) /\ Ended(rplc)
      BY DEF SlotInv
    <3>2. WrittenAt(rplc, r, Name(o))
      BY <1>2, <2>2, <2>3, <3>1 DEF NamesWritten
    <3>3. e.prefix \in Seq(Nat) /\ Bytes(e.prefix) /\ Nul \notin ToSet(e.prefix)
      BY EventAssumption, ByteAssumption
    <3>4. \A q \in 1..Len(e.prefix) : e.prefix[q] # Nul
      BY <3>3, LenProperties DEF ToSet
    <3>5. WrittenAt(rplc, r, e.prefix)
      BY <1>1, <3>1, <3>3, <3>4, FoundIsWritten
    <3> QED
      BY <1>1, <3>2, <3>5, NameAtIs
  <2>6. ~HiddenIn(told, Name(o))
    <3>1. Name(o) # <<>>
      BY <2>5, EmptyNotFound
    <3>2. ~IsHidden(Name(o))
      BY <1>1, <1>6, <2>4, <2>5, <3>1 DEF HitInv
    <3> QED
      BY <3>2, HiddenIs
  <2>7. Value(told, Append(heard, e), o) = Resolved(o, e)
    <3> HIDE DEF o
    <3> QED
      BY <1>6, <2>4, <2>5, <2>6, ResolvesTo
  <2>9. Updated(c, e, i, j, beefs[i][j]) = <<beefs[i][j][1], Resolved(o, e)>>
    BY <1>9, <2>3, Zenon DEF Updated, T, k
  <2>10. beefs[i][j][1] = f.pred
    BY <1>4
  <2> QED
    BY <2>7, <2>9, <2>10, Zenon DEF x
<1> QED
  BY <1>8, <1>9

LEMMA SameHits ==
  ASSUME HitInv, told' = told, rplc' = rplc
  PROVE  HitInv'
<1>1. (NamesPlain' <=> NamesPlain) /\ (NamesEnd' <=> NamesEnd)
  BY DEF NamesPlain, NamesEnd, AtObjects
<1> SUFFICES ASSUME NamesPlain, NamesEnd, NEW x, PlainName(x)
             PROVE  /\ Hits(rplc', x) # {} <=> Within(x)'
                    /\ FindRplc(rplc', x) # {} <=> Seen(x)' /\ ~IsHidden(x)'
  BY <1>1 DEF HitInv
<1>2. (Within(x)' <=> Within(x)) /\ (Seen(x)' <=> Seen(x)) /\ (IsHidden(x)' <=> IsHidden(x))
  BY DEF Within, Seen, IsHidden, Mentioned
<1>3. /\ Hits(rplc, x) # {} <=> Within(x)
      /\ FindRplc(rplc, x) # {} <=> Seen(x) /\ ~IsHidden(x)
  BY DEF HitInv
<1> QED
  BY <1>2, <1>3

\* nscp() changes what the objects that wait have become, and nothing else.
LEMMA NscpFilters ==
  ASSUME TableInv, SlotInv, FilterInv, IsSeq(heard), ~far,
         NEW e \in InputEvents, e.kind = "ns", Nscp(e), heard' = Append(heard, e),
         UNCHANGED <<told, terms, rplc, cords>>
  PROVE  FilterInv'
<1>1. /\ CoordInv /\ rplc \in Seq(Nat) /\ Len(cords) \in Nat /\ IsSeq(beefs) /\ Len(beefs) = Len(terms)
      /\ ToldInv /\ HitInv /\ AboutInv /\ EntInv /\ WaitInv /\ PairInv
      /\ told' = told /\ terms' = terms /\ rplc' = rplc /\ cords' = cords
  BY SeqShape DEF TableInv, CoordInv, AreSlots, ArePairs, NamesFit, FilterInv, TermsDistinct
<1>2. \A i \in 1..Len(terms) : Len(beefs'[i]) = Len(beefs[i])
  BY <1>1, NscpLengths
<1>3. ToldInv' /\ (NamesPlain' <=> NamesPlain) /\ (NamesEnd' <=> NamesEnd)
  BY <1>1 DEF ToldInv, NamesPlain, NamesEnd, AtObjects
<1>4. HitInv'
  BY <1>1, SameHits
<1>5. AboutInv'
  BY <1>1, <1>2 DEF AboutInv
<1>6. EntInv'
  BY <1>1 DEF EntInv
<1>7. WaitInv'
  <2> SUFFICES ASSUME NamesPlain, NamesEnd, NEW n \in 1..Len(terms), NEW m \in 1..Len(beefs[n]),
                      NEW o, o = AboutIn(told, terms[n])[m].obj, IsAtObject(o)
               PROVE  Waits(rplc, cords, n, m, o)
    BY <1>1, <1>2, <1>3 DEF WaitInv
  <2> QED
    BY <1>1 DEF WaitInv
<1>8. PairInv'
  <2> SUFFICES ASSUME ~far', NamesPlain, NamesEnd, NEW i \in 1..Len(terms), NEW j \in 1..Len(beefs[i]),
                      NEW f, f = AboutIn(told, terms[i])[j]
               PROVE  beefs'[i][j] = <<f.pred, Value(told, Append(heard, e), f.obj)>>
    BY <1>1, <1>2, <1>3, SMTT(30) DEF PairInv
  <2> DEFINE o == f.obj
  <2>1. beefs[i][j] = <<f.pred, Value(told, heard, o)>>
    BY <1>1 DEF PairInv
  <2>2. j \in 1..Len(AboutIn(told, terms[i]))
    BY <1>1 DEF AboutInv
  <2>3. /\ o \in Term
        /\ IsAtObject(o) => Name(o) \in Seq(Nat) /\ Seen(Name(o)) /\ (Name(o) # <<>> => PlainName(Name(o)))
    BY <1>1, <2>2, ObjectNamed
  <2>4. CASE FindRplc(rplc, e.prefix) = {} /\ beefs' = beefs
    <3>1. CASE ~IsAtObject(o) \/ e.prefix # Name(o)
      <4>1. Value(told, Append(heard, e), o) = Value(told, heard, o)
        BY <3>1, ValueStays
      <4> QED
        BY <2>1, <2>4, <4>1
    <3>2. CASE IsAtObject(o) /\ e.prefix = Name(o)
      <4>1. HiddenIn(told, Name(o))
        <5>1. CASE Name(o) = <<>>
          BY <5>1 DEF HiddenIn
        <5>2. CASE Name(o) # <<>>
          <6>1. IsHidden(Name(o))
            BY <1>1, <2>3, <2>4, <3>2, <5>2 DEF HitInv
          <6> QED
            BY <6>1, HiddenIs
        <5> QED
          BY <5>1, <5>2
      <4> HIDE DEF o
      <4>2. Value(told, Append(heard, e), o) = nul_term
        BY <3>2, <4>1, ValueComes
      <4>3. Value(told, heard, o) = nul_term
        BY <3>2, <4>1 DEF Value, ReadyIn
      <4> QED
        BY <2>1, <2>4, <4>2, <4>3 DEF o
    <3> QED
      BY <3>1, <3>2
  <2>5. ASSUME NEW r \in FindRplc(rplc, e.prefix), ~(r >= Len(cords)), AllUpdated(beefs, beefs', cords[r + 1], e)
        PROVE  beefs'[i][j] = <<f.pred, Value(told, Append(heard, e), f.obj)>>
    <3>1. DOMAIN beefs = 1..Len(terms) /\ DOMAIN beefs[i] = 1..Len(beefs[i])
      BY <1>1, SeqShape DEF CoordInv, ArePairs
    <3>2. r \in Nat /\ r < Len(cords)
      <4>1. e.prefix \in Seq(Nat)
        BY EventAssumption
      <4>2. PICK q \in 1..Len(rplc) : r = q \div WordSize
        BY <1>1, <4>1, FoundBehindAt
      <4>3. q \in Nat /\ WordSize \in Nat \ {0}
        BY WordPositive
      <4>4. r \in Nat
        BY <4>2, <4>3, DivMod
      <4> QED
        BY <1>1, <2>5, <4>4
    <3>3. Updated(cords[r + 1], e, i, j, beefs[i][j]) = <<f.pred, Value(told, Append(heard, e), f.obj)>>
      BY <3>2, NscpValue
    <3> QED
      BY <2>5, <3>1, <3>3 DEF AllUpdated
  <2>6. \/ FindRplc(rplc, e.prefix) = {} /\ beefs' = beefs
        \/ \E r \in FindRplc(rplc, e.prefix) :
             ~(r >= Len(cords)) /\ AllUpdated(beefs, beefs', cords[r + 1], e)
    BY <1>1, NscpShape
  <2> QED
    BY <2>4, <2>5, <2>6
<1> QED
  BY <1>3, <1>4, <1>5, <1>6, <1>7, <1>8 DEF FilterInv

---------------------------------------------------------------------------
(* The statements of the input.                                            *)

\* Texts are written one behind the other.
LEMMA WrittenText ==
  ASSUME NEW b, b.s = <<>>, NEW ts, NEW n \in Nat, Len(ts) = n, n >= 2,
         \A k \in 1..n : ts[k] \in Seq(Nat)
  PROVE  /\ Written(b, ts).s = FlattenSeq(ts)
         /\ \E s \in Seq(Nat) : FlattenSeq(ts) = s \o ts[n]
<1> DEFINE w == CHOOSE w : IsWriting(w, b, ts, n)
<1>1. IsWriting(w, b, ts, n)
  BY WritingExists
<1>2. Written(b, ts) = w[n]
  BY Zenon DEF Written, IsWriting
<1>3. PICK f : IsFlattening(f, ts, n)
  <2>1. n >= 1
    OBVIOUS
  <2> QED
    BY <2>1, FlatteningExists
<1>4. FlattenSeq(ts) = f[n]
  <2>1. n >= 1
    OBVIOUS
  <2> QED
    BY <1>3, <2>1, FlattenIs
<1> HIDE DEF w
<1>5. ASSUME NEW k \in 1..n PROVE f[k] = IF k = 1 THEN ts[k] ELSE f[k-1] \o ts[k]
  BY <1>3 DEF IsFlattening, Longer
<1>6. ASSUME NEW k \in 1..n PROVE w[k].s = w[k-1].s \o ts[k]
  <2>1. w[k] = Write(w[k-1], ts[k])
    BY <1>1 DEF IsWriting
  <2> QED
    BY <2>1 DEF Write
<1>7. w[0].s = <<>>
  BY <1>1 DEF IsWriting
<1> DEFINE T == {k \in 0..n : w[k].s \in Seq(Nat) /\ (k >= 1 => w[k].s = f[k])}
<1>8. 0 \in T
  <2>1. 0 \in 0..n /\ ~(0 >= 1) /\ <<>> \in Seq(Nat)
    OBVIOUS
  <2>2. w[0].s \in Seq(Nat)
    BY <1>7, <2>1, Zenon
  <2> QED
    BY <2>1, <2>2
<1>9. ASSUME NEW k \in 1..n, k - 1 \in T PROVE k \in T
  <2>1. w[k].s = w[k-1].s \o ts[k] /\ ts[k] \in Seq(Nat) /\ w[k-1].s \in Seq(Nat)
    BY <1>6, <1>9
  <2>2. w[k].s \in Seq(Nat)
    <3> DEFINE x == w[k-1].s
               y == ts[k]
    <3> HIDE DEF x, y
    <3>1. x \o y \in Seq(Nat)
      BY <2>1 DEF x, y
    <3> QED
      BY <2>1, <3>1 DEF x, y
  <2>3. CASE k = 1
    <3>1. f[k] = ts[k]
      BY <1>5, <2>3
    <3>2. w[k-1].s = <<>>
      BY <1>7, <2>3
    <3>3. w[k].s = ts[k]
      <4> DEFINE y == ts[k]
      <4>1. IsSeq(y)
        BY <2>1 DEF IsSeq
      <4> HIDE DEF y
      <4>2. <<>> \o y = y
        BY <4>1, ConcatNone
      <4> QED
        BY <2>1, <3>2, <4>2 DEF y
    <3> QED
      BY <2>2, <3>1, <3>3
  <2>4. CASE k # 1
    <3>1. k - 1 >= 1
      BY <2>4
    <3>2. w[k-1].s = f[k-1]
      BY <1>9, <3>1
    <3>3. f[k] = f[k-1] \o ts[k]
      BY <1>5, <2>4
    <3>4. w[k].s = f[k]
      BY <2>1, <3>2, <3>3
    <3> QED
      BY <2>2, <3>4
  <2> QED
    BY <2>3, <2>4
<1>10. \A k \in 0..n : k \in T
  <2> HIDE DEF T
  <2> QED
    BY <1>8, <1>9, SetInduction
<1>11. n \in T /\ n - 1 \in T
  <2>1. n \in 0..n /\ n - 1 \in 0..n
    OBVIOUS
  <2> QED
    BY <1>10, <2>1
<1>12. w[n].s = f[n] /\ w[n-1].s \in Seq(Nat)
  BY <1>11
<1>13. w[n].s = w[n-1].s \o ts[n]
  <2>1. n \in 1..n
    OBVIOUS
  <2> QED
    BY <1>6, <2>1
<1> QED
  BY <1>2, <1>4, <1>12, <1>13

\* The hash is that of the line, but for its end.
LEMMA LineHashed ==
  ASSUME NEW b, b.s = <<>>, NEW e, e.subj \in Term, e.pred \in Term, e.obj \in Term
  PROVE  Hashed(Written(b, NTriples(e))) = LineHash(e)
<1> DEFINE ts == NTriples(e)
           l  == FlattenSeq(ts)
           n  == Len(l)
<1>1. Len(ts) = 7 /\ \A k \in 1..7 : ts[k] \in Seq(Nat)
  BY NTriplesTexts
<1>2. ts[7] = <<10>>
  BY DEF NTriples
<1> HIDE DEF ts
<1>3. Written(b, ts).s = l /\ \E s \in Seq(Nat) : l = s \o ts[7]
  <2>1. 7 \in Nat /\ 7 >= 2
    OBVIOUS
  <2> QED
    BY <1>1, <2>1, WrittenText
<1>4. PICK s \in Seq(Nat) : l = s \o <<10>>
  BY <1>2, <1>3
<1> HIDE DEF l
<1>5. n > 0 /\ l[n] = 10
  BY <1>4
<1>6. Hashed(Written(b, ts)) = [type |-> "uri", mmh3 |-> SubSeq(l, 1, n - 1)]
  BY <1>3, <1>5 DEF Hashed
<1>7. LineHash(e) = [type |-> "uri", mmh3 |-> SubSeq(l, 1, n - 1)]
  BY Zenon DEF LineHash, Front, l, ts
<1> QED
  BY <1>6, <1>7 DEF ts

\* What comes next is put behind what the output should have been.
LEMMA OutputsGrow ==
  ASSUME NEW td, NEW hd, IsSeq(hd), IsSeq(FlattenSeq(OutputsIn(td, hd))), NEW e,
         NEW o, o = OutputIn(td, Append(hd, e), Len(hd) + 1), IsSeq(o)
  PROVE  /\ FlattenSeq(OutputsIn(td, Append(hd, e))) = FlattenSeq(OutputsIn(td, hd)) \o o
         /\ IsSeq(FlattenSeq(OutputsIn(td, Append(hd, e))))
<1> DEFINE new == Append(hd, e)
           S   == OutputsIn(td, hd)
           R   == OutputsIn(td, new)
           n   == Len(hd)
<1>1. /\ n \in Nat /\ DOMAIN hd = 1..n /\ Len(new) = n + 1 /\ DOMAIN new = 1..n+1
  BY AppendAny, SeqShape
<1>2. /\ S = [k \in 1..n |-> S[k]] /\ R = [k \in 1..n+1 |-> R[k]]
      /\ \A k \in 1..n : S[k] = OutputIn(td, hd, k) /\ k \in 1..n+1
      /\ \A k \in 1..n+1 : R[k] = OutputIn(td, new, k)
  <2> HIDE DEF new, n
  <2> QED
    BY <1>1 DEF OutputsIn
<1>3. \A k \in 1..n : R[k] = S[k]
  <2>1. ASSUME NEW k \in 1..n PROVE OutputIn(td, new, k) = OutputIn(td, hd, k)
    BY OutputStays
  <2> HIDE DEF new, n, R, S
  <2> QED
    BY <1>2, <2>1
<1>4. R[n + 1] = o
  <2>1. n + 1 \in 1..n+1
    BY <1>1
  <2> HIDE DEF R
  <2> QED
    BY <1>2, <2>1
<1> HIDE DEF new, S, R, n
<1>5. Len(S) = n /\ Len(R) = n + 1 /\ IsSeq(S)
  <2>1. n + 1 \in Nat
    BY <1>1
  <2>2. IsSeq(S) /\ Len(S) = n
    BY <1>1, <1>2, FunctionAny
  <2>3. Len(R) = n + 1
    BY <1>2, <2>1, FunctionAny
  <2> QED
    BY <2>2, <2>3
<1>6. FlattenSeq(R) = FlattenSeq(S) \o o
  <2>1. CASE n = 0
    <3>1. S = <<>>
      BY <1>5, <2>1, EmptyAny, SameAny
    <3>2. FlattenSeq(S) = <<>>
      BY <3>1, FlattenNone
    <3>3. FlattenSeq(R) = R[1]
      <4>1. Len(R) = 1
        BY <1>5, <2>1
      <4> QED
        BY <4>1, FlattenOne
    <3>4. <<>> \o o = o
      BY ConcatNone
    <3>5. R[1] = o
      BY <1>4, <2>1
    <3> QED
      BY <3>2, <3>3, <3>4, <3>5
  <2>2. CASE n # 0
    <3>1. n >= 1
      BY <1>1, <2>2
    <3>2. FlattenSeq(R) = FlattenSeq(S) \o R[n + 1]
      BY <1>1, <1>3, <1>5, <3>1, FlattenNext
    <3> QED
      BY <1>4, <3>2
  <2> QED
    BY <2>1, <2>2
<1>7. IsSeq(FlattenSeq(S) \o o)
  <2>1. IsSeq(FlattenSeq(S))
    BY DEF S
  <2> QED
    BY <2>1, ConcatAny
<1> QED
  BY <1>6, <1>7 DEF R, S, new

LEMMA ExpectedGrows ==
  ASSUME NEW td, NEW hd, IsSeq(td), IsSeq(hd), IsSeq(FlattenSeq(OutputsIn(td, hd))), NEW e,
         NEW o, o = OutputIn(td, Append(hd, e), Len(hd) + 1), IsSeq(o)
  PROVE  /\ IsSeq(ExpectedIn(td, hd))
         /\ ExpectedIn(td, Append(hd, e)) = ExpectedIn(td, hd) \o o
<1> DEFINE h == <<[kind |-> "ns", rdf |-> "rdf"]>>
           N == NamespacesIn(td)
           F == FlattenSeq(OutputsIn(td, hd))
           G == FlattenSeq(OutputsIn(td, Append(hd, e)))
<1>1. ExpectedIn(td, hd) = (h \o N) \o F /\ ExpectedIn(td, Append(hd, e)) = (h \o N) \o G
  BY Zenon DEF ExpectedIn
<1>2. G = F \o o
  BY OutputsGrow
<1>3. IsSeq(h) /\ IsSeq(N) /\ IsSeq(F)
  BY OneAny, NamespacesAppend
<1> HIDE DEF h, N, F, G
<1>4. IsSeq(h \o N)
  BY <1>3, ConcatAny
<1> DEFINE p == h \o N
<1> HIDE DEF p
<1>5. IsSeq(p \o F) /\ (p \o F) \o o = p \o (F \o o)
  BY <1>3, <1>4, ConcatAny, ConcatAssocAny DEF p
<1> QED
  BY <1>1, <1>2, <1>5 DEF p

\* Pairs that have the values of the objects of the statements fs.
Paired(td, hd, fs, bs) ==
  /\ IsSeq(fs) /\ IsSeq(bs) /\ Len(bs) = Len(fs)
  /\ \A n \in 1..Len(fs) : fs[n].obj \in Term
  /\ \A n \in 1..Len(fs) : \A f : f = fs[n] => bs[n] = <<f.pred, Value(td, hd, f.obj)>>

\* The pairs of a subject, as prnt() finds them, are those that it should write.
LEMMA PairsAre ==
  ASSUME NEW td, NEW hd, NEW k, k = Len(hd) + 1, NEW fs, NEW bs, Paired(td, hd, fs, bs), NEW h
  PROVE  /\ Pairs(h, bs) = AsPairs(td, hd, k, h, ReadyOnes(td, hd, k, fs))
         /\ IsSeq(Pairs(h, bs))
<1> DEFINE I == {n \in DOMAIN bs : bs[n][2].type # "unknown"}
           J == {n \in DOMAIN fs : ReadyIn(td, hd, k, fs[n].obj) # {}}
           a == Kept(bs, I)
           b == Kept(fs, J)
<1>1. /\ Len(bs) \in Nat /\ DOMAIN bs = 1..Len(bs) /\ DOMAIN fs = 1..Len(bs)
      /\ IsSeq(fs) /\ IsSeq(bs) /\ Len(bs) = Len(fs)
  BY SeqShape DEF Paired
<1>2. ASSUME NEW n \in 1..Len(bs)
      PROVE  /\ bs[n][1] = fs[n].pred
             /\ bs[n][2].type # "unknown" <=> ReadyIn(td, hd, k, fs[n].obj) # {}
             /\ ReadyIn(td, hd, k, fs[n].obj) # {} => bs[n][2] = Member(ReadyIn(td, hd, k, fs[n].obj))
  <2> DEFINE t == fs[n].obj
             R == ReadyIn(td, hd, k, t)
  <2>1. bs[n] = <<fs[n].pred, Value(td, hd, t)>> /\ t \in Term
    BY <1>1 DEF Paired
  <2> HIDE DEF t
  <2>2. /\ Value(td, hd, t) = IF R = {} THEN nul_term ELSE Member(R)
        /\ Value(td, hd, t).type # "unknown" <=> R # {}
    BY <2>1, ValueReady
  <2> HIDE DEF R
  <2>3. bs[n][1] = fs[n].pred /\ bs[n][2] = Value(td, hd, t)
    BY <2>1
  <2> QED
    BY <2>2, <2>3 DEF R, t
<1>3. \A n \in 1..Len(bs) : n \in I <=> n \in J
  BY <1>1, <1>2
<1> HIDE DEF I, J
<1>4. Alike(a, b, bs, fs, I, Len(bs))
  BY <1>1, <1>3, KeptAlike
<1> HIDE DEF a, b
<1>5. /\ Len(a) \in Nat /\ DOMAIN a = 1..Len(a) /\ DOMAIN b = 1..Len(a)
  BY <1>4, SeqShape DEF Alike
<1>6. ASSUME NEW x \in 1..Len(a)
      PROVE  <<h, a[x][1], a[x][2]>> = <<h, b[x].pred, Member(ReadyIn(td, hd, k, b[x].obj))>>
  <2>1. PICK y \in 1..Len(bs) : y \in I /\ a[x] = bs[y] /\ b[x] = fs[y]
    BY <1>4 DEF Alike
  <2>2. bs[y][2].type # "unknown"
    BY <2>1 DEF I
  <2>3. bs[y][1] = fs[y].pred /\ bs[y][2] = Member(ReadyIn(td, hd, k, fs[y].obj))
    BY <1>2, <2>2
  <2> QED
    BY <2>1, <2>3
<1> DEFINE p == [x \in 1..Len(a) |-> <<h, a[x][1], a[x][2]>>]
<1>7. Pairs(h, bs) = p
  <2>1. Pairs(h, bs) = [x \in DOMAIN a |-> <<h, a[x][1], a[x][2]>>]
    BY Zenon DEF Pairs, a, I
  <2> QED
    BY <1>5, <2>1
<1>8. AsPairs(td, hd, k, h, ReadyOnes(td, hd, k, fs)) = [x \in 1..Len(a) |-> <<h, b[x].pred, Member(ReadyIn(td, hd, k, b[x].obj))>>]
  <2>1. ReadyOnes(td, hd, k, fs) = b
    BY Zenon DEF ReadyOnes, b, J
  <2> QED
    BY <1>5, <2>1 DEF AsPairs
<1>9. p = [x \in 1..Len(a) |-> <<h, b[x].pred, Member(ReadyIn(td, hd, k, b[x].obj))>>]
  BY <1>6
<1>10. IsSeq(p)
  <2>1. p = [x \in 1..Len(a) |-> p[x]]
    OBVIOUS
  <2> HIDE DEF p
  <2> QED
    BY <1>5, <2>1, FunctionAny
<1> QED
  BY <1>7, <1>8, <1>9, <1>10

LEMMA NamespaceSilent ==
  ASSUME NEW td, NEW hd, IsSeq(hd), NEW e, e.kind = "ns"
  PROVE  OutputIn(td, Append(hd, e), Len(hd) + 1) = <<>>
<1>1. Append(hd, e)[Len(hd) + 1] = e
  BY AppendAny
<1> QED
  BY <1>1, Zenon DEF OutputIn

\* The next statement does not change what is ready for it.
LEMMA AsPairsStay ==
  ASSUME NEW td, NEW hd, IsSeq(hd), NEW e, NEW k \in 1..Len(hd)+1, NEW h, NEW fs
  PROVE  AsPairs(td, Append(hd, e), k, h, ReadyOnes(td, Append(hd, e), k, fs))
           = AsPairs(td, hd, k, h, ReadyOnes(td, hd, k, fs))
<1> DEFINE new == Append(hd, e)
<1>1. ASSUME NEW t PROVE ReadyIn(td, new, k, t) = ReadyIn(td, hd, k, t)
  BY ReadyStays
<1> HIDE DEF new
<1>2. ReadyOnes(td, new, k, fs) = ReadyOnes(td, hd, k, fs)
  <2>1. {n \in DOMAIN fs : ReadyIn(td, new, k, fs[n].obj) # {}}
          = {n \in DOMAIN fs : ReadyIn(td, hd, k, fs[n].obj) # {}}
    BY <1>1
  <2> QED
    BY <2>1, Zenon DEF ReadyOnes
<1>3. ASSUME NEW ready PROVE AsPairs(td, new, k, h, ready) = AsPairs(td, hd, k, h, ready)
  <2>1. ASSUME NEW n PROVE ReadyIn(td, new, k, ready[n].obj) = ReadyIn(td, hd, k, ready[n].obj)
    BY <1>1
  <2>2. ASSUME NEW n PROVE <<h, ready[n].pred, Member(ReadyIn(td, new, k, ready[n].obj))>>
                             = <<h, ready[n].pred, Member(ReadyIn(td, hd, k, ready[n].obj))>>
    BY <2>1, Zenon
  <2> QED
    BY <2>2 DEF AsPairs
<1> QED
  BY <1>2, <1>3, Zenon DEF new

LEMMA NoPairs ==
  ASSUME NEW td, NEW hd, NEW k, NEW h
  PROVE  AsPairs(td, hd, k, h, ReadyOnes(td, hd, k, <<>>)) = <<>>
<1>1. ReadyOnes(td, hd, k, <<>>) = <<>>
  BY KeptNone DEF ReadyOnes
<1> DEFINE s == AsPairs(td, hd, k, h, <<>>)
<1>2. DOMAIN <<>> = {} /\ 1..0 = {}
  OBVIOUS
<1>3. s = [x \in 1..0 |-> <<h, <<>>[x].pred, Member(ReadyIn(td, hd, k, <<>>[x].obj))>>]
  BY <1>2, Zenon DEF AsPairs
<1>4. s = [x \in 1..0 |-> s[x]]
  BY <1>2, <1>3
<1> HIDE DEF s
<1>5. IsSeq(s) /\ Len(s) = 0
  BY <1>4, FunctionAny
<1>6. s = <<>>
  BY <1>5, EmptyAny, SameAny
<1> QED
  BY <1>1, <1>6 DEF s

\* A statement of the input has the subject of a list if and only if the filter has one.
LEMMA SubjectKnown ==
  ASSUME CoordInv, ToldInv, AboutInv, NEW s
  PROVE  /\ terms # <<>> <=> \E n \in DOMAIN told : told[n].kind = "stmt"
         /\ (\E i \in DOMAIN terms : terms[i] = s) <=> AboutIn(told, s) # <<>>
<1>1. /\ IsSeq(terms) /\ DOMAIN terms = 1..Len(terms) /\ Len(terms) \in Nat
      /\ IsSeq(told) /\ DOMAIN told = 1..Len(told)
  BY SeqShape DEF CoordInv, ToldInv
<1>2. ASSUME NEW i \in 1..Len(terms)
      PROVE  AboutIn(told, terms[i]) # <<>> /\ \E n \in 1..Len(told) : told[n].kind = "stmt"
  <2> DEFINE a == AboutIn(told, terms[i])
  <2>1. Len(a) >= 1
    BY DEF AboutInv
  <2>2. IsSeq(a) /\ \A k \in 1..Len(a) : \E n \in 1..Len(told) : told[n].kind = "stmt"
    BY <1>1, AboutShape
  <2> HIDE DEF a
  <2>3. Len(a) \in Nat
    BY <2>2, SeqShape
  <2>4. 1 \in 1..Len(a) /\ a # <<>>
    BY <2>1, <2>3, EmptyAny
  <2> QED
    BY <2>2, <2>4 DEF a
<1>3. terms # <<>> => 1 \in 1..Len(terms)
  <2> SUFFICES ASSUME terms # <<>> PROVE 1 \in 1..Len(terms)
    OBVIOUS
  <2>1. Len(terms) # 0
    BY <1>1, EmptyAny, SameAny
  <2> QED
    BY <1>1, <2>1
<1>4. ASSUME NEW n \in 1..Len(told), told[n].kind = "stmt"
      PROVE  \E i \in 1..Len(terms) : terms[i] = told[n].subj
  BY <1>4 DEF AboutInv
<1>5. terms # <<>> <=> \E n \in DOMAIN told : told[n].kind = "stmt"
  <2>1. terms = <<>> => 1..Len(terms) = {}
    BY EmptyAny
  <2> QED
    BY <1>1, <1>2, <1>3, <1>4, <2>1
<1>6. (\E i \in DOMAIN terms : terms[i] = s) => AboutIn(told, s) # <<>>
  BY <1>1, <1>2
<1>7. AboutIn(told, s) # <<>> => \E i \in DOMAIN terms : terms[i] = s
  <2>1. CASE \E n \in 1..Len(told) : told[n].kind = "stmt" /\ told[n].subj = s
    BY <1>1, <1>4, <2>1
  <2>2. CASE \A n \in 1..Len(told) : ~(told[n].kind = "stmt" /\ told[n].subj = s)
    BY <1>1, <2>2, AboutNobody
  <2> QED
    BY <2>1, <2>2
<1> QED
  BY <1>5, <1>6, <1>7

LEMMA FourAny ==
  ASSUME NEW a, NEW b, NEW c, NEW d
  PROVE  IsSeq(<<a, b, c, d>>)
<1> DEFINE S == {a, b, c, d}
<1>1. a \in S /\ b \in S /\ c \in S /\ d \in S
  OBVIOUS
<1> HIDE DEF S
<1>2. <<a, b, c, d>> \in Seq(S)
  BY <1>1
<1> QED
  BY <1>2 DEF IsSeq

\* prnt() writes what it should.
LEMMA PrntWrites ==
  ASSUME CoordInv, FilterInv, IsSeq(heard), ~far, NamesPlain, NamesEnd, mem.s = <<>>, IsSeq(fold),
         NEW e \in InputEvents, e.kind # "ns", Prnt(e)
  PROVE  \E o : /\ o = OutputIn(told, Append(heard, e), Len(heard) + 1)
                /\ IsSeq(o) /\ fold' = fold \o o
<1> DEFINE k   == Len(heard) + 1
           at  == {n \in DOMAIN terms : terms[n] = e.pred}
           h   == LineHash(e)
           fs  == AboutIn(told, e.pred)
           ps  == AsPairs(told, heard, k, h, ReadyOnes(told, heard, k, fs))
           stm == \E n \in DOMAIN told : told[n].kind = "stmt"
           o   == OutputIn(told, Append(heard, e), k)
<1>1. /\ ToldInv /\ AboutInv /\ PairInv /\ IsSeq(terms) /\ DOMAIN terms = 1..Len(terms)
      /\ IsSeq(told) /\ IsSeq(beefs) /\ Len(beefs) = Len(terms)
      /\ \A i \in 1..Len(beefs) : IsSeq(beefs[i])
  BY SeqShape DEF FilterInv, ToldInv, CoordInv, ArePairs, TermsDistinct
<1>2. e.subj \in Term /\ e.pred \in Term /\ e.obj \in Term
  BY EventAssumption
<1>3. o = IF fs = <<>> /\ stm THEN <<>> ELSE Reified(h, e) \o ps
  <2>1. Append(heard, e)[k] = e /\ k \in 1..Len(heard)+1
    BY AppendAny, SeqShape
  <2> HIDE DEF k
  <2>2. AsPairs(told, Append(heard, e), k, h, ReadyOnes(told, Append(heard, e), k, fs)) = ps
    <3> HIDE DEF h, fs
    <3> QED
      BY <2>1, AsPairsStay
  <2> QED
    BY <2>1, <2>2, Zenon DEF OutputIn
<1>4. (terms # <<>> <=> stm) /\ (at # {} <=> fs # <<>>)
  <2>1. /\ terms # <<>> <=> \E n \in DOMAIN told : told[n].kind = "stmt"
        /\ (\E i \in DOMAIN terms : terms[i] = e.pred) <=> AboutIn(told, e.pred) # <<>>
    BY <1>1, SubjectKnown
  <2> QED
    BY <2>1
<1>5. Hashed(Written(mem, NTriples(e))) = h
  BY <1>2, LineHashed
<1>6. IF terms # <<>> /\ at = {} THEN fold' = fold
      ELSE fold' = fold \o Reified(h, e) \o (IF at = {} THEN <<>> ELSE Pairs(h, beefs[Min(at)]))
  <2>1. IF terms # <<>> /\ at = {} THEN UNCHANGED <<mem, fold, far>>
        ELSE fold' = fold \o Reified(Hashed(Written(mem, NTriples(e))), e)
                       \o (IF at = {} THEN <<>> ELSE Pairs(Hashed(Written(mem, NTriples(e))), beefs[Min(at)]))
    BY Zenon DEF Prnt
  <2> HIDE DEF h, at
  <2> QED
    BY <1>5, <2>1
<1>7. IsSeq(Reified(h, e))
  BY FourAny DEF Reified
<1>8. at # {} => /\ Pairs(h, beefs[Min(at)]) = ps /\ IsSeq(ps)
  <2> SUFFICES ASSUME at # {} PROVE Pairs(h, beefs[Min(at)]) = ps /\ IsSeq(ps)
    OBVIOUS
  <2> DEFINE i == Min(at)
  <2>1. i \in at
    <3>1. at \subseteq Nat
      BY <1>1
    <3> HIDE DEF at
    <3> QED
      BY <3>1, MinOf
  <2>2. i \in 1..Len(terms) /\ terms[i] = e.pred
    BY <1>1, <2>1
  <2> HIDE DEF i, at
  <2> DEFINE bs == beefs[i]
  <2>3. IsSeq(fs) /\ IsSeq(bs) /\ Len(bs) = Len(fs)
    BY <1>1, <2>2, AboutShape DEF AboutInv
  <2>4. ASSUME NEW n \in 1..Len(fs) PROVE fs[n].obj \in Term
    BY <1>1, ObjectNamed
  <2>5. ASSUME NEW n \in 1..Len(fs), NEW f, f = fs[n]
        PROVE  bs[n] = <<f.pred, Value(told, heard, f.obj)>>
    BY <1>1, <2>2, <2>3, <2>5 DEF PairInv
  <2> HIDE DEF fs, bs, h
  <2>6. Pairs(h, bs) = ps /\ IsSeq(Pairs(h, bs))
    <3>1. \A n \in 1..Len(fs) : \A f : f = fs[n] => bs[n] = <<f.pred, Value(told, heard, f.obj)>>
      BY <2>5, Zenon
    <3>2. \A n \in 1..Len(fs) : fs[n].obj \in Term
      BY <2>4, Zenon
    <3>a. Paired(told, heard, fs, bs)
      BY <2>3, <3>1, <3>2 DEF Paired
    <3>b. k = Len(heard) + 1
      OBVIOUS
    <3> HIDE DEF ps, k
    <3>3. /\ Pairs(h, bs) = AsPairs(told, heard, k, h, ReadyOnes(told, heard, k, fs))
          /\ IsSeq(Pairs(h, bs))
      BY <3>a, <3>b, PairsAre
    <3> QED
      BY <3>3, Zenon DEF ps
  <2> QED
    BY <2>6 DEF bs, i
<1>9. at = {} => ps = <<>>
  <2>1. at = {} => fs = <<>>
    BY <1>4
  <2> HIDE DEF at, fs, h, k
  <2> QED
    BY <2>1, NoPairs
<1> HIDE DEF at, fs, ps, h, stm, o
<1>10. IsSeq(o) /\ fold' = fold \o o
  <2>1. CASE terms # <<>> /\ at = {}
    <3>1. o = <<>>
      BY <1>3, <1>4, <2>1
    <3>2. fold' = fold
      BY <1>6, <2>1
    <3> QED
      BY <3>1, <3>2, ConcatNone, EmptyAny
  <2>2. CASE ~(terms # <<>> /\ at = {})
    <3>1. o = Reified(h, e) \o ps
      BY <1>3, <1>4, <2>2
    <3>2. (IF at = {} THEN <<>> ELSE Pairs(h, beefs[Min(at)])) = ps /\ IsSeq(ps)
      BY <1>8, <1>9, EmptyAny
    <3>3. fold' = (fold \o Reified(h, e)) \o ps
      BY <1>6, <2>2, <3>2
    <3>4. (fold \o Reified(h, e)) \o ps = fold \o (Reified(h, e) \o ps)
      BY <1>7, <3>2, ConcatAssocAny
    <3>5. IsSeq(Reified(h, e) \o ps)
      BY <1>7, <3>2, ConcatAny
    <3> QED
      BY <3>1, <3>3, <3>4, <3>5
  <2> QED
    BY <2>1, <2>2
<1> QED
  BY <1>10 DEF o

\* A statement of the input changes nothing about the objects of the filter.
LEMMA PrntFilters ==
  ASSUME CoordInv, FilterInv, IsSeq(heard), NEW e, e.kind # "ns",
         heard' = Append(heard, e), UNCHANGED <<told, terms, beefs, rplc, cords>>, ~far
  PROVE  FilterInv'
<1>1. /\ ToldInv /\ HitInv /\ AboutInv /\ EntInv /\ WaitInv /\ PairInv
      /\ told' = told /\ terms' = terms /\ beefs' = beefs /\ rplc' = rplc /\ cords' = cords
  BY DEF FilterInv
<1>2. ToldInv' /\ (NamesPlain' <=> NamesPlain) /\ (NamesEnd' <=> NamesEnd)
  BY <1>1 DEF ToldInv, NamesPlain, NamesEnd, AtObjects
<1>3. HitInv'
  BY <1>1, SameHits
<1>4. AboutInv' /\ EntInv'
  BY <1>1 DEF AboutInv, EntInv
<1>5. WaitInv'
  <2> SUFFICES ASSUME NamesPlain, NamesEnd, NEW n \in 1..Len(terms), NEW m \in 1..Len(beefs[n]),
                      NEW o, o = AboutIn(told, terms[n])[m].obj, IsAtObject(o)
               PROVE  Waits(rplc, cords, n, m, o)
    BY <1>1, <1>2 DEF WaitInv
  <2> QED
    BY <1>1 DEF WaitInv
<1>6. PairInv'
  <2> SUFFICES ASSUME NamesPlain, NamesEnd, NEW i \in 1..Len(terms), NEW j \in 1..Len(beefs[i]),
                      NEW f, f = AboutIn(told, terms[i])[j]
               PROVE  beefs[i][j] = <<f.pred, Value(told, Append(heard, e), f.obj)>>
    BY <1>1, <1>2 DEF PairInv
  <2>1. beefs[i][j] = <<f.pred, Value(told, heard, f.obj)>>
    BY <1>1 DEF PairInv
  <2>2. Value(told, Append(heard, e), f.obj) = Value(told, heard, f.obj)
    BY ValueStays
  <2> QED
    BY <2>1, <2>2
<1> QED
  BY <1>2, <1>3, <1>4, <1>5, <1>6 DEF FilterInv

---------------------------------------------------------------------------
(* The whole output.                                                       *)

\* What has been handed over is what is expected, of the input so far.
FoldInv ==
  /\ FilterInv /\ IsSeq(heard) /\ mem.s = <<>>
  /\ main = "start" => told = <<>>
  /\ main \in {"start", "filter"} => heard = <<>>
  /\ main \in {"filter", "input"} /\ ~far /\ NamesPlain /\ NamesEnd =>
       IsSeq(FlattenSeq(OutputsIn(told, heard))) /\ fold = ExpectedIn(told, heard)

LEMMA FilterSame ==
  ASSUME FilterInv, told' = told, heard' = heard, terms' = terms, beefs' = beefs,
         rplc' = rplc, cords' = cords, far' = far
  PROVE  FilterInv'
<1>1. ToldInv /\ HitInv /\ AboutInv /\ EntInv /\ WaitInv /\ PairInv
  BY DEF FilterInv
<1>2. ToldInv' /\ (NamesPlain' <=> NamesPlain) /\ (NamesEnd' <=> NamesEnd)
  BY <1>1 DEF ToldInv, NamesPlain, NamesEnd, AtObjects
<1>3. HitInv' /\ AboutInv' /\ EntInv'
  BY <1>1, SameHits DEF AboutInv, EntInv
<1>4. WaitInv'
  <2> SUFFICES ASSUME ~far, NamesPlain, NamesEnd, NEW n \in 1..Len(terms), NEW m \in 1..Len(beefs[n]),
                      NEW o, o = AboutIn(told, terms[n])[m].obj, IsAtObject(o)
               PROVE  Waits(rplc, cords, n, m, o)
    BY <1>2 DEF WaitInv
  <2> QED
    BY <1>1 DEF WaitInv
<1>5. PairInv'
  <2> SUFFICES ASSUME ~far, NamesPlain, NamesEnd, NEW i \in 1..Len(terms), NEW j \in 1..Len(beefs[i]),
                      NEW f, f = AboutIn(told, terms[i])[j]
               PROVE  beefs[i][j] = <<f.pred, Value(told, heard, f.obj)>>
    BY <1>2 DEF PairInv
  <2> QED
    BY <1>1 DEF PairInv
<1> QED
  BY <1>2, <1>3, <1>4, <1>5 DEF FilterInv

LEMMA SameNames ==
  ASSUME told' = told
  PROVE  (NamesPlain' <=> NamesPlain) /\ (NamesEnd' <=> NamesEnd)
  BY DEF NamesPlain, NamesEnd, AtObjects

\* main() goes on, and the tables and what was written stay as they are.
LEMMA FoldSame ==
  ASSUME FoldInv, told' = told, heard' = heard, terms' = terms, beefs' = beefs,
         rplc' = rplc, cords' = cords, far' = far, mem' = mem, fold' = fold,
         main' # "start" \/ main' = main, main' = "filter" => main = "filter",
         main' = "input" => main \in {"filter", "input"}
  PROVE  FoldInv'
<1>1. FilterInv'
  BY FilterSame DEF FoldInv
<1>2. (NamesPlain' <=> NamesPlain) /\ (NamesEnd' <=> NamesEnd)
  BY SameNames
<1> QED
  BY <1>1, <1>2 DEF FoldInv

LEMMA FoldInit == Init => FoldInv
<1> SUFFICES ASSUME Init PROVE FoldInv
  OBVIOUS
<1>1. /\ main = "start" /\ terms = <<>> /\ beefs = <<>> /\ rplc = <<>> /\ cords = <<>>
      /\ mem.s = <<>> /\ told = <<>> /\ heard = <<>>
  BY DEF Init
<1>2. Len(<<>>) = 0 /\ IsSeq(<<>>) /\ 1..0 = {} /\ DOMAIN <<>> = {}
  BY EmptyAny
<1>3. ToldInv /\ AboutInv /\ EntInv /\ WaitInv /\ PairInv
  BY <1>1, <1>2 DEF ToldInv, AboutInv, EntInv, WaitInv, PairInv
<1>4. HitInv
  <2> SUFFICES ASSUME NEW x, PlainName(x)
               PROVE  Hits(rplc, x) = {} /\ FindRplc(rplc, x) = {} /\ ~Within(x) /\ ~Seen(x)
    BY DEF HitInv
  <2>1. ~Within(x) /\ ~Seen(x)
    BY <1>1, <1>2 DEF Within, Seen
  <2>2. <<>> \in Seq(Nat) /\ Bytes(<<>>)
    BY DEF Bytes
  <2>3. Hits(<<>>, x) = {}
    <3> SUFFICES ASSUME NEW p \in Hits(<<>>, x) PROVE FALSE
      OBVIOUS
    <3>1. Fits(<<>>, x, p) /\ x \in Seq(Nat) /\ x # <<>>
      BY <2>2, HitsAre DEF PlainName
    <3>2. Len(x) \in Nat /\ Len(x) # 0
      BY <3>1, LenProperties
    <3> QED
      BY <1>2, <3>1, <3>2 DEF Fits
  <2>4. FindRplc(<<>>, x) = {}
    BY <2>2, <2>3, FoundAt
  <2> QED
    BY <1>1, <2>1, <2>3, <2>4
<1> QED
  BY <1>1, <1>2, <1>3, <1>4 DEF FoldInv, FilterInv

LEMMA FoldStarts ==
  ASSUME FoldInv, Start
  PROVE  FoldInv'
<1>1. /\ main = "start" /\ main' \in {"filter", "input"} /\ fold' = <<[kind |-> "ns", rdf |-> "rdf"]>>
      /\ told' = told /\ heard' = heard /\ terms' = terms /\ beefs' = beefs
      /\ rplc' = rplc /\ cords' = cords /\ far' = far /\ mem' = mem
  BY DEF Start
<1>2. told = <<>> /\ heard = <<>> /\ FilterInv /\ mem.s = <<>>
  BY <1>1 DEF FoldInv
<1>3. FilterInv'
  BY <1>1, <1>2, FilterSame
<1>4. IsSeq(FlattenSeq(OutputsIn(<<>>, <<>>)))
  BY NoOutputs, EmptyAny
<1>5. ExpectedIn(<<>>, <<>>) = <<[kind |-> "ns", rdf |-> "rdf"]>>
  <2>1. ExpectedIn(<<>>, <<>>) = <<[kind |-> "ns", rdf |-> "rdf"]>> \o NamespacesIn(<<>>)
    BY EmptyAny, ExpectedFirst
  <2>2. NamespacesIn(<<>>) = <<>>
    BY KeptNone DEF NamespacesIn
  <2> DEFINE h == <<[kind |-> "ns", rdf |-> "rdf"]>>
  <2>3. h \o <<>> = h
    BY OneAny, ConcatNone
  <2> QED
    BY <2>1, <2>2, <2>3
<1>6. told' = <<>> /\ heard' = <<>> /\ mem'.s = <<>> /\ IsSeq(heard')
  BY <1>1, <1>2, EmptyAny
<1> QED
  BY <1>1, <1>3, <1>4, <1>5, <1>6 DEF FoldInv

LEMMA FoldFilters ==
  ASSUME TableInv, SlotInv, FoldInv, ReadFilter
  PROVE  FoldInv'
<1>1. PICK e \in FilterEvents :
        /\ main = "filter" /\ ~far /\ main' = main /\ mem' = mem /\ heard' = heard
        /\ told' = Append(told, e)
        /\ IF e.kind = "ns" THEN Nmsp(e) ELSE Flts(e) /\ fold' = fold
  BY DEF ReadFilter
<1>2. heard = <<>> /\ FilterInv /\ mem.s = <<>> /\ CoordInv /\ IsSeq(told)
  BY <1>1 DEF FoldInv, TableInv
<1>3. (NamesPlain' => NamesPlain) /\ (NamesEnd' => NamesEnd)
  <2>1. AtObjects \subseteq AtObjects'
    BY <1>1, <1>2, AtObjectsStay
  <2> QED
    BY <2>1, NamesBefore
<1>4. FilterInv'
  <2>1. CASE e.kind = "ns"
    <3>1. terms' = terms /\ beefs' = beefs /\ rplc' = rplc /\ cords' = cords /\ far' = far
      BY <1>1, <2>1 DEF Nmsp, filterVars, rplcVars
    <3> QED
      BY <1>1, <1>2, <2>1, <3>1, NmspFilters
  <2>2. CASE e.kind # "ns"
    <3>1. e.kind = "stmt"
      BY <2>2, EventAssumption
    <3> QED
      BY <1>1, <1>2, <2>2, <3>1, FltsFilters
  <2> QED
    BY <2>1, <2>2
<1>5. fold' = IF e.kind = "ns" THEN Append(fold, e) ELSE fold
  BY <1>1 DEF Nmsp
<1>6. ExpectedIn(told', <<>>) =
        IF e.kind = "ns" THEN Append(ExpectedIn(told, <<>>), e) ELSE ExpectedIn(told, <<>>)
  BY <1>1, <1>2, ExpectedFiltered
<1>7. IsSeq(FlattenSeq(OutputsIn(told', <<>>)))
  BY NoOutputs, EmptyAny
<1>8. NamesPlain' /\ NamesEnd' => fold = ExpectedIn(told, <<>>)
  BY <1>1, <1>2, <1>3 DEF FoldInv
<1>9. heard' = <<>> /\ IsSeq(heard') /\ mem'.s = <<>>
  BY <1>1, <1>2, EmptyAny
<1>10. NamesPlain' /\ NamesEnd' => fold' = ExpectedIn(told', <<>>)
  BY <1>5, <1>6, <1>8
<1> QED
  BY <1>1, <1>4, <1>7, <1>9, <1>10 DEF FoldInv

LEMMA FoldReads ==
  ASSUME TableInv, SlotInv, FoldInv, ReadInput
  PROVE  FoldInv'
<1>1. PICK e \in InputEvents :
        /\ main = "input" /\ ~far /\ main' = main /\ heard' = Append(heard, e)
        /\ IF e.kind = "ns" THEN Nscp(e) /\ mem' = mem /\ fold' = fold ELSE Prnt(e) /\ beefs' = beefs
        /\ told' = told /\ terms' = terms /\ rplc' = rplc /\ cords' = cords
  BY DEF ReadInput, rplcVars
<1>2. FilterInv /\ mem.s = <<>> /\ CoordInv /\ IsSeq(told) /\ IsSeq(heard)
  BY DEF FoldInv, TableInv
<1>3. (NamesPlain' <=> NamesPlain) /\ (NamesEnd' <=> NamesEnd)
  BY <1>1, SameNames
<1>4. FilterInv' /\ mem'.s = <<>>
  <2>1. CASE e.kind = "ns"
    BY <1>1, <1>2, <2>1, NscpFilters
  <2>2. CASE e.kind # "ns"
    <3>1. FilterInv'
      BY <1>1, <1>2, <2>2, PrntFilters
    <3>2. mem'.s = <<>>
      <4>1. Prnt(e)
        BY <1>1, <2>2
      <4>2. mem' = mem \/ mem' = [s |-> <<>>, z |-> Written(mem, NTriples(e)).z]
        BY <4>1, Zenon DEF Prnt
      <4> QED
        BY <1>2, <4>2
    <3> QED
      BY <3>1, <3>2
  <2> QED
    BY <2>1, <2>2
<1>5. IsSeq(heard')
  BY <1>1, <1>2, AppendAny
<1>6. ASSUME NamesPlain, NamesEnd
      PROVE  IsSeq(FlattenSeq(OutputsIn(told, heard'))) /\ fold' = ExpectedIn(told, heard')
  <2>1. IsSeq(FlattenSeq(OutputsIn(told, heard))) /\ fold = ExpectedIn(told, heard)
    BY <1>1, <1>6 DEF FoldInv
  <2> DEFINE o == OutputIn(told, Append(heard, e), Len(heard) + 1)
  <2>2. IsSeq(fold)
    <3>1. IsSeq(OutputIn(told, Append(heard, [kind |-> "ns"]), Len(heard) + 1))
      BY <1>2, NamespaceSilent, EmptyAny
    <3> QED
      BY <1>2, <2>1, <3>1, ExpectedGrows
  <2>3. IsSeq(o) /\ fold' = fold \o o
    <3>1. CASE e.kind = "ns"
      <4>1. o = <<>>
        BY <1>2, <3>1, NamespaceSilent
      <4> QED
        BY <1>1, <2>2, <3>1, <4>1, ConcatNone, EmptyAny
    <3>2. CASE e.kind # "ns"
      BY <1>1, <1>2, <1>6, <2>2, <3>2, PrntWrites
    <3> QED
      BY <3>1, <3>2
  <2> HIDE DEF o
  <2>4. /\ IsSeq(FlattenSeq(OutputsIn(told, Append(heard, e))))
        /\ ExpectedIn(told, Append(heard, e)) = ExpectedIn(told, heard) \o o
    <3>1. IsSeq(told) /\ IsSeq(heard) /\ IsSeq(FlattenSeq(OutputsIn(told, heard))) /\ IsSeq(o)
      BY <1>2, <2>1, <2>3
    <3>2. o = OutputIn(told, Append(heard, e), Len(heard) + 1)
      BY DEF o
    <3>3. IsSeq(FlattenSeq(OutputsIn(told, Append(heard, e))))
      BY <3>1, <3>2, OutputsGrow
    <3>4. ExpectedIn(told, Append(heard, e)) = ExpectedIn(told, heard) \o o
      BY <3>1, <3>2, ExpectedGrows
    <3> QED
      BY <3>3, <3>4
  <2> QED
    BY <1>1, <2>1, <2>3, <2>4
<1> QED
  BY <1>1, <1>3, <1>4, <1>5, <1>6 DEF FoldInv

LEMMA FoldStep == TableInv /\ SlotInv /\ FoldInv /\ [Next]_vars => FoldInv'
<1> SUFFICES ASSUME TableInv, SlotInv, FoldInv, [Next]_vars PROVE FoldInv'
  OBVIOUS
<1>1. CASE Start
  BY <1>1, FoldStarts
<1>2. CASE Fails
  BY <1>2, FoldSame DEF Fails, Frees, filterVars, rplcVars
<1>3. CASE ReadFilter
  BY <1>3, FoldFilters
<1>4. CASE FilterEnds
  BY <1>4, FoldSame DEF FilterEnds, filterVars, rplcVars
<1>5. CASE ReadInput
  BY <1>5, FoldReads
<1>6. CASE InputEnds
  BY <1>6, FoldSame DEF InputEnds, Frees, filterVars, rplcVars
<1>7. CASE UNCHANGED vars
  BY <1>7, FoldSame DEF vars, filterVars, rplcVars
<1> QED
  BY <1>1, <1>2, <1>3, <1>4, <1>5, <1>6, <1>7 DEF Next

\* If no name is hidden, what is ready of a filter's object is what was promised of it.
LEMMA ReadyIsPromised ==
  ASSUME IsSeq(told), NamesFound, NEW k, NEW s, NEW n \in 1..Len(AboutIn(told, s)),
         NEW t, t = AboutIn(told, s)[n].obj
  PROVE  ReadyIn(told, heard, k, t) = Objects(k, t)
<1>1. IsAtObject(t) => ~HiddenIn(told, Name(t))
  <2> SUFFICES ASSUME IsAtObject(t) PROVE ~HiddenIn(told, Name(t))
    OBVIOUS
  <2>1. PICK m \in 1..Len(told) : t = told[m].obj /\ told[m].kind = "stmt"
    BY AboutShape
  <2>2. m \in DOMAIN told
    BY <2>1, SeqShape
  <2>3. t \in AtObjects
    BY <2>1, <2>2 DEF AtObjects
  <2> QED
    BY <2>3, HiddenIs DEF NamesFound
<1>2. Objects(k, t) = IF ~IsAtObject(t) THEN {t} ELSE {GotFrom(heard, m, t) : m \in LastIn(heard, k, Name(t))}
  BY Zenon DEF Objects, GotFrom, LastIn, GivenIn, Given
<1> QED
  BY <1>1, <1>2, Zenon DEF ReadyIn

LEMMA OutputIs ==
  ASSUME IsSeq(told), NamesFound, NEW k
  PROVE  Output(k) = OutputIn(told, heard, k)
<1> DEFINE e  == heard[k]
           H  == LineHash(e)
           fs == AboutIn(told, e.pred)
           I  == {n \in DOMAIN fs : ReadyIn(told, heard, k, fs[n].obj) # {}}
           J  == {n \in DOMAIN fs : Objects(k, fs[n].obj) # {}}
           R  == Kept(fs, I)
           Promised(ready) ==
             [n \in DOMAIN ready |-> <<H, ready[n].pred, CHOOSE o \in Objects(k, ready[n].obj) : TRUE>>]
           Nothing == e.kind = "ns" \/ (fs = <<>> /\ \E n \in DOMAIN told : told[n].kind = "stmt")
<1>1. Output(k) = IF Nothing THEN <<>> ELSE Reified(H, e) \o Promised(Kept(fs, J))
  BY Zenon DEF Output, About, AboutIn, LineHash
<1>2. OutputIn(told, heard, k) = IF Nothing THEN <<>> ELSE Reified(H, e) \o AsPairs(told, heard, k, H, R)
  BY Zenon DEF OutputIn, ReadyOnes
<1>3. IsSeq(fs) /\ Len(fs) \in Nat /\ DOMAIN fs = 1..Len(fs)
  BY AboutShape, SeqShape
<1>4. \A n \in 1..Len(fs) : ReadyIn(told, heard, k, fs[n].obj) = Objects(k, fs[n].obj)
  BY ReadyIsPromised
<1> HIDE DEF H, fs
<1>5. J = I
  BY <1>3, <1>4
<1>6. /\ IsSeq(R)
      /\ \A n \in 1..Len(R) : \E m \in 1..Len(fs) : R[n] = fs[m]
  <2> HIDE DEF I
  <2>1. Alike(R, R, fs, fs, I, Len(fs))
    BY <1>3, KeptAlike
  <2> QED
    BY <2>1 DEF Alike
<1>7. \A n \in DOMAIN R : ReadyIn(told, heard, k, R[n].obj) = Objects(k, R[n].obj)
  <2>1. DOMAIN R = 1..Len(R)
    BY <1>6, SeqShape
  <2> HIDE DEF R
  <2> QED
    BY <1>4, <1>6, <2>1
<1> HIDE DEF R
<1>8. Promised(R) = AsPairs(told, heard, k, H, R)
  <2>1. \A n \in DOMAIN R : <<H, R[n].pred, CHOOSE o \in Objects(k, R[n].obj) : TRUE>>
                              = <<H, R[n].pred, Member(ReadyIn(told, heard, k, R[n].obj))>>
    BY <1>7, Zenon DEF Member
  <2> QED
    BY <2>1 DEF AsPairs
<1>9. Kept(fs, J) = R
  BY <1>5 DEF R
<1> HIDE DEF Promised, Nothing, I, J
<1> QED
  BY <1>1, <1>2, <1>8, <1>9, Zenon

LEMMA ExpectedIs ==
  ASSUME IsSeq(told), NamesFound
  PROVE  Expected = ExpectedIn(told, heard)
<1>1. Expected = <<[kind |-> "ns", rdf |-> "rdf"]>> \o Kept(told, {n \in DOMAIN told : told[n].kind = "ns"})
                   \o FlattenSeq([k \in DOMAIN heard |-> Output(k)])
  BY Zenon DEF Expected
<1>2. ASSUME NEW k PROVE Output(k) = OutputIn(told, heard, k)
  BY OutputIs
<1>3. [k \in DOMAIN heard |-> Output(k)] = OutputsIn(told, heard)
  BY <1>2 DEF OutputsIn
<1> QED
  BY <1>1, <1>3, Zenon DEF ExpectedIn, NamespacesIn

\* The whole output is the namespaces of the filter and, for each statement of the
\* input that is selected, its reification and the pairs of the filter with each
\* @ object resolved by the latest declaration of its prefix, in order
\* (metarap.c:292-300, :442-573, :575-647), however long the filter and the input: for
\* filters whose names have no @ and no NUL, are not empty and not a part of one before.
THEOREM OutputIsExact == Spec => []MetadataExact
<1>1. FoldInv => MetadataExact
  BY ExpectedIs DEF FoldInv, FilterInv, ToldInv, MetadataExact
<1> QED
  BY <1>1, TableInit, TableStep, SlotInit, SlotStep, FoldInit, FoldStep, PTL DEF Spec

===========================================================================
