------------------------ MODULE TtlPrefixifyProofs ------------------------
(***************************************************************************)
(* What holds of subst(), add_prefix() and wr_stmt() of ttl-prefixify for  *)
(* every statement, every table of prefixes and every size of the buffers. *)
(***************************************************************************)
EXTENDS TtlPrefixify, SequenceTheorems, FiniteSetTheorems, WellFoundedInduction, TLAPS

---------------------------------------------------------------------------
(* Natural numbers: the least one of a set, and induction with sets.       *)

LEMMA LeastOf ==
  ASSUME NEW T, T \subseteq Nat, T # {}
  PROVE  \E x \in T : \A y \in T : x <= y
<1> DEFINE R == OpToRel(<, Nat)
<1>1. IsWellFoundedOn(R, Nat)
  BY NatLessThanWellFounded
<1>2. \A x, y \in Nat : (<<y, x>> \in R) <=> y < x
  BY DEF OpToRel
<1> HIDE DEF R
<1>3. \E x \in T : \A y \in T : ~ (<<y, x>> \in R)
  BY <1>1, WFMin
<1>4. PICK x \in T : \A y \in T : ~ (<<y, x>> \in R)
  BY <1>3
<1>5. \A y \in T : ~ (y < x)
  BY <1>2, <1>4, Zenon
<1> QED
  BY <1>5

\* What holds behind the last character, and at each one if it does at those after
\* it, holds at all of them.
LEMMA FromTheEnd ==
  ASSUME NEW T, NEW n \in Nat, n + 1 \in T,
         \A j \in 1..n : (\A h \in j+1..n+1 : h \in T) => j \in T
  PROVE  \A j \in 1..n+1 : j \in T
<1> DEFINE U == {d \in 0..n : (n + 1) - d \notin T}
<1> SUFFICES ASSUME U # {} PROVE FALSE
  <2>1. ASSUME NEW j \in 1..n+1, j \notin T PROVE FALSE
    <3>1. (n + 1) - j \in U
      BY <2>1
    <3> QED
      BY <3>1
  <2> QED
    BY <2>1
<1>0. U \subseteq Nat
  OBVIOUS
<1>1. PICK d \in U : \A e \in U : d <= e
  <2> HIDE DEF U
  <2> QED
    BY <1>0, LeastOf
<1>2. d \in 0..n /\ (n + 1) - d \notin T
  BY <1>1
<1>3. PICK j \in 1..n : j = (n + 1) - d /\ j \notin T
  <2>1. d # 0
    BY <1>2
  <2> QED
    BY <1>2, <2>1
<1>4. ASSUME NEW h \in j+1..n+1 PROVE h \in T
  <2> DEFINE e == (n + 1) - h
  <2>1. e \in 0..n /\ e < d /\ (n + 1) - e = h
    BY <1>2, <1>3, <1>4
  <2>2. e \notin U
    BY <1>1, <1>2, <2>1
  <2> QED
    BY <2>1, <2>2
<1> QED
  BY <1>3, <1>4

LEMMA SetInduction ==
  ASSUME NEW T, NEW n \in Nat, 0 \in T, \A j \in 1..n : j - 1 \in T => j \in T
  PROVE  \A j \in 0..n : j \in T
<1> DEFINE U == {j \in 0..n : j \notin T}
<1> SUFFICES ASSUME U # {} PROVE FALSE
  OBVIOUS
<1>0. U \subseteq Nat
  OBVIOUS
<1>1. PICK j \in U : \A h \in U : j <= h
  <2> HIDE DEF U
  <2> QED
    BY <1>0, LeastOf
<1>2. j \in 1..n /\ j - 1 \in 0..n /\ j - 1 < j
  <2>1. j # 0
    BY <1>1
  <2> QED
    BY <2>1
<1>3. j - 1 \notin U
  BY <1>1, <1>2
<1> QED
  BY <1>2, <1>3

LEMMA MinOf ==
  ASSUME NEW T, T \subseteq Nat, T # {}
  PROVE  Min(T) \in T /\ \A y \in T : Min(T) <= y
<1>1. \E x \in T : \A y \in T : x <= y
  BY LeastOf
<1> QED
  BY <1>1 DEF Min

LEMMA MinIs ==
  ASSUME NEW T, T \subseteq Nat, NEW x \in T, \A y \in T : x <= y
  PROVE  Min(T) = x
<1>1. Min(T) \in T /\ Min(T) <= x
  BY MinOf
<1>2. x <= Min(T) /\ x \in Nat /\ Min(T) \in Nat
  BY <1>1
<1> QED
  BY <1>1, <1>2

LEMMA MinOne ==
  ASSUME NEW x \in Nat
  PROVE  Min({x}) = x
<1> DEFINE T == {x}
<1>1. T \subseteq Nat /\ x \in T /\ \A y \in T : x <= y
  OBVIOUS
<1> HIDE DEF T
<1>2. Min(T) = x
  BY <1>1, MinIs
<1> QED
  BY <1>2 DEF T

---------------------------------------------------------------------------
(* The > that is searched for.                                             *)

LEMMA ClosingIs ==
  ASSUME NEW q, Len(q) \in Nat, NEW j \in Nat, NEW e \in j..Len(q),
         q[e] = ">", \A x \in j..e-1 : q[x] \notin {">", Nul}
  PROVE  Closing(q, j) = {e}
<1> DEFINE ends == {x \in j..Len(q) : q[x] \in {">", Nul}}
<1>1. ends \subseteq Nat /\ e \in ends
  OBVIOUS
<1>2. \A x \in ends : e <= x
  <2>1. ASSUME NEW x \in ends, x < e PROVE FALSE
    <3>1. x \in j..e-1
      BY <2>1
    <3> QED
      BY <3>1
  <2> QED
    BY <2>1
<1> HIDE DEF ends
<1>3. Min(ends) = e /\ ends # {}
  BY <1>1, <1>2, MinIs
<1> QED
  BY <1>3 DEF Closing, ends

LEMMA ClosingOnly ==
  ASSUME NEW q, Len(q) \in Nat, NEW j \in Nat, Closing(q, j) # {}
  PROVE  \E e \in j..Len(q) :
           /\ q[e] = ">"
           /\ \A x \in j..e-1 : q[x] \notin {">", Nul}
           /\ Closing(q, j) = {e}
<1> DEFINE ends == {x \in j..Len(q) : q[x] \in {">", Nul}}
<1>1. ends # {} /\ q[Min(ends)] = ">" /\ Closing(q, j) = {Min(ends)}
  BY DEF Closing
<1>2. Min(ends) \in ends /\ \A y \in ends : Min(ends) <= y
  <2>1. ends \subseteq Nat
    OBVIOUS
  <2> HIDE DEF ends
  <2> QED
    BY <1>1, <2>1, MinOf
<1>3. PICK e : e = Min(ends)
  OBVIOUS
<1>4. e \in j..Len(q) /\ \A x \in j..e-1 : q[x] \notin {">", Nul}
  <2>1. e \in j..Len(q)
    BY <1>2, <1>3
  <2>2. ASSUME NEW x \in j..e-1, q[x] \in {">", Nul} PROVE FALSE
    <3>1. x \in ends /\ x < e
      BY <2>1, <2>2
    <3> QED
      BY <1>2, <1>3, <2>1, <3>1
  <2> QED
    BY <2>1, <2>2
<1> QED
  BY <1>1, <1>3, <1>4

---------------------------------------------------------------------------
(* The reference does what it says, at each place of the text.             *)

LEMMA EndIs ==
  ASSUME NEW s, NEW j, NEW e \in Nat, Closing(s, j + 1) = {e}
  PROVE  End(s, j) = e
  BY MinOne, Zenon DEF End

\* The IRI that is replaced ends in the text.
LEMMA EndsInside ==
  ASSUME NEW tab, NEW s \in Seq(Char), NEW j \in 1..Len(s), Replaced(tab, s, j)
  PROVE  End(s, j) \in j+1..Len(s) /\ s[End(s, j)] = ">" /\ Closing(s, j + 1) = {End(s, j)}
<1>0. Len(s) \in Nat /\ j + 1 \in Nat
  BY LenProperties
<1>1. Closing(s, j + 1) # {}
  BY Zenon DEF Replaced
<1>2. PICK e \in j+1..Len(s) :
              /\ s[e] = ">"
              /\ \A x \in j+1..e-1 : s[x] \notin {">", Nul}
              /\ Closing(s, j + 1) = {e}
  BY <1>0, <1>1, ClosingOnly, Zenon
<1>3. e \in Nat
  BY <1>0
<1>4. End(s, j) = e
  BY <1>2, <1>3, EndIs, Zenon
<1> QED
  BY <1>2, <1>4, Zenon

LEMMA Substituting ==
  ASSUME NEW tab, NEW s \in Seq(Char)
  PROVE  \A j \in 1..Len(s)+1 :
           SubstitutedFrom(tab, s)[j] =
             IF j > Len(s) THEN <<>>
             ELSE IF Replaced(tab, s, j)
                  THEN Named(tab, s, j) \o SubstitutedFrom(tab, s)[End(s, j) + 1]
                  ELSE <<s[j]>> \o SubstitutedFrom(tab, s)[j+1]
<1> DEFINE n == Len(s)
           step(f, j) == IF j > n THEN <<>>
                         ELSE IF Replaced(tab, s, j) THEN Named(tab, s, j) \o f[End(s, j) + 1]
                                                     ELSE <<s[j]>> \o f[j+1]
           is(f, a)   == f = [j \in a..n+1 |-> step(f, j)]
           T          == {a \in 1..n+1 : \E f : is(f, a)}
<1>0. n \in Nat
  BY LenProperties
<1>1. n + 1 \in T
  <2> DEFINE f == [j \in n+1..n+1 |-> <<>>]
  <2>1. is(f, n + 1)
    <3>1. \A j \in n+1..n+1 : step(f, j) = <<>>
      BY <1>0
    <3> HIDE DEF step
    <3> QED
      BY <3>1
  <2> HIDE DEF is
  <2> QED
    BY <1>0, <2>1
<1>2. ASSUME NEW a \in 1..n, \A h \in a+1..n+1 : h \in T PROVE a \in T
  <2>0. a + 1 \in T
    <3>1. a + 1 \in a+1..n+1
      BY <1>0
    <3> HIDE DEF T
    <3> QED
      BY <1>2, <3>1
  <2>1. PICK f : is(f, a + 1)
    BY <2>0
  <2> DEFINE g == [j \in a..n+1 |-> IF j = a THEN step(f, a) ELSE f[j]]
  <2>2. \A j \in a+1..n+1 : g[j] = f[j]
    BY <1>0
  <2>3. ASSUME NEW j \in a..n+1 PROVE step(g, j) = step(f, j)
    <3>1. CASE j > n
      BY <3>1
    <3>2. CASE j <= n /\ Replaced(tab, s, j)
      <4>1. End(s, j) \in j+1..n
        <5>1. j \in 1..Len(s)
          BY <1>0, <3>2
        <5> QED
          BY <3>2, <5>1, EndsInside
      <4>2. End(s, j) + 1 \in a+1..n+1
        BY <1>0, <4>1
      <4> HIDE DEF g
      <4> QED
        BY <2>2, <4>2
    <3>3. CASE j <= n /\ ~Replaced(tab, s, j)
      <4>1. j + 1 \in a+1..n+1
        BY <1>0, <3>3
      <4> HIDE DEF g
      <4> QED
        BY <2>2, <3>3, <4>1
    <3> QED
      BY <1>0, <3>1, <3>2, <3>3
  <2>4. ASSUME NEW j \in a..n+1 PROVE g[j] = step(f, j)
    <3> HIDE DEF step
    <3>1. CASE j = a
      BY <3>1
    <3>2. CASE j # a
      <4>1. j \in a+1..n+1
        BY <1>0, <3>2
      <4> QED
        BY <2>1, <2>2, <4>1
    <3> QED
      BY <3>1, <3>2
  <2>5. is(g, a)
    <3>1. \A j \in a..n+1 : g[j] = step(g, j)
      BY <2>3, <2>4
    <3>2. g = [j \in a..n+1 |-> g[j]]
      OBVIOUS
    <3> HIDE DEF g, step
    <3> QED
      BY <3>1, <3>2
  <2> HIDE DEF is, g
  <2> QED
    BY <1>0, <2>5
<1>3. 1 \in T
  <2> HIDE DEF T
  <2> QED
    BY <1>0, <1>1, <1>2, FromTheEnd
<1>4. PICK f : is(f, 1)
  BY <1>3
<1>5. is(SubstitutedFrom(tab, s), 1)
  BY <1>4 DEF SubstitutedFrom
<1> HIDE DEF step
<1>6. \A j \in 1..n+1 : SubstitutedFrom(tab, s)[j] = step(SubstitutedFrom(tab, s), j)
  BY <1>5
<1> QED
  BY <1>6 DEF step

LEMMA SubstitutingEnds ==
  ASSUME NEW tab, NEW s \in Seq(Char)
  PROVE  SubstitutedFrom(tab, s)[Len(s) + 1] = <<>>
<1>1. Len(s) + 1 \in 1..Len(s)+1 /\ Len(s) + 1 > Len(s)
  BY LenProperties
<1> QED
  BY <1>1, Substituting, Zenon

LEMMA SubstitutingOne ==
  ASSUME NEW tab, NEW s \in Seq(Char), NEW j \in 1..Len(s), Replaced(tab, s, j)
  PROVE  SubstitutedFrom(tab, s)[j] = Named(tab, s, j) \o SubstitutedFrom(tab, s)[End(s, j) + 1]
<1>1. j \in 1..Len(s)+1 /\ ~(j > Len(s))
  BY LenProperties
<1> QED
  BY <1>1, Substituting, Zenon

LEMMA SubstitutingNone ==
  ASSUME NEW tab, NEW s \in Seq(Char), NEW j \in 1..Len(s), ~Replaced(tab, s, j)
  PROVE  SubstitutedFrom(tab, s)[j] = <<s[j]>> \o SubstitutedFrom(tab, s)[j + 1]
<1>1. j \in 1..Len(s)+1 /\ ~(j > Len(s))
  BY LenProperties
<1> QED
  BY <1>1, Substituting, Zenon

---------------------------------------------------------------------------
(* The search, from place to place.                                        *)

Start(mem) == [mem |-> mem, sp |-> 1, cp |-> 0, pp |-> 0, none |-> FALSE, far |-> FALSE]

LEMMA Searching ==
  ASSUME NEW tab, NEW mem, Len(mem) \in Nat
  PROVE  /\ Searched(tab, mem)[0] = Start(mem)
         /\ \A j \in 1..Len(mem) :
              Searched(tab, mem)[j] = Look(tab, Searched(tab, mem)[j-1], j)
<1> DEFINE n == Len(mem)
           step(f, j) == IF j = 0 THEN Start(mem) ELSE Look(tab, f[j-1], j)
           is(f, a)   == f = [j \in 0..a |-> step(f, j)]
           T          == {a \in 0..n : \E f : is(f, a)}
<1>1. 0 \in T
  <2> DEFINE f == [j \in 0..0 |-> Start(mem)]
  <2>1. is(f, 0)
    OBVIOUS
  <2> HIDE DEF is
  <2> QED
    BY <2>1
<1>2. ASSUME NEW a \in 1..n, a - 1 \in T PROVE a \in T
  <2>1. PICK f : is(f, a - 1)
    BY <1>2
  <2> DEFINE g == [j \in 0..a |-> IF j = a THEN Look(tab, f[a-1], a) ELSE f[j]]
  <2>2. \A j \in 0..a-1 : g[j] = f[j]
    OBVIOUS
  <2>3. ASSUME NEW j \in 0..a PROVE g[j] = step(g, j)
    <3>1. CASE j = 0
      <4>1. f[0] = step(f, 0) /\ 0 \in 0..a-1
        BY <2>1
      <4> QED
        BY <2>2, <3>1, <4>1
    <3>2. CASE j \in 1..a-1
      <4>1. f[j] = step(f, j) /\ j - 1 \in 0..a-1 /\ j \in 0..a-1
        BY <2>1, <3>2
      <4>2. g[j - 1] = f[j - 1] /\ g[j] = f[j]
        BY <2>2, <4>1
      <4> HIDE DEF g
      <4> QED
        BY <3>2, <4>1, <4>2
    <3>3. CASE j = a
      <4>1. g[a - 1] = f[a - 1] /\ g[a] = Look(tab, f[a-1], a)
        BY <2>2
      <4> HIDE DEF g
      <4> QED
        BY <3>3, <4>1
    <3> QED
      BY <3>1, <3>2, <3>3
  <2>4. is(g, a)
    <3>1. g = [j \in 0..a |-> g[j]]
      OBVIOUS
    <3> HIDE DEF g, step
    <3> QED
      BY <2>3, <3>1
  <2> HIDE DEF is, g
  <2> QED
    BY <2>4
<1>3. n \in T
  <2> HIDE DEF T
  <2>1. \A j \in 0..n : j \in T
    BY <1>1, <1>2, SetInduction
  <2> QED
    BY <2>1
<1>4. PICK f : is(f, n)
  BY <1>3
<1>5. is(Searched(tab, mem), n)
  BY <1>4 DEF Searched, Start
<1> HIDE DEF step
<1>6. \A j \in 0..n : Searched(tab, mem)[j] = step(Searched(tab, mem), j)
  BY <1>5
<1>7. 0 \in 0..n /\ \A j \in 1..n : j \in 0..n /\ j # 0
  OBVIOUS
<1> QED
  BY <1>6, <1>7 DEF step

---------------------------------------------------------------------------
(* What is behind the search is the text still, and looks like it.         *)

\* The characters, and those that the program puts in (that these are strings too is
\* more than the provers know).
Sign == STRING \cup {Nul, ":", "\n", "@prefix", " ", "<", ">", "."}

LEMMA Texts ==
  ASSUME NEW s \in Seq(Char)
  PROVE  s \in Seq(Sign) /\ \A x \in 1..Len(s) : s[x] \in Sign /\ s[x] # Nul
<1>1. Char \subseteq Sign
  BY DEF Char, Sign
<1>2. s \in Seq(Sign)
  BY <1>1, SeqMonotonic
<1>3. \A x \in 1..Len(s) : s[x] \in Char
  BY ElementOfSeq
<1> QED
  BY <1>2, <1>3 DEF Char, Sign

LEMMA Uris ==
  ASSUME NEW p \in Prefix
  PROVE  /\ p.puri \in Seq(Sign) /\ p.prfx \in Seq(Sign)
         /\ \A x \in 1..Len(p.puri) : p.puri[x] # Nul /\ p.puri[x] # ">"
<1>1. Char \ {">"} \subseteq Sign /\ Char \subseteq Sign
  BY DEF Char, Sign
<1>2. p.puri \in Seq(Char \ {">"}) /\ p.prfx \in Seq(Char)
  BY DEF Prefix
<1>3. p.puri \in Seq(Sign) /\ p.prfx \in Seq(Sign)
  BY <1>1, <1>2, SeqMonotonic
<1>4. \A x \in 1..Len(p.puri) : p.puri[x] \in Char \ {">"}
  BY <1>2, ElementOfSeq
<1> QED
  BY <1>3, <1>4 DEF Char, Sign

\* What subst() works on: the text and the NULs behind it.
LEMMA Memory ==
  ASSUME NEW s \in Seq(Char), NEW room \in Nat
  PROVE  LET m == Loaded(s, room)
         IN  /\ m \in [1..room -> Sign]
             /\ \A x \in 1..room : m[x] = IF x <= Len(s) THEN s[x] ELSE Nul
<1>1. \A x \in 1..room : x <= Len(s) => s[x] \in Sign
  BY Texts, LenProperties
<1>2. Nul \in Sign
  BY DEF Nul, Sign
<1>3. \A x \in 1..room : (IF x <= Len(s) THEN s[x] ELSE Nul) \in Sign
  BY <1>1, <1>2
<1> QED
  BY <1>3 DEF Loaded

LEMMA Mem ==
  ASSUME NEW room \in Nat, NEW m \in [1..room -> Sign]
  PROVE  m \in Seq(Sign) /\ Len(m) = room /\ DOMAIN m = 1..room
  OBVIOUS

LEMMA AtIs ==
  ASSUME NEW q \in Seq(Sign), NEW puri \in Seq(Sign), NEW h \in Nat, h >= 1
  PROVE  At(q, h, puri) <=> /\ (h + Len(puri)) - 1 <= Len(q)
                            /\ \A x \in 1..Len(puri) : q[(h - 1) + x] = puri[x]
<1> DEFINE l == Len(puri)
           t == SubSeq(q, h, (h + l) - 1)
<1>0. l \in Nat /\ Len(q) \in Nat /\ h + l - 1 = (h + l) - 1
  BY LenProperties
<1>1. ASSUME (h + l) - 1 <= Len(q)
      PROVE  t \in Seq(Sign) /\ Len(t) = l /\ \A x \in 1..l : t[x] = q[(h - 1) + x]
  <2>1. \A x \in h..(h + l)-1 : q[x] \in Sign
    <3>1. \A x \in h..(h + l)-1 : x \in 1..Len(q)
      BY <1>0, <1>1
    <3> QED
      BY <3>1, ElementOfSeq
  <2>2. t \in Seq(Sign)
    BY <1>0, <2>1, SubSeqProperties
  <2>3. Len(t) = l
    BY <1>0
  <2>4. \A x \in 1..l : t[x] = q[(h - 1) + x]
    BY <1>0
  <2> QED
    BY <2>2, <2>3, <2>4
<1> HIDE DEF t
<1>2. ASSUME (h + l) - 1 <= Len(q)
      PROVE  t = puri <=> \A x \in 1..l : q[(h - 1) + x] = puri[x]
  <2>1. ASSUME \A x \in 1..l : q[(h - 1) + x] = puri[x] PROVE t = puri
    BY <1>1, <1>2, <2>1, SeqEqual
  <2> QED
    BY <1>1, <1>2, <2>1
<1>3. At(q, h, puri) <=> (h + l) - 1 <= Len(q) /\ t = puri
  BY <1>0 DEF At, t
<1> QED
  BY <1>2, <1>3

LEMMA LooksAlike ==
  ASSUME NEW tab \in Seq(Prefix), NEW s \in Seq(Char), NEW room \in Nat, room > Len(s),
         NEW m \in [1..room -> Sign], NEW j \in 1..Len(s),
         \A x \in j..room : m[x] = IF x <= Len(s) THEN s[x] ELSE Nul
  PROVE  /\ m[j] = s[j]
         /\ Known(tab, m, j + 1) = Known(tab, s, j + 1)
         /\ Closing(m, j + 1) = Closing(s, j + 1)
<1> DEFINE n == Len(s)
<1>0. /\ n \in Nat /\ n < room /\ j + 1 \in Nat /\ j + 1 >= 1
      /\ m \in Seq(Sign) /\ Len(m) = room /\ s \in Seq(Sign)
      /\ \A x \in 1..n : s[x] # Nul
  BY LenProperties, Mem, Texts
<1>1. m[j] = s[j]
  BY <1>0
<1>2. ASSUME NEW i \in DOMAIN tab
      PROVE  At(m, j + 1, tab[i].puri) <=> At(s, j + 1, tab[i].puri)
  <2> DEFINE puri == tab[i].puri
             l    == Len(puri)
  <2>1. puri \in Seq(Sign) /\ l \in Nat /\ \A x \in 1..l : puri[x] # Nul
    <3>1. tab[i] \in Prefix
      BY ElementOfSeq
    <3> QED
      BY <3>1, Uris, LenProperties
  <2> HIDE DEF puri
  <2>2. At(m, j + 1, puri) <=> /\ ((j + 1) + l) - 1 <= room
                               /\ \A x \in 1..l : m[((j + 1) - 1) + x] = puri[x]
    BY <1>0, <2>1, AtIs
  <2>3. At(s, j + 1, puri) <=> /\ ((j + 1) + l) - 1 <= n
                               /\ \A x \in 1..l : s[((j + 1) - 1) + x] = puri[x]
    BY <1>0, <2>1, AtIs
  <2>4. ((j + 1) + l) - 1 = j + l /\ (j + 1) - 1 = j
    BY <2>1
  <2>5. ASSUME j + l <= n, NEW x \in 1..l PROVE m[j + x] = s[j + x]
    <3>1. j + x \in j..room /\ j + x <= n
      BY <1>0, <2>1, <2>5
    <3> QED
      BY <3>1
  <2>6. ASSUME j + l <= room, \A x \in 1..l : m[j + x] = puri[x] PROVE j + l <= n
    <3> SUFFICES ASSUME j + l > n PROVE FALSE
      BY <1>0, <2>1
    <3>1. l \in 1..l /\ j + l \in j..room /\ ~(j + l <= n)
      BY <1>0, <2>1, <2>6
    <3>2. m[j + l] = Nul
      BY <3>1
    <3> QED
      BY <2>1, <2>6, <3>1, <3>2
  <2>7. j + l <= n => j + l <= room
    BY <1>0, <2>1
  <2> HIDE DEF l, n
  <2>8. At(m, j + 1, puri) <=> j + l <= room /\ \A x \in 1..l : m[j + x] = puri[x]
    BY <2>2, <2>4
  <2>9. At(s, j + 1, puri) <=> j + l <= n /\ \A x \in 1..l : s[j + x] = puri[x]
    BY <2>3, <2>4
  <2> QED
    BY <2>5, <2>6, <2>7, <2>8, <2>9 DEF puri
<1>3. Known(tab, m, j + 1) = Known(tab, s, j + 1)
  BY <1>2 DEF Known
<1>4. ASSUME Closing(m, j + 1) # {} PROVE Closing(m, j + 1) = Closing(s, j + 1)
  <2>1. PICK e \in j+1..Len(m) :
               /\ m[e] = ">"
               /\ \A x \in j+1..e-1 : m[x] \notin {">", Nul}
               /\ Closing(m, j + 1) = {e}
    BY <1>0, <1>4, ClosingOnly, Zenon
  <2>2. e <= n
    <3>1. SUFFICES ASSUME e > n PROVE FALSE
      BY <1>0
    <3>2. e \in j..room /\ ~(e <= n)
      BY <1>0, <3>1
    <3>3. m[e] = Nul
      BY <3>2
    <3> QED
      BY <2>1, <3>3 DEF Nul
  <2>3. \A x \in j+1..e : m[x] = s[x]
    <3>1. \A x \in j+1..e : x \in j..room /\ x <= n
      BY <1>0, <2>2
    <3> QED
      BY <3>1
  <2>4. e \in j+1..n /\ s[e] = ">" /\ \A x \in j+1..e-1 : s[x] \notin {">", Nul}
    <3>1. e \in j+1..n /\ e \in j+1..e /\ \A x \in j+1..e-1 : x \in j+1..e
      BY <1>0, <2>2
    <3> HIDE DEF n
    <3> QED
      BY <2>1, <2>3, <3>1
  <2>5. Closing(s, j + 1) = {e}
    BY <1>0, <2>4, ClosingIs, Zenon
  <2> QED
    BY <2>1, <2>5, Zenon
<1>5. ASSUME Closing(s, j + 1) # {} PROVE Closing(m, j + 1) = Closing(s, j + 1)
  <2>1. PICK e \in j+1..Len(s) :
               /\ s[e] = ">"
               /\ \A x \in j+1..e-1 : s[x] \notin {">", Nul}
               /\ Closing(s, j + 1) = {e}
    BY <1>0, <1>5, ClosingOnly, Zenon
  <2>3. \A x \in j+1..e : m[x] = s[x]
    <3>1. \A x \in j+1..e : x \in j..room /\ x <= n
      BY <1>0
    <3> QED
      BY <3>1
  <2>4. e \in j+1..Len(m) /\ m[e] = ">" /\ \A x \in j+1..e-1 : m[x] \notin {">", Nul}
    <3>1. e \in j+1..Len(m) /\ e \in j+1..e /\ \A x \in j+1..e-1 : x \in j+1..e
      BY <1>0
    <3> HIDE DEF n
    <3> QED
      BY <2>1, <2>3, <3>1
  <2>5. Closing(m, j + 1) = {e}
    BY <1>0, <2>4, ClosingIs, Zenon
  <2> QED
    BY <2>1, <2>5, Zenon
<1> QED
  BY <1>1, <1>3, <1>4, <1>5, Zenon

\* A known URI is what the text has there, and the > is behind it.
LEMMA KnownIs ==
  ASSUME NEW tab \in Seq(Prefix), NEW s \in Seq(Char), NEW j \in 1..Len(s), Replaced(tab, s, j)
  PROVE  LET p == tab[Min(Known(tab, s, j + 1))]
         IN  p \in Prefix /\ p \in {tab[i] : i \in DOMAIN tab} /\ j + 1 + Len(p.puri) <= End(s, j)
<1> DEFINE K == Known(tab, s, j + 1)
           i == Min(K)
           p == tab[i]
           e == End(s, j)
<1>1. K # {} /\ K \subseteq DOMAIN tab /\ DOMAIN tab = 1..Len(tab) /\ Len(tab) \in Nat
  BY LenProperties DEF Replaced, Known
<1>2. i \in K
  <2>1. K \subseteq Nat
    BY <1>1
  <2> HIDE DEF K
  <2> QED
    BY <1>1, <2>1, MinOf
<1>3. i \in DOMAIN tab /\ At(s, j + 1, p.puri)
  BY <1>2 DEF Known
<1>4. p \in Prefix
  <2> HIDE DEF i
  <2> QED
    BY <1>1, <1>3, ElementOfSeq
<1> HIDE DEF p, K
<1>5. e \in j+1..Len(s) /\ s[e] = ">"
  BY EndsInside
<1>6. /\ p.puri \in Seq(Sign) /\ Len(p.puri) \in Nat /\ s \in Seq(Sign)
      /\ \A x \in 1..Len(p.puri) : p.puri[x] # ">"
  BY <1>4, Uris, Texts, LenProperties
<1>7. j \in Nat /\ j + 1 \in Nat /\ j + 1 >= 1 /\ (j + 1) - 1 = j /\ Len(s) \in Nat
  BY LenProperties
<1>8. \A x \in 1..Len(p.puri) : s[j + x] = p.puri[x]
  BY <1>3, <1>6, <1>7, AtIs, SMTT(30)
<1>9. j + 1 + Len(p.puri) <= e
  <2> DEFINE l == Len(p.puri)
  <2>1. SUFFICES ASSUME ~(j + 1 + l <= e) PROVE FALSE
    OBVIOUS
  <2>2. l \in Nat /\ e \in Nat
    BY <1>5, <1>6, <1>7
  <2> HIDE DEF l, e
  <2>3. PICK x \in 1..l : j + x = e
    <3>1. e - j \in 1..l /\ j + (e - j) = e
      BY <1>5, <1>7, <2>1, <2>2
    <3> QED
      BY <3>1
  <2> QED
    BY <1>5, <1>6, <1>8, <2>3 DEF l
<1> QED
  BY <1>3, <1>4, <1>9 DEF p, K

LEMMA NamedSigns ==
  ASSUME NEW tab \in Seq(Prefix), NEW s \in Seq(Char), NEW j \in 1..Len(s), Replaced(tab, s, j)
  PROVE  Named(tab, s, j) \in Seq(Sign)
<1> DEFINE p == tab[Min(Known(tab, s, j + 1))]
           v == j + 1 + Len(p.puri)
           q == SubSeq(s, v, End(s, j) - 1)
<1>1. p \in Prefix
  BY KnownIs
<1>2. p.prfx \in Seq(Sign)
  BY <1>1, Uris
<1>l. Len(p.puri) \in Nat
  BY <1>1, Uris, LenProperties
<1>3. End(s, j) \in j+1..Len(s)
  BY EndsInside
<1>n. Len(s) \in Nat /\ j \in Nat
  BY LenProperties
<1> HIDE DEF p
<1>a. v \in Nat /\ v >= 1 /\ End(s, j) - 1 \in Nat /\ End(s, j) - 1 <= Len(s)
  <2> DEFINE l == Len(p.puri)
             e == End(s, j)
  <2> HIDE DEF l, e
  <2>1. l \in Nat /\ e \in j+1..Len(s)
    BY <1>l, <1>3 DEF l, e
  <2>2. j + 1 + l \in Nat /\ j + 1 + l >= 1 /\ e - 1 \in Nat /\ e - 1 <= Len(s)
    BY <1>n, <2>1
  <2> QED
    BY <2>2 DEF l, e
<1>b. s \in Seq(Sign)
  BY Texts
<1>4. q \in Seq(Sign)
  <2> HIDE DEF v
  <2>1. \A x \in v..End(s, j)-1 : s[x] \in Sign
    <3>1. \A x \in v..End(s, j)-1 : x \in 1..Len(s)
      BY <1>n, <1>a
    <3> QED
      BY <1>b, <3>1, ElementOfSeq
  <2> QED
    BY <1>a, <1>b, <2>1, SubSeqProperties
<1>5. <<":">> \in Seq(Sign)
  BY DEF Sign
<1>6. p.prfx \o <<":">> \in Seq(Sign)
  BY <1>2, <1>5, ConcatProperties
<1> HIDE DEF q
<1>7. (p.prfx \o <<":">>) \o q \in Seq(Sign)
  BY <1>4, <1>6, ConcatProperties
<1> QED
  BY <1>7 DEF Named, q, v, p

LEMMA SubstitutedSigns ==
  ASSUME NEW tab \in Seq(Prefix), NEW s \in Seq(Char)
  PROVE  \A j \in 1..Len(s)+1 : SubstitutedFrom(tab, s)[j] \in Seq(Sign)
<1> DEFINE n == Len(s)
           T == {j \in 1..n+1 : SubstitutedFrom(tab, s)[j] \in Seq(Sign)}
<1>0. n \in Nat
  BY LenProperties
<1>1. n + 1 \in T
  <2>1. SubstitutedFrom(tab, s)[n + 1] \in Seq(Sign)
    BY SubstitutingEnds, EmptySeq, Zenon
  <2> QED
    BY <1>0, <2>1
<1>2. ASSUME NEW j \in 1..n, \A h \in j+1..n+1 : h \in T PROVE j \in T
  <2>0. j \in 1..n+1
    BY <1>0
  <2> SUFFICES SubstitutedFrom(tab, s)[j] \in Seq(Sign)
    BY <2>0
  <2>1. CASE Replaced(tab, s, j)
    <3>1. SubstitutedFrom(tab, s)[j] = Named(tab, s, j) \o SubstitutedFrom(tab, s)[End(s, j) + 1]
      BY <2>1, SubstitutingOne
    <3>2. End(s, j) + 1 \in j+1..n+1
      <4>1. End(s, j) \in j+1..n
        BY <2>1, EndsInside
      <4> QED
        BY <1>0, <4>1
    <3>3. SubstitutedFrom(tab, s)[End(s, j) + 1] \in Seq(Sign)
      BY <1>2, <3>2
    <3>4. Named(tab, s, j) \in Seq(Sign)
      BY <2>1, NamedSigns
    <3> HIDE DEF T
    <3> QED
      BY <3>1, <3>3, <3>4, ConcatProperties
  <2>2. CASE ~Replaced(tab, s, j)
    <3>1. SubstitutedFrom(tab, s)[j] = <<s[j]>> \o SubstitutedFrom(tab, s)[j + 1]
      BY <2>2, SubstitutingNone
    <3>2. j + 1 \in j+1..n+1
      BY <1>0
    <3>3. SubstitutedFrom(tab, s)[j + 1] \in Seq(Sign)
      BY <1>2, <3>2
    <3>4. s[j] \in Sign
      BY Texts
    <3>5. <<s[j]>> \in Seq(Sign)
      BY <3>4
    <3> HIDE DEF T
    <3> QED
      BY <3>1, <3>3, <3>5, ConcatProperties
  <2> QED
    BY <2>1, <2>2
<1> HIDE DEF T
<1>3. \A j \in 1..n+1 : j \in T
  BY <1>0, <1>1, <1>2, FromTheEnd
<1> QED
  BY <1>3 DEF T

---------------------------------------------------------------------------
(* subst() moves characters about in its memory.                           *)

IsMoved(room, m, dst, src, k, o) ==
  /\ o \in [1..room -> Sign]
  /\ \A x \in 1..room :
       o[x] = IF dst <= x /\ x <= (dst + k) - 1 THEN m[(x - dst) + src] ELSE m[x]

LEMMA MoveIs ==
  ASSUME NEW room \in Nat, NEW m \in [1..room -> Sign],
         NEW dst \in Nat, NEW src \in Nat, NEW k \in Int, src >= 1, (src + k) - 1 <= room
  PROVE  IsMoved(room, m, dst, src, k, Move(m, dst, src, k))
<1>1. DOMAIN m = 1..room
  OBVIOUS
<1>2. ASSUME NEW x \in 1..room, dst <= x, x <= (dst + k) - 1
      PROVE  (x - dst) + src \in 1..room
  BY <1>2
<1>3. dst..dst+k-1 = dst..(dst+k)-1
  OBVIOUS
<1>4. Move(m, dst, src, k) =
        [x \in 1..room |-> IF x \in dst..(dst+k)-1 THEN m[(x - dst) + src] ELSE m[x]]
  BY <1>1, <1>3 DEF Move
<1>5. \A x \in 1..room : (IF x \in dst..(dst+k)-1 THEN m[(x - dst) + src] ELSE m[x]) \in Sign
  BY <1>2
<1>6. \A x \in 1..room : x \in dst..(dst+k)-1 <=> (dst <= x /\ x <= (dst + k) - 1)
  OBVIOUS
<1> QED
  BY <1>4, <1>5, <1>6 DEF IsMoved

LEMMA CopyIs ==
  ASSUME NEW room \in Nat, NEW m \in [1..room -> Sign], NEW dst \in Nat, NEW q \in Seq(Sign)
  PROVE  /\ Copy(m, dst, q) \in [1..room -> Sign]
         /\ \A x \in 1..room : Copy(m, dst, q)[x] =
              IF dst <= x /\ x <= (dst + Len(q)) - 1 THEN q[(x - dst) + 1] ELSE m[x]
<1> DEFINE k == Len(q)
<1>0. k \in Nat /\ \A x \in 1..k : q[x] \in Sign
  BY LenProperties, ElementOfSeq
<1>1. DOMAIN m = 1..room
  OBVIOUS
<1> HIDE DEF k
<1>2. ASSUME NEW x \in 1..room, dst <= x, x <= (dst + k) - 1
      PROVE  (x - dst) + 1 \in 1..k
  BY <1>0, <1>2
<1>3. dst..dst+k-1 = dst..(dst+k)-1
  BY <1>0
<1>4. Copy(m, dst, q) =
        [x \in 1..room |-> IF x \in dst..(dst+k)-1 THEN q[(x - dst) + 1] ELSE m[x]]
  BY <1>1, <1>3 DEF Copy, k
<1>6. \A x \in 1..room : x \in dst..(dst+k)-1 <=> (dst <= x /\ x <= (dst + k) - 1)
  BY <1>0
<1>5. \A x \in 1..room : (IF x \in dst..(dst+k)-1 THEN q[(x - dst) + 1] ELSE m[x]) \in Sign
  BY <1>0, <1>2, <1>6
<1> QED
  BY <1>4, <1>5, <1>6 DEF k

\* What is in memory after what is known to be there.
Holds(m, k, q) == \A x \in 1..Len(q) : m[k + x] = q[x]

LEMMA Glued ==
  ASSUME NEW room \in Nat, NEW m \in [1..room -> Sign], NEW k \in Nat, NEW q \in Seq(Sign),
         k + Len(q) <= room, Holds(m, k, q)
  PROVE  SubSeq(m, 1, k + Len(q)) = SubSeq(m, 1, k) \o q
<1> DEFINE l == Len(q)
           w == SubSeq(m, 1, k)
           t == SubSeq(m, 1, k + l)
<1>0. l \in Nat
  BY LenProperties
<1>1. k <= room
  BY <1>0
<1>2. w \in Seq(Sign) /\ Len(w) = k /\ \A x \in 1..k : w[x] = m[x]
  <2>1. \A x \in 1..k : m[x] \in Sign
    BY <1>1
  <2>2. SubSeq(m, 1, k) \in Seq(Sign)
    BY <2>1, SubSeqProperties
  <2>3. Len(SubSeq(m, 1, k)) = k /\ \A x \in 1..k : SubSeq(m, 1, k)[x] = m[x]
    OBVIOUS
  <2> QED
    BY <2>2, <2>3
<1>3. t \in Seq(Sign) /\ Len(t) = k + l /\ \A x \in 1..k+l : t[x] = m[x]
  <2>0. k + l \in Nat
    BY <1>0
  <2>1. \A x \in 1..k+l : m[x] \in Sign
    BY <1>0
  <2> HIDE DEF l
  <2>2. SubSeq(m, 1, k + l) \in Seq(Sign)
    BY <2>0, <2>1, SubSeqProperties
  <2>3. Len(SubSeq(m, 1, k + l)) = k + l /\ \A x \in 1..k+l : SubSeq(m, 1, k + l)[x] = m[x]
    BY <2>0
  <2> QED
    BY <2>2, <2>3
<1>4. /\ w \o q \in Seq(Sign) /\ Len(w \o q) = k + l
      /\ \A x \in 1..k+l : (w \o q)[x] = IF x <= k THEN w[x] ELSE q[x - k]
  <2> HIDE DEF t
  <2>1. /\ w \o q \in Seq(Sign) /\ Len(w \o q) = Len(w) + Len(q)
        /\ \A x \in 1..Len(w)+Len(q) : (w \o q)[x] = IF x <= Len(w) THEN w[x] ELSE q[x - Len(w)]
    BY <1>2, ConcatProperties
  <2> QED
    BY <1>2, <2>1
<1>5. ASSUME NEW x \in 1..k+l PROVE t[x] = (w \o q)[x]
  <2>1. CASE x <= k
    <3>1. x \in 1..k
      BY <2>1
    <3> HIDE DEF t, l
    <3> QED
      BY <1>2, <1>3, <1>4, <2>1, <3>1
  <2>2. CASE ~(x <= k)
    <3>1. x - k \in 1..l /\ k + (x - k) = x
      BY <1>0, <2>2
    <3>2. m[k + (x - k)] = q[x - k]
      BY <3>1 DEF Holds
    <3> HIDE DEF t, l
    <3> QED
      BY <1>3, <1>4, <2>2, <3>1, <3>2
  <2> QED
    BY <2>1, <2>2
<1> HIDE DEF t, l
<1>6. t = w \o q
  BY <1>0, <1>3, <1>4, <1>5, SeqEqual
<1> QED
  BY <1>6 DEF t, l

---------------------------------------------------------------------------
(* The state of the search.                                                *)

SearchState(room) == [mem : [1..room -> Sign], sp : Nat, cp : Nat, pp : Nat,
                      none : BOOLEAN, far : BOOLEAN]
Sane(room, a)     == a \in SearchState(room) /\ a.sp >= 1 /\ a.cp <= a.sp

\* What is behind Kept has not been moved, what is before Put is settled.
Kept(a) == IF a.cp = 0 THEN 1 ELSE a.cp
Put(a)  == IF a.cp = 0 THEN 1 ELSE a.pp

LEMMA SaneIs ==
  ASSUME NEW room, NEW a, Sane(room, a)
  PROVE  /\ a.mem \in [1..room -> Sign]
         /\ a.sp \in Nat /\ a.cp \in Nat /\ a.pp \in Nat
         /\ a.none \in BOOLEAN /\ a.far \in BOOLEAN
         /\ a.sp >= 1 /\ a.cp <= a.sp
         /\ Kept(a) \in Nat /\ Put(a) \in Nat /\ Kept(a) >= 1 /\ Kept(a) <= a.sp
<1>1. /\ a.mem \in [1..room -> Sign]
      /\ a.sp \in Nat /\ a.cp \in Nat /\ a.pp \in Nat
      /\ a.none \in BOOLEAN /\ a.far \in BOOLEAN
      /\ a.sp >= 1 /\ a.cp <= a.sp
  BY DEF Sane, SearchState
<1>2. Kept(a) \in Nat /\ Put(a) \in Nat /\ Kept(a) >= 1 /\ Kept(a) <= a.sp
  BY <1>1 DEF Kept, Put
<1> QED
  BY <1>1, <1>2

LEMMA ColonBehind ==
  ASSUME NEW p \in Prefix
  PROVE  /\ p.prfx \o <<":">> \in Seq(Sign)
         /\ Len(p.prfx \o <<":">>) = Len(p.prfx) + 1
         /\ Len(p.prfx) \in Nat /\ Len(p.puri) \in Nat
<1>1. p.prfx \in Seq(Sign)
  BY Uris
<1>2. Len(p.prfx) \in Nat /\ Len(p.puri) \in Nat
  BY Uris, LenProperties
<1>3. ":" \in Sign
  BY DEF Sign
<1>4. <<":">> \in Seq(Sign) /\ Len(<<":">>) = 1
  BY <1>3
<1>5. p.prfx \o <<":">> \in Seq(Sign) /\ Len(p.prfx \o <<":">>) = Len(p.prfx) + Len(<<":">>)
  BY <1>1, <1>4, ConcatProperties
<1> QED
  BY <1>2, <1>4, <1>5

\* The three moves of Rewrite, with the text before the first IRI for one that is
\* moved to where it is.
Moves(room, mem, m1, m2, m3, q, v, Q, K, val, pp1, pp2) ==
  \A x \in 1..room :
    /\ m1[x] = IF Q <= x /\ x <= pp1 - 1 THEN mem[(x - Q) + K] ELSE mem[x]
    /\ m2[x] = IF pp1 <= x /\ x <= pp2 - 1 THEN q[(x - pp1) + 1] ELSE m1[x]
    /\ m3[x] = IF pp2 <= x /\ x <= (pp2 + v) - 1 THEN m2[(x - pp2) + val] ELSE m2[x]
Done(room, a, j, e, p, r) ==
  LET q   == p.prfx \o <<":">>
      pp1 == Put(a) + (j - Kept(a))
      pp2 == pp1 + (Len(p.prfx) + 1)
      val == (j + 1) + Len(p.puri)
  IN  /\ Sane(room, r)
      /\ r.sp = e + 1 /\ r.cp = e + 1 /\ r.pp = pp2 + (e - val)
      /\ r.none = a.none /\ r.far = (a.far \/ r.pp - 1 > room)
      /\ \E m1, m2 \in [1..room -> Sign] :
           Moves(room, a.mem, m1, m2, r.mem, q, e - val, Put(a), Kept(a), val, pp1, pp2)

LEMMA RewriteIs ==
  ASSUME NEW room \in Nat, NEW a, Sane(room, a), NEW j \in 1..room, a.sp <= j,
         NEW e \in j+1..room, NEW p \in Prefix, (j + 1) + Len(p.puri) <= e
  PROVE  Done(room, a, j, e, p, Rewrite(a, j, e, p))
<1> DEFINE Q   == Put(a)
           K   == Kept(a)
           r   == Rewrite(a, j, e, p)
           q   == p.prfx \o <<":">>
           pp1 == Q + (j - K)
           pp2 == pp1 + (Len(p.prfx) + 1)
           val == (j + 1) + Len(p.puri)
           m1  == IF a.cp = 0 THEN a.mem ELSE Move(a.mem, a.pp, a.cp, j - a.cp)
           m2  == Copy(m1, pp1, q)
           m3  == Move(m2, pp2, val, e - val)
<1>1. /\ a.mem \in [1..room -> Sign]
      /\ a.sp \in Nat /\ a.cp \in Nat /\ a.pp \in Nat
      /\ a.none \in BOOLEAN /\ a.far \in BOOLEAN
      /\ a.sp >= 1 /\ a.cp <= a.sp
  BY SaneIs
<1>2. Q \in Nat /\ K \in Nat /\ K >= 1 /\ K <= a.sp
  BY SaneIs
<1>3. q \in Seq(Sign)
  BY ColonBehind
<1>4. Len(q) = Len(p.prfx) + 1 /\ Len(p.prfx) \in Nat /\ Len(p.puri) \in Nat
  BY ColonBehind
<1>5. m1 \in [1..room -> Sign]
      /\ \A x \in 1..room : m1[x] = IF Q <= x /\ x <= pp1 - 1
                                    THEN a.mem[(x - Q) + K] ELSE a.mem[x]
  <2>1. CASE a.cp = 0
    <3>1. Q = 1 /\ K = 1 /\ m1 = a.mem
      BY <2>1 DEF Put, Kept
    <3>2. \A x \in 1..room : (x - 1) + 1 = x
      OBVIOUS
    <3> HIDE DEF m1, Q, K
    <3> QED
      BY <1>1, <3>1, <3>2
  <2>2. CASE a.cp # 0
    <3>1. Q = a.pp /\ K = a.cp /\ m1 = Move(a.mem, Q, K, j - K)
      BY <2>2 DEF Put, Kept
    <3> HIDE DEF m1, Q, K
    <3>2. K + (j - K) - 1 <= room /\ (Q + (j - K)) - 1 = pp1 - 1 /\ (K + (j - K)) - 1 <= room
      BY <1>2
    <3>3. /\ Move(a.mem, Q, K, j - K) \in [1..room -> Sign]
          /\ \A x \in 1..room : Move(a.mem, Q, K, j - K)[x] =
               IF Q <= x /\ x <= (Q + (j - K)) - 1 THEN a.mem[(x - Q) + K] ELSE a.mem[x]
      <4>1. j - K \in Int
        BY <1>2
      <4>2. a.mem \in [1..room -> Sign]
        BY <1>1
      <4>3. Q \in Nat /\ K \in Nat /\ K >= 1 /\ (K + (j - K)) - 1 <= room
        BY <1>2, <3>2
      <4> DEFINE k == j - K
                 m == a.mem
      <4>4. k \in Int /\ m \in [1..room -> Sign] /\ (K + k) - 1 <= room
        BY <4>1, <4>2, <4>3
      <4> HIDE DEF k, m
      <4>5. /\ Move(m, Q, K, k) \in [1..room -> Sign]
            /\ \A x \in 1..room : Move(m, Q, K, k)[x] =
                 IF Q <= x /\ x <= (Q + k) - 1 THEN m[(x - Q) + K] ELSE m[x]
        BY <4>3, <4>4, MoveIs, SMTT(30) DEF IsMoved
      <4> QED
        BY <4>5 DEF k, m
    <3> QED
      BY <3>1, <3>2, <3>3
  <2> QED
    BY <2>1, <2>2
<1>6. pp1 \in Nat /\ pp2 \in Nat /\ val \in Nat /\ val >= 1 /\ e - val \in Nat
      /\ (val + (e - val)) - 1 <= room
  <2> DEFINE l == Len(p.prfx)
             u == Len(p.puri)
             g == a.sp
  <2>1. l \in Nat /\ u \in Nat /\ (j + 1) + u <= e /\ g \in Nat /\ K <= g /\ g <= j
    BY <1>1, <1>2, <1>4
  <2>2. Q \in Nat /\ K \in Nat
    BY <1>2
  <2> HIDE DEF Q, K, l, u, g
  <2>3. Q + (j - K) \in Nat /\ (Q + (j - K)) + (l + 1) \in Nat
    BY <2>1, <2>2
  <2>4. (j + 1) + u \in Nat /\ (j + 1) + u >= 1 /\ e - ((j + 1) + u) \in Nat
        /\ (((j + 1) + u) + (e - ((j + 1) + u))) - 1 <= room
    BY <2>1
  <2> QED
    BY <2>3, <2>4 DEF l, u
<1>7. m2 \in [1..room -> Sign]
      /\ \A x \in 1..room : m2[x] = IF pp1 <= x /\ x <= pp2 - 1 THEN q[(x - pp1) + 1] ELSE m1[x]
  <2>1. (pp1 + Len(q)) - 1 = pp2 - 1
    BY <1>4
  <2>2. m1 \in [1..room -> Sign]
    BY <1>5
  <2> HIDE DEF m1, pp1, q, pp2
  <2>3. /\ Copy(m1, pp1, q) \in [1..room -> Sign]
        /\ \A x \in 1..room : Copy(m1, pp1, q)[x] =
             IF pp1 <= x /\ x <= (pp1 + Len(q)) - 1 THEN q[(x - pp1) + 1] ELSE m1[x]
    BY <1>3, <1>6, <2>2, CopyIs
  <2> QED
    BY <2>1, <2>3
<1>8. m3 \in [1..room -> Sign]
      /\ \A x \in 1..room : m3[x] = IF pp2 <= x /\ x <= (pp2 + (e - val)) - 1
                                    THEN m2[(x - pp2) + val] ELSE m2[x]
  <2>1. m2 \in [1..room -> Sign]
    BY <1>7
  <2>2. e - val \in Int
    BY <1>6
  <2>3. pp2 \in Nat /\ val \in Nat /\ val >= 1 /\ (val + (e - val)) - 1 <= room
    BY <1>6
  <2> HIDE DEF m2, pp2, val
  <2> DEFINE k == e - val
  <2>4. k \in Int /\ (val + k) - 1 <= room
    BY <2>2, <2>3
  <2> HIDE DEF k
  <2>5. /\ Move(m2, pp2, val, k) \in [1..room -> Sign]
        /\ \A x \in 1..room : Move(m2, pp2, val, k)[x] =
              IF pp2 <= x /\ x <= (pp2 + k) - 1 THEN m2[(x - pp2) + val] ELSE m2[x]
    BY <2>1, <2>3, <2>4, MoveIs, SMTT(30) DEF IsMoved
  <2> QED
    BY <2>5 DEF k
<1>9. r = [a EXCEPT !.mem = m3, !.sp = e + 1, !.cp = e + 1, !.pp = pp2 + (e - val),
                    !.far = @ \/ (pp2 + (e - val)) - 1 > room]
  <2>1. Len(a.mem) = room
    BY <1>1, Mem
  <2>2. pp1 = IF a.cp = 0 THEN j ELSE (a.pp + (j - a.cp))
    <3>1. a.cp = 0 => Q = 1 /\ K = 1
      BY DEF Put, Kept
    <3>2. a.cp # 0 => Q = a.pp /\ K = a.cp
      BY DEF Put, Kept
    <3> HIDE DEF Q, K
    <3> QED
      BY <1>1, <3>1, <3>2
  <2>3. (IF a.cp = 0 THEN j ELSE a.pp + j - a.cp) = pp1
    <3>1. a.pp + j - a.cp = (a.pp + (j - a.cp))
      BY <1>1
    <3> QED
      BY <2>2, <3>1
  <2>4. j + 1 + Len(p.puri) = val /\ pp1 + Len(p.prfx) + 1 = pp2
    <3> HIDE DEF pp1
    <3> QED
      BY <1>4, <1>6
  <2>5. pp2 + e - val = pp2 + (e - val) /\ pp2 + e - val - 1 = (pp2 + (e - val)) - 1
    <3> HIDE DEF pp2, val
    <3> QED
      BY <1>6
  <2> HIDE DEF pp1, pp2, val, q, m1, m2, m3
  <2>6. LET M1 == IF a.cp = 0 THEN a.mem ELSE Move(a.mem, a.pp, a.cp, j - a.cp)
            M2 == Copy(M1, pp1, q)
            M3 == Move(M2, pp2, val, e - val)
        IN  r = [a EXCEPT !.mem = M3, !.sp = e + 1, !.cp = e + 1, !.pp = pp2 + e - val,
                          !.far = @ \/ pp2 + e - val - 1 > Len(a.mem)]
    BY <2>3, <2>4 DEF Rewrite, q
  <2> QED
    BY <2>1, <2>5, <2>6 DEF m1, m2, m3
<1> HIDE DEF m1, m2, m3
<1>10. /\ r.mem = m3 /\ r.sp = e + 1 /\ r.cp = e + 1 /\ r.pp = pp2 + (e - val)
       /\ r.none = a.none /\ r.far = (a.far \/ (pp2 + (e - val)) - 1 > room)
  <2> HIDE DEF r, pp2, val
  <2>1. a \in SearchState(room)
    BY DEF Sane
  <2> QED
    BY <1>9, <2>1 DEF SearchState
<1>11. Sane(room, r)
  <2> HIDE DEF r, pp2, val
  <2>1. a \in SearchState(room)
    BY DEF Sane
  <2>2. pp2 + (e - val) \in Nat
    BY <1>6
  <2>0. m3 \in [1..room -> Sign] /\ e + 1 \in Nat
    BY <1>8
  <2>3. r \in SearchState(room)
    BY <1>9, <2>0, <2>1, <2>2 DEF SearchState
  <2>4. r.sp >= 1 /\ r.cp <= r.sp
    BY <1>10
  <2> QED
    BY <2>3, <2>4 DEF Sane
<1> HIDE DEF r, pp1, pp2, val, q, Q, K
<1>12. /\ Sane(room, r)
       /\ r.sp = e + 1 /\ r.cp = e + 1 /\ r.pp = pp2 + (e - val)
       /\ r.none = a.none /\ r.far = (a.far \/ r.pp - 1 > room)
  BY <1>10, <1>11
<1>13. Moves(room, a.mem, m1, m2, r.mem, q, e - val, Q, K, val, pp1, pp2)
  BY <1>5, <1>7, <1>8, <1>10 DEF Moves
<1>14. m1 \in [1..room -> Sign] /\ m2 \in [1..room -> Sign]
  BY <1>5, <1>7
<1>15. Done(room, a, j, e, p, r)
  BY <1>12, <1>13, <1>14, Zenon DEF Done, pp1, pp2, val, q, Q, K
<1> QED
  BY <1>15 DEF r

---------------------------------------------------------------------------
(* A step of the search.                                                   *)

\* The > is not in the URI.
LEMMA UriEnds ==
  ASSUME NEW q \in Seq(Sign), NEW p \in Prefix, NEW h \in Nat, h >= 1,
         NEW e \in h..Len(q), At(q, h, p.puri), q[e] = ">"
  PROVE  h + Len(p.puri) <= e
<1> DEFINE u == p.puri
           l == Len(p.puri)
<1>1. u \in Seq(Sign) /\ \A x \in 1..Len(u) : u[x] # ">"
  BY Uris
<1>2. l \in Nat /\ Len(q) \in Nat
  BY <1>1, LenProperties
<1>3. \A x \in 1..Len(u) : q[(h - 1) + x] = u[x]
  <2> HIDE DEF u
  <2>1. At(q, h, u)
    BY DEF u
  <2> QED
    BY <1>1, <2>1, AtIs
<1> HIDE DEF l, u
<1>4. SUFFICES ASSUME ~(h + l <= e) PROVE FALSE
  BY DEF l
<1>5. (e - h) + 1 \in 1..l /\ (h - 1) + ((e - h) + 1) = e
  BY <1>2, <1>4
<1>6. l = Len(u)
  BY DEF l, u
<1> QED
  BY <1>1, <1>3, <1>5, <1>6

\* The five things that can be at j.
Searches(a, j) == ~(j < a.sp) /\ ~a.none
Passed(a, j, r)       == ~Searches(a, j) /\ r = a
TextEnds(room, a, j, r) == Searches(a, j) /\ a.mem[j] = Nul /\ r = [a EXCEPT !.sp = room + 1]
Ordinary(tab, a, j, r) ==
  /\ Searches(a, j) /\ a.mem[j] # Nul
  /\ a.mem[j] # "<" \/ Known(tab, a.mem, j + 1) = {}
  /\ r = a
Unclosed(tab, a, j, r) ==
  /\ Searches(a, j) /\ a.mem[j] = "<"
  /\ Known(tab, a.mem, j + 1) # {} /\ Closing(a.mem, j + 1) = {}
  /\ r = [a EXCEPT !.none = TRUE]
Rewritten(room, tab, a, j, r) ==
  LET p == tab[Min(Known(tab, a.mem, j + 1))]
  IN  /\ Searches(a, j) /\ a.mem[j] = "<"
      /\ Known(tab, a.mem, j + 1) # {} /\ p \in Prefix
      /\ \E e \in j+1..room : /\ Closing(a.mem, j + 1) = {e}
                             /\ (j + 1) + Len(p.puri) <= e
                             /\ r = Rewrite(a, j, e, p)

LEMMA LookIs ==
  ASSUME NEW room \in Nat, NEW tab \in Seq(Prefix), NEW a, Sane(room, a), NEW j \in 1..room
  PROVE  LET r == Look(tab, a, j)
         IN  \/ Passed(a, j, r)
             \/ TextEnds(room, a, j, r)
             \/ Ordinary(tab, a, j, r)
             \/ Unclosed(tab, a, j, r)
             \/ Rewritten(room, tab, a, j, r)
<1> DEFINE m == a.mem
           r == Look(tab, a, j)
           K == Known(tab, m, j + 1)
           E == Closing(m, j + 1)
           i == Min(K)
           p == tab[i]
<1>1. m \in [1..room -> Sign]
  BY SaneIs
<1>2. m \in Seq(Sign) /\ Len(m) = room
  BY <1>1, Mem
<1>3. CASE j < a.sp \/ a.none
  BY <1>3, Zenon DEF Look, Passed, Searches
<1>4. CASE ~(j < a.sp \/ a.none) /\ m[j] = Nul
  BY <1>2, <1>4, Zenon DEF Look, TextEnds, Searches
<1>5. CASE ~(j < a.sp \/ a.none) /\ m[j] # Nul /\ (m[j] # "<" \/ K = {})
  BY <1>5, Zenon DEF Look, Ordinary, Searches
<1>6. CASE ~(j < a.sp \/ a.none) /\ m[j] # Nul /\ m[j] = "<" /\ K # {} /\ E = {}
  BY <1>6, Zenon DEF Look, Unclosed, Searches
<1>7. CASE ~(j < a.sp \/ a.none) /\ m[j] # Nul /\ m[j] = "<" /\ K # {} /\ E # {}
  <2>1. r = Rewrite(a, j, Min(E), p)
    BY <1>7, Zenon DEF Look
  <2>2. K \subseteq 1..Len(tab) /\ Len(tab) \in Nat
    BY LenProperties DEF Known
  <2>3. i \in K
    <3>1. K \subseteq Nat
      BY <2>2
    <3> HIDE DEF K
    <3> QED
      BY <1>7, <3>1, MinOf
  <2>4. p \in Prefix
    <3> HIDE DEF i
    <3> QED
      BY <2>2, <2>3, ElementOfSeq
  <2>5. At(m, j + 1, p.puri)
    BY <2>3 DEF Known
  <2>6. PICK e \in j+1..Len(m) :
               /\ m[e] = ">"
               /\ \A x \in j+1..e-1 : m[x] \notin {">", Nul}
               /\ Closing(m, j + 1) = {e}
    <3>1. Len(m) \in Nat /\ j + 1 \in Nat
      BY <1>2
    <3> QED
      BY <1>7, <3>1, ClosingOnly, Zenon
  <2>7. j + 1 \in Nat /\ j + 1 >= 1 /\ e \in Nat
    BY <1>2
  <2>8. (j + 1) + Len(p.puri) <= e
    <3> HIDE DEF p, m
    <3> QED
      BY <1>2, <2>4, <2>5, <2>6, <2>7, UriEnds
  <2>9. Min(E) = e
    BY <2>6, <2>7, MinOne, Zenon
  <2>10. e \in j+1..room
    BY <1>2
  <2>11. r = Rewrite(a, j, e, p)
    BY <2>1, <2>9, Zenon
  <2> QED
    BY <1>7, <2>4, <2>6, <2>8, <2>10, <2>11, Zenon DEF Rewritten, Searches
<1> QED
  BY <1>3, <1>4, <1>5, <1>6, <1>7, Zenon

LEMMA LookSane ==
  ASSUME NEW room \in Nat, NEW tab \in Seq(Prefix), NEW a, Sane(room, a), NEW j \in 1..room
  PROVE  Sane(room, Look(tab, a, j))
<1> DEFINE r == Look(tab, a, j)
           p == tab[Min(Known(tab, a.mem, j + 1))]
<1> SUFFICES Sane(room, r)
  OBVIOUS
<1>1. a \in SearchState(room) /\ a.sp \in Nat /\ a.cp \in Nat /\ a.sp >= 1 /\ a.cp <= a.sp
  BY SaneIs DEF Sane
<1>2. CASE r = a
  BY <1>2
<1>3. CASE TextEnds(room, a, j, r)
  <2>1. ~(j < a.sp) /\ r = [a EXCEPT !.sp = room + 1]
    BY <1>3 DEF TextEnds, Searches
  <2>2. room + 1 \in Nat /\ a.cp <= room + 1 /\ room + 1 >= 1
    BY <1>1, <2>1
  <2> HIDE DEF r
  <2>3. r \in SearchState(room) /\ r.sp = room + 1 /\ r.cp = a.cp
    BY <1>1, <2>1, <2>2 DEF SearchState
  <2> QED
    BY <2>2, <2>3 DEF Sane
<1>4. CASE Unclosed(tab, a, j, r)
  <2>1. r = [a EXCEPT !.none = TRUE]
    BY <1>4 DEF Unclosed
  <2> HIDE DEF r
  <2>2. r \in SearchState(room) /\ r.sp = a.sp /\ r.cp = a.cp
    BY <1>1, <2>1 DEF SearchState
  <2> QED
    BY <1>1, <2>2 DEF Sane
<1>5. CASE Rewritten(room, tab, a, j, r)
  <2>1. ~(j < a.sp) /\ p \in Prefix
    BY <1>5, Zenon DEF Rewritten, Searches
  <2>2. PICK e \in j+1..room : (j + 1) + Len(p.puri) <= e /\ r = Rewrite(a, j, e, p)
    BY <1>5, Zenon DEF Rewritten
  <2>3. a.sp <= j
    BY <1>1, <2>1
  <2> HIDE DEF p
  <2>4. Sane(room, Rewrite(a, j, e, p))
    BY <2>1, <2>2, <2>3, RewriteIs DEF Done
  <2> QED
    BY <2>2, <2>4
<1>6. Passed(a, j, r) \/ Ordinary(tab, a, j, r) => r = a
  BY DEF Passed, Ordinary
<1> QED
  BY <1>2, <1>3, <1>4, <1>5, <1>6, LookIs, Zenon

LEMMA SearchedSane ==
  ASSUME NEW room \in Nat, NEW tab \in Seq(Prefix), NEW m \in [1..room -> Sign]
  PROVE  \A j \in 0..room : Sane(room, Searched(tab, m)[j])
<1> DEFINE T == {j \in 0..room : Sane(room, Searched(tab, m)[j])}
<1>0. Len(m) = room
  BY Mem
<1>1. /\ Searched(tab, m)[0] = Start(m)
      /\ \A j \in 1..room : Searched(tab, m)[j] = Look(tab, Searched(tab, m)[j-1], j)
  BY <1>0, Searching
<1>2. 0 \in T
  <2>1. Sane(room, Start(m))
    BY DEF Sane, SearchState, Start
  <2> QED
    BY <1>1, <2>1
<1>3. ASSUME NEW j \in 1..room, j - 1 \in T PROVE j \in T
  <2>1. Sane(room, Searched(tab, m)[j-1])
    BY <1>3
  <2>2. Sane(room, Look(tab, Searched(tab, m)[j-1], j))
    BY <2>1, LookSane
  <2>3. Sane(room, Searched(tab, m)[j]) /\ j \in 0..room
    BY <1>1, <2>2
  <2> QED
    BY <2>3
<1> HIDE DEF T
<1>4. \A j \in 0..room : j \in T
  BY <1>2, <1>3, SetInduction
<1> QED
  BY <1>4 DEF T

\* However subst() fares, what it leaves is a text.
LEMMA SubstText ==
  ASSUME NEW tab \in Seq(Prefix), NEW s \in Seq(Char), NEW room \in Nat, Len(s) <= room
  PROVE  subst(tab, s, room).text \in Seq(Sign) /\ subst(tab, s, room).far \in BOOLEAN
<1> DEFINE a    == Searched(tab, Loaded(s, room))[room]
           rest == Len(s) + 1 - a.cp
           len  == IF a.none THEN 0 ELSE IF a.cp = 0 THEN Len(s) ELSE a.pp + rest - 1
           last == IF a.none \/ a.cp = 0 THEN a.mem ELSE Move(a.mem, a.pp, a.cp, rest)
           z1   == IF len <= room THEN len ELSE room
<1>0. Len(s) \in Nat
  BY LenProperties
<1>1. Sane(room, a)
  <2>1. Loaded(s, room) \in [1..room -> Sign] /\ room \in 0..room
    BY Memory
  <2> QED
    BY <2>1, SearchedSane
<1> HIDE DEF a
<1>2. /\ a.mem \in [1..room -> Sign] /\ a.cp \in Nat /\ a.pp \in Nat
      /\ a.none \in BOOLEAN /\ a.far \in BOOLEAN
  BY <1>1, SaneIs
<1>3. last \in [1..room -> Sign]
  <2>1. CASE a.none \/ a.cp = 0
    BY <1>2, <2>1
  <2>2. CASE ~(a.none \/ a.cp = 0)
    <3> DEFINE m == a.mem
               c == a.cp
               d == a.pp
               k == rest
    <3>1. /\ m \in [1..room -> Sign] /\ c \in Nat /\ d \in Nat /\ c >= 1
          /\ k \in Int /\ (c + k) - 1 <= room
      <4>1. c \in Nat /\ c >= 1
        BY <1>2, <2>2
      <4> HIDE DEF c
      <4>2. Len(s) + 1 - c \in Int /\ (c + (Len(s) + 1 - c)) - 1 <= room
        BY <1>0, <4>1
      <4> QED
        BY <1>2, <4>1, <4>2 DEF c
    <3> HIDE DEF m, c, d, k
    <3>2. Move(m, d, c, k) \in [1..room -> Sign]
      BY <3>1, MoveIs DEF IsMoved
    <3> QED
      BY <2>2, <3>2 DEF m, c, d, k
  <2> QED
    BY <2>1, <2>2
<1>4. z1 \in Int /\ z1 <= room
  <2>1. len \in Int
    <3> DEFINE c == a.cp
               d == a.pp
    <3>1. c \in Nat /\ d \in Nat
      BY <1>2
    <3> HIDE DEF c, d
    <3>2. d + (Len(s) + 1 - c) - 1 \in Int
      BY <1>0, <3>1
    <3> QED
      BY <1>0, <3>2 DEF c, d
  <2> HIDE DEF len
  <2> QED
    BY <2>1
<1>5. subst(tab, s, room) = [text |-> SubSeq(last, 1, z1), far |-> a.far \/ len >= room]
  BY Zenon DEF subst, a
<1> HIDE DEF last, z1
<1>6. SubSeq(last, 1, z1) \in Seq(Sign)
  <2>1. \A x \in 1..z1 : last[x] \in Sign
    BY <1>3, <1>4
  <2> QED
    BY <1>4, <2>1, SubSeqProperties
<1> HIDE DEF len
<1> QED
  BY <1>2, <1>5, <1>6

---------------------------------------------------------------------------
(* In place it comes out as elsewhere, if no prefix is longer than its URI. *)

\* A part of what is known.
LEMMA Part ==
  ASSUME NEW w, NEW l \in Int, NEW k \in Int, \A x \in l..k : w[x] \in Sign
  PROVE  /\ SubSeq(w, l, k) \in Seq(Sign)
         /\ Len(SubSeq(w, l, k)) = IF l <= k THEN (k - l) + 1 ELSE 0
         /\ \A x \in 1..(k-l)+1 : SubSeq(w, l, k)[x] = w[(l - 1) + x]
<1>1. SubSeq(w, l, k) \in Seq(Sign)
  BY SubSeqProperties
<1>2. Len(SubSeq(w, l, k)) = IF l <= k THEN (k - l) + 1 ELSE 0
  OBVIOUS
<1>3. \A x \in 1..(k-l)+1 : SubSeq(w, l, k)[x] = w[(l - 1) + x]
  OBVIOUS
<1> QED
  BY <1>1, <1>2, <1>3

\* The stretches of text that nothing is replaced in.
LEMMA Stretch ==
  ASSUME NEW tab \in Seq(Prefix), NEW s \in Seq(Char),
         NEW c \in 1..Len(s)+1, NEW k \in 1..c,
         \A h \in k..c-1 : ~Replaced(tab, s, h)
  PROVE  SubstitutedFrom(tab, s)[k] = SubSeq(s, k, c - 1) \o SubstitutedFrom(tab, s)[c]
<1> DEFINE n == Len(s)
           F(x) == SubstitutedFrom(tab, s)[x]
           T == {d \in 0..c-k : F(c - d) = SubSeq(s, c - d, c - 1) \o F(c)}
<1>0. n \in Nat /\ s \in Seq(Sign) /\ \A x \in 1..n : s[x] \in Sign
  BY Texts, LenProperties
<1>1. \A x \in 1..n+1 : F(x) \in Seq(Sign)
  BY SubstitutedSigns
<1> HIDE DEF F
<1>2. 0 \in T
  <2>1. SubSeq(s, c, c - 1) = <<>>
    BY <1>0, SubSeqEmpty
  <2>2. <<>> \o F(c) = F(c)
    BY <1>1, ConcatEmptySeq
  <2>3. c - 0 = c /\ 0 \in 0..c-k
    OBVIOUS
  <2> QED
    BY <2>1, <2>2, <2>3
<1>3. ASSUME NEW d \in 1..c-k, d - 1 \in T PROVE d \in T
  <2> DEFINE i == c - d
             X == SubSeq(s, i, c - 1)
             Y == SubSeq(s, i + 1, c - 1)
  <2>1. i \in k..c-1 /\ i \in 1..n /\ c - (d - 1) = i + 1 /\ d \in 0..c-k /\ c \in 1..n+1
    BY <1>0
  <2>2. F(i + 1) = Y \o F(c)
    BY <1>3, <2>1
  <2> HIDE DEF i
  <2>3. F(i) = <<s[i]>> \o F(i + 1)
    BY <2>1, SubstitutingNone DEF F
  <2>4. Y \in Seq(Sign)
    <3>1. \A x \in i+1..c-1 : s[x] \in Sign
      BY <1>0, <2>1
    <3> QED
      BY <2>1, <3>1, SubSeqProperties
  <2>6. s[i] \in Sign /\ <<s[i]>> \in Seq(Sign)
    BY <1>0, <2>1
  <2>5. SubSeq(s, i, i) = <<s[i]>>
    <3>1. \A x \in i..i : s[x] \in Sign
      BY <2>6
    <3>2. SubSeq(s, i, i) \in Seq(Sign) /\ Len(SubSeq(s, i, i)) = 1
          /\ \A x \in 1..(i-i)+1 : SubSeq(s, i, i)[x] = s[(i - 1) + x]
      <4>1. /\ SubSeq(s, i, i) \in Seq(Sign)
            /\ Len(SubSeq(s, i, i)) = IF i <= i THEN (i - i) + 1 ELSE 0
            /\ \A x \in 1..(i-i)+1 : SubSeq(s, i, i)[x] = s[(i - 1) + x]
        BY <2>1, <3>1, Part
      <4>2. (IF i <= i THEN (i - i) + 1 ELSE 0) = 1
        BY <2>1
      <4> QED
        BY <4>1, <4>2
    <3>3. SubSeq(s, i, i)[1] = s[i]
      <4>1. 1 \in 1..(i-i)+1 /\ (i - 1) + 1 = i
        BY <2>1
      <4> QED
        BY <3>2, <4>1
    <3> DEFINE o == <<s[i]>>
               q == SubSeq(s, i, i)
    <3>4. o \in Seq(Sign) /\ Len(o) = 1 /\ o[1] = s[i]
      BY <2>6
    <3>5. q \in Seq(Sign) /\ Len(q) = 1 /\ q[1] = s[i]
      BY <3>2, <3>3
    <3> HIDE DEF o, q
    <3>6. \A x \in 1..Len(q) : q[x] = o[x]
      BY <3>4, <3>5
    <3>7. q = o
      BY <3>4, <3>5, <3>6, SeqEqual
    <3> QED
      BY <3>7 DEF o, q
  <2>7. X = <<s[i]>> \o Y
    <3>1. /\ s \in Seq(Sign) /\ i \in 1..Len(s)+1
          /\ i \in i-1..Len(s) /\ c - 1 \in i..Len(s)
      BY <1>0, <2>1
    <3>2. SubSeq(s, i, i) \o SubSeq(s, i + 1, c - 1) = SubSeq(s, i, c - 1)
      BY <3>1, ConcatAdjacentSubSeq
    <3> QED
      BY <2>5, <3>2
  <2> HIDE DEF X, Y
  <2>8. F(i) = X \o F(c)
    <3>1. F(c) \in Seq(Sign)
      BY <1>1, <2>1
    <3>2. (<<s[i]>> \o Y) \o F(c) = <<s[i]>> \o (Y \o F(c))
      BY <2>4, <2>6, <3>1, ConcatAssociative
    <3> QED
      BY <2>2, <2>3, <2>7, <3>2
  <2> QED
    BY <2>1, <2>8 DEF X, i
<1> HIDE DEF T
<1>4. \A d \in 0..c-k : d \in T
  <2>1. c - k \in Nat
    OBVIOUS
  <2> QED
    BY <1>2, <1>3, <2>1, SetInduction
<1>5. c - k \in 0..c-k /\ c - (c - k) = k
  OBVIOUS
<1>6. F(c - (c - k)) = SubSeq(s, c - (c - k), c - 1) \o F(c)
  BY <1>4, <1>5 DEF T
<1> QED
  BY <1>5, <1>6 DEF F


Adjoin(room, m, X, q, Y) ==
  \A k, k1, k2, k3 \in Nat :
    /\ Holds(m, k, X) /\ Holds(m, k1, q) /\ Holds(m, k2, Y)
    /\ k1 = k + Len(X) /\ k2 = k1 + Len(q) /\ k3 = k2 + Len(Y) /\ k3 <= room
    => SubSeq(m, 1, k3) = ((SubSeq(m, 1, k) \o X) \o q) \o Y

LEMMA GluedThrice ==
  ASSUME NEW room \in Nat, NEW m \in [1..room -> Sign],
         NEW X \in Seq(Sign), NEW q \in Seq(Sign), NEW Y \in Seq(Sign)
  PROVE  Adjoin(room, m, X, q, Y)
<1> SUFFICES ASSUME NEW k \in Nat, NEW k1 \in Nat, NEW k2 \in Nat, NEW k3 \in Nat,
                    Holds(m, k, X), Holds(m, k1, q), Holds(m, k2, Y)
             PROVE  k1 = k + Len(X) /\ k2 = k1 + Len(q) /\ k3 = k2 + Len(Y) /\ k3 <= room
                      => SubSeq(m, 1, k3) = ((SubSeq(m, 1, k) \o X) \o q) \o Y
  BY DEF Adjoin
<1>1. k + Len(X) <= room => SubSeq(m, 1, k + Len(X)) = SubSeq(m, 1, k) \o X
  BY Glued
<1>2. k1 + Len(q) <= room => SubSeq(m, 1, k1 + Len(q)) = SubSeq(m, 1, k1) \o q
  BY Glued
<1>3. k2 + Len(Y) <= room => SubSeq(m, 1, k2 + Len(Y)) = SubSeq(m, 1, k2) \o Y
  BY Glued
<1>4. Len(X) \in Nat /\ Len(q) \in Nat /\ Len(Y) \in Nat
  BY LenProperties
<1>5. k1 = k + Len(X) /\ k2 = k1 + Len(q) /\ k3 = k2 + Len(Y) /\ k3 <= room
        => k + Len(X) <= room /\ k1 + Len(q) <= room /\ k2 + Len(Y) <= room
  BY <1>4
<1> QED
  BY <1>1, <1>2, <1>3, <1>5

LEMMA SameStart ==
  ASSUME NEW room \in Nat, NEW m \in [1..room -> Sign], NEW o \in [1..room -> Sign],
         NEW k \in Int, k <= room, \A x \in 1..k : o[x] = m[x]
  PROVE  SubSeq(m, 1, k) = SubSeq(o, 1, k)
<1> DEFINE V == SubSeq(m, 1, k)
           W == SubSeq(o, 1, k)
<1>1. \A x \in 1..k : m[x] \in Sign /\ o[x] \in Sign
  OBVIOUS
<1>2. V \in Seq(Sign) /\ W \in Seq(Sign)
  BY <1>1, SubSeqProperties
<1>3. Len(V) = Len(W) /\ \A x \in 1..Len(V) : V[x] = W[x]
  OBVIOUS
<1> HIDE DEF V, W
<1>4. V = W
  BY <1>2, <1>3, SeqEqual
<1> QED
  BY <1>4 DEF V, W

\* How the places of a replacement lie.
Lie(n, l, v, room, Q, K, j, e, val, pp1, pp2) ==
  /\ 1 <= Q /\ Q <= K /\ K <= j /\ j < e /\ e <= n /\ n < room
  /\ pp1 = Q + (j - K) /\ pp2 = pp1 + l
  /\ j + l <= val /\ val <= e /\ v = e - val
IsText(s, mem, k, room) == \A x \in k..room : mem[x] = IF x <= Len(s) THEN s[x] ELSE Nul

\* What one replacement leaves: what was settled, the text up to the IRI, the
\* prefix, the rest of the IRI; and behind the > what was there.
LEMMA Moved ==
  ASSUME NEW room \in Nat, NEW s \in Seq(Char),
         NEW mem \in [1..room -> Sign], NEW m1 \in [1..room -> Sign],
         NEW m2 \in [1..room -> Sign], NEW m3 \in [1..room -> Sign],
         NEW q \in Seq(Sign), NEW Q \in Nat, NEW K \in Nat, NEW j \in Nat, NEW e \in Nat,
         NEW v \in Nat, NEW val \in Nat, NEW pp1 \in Nat, NEW pp2 \in Nat,
         Lie(Len(s), Len(q), v, room, Q, K, j, e, val, pp1, pp2),
         Moves(room, mem, m1, m2, m3, q, v, Q, K, val, pp1, pp2),
         IsText(s, mem, K, room)
  PROVE  /\ SubSeq(m3, 1, (pp2 + v) - 1)
              = ((SubSeq(mem, 1, Q - 1) \o SubSeq(s, K, j - 1)) \o q) \o SubSeq(s, val, e - 1)
         /\ IsText(s, m3, e + 1, room)
<1> DEFINE n == Len(s)
           l == Len(q)
<1>0. n \in Nat /\ l \in Nat
  BY LenProperties
<1>i. /\ 1 <= Q /\ Q <= K /\ K <= j /\ j < e /\ e <= n /\ n < room
      /\ pp1 = Q + (j - K) /\ pp2 = pp1 + l
      /\ j + l <= val /\ val <= e /\ v = e - val
  BY DEF Lie
<1>2. \A x \in 1..room :
        /\ m1[x] = IF Q <= x /\ x <= pp1 - 1 THEN mem[(x - Q) + K] ELSE mem[x]
        /\ m2[x] = IF pp1 <= x /\ x <= pp2 - 1 THEN q[(x - pp1) + 1] ELSE m1[x]
        /\ m3[x] = IF pp2 <= x /\ x <= (pp2 + v) - 1 THEN m2[(x - pp2) + val] ELSE m2[x]
  BY DEF Moves
<1>3. \A x \in K..room : mem[x] = IF x <= n THEN s[x] ELSE Nul
  BY DEF IsText
<1> HIDE DEF n, l
<1>1. pp1 <= j /\ pp2 <= val /\ pp1 <= pp2 /\ pp1 >= Q /\ pp2 + v <= e
      /\ pp1 >= 1 /\ pp2 <= room /\ val + v = e
  BY <1>0, <1>i
<1>4. ASSUME NEW x \in 1..Q-1 PROVE m3[x] = mem[x]
  <2>1. x \in 1..room /\ ~(Q <= x) /\ ~(pp1 <= x) /\ ~(pp2 <= x)
    BY <1>0, <1>1, <1>i
  <2> QED
    BY <1>2, <2>1
<1>5. ASSUME NEW x \in 1..j-K PROVE m3[(Q - 1) + x] = s[(K - 1) + x]
  <2> DEFINE y == (Q - 1) + x
  <2>1. y \in 1..room /\ Q <= y /\ y <= pp1 - 1 /\ ~(pp1 <= y) /\ ~(pp2 <= y)
        /\ (y - Q) + K = (K - 1) + x
    BY <1>0, <1>1, <1>i
  <2>2. (K - 1) + x \in K..room /\ (K - 1) + x <= n
    BY <1>0, <1>1, <1>i
  <2> HIDE DEF y
  <2>3. m3[y] = mem[(K - 1) + x]
    BY <1>2, <2>1
  <2> QED
    BY <1>3, <2>2, <2>3 DEF y
<1>6. ASSUME NEW x \in 1..l PROVE m3[(pp1 - 1) + x] = q[x]
  <2> DEFINE y == (pp1 - 1) + x
  <2>1. y \in 1..room /\ pp1 <= y /\ y <= pp2 - 1 /\ ~(pp2 <= y) /\ (y - pp1) + 1 = x
    BY <1>0, <1>1, <1>i
  <2> HIDE DEF y
  <2>2. m3[y] = q[x]
    BY <1>2, <2>1
  <2> QED
    BY <2>2 DEF y
<1>7. ASSUME NEW x \in val..room PROVE m2[x] = IF x <= n THEN s[x] ELSE Nul
  <2>1. x \in 1..room /\ ~(x <= pp2 - 1) /\ ~(x <= pp1 - 1) /\ x \in K..room
    BY <1>0, <1>1, <1>i
  <2>2. m2[x] = mem[x]
    BY <1>2, <2>1
  <2> QED
    BY <1>3, <2>1, <2>2
<1>8. ASSUME NEW x \in 1..v PROVE m3[(pp2 - 1) + x] = s[(val - 1) + x]
  <2> DEFINE y == (pp2 - 1) + x
  <2>1. y \in 1..room /\ pp2 <= y /\ y <= (pp2 + v) - 1 /\ (y - pp2) + val = (val - 1) + x
    BY <1>0, <1>1, <1>i
  <2>2. (val - 1) + x \in val..room /\ (val - 1) + x <= n
    BY <1>0, <1>1, <1>i
  <2> HIDE DEF y
  <2>3. m3[y] = m2[(val - 1) + x]
    BY <1>2, <2>1
  <2> QED
    BY <1>7, <2>2, <2>3 DEF y
<1>9. ASSUME NEW x \in e+1..room PROVE m3[x] = IF x <= n THEN s[x] ELSE Nul
  <2>1. x \in 1..room /\ ~(x <= (pp2 + v) - 1) /\ x \in val..room
    BY <1>0, <1>1, <1>i
  <2>2. m3[x] = m2[x]
    BY <1>2, <2>1
  <2> QED
    BY <1>7, <2>1, <2>2
<1> DEFINE W == SubSeq(mem, 1, Q - 1)
           X == SubSeq(s, K, j - 1)
           Y == SubSeq(s, val, e - 1)
<1>s. \A x \in 1..n : s[x] \in Sign
  BY Texts DEF n
<1>10. W = SubSeq(m3, 1, Q - 1)
  <2>1. Q - 1 \in Nat /\ Q - 1 <= room
    BY <1>0, <1>1, <1>i
  <2> QED
    BY <1>4, <2>1, SameStart
<1>11. X \in Seq(Sign) /\ Len(X) = j - K /\ \A x \in 1..j-K : X[x] = s[(K - 1) + x]
  <2>1. \A x \in K..j-1 : s[x] \in Sign
    <3>1. \A x \in K..j-1 : x \in 1..n
      BY <1>0, <1>i
    <3> QED
      BY <1>s, <3>1
  <2>2. X \in Seq(Sign) /\ Len(X) = (IF K <= j - 1 THEN ((j - 1) - K) + 1 ELSE 0)
        /\ \A x \in 1..((j-1)-K)+1 : X[x] = s[(K - 1) + x]
    BY <2>1, Part
  <2> HIDE DEF X
  <2>3. Len(X) = j - K /\ ((j - 1) - K) + 1 = j - K
    <3>1. (IF K <= j - 1 THEN ((j - 1) - K) + 1 ELSE 0) = j - K /\ ((j - 1) - K) + 1 = j - K
      BY <1>i
    <3> QED
      BY <2>2, <3>1, Zenon
  <2> QED
    BY <2>2, <2>3
<1>12. Y \in Seq(Sign) /\ Len(Y) = v /\ \A x \in 1..v : Y[x] = s[(val - 1) + x]
  <2>1. \A x \in val..e-1 : s[x] \in Sign
    <3>1. \A x \in val..e-1 : x \in 1..n
      BY <1>0, <1>1, <1>i
    <3> QED
      BY <1>s, <3>1
  <2>2. Y \in Seq(Sign) /\ Len(Y) = (IF val <= e - 1 THEN ((e - 1) - val) + 1 ELSE 0)
        /\ \A x \in 1..((e-1)-val)+1 : Y[x] = s[(val - 1) + x]
    BY <2>1, Part
  <2> HIDE DEF Y
  <2>3. Len(Y) = v /\ ((e - 1) - val) + 1 = v
    <3>1. (IF val <= e - 1 THEN ((e - 1) - val) + 1 ELSE 0) = v /\ ((e - 1) - val) + 1 = v
      BY <1>i
    <3> QED
      BY <2>2, <3>1, Zenon
  <2> QED
    BY <2>2, <2>3
<1> HIDE DEF W, X, Y
<1>13. SubSeq(m3, 1, (pp2 + v) - 1) = ((SubSeq(m3, 1, Q - 1) \o X) \o q) \o Y
  <2> DEFINE k  == Q - 1
             k1 == pp1 - 1
             k2 == pp2 - 1
             k3 == (pp2 + v) - 1
  <2>1. k \in Nat /\ k1 \in Nat /\ k2 \in Nat /\ k3 \in Nat /\ k3 <= room
    BY <1>0, <1>1, <1>i
  <2>2. k1 = k + (j - K) /\ k2 = k1 + l /\ k3 = k2 + v
    BY <1>0, <1>i
  <2>3. Holds(m3, k, X) /\ Holds(m3, k1, q) /\ Holds(m3, k2, Y)
    BY <1>5, <1>6, <1>8, <1>11, <1>12 DEF l, Holds
  <2>4. X \in Seq(Sign) /\ Y \in Seq(Sign) /\ Len(X) = j - K /\ Len(Y) = v
    BY <1>11, <1>12
  <2> HIDE DEF k, k1, k2, k3
  <2>5. k1 = k + Len(X) /\ k2 = k1 + Len(q) /\ k3 = k2 + Len(Y)
    BY <2>2, <2>4, Zenon DEF l
  <2>6. Adjoin(room, m3, X, q, Y)
    BY <2>4, GluedThrice
  <2>7. SubSeq(m3, 1, k3) = ((SubSeq(m3, 1, k) \o X) \o q) \o Y
    BY <2>1, <2>3, <2>5, <2>6 DEF Adjoin
  <2> QED
    BY <2>7 DEF k, k3
<1> QED
  BY <1>9, <1>10, <1>13 DEF n, W, X, Y, IsText


\* What holds when the search has come to j: what is settled and what becomes of the
\* rest are what is to become of the text.
Found(tab, s, room, a, j) ==
  /\ Sane(room, a) /\ ~a.far
  /\ a.none => \E h \in 1..Len(s) : s[h] = "<" /\ Closing(s, h + 1) = {}
  /\ ~a.none =>
       /\ 1 <= Put(a) /\ Put(a) <= Kept(a) /\ Kept(a) <= Len(s) + 1
       /\ a.sp = IF j <= Len(s) THEN Kept(a) ELSE room + 1
       /\ IsText(s, a.mem, Kept(a), room)
       /\ \A h \in Kept(a)..Len(s) : h <= j => ~Replaced(tab, s, h)
       /\ SubSeq(a.mem, 1, Put(a) - 1) \o SubstitutedFrom(tab, s)[Kept(a)] = Substituted(tab, s)

LEMMA FoundAtStart ==
  ASSUME NEW tab, NEW s \in Seq(Char), NEW room \in Nat, Len(s) < room,
         SubstitutedFrom(tab, s)[1] \in Seq(Sign)
  PROVE  Found(tab, s, room, Start(Loaded(s, room)), 0)
<1> DEFINE m == Loaded(s, room)
           a == Start(m)
<1>0. Len(s) \in Nat
  BY LenProperties
<1>1. m \in [1..room -> Sign] /\ \A x \in 1..room : m[x] = IF x <= Len(s) THEN s[x] ELSE Nul
  BY Memory
<1> HIDE DEF m
<1>2. Sane(room, a) /\ ~a.far /\ ~a.none
  BY <1>1 DEF Sane, SearchState, Start
<1>3. Put(a) = 1 /\ Kept(a) = 1 /\ a.sp = 1 /\ a.mem = m
  BY DEF Put, Kept, Start
<1>4. IsText(s, m, 1, room)
  BY <1>1 DEF IsText
<1>5. SubSeq(m, 1, 1 - 1) \o SubstitutedFrom(tab, s)[1] = Substituted(tab, s)
  <2>1. SubSeq(m, 1, 1 - 1) = <<>>
    BY SubSeqEmpty
  <2>2. <<>> \o SubstitutedFrom(tab, s)[1] = SubstitutedFrom(tab, s)[1]
    BY ConcatEmptySeq
  <2> QED
    BY <2>1, <2>2, Zenon DEF Substituted
<1>6. /\ 1 <= 1 /\ 1 <= Len(s) + 1 /\ 1 = (IF 0 <= Len(s) THEN 1 ELSE room + 1)
      /\ \A h \in 1..Len(s) : ~(h <= 0)
  BY <1>0
<1> HIDE DEF a
<1>7. Found(tab, s, room, a, 0)
  BY <1>2, <1>3, <1>4, <1>5, <1>6, Zenon DEF Found
<1> QED
  BY <1>7 DEF a, m

Regroups(W, X, q, Y, Z) ==
  (((W \o X) \o q) \o Y) \o Z = W \o (X \o ((q \o Y) \o Z))

LEMMA Grouped ==
  \A u, v, w : u \in Seq(Sign) /\ v \in Seq(Sign) /\ w \in Seq(Sign)
    => /\ u \o v \in Seq(Sign)
       /\ (u \o v) \o w = u \o (v \o w)
<1> SUFFICES ASSUME NEW u \in Seq(Sign), NEW v \in Seq(Sign), NEW w \in Seq(Sign)
             PROVE  u \o v \in Seq(Sign) /\ (u \o v) \o w = u \o (v \o w)
  OBVIOUS
<1> QED
  BY ConcatProperties, ConcatAssociative

LEMMA Regrouped ==
  ASSUME NEW W, NEW X, NEW q, NEW Y, NEW Z
  PROVE  /\ W \in Seq(Sign) /\ X \in Seq(Sign) /\ q \in Seq(Sign)
         /\ Y \in Seq(Sign) /\ Z \in Seq(Sign)
         => Regroups(W, X, q, Y, Z)
<1>1. SUFFICES ASSUME W \in Seq(Sign), X \in Seq(Sign), q \in Seq(Sign),
                      Y \in Seq(Sign), Z \in Seq(Sign)
               PROVE  Regroups(W, X, q, Y, Z)
  OBVIOUS
<1>q. q \in Seq(Sign)
  BY <1>1
<1>Y. Y \in Seq(Sign)
  BY <1>1
<1>Z. Z \in Seq(Sign)
  BY <1>1
<1>2. q \o Y \in Seq(Sign)
  BY <1>q, <1>Y, Grouped
<1>3. PICK a : a = W \o X /\ a \in Seq(Sign)
  BY <1>1, Grouped
<1>4. PICK e : e = q \o Y /\ e \in Seq(Sign)
  BY <1>2
<1>5. PICK f : f = e \o Z /\ f \in Seq(Sign)
  BY <1>4, <1>Z, Grouped
<1>a. a \in Seq(Sign)
  BY <1>3
<1>e. e \in Seq(Sign)
  BY <1>4
<1>6. (a \o q) \o Y = a \o (q \o Y)
  BY <1>a, <1>q, <1>Y, Grouped
<1>7. (a \o e) \o Z = a \o (e \o Z)
  BY <1>a, <1>e, <1>Z, Grouped
<1>8. (W \o X) \o f = W \o (X \o f)
  <2>1. W \in Seq(Sign) /\ X \in Seq(Sign) /\ f \in Seq(Sign)
    BY <1>1, <1>5
  <2> QED
    BY <2>1, Grouped
<1> QED
  BY <1>3, <1>4, <1>5, <1>6, <1>7, <1>8 DEF Regroups

LEMMA FoundRewriting ==
  ASSUME NEW tab \in Seq(Prefix), NEW s \in Seq(Char), NEW room \in Nat, Len(s) < room,
         Short(tab),
         NEW a, NEW j \in 1..Len(s), Found(tab, s, room, a, j - 1), ~a.none, a.sp <= j,
         Replaced(tab, s, j)
  PROVE  LET p == tab[Min(Known(tab, s, j + 1))]
         IN  Found(tab, s, room, Rewrite(a, j, End(s, j), p), j)
<1> DEFINE n == Len(s)
           p == tab[Min(Known(tab, s, j + 1))]
           e == End(s, j)
           r == Rewrite(a, j, e, p)
           q == p.prfx \o <<":">>
           Q == Put(a)
           K == Kept(a)
           u == Len(p.puri)
           val == (j + 1) + u
           l == Len(q)
           v == e - val
           pp1 == Q + (j - K)
           pp2 == pp1 + l
           F(x) == SubstitutedFrom(tab, s)[x]
<1>0. n \in Nat /\ n < room /\ j \in Nat /\ j <= n /\ j \in 1..room
  BY LenProperties
<1>1. p \in Prefix /\ \E i \in DOMAIN tab : p = tab[i]
  BY KnownIs
<1>2. j + 1 + Len(p.puri) <= e
  BY KnownIs
<1>3. e \in j+1..n
  BY EndsInside
<1>4. /\ Sane(room, a) /\ ~a.far
      /\ 1 <= Q /\ Q <= K /\ K <= n + 1
      /\ a.sp = IF j - 1 <= n THEN K ELSE room + 1
      /\ IsText(s, a.mem, K, room)
      /\ \A h \in K..n : h <= j - 1 => ~Replaced(tab, s, h)
      /\ SubSeq(a.mem, 1, Q - 1) \o F(K) = Substituted(tab, s)
  BY Zenon DEF Found
<1>5. a.mem \in [1..room -> Sign] /\ Q \in Nat /\ K \in Nat
  BY <1>4, SaneIs, Zenon
<1>6. K <= j
  <2>1. a.sp = K
    <3>1. j - 1 <= n
      BY <1>0
    <3> QED
      BY <1>4, <3>1, Zenon
  <2> QED
    BY <2>1
<1>7. q \in Seq(Sign) /\ l = Len(p.prfx) + 1
  BY <1>1, ColonBehind
<1>8. Len(p.prfx) \in Nat /\ u \in Nat /\ Len(p.prfx) <= u
  <2>1. Len(p.prfx) \in Nat /\ u \in Nat
    BY <1>1, ColonBehind
  <2>2. Len(p.prfx) <= u
    BY <1>1 DEF Short
  <2> QED
    BY <2>1, <2>2
<1> DEFINE f == Len(p.prfx)
<1>9. f \in Nat /\ u \in Nat /\ f <= u /\ l = f + 1 /\ (j + 1) + u <= e
  <2>1. (j + 1) + u <= e
    <3> HIDE DEF e, p
    <3>1. Len(p.puri) \in Nat
      BY <1>8
    <3> QED
      BY <1>0, <1>2, <1>3, <3>1
  <2> QED
    BY <1>7, <1>8, <2>1
<1> HIDE DEF p, e, q, Q, K, u, l, n, f
<1>10. Lie(n, l, v, room, Q, K, j, e, val, pp1, pp2)
       /\ v \in Nat /\ val \in Nat /\ pp1 \in Nat /\ pp2 \in Nat
  BY <1>0, <1>3, <1>4, <1>5, <1>6, <1>9 DEF Lie
<1>11. /\ Sane(room, r)
       /\ r.sp = e + 1 /\ r.cp = e + 1 /\ r.pp = pp2 + v
       /\ r.none = a.none /\ r.far = (a.far \/ r.pp - 1 > room)
       /\ \E m1, m2 \in [1..room -> Sign] : Moves(room, a.mem, m1, m2, r.mem, q, v, Q, K, val, pp1, pp2)
  <2>0. e \in j+1..room
    BY <1>0, <1>3
  <2>1. e \in j+1..room /\ (j + 1) + Len(p.puri) <= e
    BY <1>9, <2>0, Zenon DEF u
  <2>2. pp1 + (Len(p.prfx) + 1) = pp2
    BY <1>9 DEF f
  <2>3. Done(room, a, j, e, p, r)
    BY <1>0, <1>1, <1>4, <2>1, RewriteIs
  <2> HIDE DEF r, pp1
  <2> QED
    BY <2>2, <2>3, Zenon DEF Done, q, Q, K, u, pp1
<1> DEFINE W == SubSeq(a.mem, 1, Q - 1)
           X == SubSeq(s, K, j - 1)
           Y == SubSeq(s, val, e - 1)
           Z == F(e + 1)
<1>12. r.mem \in [1..room -> Sign]
  <2> HIDE DEF r
  <2> QED
    BY <1>11, SaneIs
<1> HIDE DEF r
<1>13. /\ SubSeq(r.mem, 1, (pp2 + v) - 1) = ((W \o X) \o q) \o Y
       /\ IsText(s, r.mem, e + 1, room)
  <2>1. PICK m1, m2 \in [1..room -> Sign] :
          Moves(room, a.mem, m1, m2, r.mem, q, v, Q, K, val, pp1, pp2)
    BY <1>11, Zenon
  <2>2. e \in Nat
    BY <1>3
  <2>3. Lie(Len(s), Len(q), v, room, Q, K, j, e, val, pp1, pp2)
    BY <1>10 DEF n, l
  <2>4. v \in Nat /\ val \in Nat /\ pp1 \in Nat /\ pp2 \in Nat
    BY <1>10
  <2> HIDE DEF v, val, pp1, pp2
  <2> QED
    BY <1>0, <1>4, <1>5, <1>7, <1>12, <2>1, <2>2, <2>3, <2>4, Moved
<1>14. W \in Seq(Sign) /\ X \in Seq(Sign) /\ Y \in Seq(Sign) /\ Z \in Seq(Sign)
  <2>1. \A x \in 1..n : s[x] \in Sign
    BY Texts DEF n
  <2>2. \A x \in 1..Q-1 : a.mem[x] \in Sign
    <3>1. \A x \in 1..Q-1 : x \in 1..room
      BY <1>0, <1>4, <1>5, <1>6
    <3> QED
      BY <1>5, <3>1
  <2>3. \A x \in K..j-1 : s[x] \in Sign
    <3>1. \A x \in K..j-1 : x \in 1..n
      BY <1>0, <1>4, <1>5, <1>6
    <3> QED
      BY <2>1, <3>1
  <2>4. \A x \in val..e-1 : s[x] \in Sign
    <3>1. \A x \in val..e-1 : x \in 1..n
      BY <1>0, <1>3, <1>9
    <3> QED
      BY <2>1, <3>1
  <2>5. 1 \in Int /\ Q - 1 \in Int /\ K \in Int /\ j - 1 \in Int /\ val \in Int /\ e - 1 \in Int
    BY <1>0, <1>3, <1>5, <1>10
  <2> HIDE DEF val
  <2>6. W \in Seq(Sign) /\ X \in Seq(Sign) /\ Y \in Seq(Sign)
    BY <2>2, <2>3, <2>4, <2>5, SubSeqProperties
  <2>7. Z \in Seq(Sign)
    <3>1. e + 1 \in 1..Len(s)+1
      BY <1>0, <1>3 DEF n
    <3> QED
      BY <3>1, SubstitutedSigns
  <2> QED
    BY <2>6, <2>7
<1>15. F(K) = X \o ((q \o Y) \o Z)
  <2>1. F(K) = X \o F(j)
    <3>1. j \in 1..Len(s)+1 /\ K \in 1..j
      BY <1>0, <1>4, <1>5, <1>6 DEF n
    <3>2. \A h \in K..j-1 : ~Replaced(tab, s, h)
      <4>1. \A h \in K..j-1 : h \in K..n /\ h <= j - 1
        BY <1>0, <1>5
      <4> QED
        BY <1>4, <4>1
    <3> QED
      BY <3>1, <3>2, Stretch
  <2>2. F(j) = Named(tab, s, j) \o Z
    BY SubstitutingOne DEF e
  <2>3. Named(tab, s, j) = q \o Y
    <3>1. j + 1 + Len(p.puri) = val
      BY <1>0, <1>9 DEF u
    <3> HIDE DEF val
    <3> QED
      BY <3>1, Zenon DEF Named, q, p, e
  <2> QED
    BY <2>1, <2>2, <2>3
<1> HIDE DEF W, X, Y, Z, F
<1>16. (((W \o X) \o q) \o Y) \o Z = W \o (X \o ((q \o Y) \o Z))
  <2>1. q \in Seq(Sign)
    BY <1>7
  <2>2. Regroups(W, X, q, Y, Z)
    BY <1>14, <2>1, Regrouped
  <2> QED
    BY <2>2, Zenon DEF Regroups
<1>17. Put(r) = pp2 + v /\ Kept(r) = e + 1
  <2>1. r.cp # 0 /\ r.cp = e + 1 /\ r.pp = pp2 + v
    BY <1>3, <1>11
  <2> QED
    BY <2>1, Zenon DEF Put, Kept
<1>18. /\ 1 <= pp2 + v /\ pp2 + v <= e + 1 /\ e + 1 <= n + 1
       /\ e + 1 = (IF j <= n THEN e + 1 ELSE room + 1)
       /\ \A h \in e+1..n : ~(h <= j)
       /\ ~((pp2 + v) - 1 > room)
  <2>1. /\ pp1 = Q + (j - K) /\ pp2 = pp1 + l /\ 1 <= Q /\ Q <= K /\ K <= j
        /\ j + l <= val /\ val <= e /\ v = e - val /\ e <= n /\ n < room
    BY <1>10, Zenon DEF Lie
  <2>2. e \in Nat /\ j < e
    BY <1>3
  <2>4. v \in Nat /\ val \in Nat /\ pp1 \in Nat /\ pp2 \in Nat
    BY <1>10
  <2>5. l \in Nat
    BY <1>9
  <2> HIDE DEF v, val, pp1, pp2
  <2>3. 1 <= pp1 /\ pp1 <= j
    BY <1>5, <2>1
  <2> QED
    BY <1>0, <2>1, <2>2, <2>3, <2>4, <2>5
<1>19. ~r.far /\ ~r.none
  BY <1>4, <1>11, <1>18
<1>20. SubSeq(r.mem, 1, (pp2 + v) - 1) \o F(e + 1) = Substituted(tab, s)
  BY <1>4, <1>13, <1>15, <1>16 DEF Z, W
<1> HIDE DEF pp2, v
<1>21. Found(tab, s, room, r, j)
  BY <1>11, <1>13, <1>17, <1>18, <1>19, <1>20, Zenon DEF Found, F, n
<1> QED
  BY <1>21 DEF r, e, p


\* At the place that is looked at the memory holds the text.
LEMMA FoundThere ==
  ASSUME NEW tab \in Seq(Prefix), NEW s \in Seq(Char), NEW room \in Nat, Len(s) < room,
         NEW a, NEW j \in 1..room, Found(tab, s, room, a, j - 1), Searches(a, j)
  PROVE  /\ a.mem[j] = Nul => j > Len(s)
         /\ a.mem[j] # Nul => /\ j <= Len(s)
                              /\ a.mem[j] = s[j]
                              /\ Known(tab, a.mem, j + 1) = Known(tab, s, j + 1)
                              /\ Closing(a.mem, j + 1) = Closing(s, j + 1)
<1> DEFINE n == Len(s)
           K == Kept(a)
<1>0. n \in Nat /\ n < room
  BY LenProperties
<1>1. ~(j < a.sp) /\ ~a.none
  BY DEF Searches
<1>2. /\ Sane(room, a) /\ K <= n + 1
      /\ a.sp = (IF j - 1 <= n THEN K ELSE room + 1)
      /\ IsText(s, a.mem, K, room)
  BY <1>1, Zenon DEF Found
<1>3. K \in Nat /\ K >= 1 /\ a.mem \in [1..room -> Sign]
  BY <1>2, SaneIs
<1>4. j - 1 <= n
  <2>1. CASE j - 1 > n
    <3>1. a.sp = room + 1
      BY <1>0, <1>2, <2>1
    <3> QED
      BY <1>1, <3>1
  <2> QED
    BY <1>0, <2>1
<1>5. K <= j
  <2>1. a.sp = K
    BY <1>2, <1>4, Zenon
  <2> QED
    BY <1>1, <1>3, <2>1
<1>6. \A x \in K..room : a.mem[x] = IF x <= Len(s) THEN s[x] ELSE Nul
  BY <1>2 DEF IsText
<1>7. j \in K..room
  BY <1>3, <1>5
<1>8. CASE j <= n
  <2>1. j \in 1..Len(s)
    BY <1>8
  <2>2. \A x \in j..room : a.mem[x] = IF x <= Len(s) THEN s[x] ELSE Nul
    <3>1. \A x \in j..room : x \in K..room
      BY <1>3, <1>5
    <3> QED
      BY <1>6, <3>1
  <2>3. /\ a.mem[j] = s[j]
        /\ Known(tab, a.mem, j + 1) = Known(tab, s, j + 1)
        /\ Closing(a.mem, j + 1) = Closing(s, j + 1)
    <3> DEFINE m == a.mem
    <3>1. m \in [1..room -> Sign] /\ \A x \in j..room : m[x] = IF x <= Len(s) THEN s[x] ELSE Nul
      BY <1>3, <2>2
    <3> HIDE DEF m
    <3>2. /\ m[j] = s[j]
          /\ Known(tab, m, j + 1) = Known(tab, s, j + 1)
          /\ Closing(m, j + 1) = Closing(s, j + 1)
      BY <1>0, <2>1, <3>1, LooksAlike
    <3> QED
      BY <3>2 DEF m
  <2>4. s[j] # Nul
    BY <2>1, Texts
  <2> QED
    BY <1>8, <2>3, <2>4
<1>9. CASE j > n
  <2>1. a.mem[j] = Nul
    <3>1. ~(j <= Len(s))
      BY <1>0, <1>9
    <3> QED
      BY <1>6, <1>7, <3>1
  <2> QED
    BY <1>9, <2>1
<1> QED
  BY <1>0, <1>8, <1>9

LEMMA FoundStep ==
  ASSUME NEW tab \in Seq(Prefix), NEW s \in Seq(Char), NEW room \in Nat, Len(s) < room,
         Short(tab), NEW a, NEW j \in 1..room, Found(tab, s, room, a, j - 1)
  PROVE  Found(tab, s, room, Look(tab, a, j), j)
<1> DEFINE n == Len(s)
           K == Kept(a)
           r == Look(tab, a, j)
<1> SUFFICES Found(tab, s, room, r, j)
  OBVIOUS
<1>0. n \in Nat /\ n < room
  BY LenProperties
<1>1. /\ Sane(room, a) /\ ~a.far
      /\ a.none => \E h \in 1..n : s[h] = "<" /\ Closing(s, h + 1) = {}
  BY DEF Found
<1>2. ~a.none => /\ 1 <= Put(a) /\ Put(a) <= K /\ K <= n + 1
                 /\ a.sp = (IF j - 1 <= n THEN K ELSE room + 1)
                 /\ IsText(s, a.mem, K, room)
                 /\ \A h \in K..n : h <= j - 1 => ~Replaced(tab, s, h)
                 /\ SubSeq(a.mem, 1, Put(a) - 1) \o SubstitutedFrom(tab, s)[K] = Substituted(tab, s)
  BY Zenon DEF Found
<1>3. /\ a \in SearchState(room) /\ a.sp \in Nat /\ a.cp \in Nat /\ K \in Nat /\ K >= 1
      /\ a.none \in BOOLEAN
  BY <1>1, SaneIs DEF Sane
<1>4. Sane(room, r)
  BY <1>1, LookSane
\* r differs from a only in what the search goes on with.
<1>5. ASSUME ~a.none, ~r.none, r.mem = a.mem, r.cp = a.cp, r.pp = a.pp, r.far = a.far,
             r.sp = (IF j <= n THEN K ELSE room + 1),
             j <= n /\ j >= K => ~Replaced(tab, s, j)
      PROVE  Found(tab, s, room, r, j)
  <2>1. Put(r) = Put(a) /\ Kept(r) = K
    BY <1>5, Zenon DEF Put, Kept
  <2>2. \A h \in K..n : h <= j => ~Replaced(tab, s, h)
    <3> SUFFICES ASSUME NEW h \in K..n, h <= j PROVE ~Replaced(tab, s, h)
      OBVIOUS
    <3>1. CASE h = j
      BY <1>0, <1>3, <1>5, <3>1
    <3>2. CASE h # j
      <4>1. h <= j - 1
        BY <1>0, <1>3, <3>2
      <4> QED
        BY <1>2, <1>5, <4>1
    <3> QED
      BY <3>1, <3>2
  <2> HIDE DEF r, K, n
  <2>3. Found(tab, s, room, r, j)
    BY <1>1, <1>2, <1>4, <1>5, <2>1, <2>2, Zenon DEF Found, n
  <2> QED
    BY <2>3
<1>6. ASSUME r.none, ~r.far, \E h \in 1..n : s[h] = "<" /\ Closing(s, h + 1) = {}
      PROVE  Found(tab, s, room, r, j)
  <2> HIDE DEF r
  <2> QED
    BY <1>4, <1>6, Zenon DEF Found, n
<1>7. CASE Passed(a, j, r)
  <2>1. r = a /\ ~Searches(a, j)
    BY <1>7 DEF Passed
  <2>2. CASE a.none
    BY <1>1, <1>6, <2>1, <2>2
  <2>3. CASE ~a.none
    <3>1. j < a.sp
      BY <1>3, <2>1, <2>3 DEF Searches
    <3>2. a.sp = (IF j <= n THEN K ELSE room + 1)
      <4>1. CASE j - 1 <= n
        <5>1. a.sp = K /\ K <= n + 1
          BY <1>2, <2>3, <4>1, Zenon
        <5>2. j <= n
          <6> HIDE DEF K
          <6> QED
            BY <1>0, <1>3, <3>1, <5>1
        <5> QED
          BY <5>1, <5>2, Zenon
      <4>2. CASE ~(j - 1 <= n)
        <5>1. ~(j <= n)
          BY <1>0, <4>2
        <5> QED
          BY <1>2, <2>3, <4>2, <5>1, Zenon
      <4> QED
        BY <4>1, <4>2
    <3>3. ~(j <= n /\ j >= K)
      <4> HIDE DEF K
      <4> QED
        BY <1>0, <1>3, <3>1, <3>2
    <3> HIDE DEF r, K, n
    <3> QED
      BY <1>1, <1>5, <2>1, <2>3, <3>2, <3>3, Zenon
  <2> QED
    BY <2>2, <2>3
<1>8. ASSUME Searches(a, j)
      PROVE  /\ ~a.none /\ a.sp <= j
             /\ a.mem[j] = Nul => j > n
             /\ a.mem[j] # Nul => /\ j <= n /\ a.sp = K
                                  /\ a.mem[j] = s[j]
                                  /\ Known(tab, a.mem, j + 1) = Known(tab, s, j + 1)
                                  /\ Closing(a.mem, j + 1) = Closing(s, j + 1)
  <2>1. ~a.none /\ a.sp <= j
    BY <1>3, <1>8 DEF Searches
  <2>2. /\ a.mem[j] = Nul => j > n
        /\ a.mem[j] # Nul => /\ j <= n
                             /\ a.mem[j] = s[j]
                             /\ Known(tab, a.mem, j + 1) = Known(tab, s, j + 1)
                             /\ Closing(a.mem, j + 1) = Closing(s, j + 1)
    BY <1>8, FoundThere
  <2>3. j <= n => a.sp = K
    <3>1. j <= n => j - 1 <= n
      BY <1>0
    <3> QED
      BY <1>2, <2>1, <3>1, Zenon
  <2> QED
    BY <2>1, <2>2, <2>3, Zenon
<1>9. CASE TextEnds(room, a, j, r)
  <2>1. Searches(a, j) /\ a.mem[j] = Nul /\ r = [a EXCEPT !.sp = room + 1]
    BY <1>9 DEF TextEnds
  <2>2. ~a.none /\ ~(j <= n)
    <3>1. j > n
      BY <1>8, <2>1, Zenon
    <3> QED
      BY <1>0, <1>8, <2>1, <3>1
  <2> HIDE DEF r
  <2>3. r.mem = a.mem /\ r.cp = a.cp /\ r.pp = a.pp /\ r.far = a.far /\ r.none = a.none
        /\ r.sp = room + 1
    BY <1>3, <2>1 DEF SearchState
  <2> HIDE DEF K, n
  <2> QED
    BY <1>5, <2>2, <2>3, Zenon
<1>10. CASE Ordinary(tab, a, j, r)
  <2>1. /\ Searches(a, j) /\ a.mem[j] # Nul /\ r = a
        /\ a.mem[j] # "<" \/ Known(tab, a.mem, j + 1) = {}
    BY <1>10 DEF Ordinary
  <2>2. /\ ~a.none /\ j <= n /\ a.sp = K
        /\ a.mem[j] = s[j] /\ Known(tab, a.mem, j + 1) = Known(tab, s, j + 1)
    BY <1>8, <2>1, Zenon
  <2>3. ~Replaced(tab, s, j)
    BY <2>1, <2>2, Zenon DEF Replaced
  <2> HIDE DEF r, K, n
  <2> QED
    BY <1>5, <2>1, <2>2, <2>3, Zenon
<1>11. CASE Unclosed(tab, a, j, r)
  <2>1. /\ Searches(a, j) /\ a.mem[j] = "<" /\ Closing(a.mem, j + 1) = {}
        /\ r = [a EXCEPT !.none = TRUE]
    BY <1>11 DEF Unclosed
  <2>2. a.mem[j] # Nul
    BY <2>1 DEF Nul
  <2>3. j <= n /\ s[j] = "<" /\ Closing(s, j + 1) = {}
    <3>1. j <= n /\ a.mem[j] = s[j] /\ Closing(a.mem, j + 1) = Closing(s, j + 1)
      BY <1>8, <2>1, <2>2, Zenon
    <3> QED
      BY <2>1, <3>1, Zenon
  <2>4. j \in 1..n
    BY <1>0, <2>3
  <2> HIDE DEF r
  <2>5. r.none /\ r.far = a.far
    BY <1>3, <2>1 DEF SearchState
  <2> QED
    BY <1>1, <1>6, <2>3, <2>4, <2>5, Zenon
<1>12. CASE Rewritten(room, tab, a, j, r)
  <2> DEFINE p == tab[Min(Known(tab, a.mem, j + 1))]
  <2>1. /\ Searches(a, j) /\ a.mem[j] = "<" /\ Known(tab, a.mem, j + 1) # {}
        /\ \E e \in j+1..room : /\ Closing(a.mem, j + 1) = {e}
                               /\ r = Rewrite(a, j, e, p)
    BY <1>12, Zenon DEF Rewritten
  <2>2. a.mem[j] # Nul
    BY <2>1 DEF Nul
  <2>3. /\ ~a.none /\ a.sp <= j /\ j <= n
        /\ a.mem[j] = s[j] /\ Known(tab, a.mem, j + 1) = Known(tab, s, j + 1)
        /\ Closing(a.mem, j + 1) = Closing(s, j + 1)
    BY <1>8, <2>1, <2>2, Zenon
  <2>4. PICK e \in j+1..room : Closing(a.mem, j + 1) = {e} /\ r = Rewrite(a, j, e, p)
    BY <2>1, Zenon
  <2>5. Replaced(tab, s, j)
    <3>1. Closing(s, j + 1) # {}
      BY <2>3, <2>4
    <3> QED
      BY <2>1, <2>3, <3>1, Zenon DEF Replaced
  <2>6. End(s, j) = e
    <3>1. e \in Nat /\ Closing(s, j + 1) = {e}
      BY <2>3, <2>4
    <3> QED
      BY <3>1, EndIs
  <2>7. j \in 1..Len(s)
    BY <1>0, <2>3
  <2>8. Found(tab, s, room, Rewrite(a, j, End(s, j), tab[Min(Known(tab, s, j + 1))]), j)
    <3> HIDE DEF p, r
    <3> QED
      BY <2>3, <2>5, <2>7, FoundRewriting
  <2>9. r = Rewrite(a, j, End(s, j), tab[Min(Known(tab, s, j + 1))])
    <3> HIDE DEF r
    <3> QED
      BY <2>3, <2>4, <2>6, Zenon
  <2> HIDE DEF r
  <2> QED
    BY <2>8, <2>9
<1> QED
  BY <1>1, <1>7, <1>9, <1>10, <1>11, <1>12, LookIs, Zenon

LEMMA FoundThroughout ==
  ASSUME NEW tab \in Seq(Prefix), NEW s \in Seq(Char), NEW room \in Nat, Len(s) < room,
         Short(tab)
  PROVE  Found(tab, s, room, Searched(tab, Loaded(s, room))[room], room)
<1> DEFINE m == Loaded(s, room)
           a(j) == Searched(tab, m)[j]
           T == {j \in 0..room : Found(tab, s, room, a(j), j)}
<1>1. m \in [1..room -> Sign] /\ Len(m) = room
  BY Memory, Mem
<1>2. a(0) = Start(m) /\ \A j \in 1..room : a(j) = Look(tab, a(j-1), j)
  <2> HIDE DEF m
  <2> QED
    BY <1>1, Searching
<1> HIDE DEF a
<1>3. 0 \in T
  <2>1. SubstitutedFrom(tab, s)[1] \in Seq(Sign)
    <3>1. 1 \in 1..Len(s)+1
      BY LenProperties
    <3> QED
      BY <3>1, SubstitutedSigns
  <2>2. Found(tab, s, room, Start(m), 0)
    BY <2>1, FoundAtStart
  <2> HIDE DEF m
  <2> QED
    BY <1>2, <2>2
<1>4. ASSUME NEW j \in 1..room, j - 1 \in T PROVE j \in T
  <2>1. Found(tab, s, room, a(j-1), j - 1)
    BY <1>4
  <2> HIDE DEF m, T
  <2>2. Found(tab, s, room, Look(tab, a(j-1), j), j)
    BY <2>1, FoundStep
  <2>3. Found(tab, s, room, a(j), j) /\ j \in 0..room
    BY <1>2, <2>2
  <2> QED
    BY <2>3 DEF T
<1> HIDE DEF T
<1>5. \A j \in 0..room : j \in T
  BY <1>3, <1>4, SetInduction
<1>6. room \in T
  BY <1>5
<1> QED
  BY <1>6 DEF T, a, m

LEMMA ClosedText ==
  ASSUME NEW s \in Seq(Char), Closed(s), NEW h \in 1..Len(s), s[h] = "<"
  PROVE  Closing(s, h + 1) # {}
<1> DEFINE S == {i \in h..Len(s) : s[i] = ">"}
           ends == {e \in h+1..Len(s) : s[e] \in {">", Nul}}
<1>0. Len(s) \in Nat /\ DOMAIN s = 1..Len(s) /\ \A x \in 1..Len(s) : s[x] # Nul
  BY Texts, LenProperties
<1>1. First(s, ">", h) # 0
  BY <1>0 DEF Closed
<1>2. S # {}
  BY <1>1, Zenon DEF First
<1>3. PICK i \in h..Len(s) : s[i] = ">"
  BY <1>2
<1>4. i \in ends
  <2>1. i # h
    BY <1>3
  <2> QED
    BY <1>0, <1>3, <2>1
<1>5. ends \subseteq Nat
  BY <1>0
<1>6. Min(ends) \in ends
  <2> HIDE DEF ends
  <2> QED
    BY <1>4, <1>5, MinOf
<1>7. s[Min(ends)] = ">"
  <2>1. PICK e \in h+1..Len(s) : e = Min(ends) /\ s[e] \in {">", Nul}
    BY <1>6
  <2>2. e \in 1..Len(s)
    BY <1>0
  <2> QED
    BY <1>0, <2>1, <2>2
<1> QED
  BY <1>4, <1>7, Zenon DEF Closing

\* In a buffer with room for it and a NUL, and with no prefix longer than its URI, the
\* text stays within the bounds and gets no longer; and if every IRI is closed it
\* becomes what it would elsewhere, however many of them there are
\* (ttl-prefixify.c:140-191).
THEOREM SubstitutesInPlace ==
  ASSUME NEW tab \in Seq(Prefix), NEW s \in Seq(Char), NEW room \in Nat, Len(s) < room,
         Short(tab)
  PROVE  /\ ~subst(tab, s, room).far
         /\ Len(subst(tab, s, room).text) <= Len(s)
         /\ Closed(s) => subst(tab, s, room).text = Substituted(tab, s)
<1> DEFINE n    == Len(s)
           a    == Searched(tab, Loaded(s, room))[room]
           rest == n + 1 - a.cp
           len  == IF a.none THEN 0 ELSE IF a.cp = 0 THEN n ELSE a.pp + rest - 1
           last == IF a.none \/ a.cp = 0 THEN a.mem ELSE Move(a.mem, a.pp, a.cp, rest)
           z1   == IF len <= room THEN len ELSE room
           Q    == Put(a)
           K    == Kept(a)
<1>0. n \in Nat /\ n < room
  BY LenProperties
<1>1. Found(tab, s, room, a, room)
  BY FoundThroughout
<1>2. subst(tab, s, room).text = SubSeq(last, 1, z1)
      /\ subst(tab, s, room).far = (a.far \/ len >= room)
  <2>1. subst(tab, s, room) = [text |-> SubSeq(last, 1, z1), far |-> a.far \/ len >= room]
    BY Zenon DEF subst, a
  <2> DEFINE f == a.far \/ len >= room
             w == SubSeq(last, 1, z1)
  <2> HIDE DEF f, w
  <2>2. subst(tab, s, room) = [text |-> w, far |-> f]
    BY <2>1, Zenon DEF f, w
  <2>3. subst(tab, s, room).text = w /\ subst(tab, s, room).far = f
    BY <2>2
  <2> HIDE DEF last, z1, len, a
  <2> QED
    BY <2>3, Zenon DEF f, w
<1> HIDE DEF a
<1>3. /\ Sane(room, a) /\ ~a.far
      /\ a.none => \E h \in 1..n : s[h] = "<" /\ Closing(s, h + 1) = {}
  BY <1>1 DEF Found
<1>4. CASE a.none
  <2>1. len = 0 /\ z1 = 0
    BY <1>0, <1>4
  <2>2. ~Closed(s)
    BY <1>3, <1>4, ClosedText, Zenon
  <2>3. SubSeq(last, 1, z1) = <<>>
    <3> HIDE DEF last, z1
    <3> QED
      BY <2>1, SubSeqEmpty
  <2>4. ~(len >= room) /\ Len(<<>>) <= n
    BY <1>0, <2>1
  <2> HIDE DEF last, z1, len
  <2> QED
    BY <1>2, <1>3, <2>2, <2>3, <2>4, Zenon DEF n
<1>5. CASE ~a.none
  <2>1. /\ 1 <= Q /\ Q <= K /\ K <= n + 1
        /\ IsText(s, a.mem, K, room)
        /\ \A h \in K..n : h <= room => ~Replaced(tab, s, h)
        /\ SubSeq(a.mem, 1, Q - 1) \o SubstitutedFrom(tab, s)[K] = Substituted(tab, s)
    BY <1>1, <1>5, Zenon DEF Found
  <2>2. a.mem \in [1..room -> Sign] /\ Q \in Nat /\ K \in Nat /\ a.cp \in Nat /\ a.pp \in Nat
    BY <1>3, SaneIs
  <2> DEFINE k == (n + 1) - K
             X == SubSeq(s, K, n)
             W == SubSeq(a.mem, 1, Q - 1)
  <2>3. k \in Nat /\ Q - 1 \in Nat /\ (Q - 1) + k <= n
    <3> HIDE DEF Q, K
    <3> QED
      BY <1>0, <2>1, <2>2
\* What the last move leaves; there is none if nothing was replaced.
  <2>4. len = (Q - 1) + k
    <3> DEFINE c == a.cp
               d == a.pp
    <3>1. c \in Nat /\ d \in Nat
      BY <2>2
    <3>2. CASE c = 0
      <4>1. Q = 1 /\ K = 1 /\ len = n
        BY <1>5, <3>2 DEF Put, Kept
      <4> HIDE DEF len, Q, K
      <4> QED
        BY <1>0, <4>1
    <3>3. CASE c # 0
      <4>1. Q = d /\ K = c /\ len = d + rest - 1
        BY <1>5, <3>3 DEF Put, Kept
      <4> HIDE DEF len, Q, K, c, d
      <4>2. rest = (n + 1) - c
        BY <1>0, <3>1 DEF c
      <4> HIDE DEF rest
      <4> QED
        BY <1>0, <3>1, <4>1, <4>2
    <3> QED
      BY <3>2, <3>3
  <2>5. /\ last \in [1..room -> Sign]
        /\ \A x \in 1..room : last[x] =
             IF Q <= x /\ x <= (Q + k) - 1 THEN a.mem[(x - Q) + K] ELSE a.mem[x]
    <3> DEFINE m == a.mem
    <3>1. CASE a.cp = 0
      <4>1. Q = 1 /\ K = 1 /\ last = m
        BY <3>1 DEF Put, Kept
      <4>2. \A x \in 1..room : (x - 1) + 1 = x
        OBVIOUS
      <4>3. m \in [1..room -> Sign]
        BY <2>2
      <4> HIDE DEF last, Q, K, k, m
      <4>4. \A x \in 1..room : last[x] =
             IF Q <= x /\ x <= (Q + k) - 1 THEN m[(x - Q) + K] ELSE m[x]
        BY <4>1, <4>2
      <4> QED
        BY <4>1, <4>3, <4>4 DEF m
    <3>2. CASE a.cp # 0
      <4>1. Q = a.pp /\ K = a.cp /\ last = Move(m, Q, K, rest)
        BY <1>5, <3>2 DEF Put, Kept
      <4>2. rest = k
        <5>1. a.cp \in Nat /\ K = a.cp
          BY <2>2, <4>1
        <5> HIDE DEF K
        <5> QED
          BY <1>0, <5>1
      <4>3. m \in [1..room -> Sign] /\ k \in Int /\ K >= 1 /\ (K + k) - 1 <= room
            /\ Q \in Nat /\ K \in Nat
        <5>1. K >= 1
          BY <2>1, <2>2
        <5> HIDE DEF Q, K
        <5> QED
          BY <1>0, <2>2, <5>1
      <4> HIDE DEF last, Q, K, k, m, rest
      <4>4. /\ Move(m, Q, K, k) \in [1..room -> Sign]
            /\ \A x \in 1..room : Move(m, Q, K, k)[x] =
                 IF Q <= x /\ x <= (Q + k) - 1 THEN m[(x - Q) + K] ELSE m[x]
        <5>1. IsMoved(room, m, Q, K, k, Move(m, Q, K, k))
          BY <4>3, MoveIs
        <5> QED
          BY <5>1 DEF IsMoved
      <4> QED
        BY <4>1, <4>2, <4>4 DEF m
    <3> QED
      BY <3>1, <3>2
  <2> HIDE DEF last, len, Q, K, z1
  <2>6. z1 = (Q - 1) + k /\ ~(len >= room) /\ (Q - 1) + k <= room
    <3> HIDE DEF k
    <3> QED
      BY <1>0, <2>2, <2>3, <2>4 DEF z1
  <2>7. X \in Seq(Sign) /\ Len(X) = k /\ \A x \in 1..k : X[x] = s[(K - 1) + x]
    <3>1. \A x \in K..n : s[x] \in Sign
      <4>1. \A x \in K..n : x \in 1..n
        BY <1>0, <2>1, <2>2
      <4> QED
        BY <4>1, Texts
    <3>2. X \in Seq(Sign) /\ Len(X) = (IF K <= n THEN (n - K) + 1 ELSE 0)
          /\ \A x \in 1..(n-K)+1 : X[x] = s[(K - 1) + x]
      BY <1>0, <2>2, <3>1, Part
    <3>3. (IF K <= n THEN (n - K) + 1 ELSE 0) = k /\ (n - K) + 1 = k
      BY <1>0, <2>1, <2>2
    <3> HIDE DEF X, k
    <3> QED
      BY <3>2, <3>3, Zenon
  <2>8. SubSeq(last, 1, (Q - 1) + k) = W \o X
    <3>1. SubSeq(a.mem, 1, Q - 1) = SubSeq(last, 1, Q - 1)
      <4>1. \A x \in 1..Q-1 : x \in 1..room /\ ~(Q <= x)
        BY <1>0, <2>1, <2>2, <2>3
      <4>2. \A x \in 1..Q-1 : last[x] = a.mem[x]
        BY <2>5, <4>1
      <4> DEFINE m == a.mem
                 h == Q - 1
      <4>3. m \in [1..room -> Sign] /\ h \in Int /\ h <= room /\ \A x \in 1..h : last[x] = m[x]
        BY <1>0, <2>2, <2>3, <4>2
      <4> HIDE DEF m, h
      <4>4. SubSeq(m, 1, h) = SubSeq(last, 1, h)
        BY <2>5, <4>3, SameStart
      <4> QED
        BY <4>4 DEF m, h
    <3>2. Holds(last, Q - 1, X)
      <4> SUFFICES ASSUME NEW x \in 1..k PROVE last[(Q - 1) + x] = X[x]
        BY <2>7 DEF Holds
      <4> DEFINE y == (Q - 1) + x
      <4>1. /\ y \in 1..room /\ Q <= y /\ y <= (Q + k) - 1 /\ (y - Q) + K = (K - 1) + x
            /\ (K - 1) + x \in K..room /\ (K - 1) + x <= n
        BY <1>0, <2>1, <2>2, <2>3
      <4> HIDE DEF y
      <4>2. last[y] = a.mem[(K - 1) + x]
        BY <2>5, <4>1
      <4>3. a.mem[(K - 1) + x] = s[(K - 1) + x]
        BY <2>1, <4>1 DEF IsText
      <4> QED
        BY <2>7, <4>2, <4>3 DEF y
    <3> DEFINE h == Q - 1
    <3>3. h \in Nat /\ h + Len(X) <= room /\ X \in Seq(Sign) /\ h + Len(X) = (Q - 1) + k
      BY <2>3, <2>6, <2>7
    <3>4. Holds(last, h, X) /\ W = SubSeq(last, 1, h)
      BY <3>1, <3>2
    <3> HIDE DEF h, X, W, k
    <3>5. SubSeq(last, 1, h + Len(X)) = SubSeq(last, 1, h) \o X
      BY <2>5, <3>3, <3>4, Glued
    <3> QED
      BY <3>3, <3>4, <3>5
  <2>9. W \o X = Substituted(tab, s)
    <3>1. SubstitutedFrom(tab, s)[K] = SubSeq(s, K, (n + 1) - 1) \o SubstitutedFrom(tab, s)[n + 1]
      <4>1. n + 1 \in 1..Len(s)+1 /\ K \in 1..n+1
        BY <1>0, <2>1, <2>2
      <4>2. \A h \in K..(n+1)-1 : ~Replaced(tab, s, h)
        <5>1. \A h \in K..(n+1)-1 : h \in K..n /\ h <= room
          BY <1>0, <2>2
        <5> QED
          BY <2>1, <5>1
      <4> HIDE DEF n
      <4> QED
        BY <4>1, <4>2, Stretch
    <3>2. SubstitutedFrom(tab, s)[n + 1] = <<>>
      BY SubstitutingEnds
    <3>3. (n + 1) - 1 = n
      BY <1>0
    <3>4. X \o <<>> = X
      <4> HIDE DEF X
      <4> QED
        BY <2>7, ConcatEmptySeq
    <3> QED
      BY <2>1, <3>1, <3>2, <3>3, <3>4
  <2>10. Len(SubSeq(last, 1, (Q - 1) + k)) <= n
    <3> DEFINE h == (Q - 1) + k
    <3>1. h \in Nat /\ h <= n /\ h <= room
      BY <1>0, <2>3
    <3> HIDE DEF h
    <3>2. \A x \in 1..h : last[x] \in Sign
      BY <2>5, <3>1
    <3>3. Len(SubSeq(last, 1, h)) = IF 1 <= h THEN (h - 1) + 1 ELSE 0
      BY <3>1, <3>2, Part
    <3>4. (IF 1 <= h THEN (h - 1) + 1 ELSE 0) = h
      BY <3>1
    <3> QED
      BY <3>1, <3>3, <3>4 DEF h
  <2> HIDE DEF k, W, X
  <2> QED
    BY <1>2, <1>3, <2>6, <2>8, <2>9, <2>10, Zenon DEF n
<1> QED
  BY <1>4, <1>5

---------------------------------------------------------------------------
(* Directives, and the lines that declare prefixes.                        *)

LEMMA FirstIs ==
  ASSUME NEW s \in Seq(Char), NEW c, NEW j \in Nat, First(s, c, j) # 0
  PROVE  /\ First(s, c, j) \in j..Len(s) /\ s[First(s, c, j)] = c
         /\ \A i \in j..First(s, c, j)-1 : s[i] # c
<1> DEFINE S == {i \in j..Len(s) : s[i] = c}
           m == First(s, c, j)
<1>0. Len(s) \in Nat
  BY LenProperties
<1>1. S # {} /\ m = Min(S)
  BY Zenon DEF First
<1>2. S \subseteq Nat
  BY <1>0
<1>3. Min(S) \in S /\ \A y \in S : Min(S) <= y
  <2> HIDE DEF S
  <2> QED
    BY <1>1, <1>2, MinOf
<1>4. m \in j..Len(s) /\ s[m] = c /\ \A y \in S : m <= y
  BY <1>1, <1>3
<1>5. ASSUME NEW i \in j..m-1 PROVE s[i] # c
  <2>1. i \in j..Len(s) /\ ~ (m <= i)
    BY <1>0, <1>4
  <2> QED
    BY <1>4, <2>1
<1> QED
  BY <1>4, <1>5

\* What add_prefix() takes out of a directive is a prefix, and shorter than it by the
\* @prefix, the colon and the brackets at least.
LEMMA BindingIs ==
  ASSUME NEW s \in Seq(Char), Declares(s)
  PROVE  /\ Binding(s) \in Prefix
         /\ Len(Binding(s).prfx) + Len(Binding(s).puri) + 4 <= Len(s)
<1> DEFINE c == Colon(s)
           o == Open(s)
           e == Close(s)
<1>0. Len(s) \in Nat /\ \A x \in 1..Len(s) : s[x] \in Char
  BY LenProperties, ElementOfSeq
<1>1. c \in 2..Len(s) /\ s[c] = ":"
  <2>1. First(s, ":", 2) # 0
    BY DEF Declares, Colon
  <2> QED
    BY <2>1, FirstIs DEF Colon
<1>2. o \in c..Len(s) /\ s[o] = "<"
  <2>1. First(s, "<", c) # 0 /\ c \in Nat
    BY <1>1 DEF Declares, Open
  <2> HIDE DEF c
  <2>2. First(s, "<", c) \in c..Len(s) /\ s[First(s, "<", c)] = "<"
    BY <2>1, FirstIs
  <2> QED
    BY <2>2 DEF Open, c
<1>3. e \in o..Len(s) /\ s[e] = ">" /\ \A i \in o..e-1 : s[i] # ">"
  <2>1. First(s, ">", o) # 0 /\ o \in Nat
    BY <1>1, <1>2 DEF Declares, Close
  <2> HIDE DEF o
  <2>2. /\ First(s, ">", o) \in o..Len(s) /\ s[First(s, ">", o)] = ">"
        /\ \A i \in o..First(s, ">", o)-1 : s[i] # ">"
    BY <2>1, FirstIs
  <2> QED
    BY <2>2 DEF Close, o
<1> HIDE DEF c, o, e
<1>4. c < o /\ o < e
  BY <1>1, <1>2, <1>3
<1>5. Binding(s) = [prfx |-> SubSeq(s, 2, c - 1), puri |-> SubSeq(s, o + 1, e - 1)]
  BY DEF Binding, c, o, e
<1>6. SubSeq(s, 2, c - 1) \in Seq(Char) /\ Len(SubSeq(s, 2, c - 1)) = c - 2
  <2>1. c - 1 \in Int /\ \A i \in 2..c-1 : s[i] \in Char
    BY <1>0, <1>1
  <2>2. /\ SubSeq(s, 2, c - 1) \in Seq(Char)
        /\ Len(SubSeq(s, 2, c - 1)) = IF 2 <= c - 1 THEN (c - 1) - 2 + 1 ELSE 0
    BY <2>1, SubSeqProperties
  <2> QED
    BY <1>1, <2>2
<1>7. /\ SubSeq(s, o + 1, e - 1) \in Seq(Char \ {">"})
      /\ Len(SubSeq(s, o + 1, e - 1)) = (e - o) - 1
  <2>1. /\ o + 1 \in Int /\ e - 1 \in Int
        /\ \A i \in o+1..e-1 : s[i] \in Char \ {">"}
    BY <1>0, <1>1, <1>2, <1>3
  <2>2. /\ SubSeq(s, o + 1, e - 1) \in Seq(Char \ {">"})
        /\ Len(SubSeq(s, o + 1, e - 1))
             = IF o + 1 <= e - 1 THEN (e - 1) - (o + 1) + 1 ELSE 0
    BY <2>1, SubSeqProperties
  <2> QED
    BY <1>1, <1>2, <1>3, <1>4, <2>2
<1>8. Binding(s) \in Prefix
  BY <1>5, <1>6, <1>7 DEF Prefix
<1>9. (c - 2) + ((e - o) - 1) + 4 <= Len(s)
  BY <1>0, <1>1, <1>2, <1>3, <1>4
<1> QED
  BY <1>5, <1>6, <1>7, <1>8, <1>9

LEMMA DeclarationIs ==
  ASSUME NEW b \in Prefix
  PROVE  /\ Declaration(b) \in Seq(Sign)
         /\ Len(Declaration(b)) = Len(b.prfx) + Len(b.puri) + 8
         /\ Len(b.prfx) \in Nat /\ Len(b.puri) \in Nat
<1> DEFINE A == <<"@prefix">>
           C == <<":", " ", "<">>
           E == <<">", " ", ".", "\n">>
<1>1. b.prfx \in Seq(Sign) /\ b.puri \in Seq(Sign)
  BY Uris
<1>2. A \in Seq(Sign) /\ C \in Seq(Sign) /\ E \in Seq(Sign)
  BY DEF Sign
<1>3. Len(A) = 1 /\ Len(C) = 3 /\ Len(E) = 4
  OBVIOUS
<1>4. Declaration(b) = (((A \o b.prfx) \o C) \o b.puri) \o E
  BY DEF Declaration
<1>5. Len(b.prfx) \in Nat /\ Len(b.puri) \in Nat
  BY <1>1, LenProperties
<1> HIDE DEF A, C, E
<1> DEFINE U == A \o b.prfx
           V == U \o C
           W == V \o b.puri
<1>6. U \in Seq(Sign) /\ Len(U) = Len(A) + Len(b.prfx)
  BY <1>1, <1>2, ConcatProperties
<1> HIDE DEF U
<1>7. V \in Seq(Sign) /\ Len(V) = Len(U) + Len(C)
  BY <1>2, <1>6, ConcatProperties
<1> HIDE DEF V
<1>8. W \in Seq(Sign) /\ Len(W) = Len(V) + Len(b.puri)
  <2> DEFINE q == b.puri
  <2>1. q \in Seq(Sign) /\ V \in Seq(Sign) /\ W = V \o q
    BY <1>1, <1>7
  <2> HIDE DEF W, q
  <2>2. V \o q \in Seq(Sign) /\ Len(V \o q) = Len(V) + Len(q)
    BY <2>1, ConcatProperties
  <2> QED
    BY <2>1, <2>2 DEF q
<1> HIDE DEF W
<1>9. W \o E \in Seq(Sign) /\ Len(W \o E) = Len(W) + Len(E)
  BY <1>2, <1>8, ConcatProperties
<1>10. Declaration(b) = W \o E
  BY <1>4 DEF U, V, W
<1>11. Len(W \o E) = Len(b.prfx) + Len(b.puri) + 8
  <2>1. Len(U) = 1 + Len(b.prfx)
    BY <1>3, <1>6
  <2>2. Len(V) = 4 + Len(b.prfx)
    BY <1>3, <1>5, <1>7, <2>1
  <2>3. Len(W) = 4 + Len(b.prfx) + Len(b.puri)
    BY <1>8, <2>2
  <2>4. Len(W \o E) = (4 + Len(b.prfx) + Len(b.puri)) + 4
    BY <1>3, <1>9, <2>3, Zenon
  <2>5. \A h, k \in Nat : (4 + h + k) + 4 = h + k + 8
    OBVIOUS
  <2> QED
    BY <1>5, <2>4, <2>5, Zenon
<1> QED
  BY <1>5, <1>9, <1>10, <1>11

\* The declarations of the default prefixes, one after the other.
LEMMA Taking ==
  LET n == Len(Defaults)
  IN  /\ n \in Nat /\ DefaultsTake[0] = 0
      /\ \A k \in 1..n : DefaultsTake[k] = DefaultsTake[k-1] + Len(Declaration(Defaults[k]))
<1> DEFINE n == Len(Defaults)
           step(f, j) == IF j = 0 THEN 0 ELSE f[j-1] + Len(Declaration(Defaults[j]))
           is(f, a)   == f = [j \in 0..a |-> step(f, j)]
           T          == {a \in 0..n : \E f : is(f, a)}
<1>0. n \in Nat
  BY TableAssumption, LenProperties
<1>1. 0 \in T
  <2> DEFINE f == [j \in 0..0 |-> 0]
  <2>1. is(f, 0)
    OBVIOUS
  <2> HIDE DEF is
  <2> QED
    BY <1>0, <2>1
<1>2. ASSUME NEW a \in 1..n, a - 1 \in T PROVE a \in T
  <2>1. PICK f : is(f, a - 1)
    BY <1>2
  <2> DEFINE g == [j \in 0..a |-> IF j = a THEN f[a-1] + Len(Declaration(Defaults[a])) ELSE f[j]]
  <2>2. \A j \in 0..a-1 : g[j] = f[j]
    BY <1>0
  <2>3. ASSUME NEW j \in 0..a PROVE g[j] = step(g, j)
    <3>1. CASE j = 0
      <4>1. f[0] = step(f, 0) /\ 0 \in 0..a-1
        BY <1>0, <2>1
      <4> QED
        BY <2>2, <3>1, <4>1
    <3>2. CASE j \in 1..a-1
      <4>1. f[j] = step(f, j) /\ j - 1 \in 0..a-1 /\ j \in 0..a-1
        BY <1>0, <2>1, <3>2
      <4>2. g[j - 1] = f[j - 1] /\ g[j] = f[j]
        BY <2>2, <4>1
      <4> HIDE DEF g
      <4> QED
        BY <3>2, <4>1, <4>2
    <3>3. CASE j = a
      <4>1. g[a - 1] = f[a - 1] /\ g[a] = f[a-1] + Len(Declaration(Defaults[a]))
        BY <1>0, <2>2
      <4> HIDE DEF g
      <4> QED
        BY <1>0, <3>3, <4>1
    <3> QED
      BY <1>0, <3>1, <3>2, <3>3
  <2>4. is(g, a)
    <3>1. g = [j \in 0..a |-> g[j]]
      OBVIOUS
    <3> HIDE DEF g, step
    <3> QED
      BY <2>3, <3>1
  <2> HIDE DEF is, g
  <2>5. a \in 0..n
    BY <1>0
  <2> QED
    BY <2>4, <2>5
<1>3. n \in T
  <2> HIDE DEF T, n
  <2>1. \A j \in 0..n : j \in T
    BY <1>0, <1>1, <1>2, SetInduction
  <2> QED
    BY <1>0, <2>1
<1>4. PICK f : is(f, n)
  BY <1>3
<1>5. is(DefaultsTake, n)
  BY <1>4 DEF DefaultsTake
<1> HIDE DEF step
<1>6. \A j \in 0..n : DefaultsTake[j] = step(DefaultsTake, j)
  BY <1>0, <1>5
<1> HIDE DEF n
<1>7. 0 \in 0..n /\ \A j \in 1..n : j \in 0..n /\ j # 0
  BY <1>0
<1> QED
  BY <1>0, <1>6, <1>7 DEF step, n

LEMMA DefaultsSize ==
  ASSUME NEW k \in 0..Len(Defaults)
  PROVE  /\ DefaultsTake[k] \in Nat /\ DefaultsTake[k] <= Buf0
         /\ k >= 1 => Len(Declaration(Defaults[k])) <= Buf0
<1> DEFINE n == Len(Defaults)
           D(j) == Len(Declaration(Defaults[j]))
<1>0. n \in Nat /\ Buf0 \in Nat
  BY Taking, RoundingAssumption
<1>1. \A j \in 1..n : D(j) \in Nat
  <2> SUFFICES ASSUME NEW j \in 1..n PROVE D(j) \in Nat
    OBVIOUS
  <2>1. Defaults[j] \in Prefix
    BY TableAssumption, ElementOfSeq
  <2>2. Declaration(Defaults[j]) \in Seq(Sign)
    BY <2>1, DeclarationIs
  <2> QED
    BY <2>2, LenProperties
<1> HIDE DEF D
<1>2. DefaultsTake[0] = 0 /\ \A j \in 1..n : DefaultsTake[j] = DefaultsTake[j-1] + D(j)
  BY Taking DEF D
<1> DEFINE U == {j \in 0..n : DefaultsTake[j] \in Nat}
<1>3. \A j \in 0..n : j \in U
  <2>1. 0 \in U
    BY <1>0, <1>2
  <2>2. \A j \in 1..n : j - 1 \in U => j \in U
    BY <1>0, <1>1, <1>2
  <2> HIDE DEF U, n
  <2> QED
    BY <1>0, <2>1, <2>2, SetInduction
<1>4. \A j \in 0..n : DefaultsTake[j] \in Nat
  BY <1>3
<1> DEFINE T == {i \in 0..n : DefaultsTake[n - i] <= DefaultsTake[n]}
<1>5. \A i \in 0..n : i \in T
  <2>1. 0 \in T
    <3>1. n - 0 = n /\ n \in 0..n /\ 0 \in 0..n
      BY <1>0
    <3>2. DefaultsTake[n] <= DefaultsTake[n]
      BY <1>4, <3>1
    <3> QED
      BY <3>1, <3>2
  <2>2. ASSUME NEW i \in 1..n, i - 1 \in T PROVE i \in T
    <3> DEFINE j == n - (i - 1)
    <3>1. j \in 1..n /\ j - 1 = n - i /\ i \in 0..n /\ j \in 0..n /\ j - 1 \in 0..n /\ n \in 0..n
      BY <1>0
    <3>2. DefaultsTake[j] = DefaultsTake[j-1] + D(j) /\ D(j) \in Nat
      BY <1>1, <1>2, <3>1
    <3>3. DefaultsTake[j] <= DefaultsTake[n]
      BY <2>2
    <3>4. DefaultsTake[j - 1] \in Nat /\ DefaultsTake[n] \in Nat /\ DefaultsTake[j] \in Nat
      BY <1>4, <3>1
    <3> HIDE DEF j
    <3>5. DefaultsTake[j - 1] <= DefaultsTake[n]
      BY <3>2, <3>3, <3>4
    <3> QED
      BY <3>1, <3>5
  <2> HIDE DEF T, n
  <2> QED
    BY <1>0, <2>1, <2>2, SetInduction
<1>6. \A j \in 0..n : DefaultsTake[j] <= Buf0
  <2> SUFFICES ASSUME NEW j \in 0..n PROVE DefaultsTake[j] <= Buf0
    OBVIOUS
  <2>1. n - j \in 0..n /\ n - (n - j) = j /\ n \in 0..n
    BY <1>0
  <2>2. DefaultsTake[j] <= DefaultsTake[n]
    <3>1. n - j \in T
      BY <1>5, <2>1
    <3> QED
      BY <2>1, <3>1
  <2>3. DefaultsTake[n] <= Buf0
    BY DefaultsFit
  <2> HIDE DEF n
  <2>4. DefaultsTake[j] \in Nat /\ DefaultsTake[n] \in Nat
    BY <1>4, <2>1
  <2> QED
    BY <1>0, <2>2, <2>3, <2>4
<1>7. k >= 1 => D(k) <= Buf0
  <2> SUFFICES ASSUME k >= 1 PROVE D(k) <= Buf0
    OBVIOUS
  <2>1. k \in 1..n /\ k - 1 \in 0..n /\ k \in 0..n
    BY <1>0
  <2>2. DefaultsTake[k] = DefaultsTake[k-1] + D(k) /\ D(k) \in Nat
    BY <1>1, <1>2, <2>1
  <2>3. DefaultsTake[k] <= Buf0 /\ DefaultsTake[k] \in Nat /\ DefaultsTake[k-1] \in Nat
    BY <1>4, <1>6, <2>1
  <2> QED
    BY <1>0, <2>2, <2>3
<1> QED
  BY <1>4, <1>6, <1>7 DEF D

---------------------------------------------------------------------------
(* The invariant: what the variables hold.                                 *)

ALine     == [no : Nat, text : Seq(Sign), tab : Seq(Prefix)]
Call1     == [stmt : Stmt, inp : Nat]
InCall    == pc \in {"push", "prefix", "room", "put"}

\* Lines that are about no later call than the n-th.
Lines(q, n) == q \in Seq(ALine) /\ \A k \in 1..Len(q) : q[k].no <= n

\* A table whose entries can be declared: a default one's declaration fits in the static
\* buffer, the others come from what was handed on.
IsTable(tab) ==
  /\ tab \in Seq(Prefix) /\ Len(tab) >= Len(Defaults)
  /\ \A i \in 1..Len(tab) : Len(Declaration(tab[i])) <= (Buf0 + 8) + Longest

TableTyped ==
  /\ IsTable(pres)
  /\ zpres \in Nat /\ zpres >= Pres0 /\ cap \in Nat /\ cap >= Pres0
  /\ pix \in Nat /\ prz \in Nat
  /\ pix <= Len(fed) * Longest
  /\ pc \in {"push", "prefix"} => pix <= (Len(fed) - 1) * Longest

BufferTyped ==
  /\ bix \in Nat /\ bsz \in Nat
  /\ pc = "put" => (bix + z) + 2 <= bsz
  /\ Lines(buf, Len(fed)) /\ Lines(out, Len(fed))

CallsTyped ==
  /\ fed \in Seq(Call1) /\ Len(fed) <= MaxCalls
  /\ InCall => Len(fed) >= 1
  /\ inp \in 1..MaxInputs
  /\ lost \subseteq 1..Len(fed) /\ gone \subseteq 0..Len(fed)
  /\ stdout \in BOOLEAN /\ pi \in Nat
  /\ pc = "push" => pi \in 1..Len(pres)+1
  /\ pc \in {"idle", "push", "prefix", "room", "put", "done", "wild_pres", "wild_buf"}

TypeInv == TableTyped /\ BufferTyped /\ CallsTyped

LEMMA Times ==
  ASSUME NEW f \in Nat, NEW l \in Nat
  PROVE  /\ f * l \in Nat
         /\ f >= 1 => (f - 1) * l + l = f * l
         /\ \A m \in Nat : f <= m => f * l <= m * l
<1>1. f * l \in Nat /\ (f - 1) * l + l = f * l
  OBVIOUS
<1>2. ASSUME NEW m \in Nat, f <= m PROVE f * l <= m * l
  <2>1. m - f \in Nat /\ m = f + (m - f)
    BY <1>2
  <2>2. \A d \in Nat : (f + d) * l = f * l + d * l /\ d * l \in Nat /\ d * l >= 0
    OBVIOUS
  <2>3. m * l = f * l + (m - f) * l /\ (m - f) * l \in Nat /\ (m - f) * l >= 0
    BY <2>1, <2>2
  <2> QED
    BY <1>1, <2>3
<1> QED
  BY <1>1, <1>2

\* The sizes that are asked for are among those that next_2pow() is right for.
LEMMA Sizes ==
  /\ \A x \in Nat : x <= (Buf0 + 8) + Longest => NewSize(x) \in Nat /\ x <= NewSize(x)
  /\ \A x \in Nat : x <= MaxCalls * Longest => NewSize(x) \in Nat /\ x <= NewSize(x)
<1> DEFINE L == Longest
           M == MaxCalls * L
<1>0. Buf0 \in Nat /\ L \in Nat /\ MaxCalls \in Nat
  BY BoundsAssumption, RoundingAssumption
<1>1. M \in Nat /\ (MaxCalls + 1) * L = M + L
  BY <1>0
<1>2. \A x \in 0..(Buf0 + 8) + (MaxCalls + 1) * L : NewSize(x) \in Nat /\ x <= NewSize(x)
  BY RoundingAssumption
<1> HIDE DEF L, M
<1>3. \A x \in Nat : x <= (Buf0 + 8) + L \/ x <= M => x \in 0..(Buf0 + 8) + (M + L)
  BY <1>0, <1>1
<1> QED
  BY <1>1, <1>2, <1>3 DEF L, M

LEMMA Statement ==
  ASSUME NEW s \in Stmt
  PROVE  s \in Seq(Char) /\ Len(s) \in Nat /\ Len(s) >= 1 /\ Len(s) <= Longest
  BY StmtAssumption, LenProperties, BoundsAssumption

\* The statement of a call under way.
LEMMA Current ==
  ASSUME CallsTyped, Len(fed) >= 1
  PROVE  /\ cur \in Stmt /\ cur \in Seq(Char) /\ Len(fed) \in 1..MaxCalls /\ fed[Len(fed)] \in Call1
         /\ z \in Nat /\ z >= 1 /\ z <= Longest
<1>1. Len(fed) \in Nat /\ Len(fed) \in 1..MaxCalls
  BY LenProperties, BoundsAssumption DEF CallsTyped
<1>2. fed[Len(fed)] \in Call1
  <2>1. fed \in Seq(Call1) /\ Len(fed) \in 1..Len(fed)
    BY <1>1 DEF CallsTyped
  <2> QED
    BY <2>1, ElementOfSeq
<1>3. cur \in Stmt
  BY <1>2 DEF Call1, cur
<1> QED
  BY <1>1, <1>2, <1>3, Statement DEF z

LEMMA DefaultsTable == IsTable(Defaults)
<1>1. Defaults \in Seq(Prefix) /\ Len(Defaults) \in Nat
  BY TableAssumption, LenProperties
<1>2. ASSUME NEW i \in 1..Len(Defaults)
      PROVE  Len(Declaration(Defaults[i])) <= (Buf0 + 8) + Longest
  <2>1. i \in 0..Len(Defaults) /\ i >= 1
    BY <1>1
  <2>2. Len(Declaration(Defaults[i])) <= Buf0
    BY <2>1, DefaultsSize
  <2>3. Defaults[i] \in Prefix
    BY <1>1, ElementOfSeq
  <2>4. Declaration(Defaults[i]) \in Seq(Sign)
    BY <2>3, DeclarationIs
  <2>5. Len(Declaration(Defaults[i])) \in Nat
    BY <2>4, LenProperties
  <2>6. Buf0 \in Nat /\ Longest \in Nat
    BY RoundingAssumption, BoundsAssumption
  <2> QED
    BY <2>2, <2>5, <2>6
<1> QED
  BY <1>1, <1>2 DEF IsTable

LEMMA GrownTable ==
  ASSUME NEW tab, IsTable(tab), NEW s \in Stmt, Declares(s)
  PROVE  IsTable(Append(tab, Binding(s))) /\ Len(Append(tab, Binding(s))) = Len(tab) + 1
<1> DEFINE b == Binding(s)
           t == Append(tab, b)
<1>1. b \in Prefix /\ Len(b.prfx) + Len(b.puri) + 4 <= Len(s)
  BY Statement, BindingIs
<1>2. /\ Len(Declaration(b)) = Len(b.prfx) + Len(b.puri) + 8
      /\ Len(b.prfx) \in Nat /\ Len(b.puri) \in Nat
  BY <1>1, DeclarationIs
<1> HIDE DEF b
<1>3. Len(Declaration(b)) <= (Buf0 + 8) + Longest
  <2>1. Len(s) \in Nat /\ Len(s) <= Longest /\ Longest \in Nat /\ Buf0 \in Nat
    BY Statement, RoundingAssumption, BoundsAssumption
  <2>2. \A g, h, l, m, n \in Nat : g + h + 4 <= l /\ l <= m => g + h + 8 <= (n + 8) + m
    OBVIOUS
  <2> QED
    BY <1>1, <1>2, <2>1, <2>2, Zenon
<1>4. tab \in Seq(Prefix) /\ Len(tab) \in Nat /\ Len(tab) >= Len(Defaults) /\ Len(Defaults) \in Nat
  BY LenProperties, TableAssumption DEF IsTable
<1>5. /\ t \in Seq(Prefix) /\ Len(t) = Len(tab) + 1
      /\ \A i \in 1..Len(tab) : t[i] = tab[i]
      /\ t[Len(tab) + 1] = b
  BY <1>1, <1>4, AppendProperties
<1> HIDE DEF t
<1>6. ASSUME NEW i \in 1..Len(t) PROVE Len(Declaration(t[i])) <= (Buf0 + 8) + Longest
  <2>1. CASE i \in 1..Len(tab)
    BY <1>5, <2>1 DEF IsTable
  <2>2. CASE i = Len(tab) + 1
    BY <1>3, <1>5, <2>2
  <2> QED
    BY <1>4, <1>5, <2>1, <2>2
<1>7. Len(t) >= Len(Defaults)
  BY <1>4, <1>5
<1> QED
  BY <1>5, <1>6, <1>7 DEF IsTable, t, b

LEMMA NoLines ==
  ASSUME NEW n \in Nat
  PROVE  Lines(<<>>, n)
  BY EmptySeq DEF Lines

LEMMA MoreLines ==
  ASSUME NEW n \in Nat, NEW q, Lines(q, n), NEW m \in Nat, n <= m
  PROVE  Lines(q, m)
<1>1. ASSUME NEW k \in 1..Len(q) PROVE q[k].no <= m
  <2>1. q[k] \in ALine
    BY ElementOfSeq DEF Lines
  <2>2. q[k].no \in Nat /\ q[k].no <= n
    BY <2>1 DEF Lines, ALine
  <2> QED
    BY <2>2
<1> QED
  BY <1>1 DEF Lines

LEMMA OneMoreLine ==
  ASSUME NEW n \in Nat, NEW q, Lines(q, n), NEW l \in ALine, l.no <= n
  PROVE  /\ Lines(Append(q, l), n) /\ Len(q) \in Nat /\ Len(Append(q, l)) = Len(q) + 1
         /\ \A k \in 1..Len(q) : Append(q, l)[k] = q[k]
         /\ Append(q, l)[Len(q) + 1] = l
<1>1. q \in Seq(ALine) /\ Len(q) \in Nat
  BY LenProperties DEF Lines
<1>2. /\ Append(q, l) \in Seq(ALine) /\ Len(Append(q, l)) = Len(q) + 1
      /\ \A k \in 1..Len(q) : Append(q, l)[k] = q[k]
      /\ Append(q, l)[Len(q) + 1] = l
  BY <1>1, AppendProperties
<1>3. ASSUME NEW k \in 1..Len(q)+1 PROVE Append(q, l)[k].no <= n
  <2>1. CASE k \in 1..Len(q)
    BY <1>2, <2>1 DEF Lines
  <2>2. CASE k = Len(q) + 1
    BY <1>2, <2>2
  <2> QED
    BY <1>1, <2>1, <2>2
<1> QED
  BY <1>1, <1>2, <1>3 DEF Lines

LEMMA FirstLines ==
  ASSUME NEW n \in Nat, NEW q, Lines(q, n), NEW k \in 0..Len(q)
  PROVE  /\ Lines(SubSeq(q, 1, k), n) /\ Len(SubSeq(q, 1, k)) = k
         /\ \A i \in 1..k : SubSeq(q, 1, k)[i] = q[i]
<1>1. q \in Seq(ALine) /\ Len(q) \in Nat /\ \A i \in 1..Len(q) : q[i] \in ALine
  BY LenProperties, ElementOfSeq DEF Lines
<1>2. k \in Int /\ \A i \in 1..k : q[i] \in ALine
  BY <1>1
<1>3. /\ SubSeq(q, 1, k) \in Seq(ALine)
      /\ Len(SubSeq(q, 1, k)) = IF 1 <= k THEN k - 1 + 1 ELSE 0
      /\ \A i \in 1..k-1+1 : SubSeq(q, 1, k)[i] = q[1 + i - 1]
  BY <1>2, SubSeqProperties
<1>4. /\ (IF 1 <= k THEN k - 1 + 1 ELSE 0) = k
      /\ \A i \in 1..k : i \in 1..k-1+1 /\ 1 + i - 1 = i /\ i \in 1..Len(q)
  BY <1>1
<1>5. \A i \in 1..k : SubSeq(q, 1, k)[i] = q[i]
  BY <1>3, <1>4
<1>6. Len(SubSeq(q, 1, k)) = k
  BY <1>3, <1>4
<1>7. \A i \in 1..k : SubSeq(q, 1, k)[i].no <= n
  BY <1>4, <1>5 DEF Lines
<1> QED
  BY <1>3, <1>5, <1>6, <1>7 DEF Lines

LEMMA LinesAndLines ==
  ASSUME NEW n \in Nat, NEW p, Lines(p, n), NEW q, Lines(q, n)
  PROVE  /\ Lines(p \o q, n) /\ Len(p) \in Nat /\ Len(q) \in Nat /\ Len(p \o q) = Len(p) + Len(q)
         /\ \A k \in 1..Len(p)+Len(q) :
              (p \o q)[k] = IF k <= Len(p) THEN p[k] ELSE q[k - Len(p)]
<1>1. p \in Seq(ALine) /\ q \in Seq(ALine) /\ Len(p) \in Nat /\ Len(q) \in Nat
  BY LenProperties DEF Lines
<1>2. /\ p \o q \in Seq(ALine) /\ Len(p \o q) = Len(p) + Len(q)
      /\ \A k \in 1..Len(p)+Len(q) :
           (p \o q)[k] = IF k <= Len(p) THEN p[k] ELSE q[k - Len(p)]
  BY <1>1, ConcatProperties
<1>3. ASSUME NEW k \in 1..Len(p)+Len(q) PROVE (p \o q)[k].no <= n
  <2>1. CASE k <= Len(p)
    <3>1. k \in 1..Len(p) /\ (p \o q)[k] = p[k]
      BY <1>1, <1>2, <2>1
    <3> QED
      BY <3>1 DEF Lines
  <2>2. CASE ~ (k <= Len(p))
    <3>1. k - Len(p) \in 1..Len(q) /\ (p \o q)[k] = q[k - Len(p)]
      BY <1>1, <1>2, <2>2
    <3> QED
      BY <3>1 DEF Lines
  <2> QED
    BY <2>1, <2>2
<1> QED
  BY <1>1, <1>2, <1>3 DEF Lines

LEMMA LenFed == CallsTyped => Len(fed) \in Nat
  BY LenProperties DEF CallsTyped

LEMMA TypeInit == Init => TypeInv
<1> SUFFICES ASSUME Init PROVE TypeInv
  OBVIOUS
<1>1. Len(fed) = 0 /\ fed \in Seq(Call1)
  BY EmptySeq DEF Init
<1>2. Longest \in Nat /\ Prb0 \in Nat /\ Buf0 \in Nat /\ MaxCalls \in Nat /\ Pres0 \in Nat
  BY TableAssumption, BoundsAssumption, RoundingAssumption
<1>3. TableTyped
  <2>1. IsTable(pres)
    BY DefaultsTable DEF Init
  <2>2. pix <= 0 * Longest
    BY <1>2 DEF Init
  <2> QED
    BY <1>1, <1>2, <2>1, <2>2 DEF TableTyped, Init
<1>4. BufferTyped
  <2>1. Lines(buf, 0) /\ Lines(out, 0)
    BY NoLines DEF Init
  <2> QED
    BY <1>1, <1>2, <2>1 DEF BufferTyped, Init
<1>5. CallsTyped
  <2>1. inp \in 1..MaxInputs
    BY BoundsAssumption DEF Init
  <2> QED
    BY <1>1, <1>2, <2>1 DEF CallsTyped, InCall, Init
<1> QED
  BY <1>3, <1>4, <1>5 DEF TypeInv

\* The declaration of an entry of the table, and its line.
LEMMA Entry ==
  ASSUME TypeInv, pc = "push", pi <= Len(pres)
  PROVE  /\ pi \in 1..Len(pres) /\ Len(pres) \in Nat
         /\ adz \in Nat /\ adz <= (Buf0 + 8) + Longest
         /\ [no |-> 0, text |-> Declaration(pres[pi]), tab |-> <<>>] \in ALine
<1>1. pres \in Seq(Prefix) /\ Len(pres) \in Nat
  BY LenProperties DEF TypeInv, TableTyped, IsTable
<1>2. pi \in 1..Len(pres)
  BY <1>1 DEF TypeInv, CallsTyped
<1>3. Declaration(pres[pi]) \in Seq(Sign)
  <2>1. pres[pi] \in Prefix
    BY <1>1, <1>2, ElementOfSeq
  <2> QED
    BY <2>1, DeclarationIs
<1>4. adz \in Nat
  BY <1>3, LenProperties DEF adz
<1>5. adz <= (Buf0 + 8) + Longest
  BY <1>2 DEF TypeInv, TableTyped, IsTable, adz
<1>6. <<>> \in Seq(Prefix)
  BY EmptySeq
<1> QED
  BY <1>1, <1>2, <1>3, <1>4, <1>5, <1>6 DEF ALine

LEMMA TypePushed ==
  ASSUME TypeInv, NEW size \in Nat, pc = "push", pi <= Len(pres), Pushed(size)
  PROVE  TypeInv'
<1> DEFINE l == [no |-> 0, text |-> Declaration(pres[pi]), tab |-> <<>>]
           n == Len(fed)
<1>1. l \in ALine /\ adz \in Nat /\ pi \in 1..Len(pres) /\ Len(pres) \in Nat
  BY Entry
<1>2. n \in Nat
  BY LenFed DEF TypeInv
<1>3. /\ pc' \in {"push", "wild_buf"} /\ bix' = bix + adz /\ bsz' = size /\ buf' = Append(buf, l)
      /\ pi' = pi + 1 /\ UNCHANGED <<pres, zpres, cap, pix, prz, out, fed, inp, lost, gone, stdout>>
  BY DEF Pushed, table, calls, history
<1>4. TableTyped'
  BY <1>3 DEF TypeInv, TableTyped
<1>5. BufferTyped'
  <2>1. Lines(buf, n) /\ l.no <= n
    BY <1>2 DEF TypeInv, BufferTyped
  <2> HIDE DEF n, l
  <2>2. Lines(Append(buf, l), n)
    BY <1>1, <1>2, <2>1, OneMoreLine
  <2>3. bix' \in Nat /\ bsz' \in Nat
    BY <1>1, <1>3 DEF TypeInv, BufferTyped
  <2>4. Lines(buf', Len(fed')) /\ Lines(out', Len(fed'))
    BY <1>3, <2>2 DEF TypeInv, BufferTyped, n
  <2> QED
    BY <1>3, <2>3, <2>4 DEF BufferTyped
<1>6. CallsTyped'
  <2>1. pi' \in 1..Len(pres')+1
    BY <1>1, <1>3
  <2> QED
    BY <1>1, <1>3, <2>1 DEF TypeInv, CallsTyped, InCall
<1> QED
  BY <1>4, <1>5, <1>6 DEF TypeInv

\* What a call leaves behind that is given up.
LEMMA Dropped ==
  ASSUME CallsTyped, InCall
  PROVE  lost \cup {Len(fed)} \subseteq 1..Len(fed)
<1>1. lost \subseteq 1..Len(fed) /\ Len(fed) >= 1 /\ Len(fed) \in Nat
  BY LenFed DEF CallsTyped, InCall
<1>2. Len(fed) \in 1..Len(fed)
  BY <1>1
<1> QED
  BY <1>1, <1>2

\* wr_buf() writes lines of the buffer.
LEMMA Flushed ==
  ASSUME BufferTyped, CallsTyped, WrBuf
  PROVE  Lines(out', Len(fed)) /\ gone' \subseteq 0..Len(fed)
<1> DEFINE n == Len(fed)
<1>1. PICK k \in 0..Len(buf) :
        out' = out \o SubSeq(buf, 1, k) /\ gone' = gone \cup {buf[i].no : i \in k+1..Len(buf)}
  BY DEF WrBuf
<1>2. n \in Nat /\ Lines(buf, n) /\ Lines(out, n)
  BY LenFed DEF BufferTyped
<1> HIDE DEF n
<1>3. Lines(SubSeq(buf, 1, k), n)
  BY <1>2, FirstLines
<1>4. Lines(out \o SubSeq(buf, 1, k), n)
  <2> DEFINE q == SubSeq(buf, 1, k)
  <2> HIDE DEF q
  <2>1. Lines(q, n)
    BY <1>3 DEF q
  <2>2. Lines(out \o q, n)
    BY <1>2, <2>1, LinesAndLines
  <2> QED
    BY <2>2 DEF q
<1>5. buf \in Seq(ALine) /\ Len(buf) \in Nat
  BY <1>2, LenProperties DEF Lines
<1>6. ASSUME NEW i \in k+1..Len(buf) PROVE buf[i].no \in 0..n
  <2>1. i \in 1..Len(buf)
    BY <1>5
  <2>2. buf[i] \in ALine /\ buf[i].no <= n
    BY <1>2, <1>5, <2>1, ElementOfSeq DEF Lines
  <2> QED
    BY <1>2, <2>2 DEF ALine
<1> QED
  BY <1>1, <1>4, <1>6 DEF CallsTyped, n

\* Room for the name and the URI.
LEMMA Bytes ==
  ASSUME TypeInv, NewPrefix
  PROVE  /\ bytes \in Nat /\ bytes <= Len(fed) * Longest
         /\ (IF PrbFits THEN prz ELSE NewSize(bytes)) \in Nat
         /\ bytes <= (IF PrbFits THEN prz ELSE NewSize(bytes))
<1> DEFINE b == Binding(cur)
           n == Len(fed)
<1>1. Declares(cur) /\ n >= 1 /\ pix <= (n - 1) * Longest /\ pix \in Nat /\ prz \in Nat
  BY DEF TypeInv, TableTyped, CallsTyped, NewPrefix, InCall
<1>2. cur \in Seq(Char) /\ n \in 1..MaxCalls /\ Len(cur) <= Longest /\ Len(cur) \in Nat
  BY <1>1, Current DEF TypeInv, z
<1> HIDE DEF n
<1>3. b \in Prefix /\ Len(b.prfx) + Len(b.puri) + 4 <= Len(cur)
  BY <1>1, <1>2, BindingIs
<1>4. Len(b.prfx) \in Nat /\ Len(b.puri) \in Nat
  BY <1>3, DeclarationIs
<1>5. bytes = pix + Len(b.prfx) + Len(b.puri)
  BY DEF bytes
<1>6. Longest \in Nat /\ MaxCalls \in Nat /\ n \in Nat /\ n >= 1 /\ n <= MaxCalls
  BY <1>2, BoundsAssumption
<1>7. (n - 1) * Longest + Longest = n * Longest /\ n * Longest <= MaxCalls * Longest
      /\ n * Longest \in Nat /\ MaxCalls * Longest \in Nat /\ (n - 1) * Longest \in Nat
  <2>1. n - 1 \in Nat
    BY <1>6
  <2> QED
    BY <1>6, <2>1, Times
<1>8. \A p, g, h, l, m, t, u \in Nat : p <= t /\ g + h + 4 <= l /\ l <= m /\ t + m = u
        => p + g + h \in Nat /\ p + g + h <= u
  OBVIOUS
<1>9. bytes \in Nat /\ bytes <= n * Longest
  <2> DEFINE g == Len(b.prfx)
             h == Len(b.puri)
             t == (n - 1) * Longest
             u == n * Longest
  <2>1. pix \in Nat /\ g \in Nat /\ h \in Nat /\ Len(cur) \in Nat /\ t \in Nat /\ u \in Nat
    BY <1>1, <1>2, <1>4, <1>7
  <2>2. pix <= t /\ g + h + 4 <= Len(cur) /\ Len(cur) <= Longest /\ t + Longest = u
    BY <1>1, <1>2, <1>3, <1>7, Zenon
  <2>3. bytes = pix + g + h
    BY <1>5
  <2> HIDE DEF g, h, t, u
  <2>4. pix + g + h \in Nat /\ pix + g + h <= u
    BY <1>6, <1>8, <2>1, <2>2, Zenon
  <2> QED
    BY <2>3, <2>4 DEF u
<1>10. bytes <= MaxCalls * Longest
  <2>1. \A p, u, v \in Nat : p <= u /\ u <= v => p <= v
    OBVIOUS
  <2> QED
    BY <1>7, <1>9, <2>1, Zenon
<1>11. NewSize(bytes) \in Nat /\ bytes <= NewSize(bytes)
  BY <1>9, <1>10, Sizes, Zenon
<1> QED
  BY <1>1, <1>9, <1>11 DEF n, PrbFits

LEMMA TypeCall ==
  ASSUME TypeInv, NEW s \in Stmt, Call(s)
  PROVE  TypeInv'
<1> DEFINE n == Len(fed)
           f == [stmt |-> s, inp |-> inp]
<1>0. n \in Nat /\ MaxCalls \in Nat /\ Longest \in Nat
  BY LenFed, BoundsAssumption DEF TypeInv
<1>1. /\ pc = "idle" /\ n < MaxCalls /\ fed' = Append(fed, f) /\ pi' = 1
      /\ pc' \in {"push", "prefix"}
      /\ UNCHANGED <<pres, zpres, cap, pix, prz, buf, bix, bsz, stdout, out, inp, lost, gone>>
  BY DEF Call, table, buffer, history
<1>2. f \in Call1 /\ fed \in Seq(Call1)
  BY BoundsAssumption DEF TypeInv, CallsTyped, Call1
<1>3. fed' \in Seq(Call1) /\ Len(fed') = n + 1
  <2> HIDE DEF f
  <2>1. Append(fed, f) \in Seq(Call1) /\ Len(Append(fed, f)) = Len(fed) + 1
    BY <1>2, AppendProperties
  <2> QED
    BY <1>1, <2>1
<1> HIDE DEF f
<1>4. TableTyped'
  <2>1. pix' <= Len(fed') * Longest /\ pix' <= (Len(fed') - 1) * Longest
    <3>1. n * Longest <= (n + 1) * Longest /\ n * Longest \in Nat /\ (n + 1) * Longest \in Nat
      BY <1>0, Times
    <3>2. pix <= n * Longest /\ pix \in Nat
      BY DEF TypeInv, TableTyped
    <3>3. pix <= (n + 1) * Longest
      <4>1. \A p, u, v \in Nat : p <= u /\ u <= v => p <= v
        OBVIOUS
      <4> QED
        BY <3>1, <3>2, <4>1, Zenon
    <3>4. (n + 1) - 1 = n
      BY <1>0
    <3> QED
      BY <1>1, <1>3, <3>2, <3>3, <3>4
  <2>2. TableTyped
    BY DEF TypeInv
  <2> QED
    BY <1>1, <2>1, <2>2 DEF TableTyped
<1>5. BufferTyped'
  <2>1. Lines(buf, n) /\ Lines(out, n) /\ n + 1 \in Nat /\ n <= n + 1
    BY <1>0 DEF TypeInv, BufferTyped
  <2>2. Lines(buf, n + 1) /\ Lines(out, n + 1)
    <3> HIDE DEF n
    <3> QED
      BY <1>0, <2>1, MoreLines
  <2> QED
    BY <1>1, <1>3, <2>2 DEF TypeInv, BufferTyped
<1>6. CallsTyped'
  <2>1. pi' \in 1..Len(pres')+1
    <3>1. Len(pres) \in Nat
      BY LenProperties DEF TypeInv, TableTyped, IsTable
    <3> QED
      BY <1>1, <3>1
  <2>2. Len(fed') <= MaxCalls /\ Len(fed') >= 1
    BY <1>0, <1>1, <1>3
  <2>3. lost' \subseteq 1..Len(fed') /\ gone' \subseteq 0..Len(fed')
    <3>1. 1..n \subseteq 1..n+1 /\ 0..n \subseteq 0..n+1
      BY <1>0
    <3>2. lost \subseteq 1..n /\ gone \subseteq 0..n
      BY DEF TypeInv, CallsTyped
    <3> HIDE DEF n
    <3> QED
      BY <1>1, <1>3, <3>1, <3>2
  <2> QED
    BY <1>1, <1>3, <2>1, <2>2, <2>3 DEF TypeInv, CallsTyped
<1> QED
  BY <1>4, <1>5, <1>6 DEF TypeInv

\* An entry is added to the table.
LEMMA TypeAdded ==
  ASSUME TypeInv, AddPrefix
  PROVE  TypeInv'
<1> DEFINE b == Binding(cur)
           n == Len(fed)
<1>1. /\ pc = "prefix" /\ Declares(cur)
      /\ pc' \in {"room", "wild_pres"}
      /\ prz' = (IF PrbFits THEN prz ELSE NewSize(bytes))
      /\ pres' = Append(pres, b) /\ pix' = bytes
      /\ (zpres' = zpres /\ cap' = cap) \/ (zpres' = 2 * zpres /\ cap' = 2 * zpres)
      /\ UNCHANGED <<buf, bix, bsz, stdout, out, pi, fed, inp, lost, gone>>
  BY DEF AddPrefix, Add, NewPrefix, buffer, calls, history
<1>2. /\ bytes \in Nat /\ bytes <= n * Longest
      /\ prz' \in Nat
  BY <1>1, Bytes DEF AddPrefix, Add
<1>3. n >= 1 /\ n \in Nat
  BY <1>1, LenFed DEF TypeInv, CallsTyped, InCall
<1>4. IsTable(pres')
  <2>1. cur \in Stmt /\ IsTable(pres)
    BY <1>3, Current DEF TypeInv, TableTyped
  <2>2. IsTable(Append(pres, Binding(cur)))
    BY <1>1, <2>1, GrownTable
  <2>3. IsTable(Append(pres, b)) /\ pres' = Append(pres, b)
    BY <1>1, <2>2
  <2> HIDE DEF b
  <2>4. \A t : t = Append(pres, b) => IsTable(t)
    BY <2>3
  <2> QED
    BY <2>3, <2>4 DEF IsTable
<1>5. zpres' \in Nat /\ zpres' >= Pres0 /\ cap' \in Nat /\ cap' >= Pres0
  <2>1. zpres \in Nat /\ zpres >= Pres0 /\ cap \in Nat /\ cap >= Pres0 /\ Pres0 \in Nat
    BY TableAssumption DEF TypeInv, TableTyped
  <2> QED
    BY <1>1, <2>1
<1>6. TableTyped'
  BY <1>1, <1>2, <1>4, <1>5 DEF TableTyped
<1>7. BufferTyped'
  BY <1>1 DEF TypeInv, BufferTyped
<1>8. CallsTyped'
  BY <1>1 DEF TypeInv, CallsTyped, InCall
<1> QED
  BY <1>6, <1>7, <1>8 DEF TypeInv

\* The buffer is written, and has room for the statement or the call is given up.
LEMMA TypeFlush ==
  ASSUME TypeInv, Flush \/ FlushFails
  PROVE  TypeInv'
<1>1. /\ pc = "room" /\ WrBuf /\ buf' = <<>> /\ bix' = 0
      /\ UNCHANGED <<pres, zpres, cap, pix, prz, stdout, pi, fed, inp>>
  BY DEF Flush, FlushFails, table, calls
<1>2. InCall /\ Len(fed) >= 1 /\ Len(fed) \in Nat
  BY <1>1, LenFed DEF InCall, TypeInv, CallsTyped
<1>3. Lines(out', Len(fed)) /\ gone' \subseteq 0..Len(fed)
  BY <1>1, Flushed DEF TypeInv
<1>4. pc' \in {"idle", "put"} /\ lost' \subseteq 1..Len(fed)
  BY <1>2, Dropped DEF Flush, FlushFails, Drop, TypeInv, CallsTyped
<1>5. bsz' \in Nat /\ (pc' = "put" => z + 2 <= bsz')
  <2>1. z \in Nat /\ z <= Longest /\ bsz \in Nat
    BY <1>2, Current DEF TypeInv, BufferTyped
  <2>2. NewSize(z + 2) \in Nat /\ z + 2 <= NewSize(z + 2)
    <3>1. z + 2 \in Nat /\ z + 2 <= (Buf0 + 8) + Longest
      BY <2>1, RoundingAssumption, BoundsAssumption
    <3> QED
      BY <3>1, Sizes, Zenon
  <2> QED
    BY <2>1, <2>2 DEF Flush, FlushFails, Drop
<1>6. TableTyped'
  BY <1>1, <1>4 DEF TypeInv, TableTyped
<1>7. BufferTyped'
  <2>1. Lines(buf', Len(fed')) /\ Lines(out', Len(fed'))
    BY <1>1, <1>2, <1>3, NoLines
  <2>2. z' = z /\ z \in Nat
    BY <1>1, <1>2, Current DEF z, cur, TypeInv
  <2> QED
    BY <1>1, <1>5, <2>1, <2>2 DEF BufferTyped
<1>8. CallsTyped'
  BY <1>1, <1>2, <1>3, <1>4 DEF TypeInv, CallsTyped, InCall
<1> QED
  BY <1>6, <1>7, <1>8 DEF TypeInv

LEMMA Newline == <<"\n">> \in Seq(Sign) /\ Len(<<"\n">>) = 1
  BY DEF Sign

LEMMA TypePutDirective ==
  ASSUME TypeInv, PutDirective
  PROVE  TypeInv'
<1> DEFINE l == Line(cur \o <<"\n">>)
           n == Len(fed)
<1>1. /\ pc = "put" /\ pc' = "idle" /\ buf' = Append(buf, l) /\ bix' = bix + z + 1
      /\ UNCHANGED <<pres, zpres, cap, pix, prz, bsz, stdout, out, pi, fed, inp, lost, gone>>
  BY DEF PutDirective, table, calls, history
<1>2. /\ n >= 1 /\ n \in Nat /\ cur \in Seq(Char) /\ z \in Nat
  BY <1>1, LenFed, Current DEF TypeInv, CallsTyped, InCall
<1>3. l \in ALine /\ l.no <= n
  <2>1. cur \in Seq(Sign) /\ <<"\n">> \in Seq(Sign)
    BY <1>2, Texts, Newline
  <2>2. cur \o <<"\n">> \in Seq(Sign)
    <3> DEFINE e == <<"\n">>
    <3> HIDE DEF e
    <3>1. cur \o e \in Seq(Sign)
      BY <2>1, ConcatProperties DEF e
    <3> QED
      BY <3>1 DEF e
  <2>3. pres \in Seq(Prefix)
    BY DEF TypeInv, TableTyped, IsTable
  <2> QED
    BY <1>2, <2>2, <2>3 DEF Line, ALine
<1> HIDE DEF l
<1>4. TableTyped'
  BY <1>1 DEF TypeInv, TableTyped
<1>5. BufferTyped'
  <2>1. Lines(buf, n) /\ Lines(out, n) /\ bix \in Nat /\ bsz \in Nat
    BY DEF TypeInv, BufferTyped
  <2>2. Lines(Append(buf, l), n)
    <3> HIDE DEF n
    <3> QED
      BY <1>2, <1>3, <2>1, OneMoreLine
  <2> QED
    BY <1>1, <1>2, <2>1, <2>2 DEF BufferTyped
<1>6. CallsTyped'
  BY <1>1 DEF TypeInv, CallsTyped, InCall
<1> QED
  BY <1>4, <1>5, <1>6 DEF TypeInv

\* What is left of the buffer for a statement.
LEMMA Room ==
  ASSUME TypeInv, pc = "put"
  PROVE  /\ (bsz - bix) - 1 \in Nat /\ Len(cur) \in Nat /\ Len(cur) < (bsz - bix) - 1
         /\ bix \in Nat /\ cur \in Stmt /\ cur \in Seq(Char) /\ pres \in Seq(Prefix)
         /\ Len(fed) >= 1 /\ Len(fed) \in Nat
<1>1. Len(fed) >= 1 /\ Len(fed) \in Nat /\ CallsTyped
  BY LenFed DEF TypeInv, CallsTyped, InCall
<1>2. cur \in Stmt /\ cur \in Seq(Char) /\ z \in Nat
  BY <1>1, Current
<1>3. bix \in Nat /\ bsz \in Nat /\ (bix + z) + 2 <= bsz /\ pres \in Seq(Prefix)
  BY DEF TypeInv, BufferTyped, TableTyped, IsTable
<1>4. \A b, s, l \in Nat : (b + l) + 2 <= s => (s - b) - 1 \in Nat /\ l < (s - b) - 1
  OBVIOUS
<1>5. (bsz - bix) - 1 \in Nat /\ z < (bsz - bix) - 1
  BY <1>2, <1>3, <1>4, Zenon
<1> QED
  BY <1>1, <1>2, <1>3, <1>5 DEF z

\* The line that PutStmt puts in the buffer.
LEMMA StmtLine ==
  ASSUME TypeInv, PutStmt
  PROVE  LET s == subst(pres, cur, (bsz - bix) - 1)
             l == Line(<<"\n">> \o s.text \o <<"\n">>)
         IN  /\ l \in ALine /\ l.no = Len(fed) /\ l.tab = pres
             /\ buf' = Append(buf, l) /\ bix' = bix + Len(s.text) + 2 /\ Len(s.text) \in Nat
             /\ pc = "put" /\ pc' = (IF s.far THEN "wild_buf" ELSE "idle")
             /\ UNCHANGED <<pres, zpres, cap, pix, prz, bsz, stdout, out, pi, fed, inp, lost, gone>>
<1> DEFINE s == subst(pres, cur, (bsz - bix) - 1)
           l == Line(<<"\n">> \o s.text \o <<"\n">>)
           e == <<"\n">>
<1>0. pc = "put"
  BY DEF PutStmt
<1>1. /\ (bsz - bix) - 1 \in Nat /\ Len(cur) \in Nat /\ Len(cur) < (bsz - bix) - 1
      /\ bix \in Nat /\ cur \in Seq(Char) /\ pres \in Seq(Prefix)
      /\ Len(fed) \in Nat
  BY <1>0, Room
<1>2. bsz - bix - 1 = (bsz - bix) - 1
  BY <1>1, <1>0 DEF TypeInv, BufferTyped
<1>3. s.text \in Seq(Sign) /\ Len(s.text) \in Nat
  <2> DEFINE room == (bsz - bix) - 1
  <2>1. room \in Nat /\ Len(cur) <= room
    BY <1>1
  <2> HIDE DEF room
  <2>2. subst(pres, cur, room).text \in Seq(Sign)
    BY <1>1, <2>1, SubstText
  <2> QED
    BY <2>2, LenProperties DEF room
<1>4. /\ buf' = Append(buf, l) /\ bix' = bix + Len(s.text) + 2
      /\ pc = "put" /\ pc' = (IF s.far THEN "wild_buf" ELSE "idle")
      /\ UNCHANGED <<pres, zpres, cap, pix, prz, bsz, stdout, out, pi, fed, inp, lost, gone>>
  BY <1>2 DEF PutStmt, table, calls, history
<1>5. l \in ALine /\ l.no = Len(fed) /\ l.tab = pres
  <2> HIDE DEF s
  <2> DEFINE t == s.text
  <2>1. e \in Seq(Sign) /\ t \in Seq(Sign)
    BY <1>3, Newline
  <2> HIDE DEF e, t
  <2>2. e \o t \in Seq(Sign)
    BY <2>1, ConcatProperties
  <2> DEFINE v == e \o t
  <2> HIDE DEF v
  <2>3. v \o e \in Seq(Sign)
    BY <2>1, <2>2, ConcatProperties DEF v
  <2>4. l = [no |-> Len(fed), text |-> v \o e, tab |-> pres]
    BY DEF Line, v, e, t
  <2> DEFINE w == v \o e
  <2> HIDE DEF l, w
  <2>5. l = [no |-> Len(fed), text |-> w, tab |-> pres] /\ w \in Seq(Sign)
    BY <2>3, <2>4 DEF w
  <2> QED
    BY <1>1, <2>5 DEF ALine
<1> QED
  BY <1>3, <1>4, <1>5

LEMMA TypePutStmt ==
  ASSUME TypeInv, PutStmt
  PROVE  TypeInv'
<1> DEFINE s == subst(pres, cur, (bsz - bix) - 1)
           l == Line(<<"\n">> \o s.text \o <<"\n">>)
           n == Len(fed)
<1>1. /\ l \in ALine /\ l.no = n
      /\ buf' = Append(buf, l) /\ bix' = bix + Len(s.text) + 2 /\ Len(s.text) \in Nat
      /\ pc = "put" /\ pc' \in {"idle", "wild_buf"}
      /\ UNCHANGED <<pres, zpres, cap, pix, prz, bsz, stdout, out, pi, fed, inp, lost, gone>>
  BY StmtLine
<1>2. n \in Nat /\ n <= n /\ bix \in Nat
  BY LenFed DEF TypeInv, BufferTyped
<1> HIDE DEF l, s
<1>3. TableTyped'
  BY <1>1 DEF TypeInv, TableTyped
<1>4. BufferTyped'
  <2>1. Lines(buf, n) /\ Lines(out, n)
    BY DEF TypeInv, BufferTyped
  <2>2. Lines(Append(buf, l), n)
    <3> HIDE DEF n
    <3> QED
      BY <1>1, <1>2, <2>1, OneMoreLine
  <2>3. bix' \in Nat /\ bsz' \in Nat
    BY <1>1, <1>2 DEF TypeInv, BufferTyped
  <2> QED
    BY <1>1, <2>1, <2>2, <2>3 DEF BufferTyped
<1>5. CallsTyped'
  BY <1>1 DEF TypeInv, CallsTyped, InCall
<1> QED
  BY <1>3, <1>4, <1>5 DEF TypeInv

LEMMA InputsEnd ==
  ASSUME inp \in 1..MaxInputs, NextInput, pc = "idle"
  PROVE  inp' \in 1..MaxInputs /\ pc' \in {"idle", "done"} /\ inp' >= inp
  BY BoundsAssumption DEF NextInput

LEMMA TypeFini ==
  ASSUME TypeInv, FiniStmt
  PROVE  TypeInv'
<1>1. /\ pc = "idle" /\ WrBuf /\ stdout' = FALSE
      /\ buf' = <<>> /\ bix' = 0 /\ bsz' = Buf0
      /\ pres' = Defaults /\ cap' = Pres0 /\ prz' = Prb0 /\ NextInput
      /\ UNCHANGED <<zpres, pix, pi, fed, lost>>
  BY DEF FiniStmt
<1>2. inp' \in 1..MaxInputs /\ pc' \in {"idle", "done"}
  BY <1>1, InputsEnd DEF TypeInv, CallsTyped
<1>3. Lines(out', Len(fed)) /\ gone' \subseteq 0..Len(fed) /\ Len(fed) \in Nat
  BY <1>1, Flushed, LenFed DEF TypeInv
<1>4. TableTyped'
  <2>1. IsTable(pres')
    BY <1>1, DefaultsTable DEF IsTable
  <2>2. Prb0 \in Nat /\ Pres0 \in Nat
    BY TableAssumption, RoundingAssumption
  <2> QED
    BY <1>1, <1>2, <2>1, <2>2 DEF TypeInv, TableTyped
<1>5. BufferTyped'
  <2>1. Lines(buf', Len(fed')) /\ Lines(out', Len(fed'))
    BY <1>1, <1>3, NoLines
  <2> QED
    BY <1>1, <1>2, <2>1, RoundingAssumption DEF BufferTyped
<1>6. CallsTyped'
  BY <1>1, <1>2, <1>3 DEF TypeInv, CallsTyped, InCall
<1> QED
  BY <1>4, <1>5, <1>6 DEF TypeInv

LEMMA TypeGiveUp ==
  ASSUME TypeInv, GiveUp
  PROVE  TypeInv'
<1>1. /\ pc = "idle" /\ NextInput
      /\ gone' = (IF inp < MaxInputs THEN gone ELSE gone \cup {buf[i].no : i \in DOMAIN buf})
      /\ UNCHANGED <<pres, zpres, cap, pix, prz, buf, bix, bsz, stdout, out, pi, fed, lost>>
  BY DEF GiveUp, table, buffer
<1>2. inp' \in 1..MaxInputs /\ pc' \in {"idle", "done"}
  BY <1>1, InputsEnd DEF TypeInv, CallsTyped
<1>3. Len(fed) \in Nat /\ Lines(buf, Len(fed))
  BY LenFed DEF TypeInv, BufferTyped
<1>4. gone' \subseteq 0..Len(fed)
  <2>1. buf \in Seq(ALine) /\ DOMAIN buf = 1..Len(buf)
    BY <1>3, LenProperties DEF Lines
  <2>2. ASSUME NEW i \in DOMAIN buf PROVE buf[i].no \in 0..Len(fed)
    <3>1. buf[i] \in ALine /\ buf[i].no <= Len(fed)
      BY <1>3, <2>1, ElementOfSeq DEF Lines
    <3> QED
      BY <1>3, <3>1 DEF ALine
  <2>3. gone \subseteq 0..Len(fed)
    BY DEF TypeInv, CallsTyped
  <2> QED
    BY <1>1, <2>2, <2>3
<1>5. TableTyped'
  BY <1>1, <1>2 DEF TypeInv, TableTyped
<1>6. BufferTyped'
  BY <1>1, <1>2 DEF TypeInv, BufferTyped
<1>7. CallsTyped'
  BY <1>1, <1>2, <1>4 DEF TypeInv, CallsTyped, InCall
<1> QED
  BY <1>5, <1>6, <1>7 DEF TypeInv

\* The actions that change no more than where the call is.
Onward ==
  /\ UNCHANGED <<pres, zpres, cap, pix, buf, bix, bsz, stdout, out, fed, inp, gone>>
  /\ pi' \in {pi, 1}
  /\ \/ pc = "push" /\ pc' = "prefix"
     \/ pc \in {"push", "prefix"} /\ pc' \in {"idle", "room"}
     \/ pc = "room" /\ pc' = "put" /\ Fits
  /\ \/ prz' = prz
     \/ NewPrefix /\ prz' = IF PrbFits THEN prz ELSE NewSize(bytes)
  /\ lost' \subseteq lost \cup {Len(fed)}

LEMMA OnwardActions ==
  PushFails \/ AllPushed \/ NoPrefix \/ KnownPrefix \/ PrbFails \/ PresFails \/ HasRoom => Onward
<1>1. PushFails \/ AllPushed => Onward
  BY DEF PushFails, AllPushed, Drop, Onward, table, buffer, calls, history
<1>2. NoPrefix \/ KnownPrefix => Onward
  BY DEF NoPrefix, KnownPrefix, Onward, table, buffer, calls, history
<1>3. PrbFails \/ PresFails => Onward
  BY DEF PrbFails, PresFails, NewPrefix, Onward, table, buffer, calls, history
<1>4. HasRoom => Onward
  BY DEF HasRoom, Onward, table, buffer, calls, history
<1> QED
  BY <1>1, <1>2, <1>3, <1>4

LEMMA TypeOnward ==
  ASSUME TypeInv, Onward
  PROVE  TypeInv'
<1>1. /\ UNCHANGED <<pres, zpres, cap, pix, buf, bix, bsz, stdout, out, fed, inp, gone>>
      /\ pi' \in {pi, 1} /\ pc \in {"push", "prefix", "room"}
      /\ pc' \in {"idle", "prefix", "room", "put"} /\ (pc' = "prefix" => pc = "push")
      /\ (pc' = "put" => Fits)
      /\ lost' \subseteq lost \cup {Len(fed)}
  BY DEF Onward
<1>2. Len(fed) >= 1 /\ Len(fed) \in Nat
  BY <1>1, LenFed DEF TypeInv, CallsTyped, InCall
<1>3. prz' \in Nat
  <2>1. CASE NewPrefix
    BY <2>1, Bytes DEF Onward, TypeInv, TableTyped
  <2>2. CASE ~NewPrefix
    BY <2>2 DEF Onward, TypeInv, TableTyped
  <2> QED
    BY <2>1, <2>2
<1>4. TableTyped'
  BY <1>1, <1>3 DEF TypeInv, TableTyped
<1>5. BufferTyped'
  <2>1. z' = z /\ z \in Nat
    BY <1>1, <1>2, Current DEF z, cur, TypeInv
  <2>2. Fits => (bix + z) + 2 <= bsz
    BY <2>1 DEF Fits, TypeInv, BufferTyped
  <2> QED
    BY <1>1, <2>1, <2>2 DEF TypeInv, BufferTyped
<1>6. CallsTyped'
  <2>1. lost' \subseteq 1..Len(fed)
    BY <1>1, <1>2, Dropped DEF TypeInv, InCall
  <2> QED
    BY <1>1, <1>2, <2>1 DEF TypeInv, CallsTyped, InCall
<1> QED
  BY <1>4, <1>5, <1>6 DEF TypeInv

LEMMA TypePush ==
  ASSUME TypeInv, Push \/ PushGrow
  PROVE  TypeInv'
<1>1. pc = "push" /\ pi <= Len(pres) /\ bsz \in Nat
  BY DEF Push, PushGrow, TypeInv, BufferTyped
<1>2. CASE Push
  BY <1>1, <1>2, TypePushed DEF Push
<1>3. CASE PushGrow
  <2>1. NewSize(adz) \in Nat
    BY <1>1, Entry, Sizes, Zenon
  <2> QED
    BY <1>1, <1>3, <2>1, TypePushed DEF PushGrow
<1> QED
  BY <1>2, <1>3

LEMMA Idle ==
  ASSUME TypeInv, UNCHANGED vars
  PROVE  TypeInv'
<1>1. UNCHANGED <<pres, zpres, cap, pix, prz, buf, bix, bsz, stdout, out, pi, pc, fed, inp, lost, gone>>
  BY DEF vars, table, buffer, calls, history
<1>2. TableTyped'
  BY <1>1 DEF TypeInv, TableTyped
<1>3. BufferTyped'
  BY <1>1 DEF TypeInv, BufferTyped, z, cur
<1>4. CallsTyped'
  BY <1>1 DEF TypeInv, CallsTyped, InCall
<1> QED
  BY <1>2, <1>3, <1>4 DEF TypeInv

LEMMA TypeStep == TypeInv /\ [Next]_vars => TypeInv'
<1> SUFFICES ASSUME TypeInv, [Next]_vars PROVE TypeInv'
  OBVIOUS
<1>1. CASE \E s \in Stmt : Call(s)
  BY <1>1, TypeCall
<1>2. CASE Push \/ PushGrow
  BY <1>2, TypePush
<1>3. CASE PushFails \/ AllPushed \/ NoPrefix \/ KnownPrefix \/ PrbFails \/ PresFails \/ HasRoom
  BY <1>3, OnwardActions, TypeOnward
<1>4. CASE AddPrefix
  BY <1>4, TypeAdded
<1>5. CASE Flush \/ FlushFails
  BY <1>5, TypeFlush
<1>6. CASE PutDirective
  BY <1>6, TypePutDirective
<1>7. CASE PutStmt
  BY <1>7, TypePutStmt
<1>8. CASE FiniStmt
  BY <1>8, TypeFini
<1>9. CASE GiveUp
  BY <1>9, TypeGiveUp
<1>10. CASE Halted \/ UNCHANGED vars
  BY <1>10, Idle DEF Halted
<1> QED
  BY <1>1, <1>2, <1>3, <1>4, <1>5, <1>6, <1>7, <1>8, <1>9, <1>10 DEF Next

LEMMA Typed == Spec => []TypeInv
<1> QED
  BY TypeInit, TypeStep, PTL DEF Spec

\* The variables hold what they are meant to, and the sizes that are asked for stay
\* within what next_2pow() is right for, whatever fails.
THEOREM TypeCorrect == Spec => []TypeOK
<1>1. TypeInv => TypeOK
  <2> SUFFICES ASSUME TypeInv PROVE TypeOK
    OBVIOUS
  <2>1. DOMAIN fed = 1..Len(fed) /\ Len(fed) \in Nat
    BY LenProperties DEF TypeInv, CallsTyped
  <2>2. gone \subseteq {0} \cup DOMAIN fed
    BY <2>1 DEF TypeInv, CallsTyped
  <2> QED
    BY <2>1, <2>2 DEF TypeInv, TableTyped, IsTable, BufferTyped, CallsTyped, TypeOK
<1> QED
  BY <1>1, Typed, PTL

---------------------------------------------------------------------------
(* Where it writes.                                                        *)

\* How the sizes that are believed in relate to the real ones; and as long as no call
\* has been given up, an empty buffer goes with the default prefixes alone, for which
\* there is room.
BoundsInv ==
  /\ cap <= zpres
  /\ inp = 1 /\ pc # "done" => cap = zpres
  /\ pc # "wild_pres" => Len(pres) <= cap
  /\ lost = {} => bsz >= Buf0
  /\ lost = {} /\ pc \in {"idle", "prefix"} /\ bix = 0 => pres = Defaults
  /\ lost = {} /\ pc = "push" => pres = Defaults /\ bix = DefaultsTake[pi - 1]
  /\ WritesInBounds

LEMMA BoundsInit == Init => BoundsInv
  BY TableAssumption, RoundingAssumption DEF Init, BoundsInv, WritesInBounds

LEMMA Numbers ==
  ASSUME TypeInv
  PROVE  /\ cap \in Nat /\ zpres \in Nat /\ zpres >= 1 /\ Len(pres) \in Nat /\ bix \in Nat
         /\ bsz \in Nat /\ inp \in 1..MaxInputs /\ Buf0 \in Nat /\ Pres0 \in Nat /\ Pres0 >= 1
         /\ Len(Defaults) \in Nat /\ Len(Defaults) <= Pres0 /\ zpres >= Pres0
<1>1. Pres0 \in Nat /\ Pres0 >= 1 /\ Buf0 \in Nat
  BY TableAssumption, RoundingAssumption
<1>2. Len(pres) \in Nat /\ Len(Defaults) \in Nat /\ Len(Defaults) <= Pres0
  BY TableAssumption, LenProperties DEF TypeInv, TableTyped, IsTable
<1> QED
  BY <1>1, <1>2 DEF TypeInv, TableTyped, BufferTyped, CallsTyped

\* The default prefixes fit in the static buffer, one after the other.
LEMMA BoundsPush ==
  ASSUME TypeInv, BoundsInv, Push \/ PushGrow
  PROVE  BoundsInv'
<1>1. /\ pc = "push" /\ pi <= Len(pres) /\ bix' = bix + adz /\ pi' = pi + 1
      /\ UNCHANGED <<pres, zpres, cap, inp, lost>>
      /\ pc' = (IF bix + adz <= bsz' THEN pc ELSE "wild_buf")
  BY DEF Push, PushGrow, Pushed, table, calls, history
<1>2. /\ pi \in 1..Len(pres) /\ adz \in Nat
  BY <1>1, Entry
<1>3. ASSUME lost = {}
      PROVE  /\ pres = Defaults /\ bix + adz <= bsz /\ bsz >= Buf0 /\ pi \in Nat
             /\ bix + adz = DefaultsTake[pi]
  <2>1. pres = Defaults /\ bix = DefaultsTake[pi - 1] /\ bsz >= Buf0
    BY <1>1, <1>3 DEF BoundsInv
  <2>2. pi \in 1..Len(Defaults) /\ pi \in 0..Len(Defaults) /\ Len(Defaults) \in Nat
    BY <1>2, <2>1, Taking
  <2>3. adz = Len(Declaration(Defaults[pi]))
    BY <2>1 DEF adz
  <2>4. DefaultsTake[pi] = bix + adz
    BY <2>1, <2>2, <2>3, Taking
  <2>5. DefaultsTake[pi] \in Nat /\ DefaultsTake[pi] <= Buf0
    BY <2>2, DefaultsSize
  <2>6. bix + adz <= bsz
    BY <2>1, <2>4, <2>5, Numbers
  <2> QED
    BY <2>1, <2>2, <2>4, <2>6
<1>4. lost = {} => bsz' = bsz
  BY <1>2, <1>3, Numbers DEF Push, PushGrow, Pushed
<1>5. lost = {} => pc' = "push"
  BY <1>1, <1>3, <1>4
<1>6. (pi + 1) - 1 = pi
  BY <1>2
<1>7. lost' = {} /\ pc' = "push" => pres' = Defaults /\ bix' = DefaultsTake[pi' - 1]
  BY <1>1, <1>3, <1>6
<1>8. WritesInBounds'
  BY <1>1, <1>5 DEF WritesInBounds
<1>9. pc # "wild_pres" /\ pc # "done" /\ pc' \in {"push", "wild_buf"}
  BY <1>1
<1> QED
  BY <1>1, <1>3, <1>4, <1>7, <1>8, <1>9 DEF BoundsInv

\* The table is grown when it is full, or believed to have room that it has not.
LEMMA BoundsAdd ==
  ASSUME TypeInv, BoundsInv, AddPrefix
  PROVE  BoundsInv'
<1> DEFINE n == Len(pres)
<1>1. /\ pc = "prefix"
      /\ IF n < zpres THEN zpres' = zpres /\ cap' = cap
                      ELSE zpres' = 2 * zpres /\ cap' = 2 * zpres
      /\ pc' = (IF n < cap' THEN "room" ELSE "wild_pres")
      /\ pres' = Append(pres, Binding(cur))
      /\ UNCHANGED <<bix, bsz, inp, lost>>
  BY DEF AddPrefix, Add, NewPrefix, buffer, calls, history
<1>2. Len(pres') = n + 1
  <2>1. Len(fed) >= 1 /\ Declares(cur) /\ IsTable(pres)
    BY <1>1 DEF TypeInv, TableTyped, CallsTyped, InCall, AddPrefix, Add, NewPrefix
  <2>2. cur \in Stmt
    BY <2>1, Current DEF TypeInv
  <2>3. Len(Append(pres, Binding(cur))) = Len(pres) + 1
    BY <2>1, <2>2, GrownTable
  <2> QED
    BY <1>1, <2>3
<1>3. n \in Nat /\ cap \in Nat /\ zpres \in Nat /\ zpres >= 1 /\ inp \in Nat /\ inp >= 1
  BY Numbers
<1>4. n <= cap /\ cap <= zpres /\ (inp = 1 => cap = zpres) /\ (lost = {} => bsz >= Buf0)
  BY <1>1 DEF BoundsInv
<1> HIDE DEF n
<1>5. cap' <= zpres' /\ (inp = 1 => cap' = zpres')
  BY <1>1, <1>3, <1>4
<1>6. pc' # "wild_pres" => n + 1 <= cap'
  BY <1>1, <1>3
<1>7. pc' = "wild_pres" => inp > 1 /\ zpres' > cap'
  BY <1>1, <1>3, <1>4
<1>8. WritesInBounds'
  BY <1>1, <1>7 DEF WritesInBounds
<1>9. pc' \in {"room", "wild_pres"}
  BY <1>1
<1> QED
  BY <1>1, <1>2, <1>4, <1>5, <1>6, <1>8, <1>9 DEF BoundsInv

LEMMA BoundsFlush ==
  ASSUME TypeInv, BoundsInv, Flush \/ FlushFails
  PROVE  BoundsInv'
<1>1. pc = "room" /\ UNCHANGED <<pres, zpres, cap, inp>>
  BY DEF Flush, FlushFails, table, calls
<1>2. Len(fed) >= 1
  BY <1>1 DEF TypeInv, CallsTyped, InCall
<1>3. CASE Flush
  <2>1. pc' = "put" /\ lost' = lost /\ bsz' = (IF z + 2 <= bsz THEN bsz ELSE NewSize(z + 2))
    BY <1>3 DEF Flush
  <2>2. z \in Nat /\ z <= Longest
    BY <1>2, Current DEF TypeInv
  <2>3. NewSize(z + 2) \in Nat /\ z + 2 <= NewSize(z + 2)
    <3>1. z + 2 \in Nat /\ z + 2 <= (Buf0 + 8) + Longest
      BY <2>2, RoundingAssumption, BoundsAssumption
    <3> QED
      BY <3>1, Sizes, Zenon
  <2>4. bsz >= Buf0 => bsz' >= Buf0
    BY <2>1, <2>2, <2>3, Numbers
  <2> QED
    BY <1>1, <2>1, <2>4 DEF BoundsInv, WritesInBounds
<1>4. CASE FlushFails
  <2>1. pc' = "idle" /\ lost' # {}
    BY <1>4 DEF FlushFails, Drop
  <2> QED
    BY <1>1, <2>1 DEF BoundsInv, WritesInBounds
<1> QED
  BY <1>3, <1>4

\* A statement is substituted in what is left of the buffer.
LEMMA BoundsPut ==
  ASSUME TypeInv, BoundsInv, PutDirective \/ PutStmt
  PROVE  BoundsInv'
<1>1. pc = "put" /\ UNCHANGED <<pres, zpres, cap, bsz, inp, lost>>
  BY DEF PutDirective, PutStmt, table, calls, history
<1>2. bix' # 0
  <2>1. CASE PutDirective
    <3>1. Len(fed) >= 1 /\ bix \in Nat
      BY <1>1, Numbers DEF TypeInv, CallsTyped, InCall
    <3>2. z \in Nat
      BY <3>1, Current DEF TypeInv
    <3> QED
      BY <2>1, <3>1, <3>2 DEF PutDirective
  <2>2. CASE PutStmt
    <3> DEFINE k == Len(subst(pres, cur, (bsz - bix) - 1).text)
    <3>1. bix' = bix + k + 2 /\ k \in Nat
      BY <2>2, StmtLine
    <3> HIDE DEF k
    <3> QED
      BY <3>1, Numbers
  <2> QED
    BY <2>1, <2>2
<1>3. pc' \in {"idle", "wild_buf"} /\ (pc' = "wild_buf" => ~Short(pres))
  <2>1. CASE PutDirective
    BY <2>1 DEF PutDirective
  <2>2. CASE PutStmt
    <3> DEFINE room == (bsz - bix) - 1
               s == subst(pres, cur, room)
    <3>1. pc' = (IF s.far THEN "wild_buf" ELSE "idle")
      BY <2>2, StmtLine
    <3>2. Short(pres) => ~s.far
      <4>1. room \in Nat /\ Len(cur) < room /\ cur \in Seq(Char) /\ pres \in Seq(Prefix)
        BY <1>1, Room
      <4> HIDE DEF room
      <4> QED
        BY <4>1, SubstitutesInPlace
    <3> HIDE DEF s
    <3> QED
      BY <3>1, <3>2
  <2> QED
    BY <2>1, <2>2
<1>4. Short(pres)' = Short(pres)
  BY <1>1 DEF Short
<1>5. WritesInBounds'
  BY <1>3, <1>4 DEF WritesInBounds
<1>6. bix' = 0 <=> FALSE
  BY <1>2
<1> QED
  BY <1>1, <1>3, <1>5, <1>6 DEF BoundsInv

LEMMA BoundsFini ==
  ASSUME TypeInv, BoundsInv, FiniStmt \/ GiveUp
  PROVE  BoundsInv'
<1>1. pc = "idle" /\ NextInput /\ UNCHANGED <<zpres, lost>>
  BY DEF FiniStmt, GiveUp, table
<1>2. pc' \in {"idle", "done"} /\ (inp' # 1 \/ pc' = "done")
  BY <1>1, Numbers DEF NextInput
<1>3. WritesInBounds'
  BY <1>2 DEF WritesInBounds
<1>4. CASE FiniStmt
  <2>1. pres' = Defaults /\ cap' = Pres0 /\ bsz' = Buf0
    BY <1>4 DEF FiniStmt
  <2> QED
    BY <1>1, <1>2, <1>3, <2>1, Numbers DEF BoundsInv
<1>5. CASE GiveUp
  <2>1. UNCHANGED <<pres, cap, bsz, bix>>
    BY <1>5 DEF GiveUp, table, buffer
  <2> QED
    BY <1>1, <1>2, <1>3, <2>1 DEF BoundsInv
<1> QED
  BY <1>4, <1>5

LEMMA BoundsOnward ==
  ASSUME TypeInv, BoundsInv, PushFails \/ AllPushed \/ NoPrefix \/ KnownPrefix \/ PrbFails \/ PresFails \/ HasRoom
  PROVE  BoundsInv'
<1>1. Onward
  BY OnwardActions
<1>2. UNCHANGED <<pres, zpres, cap, bix, bsz, inp>>
      /\ pc \in {"push", "prefix", "room"} /\ pc' \in {"idle", "prefix", "room", "put"}
  BY <1>1 DEF Onward
<1>3. WritesInBounds'
  BY <1>2 DEF WritesInBounds
<1>4. lost' = {} => lost = {}
  BY DEF PushFails, AllPushed, NoPrefix, KnownPrefix, PrbFails, PresFails, HasRoom, Drop, history
<1>5. lost' = {} /\ pc' \in {"idle", "prefix"} /\ bix' = 0 => pres' = Defaults
  <2>1. lost' = {} /\ pc' \in {"idle", "prefix"} => pc \in {"push", "prefix"}
    BY DEF PushFails, AllPushed, NoPrefix, KnownPrefix, PrbFails, PresFails, HasRoom, NewPrefix
  <2> QED
    BY <1>2, <1>4, <2>1 DEF BoundsInv
<1> QED
  BY <1>2, <1>3, <1>4, <1>5 DEF BoundsInv

LEMMA BoundsStep == TypeInv /\ BoundsInv /\ [Next]_vars => BoundsInv'
<1> SUFFICES ASSUME TypeInv, BoundsInv, [Next]_vars PROVE BoundsInv'
  OBVIOUS
<1>1. CASE \E s \in Stmt : Call(s)
  <2>1. /\ pc = "idle" /\ pi' = 1 /\ pc' = (IF bix = 0 THEN "push" ELSE "prefix")
        /\ UNCHANGED <<pres, zpres, cap, bix, bsz, inp, lost>>
    BY <1>1 DEF Call, table, buffer, history
  <2>2. DefaultsTake[1 - 1] = 0
    BY Taking
  <2>3. WritesInBounds'
    BY <2>1 DEF WritesInBounds
  <2> QED
    BY <2>1, <2>2, <2>3 DEF BoundsInv
<1>2. CASE Push \/ PushGrow
  BY <1>2, BoundsPush
<1>3. CASE PushFails \/ AllPushed \/ NoPrefix \/ KnownPrefix \/ PrbFails \/ PresFails \/ HasRoom
  BY <1>3, BoundsOnward
<1>4. CASE AddPrefix
  BY <1>4, BoundsAdd
<1>5. CASE Flush \/ FlushFails
  BY <1>5, BoundsFlush
<1>6. CASE PutDirective \/ PutStmt
  BY <1>6, BoundsPut
<1>7. CASE FiniStmt \/ GiveUp
  BY <1>7, BoundsFini
<1>8. CASE Halted \/ UNCHANGED vars
  <2>1. UNCHANGED <<pres, zpres, cap, bix, bsz, pi, pc, inp, lost>>
    BY <1>8 DEF Halted, vars, table, buffer, calls, history
  <2>2. WritesInBounds'
    BY <2>1 DEF BoundsInv, WritesInBounds, Short
  <2> QED
    BY <2>1, <2>2 DEF BoundsInv
<1> QED
  BY <1>1, <1>2, <1>3, <1>4, <1>5, <1>6, <1>7, <1>8 DEF Next

\* During the first input the table is never written past its end, and the buffer never
\* as long as no call has been given up and every known prefix is short
\* (ttl-prefixify.c:212, :282-301, :355-417).
THEOREM StaysInBounds == Spec => []WritesInBounds
<1>1. Init => TypeInv /\ BoundsInv
  BY TypeInit, BoundsInit
<1>2. (TypeInv /\ BoundsInv) /\ [Next]_vars => (TypeInv /\ BoundsInv)'
  BY TypeStep, BoundsStep
<1>3. BoundsInv => WritesInBounds
  BY DEF BoundsInv
<1> QED
  BY <1>1, <1>2, <1>3, PTL DEF Spec

---------------------------------------------------------------------------
(* The lines and the statements that they are about.                       *)

OtherSteps ==
  \/ PushFails \/ AllPushed \/ NoPrefix \/ KnownPrefix \/ AddPrefix \/ PrbFails \/ PresFails
  \/ HasRoom

LEMMA OtherLeaves ==
  OtherSteps => UNCHANGED <<buf, out, fed, gone>>
<1>1. AddPrefix => UNCHANGED <<buf, out, fed, gone>>
  BY DEF AddPrefix, Add, buffer, calls, history
<1> QED
  BY <1>1, OnwardActions DEF OtherSteps, Onward

\* A line is about the statement of one call, whatever is called later.
LEMMA SameStmt ==
  ASSUME TypeInv, [Next]_vars, NEW l \in ALine, l.no <= Len(fed)
  PROVE  /\ IsStmt(l)' = IsStmt(l)
         /\ IsStmt(l) => StmtOf(l)' = StmtOf(l)
<1> DEFINE n == l.no
<1>0. n \in Nat /\ n <= Len(fed) /\ Len(fed) \in Nat /\ fed \in Seq(Call1)
  BY LenFed DEF ALine, TypeInv, CallsTyped
<1>1. n # 0 => fed'[n] = fed[n]
  <2>1. CASE \E s \in Stmt : Call(s)
    <3>1. PICK s \in Stmt : Call(s)
      BY <2>1
    <3> DEFINE f == [stmt |-> s, inp |-> inp]
    <3>2. fed' = Append(fed, f) /\ f \in Call1
      BY <3>1 DEF Call, TypeInv, CallsTyped, Call1
    <3> HIDE DEF f, n
    <3>3. \A k \in 1..Len(fed) : Append(fed, f)[k] = fed[k]
      BY <1>0, <3>2, AppendProperties
    <3> QED
      BY <1>0, <3>2, <3>3
  <2>2. CASE OtherSteps
    BY <2>2, OtherLeaves
  <2>3. CASE Push \/ PushGrow
    BY <2>3 DEF Push, PushGrow, Pushed, calls
  <2>4. CASE Flush \/ FlushFails
    BY <2>4 DEF Flush, FlushFails, calls
  <2>5. CASE PutDirective \/ PutStmt
    BY <2>5 DEF PutDirective, PutStmt, calls
  <2>6. CASE FiniStmt \/ GiveUp
    BY <2>6 DEF FiniStmt, GiveUp
  <2>7. CASE Halted \/ UNCHANGED vars
    BY <2>7 DEF Halted, vars, calls
  <2> QED
    BY <2>1, <2>2, <2>3, <2>4, <2>5, <2>6, <2>7 DEF Next, OtherSteps
<1> QED
  BY <1>1 DEF IsStmt, StmtOf

\* What InPlaceExact says of one line.
Exact(l) ==
  IsStmt(l) /\ Short(l.tab) /\ Closed(StmtOf(l))
    => l.text = <<"\n">> \o Substituted(l.tab, StmtOf(l)) \o <<"\n">>

LEMMA ExactStays ==
  ASSUME TypeInv, [Next]_vars, NEW l \in ALine, l.no <= Len(fed), Exact(l)
  PROVE  Exact(l)'
<1>1. IsStmt(l)' = IsStmt(l) /\ (IsStmt(l) => StmtOf(l)' = StmtOf(l))
  BY SameStmt
<1> DEFINE is == IsStmt(l)
<1>2. CASE is
  BY <1>1, <1>2 DEF Exact
<1>3. CASE ~is
  BY <1>1, <1>3 DEF Exact
<1> QED
  BY <1>2, <1>3

LEMMA ExactLine ==
  ASSUME TypeInv, [Next]_vars, Push \/ PushGrow \/ PutDirective \/ PutStmt
  PROVE  \E l \in ALine : buf' = Append(buf, l) /\ l.no <= Len(fed) /\ Exact(l)'
<1>1. CASE Push \/ PushGrow
  <2> DEFINE l == [no |-> 0, text |-> Declaration(pres[pi]), tab |-> <<>>]
  <2>1. l \in ALine /\ buf' = Append(buf, l)
    BY <1>1, Entry DEF Push, PushGrow, Pushed
  <2>2. l.no = 0 /\ l.no <= Len(fed)
    BY LenFed DEF TypeInv
  <2> HIDE DEF l
  <2>3. PICK m : m = l
    OBVIOUS
  <2>4. m \in ALine /\ buf' = Append(buf, m) /\ m.no = 0 /\ m.no <= Len(fed)
    BY <2>1, <2>2, <2>3
  <2>5. Exact(m)'
    BY <2>4 DEF Exact, IsStmt
  <2> QED
    BY <2>4, <2>5
<1>2. CASE PutDirective
  <2> DEFINE l == Line(cur \o <<"\n">>)
  <2>1. buf' = Append(buf, l) /\ IsDirective(cur) /\ fed' = fed /\ pc = "put"
    BY <1>2 DEF PutDirective, calls
  <2>2. l.no = Len(fed) /\ Len(fed) \in Nat /\ l.no <= Len(fed)
    BY LenFed DEF TypeInv, Line
  <2>3. l \in ALine
    <3>1. cur \in Seq(Sign) /\ <<"\n">> \in Seq(Sign) /\ pres \in Seq(Prefix)
      BY <2>1, Room, Texts, Newline
    <3> DEFINE e == <<"\n">>
    <3> HIDE DEF e
    <3>2. cur \o e \in Seq(Sign)
      BY <3>1, ConcatProperties DEF e
    <3> DEFINE w == cur \o e
    <3> HIDE DEF w
    <3>3. l = [no |-> Len(fed), text |-> w, tab |-> pres] /\ w \in Seq(Sign)
      BY <3>2 DEF w, e, Line
    <3> QED
      BY <2>2, <3>1, <3>3 DEF ALine
  <2> HIDE DEF l
  <2>4. PICK m : m = l
    OBVIOUS
  <2>5. m \in ALine /\ buf' = Append(buf, m) /\ m.no = Len(fed) /\ m.no <= Len(fed)
    BY <2>1, <2>2, <2>3, <2>4
  <2>6. Exact(m)'
    BY <2>1, <2>5 DEF Exact, IsStmt, StmtOf, cur
  <2> QED
    BY <2>5, <2>6
<1>3. CASE PutStmt
  <2> DEFINE room == (bsz - bix) - 1
             s == subst(pres, cur, room)
             l == Line(<<"\n">> \o s.text \o <<"\n">>)
  <2>1. /\ l \in ALine /\ l.no = Len(fed) /\ l.tab = pres /\ buf' = Append(buf, l)
        /\ pc = "put" /\ fed' = fed
    BY <1>3, StmtLine
  <2>2. l.no <= Len(fed) /\ l.text = <<"\n">> \o s.text \o <<"\n">>
    BY <2>1, LenFed DEF TypeInv, Line
  <2>3. Short(pres) /\ Closed(cur) => s.text = Substituted(pres, cur)
    <3>1. room \in Nat /\ Len(cur) < room /\ cur \in Seq(Char) /\ pres \in Seq(Prefix)
      BY <2>1, Room
    <3> HIDE DEF room
    <3> QED
      BY <3>1, SubstitutesInPlace
  <2> HIDE DEF l, s
  <2>4. PICK m : m = l
    OBVIOUS
  <2>5. /\ m \in ALine /\ buf' = Append(buf, m) /\ m.no <= Len(fed) /\ m.tab = pres
        /\ m.text = <<"\n">> \o s.text \o <<"\n">> /\ fed'[m.no].stmt = cur
    BY <2>1, <2>2, <2>4 DEF cur
  <2>6. Exact(m)'
    BY <2>3, <2>5 DEF Exact, IsStmt, StmtOf
  <2> QED
    BY <2>5, <2>6
<1> QED
  BY <1>1, <1>2, <1>3

LEMMA ExactStep == TypeInv /\ InPlaceExact /\ [Next]_vars => InPlaceExact'
<1> SUFFICES ASSUME TypeInv, InPlaceExact, [Next]_vars PROVE InPlaceExact'
  OBVIOUS
<1>0. /\ DOMAIN buf = 1..Len(buf) /\ buf \in Seq(ALine) /\ Len(buf) \in Nat
      /\ \A k \in 1..Len(buf) : buf[k] \in ALine /\ buf[k].no <= Len(fed)
  BY LenProperties, ElementOfSeq DEF TypeInv, BufferTyped, Lines
<1>1. \A k \in 1..Len(buf) : Exact(buf[k])
  BY <1>0 DEF InPlaceExact, Exact
<1>2. \A k \in 1..Len(buf) : \A l : l = buf[k] => Exact(l)'
  BY <1>0, <1>1, ExactStays
<1>3. CASE buf' = buf
  BY <1>0, <1>2, <1>3 DEF InPlaceExact, Exact
<1>4. CASE buf' = <<>>
  BY <1>4 DEF InPlaceExact
<1>5. CASE Push \/ PushGrow \/ PutDirective \/ PutStmt
  <2>1. PICK l \in ALine : buf' = Append(buf, l) /\ l.no <= Len(fed) /\ Exact(l)'
    BY <1>5, ExactLine
  <2>2. /\ Append(buf, l) \in Seq(ALine) /\ Len(Append(buf, l)) = Len(buf) + 1
        /\ \A k \in 1..Len(buf) : Append(buf, l)[k] = buf[k]
        /\ Append(buf, l)[Len(buf) + 1] = l
    BY <1>0, <2>1, AppendProperties
  <2>3. DOMAIN buf' = 1..Len(buf)+1
    BY <2>1, <2>2, LenProperties
  <2>4. ASSUME NEW k \in 1..Len(buf)+1 PROVE \A m : m = buf'[k] => Exact(m)'
    <3>1. CASE k \in 1..Len(buf)
      BY <1>2, <2>1, <2>2, <3>1
    <3>2. CASE k = Len(buf) + 1
      BY <2>1, <2>2, <3>2
    <3> QED
      BY <1>0, <3>1, <3>2
  <2> QED
    BY <2>3, <2>4 DEF InPlaceExact, Exact
<1>6. buf' = buf \/ buf' = <<>> \/ Push \/ PushGrow \/ PutDirective \/ PutStmt
  <2>1. CASE \E s \in Stmt : Call(s)
    BY <2>1 DEF Call, buffer
  <2>2. CASE OtherSteps
    BY <2>2, OtherLeaves
  <2>3. CASE Flush \/ FlushFails \/ FiniStmt \/ GiveUp
    BY <2>3 DEF Flush, FlushFails, FiniStmt, GiveUp, buffer
  <2>4. CASE Halted \/ UNCHANGED vars
    BY <2>4 DEF Halted, vars, buffer
  <2> QED
    BY <2>1, <2>2, <2>3, <2>4 DEF Next, OtherSteps
<1> QED
  BY <1>3, <1>4, <1>5, <1>6

\* Every statement in the buffer reads as if it had been substituted elsewhere, however
\* many IRIs are in it and however little room is left behind it, when the prefixes it
\* was given are short and each of its IRIs is closed (ttl-prefixify.c:140-191, :417-425).
THEOREM RewritesExactly == Spec => []InPlaceExact
<1>1. Init => TypeInv /\ InPlaceExact
  BY TypeInit DEF Init, InPlaceExact
<1>2. (TypeInv /\ InPlaceExact) /\ [Next]_vars => (TypeInv /\ InPlaceExact)'
  BY TypeStep, ExactStep
<1> QED
  BY <1>1, <1>2, PTL DEF Spec

---------------------------------------------------------------------------
(* Once and in order.  Of the lines p that have been written, the lines q   *)
(* that wait in the buffer, the calls f, the first n of which are over, and *)
(* the numbers S of those that are lost or whose lines are gone:            *)

IsAbout(f, l) == l.no # 0 /\ ~IsDirective(f[l.no].stmt)
Has(q, n)     == \E k \in 1..Len(q) : q[k].no = n

Ordered(f, q) ==
  \A k, h \in 1..Len(q) : k < h /\ IsAbout(f, q[k]) /\ IsAbout(f, q[h]) => q[k].no < q[h].no
Ahead(f, p, q) ==
  \A k \in 1..Len(p) : \A h \in 1..Len(q) :
    IsAbout(f, p[k]) /\ IsAbout(f, q[h]) => p[k].no < q[h].no
InOrder(f, p, q) == Ordered(f, p) /\ Ordered(f, q) /\ Ahead(f, p, q)

Alive(f, q, S) == \A k \in 1..Len(q) : IsAbout(f, q[k]) => q[k].no \notin S
Covered(f, n, S, p, q) ==
  \A m \in 1..n : ~IsDirective(f[m].stmt) /\ m \notin S => Has(p, m) \/ Has(q, m)
Complete(f, n, S, p, q) == Alive(f, p, S) /\ Alive(f, q, S) /\ Covered(f, n, S, p, q)

\* A further call.
LEMMA OrderCalled ==
  ASSUME NEW f \in Seq(Call1), NEW c \in Call1, NEW S, NEW p, Lines(p, Len(f)), NEW q,
         Lines(q, Len(f))
  PROVE  /\ InOrder(f, p, q) => InOrder(Append(f, c), p, q)
         /\ Complete(f, Len(f), S, p, q) => Complete(Append(f, c), Len(f), S, p, q)
<1> DEFINE g == Append(f, c)
           n == Len(f)
<1>1. n \in Nat /\ \A m \in 1..n : g[m] = f[m]
  BY LenProperties, AppendProperties
<1> HIDE DEF g
<1>2. ASSUME NEW l \in ALine, l.no <= n PROVE IsAbout(g, l) <=> IsAbout(f, l)
  <2>1. l.no # 0 => l.no \in 1..n
    BY <1>1, <1>2 DEF ALine
  <2> QED
    BY <1>1, <2>1 DEF IsAbout
<1>3. /\ \A k \in 1..Len(p) : IsAbout(g, p[k]) <=> IsAbout(f, p[k])
      /\ \A k \in 1..Len(q) : IsAbout(g, q[k]) <=> IsAbout(f, q[k])
  <2>1. /\ \A k \in 1..Len(p) : p[k] \in ALine /\ p[k].no <= n
        /\ \A k \in 1..Len(q) : q[k] \in ALine /\ q[k].no <= n
    BY ElementOfSeq DEF Lines
  <2> QED
    BY <1>2, <2>1
<1>4. InOrder(f, p, q) => InOrder(g, p, q)
  BY <1>3 DEF InOrder, Ordered, Ahead
<1>5. Complete(f, n, S, p, q) => Complete(g, n, S, p, q)
  BY <1>1, <1>3 DEF Complete, Alive, Covered
<1> QED
  BY <1>4, <1>5 DEF g

\* A further line.
LEMMA HasMore ==
  ASSUME NEW n \in Nat, NEW q, Lines(q, n), NEW l \in ALine, l.no <= n
  PROVE  \A m : Has(Append(q, l), m) <=> Has(q, m) \/ m = l.no
<1> DEFINE r == Append(q, l)
<1>1. /\ Len(q) \in Nat /\ Len(r) = Len(q) + 1 /\ r[Len(q) + 1] = l
      /\ \A k \in 1..Len(q) : r[k] = q[k]
  BY OneMoreLine
<1> HIDE DEF r
<1>2. /\ \A k \in 1..Len(q) : k \in 1..Len(r)
      /\ Len(q) + 1 \in 1..Len(r)
      /\ \A k \in 1..Len(r) : k \in 1..Len(q) \/ k = Len(q) + 1
  BY <1>1
<1>3. ASSUME NEW m, Has(q, m) PROVE Has(r, m)
  BY <1>1, <1>2, <1>3 DEF Has
<1>4. ASSUME NEW m, m = l.no PROVE Has(r, m)
  BY <1>1, <1>2, <1>4 DEF Has
<1>5. ASSUME NEW m, Has(r, m) PROVE Has(q, m) \/ m = l.no
  BY <1>1, <1>2, <1>5 DEF Has
<1> QED
  BY <1>3, <1>4, <1>5 DEF r

LEMMA OrderAppended ==
  ASSUME NEW f, NEW S, NEW n \in Nat, NEW p, Lines(p, n), NEW q, Lines(q, n),
         NEW l \in ALine, l.no <= n, InOrder(f, p, q),
         IsAbout(f, l) => Lines(p, n - 1) /\ Lines(q, n - 1) /\ l.no = n
  PROVE  InOrder(f, p, Append(q, l))
<1> DEFINE r == Append(q, l)
<1>1. /\ Len(q) \in Nat /\ Len(r) = Len(q) + 1 /\ r[Len(q) + 1] = l
      /\ \A k \in 1..Len(q) : r[k] = q[k]
  BY OneMoreLine
<1> HIDE DEF r
<1>2. /\ \A k \in 1..Len(q) : k \in 1..Len(r) /\ k < Len(q) + 1
      /\ Len(q) + 1 \in 1..Len(r)
      /\ \A k \in 1..Len(r) : k \in 1..Len(q) \/ k = Len(q) + 1
  BY <1>1
<1>3. IsAbout(f, l) => /\ \A k \in 1..Len(q) : q[k].no < l.no
                       /\ \A k \in 1..Len(p) : p[k].no < l.no
  <2> SUFFICES ASSUME IsAbout(f, l)
               PROVE  /\ \A k \in 1..Len(q) : q[k].no < l.no
                      /\ \A k \in 1..Len(p) : p[k].no < l.no
    OBVIOUS
  <2>1. /\ \A k \in 1..Len(q) : q[k] \in ALine /\ q[k].no <= n - 1
        /\ \A k \in 1..Len(p) : p[k] \in ALine /\ p[k].no <= n - 1
    BY ElementOfSeq DEF Lines
  <2>2. \A m \in Nat : m <= n - 1 => m < n
    OBVIOUS
  <2> QED
    BY <2>1, <2>2 DEF ALine
<1>4. Ordered(f, r)
  <2> SUFFICES ASSUME NEW k \in 1..Len(r), NEW h \in 1..Len(r), k < h,
                      IsAbout(f, r[k]), IsAbout(f, r[h])
               PROVE  r[k].no < r[h].no
    BY DEF Ordered
  <2>1. k \in 1..Len(q)
    BY <1>1
  <2>2. CASE h \in 1..Len(q)
    BY <1>1, <2>1, <2>2 DEF InOrder, Ordered
  <2>3. CASE h = Len(q) + 1
    BY <1>1, <1>3, <2>1, <2>3
  <2> QED
    BY <1>2, <2>2, <2>3
<1>5. Ahead(f, p, r)
  <2> SUFFICES ASSUME NEW k \in 1..Len(p), NEW h \in 1..Len(r),
                      IsAbout(f, p[k]), IsAbout(f, r[h])
               PROVE  p[k].no < r[h].no
    BY DEF Ahead
  <2>1. CASE h \in 1..Len(q)
    BY <1>1, <2>1 DEF InOrder, Ahead
  <2>2. CASE h = Len(q) + 1
    BY <1>1, <1>3, <2>2
  <2> QED
    BY <1>2, <2>1, <2>2
<1> QED
  BY <1>4, <1>5 DEF InOrder, r

LEMMA CompleteAppended ==
  ASSUME NEW f, NEW S, NEW n \in Nat, NEW p, NEW q, Lines(q, n), NEW m \in Nat,
         NEW l \in ALine, l.no <= n, Complete(f, m, S, p, q),
         IsAbout(f, l) => l.no \notin S
  PROVE  Complete(f, m, S, p, Append(q, l))
<1> DEFINE r == Append(q, l)
<1>1. /\ Len(q) \in Nat /\ Len(r) = Len(q) + 1 /\ r[Len(q) + 1] = l
      /\ \A k \in 1..Len(q) : r[k] = q[k]
  BY OneMoreLine
<1>2. \A i : Has(q, i) => Has(r, i)
  BY HasMore
<1> HIDE DEF r
<1>3. Alive(f, r, S)
  <2> SUFFICES ASSUME NEW k \in 1..Len(r), IsAbout(f, r[k]) PROVE r[k].no \notin S
    BY DEF Alive
  <2>1. k \in 1..Len(q) \/ k = Len(q) + 1
    BY <1>1
  <2>2. CASE k \in 1..Len(q)
    BY <1>1, <2>2 DEF Complete, Alive
  <2>3. CASE k = Len(q) + 1
    BY <1>1, <2>3
  <2> QED
    BY <2>1, <2>2, <2>3
<1>4. Covered(f, m, S, p, r)
  BY <1>2 DEF Complete, Covered
<1> QED
  BY <1>3, <1>4 DEF Complete, r

\* A call that is over: its line is there, or it needs none.
LEMMA CompleteOver ==
  ASSUME NEW f, NEW S, NEW n \in Nat, NEW p, NEW q,
         Complete(f, n, S, p, q),
         Has(q, n + 1) \/ IsDirective(f[n + 1].stmt)
  PROVE  Complete(f, n + 1, S, p, q)
<1>1. \A m \in 1..n+1 : m \in 1..n \/ m = n + 1
  OBVIOUS
<1>2. Covered(f, n + 1, S, p, q)
  BY <1>1 DEF Complete, Covered
<1> QED
  BY <1>2 DEF Complete

LEMMA CompleteDropped ==
  ASSUME NEW f, NEW S, NEW n \in Nat, NEW p, Lines(p, n), NEW q, Lines(q, n),
         Complete(f, n, S, p, q)
  PROVE  Complete(f, n + 1, S \cup {n + 1}, p, q)
<1>1. \A m \in 1..n+1 : m \in 1..n \/ m = n + 1
  OBVIOUS
<1>2. Covered(f, n + 1, S \cup {n + 1}, p, q)
  BY <1>1 DEF Complete, Covered
<1>3. /\ \A k \in 1..Len(q) : q[k].no # n + 1
      /\ \A k \in 1..Len(p) : p[k].no # n + 1
  <2>1. /\ \A k \in 1..Len(q) : q[k] \in ALine /\ q[k].no <= n
        /\ \A k \in 1..Len(p) : p[k] \in ALine /\ p[k].no <= n
    BY ElementOfSeq DEF Lines
  <2>2. \A m \in Nat : m <= n => m # n + 1
    OBVIOUS
  <2> QED
    BY <2>1, <2>2 DEF ALine
<1>4. Alive(f, p, S \cup {n + 1}) /\ Alive(f, q, S \cup {n + 1})
  BY <1>3 DEF Complete, Alive
<1> QED
  BY <1>2, <1>4 DEF Complete

\* The buffer is written up to the k-th line, and the rest of it is gone.
LEMMA OrderFlushed ==
  ASSUME NEW f, NEW S, NEW n \in Nat, NEW m \in Nat, NEW p, Lines(p, n), NEW q, Lines(q, n),
         NEW k \in 0..Len(q), InOrder(f, p, q)
  PROVE  /\ InOrder(f, p \o SubSeq(q, 1, k), <<>>)
         /\ Complete(f, m, S, p, q)
              => Complete(f, m, S \cup {q[i].no : i \in k+1..Len(q)}, p \o SubSeq(q, 1, k), <<>>)
<1> DEFINE v == SubSeq(q, 1, k)
           r == p \o v
           G == {q[i].no : i \in k+1..Len(q)}
           a == Len(p)
<1>1. Lines(v, n) /\ Len(v) = k /\ \A i \in 1..k : v[i] = q[i]
  BY FirstLines
<1> HIDE DEF v
<1>2. /\ a \in Nat /\ Len(r) = a + k
      /\ \A i \in 1..a+k : r[i] = IF i <= a THEN p[i] ELSE v[i - a]
  <2>1. /\ Len(p) \in Nat /\ Len(p \o v) = Len(p) + Len(v)
        /\ \A i \in 1..Len(p)+Len(v) : (p \o v)[i] = IF i <= Len(p) THEN p[i] ELSE v[i - Len(p)]
    <3>1. Lines(v, n)
      BY <1>1
    <3> QED
      BY <3>1, LinesAndLines
  <2> QED
    BY <1>1, <2>1
<1>3. Len(q) \in Nat /\ k \in Nat /\ k <= Len(q)
  BY LenProperties DEF Lines
<1> HIDE DEF r, a
<1>4. /\ \A i \in 1..a : i \in 1..Len(r) /\ r[i] = p[i]
      /\ \A i \in 1..k : a + i \in 1..Len(r) /\ r[a + i] = q[i] /\ i \in 1..Len(q)
  <2>1. \A i \in 1..a : i \in 1..a+k /\ i <= a
    BY <1>2, <1>3
  <2>2. \A i \in 1..k : a + i \in 1..a+k /\ ~(a + i <= a) /\ (a + i) - a = i /\ i \in 1..Len(q)
    BY <1>2, <1>3
  <2> QED
    BY <1>1, <1>2, <2>1, <2>2
<1>5. \A j \in 1..Len(r) : j \in 1..a \/ \E i \in 1..k : j = a + i
  <2> SUFFICES ASSUME NEW j \in 1..Len(r), j \notin 1..a PROVE \E i \in 1..k : j = a + i
    OBVIOUS
  <2>1. j - a \in 1..k /\ j = a + (j - a)
    BY <1>2, <1>3
  <2> QED
    BY <2>1
<1>6. Ordered(f, r)
  <2> SUFFICES ASSUME NEW j \in 1..Len(r), NEW h \in 1..Len(r), j < h,
                      IsAbout(f, r[j]), IsAbout(f, r[h])
               PROVE  r[j].no < r[h].no
    BY DEF Ordered
  <2>1. CASE j \in 1..a /\ h \in 1..a
    BY <1>4, <2>1 DEF InOrder, Ordered, a
  <2>2. CASE j \in 1..a /\ h \notin 1..a
    <3>1. PICK i \in 1..k : h = a + i
      BY <1>5, <2>2
    <3> QED
      BY <1>4, <2>2, <3>1 DEF InOrder, Ahead, a
  <2>3. CASE j \notin 1..a
    <3>1. PICK i \in 1..k : j = a + i
      BY <1>5, <2>3
    <3>2. h \notin 1..a
      BY <1>2, <2>3
    <3>3. PICK g \in 1..k : h = a + g
      BY <1>5, <3>2
    <3>4. i < g /\ i \in 1..Len(q) /\ g \in 1..Len(q) /\ r[j] = q[i] /\ r[h] = q[g]
      BY <1>2, <1>4, <3>1, <3>3
    <3> QED
      BY <3>4 DEF InOrder, Ordered
  <2> QED
    BY <2>1, <2>2, <2>3
<1>7. InOrder(f, r, <<>>)
  BY <1>6 DEF InOrder, Ordered, Ahead
<1>8. ASSUME Complete(f, m, S, p, q) PROVE Complete(f, m, S \cup G, r, <<>>)
  <2>1. ASSUME NEW j \in 1..Len(r), IsAbout(f, r[j]), r[j].no \in G PROVE FALSE
    <3>1. PICK g \in k+1..Len(q) : r[j].no = q[g].no
      BY <2>1
    <3>2. g \in 1..Len(q) /\ \A i \in 1..k : i < g
      BY <1>3
    <3>3. IsAbout(f, q[g])
      BY <2>1, <3>1 DEF IsAbout
    <3>4. q[g].no \in Nat
      <4>1. q[g] \in ALine
        BY <3>2, ElementOfSeq DEF Lines
      <4> QED
        BY <4>1 DEF ALine
    <3>5. r[j].no < q[g].no
      <4>1. CASE j \in 1..a
        BY <1>4, <2>1, <3>2, <3>3, <4>1 DEF InOrder, Ahead, a
      <4>2. CASE j \notin 1..a
        <5>1. PICK i \in 1..k : j = a + i
          BY <1>5, <4>2
        <5> QED
          BY <1>4, <2>1, <3>2, <3>3, <5>1 DEF InOrder, Ordered
      <4> QED
        BY <4>1, <4>2
    <3> QED
      BY <3>1, <3>4, <3>5
  <2>2. ASSUME NEW j \in 1..Len(r), IsAbout(f, r[j]) PROVE r[j].no \notin S
    <3>1. CASE j \in 1..a
      BY <1>4, <1>8, <2>2, <3>1 DEF Complete, Alive, a
    <3>2. CASE j \notin 1..a
      <4>1. PICK i \in 1..k : j = a + i
        BY <1>5, <3>2
      <4> QED
        BY <1>4, <1>8, <2>2, <4>1 DEF Complete, Alive
    <3> QED
      BY <3>1, <3>2
  <2>3. Alive(f, r, S \cup G)
    BY <2>1, <2>2 DEF Alive
  <2>4. Alive(f, <<>>, S \cup G)
    BY DEF Alive
  <2>5. \A i : Has(p, i) => Has(r, i)
    BY <1>4 DEF Has, a
  <2>6. ASSUME NEW i, Has(q, i), i \notin G PROVE Has(r, i)
    <3>1. PICK g \in 1..Len(q) : q[g].no = i
      BY <2>6 DEF Has
    <3>2. g \in 1..k
      <4>1. g \notin k+1..Len(q)
        BY <2>6, <3>1
      <4> QED
        BY <1>3, <4>1
    <3> QED
      BY <1>4, <3>1, <3>2 DEF Has
  <2>7. Covered(f, m, S \cup G, r, <<>>)
    BY <1>8, <2>5, <2>6 DEF Complete, Covered
  <2> HIDE DEF G
  <2> QED
    BY <2>3, <2>4, <2>7 DEF Complete
<1> QED
  BY <1>7, <1>8 DEF r, v

---------------------------------------------------------------------------
\* The lines that may be written still, and how many calls are over.
Waiting == IF pc = "done" THEN <<>> ELSE buf
Over    == IF pc \in {"idle", "done"} THEN Len(fed) ELSE Len(fed) - 1

\* In a call nothing is about the call so far, nor is it given up.
OrderInv ==
  /\ InOrder(fed, out, Waiting)
  /\ InCall \/ pc = "wild_pres" =>
       /\ Len(fed) >= 1 /\ Len(fed) \notin lost \cup gone
       /\ Lines(out, Len(fed) - 1) /\ Lines(buf, Len(fed) - 1)
  /\ pc # "wild_buf" => Complete(fed, Over, lost \cup gone, out, Waiting)

LEMMA OrderInit == Init => OrderInv
  BY DEF Init, OrderInv, InCall, InOrder, Ordered, Ahead, Complete, Alive, Covered, Waiting, Over

LEMMA OrderCall ==
  ASSUME TypeInv, OrderInv, NEW s \in Stmt, Call(s)
  PROVE  OrderInv'
<1> DEFINE n == Len(fed)
           c == [stmt |-> s, inp |-> inp]
<1>1. /\ pc = "idle" /\ pc' \in {"push", "prefix"} /\ fed' = Append(fed, c)
      /\ UNCHANGED <<buf, out, lost, gone>>
  BY DEF Call, buffer, history
<1>2. /\ c \in Call1 /\ fed \in Seq(Call1) /\ n \in Nat
      /\ Lines(out, n) /\ Lines(buf, n) /\ lost \subseteq 1..n /\ gone \subseteq 0..n
  BY LenFed DEF TypeInv, CallsTyped, BufferTyped, Call1
<1> HIDE DEF c
<1>3. Len(fed') = n + 1
  BY <1>1, <1>2, AppendProperties
<1>4. Waiting = buf /\ Over = n
  BY <1>1 DEF Waiting, Over
<1>5. Waiting' = buf /\ Over' = n
  BY <1>1, <1>2, <1>3 DEF Waiting, Over
<1>6. InOrder(fed, out, buf) /\ Complete(fed, n, lost \cup gone, out, buf)
  BY <1>1, <1>4 DEF OrderInv
<1>7. /\ InOrder(Append(fed, c), out, buf)
      /\ Complete(Append(fed, c), Len(fed), lost \cup gone, out, buf)
  <2> DEFINE S == lost \cup gone
  <2> HIDE DEF S
  <2>1. Complete(fed, Len(fed), S, out, buf)
    BY <1>6 DEF S
  <2>2. Complete(Append(fed, c), Len(fed), S, out, buf)
    BY <1>2, <2>1, OrderCalled
  <2> QED
    BY <1>2, <1>6, <2>2, OrderCalled DEF S
<1>8. InOrder(fed', out', Waiting') /\ Complete(fed', Over', (lost \cup gone)', out', Waiting')
  BY <1>1, <1>5, <1>7
<1>9. n + 1 \notin lost \cup gone /\ n + 1 >= 1 /\ (n + 1) - 1 = n
  BY <1>2
<1> QED
  BY <1>1, <1>2, <1>3, <1>8, <1>9 DEF OrderInv

\* What is known in a call.
LEMMA Engaged ==
  ASSUME TypeInv, OrderInv, InCall
  PROVE  /\ Len(fed) \in Nat /\ Len(fed) >= 1 /\ Len(fed) - 1 \in Nat /\ (Len(fed) - 1) + 1 = Len(fed)
         /\ Len(fed) \notin lost \cup gone
         /\ Lines(out, Len(fed) - 1) /\ Lines(buf, Len(fed) - 1)
         /\ Lines(out, Len(fed)) /\ Lines(buf, Len(fed))
         /\ Waiting = buf /\ Over = Len(fed) - 1
         /\ InOrder(fed, out, buf)
         /\ Complete(fed, Len(fed) - 1, lost \cup gone, out, buf)
<1>1. pc \notin {"idle", "done", "wild_buf"}
  BY DEF InCall
<1>2. Waiting = buf /\ Over = Len(fed) - 1
  BY <1>1 DEF Waiting, Over
<1>3. Len(fed) \in Nat /\ Lines(out, Len(fed)) /\ Lines(buf, Len(fed))
  BY LenFed DEF TypeInv, BufferTyped
<1>4. /\ Len(fed) >= 1 /\ Len(fed) \notin lost \cup gone
      /\ Lines(out, Len(fed) - 1) /\ Lines(buf, Len(fed) - 1)
  BY DEF OrderInv
<1>5. Len(fed) - 1 \in Nat /\ (Len(fed) - 1) + 1 = Len(fed)
  BY <1>3, <1>4
<1>6. InOrder(fed, out, buf) /\ Complete(fed, Len(fed) - 1, lost \cup gone, out, buf)
  BY <1>1, <1>2 DEF OrderInv
<1> QED
  BY <1>2, <1>3, <1>4, <1>5, <1>6

LEMMA OrderPush ==
  ASSUME TypeInv, OrderInv, Push \/ PushGrow
  PROVE  OrderInv'
<1> DEFINE l == [no |-> 0, text |-> Declaration(pres[pi]), tab |-> <<>>]
           n == Len(fed)
           m == n - 1
           S == lost \cup gone
           r == Append(buf, l)
<1>1. /\ pc = "push" /\ pc' \in {"push", "wild_buf"} /\ buf' = r
      /\ UNCHANGED <<out, fed, lost, gone>>
  BY DEF Push, PushGrow, Pushed, calls, history
<1>2. l \in ALine /\ l.no = 0
  BY Entry DEF Push, PushGrow
<1>3. ~IsAbout(fed, l)
  BY <1>2 DEF IsAbout
<1> HIDE DEF l
<1>4. InCall
  BY <1>1 DEF InCall
<1>5. /\ n \in Nat /\ m \in Nat /\ n >= 1 /\ n \notin S
      /\ Lines(out, m) /\ Lines(buf, m) /\ Lines(out, n) /\ Lines(buf, n)
      /\ InOrder(fed, out, buf) /\ Complete(fed, m, S, out, buf)
  BY <1>4, Engaged
<1> HIDE DEF m, n, S
<1>6. l.no <= n /\ l.no <= m
  BY <1>2, <1>5
<1>7. InOrder(fed, out, Append(buf, l))
  BY <1>2, <1>3, <1>5, <1>6, OrderAppended
<1>8. Complete(fed, m, S, out, Append(buf, l))
  BY <1>2, <1>3, <1>5, <1>6, CompleteAppended
<1>9. Lines(Append(buf, l), m)
  BY <1>2, <1>5, <1>6, OneMoreLine
<1>10. Waiting' = r /\ Over' = m
  BY <1>1 DEF Waiting, Over, m, n
<1>11. Len(fed') = n /\ Len(fed') - 1 = m /\ (lost \cup gone)' = S
  BY <1>1 DEF m, n, S
<1> HIDE DEF r
<1> QED
  BY <1>1, <1>5, <1>7, <1>8, <1>9, <1>10, <1>11 DEF OrderInv, InCall, r

\* The line of the call is put behind what is there.
LEMMA OrderPut ==
  ASSUME TypeInv, OrderInv, PutDirective \/ PutStmt
  PROVE  OrderInv'
<1> DEFINE n == Len(fed)
           m == n - 1
           S == lost \cup gone
<1>1. /\ pc = "put" /\ pc' \in {"idle", "wild_buf"}
      /\ UNCHANGED <<out, fed, lost, gone>>
  BY DEF PutDirective, PutStmt, calls, history
<1>2. PICK l \in ALine : buf' = Append(buf, l) /\ l.no = n
  <2>1. CASE PutDirective
    <3> DEFINE k == Line(cur \o <<"\n">>)
    <3>1. buf' = Append(buf, k) /\ k.no = n
      BY <2>1 DEF PutDirective, Line
    <3>2. cur \in Seq(Sign) /\ <<"\n">> \in Seq(Sign) /\ pres \in Seq(Prefix) /\ n \in Nat
      BY <1>1, Room, Texts, Newline
    <3> DEFINE e == <<"\n">>
    <3> HIDE DEF e
    <3>3. cur \o e \in Seq(Sign)
      BY <3>2, ConcatProperties DEF e
    <3> DEFINE w == cur \o e
    <3> HIDE DEF w
    <3>4. k = [no |-> n, text |-> w, tab |-> pres] /\ w \in Seq(Sign)
      BY <3>3 DEF w, e, Line
    <3>5. k \in ALine
      BY <3>2, <3>4 DEF ALine
    <3> HIDE DEF k
    <3> QED
      BY <3>1, <3>5
  <2>2. CASE PutStmt
    <3> DEFINE k == Line(<<"\n">> \o subst(pres, cur, (bsz - bix) - 1).text \o <<"\n">>)
    <3>1. k \in ALine /\ buf' = Append(buf, k) /\ k.no = n
      BY <2>2, StmtLine
    <3> HIDE DEF k
    <3> QED
      BY <3>1
  <2> QED
    BY <2>1, <2>2
<1>3. InCall
  BY <1>1 DEF InCall
<1>4. /\ n \in Nat /\ m \in Nat /\ n >= 1 /\ n \notin S /\ m + 1 = n /\ n <= n
      /\ Lines(out, m) /\ Lines(buf, m) /\ Lines(out, n) /\ Lines(buf, n)
      /\ InOrder(fed, out, buf) /\ Complete(fed, m, S, out, buf)
  BY <1>3, Engaged
<1>5. m = n - 1
  OBVIOUS
<1> HIDE DEF m, n, S
<1>6. InOrder(fed, out, Append(buf, l))
  BY <1>2, <1>4, <1>5, OrderAppended
<1>7. Complete(fed, m, S, out, Append(buf, l))
  BY <1>2, <1>4, CompleteAppended
<1>8. Has(Append(buf, l), m + 1)
  BY <1>2, <1>4, HasMore
<1>9. Complete(fed, n, S, out, Append(buf, l))
  <2> DEFINE r == Append(buf, l)
  <2> HIDE DEF r
  <2>1. Complete(fed, m, S, out, r) /\ Has(r, m + 1)
    BY <1>7, <1>8 DEF r
  <2>2. Complete(fed, m + 1, S, out, r)
    BY <1>4, <2>1, CompleteOver
  <2> QED
    BY <1>4, <2>2 DEF r
<1>10. Waiting' = Append(buf, l) /\ (pc' # "wild_buf" => Over' = n)
  BY <1>1, <1>2 DEF Waiting, Over, n
<1>11. (lost \cup gone)' = S
  BY <1>1 DEF S
<1> QED
  BY <1>1, <1>6, <1>9, <1>10, <1>11 DEF OrderInv, InCall

LEMMA OrderOther ==
  ASSUME TypeInv, OrderInv, OtherSteps
  PROVE  OrderInv'
<1> DEFINE n == Len(fed)
           m == n - 1
           S == lost \cup gone
<1>1. UNCHANGED <<buf, out, fed, gone>>
  BY OtherLeaves
<1>2. InCall
  BY DEF OtherSteps, PushFails, AllPushed, NoPrefix, KnownPrefix, AddPrefix, Add, NewPrefix, PrbFails,
         PresFails, HasRoom, InCall
<1>3. /\ n \in Nat /\ m \in Nat /\ n >= 1 /\ n \notin S /\ m + 1 = n
      /\ Lines(out, m) /\ Lines(buf, m) /\ Lines(out, n) /\ Lines(buf, n)
      /\ InOrder(fed, out, buf) /\ Complete(fed, m, S, out, buf)
  BY <1>2, Engaged
<1>4. CASE AllPushed \/ NoPrefix \/ AddPrefix \/ PrbFails \/ PresFails \/ HasRoom
  <2>1. pc' \in {"prefix", "room", "put", "wild_pres"} /\ lost' = lost
    BY <1>4 DEF AllPushed, NoPrefix, AddPrefix, Add, PrbFails, PresFails, HasRoom, history
  <2>2. Waiting' = buf /\ Over' = m
    BY <1>1, <2>1 DEF Waiting, Over
  <2>3. (lost \cup gone)' = S
    BY <1>1, <2>1
  <2> QED
    BY <1>1, <1>3, <2>1, <2>2, <2>3 DEF OrderInv
<1>5. CASE PushFails
  <2>1. pc' = "idle" /\ lost' = lost \cup {n}
    BY <1>5 DEF PushFails, Drop
  <2>2. Waiting' = buf /\ Over' = n
    BY <1>1, <2>1 DEF Waiting, Over
  <2>3. (lost \cup gone)' = S \cup {n}
    BY <1>1, <2>1
  <2>4. Complete(fed, n, S \cup {n}, out, buf)
    <3> HIDE DEF n, m, S
    <3>1. Complete(fed, m + 1, S \cup {m + 1}, out, buf)
      BY <1>3, CompleteDropped
    <3> QED
      BY <1>3, <3>1
  <2> QED
    BY <1>1, <1>3, <2>1, <2>2, <2>3, <2>4 DEF OrderInv, InCall
<1>6. CASE KnownPrefix
  <2>1. pc' = "idle" /\ lost' = lost /\ IsDirective(fed[n].stmt)
    BY <1>6 DEF KnownPrefix, Declares, IsDirective, cur, history
  <2>2. Waiting' = buf /\ Over' = n
    BY <1>1, <2>1 DEF Waiting, Over
  <2>3. (lost \cup gone)' = S
    BY <1>1, <2>1
  <2>4. Complete(fed, n, S, out, buf)
    <3> HIDE DEF n, m, S
    <3>1. IsDirective(fed[m + 1].stmt)
      BY <1>3, <2>1
    <3>2. Complete(fed, m + 1, S, out, buf)
      BY <1>3, <3>1, CompleteOver
    <3> QED
      BY <1>3, <3>2
  <2> QED
    BY <1>1, <1>3, <2>1, <2>2, <2>3, <2>4 DEF OrderInv, InCall
<1> QED
  BY <1>4, <1>5, <1>6 DEF OtherSteps

LEMMA OrderFlush ==
  ASSUME TypeInv, OrderInv, Flush \/ FlushFails
  PROVE  OrderInv'
<1> DEFINE n == Len(fed)
           m == n - 1
           S == lost \cup gone
           G(k) == {buf[i].no : i \in k+1..Len(buf)}
           r(k) == out \o SubSeq(buf, 1, k)
<1>1. /\ pc = "room" /\ WrBuf /\ buf' = <<>> /\ fed' = fed
  BY DEF Flush, FlushFails, calls
<1>2. PICK k \in 0..Len(buf) : out' = r(k) /\ gone' = gone \cup G(k)
  BY <1>1 DEF WrBuf
<1>3. InCall
  BY <1>1 DEF InCall
<1>4. /\ n \in Nat /\ m \in Nat /\ n >= 1 /\ n \notin S /\ m + 1 = n
      /\ Lines(out, m) /\ Lines(buf, m)
      /\ InOrder(fed, out, buf) /\ Complete(fed, m, S, out, buf)
  BY <1>3, Engaged
<1> HIDE DEF m, n, S
<1>5. InOrder(fed, r(k), <<>>) /\ Complete(fed, m, S \cup G(k), r(k), <<>>)
  BY <1>4, OrderFlushed
<1>6. Lines(r(k), m) /\ Lines(<<>>, m)
  <2> DEFINE v == SubSeq(buf, 1, k)
  <2>1. Lines(v, m)
    BY <1>4, FirstLines
  <2> HIDE DEF v
  <2>2. Lines(out \o v, m)
    BY <1>4, <2>1, LinesAndLines
  <2> QED
    BY <1>4, <2>2, NoLines DEF v
<1>7. n \notin G(k)
  <2> SUFFICES ASSUME NEW i \in k+1..Len(buf), buf[i].no = n PROVE FALSE
    OBVIOUS
  <2>1. buf \in Seq(ALine) /\ Len(buf) \in Nat
    BY <1>4, LenProperties DEF Lines
  <2>2. i \in 1..Len(buf)
    BY <2>1
  <2>3. buf[i].no <= m
    BY <1>4, <2>2 DEF Lines
  <2> QED
    BY <1>4, <2>3
<1> HIDE DEF r, G
<1>8. CASE Flush
  <2>1. pc' = "put" /\ lost' = lost
    BY <1>8 DEF Flush
  <2>2. Waiting' = <<>> /\ Over' = m
    BY <1>1, <2>1 DEF Waiting, Over, m, n
  <2>3. (lost \cup gone)' = S \cup G(k) /\ Len(fed') = n /\ Len(fed') - 1 = m
    BY <1>1, <1>2, <2>1 DEF S, n, m
  <2> QED
    BY <1>1, <1>2, <1>4, <1>5, <1>6, <1>7, <2>1, <2>2, <2>3 DEF OrderInv, InCall
<1>9. CASE FlushFails
  <2>1. pc' = "idle" /\ lost' = lost \cup {n}
    BY <1>9 DEF FlushFails, Drop, n
  <2>2. Waiting' = <<>> /\ Over' = n
    BY <1>1, <2>1 DEF Waiting, Over, n
  <2>3. (lost \cup gone)' = (S \cup G(k)) \cup {n}
    BY <1>2, <2>1 DEF S
  <2>4. Complete(fed, n, (S \cup G(k)) \cup {n}, r(k), <<>>)
    <3> DEFINE T == S \cup G(k)
               q == <<>>
    <3> HIDE DEF T, q
    <3>1. Complete(fed, m, T, r(k), q) /\ Lines(r(k), m) /\ Lines(q, m)
      BY <1>5, <1>6 DEF T, q
    <3>2. Complete(fed, m + 1, T \cup {m + 1}, r(k), q)
      BY <1>4, <3>1, CompleteDropped
    <3> QED
      BY <1>4, <3>2 DEF T, q
  <2> QED
    BY <1>1, <1>2, <1>5, <2>1, <2>2, <2>3, <2>4 DEF OrderInv, InCall
<1> QED
  BY <1>8, <1>9

\* The end of an input: the buffer is written, or not.
LEMMA OrderFini ==
  ASSUME TypeInv, OrderInv, FiniStmt \/ GiveUp
  PROVE  OrderInv'
<1> DEFINE n == Len(fed)
           S == lost \cup gone
           G(k) == {buf[i].no : i \in k+1..Len(buf)}
           r(k) == out \o SubSeq(buf, 1, k)
<1>1. pc = "idle" /\ NextInput /\ UNCHANGED <<fed, lost>>
  BY DEF FiniStmt, GiveUp
<1>2. pc' \in {"idle", "done"} /\ (pc' = "done" <=> ~(inp < MaxInputs))
  BY <1>1 DEF NextInput
<1>3. /\ n \in Nat /\ Lines(out, n) /\ Lines(buf, n)
      /\ InOrder(fed, out, buf) /\ Complete(fed, n, S, out, buf)
  <2>1. Waiting = buf /\ Over = n
    BY <1>1 DEF Waiting, Over
  <2> QED
    BY <1>1, <2>1, LenFed DEF OrderInv, TypeInv, BufferTyped
<1>4. Over' = n
  BY <1>1, <1>2 DEF Over
<1> HIDE DEF n, S
<1>5. \A k \in 0..Len(buf) : InOrder(fed, r(k), <<>>) /\ Complete(fed, n, S \cup G(k), r(k), <<>>)
  BY <1>3, OrderFlushed
<1>6. CASE FiniStmt
  <2>1. PICK k \in 0..Len(buf) : out' = r(k) /\ gone' = gone \cup G(k)
    BY <1>6 DEF FiniStmt, WrBuf
  <2>2. Waiting' = <<>>
    BY <1>6 DEF FiniStmt, Waiting
  <2> HIDE DEF r, G
  <2>3. (lost \cup gone)' = S \cup G(k)
    BY <1>1, <2>1 DEF S
  <2> QED
    BY <1>1, <1>2, <1>4, <1>5, <2>1, <2>2, <2>3 DEF OrderInv, InCall
<1>7. CASE GiveUp /\ inp < MaxInputs
  <2>1. UNCHANGED <<out, buf, gone>> /\ pc' = "idle"
    BY <1>1, <1>2, <1>7 DEF GiveUp, buffer
  <2>2. Waiting' = buf /\ (lost \cup gone)' = S
    BY <1>1, <2>1 DEF Waiting, S
  <2> QED
    BY <1>1, <1>3, <1>4, <2>1, <2>2 DEF OrderInv, InCall
<1>8. CASE GiveUp /\ ~(inp < MaxInputs)
  <2>1. out' = out /\ gone' = gone \cup {buf[i].no : i \in DOMAIN buf} /\ pc' = "done"
    BY <1>2, <1>8 DEF GiveUp
  <2>2. DOMAIN buf = 0+1..Len(buf) /\ 0 \in 0..Len(buf) /\ out \in Seq(ALine)
    <3>1. buf \in Seq(ALine) /\ out \in Seq(ALine)
      BY <1>3 DEF Lines
    <3>2. DOMAIN buf = 1..Len(buf) /\ Len(buf) \in Nat
      BY <3>1, LenProperties
    <3> QED
      BY <3>1, <3>2
  <2>3. r(0) = out
    <3>1. SubSeq(buf, 1, 0) = <<>>
      BY SubSeqEmpty
    <3>2. out \o <<>> = out
      BY <2>2, ConcatEmptySeq
    <3> QED
      BY <3>1, <3>2
  <2>4. gone' = gone \cup G(0)
    BY <2>1, <2>2
  <2>5. InOrder(fed, r(0), <<>>) /\ Complete(fed, n, S \cup G(0), r(0), <<>>)
    BY <1>5, <2>2
  <2> HIDE DEF r, G
  <2>6. Waiting' = <<>> /\ (lost \cup gone)' = S \cup G(0)
    BY <1>1, <2>1, <2>4 DEF Waiting, S
  <2> QED
    BY <1>1, <1>4, <2>1, <2>3, <2>5, <2>6 DEF OrderInv, InCall
<1> QED
  BY <1>6, <1>7, <1>8

LEMMA OrderStep == TypeInv /\ OrderInv /\ [Next]_vars => OrderInv'
<1> SUFFICES ASSUME TypeInv, OrderInv, [Next]_vars PROVE OrderInv'
  OBVIOUS
<1>1. CASE \E s \in Stmt : Call(s)
  BY <1>1, OrderCall
<1>2. CASE Push \/ PushGrow
  BY <1>2, OrderPush
<1>3. CASE OtherSteps
  BY <1>3, OrderOther
<1>4. CASE Flush \/ FlushFails
  BY <1>4, OrderFlush
<1>5. CASE PutDirective \/ PutStmt
  BY <1>5, OrderPut
<1>6. CASE FiniStmt \/ GiveUp
  BY <1>6, OrderFini
<1>7. CASE Halted \/ UNCHANGED vars
  <2>1. UNCHANGED <<buf, out, fed, lost, gone, pc>>
    BY <1>7 DEF Halted, vars, buffer, calls, history
  <2>2. Waiting' = Waiting /\ Over' = Over
    BY <2>1 DEF Waiting, Over
  <2> QED
    BY <2>1, <2>2 DEF OrderInv, InCall
<1> QED
  BY <1>1, <1>2, <1>3, <1>4, <1>5, <1>6, <1>7 DEF Next, OtherSteps

\* What is written and what waits, one after the other.
LEMMA Together ==
  ASSUME NEW f, NEW n \in Nat, NEW p, Lines(p, n), NEW q, Lines(q, n), InOrder(f, p, q)
  PROVE  /\ Ordered(f, p \o q)
         /\ \A S, m : Complete(f, m, S, p, q)
              => Alive(f, p \o q, S) /\ \A i \in 1..m : ~IsDirective(f[i].stmt) /\ i \notin S => Has(p \o q, i)
<1> DEFINE r == p \o q
           a == Len(p)
<1>1. /\ a \in Nat /\ Len(q) \in Nat /\ Len(r) = a + Len(q)
      /\ \A k \in 1..a+Len(q) : r[k] = IF k <= a THEN p[k] ELSE q[k - a]
  BY LinesAndLines
<1> HIDE DEF r, a
<1>2. /\ \A i \in 1..a : i \in 1..Len(r) /\ r[i] = p[i]
      /\ \A i \in 1..Len(q) : a + i \in 1..Len(r) /\ r[a + i] = q[i]
  <2>1. \A i \in 1..a : i \in 1..a+Len(q) /\ i <= a
    BY <1>1
  <2>2. \A i \in 1..Len(q) : a + i \in 1..a+Len(q) /\ ~(a + i <= a) /\ (a + i) - a = i
    BY <1>1
  <2> QED
    BY <1>1, <2>1, <2>2
<1>3. \A j \in 1..Len(r) : j \in 1..a \/ \E i \in 1..Len(q) : j = a + i
  <2> SUFFICES ASSUME NEW j \in 1..Len(r), j \notin 1..a PROVE \E i \in 1..Len(q) : j = a + i
    OBVIOUS
  <2>1. j - a \in 1..Len(q) /\ j = a + (j - a)
    BY <1>1
  <2> QED
    BY <2>1
<1>4. Ordered(f, r)
  <2> SUFFICES ASSUME NEW j \in 1..Len(r), NEW h \in 1..Len(r), j < h,
                      IsAbout(f, r[j]), IsAbout(f, r[h])
               PROVE  r[j].no < r[h].no
    BY DEF Ordered
  <2>1. CASE j \in 1..a /\ h \in 1..a
    BY <1>2, <2>1 DEF InOrder, Ordered, a
  <2>2. CASE j \in 1..a /\ h \notin 1..a
    <3>1. PICK i \in 1..Len(q) : h = a + i
      BY <1>3, <2>2
    <3> QED
      BY <1>2, <2>2, <3>1 DEF InOrder, Ahead, a
  <2>3. CASE j \notin 1..a
    <3>1. PICK i \in 1..Len(q) : j = a + i
      BY <1>3, <2>3
    <3>2. h \notin 1..a
      BY <1>1, <2>3
    <3>3. PICK g \in 1..Len(q) : h = a + g
      BY <1>3, <3>2
    <3>4. i < g /\ r[j] = q[i] /\ r[h] = q[g]
      BY <1>1, <1>2, <3>1, <3>3
    <3> QED
      BY <3>4 DEF InOrder, Ordered
  <2> QED
    BY <2>1, <2>2, <2>3
<1>5. ASSUME NEW S, NEW m, Complete(f, m, S, p, q)
      PROVE  Alive(f, r, S) /\ \A i \in 1..m : ~IsDirective(f[i].stmt) /\ i \notin S => Has(r, i)
  <2>1. ASSUME NEW j \in 1..Len(r), IsAbout(f, r[j]) PROVE r[j].no \notin S
    <3>1. CASE j \in 1..a
      BY <1>2, <1>5, <2>1, <3>1 DEF Complete, Alive, a
    <3>2. CASE j \notin 1..a
      <4>1. PICK i \in 1..Len(q) : j = a + i
        BY <1>3, <3>2
      <4> QED
        BY <1>2, <1>5, <2>1, <4>1 DEF Complete, Alive
    <3> QED
      BY <3>1, <3>2
  <2>2. \A i : Has(p, i) \/ Has(q, i) => Has(r, i)
    BY <1>2 DEF Has, a
  <2> QED
    BY <1>5, <2>1, <2>2 DEF Complete, Alive, Covered
<1> QED
  BY <1>4, <1>5 DEF r

LEMMA OrderShows == TypeInv /\ OrderInv => OnceAndInOrder
<1> SUFFICES ASSUME TypeInv, OrderInv PROVE OnceAndInOrder
  OBVIOUS
<1> DEFINE n == Len(fed)
           S == lost \cup gone
           r == Stream
<1>1. n \in Nat /\ DOMAIN fed = 1..n /\ Lines(out, n) /\ Lines(buf, n) /\ Lines(<<>>, n)
  BY LenFed, LenProperties, NoLines DEF TypeInv, CallsTyped, BufferTyped
<1>2. Lines(Waiting, n)
  BY <1>1 DEF Waiting
<1>3. r = out \o Waiting
  <2>1. out \o <<>> = out
    BY <1>1, ConcatEmptySeq DEF Lines
  <2> QED
    BY <2>1 DEF Stream, Waiting
<1> HIDE DEF r, n, S
<1>4. InOrder(fed, out, Waiting)
  BY DEF OrderInv
<1>5. Lines(r, n) /\ r \in Seq(ALine) /\ DOMAIN r = 1..Len(r)
  <2>1. Lines(out \o Waiting, n)
    BY <1>1, <1>2, LinesAndLines
  <2> QED
    BY <1>3, <2>1, LenProperties DEF Lines
<1>6. /\ Ordered(fed, r)
      /\ Complete(fed, Over, S, out, Waiting)
           => Alive(fed, r, S) /\ \A i \in 1..Over : ~IsDirective(fed[i].stmt) /\ i \notin S => Has(r, i)
  BY <1>1, <1>2, <1>3, <1>4, Together
<1>7. \A k \in 1..Len(r) : IsStmt(r[k]) <=> IsAbout(fed, r[k])
  BY DEF IsStmt, IsAbout, StmtOf
<1> DEFINE put == {k \in 1..Len(r) : IsStmt(r[k])}
<1>8. \A k, h \in put : k < h => r[k].no < r[h].no
  BY <1>6, <1>7 DEF Ordered
<1>9. ASSUME pc # "wild_buf"
      PROVE  {i \in Through : ~IsDirective(fed[i].stmt)} \ S = {r[k].no : k \in put}
  <2>1. /\ Alive(fed, r, S)
        /\ \A i \in 1..Over : ~IsDirective(fed[i].stmt) /\ i \notin S => Has(r, i)
    BY <1>6, <1>9 DEF OrderInv, S
  <2>2. Lines(r, Over)
    <3>1. CASE pc \in {"idle", "done"}
      BY <1>5, <3>1 DEF Over, n
    <3>2. CASE pc \notin {"idle", "done"}
      <4>1. InCall \/ pc = "wild_pres"
        BY <1>9, <3>2 DEF TypeInv, CallsTyped, InCall
      <4>2. Lines(out, Over) /\ Lines(Waiting, Over) /\ Over \in Nat
        BY <1>1, <3>2, <4>1 DEF OrderInv, Over, Waiting, n
      <4>3. Lines(out \o Waiting, Over)
        BY <4>2, LinesAndLines
      <4> QED
        BY <1>3, <4>3
    <3> QED
      BY <3>1, <3>2
  <2>3. Through = 1..Over
    <3>1. CASE pc \in {"idle", "done"}
      BY <1>1, <3>1 DEF Through, Over, n
    <3>2. CASE pc \notin {"idle", "done"}
      BY <1>1, <3>2 DEF Through, Over, n
    <3> QED
      BY <3>1, <3>2
  <2>4. ASSUME NEW i \in Through, ~IsDirective(fed[i].stmt), i \notin S
        PROVE  i \in {r[k].no : k \in put}
    <3>1. i \in 1..Over
      BY <2>3
    <3>2. PICK k \in 1..Len(r) : r[k].no = i
      BY <2>1, <2>4, <3>1 DEF Has
    <3>3. i # 0
      BY <3>1
    <3>4. k \in put
      BY <2>4, <3>2, <3>3 DEF IsStmt, StmtOf
    <3> QED
      BY <3>2, <3>4
  <2>5. ASSUME NEW k \in put
        PROVE  r[k].no \in Through /\ ~IsDirective(fed[r[k].no].stmt) /\ r[k].no \notin S
    <3>1. k \in 1..Len(r) /\ IsStmt(r[k]) /\ IsAbout(fed, r[k])
      BY <1>7
    <3>2. r[k].no \notin S
      BY <2>1, <3>1 DEF Alive
    <3>3. r[k] \in ALine /\ r[k].no <= Over
      BY <1>5, <2>2, <3>1, ElementOfSeq DEF Lines
    <3>4. r[k].no # 0 /\ ~IsDirective(fed[r[k].no].stmt)
      BY <3>1 DEF IsStmt, StmtOf
    <3>5. Over \in Nat
      BY <1>1, <1>9 DEF Over, OrderInv, InCall, TypeInv, CallsTyped, n
    <3>6. r[k].no \in 1..Over
      BY <3>3, <3>4, <3>5 DEF ALine
    <3> QED
      BY <2>3, <3>2, <3>4, <3>6
  <2> HIDE DEF put
  <2> QED
    BY <2>4, <2>5
<1> QED
  BY <1>5, <1>8, <1>9 DEF OnceAndInOrder, r, S

\* Each statement that was not dropped for want of memory is in the output once and in
\* order, across all flushes, growths, failed writes and inputs
\* (ttl-prefixify.c:330-334, :387-417).
THEOREM EachOnceAndInOrder == Spec => []OnceAndInOrder
<1>1. Init => TypeInv /\ OrderInv
  BY TypeInit, OrderInit
<1>2. (TypeInv /\ OrderInv) /\ [Next]_vars => (TypeInv /\ OrderInv)'
  BY TypeStep, OrderStep
<1> QED
  BY <1>1, <1>2, OrderShows, PTL DEF Spec

---------------------------------------------------------------------------
(* What a line declares.                                                   *)

LEMMA FirstHits ==
  ASSUME NEW s, Len(s) \in Nat, NEW c, NEW j \in Nat, NEW m \in j..Len(s), s[m] = c,
         \A i \in j..m-1 : s[i] # c
  PROVE  First(s, c, j) = m
<1> DEFINE S == {i \in j..Len(s) : s[i] = c}
<1>1. S \subseteq Nat /\ m \in S
  OBVIOUS
<1>2. \A y \in S : m <= y
  <2> SUFFICES ASSUME NEW y \in S, ~(m <= y) PROVE FALSE
    OBVIOUS
  <2>1. y \in j..m-1 /\ s[y] = c
    OBVIOUS
  <2> QED
    BY <2>1
<1> HIDE DEF S
<1>3. Min(S) = m /\ S # {}
  BY <1>1, <1>2, MinIs
<1>4. First(s, c, j) = IF S = {} THEN 0 ELSE Min(S)
  BY Zenon DEF First, S
<1> QED
  BY <1>3, <1>4

\* Two texts, one behind the other.
LEMMA Joined ==
  ASSUME NEW S, NEW p \in Seq(S), NEW q \in Seq(S)
  PROVE  /\ p \o q \in Seq(S) /\ Len(p) \in Nat /\ Len(q) \in Nat /\ Len(p \o q) = Len(p) + Len(q)
         /\ \A i \in 1..Len(p) : (p \o q)[i] = p[i]
         /\ \A i \in 1..Len(q) : (p \o q)[Len(p) + i] = q[i]
<1>1. /\ p \o q \in Seq(S) /\ Len(p) \in Nat /\ Len(q) \in Nat /\ Len(p \o q) = Len(p) + Len(q)
      /\ \A i \in 1..Len(p) + Len(q) : (p \o q)[i] = IF i <= Len(p) THEN p[i] ELSE q[i - Len(p)]
  BY ConcatProperties, LenProperties
<1>2. ASSUME NEW i \in 1..Len(p) PROVE i \in 1..Len(p) + Len(q) /\ i <= Len(p)
  BY <1>1
<1>3. ASSUME NEW i \in 1..Len(q)
      PROVE  Len(p) + i \in 1..Len(p) + Len(q) /\ ~(Len(p) + i <= Len(p)) /\ (Len(p) + i) - Len(p) = i
  BY <1>1
<1> QED
  BY <1>1, <1>2, <1>3

\* The characters of a declaration.
LEMMA DeclarationAt ==
  ASSUME NEW b \in Prefix
  PROVE  LET d == Declaration(b)
             P == Len(b.prfx)
             U == Len(b.puri)
         IN  /\ d \in Seq(Sign) /\ Len(d) = P + U + 8 /\ P \in Nat /\ U \in Nat
             /\ d[1] = "@prefix" /\ \A i \in 1..P : d[1 + i] = b.prfx[i]
             /\ d[P + 2] = ":" /\ d[P + 3] = " " /\ d[P + 4] = "<"
             /\ \A i \in 1..U : d[(P + 4) + i] = b.puri[i]
             /\ d[(P + U) + 5] = ">"
<1> DEFINE A == <<"@prefix">>
           C == <<":", " ", "<">>
           E == <<">", " ", ".", "\n">>
           p == b.prfx
           u == b.puri
           P == Len(p)
           U == Len(u)
           V == A \o p
           W == V \o C
           X == W \o u
<1>1. p \in Seq(Sign) /\ u \in Seq(Sign) /\ P \in Nat /\ U \in Nat
  BY Uris, LenProperties
<1>2. A \in Seq(Sign) /\ C \in Seq(Sign) /\ E \in Seq(Sign)
  BY DEF Sign
<1>3. Len(A) = 1 /\ A[1] = "@prefix"
  OBVIOUS
<1>4. Len(C) = 3 /\ C[1] = ":" /\ C[2] = " " /\ C[3] = "<"
  OBVIOUS
<1>5. Len(E) = 4 /\ E[1] = ">"
  OBVIOUS
<1>6. Declaration(b) = X \o E
  BY DEF Declaration
<1>j. \A v, w \in Seq(Sign) :
        /\ v \o w \in Seq(Sign) /\ Len(v \o w) = Len(v) + Len(w)
        /\ \A i \in 1..Len(v) : (v \o w)[i] = v[i]
        /\ \A i \in 1..Len(w) : (v \o w)[Len(v) + i] = w[i]
  BY Joined
<1> HIDE DEF A, C, E, p, u
<1>7. /\ V \in Seq(Sign) /\ Len(V) = 1 + P
      /\ \A i \in 1..1 : V[i] = A[i]
      /\ \A i \in 1..P : V[1 + i] = p[i]
  <2>1. /\ A \o p \in Seq(Sign) /\ Len(A \o p) = Len(A) + Len(p)
        /\ \A i \in 1..Len(A) : (A \o p)[i] = A[i]
        /\ \A i \in 1..Len(p) : (A \o p)[Len(A) + i] = p[i]
    BY <1>1, <1>2, Joined
  <2> QED
    BY <1>3, <2>1, Zenon
<1> HIDE DEF V
<1>8. /\ W \in Seq(Sign) /\ Len(W) = (1 + P) + 3
      /\ \A i \in 1..1+P : W[i] = V[i]
      /\ \A i \in 1..3 : W[(1 + P) + i] = C[i]
  <2>1. /\ V \o C \in Seq(Sign) /\ Len(V \o C) = Len(V) + Len(C)
        /\ \A i \in 1..Len(V) : (V \o C)[i] = V[i]
        /\ \A i \in 1..Len(C) : (V \o C)[Len(V) + i] = C[i]
    <3>1. V \in Seq(Sign) /\ C \in Seq(Sign)
      BY <1>2, <1>7
    <3> QED
      BY <3>1, <1>j, Zenon
  <2> QED
    <3>1. Len(V) = 1 + P /\ Len(C) = 3
      BY <1>4, <1>7
    <3> QED
      BY <2>1, <3>1, Zenon
<1> HIDE DEF W
<1>9. /\ X \in Seq(Sign) /\ Len(X) = ((1 + P) + 3) + U
      /\ \A i \in 1..(1+P)+3 : X[i] = W[i]
      /\ \A i \in 1..U : X[((1 + P) + 3) + i] = u[i]
  <2>1. /\ W \o u \in Seq(Sign) /\ Len(W \o u) = Len(W) + Len(u)
        /\ \A i \in 1..Len(W) : (W \o u)[i] = W[i]
        /\ \A i \in 1..Len(u) : (W \o u)[Len(W) + i] = u[i]
    <3>1. W \in Seq(Sign) /\ u \in Seq(Sign)
      BY <1>1, <1>8
    <3> QED
      BY <3>1, <1>j, Zenon
  <2> QED
    BY <1>8, <2>1, Zenon
<1> HIDE DEF X
<1> DEFINE d == X \o E
<1>10. /\ d \in Seq(Sign) /\ Len(d) = (((1 + P) + 3) + U) + 4
       /\ \A i \in 1..((1+P)+3)+U : d[i] = X[i]
       /\ \A i \in 1..4 : d[(((1 + P) + 3) + U) + i] = E[i]
  <2>1. /\ X \o E \in Seq(Sign) /\ Len(X \o E) = Len(X) + Len(E)
        /\ \A i \in 1..Len(X) : (X \o E)[i] = X[i]
        /\ \A i \in 1..Len(E) : (X \o E)[Len(X) + i] = E[i]
    <3>1. X \in Seq(Sign) /\ E \in Seq(Sign)
      BY <1>2, <1>9
    <3> QED
      BY <3>1, <1>j, Zenon
  <2> QED
    BY <1>5, <1>9, <2>1, Zenon
<1>0. P \in Nat /\ U \in Nat
  BY <1>1
<1> HIDE DEF d, P, U
<1>11. ASSUME NEW i \in 1..1+P PROVE d[i] = V[i]
  <2>1. i \in 1..(1+P)+3 /\ i \in 1..((1+P)+3)+U
    BY <1>0
  <2> QED
    BY <1>8, <1>9, <1>10, <2>1
<1>12. ASSUME NEW i \in 1..3 PROVE d[(1 + P) + i] = C[i]
  <2>1. (1 + P) + i \in 1..(1+P)+3 /\ (1 + P) + i \in 1..((1+P)+3)+U
    BY <1>0
  <2> QED
    BY <1>8, <1>9, <1>10, <2>1
<1>13. ASSUME NEW i \in 1..U PROVE d[(P + 4) + i] = u[i]
  <2>1. ((1 + P) + 3) + i \in 1..((1+P)+3)+U /\ (P + 4) + i = ((1 + P) + 3) + i
    BY <1>0
  <2> QED
    BY <1>9, <1>10, <2>1
<1>14. d[1] = "@prefix" /\ \A i \in 1..P : d[1 + i] = p[i]
  <2>1. 1 \in 1..1+P /\ 1 \in 1..1 /\ \A i \in 1..P : 1 + i \in 1..1+P
    BY <1>0
  <2> QED
    BY <1>3, <1>7, <1>11, <2>1
<1>15. d[P + 2] = ":" /\ d[P + 3] = " " /\ d[P + 4] = "<"
  <2>1. P + 2 = (1 + P) + 1 /\ P + 3 = (1 + P) + 2 /\ P + 4 = (1 + P) + 3
    BY <1>0
  <2>2. d[(1 + P) + 1] = C[1] /\ d[(1 + P) + 2] = C[2] /\ d[(1 + P) + 3] = C[3]
    BY <1>12
  <2> QED
    BY <1>4, <2>1, <2>2
<1>16. d[(P + U) + 5] = ">" /\ Len(d) = P + U + 8
  <2>1. (P + U) + 5 = (((1 + P) + 3) + U) + 1 /\ (((1 + P) + 3) + U) + 4 = P + U + 8
    BY <1>0
  <2>2. d[(((1 + P) + 3) + U) + 1] = E[1]
    BY <1>10
  <2> QED
    BY <1>5, <1>10, <2>1, <2>2
<1>17. Declaration(b) = d
  BY <1>6 DEF d
<1> QED
  BY <1>1, <1>10, <1>13, <1>14, <1>15, <1>16, <1>17 DEF P, U, p, u

\* What is pushed for an entry of the table declares it.
LEMMA DeclarationDeclares ==
  ASSUME NEW b \in Prefix, \A x \in 1..Len(b.prfx) : b.prfx[x] # ":"
  PROVE  Declares(Declaration(b)) /\ Binding(Declaration(b)) = b
<1> DEFINE d == Declaration(b)
           P == Len(b.prfx)
           U == Len(b.puri)
<1>1. /\ d \in Seq(Sign) /\ Len(d) = P + U + 8 /\ P \in Nat /\ U \in Nat
      /\ d[1] = "@prefix" /\ \A i \in 1..P : d[1 + i] = b.prfx[i]
      /\ d[P + 2] = ":" /\ d[P + 3] = " " /\ d[P + 4] = "<"
      /\ \A i \in 1..U : d[(P + 4) + i] = b.puri[i]
      /\ d[(P + U) + 5] = ">"
  BY DeclarationAt
<1>0. P \in Nat /\ U \in Nat /\ Len(d) = P + U + 8
  BY <1>1
<1>2. \A i \in 1..U : b.puri[i] # ">"
  BY Uris
<1> DEFINE n == Len(d)
<1> HIDE DEF d, P, U
<1>a. n = P + U + 8 /\ n = Len(d)
  BY <1>0 DEF n
<1> HIDE DEF n
<1>e. \A i \in 1..Len(d) : d[i] \in Sign
  BY <1>1, ElementOfSeq
<1>3. Colon(d) = P + 2
  <2>1. P + 2 \in 2..Len(d) /\ Len(d) \in Nat
    <3>1. P + 2 \in 2..n /\ n \in Nat
      BY <1>0, <1>a
    <3> QED
      BY <1>a, <3>1, Zenon
  <2>2. ASSUME NEW i \in 2..(P + 2)-1 PROVE d[i] # ":"
    <3>1. i - 1 \in 1..P /\ 1 + (i - 1) = i
      BY <1>0
    <3>2. d[i] = b.prfx[i - 1]
      BY <1>1, <3>1
    <3> QED
      BY <3>1, <3>2 DEF P
  <2>3. First(d, ":", 2) = P + 2
    BY <1>1, <2>1, <2>2, FirstHits
  <2> QED
    BY <2>3 DEF Colon
<1>4. Open(d) = P + 4
  <2>1. P + 4 \in (P + 2)..Len(d) /\ Len(d) \in Nat /\ P + 2 \in Nat
    <3>1. P + 4 \in (P + 2)..n /\ n \in Nat /\ P + 2 \in Nat
      BY <1>0, <1>a
    <3> QED
      BY <1>a, <3>1, Zenon
  <2>2. ASSUME NEW i \in (P + 2)..(P + 4)-1 PROVE d[i] # "<"
    <3>1. i = P + 2 \/ i = P + 3
      BY <1>0
    <3> QED
      BY <1>1, <3>1
  <2>3. First(d, "<", P + 2) = P + 4
    BY <1>1, <2>1, <2>2, FirstHits
  <2> QED
    BY <1>3, <2>3 DEF Open
<1>5. Close(d) = (P + U) + 5
  <2>1. (P + U) + 5 \in (P + 4)..Len(d) /\ Len(d) \in Nat /\ P + 4 \in Nat
    <3>1. (P + U) + 5 \in (P + 4)..n /\ n \in Nat /\ P + 4 \in Nat
      BY <1>0, <1>a
    <3> QED
      BY <1>a, <3>1, Zenon
  <2>2. ASSUME NEW i \in (P + 4)..((P + U) + 5)-1 PROVE d[i] # ">"
    <3>1. CASE i = P + 4
      BY <1>1, <3>1
    <3>2. CASE i # P + 4
      <4>1. i - (P + 4) \in 1..U /\ (P + 4) + (i - (P + 4)) = i
        BY <1>0, <3>2
      <4> QED
        BY <1>1, <1>2, <4>1
    <3> QED
      BY <3>1, <3>2
  <2>3. First(d, ">", P + 4) = (P + U) + 5
    BY <1>1, <2>1, <2>2, FirstHits
  <2> QED
    BY <1>4, <2>3 DEF Close
<1>6. Declares(d)
  <2>1. P + 2 # 0 /\ P + 4 # 0 /\ (P + U) + 5 # 0
    BY <1>0
  <2> QED
    BY <1>1, <1>3, <1>4, <1>5, <2>1 DEF Declares
<1>7. SubSeq(d, 2, Colon(d) - 1) = b.prfx
  <2> DEFINE v == SubSeq(d, 2, P + 1)
  <2>1. P + 1 \in Int /\ \A i \in 2..P+1 : d[i] \in Sign
    <3>1. P + 1 \in Int /\ \A i \in 2..P+1 : i \in 1..Len(d)
      BY <1>0, <1>a
    <3> QED
      BY <1>e, <3>1, Zenon
  <2>2. /\ v \in Seq(Sign) /\ Len(v) = (IF 2 <= P + 1 THEN (P + 1) - 2 + 1 ELSE 0)
        /\ \A i \in 1..(P + 1) - 2 + 1 : v[i] = d[2 + i - 1]
    BY <2>1, SubSeqProperties
  <2>3. /\ (IF 2 <= P + 1 THEN (P + 1) - 2 + 1 ELSE 0) = P
        /\ \A i \in 1..P : i \in 1..(P + 1) - 2 + 1 /\ 2 + i - 1 = 1 + i
    BY <1>0
  <2> HIDE DEF v
  <2>4. Len(v) = P /\ \A i \in 1..P : v[i] = b.prfx[i]
    <3>1. ASSUME NEW i \in 1..P PROVE v[i] = d[1 + i]
      <4>1. i \in 1..(P + 1) - 2 + 1 /\ 2 + i - 1 = 1 + i
        BY <1>0
      <4>2. v[i] = d[2 + i - 1]
        BY <2>2, <4>1
      <4> QED
        BY <4>1, <4>2
    <3>2. Len(v) = P
      <4>1. Len(v) = (IF 2 <= P + 1 THEN (P + 1) - 2 + 1 ELSE 0)
        BY <2>2
      <4> QED
        BY <1>0, <4>1
    <3> QED
      BY <1>1, <3>1, <3>2, Zenon
  <2>5. v = b.prfx
    <3>1. b.prfx \in Seq(Sign) /\ Len(b.prfx) = P
      BY Uris DEF P
    <3> QED
      BY <2>2, <2>4, <3>1, SeqEqual
  <2>6. Colon(d) - 1 = P + 1
    BY <1>0, <1>3
  <2> QED
    BY <2>5, <2>6 DEF v
<1>8. SubSeq(d, Open(d) + 1, Close(d) - 1) = b.puri
  <2> DEFINE lo == P + 5
             hi == (P + U) + 4
             v  == SubSeq(d, lo, hi)
  <2>0. lo \in Nat /\ hi \in Nat /\ hi - lo + 1 = U /\ (lo <= hi <=> U > 0)
    BY <1>0
  <2>1. \A i \in lo..hi : d[i] \in Sign
    <3>1. \A i \in lo..hi : i \in 1..Len(d)
      BY <1>0, <1>a
    <3> QED
      BY <1>e, <3>1, Zenon
  <2>3. \A i \in 1..U : lo + i - 1 = (P + 4) + i
    BY <1>0
  <2>6. Open(d) + 1 = lo /\ Close(d) - 1 = hi
    BY <1>0, <1>4, <1>5
  <2> HIDE DEF lo, hi
  <2>2. /\ v \in Seq(Sign) /\ Len(v) = (IF lo <= hi THEN hi - lo + 1 ELSE 0)
        /\ \A i \in 1..hi - lo + 1 : v[i] = d[lo + i - 1]
    BY <2>0, <2>1, SubSeqProperties
  <2> HIDE DEF v
  <2>4. Len(v) = U /\ \A i \in 1..U : v[i] = b.puri[i]
    <3>1. (IF lo <= hi THEN hi - lo + 1 ELSE 0) = U
      BY <1>0, <2>0
    <3>2. \A i \in 1..U : v[i] = d[(P + 4) + i]
      BY <2>0, <2>2, <2>3, Zenon
    <3> QED
      BY <1>1, <2>2, <3>1, <3>2, Zenon
  <2>5. v = b.puri
    <3>1. b.puri \in Seq(Sign) /\ Len(b.puri) = U
      BY Uris DEF U
    <3> QED
      BY <2>2, <2>4, <3>1, SeqEqual
  <2> QED
    BY <2>5, <2>6 DEF v
<1>9. Binding(d) = [prfx |-> b.prfx, puri |-> b.puri]
  BY <1>7, <1>8 DEF Binding
<1>10. b = [prfx |-> b.prfx, puri |-> b.puri]
  BY DEF Prefix
<1> QED
  BY <1>6, <1>9, <1>10 DEF d

LEMMA FirstIsNone ==
  ASSUME NEW s, Len(s) \in Nat, NEW c, NEW j \in Nat, \A i \in j..Len(s) : s[i] # c
  PROVE  First(s, c, j) = 0
<1> DEFINE S == {i \in j..Len(s) : s[i] = c}
<1>1. S = {}
  OBVIOUS
<1>2. First(s, c, j) = IF S = {} THEN 0 ELSE Min(S)
  BY Zenon DEF First, S
<1> QED
  BY <1>1, <1>2

\* The newline behind a directive is not looked for.
LEMMA FirstExtended ==
  ASSUME NEW s \in Seq(Char), NEW t, Len(t) \in Nat, Len(t) = Len(s) + 1,
         \A i \in 1..Len(s) : t[i] = s[i], t[Len(s) + 1] = "\n",
         NEW c, c # "\n", NEW j \in Nat, j >= 1
  PROVE  First(t, c, j) = First(s, c, j)
<1> DEFINE n == Len(s)
           m == First(s, c, j)
<1>0. n \in Nat /\ n = Len(s)
  BY LenProperties
<1>1. CASE m # 0
  <2>1. m \in j..n /\ s[m] = c /\ \A i \in j..m-1 : s[i] # c
    BY <1>1, FirstIs
  <2> HIDE DEF m, n
  <2>2. m \in j..Len(t) /\ t[m] = c
    BY <1>0, <2>1
  <2>3. \A i \in j..m-1 : t[i] # c
    <3>1. \A i \in j..m-1 : i \in 1..n
      BY <1>0, <2>1
    <3> QED
      BY <1>0, <2>1, <3>1
  <2>4. First(t, c, j) = m
    BY <2>2, <2>3, FirstHits
  <2> QED
    BY <2>4 DEF m
<1>2. CASE m = 0
  <2>1. ASSUME NEW i \in j..n, s[i] = c PROVE FALSE
    <3> DEFINE S == {h \in j..Len(s) : s[h] = c}
    <3>1. i \in S /\ S \subseteq Nat
      BY <1>0, <2>1
    <3>2. m = IF S = {} THEN 0 ELSE Min(S)
      BY Zenon DEF First, S
    <3>5. \A h \in S : h >= 1
      BY <1>0
    <3> HIDE DEF S, m
    <3>3. m = Min(S) /\ Min(S) \in S
      BY <3>1, <3>2, MinOf
    <3> QED
      BY <1>2, <3>3, <3>5
  <2>2. ASSUME NEW i \in j..Len(t) PROVE t[i] # c
    <3>1. i \in j..n \/ i = n + 1
      BY <1>0
    <3>2. CASE i \in j..n
      BY <1>0, <2>1, <3>2
    <3>3. CASE i = n + 1
      BY <1>0, <3>3
    <3> QED
      BY <3>1, <3>2, <3>3
  <2>3. First(t, c, j) = 0
    BY <2>2, FirstIsNone
  <2> QED
    BY <1>2, <2>3
<1> QED
  BY <1>1, <1>2

LEMMA FirstNat ==
  ASSUME NEW s \in Seq(Char), NEW c, NEW j \in Nat
  PROVE  First(s, c, j) \in Nat /\ (First(s, c, j) # 0 => First(s, c, j) >= j /\ First(s, c, j) <= Len(s))
<1>1. CASE First(s, c, j) # 0
  <2>1. First(s, c, j) \in j..Len(s) /\ Len(s) \in Nat
    BY <1>1, FirstIs, LenProperties
  <2> QED
    BY <2>1
<1> QED
  BY <1>1

\* A line declares what the directive on it does.
LEMMA LineDeclares ==
  ASSUME NEW s \in Seq(Char), Len(s) >= 1
  PROVE  LET t == s \o <<"\n">>
         IN  (Declares(t) <=> Declares(s)) /\ (Declares(s) => Binding(t) = Binding(s))
<1> DEFINE e == <<"\n">>
           t == s \o e
           n == Len(s)
<1> SUFFICES (Declares(t) <=> Declares(s)) /\ (Declares(s) => Binding(t) = Binding(s))
  OBVIOUS
<1>j. \A v, w \in Seq(Sign) :
        /\ v \o w \in Seq(Sign) /\ Len(v) \in Nat /\ Len(v \o w) = Len(v) + Len(w)
        /\ \A i \in 1..Len(v) : (v \o w)[i] = v[i]
        /\ \A i \in 1..Len(w) : (v \o w)[Len(v) + i] = w[i]
  BY Joined
<1>1. s \in Seq(Sign) /\ e \in Seq(Sign) /\ Len(e) = 1 /\ e[1] = "\n"
  BY Texts, Newline
<1> HIDE DEF e
<1>2. /\ t \in Seq(Sign) /\ n \in Nat /\ Len(t) = n + 1
      /\ \A i \in 1..n : t[i] = s[i]
      /\ t[n + 1] = "\n"
  <2>1. /\ t \in Seq(Sign) /\ Len(s) \in Nat /\ Len(t) = Len(s) + Len(e)
        /\ \A i \in 1..Len(s) : t[i] = s[i]
        /\ \A i \in 1..Len(e) : t[Len(s) + i] = e[i]
    BY <1>1, <1>j, Zenon
  <2> HIDE DEF t
  <2> QED
    BY <1>1, <2>1
<1> HIDE DEF t
<1>3. t[1] = s[1] /\ Len(t) \in Nat /\ Len(t) = Len(s) + 1
  BY <1>2
<1>4. \A c : \A j \in Nat : c # "\n" /\ j >= 1 => First(t, c, j) = First(s, c, j)
  BY <1>2, <1>3, FirstExtended
<1>5. Colon(t) = Colon(s)
  BY <1>4 DEF Colon
<1>6. CASE Colon(s) = 0
  BY <1>5, <1>6 DEF Declares
<1>7. CASE Colon(s) # 0
  <2>1. Colon(s) \in Nat /\ Colon(s) >= 1
    BY <1>7, FirstNat DEF Colon
  <2>2. Open(t) = Open(s)
    BY <1>4, <1>5, <2>1 DEF Open
  <2>3. CASE Open(s) = 0
    BY <2>2, <2>3 DEF Declares
  <2>4. CASE Open(s) # 0
    <3>1. Open(s) \in Nat /\ Open(s) >= 1
      BY <2>1, <2>4, FirstNat DEF Open
    <3>2. Close(t) = Close(s)
      BY <1>4, <2>2, <3>1 DEF Close
    <3>3. Declares(t) <=> Declares(s)
      BY <1>3, <1>5, <2>2, <3>2 DEF Declares
    <3>4. ASSUME Declares(s) PROVE Binding(t) = Binding(s)
      <4>1. s[1] = "@prefix" /\ Colon(s) # 0 /\ Open(s) # 0 /\ Close(s) # 0
        BY <3>4 DEF Declares
      <4>2. Colon(s) \in 2..n /\ Open(s) \in 1..n /\ Close(s) \in 1..n
        <5>1. Colon(s) >= 2 /\ Colon(s) <= Len(s)
          BY <4>1, FirstNat DEF Colon
        <5>2. Open(s) <= Len(s)
          BY <2>1, <4>1, FirstNat DEF Open
        <5>3. Close(s) >= Open(s) /\ Close(s) <= Len(s) /\ Close(s) \in Nat
          BY <3>1, <4>1, FirstNat DEF Close
        <5> QED
          BY <1>2, <2>1, <3>1, <5>1, <5>2, <5>3
      <4>3. ASSUME NEW lo \in Nat, NEW hi \in Int, lo >= 1, hi <= n
            PROVE  SubSeq(t, lo, hi) = SubSeq(s, lo, hi)
        <5>1. \A i \in lo..hi : i \in 1..n
          BY <1>2, <4>3
        <5>2. \A i \in lo..hi : s[i] \in Sign /\ t[i] \in Sign /\ t[i] = s[i]
          <6>1. \A i \in 1..n : s[i] \in Sign
            BY Texts
          <6> QED
            BY <1>2, <5>1, <6>1
        <5> DEFINE v == SubSeq(s, lo, hi)
                   w == SubSeq(t, lo, hi)
        <5>3. /\ v \in Seq(Sign) /\ Len(v) = (IF lo <= hi THEN hi - lo + 1 ELSE 0)
              /\ \A i \in 1..hi - lo + 1 : v[i] = s[lo + i - 1]
          BY <5>2, SubSeqProperties
        <5>4. /\ w \in Seq(Sign) /\ Len(w) = (IF lo <= hi THEN hi - lo + 1 ELSE 0)
              /\ \A i \in 1..hi - lo + 1 : w[i] = t[lo + i - 1]
          BY <5>2, SubSeqProperties
        <5> HIDE DEF v, w
        <5>5. ASSUME NEW i \in 1..Len(v) PROVE v[i] = w[i]
          <6>1. i \in 1..hi - lo + 1 /\ lo + i - 1 \in lo..hi
            BY <5>3
          <6> QED
            BY <5>2, <5>3, <5>4, <6>1
        <5>6. v = w
          BY <5>3, <5>4, <5>5, SeqEqual
        <5> QED
          BY <5>6 DEF v, w
      <4>4. SubSeq(t, 2, Colon(s) - 1) = SubSeq(s, 2, Colon(s) - 1)
        <5>1. Colon(s) - 1 \in Int /\ Colon(s) - 1 <= n
          BY <1>2, <4>2
        <5> QED
          BY <4>3, <5>1, SMTT(30)
      <4>5. SubSeq(t, Open(s) + 1, Close(s) - 1) = SubSeq(s, Open(s) + 1, Close(s) - 1)
        <5>1. Open(s) + 1 \in Nat /\ Open(s) + 1 >= 1 /\ Close(s) - 1 \in Int /\ Close(s) - 1 <= n
          BY <1>2, <4>2
        <5> QED
          BY <4>3, <5>1
      <4> QED
        BY <1>5, <2>2, <3>2, <4>4, <4>5 DEF Binding
    <3> QED
      BY <3>3, <3>4
  <2> QED
    BY <2>3, <2>4
<1> QED
  BY <1>6, <1>7

\* The newline before a statement.
LEMMA StatementDeclaresNot ==
  ASSUME NEW s \in Seq(Sign)
  PROVE  ~Declares(<<"\n">> \o s \o <<"\n">>)
<1> DEFINE e == <<"\n">>
           v == e \o s
           t == v \o e
<1>1. e \in Seq(Sign) /\ Len(e) = 1 /\ e[1] = "\n"
  BY Newline
<1> HIDE DEF e
<1>2. /\ v \in Seq(Sign) /\ Len(v) = Len(e) + Len(s) /\ Len(s) \in Nat /\ Len(e) \in Nat
      /\ \A i \in 1..Len(e) : v[i] = e[i]
  BY <1>1, Joined
<1> HIDE DEF v
<1>3. \A i \in 1..Len(v) : t[i] = v[i]
  BY <1>1, <1>2, Joined
<1>4. 1 \in 1..Len(e) /\ 1 \in 1..Len(v)
  BY <1>1, <1>2
<1> HIDE DEF t
<1>5. t[1] = "\n"
  BY <1>1, <1>2, <1>3, <1>4
<1>6. ~Declares(t)
  BY <1>5 DEF Declares
<1> QED
  BY <1>6 DEF t, v, e

---------------------------------------------------------------------------
(* What is in force.  A line says a binding if it declares it, and touches *)
(* it if it declares its name, for whatever URI.                           *)

Says(l, b)    == Declares(l.text) /\ Binding(l.text) = b
Touches(l, b) == Declares(l.text) /\ Binding(l.text).prfx = b.prfx

\* b is in force after the first n lines of q.
InEffect(q, n, b) == \E i \in 1..n : Says(q[i], b) /\ \A h \in i+1..n : ~Touches(q[h], b)

\* Each statement of f that is in q has its table in force before it.
DeclaredAt(q, k) == \A i \in 1..Len(q[k].tab) : InEffect(q, k - 1, q[k].tab[i])
Sound(f, q) == \A k \in 1..Len(q) : IsAbout(f, q[k]) => DeclaredAt(q, k)

\* r is q and a further line.
Grown(q, r, l) == Len(r) = Len(q) + 1 /\ (\A k \in 1..Len(q) : r[k] = q[k]) /\ r[Len(q) + 1] = l

LEMMA EffectSame ==
  ASSUME NEW q, NEW r, NEW n \in Nat, \A k \in 1..n : r[k] = q[k], NEW b, InEffect(q, n, b)
  PROVE  InEffect(r, n, b)
<1>1. PICK i \in 1..n : Says(q[i], b) /\ \A h \in i+1..n : ~Touches(q[h], b)
  BY DEF InEffect
<1>2. r[i] = q[i] /\ \A h \in i+1..n : h \in 1..n /\ r[h] = q[h]
  OBVIOUS
<1>3. Says(r[i], b) /\ \A h \in i+1..n : ~Touches(r[h], b)
  BY <1>1, <1>2, Zenon
<1> QED
  BY <1>3 DEF InEffect

\* A binding stays in force until its name is declared again, and comes into force when
\* it is declared.
LEMMA EffectGrown ==
  ASSUME NEW q, NEW r, NEW l, Len(q) \in Nat, Grown(q, r, l), NEW b
  PROVE  /\ Says(l, b) => InEffect(r, Len(r), b)
         /\ InEffect(q, Len(q), b) /\ ~Touches(l, b) => InEffect(r, Len(r), b)
<1> DEFINE n == Len(q)
<1>1. /\ n \in Nat /\ n = Len(q) /\ Len(r) = n + 1 /\ (\A k \in 1..n : r[k] = q[k])
      /\ r[n + 1] = l
  BY DEF Grown
<1> HIDE DEF n
<1>2. ASSUME Says(l, b) PROVE InEffect(r, n + 1, b)
  <2>1. n + 1 \in 1..n+1 /\ \A h \in (n + 1)+1..n+1 : FALSE
    BY <1>1
  <2> QED
    BY <1>1, <1>2, <2>1 DEF InEffect
<1>3. ASSUME InEffect(q, n, b), ~Touches(l, b) PROVE InEffect(r, n + 1, b)
  <2>1. PICK i \in 1..n : Says(r[i], b) /\ \A h \in i+1..n : ~Touches(r[h], b)
    BY <1>1, <1>3, EffectSame DEF InEffect
  <2>2. i \in 1..n+1 /\ \A h \in i+1..n+1 : h \in i+1..n \/ h = n + 1
    BY <1>1
  <2>3. \A h \in i+1..n+1 : ~Touches(r[h], b)
    BY <1>1, <1>3, <2>1, <2>2, Zenon
  <2> QED
    BY <2>1, <2>2, <2>3 DEF InEffect
<1> QED
  BY <1>1, <1>2, <1>3

\* The text of the definitions.
LEMMA InForceIs ==
  ASSUME NEW n \in Nat, NEW q, Lines(q, n), NEW k \in 0..Len(q), NEW b, InEffect(q, k, b)
  PROVE  InForce(SubSeq(q, 1, k), b)
<1> DEFINE v == SubSeq(q, 1, k)
<1>1. Lines(v, n) /\ Len(v) = k /\ \A i \in 1..k : v[i] = q[i]
  BY FirstLines
<1>0. k \in Nat
  BY LenProperties DEF Lines
<1> HIDE DEF v
<1>2. DOMAIN v = 1..k
  BY <1>1, LenProperties DEF Lines
<1>3. PICK i \in 1..k : Says(v[i], b) /\ \A h \in i+1..k : ~Touches(v[h], b)
  BY <1>0, <1>1, EffectSame DEF InEffect
<1>4. InForce(v, b)
  BY <1>1, <1>2, <1>3 DEF InForce, Says, Touches
<1> QED
  BY <1>4 DEF v

\* A further line, and a further call.
LEMMA SoundGrown ==
  ASSUME NEW f, NEW q, NEW r, NEW l, Len(q) \in Nat, Grown(q, r, l), Sound(f, q),
         IsAbout(f, l) => \A i \in 1..Len(l.tab) : InEffect(q, Len(q), l.tab[i])
  PROVE  Sound(f, r)
<1> DEFINE n == Len(q)
<1>1. /\ n \in Nat /\ n = Len(q) /\ Len(r) = n + 1 /\ (\A k \in 1..n : r[k] = q[k])
      /\ r[n + 1] = l
  BY DEF Grown
<1> HIDE DEF n
<1> SUFFICES ASSUME NEW k \in 1..n+1, IsAbout(f, r[k]), NEW i \in 1..Len(r[k].tab)
             PROVE  InEffect(r, k - 1, r[k].tab[i])
  BY <1>1 DEF Sound, DeclaredAt
<1>2. k - 1 \in Nat /\ \A h \in 1..k-1 : h \in 1..n
  BY <1>1
<1>3. InEffect(q, k - 1, r[k].tab[i])
  <2>1. CASE k \in 1..n
    <3>1. r[k] = q[k] /\ IsAbout(f, q[k])
      BY <1>1, <2>1
    <3>2. DeclaredAt(q, k)
      BY <1>1, <2>1, <3>1 DEF Sound
    <3> QED
      BY <3>1, <3>2 DEF DeclaredAt
  <2>2. CASE k = n + 1
    <3>1. k - 1 = n /\ r[k] = l
      BY <1>1, <2>2
    <3> QED
      BY <1>1, <3>1
  <2> QED
    BY <1>1, <2>1, <2>2
<1>4. \A h \in 1..k-1 : r[h] = q[h]
  BY <1>1, <1>2
<1> QED
  BY <1>2, <1>3, <1>4, EffectSame

LEMMA AboutCalled ==
  ASSUME NEW f \in Seq(Call1), NEW c \in Call1, NEW q, Lines(q, Len(f)), NEW k \in 1..Len(q)
  PROVE  IsAbout(Append(f, c), q[k]) <=> IsAbout(f, q[k])
<1>1. Len(f) \in Nat /\ \A m \in 1..Len(f) : Append(f, c)[m] = f[m]
  BY LenProperties, AppendProperties
<1>2. q[k] \in ALine /\ q[k].no <= Len(f)
  BY ElementOfSeq DEF Lines
<1>3. q[k].no # 0 => q[k].no \in 1..Len(f)
  BY <1>1, <1>2 DEF ALine
<1> QED
  BY <1>1, <1>3 DEF IsAbout

LEMMA SoundCalled ==
  ASSUME NEW f \in Seq(Call1), NEW c \in Call1, NEW q, Lines(q, Len(f)), Sound(f, q)
  PROVE  Sound(Append(f, c), q)
  BY AboutCalled DEF Sound

---------------------------------------------------------------------------
(* The stream.                                                             *)

LEMMA StreamIs ==
  ASSUME TypeInv
  PROVE  /\ Lines(Stream, Len(fed)) /\ Len(Stream) \in Nat /\ Len(fed) \in Nat
         /\ DOMAIN Stream = 1..Len(Stream)
<1>1. Lines(out, Len(fed)) /\ Lines(buf, Len(fed)) /\ Len(fed) \in Nat
  BY LenFed DEF TypeInv, BufferTyped
<1>2. Lines(out \o buf, Len(fed))
  BY <1>1, LinesAndLines
<1>3. Lines(Stream, Len(fed))
  BY <1>1, <1>2 DEF Stream
<1> QED
  BY <1>1, <1>3, LenProperties DEF Lines

LEMMA StreamTyped == TypeInv => Lines(Stream, Len(fed))
  BY StreamIs

\* A line is put behind the others in the buffer.
LEMMA Grows ==
  ASSUME TypeInv, pc # "done", pc' # "done", out' = out, NEW l \in ALine, l.no <= Len(fed),
         buf' = Append(buf, l)
  PROVE  Grown(Stream, Stream', l)
<1> DEFINE n == Len(fed)
           r == Append(buf, l)
           a == Len(out)
           b == Len(buf)
<1>1. Lines(out, n) /\ Lines(buf, n) /\ n \in Nat
  BY LenFed DEF TypeInv, BufferTyped
<1>2. /\ Lines(r, n) /\ Len(r) = b + 1 /\ (\A k \in 1..b : r[k] = buf[k])
      /\ r[b + 1] = l
  BY <1>1, OneMoreLine
<1>j. \A v, w : Lines(v, n) /\ Lines(w, n) =>
        /\ Len(v \o w) = Len(v) + Len(w)
        /\ \A k \in 1..Len(v)+Len(w) :
             (v \o w)[k] = IF k <= Len(v) THEN v[k] ELSE w[k - Len(v)]
  BY <1>1, LinesAndLines
<1> HIDE DEF n, r
<1>3. /\ Len(out \o buf) = a + b /\ a \in Nat /\ b \in Nat
      /\ \A k \in 1..a+b : (out \o buf)[k] = IF k <= a THEN out[k] ELSE buf[k - a]
  BY <1>1, LinesAndLines
<1>4. /\ Len(out \o r) = a + (b + 1)
      /\ \A k \in 1..a+(b + 1) : (out \o r)[k] = IF k <= a THEN out[k] ELSE r[k - a]
  <2>1. /\ Len(out \o r) = Len(out) + Len(r)
        /\ \A k \in 1..Len(out)+Len(r) :
             (out \o r)[k] = IF k <= Len(out) THEN out[k] ELSE r[k - Len(out)]
    <3>1. Lines(out, n) /\ Lines(r, n)
      BY <1>1, <1>2
    <3> QED
      BY <1>j, <3>1, Zenon
  <2> QED
    BY <1>2, <2>1, Zenon
<1> DEFINE p == out \o buf
           q == out \o r
<1>5. Stream = p /\ Stream' = q
  BY DEF Stream, r
<1> HIDE DEF p, q, a, b
<1>6. ASSUME NEW k \in 1..a+b PROVE q[k] = p[k]
  <2>1. k \in 1..a+(b + 1) /\ (~(k <= a) => k - a \in 1..b)
    BY <1>3
  <2> QED
    BY <1>2, <1>3, <1>4, <2>1 DEF p, q
<1>7. q[(a + b) + 1] = l
  <2>1. (a + b) + 1 \in 1..a+(b + 1) /\ ~((a + b) + 1 <= a) /\ ((a + b) + 1) - a = b + 1
    BY <1>3
  <2> QED
    BY <1>2, <1>4, <2>1 DEF q
<1>8. Len(q) = (a + b) + 1 /\ Len(p) = a + b
  BY <1>3, <1>4 DEF p, q
<1> QED
  BY <1>5, <1>6, <1>7, <1>8 DEF Grown

\* When nothing is gone, all that waited is written.
LEMMA AllWritten ==
  ASSUME TypeInv, pc # "done", WrBuf, buf' = <<>>, gone' = {}
  PROVE  Stream' = Stream /\ gone = {}
<1>1. Lines(out, Len(fed)) /\ Lines(buf, Len(fed))
  BY DEF TypeInv, BufferTyped
<1>2. buf \in Seq(ALine) /\ Len(buf) \in Nat /\ out \in Seq(ALine)
  BY <1>1, LenProperties DEF Lines
<1>3. PICK k \in 0..Len(buf) :
        out' = out \o SubSeq(buf, 1, k) /\ gone' = gone \cup {buf[i].no : i \in k+1..Len(buf)}
  BY DEF WrBuf
<1>4. k = Len(buf)
  <2> SUFFICES ASSUME k # Len(buf) PROVE FALSE
    OBVIOUS
  <2>1. Len(buf) \in k+1..Len(buf)
    BY <1>2
  <2>2. buf[Len(buf)].no \in gone'
    BY <1>3, <2>1
  <2> QED
    BY <2>2
<1>5. out' = out \o buf
  BY <1>2, <1>3, <1>4, SubSeqFull
<1>6. out \o buf \in Seq(ALine)
  BY <1>2, ConcatProperties
<1>7. (out \o buf) \o <<>> = out \o buf
  BY <1>6, ConcatEmptySeq
<1>8. Stream' = out \o buf
  BY <1>5, <1>7 DEF Stream
<1> QED
  BY <1>3, <1>8 DEF Stream

\* What is lost or gone stays that.
LEMMA Survived ==
  ASSUME TypeInv', lost \subseteq lost', gone \subseteq gone', Survivable'
  PROVE  Survivable
<1>1. lost' \subseteq 1..Len(fed') /\ Len(fed') \in Nat
  BY LenProperties DEF TypeInv, CallsTyped
<1>2. IsFiniteSet(lost')
  <2>1. IsFiniteSet(1..Len(fed'))
    <3>1. 1 \in Int /\ Len(fed') \in Int
      BY <1>1
    <3> QED
      BY <3>1, FS_Interval, Zenon
  <2> QED
    BY <1>1, <2>1, FS_Subset, Zenon
<1>3. Cardinality(lost) <= Cardinality(lost') /\ IsFiniteSet(lost)
  BY <1>2, FS_Subset
<1>4. Cardinality(lost) \in Nat /\ Cardinality(lost') \in Nat
  BY <1>2, <1>3, FS_CardinalityType
<1>5. Cardinality(lost') <= 1 /\ gone' = {}
  BY DEF Survivable
<1>6. Cardinality(lost) <= 1
  BY <1>3, <1>4, <1>5
<1> QED
  BY <1>5, <1>6 DEF Survivable

---------------------------------------------------------------------------
(* The invariant.                                                          *)

\* No two entries of the table have the same name, and a name ends before a colon.
Plain(b) == \A x \in 1..Len(b.prfx) : b.prfx[x] # ":"
Distinct(tab) ==
  /\ \A i, j \in 1..Len(tab) : tab[i].prfx = tab[j].prfx => i = j
  /\ \A i \in 1..Len(tab) : Plain(tab[i])

\* The first n entries are in force at the end of q; or all are, but for the one that
\* the directive s adds, which is not in q yet.
FirstHold(q, tab, n) == \A i \in 1..n : InEffect(q, Len(q), tab[i])
HoldBut(q, tab, s) ==
  \A i \in 1..Len(tab) :
    /\ InEffect(q, Len(q), tab[i]) \/ (Declares(s) /\ Binding(s) = tab[i])
    /\ Declares(s) /\ Binding(s).prfx = tab[i].prfx => Binding(s) = tab[i]

InTable ==
  /\ pc = "push" => FirstHold(Stream, pres, pi - 1)
  /\ pc = "prefix" \/ (pc = "idle" /\ bix # 0) => FirstHold(Stream, pres, Len(pres))
  /\ pc \in {"room", "put"} => HoldBut(Stream, pres, cur)

\* While nothing is missing, each statement has its table in force before it.
ForceInv == Distinct(pres) /\ (Survivable => Sound(fed, Stream) /\ InTable)

LEMMA DefaultsDistinct == Distinct(Defaults)
<1>1. DOMAIN Defaults = 1..Len(Defaults)
  BY TableAssumption, LenProperties
<1>2. ASSUME NEW i \in 1..Len(Defaults) PROVE Plain(Defaults[i])
  <2>1. DOMAIN Defaults[i].prfx = 1..Len(Defaults[i].prfx)
    <3>1. Defaults[i] \in Prefix
      BY TableAssumption, ElementOfSeq
    <3> QED
      BY <3>1, Uris, LenProperties
  <2> QED
    BY <1>1, <2>1, NamesAssumption DEF Plain
<1> QED
  BY <1>1, <1>2, NamesAssumption DEF Distinct

LEMMA ForceInit == Init => ForceInv
<1> SUFFICES ASSUME Init PROVE ForceInv
  OBVIOUS
<1>1. Stream = <<>> \o <<>> /\ <<>> \o <<>> = <<>> /\ Len(<<>>) = 0
  <2>1. <<>> \in Seq(ALine) /\ Len(<<>>) = 0
    BY EmptySeq
  <2> QED
    BY <2>1, ConcatEmptySeq DEF Init, Stream
<1>2. Len(Stream) = 0
  BY <1>1, Zenon
<1>3. Sound(fed, Stream)
  BY <1>2 DEF Sound
<1>4. InTable
  BY DEF Init, InTable
<1> QED
  BY <1>3, <1>4, DefaultsDistinct DEF Init, ForceInv

LEMMA ForceCall ==
  ASSUME TypeInv, ForceInv, NEW s \in Stmt, Call(s)
  PROVE  ForceInv'
<1> DEFINE c == [stmt |-> s, inp |-> inp]
<1>1. /\ pc = "idle" /\ pc' = (IF bix = 0 THEN "push" ELSE "prefix") /\ pi' = 1
      /\ fed' = Append(fed, c) /\ UNCHANGED <<pres, buf, out, bix, lost, gone>>
  BY DEF Call, table, buffer, history
<1>2. c \in Call1 /\ fed \in Seq(Call1)
  BY BoundsAssumption DEF TypeInv, CallsTyped, Call1
<1> HIDE DEF c
<1>3. Stream' = Stream
  BY <1>1 DEF Stream
<1>4. Distinct(pres')
  BY <1>1 DEF ForceInv
<1>5. ASSUME Survivable' PROVE Sound(fed', Stream') /\ InTable'
  <2>1. Sound(fed, Stream) /\ InTable
    BY <1>1, <1>5 DEF ForceInv, Survivable
  <2>2. Sound(fed', Stream')
    <3>1. Sound(Append(fed, c), Stream)
      BY <1>2, <2>1, StreamIs, SoundCalled
    <3> QED
      BY <1>1, <1>3, <3>1
  <2>3. FirstHold(Stream', pres', pi' - 1)
    BY <1>1 DEF FirstHold
  <2>4. bix # 0 => FirstHold(Stream', pres', Len(pres'))
    BY <1>1, <1>3, <2>1 DEF InTable
  <2> QED
    BY <1>1, <2>2, <2>3, <2>4 DEF InTable
<1> QED
  BY <1>4, <1>5 DEF ForceInv

\* The entries are declared one after the other, under names of their own.
LEMMA ForcePush ==
  ASSUME TypeInv, ForceInv, Push \/ PushGrow
  PROVE  ForceInv'
<1> DEFINE l == [no |-> 0, text |-> Declaration(pres[pi]), tab |-> <<>>]
<1>1. /\ pc = "push" /\ pi <= Len(pres) /\ pc' \in {"push", "wild_buf"} /\ pi' = pi + 1
      /\ buf' = Append(buf, l) /\ UNCHANGED <<pres, out, fed, lost, gone>>
  BY DEF Push, PushGrow, Pushed, table, calls, history
<1>2. l \in ALine /\ pi \in 1..Len(pres) /\ Len(pres) \in Nat
  BY <1>1, Entry
<1>3. l.no = 0 /\ l.text = Declaration(pres[pi])
  OBVIOUS
<1> HIDE DEF l
<1>4. Distinct(pres') /\ Distinct(pres)
  BY <1>1 DEF ForceInv
<1>5. Says(l, pres[pi])
  <2>1. pres[pi] \in Prefix
    BY <1>2, ElementOfSeq DEF TypeInv, TableTyped, IsTable
  <2>2. \A x \in 1..Len(pres[pi].prfx) : pres[pi].prfx[x] # ":"
    BY <1>2, <1>4 DEF Distinct, Plain
  <2>3. Declares(Declaration(pres[pi])) /\ Binding(Declaration(pres[pi])) = pres[pi]
    BY <2>1, <2>2, DeclarationDeclares
  <2> QED
    BY <1>3, <2>3 DEF Says
<1>6. ASSUME Survivable' PROVE Sound(fed', Stream') /\ InTable'
  <2>1. Sound(fed, Stream) /\ FirstHold(Stream, pres, pi - 1)
    BY <1>1, <1>6 DEF ForceInv, Survivable, InTable
  <2>2. Grown(Stream, Stream', l) /\ Len(Stream) \in Nat
    <3>1. l.no <= Len(fed)
      BY <1>3, StreamIs
    <3>2. pc # "done" /\ pc' # "done"
      BY <1>1
    <3> QED
      BY <1>1, <1>2, <3>1, <3>2, Grows, StreamIs
  <2>3. Sound(fed, Stream')
    <3>1. ~IsAbout(fed, l)
      BY <1>3 DEF IsAbout
    <3> QED
      BY <2>1, <2>2, <3>1, SoundGrown
  <2>4. ASSUME NEW i \in 1..pi PROVE InEffect(Stream', Len(Stream'), pres[i])
    <3>1. CASE i = pi
      BY <1>5, <2>2, <3>1, EffectGrown
    <3>2. CASE i # pi
      <4>1. i \in 1..pi-1 /\ i \in 1..Len(pres)
        BY <1>2, <3>2
      <4>2. pres[pi].prfx # pres[i].prfx
        BY <1>2, <1>4, <3>2, <4>1 DEF Distinct
      <4>3. ~Touches(l, pres[i])
        BY <1>5, <4>2 DEF Says, Touches
      <4>4. InEffect(Stream, Len(Stream), pres[i])
        BY <2>1, <4>1 DEF FirstHold
      <4> QED
        BY <2>2, <4>3, <4>4, EffectGrown
    <3> QED
      BY <3>1, <3>2
  <2>5. pi' - 1 = pi
    BY <1>1, <1>2
  <2>6. FirstHold(Stream', pres', pi' - 1)
    BY <1>1, <2>4, <2>5 DEF FirstHold
  <2> QED
    BY <1>1, <2>3, <2>6 DEF InTable
<1> QED
  BY <1>4, <1>6 DEF ForceInv

\* The first call that is given up is not given up here: there is room for the default
\* prefixes.
LEMMA PushFailsLate ==
  ASSUME TypeInv, BoundsInv, OrderInv, PushFails
  PROVE  ~Survivable'
<1> DEFINE n == Len(fed)
<1>1. pc = "push" /\ pi <= Len(pres) /\ bix + adz > bsz /\ lost' = lost \cup {n}
  BY DEF PushFails, Drop
<1>2. n \notin lost /\ n \in Nat
  BY <1>1, Engaged DEF InCall
<1>3. lost # {}
  <2> SUFFICES ASSUME lost = {} PROVE FALSE
    OBVIOUS
  <2>1. pi \in 1..Len(pres) /\ adz \in Nat
    BY <1>1, Entry
  <2>2. pres = Defaults /\ bix = DefaultsTake[pi - 1] /\ bsz >= Buf0
    BY <1>1 DEF BoundsInv
  <2>3. pi \in 1..Len(Defaults) /\ pi \in 0..Len(Defaults) /\ Len(Defaults) \in Nat
    BY <2>1, <2>2, Taking
  <2>4. adz = Len(Declaration(Defaults[pi]))
    BY <2>2 DEF adz
  <2>5. DefaultsTake[pi] = bix + adz
    BY <2>2, <2>3, <2>4, Taking
  <2>6. DefaultsTake[pi] \in Nat /\ DefaultsTake[pi] <= Buf0
    BY <2>3, DefaultsSize
  <2> QED
    BY <1>1, <2>2, <2>5, <2>6, Numbers
<1> HIDE DEF n
<1>4. IsFiniteSet(lost)
  <2>1. lost \subseteq 1..Len(fed) /\ Len(fed) \in Nat
    BY LenFed DEF TypeInv, CallsTyped
  <2>2. IsFiniteSet(1..Len(fed))
    <3>1. 1 \in Int /\ Len(fed) \in Int
      BY <2>1
    <3> QED
      BY <3>1, FS_Interval, Zenon
  <2> QED
    BY <2>1, <2>2, FS_Subset, Zenon
<1>5. Cardinality(lost \cup {n}) = Cardinality(lost) + 1 /\ Cardinality(lost) \in Nat
  BY <1>2, <1>4, FS_AddElement, FS_CardinalityType
<1>6. Cardinality(lost) # 0
  BY <1>3, <1>4, FS_EmptySet
<1>7. ~(Cardinality(lost') <= 1)
  BY <1>1, <1>5, <1>6
<1> QED
  BY <1>7 DEF Survivable

\* A name ends before the first colon.
LEMMA NameIsPlain ==
  ASSUME NEW s \in Seq(Char), Declares(s)
  PROVE  Plain(Binding(s))
<1> DEFINE c == Colon(s)
           p == SubSeq(s, 2, c - 1)
<1>1. c \in 2..Len(s) /\ \A i \in 2..c-1 : s[i] # ":"
  <2>1. First(s, ":", 2) # 0
    BY DEF Declares, Colon
  <2> QED
    BY <2>1, FirstIs DEF Colon
<1>2. Len(s) \in Nat /\ \A i \in 1..Len(s) : s[i] \in Char
  BY LenProperties, ElementOfSeq
<1>3. Binding(s).prfx = p
  BY DEF Binding
<1> HIDE DEF c
<1>4. c - 1 \in Int /\ \A i \in 2..c-1 : s[i] \in Char
  BY <1>1, <1>2
<1>5. /\ Len(p) = (IF 2 <= c - 1 THEN (c - 1) - 2 + 1 ELSE 0)
      /\ \A i \in 1..(c - 1) - 2 + 1 : p[i] = s[2 + i - 1]
  BY <1>4, SubSeqProperties
<1> HIDE DEF p
<1>6. ASSUME NEW x \in 1..Len(p) PROVE p[x] # ":"
  <2>1. x \in 1..(c - 1) - 2 + 1 /\ 2 + x - 1 \in 2..c-1
    BY <1>1, <1>2, <1>5
  <2> QED
    BY <1>1, <1>5, <2>1
<1> QED
  BY <1>3, <1>6 DEF Plain

\* Steps that leave the lines, the table and the calls what they are.
LEMMA ForceSteady ==
  ASSUME TypeInv, ForceInv, AllPushed \/ NoPrefix \/ KnownPrefix \/ PrbFails \/ PresFails \/ HasRoom
  PROVE  ForceInv'
<1>1. /\ UNCHANGED <<pres, buf, out, bix, fed, lost, gone>>
      /\ pc \in {"push", "prefix", "room"} /\ pc' \in {"idle", "prefix", "room", "put"}
  BY DEF AllPushed, NoPrefix, KnownPrefix, PrbFails, PresFails, NewPrefix, HasRoom,
         table, buffer, calls, history
<1>2. Stream' = Stream /\ cur' = cur
  BY <1>1 DEF Stream, cur
<1>3. Distinct(pres')
  BY <1>1 DEF ForceInv
<1>4. Len(pres) \in Nat /\ DOMAIN pres = 1..Len(pres)
  BY LenProperties DEF TypeInv, TableTyped, IsTable
<1>5. ASSUME Survivable' PROVE Sound(fed', Stream') /\ InTable'
  <2>1. Sound(fed, Stream) /\ InTable
    BY <1>1, <1>5 DEF ForceInv, Survivable
  <2>2. Sound(fed', Stream')
    BY <1>1, <1>2, <2>1
  <2>3. CASE AllPushed
    <3>1. pc = "push" /\ pc' = "prefix" /\ pi > Len(pres)
      BY <2>3 DEF AllPushed
    <3>2. pi - 1 = Len(pres)
      BY <1>4, <3>1 DEF TypeInv, CallsTyped
    <3>3. FirstHold(Stream', pres', Len(pres'))
      BY <1>1, <1>2, <2>1, <3>1, <3>2 DEF InTable
    <3> QED
      BY <2>2, <3>1, <3>3 DEF InTable
  <2>4. CASE KnownPrefix
    <3>1. pc = "prefix" /\ pc' = "idle"
      BY <2>4 DEF KnownPrefix
    <3>2. FirstHold(Stream', pres', Len(pres'))
      BY <1>1, <1>2, <2>1, <3>1 DEF InTable
    <3> QED
      BY <2>2, <3>1, <3>2 DEF InTable
  <2>5. CASE NoPrefix \/ PrbFails \/ PresFails
    <3>1. pc = "prefix" /\ pc' = "room"
      BY <2>5 DEF NoPrefix, PrbFails, PresFails, NewPrefix
    <3>2. Declares(cur) => \A i \in 1..Len(pres) : pres[i].prfx # Binding(cur).prfx
      BY <1>4, <2>5 DEF NoPrefix, PrbFails, PresFails, NewPrefix, Registered
    <3>3. FirstHold(Stream, pres, Len(pres))
      BY <2>1, <3>1 DEF InTable
    <3>4. HoldBut(Stream, pres, cur)
      BY <3>2, <3>3 DEF HoldBut, FirstHold
    <3>5. HoldBut(Stream', pres', cur')
      BY <1>1, <1>2, <3>4
    <3> QED
      BY <2>2, <3>1, <3>5 DEF InTable
  <2>6. CASE HasRoom
    <3>1. pc = "room" /\ pc' = "put"
      BY <2>6 DEF HasRoom
    <3>2. HoldBut(Stream', pres', cur')
      BY <1>1, <1>2, <2>1, <3>1 DEF InTable
    <3> QED
      BY <2>2, <3>1, <3>2 DEF InTable
  <2> QED
    BY <2>3, <2>4, <2>5, <2>6
<1> QED
  BY <1>3, <1>5 DEF ForceInv

\* A new entry has a name that no other has; it is the one of the directive under way.
LEMMA ForceAdd ==
  ASSUME TypeInv, ForceInv, AddPrefix
  PROVE  ForceInv'
<1> DEFINE b == Binding(cur)
           n == Len(pres)
<1>1. /\ pc = "prefix" /\ pc' \in {"room", "wild_pres"} /\ Declares(cur) /\ ~Registered(b)
      /\ pres' = Append(pres, b) /\ UNCHANGED <<buf, out, fed, lost, gone>>
  BY DEF AddPrefix, Add, NewPrefix, buffer, calls, history
<1>2. cur \in Seq(Char)
  BY <1>1, Current DEF TypeInv, CallsTyped, InCall
<1>3. b \in Prefix
  BY <1>1, <1>2, BindingIs
<1>4. n \in Nat /\ DOMAIN pres = 1..n /\ pres \in Seq(Prefix)
  BY LenProperties DEF TypeInv, TableTyped, IsTable
<1>5. \A i \in 1..n : pres[i].prfx # b.prfx
  BY <1>1, <1>4 DEF Registered
<1>6. Plain(b)
  BY <1>1, <1>2, NameIsPlain
<1> HIDE DEF b
<1>7. /\ Len(pres') = n + 1 /\ \A i \in 1..n : pres'[i] = pres[i]
      /\ pres'[n + 1] = b
  BY <1>1, <1>3, <1>4, AppendProperties
<1> HIDE DEF n
<1>8. \A i \in 1..n+1 : i \in 1..n \/ i = n + 1
  BY <1>4
<1>9. Distinct(pres')
  <2>1. Distinct(pres)
    BY DEF ForceInv
  <2>2. ASSUME NEW i \in 1..n+1, NEW j \in 1..n+1, pres'[i].prfx = pres'[j].prfx PROVE i = j
    <3>1. CASE i \in 1..n /\ j \in 1..n
      BY <1>7, <2>1, <2>2, <3>1 DEF Distinct, n
    <3>2. CASE i = n + 1 \/ j = n + 1
      BY <1>5, <1>7, <1>8, <2>2, <3>2
    <3> QED
      BY <1>8, <3>1, <3>2
  <2>3. ASSUME NEW i \in 1..n+1 PROVE Plain(pres'[i])
    BY <1>6, <1>7, <1>8, <2>1 DEF Distinct, n
  <2> QED
    BY <1>7, <2>2, <2>3 DEF Distinct
<1>10. ASSUME Survivable' PROVE Sound(fed', Stream') /\ InTable'
  <2>1. Sound(fed, Stream) /\ FirstHold(Stream, pres, Len(pres))
    BY <1>1, <1>10 DEF ForceInv, Survivable, InTable
  <2>2. Stream' = Stream /\ cur' = cur
    BY <1>1 DEF Stream, cur
  <2>3. ASSUME NEW i \in 1..n+1
        PROVE  /\ InEffect(Stream, Len(Stream), pres'[i]) \/ (Declares(cur) /\ Binding(cur) = pres'[i])
               /\ Declares(cur) /\ Binding(cur).prfx = pres'[i].prfx => Binding(cur) = pres'[i]
    <3>1. CASE i \in 1..n
      BY <1>5, <1>7, <2>1, <3>1 DEF FirstHold, n, b
    <3>2. CASE i = n + 1
      BY <1>1, <1>7, <3>2 DEF b
    <3> QED
      BY <1>8, <3>1, <3>2
  <2>4. HoldBut(Stream', pres', cur')
    BY <1>7, <2>2, <2>3 DEF HoldBut
  <2> QED
    BY <1>1, <2>1, <2>2, <2>4 DEF InTable
<1> QED
  BY <1>9, <1>10 DEF ForceInv

\* What the buffer has is written, if nothing is gone: the lines are the same.
LEMMA ForceFlush ==
  ASSUME TypeInv, ForceInv, Flush \/ FlushFails
  PROVE  ForceInv'
<1>1. /\ pc = "room" /\ WrBuf /\ buf' = <<>> /\ bix' = 0 /\ UNCHANGED <<pres, fed>>
      /\ pc' \in {"put", "idle"} /\ lost \subseteq lost' /\ gone \subseteq gone'
  BY DEF Flush, FlushFails, Drop, WrBuf, table, calls
<1>2. Distinct(pres')
  BY <1>1 DEF ForceInv
<1>3. ASSUME Survivable' PROVE Sound(fed', Stream') /\ InTable'
  <2>1. Survivable
    <3>1. TypeInv'
      BY TypeFlush
    <3> QED
      BY <1>1, <1>3, <3>1, Survived
  <2>2. Stream' = Stream
    BY <1>1, <1>3, AllWritten DEF Survivable
  <2>3. Sound(fed, Stream) /\ HoldBut(Stream, pres, cur)
    BY <1>1, <2>1 DEF ForceInv, InTable
  <2>4. cur' = cur
    BY <1>1 DEF cur
  <2>5. Sound(fed', Stream') /\ HoldBut(Stream', pres', cur')
    BY <1>1, <2>2, <2>3, <2>4
  <2> QED
    BY <1>1, <2>5 DEF InTable
<1> QED
  BY <1>2, <1>3 DEF ForceInv

\* The lines that are put in the buffer.
LEMMA DirectiveLine ==
  ASSUME TypeInv, pc = "put"
  PROVE  Line(cur \o <<"\n">>) \in ALine /\ Line(cur \o <<"\n">>).no = Len(fed)
<1> DEFINE e == <<"\n">>
           w == cur \o e
<1>1. cur \in Seq(Sign) /\ e \in Seq(Sign) /\ pres \in Seq(Prefix) /\ Len(fed) \in Nat
  BY Room, Texts, Newline
<1> HIDE DEF e
<1>2. w \in Seq(Sign)
  BY <1>1, ConcatProperties
<1> HIDE DEF w
<1>3. Line(w) \in ALine /\ Line(w).no = Len(fed)
  BY <1>1, <1>2 DEF Line, ALine
<1> QED
  BY <1>3 DEF w, e

LEMMA StmtTextDeclaresNot ==
  ASSUME TypeInv, PutStmt
  PROVE  ~Declares(<<"\n">> \o subst(pres, cur, (bsz - bix) - 1).text \o <<"\n">>)
<1> DEFINE room == (bsz - bix) - 1
<1>1. room \in Nat /\ Len(cur) <= room /\ cur \in Seq(Char) /\ pres \in Seq(Prefix)
  BY Room DEF PutStmt
<1> HIDE DEF room
<1>2. subst(pres, cur, room).text \in Seq(Sign)
  BY <1>1, SubstText
<1>3. ~Declares(<<"\n">> \o subst(pres, cur, room).text \o <<"\n">>)
  BY <1>2, StatementDeclaresNot
<1> QED
  BY <1>3 DEF room

\* A directive that is copied declares what it does; the entry that it has added is in
\* force from then on.
LEMMA ForceDirective ==
  ASSUME TypeInv, ForceInv, PutDirective
  PROVE  ForceInv'
<1> DEFINE l == Line(cur \o <<"\n">>)
<1>1. /\ pc = "put" /\ pc' = "idle" /\ IsDirective(cur) /\ buf' = Append(buf, l)
      /\ UNCHANGED <<pres, out, fed, lost, gone>>
  BY DEF PutDirective, table, calls, history
<1>2. cur \in Seq(Char) /\ Len(cur) >= 1 /\ Len(fed) \in Nat
  BY <1>1, Current, LenFed DEF TypeInv, CallsTyped, InCall, z
<1>3. l \in ALine /\ l.no = Len(fed)
  BY <1>1, DirectiveLine
<1>4. (Declares(l.text) <=> Declares(cur)) /\ (Declares(cur) => Binding(l.text) = Binding(cur))
  <2>1. l.text = cur \o <<"\n">>
    BY DEF Line
  <2> QED
    BY <1>2, <2>1, LineDeclares
<1>5. ~IsAbout(fed, l)
  BY <1>1 DEF IsAbout, Line, cur
<1> HIDE DEF l
<1>6. Distinct(pres')
  BY <1>1 DEF ForceInv
<1>7. ASSUME Survivable' PROVE Sound(fed', Stream') /\ InTable'
  <2>1. Sound(fed, Stream) /\ HoldBut(Stream, pres, cur)
    BY <1>1, <1>7 DEF ForceInv, Survivable, InTable
  <2>2. Grown(Stream, Stream', l) /\ Len(Stream) \in Nat
    <3>1. l.no <= Len(fed)
      BY <1>2, <1>3
    <3>2. pc # "done" /\ pc' # "done"
      BY <1>1
    <3> QED
      BY <1>1, <1>3, <3>1, <3>2, Grows, StreamIs
  <2>3. Sound(fed, Stream')
    BY <1>5, <2>1, <2>2, SoundGrown
  <2>4. ASSUME NEW i \in 1..Len(pres) PROVE InEffect(Stream', Len(Stream'), pres[i])
    <3>1. CASE Declares(cur) /\ Binding(cur) = pres[i]
      <4>1. Says(l, pres[i])
        BY <1>4, <3>1 DEF Says
      <4> QED
        BY <2>2, <4>1, EffectGrown
    <3>2. CASE ~(Declares(cur) /\ Binding(cur) = pres[i])
      <4>1. InEffect(Stream, Len(Stream), pres[i]) /\ ~Touches(l, pres[i])
        BY <1>4, <2>1, <3>2 DEF HoldBut, Touches
      <4> QED
        BY <2>2, <4>1, EffectGrown
    <3> QED
      BY <3>1, <3>2
  <2>5. FirstHold(Stream', pres', Len(pres'))
    BY <1>1, <2>4 DEF FirstHold
  <2> QED
    BY <1>1, <2>3, <2>5 DEF InTable
<1> QED
  BY <1>6, <1>7 DEF ForceInv

\* A statement declares nothing, and has what it was substituted with in force.
LEMMA ForceStmt ==
  ASSUME TypeInv, ForceInv, PutStmt
  PROVE  ForceInv'
<1> DEFINE s == subst(pres, cur, (bsz - bix) - 1)
           l == Line(<<"\n">> \o s.text \o <<"\n">>)
<1>1. /\ l \in ALine /\ l.no = Len(fed) /\ l.tab = pres /\ buf' = Append(buf, l)
      /\ pc = "put" /\ pc' \in {"idle", "wild_buf"}
      /\ UNCHANGED <<pres, out, fed, lost, gone>>
  BY StmtLine
<1>2. ~Declares(cur)
  BY DEF PutStmt, IsDirective, Declares
<1>3. ~Declares(l.text)
  BY StmtTextDeclaresNot DEF Line
<1> HIDE DEF l
<1>4. Distinct(pres')
  BY <1>1 DEF ForceInv
<1>5. ASSUME Survivable' PROVE Sound(fed', Stream') /\ InTable'
  <2>1. Sound(fed, Stream) /\ HoldBut(Stream, pres, cur)
    BY <1>1, <1>5 DEF ForceInv, Survivable, InTable
  <2>2. Grown(Stream, Stream', l) /\ Len(Stream) \in Nat
    <3>1. l.no <= Len(fed)
      BY <1>1, StreamIs
    <3>2. pc # "done" /\ pc' # "done"
      BY <1>1
    <3> QED
      BY <1>1, <3>1, <3>2, Grows, StreamIs
  <2>3. \A i \in 1..Len(pres) : InEffect(Stream, Len(Stream), pres[i])
    BY <1>2, <2>1 DEF HoldBut
  <2>4. Sound(fed, Stream')
    BY <1>1, <2>1, <2>2, <2>3, SoundGrown
  <2>5. ASSUME NEW i \in 1..Len(pres) PROVE InEffect(Stream', Len(Stream'), pres[i])
    <3>1. ~Touches(l, pres[i])
      BY <1>3 DEF Touches
    <3> QED
      BY <2>2, <2>3, <3>1, EffectGrown
  <2>6. FirstHold(Stream', pres', Len(pres'))
    BY <1>1, <2>5 DEF FirstHold
  <2> QED
    BY <1>1, <2>4, <2>6 DEF InTable
<1> QED
  BY <1>4, <1>5 DEF ForceInv

\* The end of an input.  If nothing is gone all that waited is written, or nothing waited
\* and the program ends, or nothing changes.
LEMMA FiniStream ==
  ASSUME TypeInv, FiniStmt \/ GiveUp, gone' = {}
  PROVE  Stream' = Stream /\ gone = {}
<1>1. pc = "idle" /\ pc' \in {"idle", "done"}
  BY DEF FiniStmt, GiveUp, NextInput
<1>2. CASE FiniStmt
  <2>1. WrBuf /\ buf' = <<>> /\ pc # "done"
    BY <1>1, <1>2 DEF FiniStmt
  <2> QED
    BY <2>1, AllWritten
<1>3. CASE GiveUp
  <2>1. /\ UNCHANGED <<buf, out>> /\ gone \subseteq gone'
        /\ pc' = "done" => gone' = gone \cup {buf[i].no : i \in DOMAIN buf}
    BY <1>3 DEF GiveUp, NextInput, buffer
  <2>2. CASE pc' = "idle"
    BY <1>1, <2>1, <2>2 DEF Stream
  <2>3. CASE pc' = "done"
    <3>1. buf \in Seq(ALine) /\ out \in Seq(ALine) /\ DOMAIN buf = 1..Len(buf) /\ Len(buf) \in Nat
      BY LenProperties DEF TypeInv, BufferTyped, Lines
    <3>2. DOMAIN buf = {}
      BY <2>1, <2>3
    <3>3. Len(buf) = 0
      BY <3>1, <3>2
    <3>4. buf = <<>>
      BY <3>1, <3>3, EmptySeq, SeqEqual
    <3>5. Stream = out \o <<>> /\ Stream' = out
      BY <1>1, <2>1, <2>3, <3>4 DEF Stream
    <3>6. out \o <<>> = out
      BY <3>1, ConcatEmptySeq
    <3> QED
      BY <2>1, <3>5, <3>6
  <2> QED
    BY <1>1, <2>2, <2>3
<1> QED
  BY <1>2, <1>3

LEMMA ForceFini ==
  ASSUME TypeInv, ForceInv, FiniStmt \/ GiveUp
  PROVE  ForceInv'
<1>1. /\ pc = "idle" /\ pc' \in {"idle", "done"} /\ UNCHANGED <<fed, lost>>
      /\ (pres' = Defaults /\ bix' = 0) \/ UNCHANGED <<pres, bix>>
  BY DEF FiniStmt, GiveUp, NextInput, table, buffer
<1>2. Distinct(pres')
  BY <1>1, DefaultsDistinct DEF ForceInv
<1>3. ASSUME Survivable' PROVE Sound(fed', Stream') /\ InTable'
  <2>1. Stream' = Stream /\ gone = {}
    BY <1>3, FiniStream DEF Survivable
  <2>2. Sound(fed, Stream) /\ InTable
    BY <1>1, <1>3, <2>1 DEF ForceInv, Survivable
  <2>3. bix' # 0 /\ pc' = "idle" => FirstHold(Stream', pres', Len(pres'))
    BY <1>1, <2>1, <2>2 DEF InTable
  <2> QED
    BY <1>1, <2>1, <2>2, <2>3 DEF InTable
<1> QED
  BY <1>2, <1>3 DEF ForceInv

LEMMA ForceStep == TypeInv /\ BoundsInv /\ OrderInv /\ ForceInv /\ [Next]_vars => ForceInv'
<1> SUFFICES ASSUME TypeInv, BoundsInv, OrderInv, ForceInv, [Next]_vars PROVE ForceInv'
  OBVIOUS
<1>1. CASE \E s \in Stmt : Call(s)
  BY <1>1, ForceCall
<1>2. CASE Push \/ PushGrow
  BY <1>2, ForcePush
<1>3. CASE PushFails
  <2>1. Distinct(pres')
    BY <1>3 DEF PushFails, table, ForceInv
  <2> QED
    BY <1>3, <2>1, PushFailsLate DEF ForceInv
<1>4. CASE AllPushed \/ NoPrefix \/ KnownPrefix \/ PrbFails \/ PresFails \/ HasRoom
  BY <1>4, ForceSteady
<1>5. CASE AddPrefix
  BY <1>5, ForceAdd
<1>6. CASE Flush \/ FlushFails
  BY <1>6, ForceFlush
<1>7. CASE PutDirective
  BY <1>7, ForceDirective
<1>8. CASE PutStmt
  BY <1>8, ForceStmt
<1>9. CASE FiniStmt \/ GiveUp
  BY <1>9, ForceFini
<1>10. CASE Halted \/ UNCHANGED vars
  <2>1. UNCHANGED <<pres, buf, out, bix, fed, pi, pc, lost, gone>>
    BY <1>10 DEF Halted, vars, table, buffer, calls, history
  <2>2. Stream' = Stream /\ cur' = cur /\ Survivable' = Survivable
    BY <2>1 DEF Stream, cur, Survivable
  <2>3. InTable => InTable'
    BY <2>1, <2>2 DEF InTable
  <2> QED
    BY <2>1, <2>2, <2>3 DEF ForceInv
<1> QED
  BY <1>1, <1>2, <1>3, <1>4, <1>5, <1>6, <1>7, <1>8, <1>9, <1>10 DEF Next

\* What a statement is substituted with has been declared before it on standard output,
\* with that URI and in force there: through every flush, for a directive that was
\* skipped or dropped, and from the first statement of an input on
\* (ttl-prefixify.c:247-263, :347-400).
THEOREM DeclaredBeforeUse == Spec => []Declared
<1>1. Init => TypeInv /\ BoundsInv /\ OrderInv /\ ForceInv
  BY TypeInit, BoundsInit, OrderInit, ForceInit
<1>2. (TypeInv /\ BoundsInv /\ OrderInv /\ ForceInv) /\ [Next]_vars
        => (TypeInv /\ BoundsInv /\ OrderInv /\ ForceInv)'
  BY TypeStep, BoundsStep, OrderStep, ForceStep
<1>3. TypeInv /\ ForceInv => Declared
  <2> SUFFICES ASSUME TypeInv, ForceInv, Survivable,
                      NEW k \in DOMAIN Stream, IsStmt(Stream[k]),
                      NEW i \in DOMAIN Stream[k].tab
               PROVE  InForce(SubSeq(Stream, 1, k - 1), Stream[k].tab[i])
    BY DEF Declared
  <2>1. Lines(Stream, Len(fed)) /\ Len(fed) \in Nat /\ Len(Stream) \in Nat /\ k \in 1..Len(Stream)
    BY StreamIs
  <2>2. IsAbout(fed, Stream[k])
    BY DEF IsStmt, StmtOf, IsAbout
  <2>3. i \in 1..Len(Stream[k].tab)
    <3>1. Stream[k] \in ALine
      BY <2>1, ElementOfSeq DEF Lines
    <3>2. Stream[k].tab \in Seq(Prefix)
      BY <3>1 DEF ALine
    <3> QED
      BY <3>2, LenProperties
  <2>4. Sound(fed, Stream)
    BY DEF ForceInv
  <2>5. InEffect(Stream, k - 1, Stream[k].tab[i])
    BY <2>1, <2>2, <2>3, <2>4 DEF Sound, DeclaredAt
  <2>6. k - 1 \in 0..Len(Stream)
    BY <2>1
  <2> QED
    BY <2>1, <2>5, <2>6, InForceIs
<1> QED
  BY <1>1, <1>2, <1>3, PTL DEF Spec

---------------------------------------------------------------------------
(* What became of the directives.  Of the calls f and the lines q:         *)

\* b is a default prefix or the one of a directive.
Origin(f, b) ==
  \/ \E i \in 1..Len(Defaults) : Defaults[i] = b
  \/ \E n \in 1..Len(f) : Declares(f[n].stmt) /\ Binding(f[n].stmt) = b
Traced(f, q) == \A k \in 1..Len(q) : Declares(q[k].text) => Origin(f, Binding(q[k].text))

\* The directive m has been copied, or skipped for one that is declared, before each
\* statement that comes after it.
TouchedBy(q, k, b) == \E j \in 1..k : Touches(q[j], b)
Followed(f, q, m, b) ==
  /\ TouchedBy(q, Len(q), b)
  /\ \A k \in 1..Len(q) : IsAbout(f, q[k]) /\ m < q[k].no => TouchedBy(q, k - 1, b)
AllFollowed(f, q, n, S) ==
  \A m \in 1..n : Declares(f[m].stmt) /\ m \notin S => Followed(f, q, m, Binding(f[m].stmt))

\* A further line.
LEMMA TracedGrown ==
  ASSUME NEW f, NEW q, NEW r, NEW l, Len(q) \in Nat, Grown(q, r, l), Traced(f, q),
         Declares(l.text) => Origin(f, Binding(l.text))
  PROVE  Traced(f, r)
<1>1. \A k \in 1..Len(r) : k \in 1..Len(q) \/ k = Len(q) + 1
  BY DEF Grown
<1> QED
  BY <1>1 DEF Grown, Traced

LEMMA FollowedGrown ==
  ASSUME NEW f, NEW q, NEW r, NEW l, Len(q) \in Nat, Grown(q, r, l), NEW m, NEW b,
         Followed(f, q, m, b)
  PROVE  Followed(f, r, m, b)
<1> DEFINE n == Len(q)
<1>1. /\ n \in Nat /\ n = Len(q) /\ Len(r) = n + 1 /\ (\A k \in 1..n : r[k] = q[k])
      /\ r[n + 1] = l
  BY DEF Grown
<1> HIDE DEF n
<1>2. ASSUME NEW k \in Nat, k <= n, TouchedBy(q, k, b) PROVE TouchedBy(r, k, b)
  <2>1. \A j \in 1..k : j \in 1..n
    BY <1>1, <1>2
  <2> QED
    BY <1>1, <1>2, <2>1 DEF TouchedBy
<1>3. TouchedBy(r, n, b)
  BY <1>1, <1>2 DEF Followed
<1>4. TouchedBy(r, n + 1, b)
  <2>1. \A j \in 1..n : j \in 1..n+1
    BY <1>1
  <2> QED
    BY <1>3, <2>1 DEF TouchedBy
<1>5. ASSUME NEW k \in 1..n+1, IsAbout(f, r[k]), m < r[k].no PROVE TouchedBy(r, k - 1, b)
  <2>1. CASE k \in 1..n
    <3>1. TouchedBy(q, k - 1, b)
      BY <1>1, <1>5, <2>1 DEF Followed
    <3>2. k - 1 \in Nat /\ k - 1 <= n
      BY <1>1, <2>1
    <3> QED
      BY <1>2, <3>1, <3>2
  <2>2. CASE k = n + 1
    <3>1. k - 1 = n
      BY <1>1, <2>2
    <3> QED
      BY <1>3, <3>1
  <2> QED
    BY <1>1, <2>1, <2>2
<1> QED
  BY <1>1, <1>4, <1>5 DEF Followed

\* A further call.
LEMMA OriginCalled ==
  ASSUME NEW f \in Seq(Call1), NEW c \in Call1, NEW b, Origin(f, b)
  PROVE  Origin(Append(f, c), b)
<1>1. /\ Len(f) \in Nat /\ Len(Append(f, c)) = Len(f) + 1
      /\ \A m \in 1..Len(f) : Append(f, c)[m] = f[m]
  BY LenProperties, AppendProperties
<1>2. \A m \in 1..Len(f) : m \in 1..Len(Append(f, c))
  BY <1>1
<1> QED
  BY <1>1, <1>2 DEF Origin

LEMMA FollowedCalled ==
  ASSUME NEW f \in Seq(Call1), NEW c \in Call1, NEW q, Lines(q, Len(f)), NEW S,
         AllFollowed(f, q, Len(f), S)
  PROVE  AllFollowed(Append(f, c), q, Len(f), S)
<1>1. \A m \in 1..Len(f) : Append(f, c)[m] = f[m]
  BY LenProperties, AppendProperties
<1>2. \A k \in 1..Len(q) : IsAbout(Append(f, c), q[k]) <=> IsAbout(f, q[k])
  BY AboutCalled
<1> QED
  BY <1>1, <1>2 DEF AllFollowed, Followed

\* A call is over: its directive has been dropped, or its name is declared.
LEMMA FollowedOver ==
  ASSUME NEW f, NEW n \in Nat, NEW q, Lines(q, n + 1), NEW S, NEW W, S \subseteq W,
         AllFollowed(f, q, n, S),
         Declares(f[n + 1].stmt) /\ n + 1 \notin W => TouchedBy(q, Len(q), Binding(f[n + 1].stmt))
  PROVE  AllFollowed(f, q, n + 1, W)
<1> SUFFICES ASSUME NEW m \in 1..n+1, Declares(f[m].stmt), m \notin W
             PROVE  Followed(f, q, m, Binding(f[m].stmt))
  BY DEF AllFollowed
<1>1. CASE m \in 1..n
  BY <1>1 DEF AllFollowed
<1>2. CASE m = n + 1
  <2>1. ASSUME NEW k \in 1..Len(q) PROVE ~(m < q[k].no)
    <3>1. q[k] \in ALine /\ q[k].no <= n + 1
      BY ElementOfSeq DEF Lines
    <3> QED
      BY <1>2, <3>1 DEF ALine
  <2> QED
    BY <1>2, <2>1 DEF Followed
<1> QED
  BY <1>1, <1>2

\* The last line that declares the name says what it stands for.
LEMMA LastTouch ==
  ASSUME NEW q, NEW n \in Nat, NEW b, TouchedBy(q, n, b),
         \A j \in 1..n : Touches(q[j], b) => Says(q[j], b)
  PROVE  InEffect(q, n, b)
<1> DEFINE U == {d \in 0..n : d < n /\ Touches(q[n - d], b)}
<1>1. U # {} /\ U \subseteq Nat
  <2>1. PICK j \in 1..n : Touches(q[j], b)
    BY DEF TouchedBy
  <2>2. n - j \in 0..n /\ n - j < n /\ n - (n - j) = j
    OBVIOUS
  <2>3. n - j \in U
    BY <2>1, <2>2
  <2> QED
    BY <2>3
<1>2. PICK d \in U : \A e \in U : d <= e
  <2> HIDE DEF U
  <2> QED
    BY <1>1, LeastOf
<1>3. PICK i \in 1..n : i = n - d /\ Touches(q[i], b)
  BY <1>2
<1>4. ASSUME NEW h \in i+1..n PROVE ~Touches(q[h], b)
  <2>1. n - h \in 0..n /\ n - h < n /\ n - (n - h) = h /\ ~(d <= n - h)
    BY <1>2, <1>3
  <2>2. n - h \notin U
    BY <1>2, <2>1
  <2> QED
    BY <2>1, <2>2
<1> QED
  BY <1>3, <1>4 DEF InEffect

---------------------------------------------------------------------------
\* The entries of the table have an origin; while nothing is missing the lines do too,
\* and the directives of the calls that are over have been followed.
KeptInv ==
  /\ \A i \in 1..Len(pres) : Origin(fed, pres[i])
  /\ Survivable => Traced(fed, Stream) /\ AllFollowed(fed, Stream, Over, lost)

LEMMA KeptInit == Init => KeptInv
<1> SUFFICES ASSUME Init PROVE KeptInv
  OBVIOUS
<1>1. Stream = <<>> /\ Len(<<>>) = 0 /\ fed = <<>>
  <2>1. <<>> \in Seq(ALine) /\ Len(<<>>) = 0
    BY EmptySeq
  <2>2. Stream = <<>> \o <<>>
    BY DEF Init, Stream
  <2>3. <<>> \o <<>> = <<>>
    BY <2>1, ConcatEmptySeq
  <2>4. Stream = <<>>
    BY <2>2, <2>3, Zenon
  <2> QED
    BY <2>1, <2>4 DEF Init
<1>2. Over = 0
  BY <1>1 DEF Init, Over
<1>3. Traced(fed, Stream) /\ AllFollowed(fed, Stream, Over, lost)
  <2>1. Len(Stream) = 0
    BY <1>1, Zenon
  <2> QED
    BY <1>2, <2>1 DEF Traced, AllFollowed
<1>4. \A i \in 1..Len(pres) : Origin(fed, pres[i])
  BY DEF Init, Origin
<1> QED
  BY <1>3, <1>4 DEF KeptInv

LEMMA KeptCall ==
  ASSUME TypeInv, KeptInv, NEW s \in Stmt, Call(s)
  PROVE  KeptInv'
<1> DEFINE c == [stmt |-> s, inp |-> inp]
<1>1. /\ pc = "idle" /\ pc' \in {"push", "prefix"}
      /\ fed' = Append(fed, c) /\ UNCHANGED <<pres, buf, out, lost, gone>>
  BY DEF Call, table, buffer, history
<1>2. c \in Call1 /\ fed \in Seq(Call1) /\ Len(fed) \in Nat
  BY BoundsAssumption, LenFed DEF TypeInv, CallsTyped, Call1
<1> HIDE DEF c
<1>3. Stream' = Stream
  BY <1>1 DEF Stream
<1>4. Over = Len(fed) /\ Over' = Len(fed)
  <2>1. Len(fed') = Len(fed) + 1
    BY <1>1, <1>2, AppendProperties
  <2> QED
    BY <1>1, <1>2, <2>1 DEF Over
<1>5. \A b : Origin(fed, b) => Origin(fed', b)
  BY <1>1, <1>2, OriginCalled
<1>6. \A i \in 1..Len(pres') : Origin(fed', pres'[i])
  BY <1>1, <1>5 DEF KeptInv
<1>7. ASSUME Survivable' PROVE Traced(fed', Stream') /\ AllFollowed(fed', Stream', Over', lost')
  <2>1. Traced(fed, Stream) /\ AllFollowed(fed, Stream, Len(fed), lost)
    BY <1>1, <1>4, <1>7 DEF KeptInv, Survivable
  <2>2. Traced(fed', Stream')
    BY <1>3, <1>5, <2>1 DEF Traced
  <2>3. AllFollowed(Append(fed, c), Stream, Len(fed), lost)
    BY <1>2, <2>1, StreamIs, FollowedCalled
  <2> QED
    BY <1>1, <1>3, <1>4, <2>2, <2>3
<1> QED
  BY <1>6, <1>7 DEF KeptInv

\* The declarations that are pushed are those of the table.
LEMMA KeptPush ==
  ASSUME TypeInv, ForceInv, KeptInv, Push \/ PushGrow
  PROVE  KeptInv'
<1> DEFINE l == [no |-> 0, text |-> Declaration(pres[pi]), tab |-> <<>>]
<1>1. /\ pc = "push" /\ pi <= Len(pres) /\ pc' \in {"push", "wild_buf"}
      /\ buf' = Append(buf, l) /\ UNCHANGED <<pres, out, fed, lost, gone>>
  BY DEF Push, PushGrow, Pushed, table, calls, history
<1>2. l \in ALine /\ pi \in 1..Len(pres)
  BY <1>1, Entry
<1>3. l.no = 0 /\ l.text = Declaration(pres[pi])
  OBVIOUS
<1> HIDE DEF l
<1>4. Over' = Over
  BY <1>1 DEF Over
<1>5. Declares(l.text) => Origin(fed, Binding(l.text))
  <2>1. pres[pi] \in Prefix
    BY <1>2, ElementOfSeq DEF TypeInv, TableTyped, IsTable
  <2>2. \A x \in 1..Len(pres[pi].prfx) : pres[pi].prfx[x] # ":"
    BY <1>2 DEF ForceInv, Distinct, Plain
  <2>3. Binding(Declaration(pres[pi])) = pres[pi]
    BY <2>1, <2>2, DeclarationDeclares
  <2> QED
    BY <1>2, <1>3, <2>3 DEF KeptInv
<1>6. ASSUME Survivable' PROVE Traced(fed', Stream') /\ AllFollowed(fed', Stream', Over', lost')
  <2>1. Traced(fed, Stream) /\ AllFollowed(fed, Stream, Over, lost)
    BY <1>1, <1>6 DEF KeptInv, Survivable
  <2>2. Grown(Stream, Stream', l) /\ Len(Stream) \in Nat
    <3>1. l.no <= Len(fed)
      BY <1>3, StreamIs
    <3>2. pc # "done" /\ pc' # "done"
      BY <1>1
    <3> QED
      BY <1>1, <1>2, <3>1, <3>2, Grows, StreamIs
  <2>3. Traced(fed, Stream')
    BY <1>5, <2>1, <2>2, TracedGrown
  <2>4. AllFollowed(fed, Stream', Over, lost)
    BY <2>1, <2>2, FollowedGrown DEF AllFollowed
  <2> QED
    BY <1>1, <1>4, <2>3, <2>4
<1> QED
  BY <1>1, <1>6 DEF KeptInv

LEMMA KeptSteady ==
  ASSUME KeptInv, AllPushed \/ NoPrefix \/ PrbFails \/ PresFails \/ HasRoom
  PROVE  KeptInv'
<1>1. /\ UNCHANGED <<pres, buf, out, fed, lost, gone>>
      /\ pc \in {"push", "prefix", "room"} /\ pc' \in {"prefix", "room", "put"}
  BY DEF AllPushed, NoPrefix, PrbFails, PresFails, NewPrefix, HasRoom, table, buffer, calls, history
<1>2. Stream' = Stream /\ Over' = Over /\ Survivable' = Survivable
  BY <1>1 DEF Stream, Over, Survivable
<1> QED
  BY <1>1, <1>2 DEF KeptInv

\* A call ends without a line: its directive is dropped, or known and so in force.
LEMMA KeptDropped ==
  ASSUME TypeInv, TypeInv', OrderInv, ForceInv, KeptInv, PushFails \/ KnownPrefix \/ FlushFails
  PROVE  KeptInv'
<1> DEFINE n == Len(fed)
           m == n - 1
<1>1. /\ InCall /\ pc # "done" /\ pc' = "idle" /\ UNCHANGED <<pres, fed>>
      /\ lost \subseteq lost' /\ gone \subseteq gone'
      /\ lost' = lost \cup {n} \/ KnownPrefix
  BY DEF PushFails, KnownPrefix, FlushFails, Drop, WrBuf, InCall, table, calls, history
<1>2. n \in Nat /\ m \in Nat /\ m + 1 = n /\ Over = m
  BY <1>1, Engaged
<1>3. Over' = n
  BY <1>1 DEF Over
<1>4. ASSUME Survivable' PROVE Traced(fed', Stream') /\ AllFollowed(fed', Stream', Over', lost')
  <2>1. Survivable
    BY <1>1, <1>4, Survived
  <2>2. Traced(fed, Stream) /\ AllFollowed(fed, Stream, m, lost)
    BY <1>2, <2>1 DEF KeptInv
  <2>3. Stream' = Stream
    <3>1. CASE PushFails \/ KnownPrefix
      <4>1. UNCHANGED <<buf, out>>
        BY <3>1 DEF PushFails, KnownPrefix, buffer
      <4> QED
        BY <1>1, <4>1 DEF Stream
    <3>2. CASE FlushFails
      BY <1>1, <1>4, <3>2, AllWritten DEF FlushFails, Survivable
    <3> QED
      BY <3>1, <3>2
  <2>4. Lines(Stream, n)
    BY StreamIs
  <2>5. Declares(fed[n].stmt) /\ n \notin lost' => TouchedBy(Stream, Len(Stream), Binding(fed[n].stmt))
    <3> SUFFICES ASSUME KnownPrefix
                 PROVE  TouchedBy(Stream, Len(Stream), Binding(fed[n].stmt))
      BY <1>1
    <3>1. pc = "prefix" /\ Registered(Binding(cur))
      BY DEF KnownPrefix
    <3>2. DOMAIN pres = 1..Len(pres)
      BY LenProperties DEF TypeInv, TableTyped, IsTable
    <3>3. PICK i \in 1..Len(pres) : pres[i].prfx = Binding(cur).prfx
      BY <3>1, <3>2 DEF Registered
    <3>4. InEffect(Stream, Len(Stream), pres[i])
      BY <2>1, <3>1 DEF ForceInv, InTable, FirstHold
    <3>5. PICK j \in 1..Len(Stream) : Says(Stream[j], pres[i])
      BY <3>4 DEF InEffect
    <3>6. Touches(Stream[j], Binding(cur))
      BY <3>3, <3>5 DEF Says, Touches
    <3> QED
      BY <3>6 DEF TouchedBy, cur
  <2>6. AllFollowed(fed, Stream, n, lost')
    <3> HIDE DEF n, m
    <3>1. Lines(Stream, m + 1)
      BY <1>2, <2>4
    <3>2. Declares(fed[m + 1].stmt) /\ m + 1 \notin lost'
            => TouchedBy(Stream, Len(Stream), Binding(fed[m + 1].stmt))
      BY <1>2, <2>5
    <3>3. AllFollowed(fed, Stream, m + 1, lost')
      BY <1>1, <1>2, <2>2, <3>1, <3>2, FollowedOver
    <3> QED
      BY <1>2, <3>3
  <2> QED
    BY <1>1, <1>3, <2>2, <2>3, <2>6
<1> QED
  BY <1>1, <1>4 DEF KeptInv

LEMMA KeptAdd ==
  ASSUME TypeInv, KeptInv, AddPrefix
  PROVE  KeptInv'
<1> DEFINE b == Binding(cur)
           n == Len(pres)
<1>1. /\ pc = "prefix" /\ pc' \in {"room", "wild_pres"} /\ Declares(cur)
      /\ pres' = Append(pres, b) /\ UNCHANGED <<buf, out, fed, lost, gone>>
  BY DEF AddPrefix, Add, NewPrefix, buffer, calls, history
<1>2. cur \in Seq(Char) /\ Len(fed) \in Nat /\ Len(fed) >= 1
  BY <1>1, Current, LenFed DEF TypeInv, CallsTyped, InCall
<1>3. b \in Prefix
  BY <1>1, <1>2, BindingIs
<1>4. Origin(fed, b)
  <2>1. Len(fed) \in 1..Len(fed)
    BY <1>2
  <2> QED
    BY <1>1, <2>1 DEF Origin, cur
<1> HIDE DEF b
<1>5. n \in Nat /\ pres \in Seq(Prefix)
  BY LenProperties DEF TypeInv, TableTyped, IsTable
<1>6. Len(pres') = n + 1 /\ (\A i \in 1..n : pres'[i] = pres[i]) /\ pres'[n + 1] = b
  BY <1>1, <1>3, <1>5, AppendProperties
<1>7. \A i \in 1..Len(pres') : Origin(fed', pres'[i])
  <2>1. \A i \in 1..n : Origin(fed, pres[i])
    BY DEF KeptInv
  <2>2. \A i \in 1..n+1 : i \in 1..n \/ i = n + 1
    BY <1>5
  <2> HIDE DEF n
  <2> QED
    BY <1>1, <1>4, <1>6, <2>1, <2>2
<1>8. Stream' = Stream /\ Over' = Over /\ Survivable' = Survivable
  BY <1>1 DEF Stream, Over, Survivable
<1> QED
  BY <1>1, <1>7, <1>8 DEF KeptInv

LEMMA KeptFlush ==
  ASSUME TypeInv, KeptInv, Flush
  PROVE  KeptInv'
<1>1. /\ pc = "room" /\ pc' = "put" /\ WrBuf /\ buf' = <<>> /\ UNCHANGED <<pres, fed, lost>>
  BY DEF Flush, table, calls
<1>2. Over' = Over
  BY <1>1 DEF Over
<1>3. Survivable' => Survivable /\ Stream' = Stream
  BY <1>1, AllWritten DEF Survivable
<1> QED
  BY <1>1, <1>2, <1>3 DEF KeptInv

\* The line of the call follows it.
LEMMA KeptPut ==
  ASSUME TypeInv, OrderInv, KeptInv, PutDirective \/ PutStmt
  PROVE  KeptInv'
<1> DEFINE n == Len(fed)
           m == n - 1
<1>1. /\ pc = "put" /\ pc' \in {"idle", "wild_buf"} /\ UNCHANGED <<pres, out, fed, lost, gone>>
  BY DEF PutDirective, PutStmt, table, calls, history
<1>2. cur \in Seq(Char) /\ Len(cur) >= 1 /\ n \in Nat /\ m \in Nat /\ m + 1 = n /\ Over = m /\ n >= 1
  BY <1>1, Current, Engaged DEF TypeInv, CallsTyped, InCall, z
<1>3. PICK l \in ALine :
        /\ buf' = Append(buf, l) /\ l.no = n
        /\ Declares(l.text) <=> Declares(cur)
        /\ Declares(cur) => Binding(l.text) = Binding(cur)
  <2>1. CASE PutDirective
    <3> DEFINE k == Line(cur \o <<"\n">>)
    <3>1. k \in ALine /\ k.no = n /\ buf' = Append(buf, k)
      BY <1>1, <2>1, DirectiveLine DEF PutDirective
    <3>2. k.text = cur \o <<"\n">>
      BY DEF Line
    <3>3. (Declares(k.text) <=> Declares(cur)) /\ (Declares(cur) => Binding(k.text) = Binding(cur))
      BY <1>2, <3>2, LineDeclares
    <3> HIDE DEF k
    <3> QED
      BY <3>1, <3>3
  <2>2. CASE PutStmt
    <3> DEFINE k == Line(<<"\n">> \o subst(pres, cur, (bsz - bix) - 1).text \o <<"\n">>)
    <3>1. k \in ALine /\ k.no = n /\ buf' = Append(buf, k)
      BY <2>2, StmtLine
    <3>2. ~Declares(k.text)
      BY <2>2, StmtTextDeclaresNot DEF Line
    <3>3. ~Declares(cur)
      BY <2>2 DEF PutStmt, IsDirective, Declares
    <3> HIDE DEF k
    <3> QED
      BY <3>1, <3>2, <3>3
  <2> QED
    BY <2>1, <2>2
<1>4. Over' \in {m, n}
  BY <1>1 DEF Over
<1>5. ASSUME Survivable' PROVE Traced(fed', Stream') /\ AllFollowed(fed', Stream', Over', lost')
  <2>1. Traced(fed, Stream) /\ AllFollowed(fed, Stream, m, lost)
    BY <1>1, <1>2, <1>5 DEF KeptInv, Survivable
  <2>2. Grown(Stream, Stream', l) /\ Len(Stream) \in Nat
    <3>1. l.no <= Len(fed)
      BY <1>2, <1>3
    <3>2. pc # "done" /\ pc' # "done"
      BY <1>1
    <3> QED
      BY <1>1, <1>3, <3>1, <3>2, Grows, StreamIs
  <2>3. Traced(fed, Stream')
    <3>1. Declares(l.text) => Origin(fed, Binding(l.text))
      <4>1. n \in 1..n
        BY <1>2
      <4> QED
        BY <1>3, <4>1 DEF Origin, cur
    <3> QED
      BY <2>1, <2>2, <3>1, TracedGrown
  <2>4. AllFollowed(fed, Stream', m, lost)
    BY <2>1, <2>2, FollowedGrown DEF AllFollowed
  <2>5. AllFollowed(fed, Stream', n, lost)
    <3>1. Lines(Stream', n)
      <4>1. TypeInv'
        BY TypePutDirective, TypePutStmt
      <4>2. Lines(Stream, Len(fed))'
        BY <4>1, StreamTyped, PTL
      <4> QED
        BY <1>1, <4>2
    <3>2. Declares(fed[n].stmt) => TouchedBy(Stream', Len(Stream'), Binding(fed[n].stmt))
      <4> SUFFICES ASSUME Declares(cur) PROVE TouchedBy(Stream', Len(Stream'), Binding(cur))
        BY DEF cur
      <4>1. Touches(l, Binding(cur))
        BY <1>3 DEF Touches
      <4>2. Stream'[Len(Stream')] = l /\ Len(Stream') \in 1..Len(Stream')
        BY <2>2 DEF Grown
      <4> QED
        BY <4>1, <4>2 DEF TouchedBy
    <3> HIDE DEF n, m
    <3>3. AllFollowed(fed, Stream', m + 1, lost)
      <4>1. Lines(Stream', m + 1)
        BY <1>2, <3>1
      <4>2. Declares(fed[m + 1].stmt) => TouchedBy(Stream', Len(Stream'), Binding(fed[m + 1].stmt))
        BY <1>2, <3>2
      <4> DEFINE q == Stream'
      <4>3. /\ Lines(q, m + 1) /\ AllFollowed(fed, q, m, lost)
            /\ Declares(fed[m + 1].stmt) => TouchedBy(q, Len(q), Binding(fed[m + 1].stmt))
        BY <2>4, <4>1, <4>2
      <4> HIDE DEF q
      <4>4. AllFollowed(fed, q, m + 1, lost)
        BY <1>2, <4>3, FollowedOver
      <4> QED
        BY <4>4 DEF q
    <3> QED
      BY <1>2, <3>3
  <2>6. AllFollowed(fed, Stream', Over', lost)
    BY <1>4, <2>4, <2>5
  <2> QED
    BY <1>1, <2>3, <2>6
<1> QED
  BY <1>1, <1>5 DEF KeptInv

LEMMA KeptFini ==
  ASSUME TypeInv, KeptInv, FiniStmt \/ GiveUp
  PROVE  KeptInv'
<1>1. /\ pc = "idle" /\ pc' \in {"idle", "done"} /\ UNCHANGED <<fed, lost>>
      /\ gone \subseteq gone' /\ pres' \in {pres, Defaults}
  BY DEF FiniStmt, GiveUp, NextInput, WrBuf, table
<1>2. Over' = Over
  BY <1>1 DEF Over
<1>3. \A i \in 1..Len(pres') : Origin(fed', pres'[i])
  BY <1>1 DEF KeptInv, Origin
<1>4. Survivable' => Survivable /\ Stream' = Stream
  BY <1>1, FiniStream DEF Survivable
<1> QED
  BY <1>1, <1>2, <1>3, <1>4 DEF KeptInv

LEMMA KeptStep ==
  TypeInv /\ OrderInv /\ ForceInv /\ KeptInv /\ [Next]_vars => KeptInv'
<1> SUFFICES ASSUME TypeInv, OrderInv, ForceInv, KeptInv, [Next]_vars PROVE KeptInv'
  OBVIOUS
<1>1. CASE \E s \in Stmt : Call(s)
  BY <1>1, KeptCall
<1>2. CASE Push \/ PushGrow
  BY <1>2, KeptPush
<1>3. CASE PushFails \/ KnownPrefix \/ FlushFails
  BY <1>3, TypeStep, KeptDropped
<1>4. CASE AllPushed \/ NoPrefix \/ PrbFails \/ PresFails \/ HasRoom
  BY <1>4, KeptSteady
<1>5. CASE AddPrefix
  BY <1>5, KeptAdd
<1>6. CASE Flush
  BY <1>6, KeptFlush
<1>7. CASE PutDirective \/ PutStmt
  BY <1>7, KeptPut
<1>8. CASE FiniStmt \/ GiveUp
  BY <1>8, KeptFini
<1>9. CASE Halted \/ UNCHANGED vars
  <2>1. UNCHANGED <<pres, buf, out, fed, pc, lost, gone>>
    BY <1>9 DEF Halted, vars, table, buffer, calls, history
  <2>2. Stream' = Stream /\ Over' = Over /\ Survivable' = Survivable
    BY <2>1 DEF Stream, Over, Survivable
  <2> QED
    BY <2>1, <2>2 DEF KeptInv
<1> QED
  BY <1>1, <1>2, <1>3, <1>4, <1>5, <1>6, <1>7, <1>8, <1>9 DEF Next

\* A name that is defined once stands for the same in the output, wherever a statement
\* comes after its directive (ttl-prefixify.c:247-263).
THEOREM NamesKeepTheirMeaning == Spec => []NamesKept
<1>1. Init => TypeInv /\ BoundsInv /\ OrderInv /\ ForceInv /\ KeptInv
  BY TypeInit, BoundsInit, OrderInit, ForceInit, KeptInit
<1>2. (TypeInv /\ BoundsInv /\ OrderInv /\ ForceInv /\ KeptInv) /\ [Next]_vars
        => (TypeInv /\ BoundsInv /\ OrderInv /\ ForceInv /\ KeptInv)'
  BY TypeStep, BoundsStep, OrderStep, ForceStep, KeptStep
<1>3. TypeInv /\ KeptInv => NamesKept
  <2> SUFFICES ASSUME TypeInv, KeptInv, Survivable,
                      NEW k \in DOMAIN Stream, IsStmt(Stream[k]),
                      NEW n \in 1..Stream[k].no-1,
                      Declares(fed[n].stmt), n \notin lost, Undisputed(Binding(fed[n].stmt))
               PROVE  InForce(SubSeq(Stream, 1, k - 1), Binding(fed[n].stmt))
    BY DEF NamesKept
  <2> DEFINE b == Binding(fed[n].stmt)
  <2>1. Lines(Stream, Len(fed)) /\ Len(fed) \in Nat /\ Len(Stream) \in Nat /\ k \in 1..Len(Stream)
    BY StreamIs
  <2>2. IsAbout(fed, Stream[k])
    BY DEF IsStmt, StmtOf, IsAbout
  <2>3. n \in 1..Over /\ n < Stream[k].no
    <3>1. Stream[k] \in ALine /\ Stream[k].no <= Len(fed)
      BY <2>1, ElementOfSeq DEF Lines
    <3>2. n <= Len(fed) - 1 /\ n < Stream[k].no
      BY <2>1, <3>1 DEF ALine
    <3> QED
      BY <2>1, <3>2 DEF Over
  <2>4. Traced(fed, Stream) /\ Followed(fed, Stream, n, b)
    BY <2>3 DEF KeptInv, AllFollowed
  <2>5. Undisputed(b)
    OBVIOUS
  <2> HIDE DEF b
  <2>6. TouchedBy(Stream, k - 1, b)
    BY <2>1, <2>2, <2>3, <2>4 DEF Followed
  <2>7. ASSUME NEW j \in 1..k-1, Touches(Stream[j], b) PROVE Says(Stream[j], b)
    <3>1. j \in 1..Len(Stream) /\ Declares(Stream[j].text) /\ Binding(Stream[j].text).prfx = b.prfx
      BY <2>1, <2>7 DEF Touches
    <3>2. Origin(fed, Binding(Stream[j].text))
      BY <2>4, <3>1 DEF Traced
    <3>3. DOMAIN fed = 1..Len(fed) /\ DOMAIN Defaults = 1..Len(Defaults)
      BY TableAssumption, LenProperties DEF TypeInv, CallsTyped
    <3>4. Binding(Stream[j].text) = b
      BY <2>5, <3>1, <3>2, <3>3 DEF Origin, Undisputed
    <3> QED
      BY <3>1, <3>4 DEF Says
  <2>8. k - 1 \in Nat /\ k - 1 \in 0..Len(Stream)
    BY <2>1
  <2>9. InEffect(Stream, k - 1, b)
    BY <2>6, <2>7, <2>8, LastTouch
  <2>10. InForce(SubSeq(Stream, 1, k - 1), b)
    BY <2>1, <2>8, <2>9, InForceIs
  <2> QED
    BY <2>10 DEF b
<1> QED
  BY <1>1, <1>2, <1>3, PTL DEF Spec

===========================================================================
