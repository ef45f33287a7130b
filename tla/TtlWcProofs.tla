--------------------------- MODULE TtlWcProofs ----------------------------
(***************************************************************************)
(* What ttl-wc counts, for every number of files, every text and every way *)
(* a file is cut into reads: the subjects exactly, of the rest never too   *)
(* little, and of a file in one read nothing twice.                        *)
(***************************************************************************)
EXTENDS TtlWc, TtlScanProofs

---------------------------------------------------------------------------
(* The separators of the text.                                             *)

SepsOf(C) == {i \in 1..Len(text) : text[i] \in C /\ Mode[i-1] \in Stream!Outside}
SepsTo(C, n) == {i \in SepsOf(C) : i <= n}
SepFree(C, i, j) == \A e \in SepsOf(C) : ~(i <= e /\ e <= j)

LEMMA SepsAre ==
  ASSUME text \in Seq(STRING), NEW C
  PROVE  /\ SepsOf(C) \subseteq 1..Len(text) /\ SepsOf(C) \subseteq Nat
         /\ \A i \in 1..Len(text) :
              i \in SepsOf(C) <=> text[i] \in C /\ Mode[i-1] \in {"free", "fesc", "q2"}
         /\ IsFiniteSet(SepsOf(C))
         /\ Stream!Outsiders(text, C) = Cardinality(SepsOf(C))
<1>1. Len(text) \in Nat
  BY LenProperties
<1>2. SepsOf(C) \subseteq 1..Len(text) /\ SepsOf(C) \subseteq Nat
  BY <1>1 DEF SepsOf
<1>3. \A i \in 1..Len(text) :
        i \in SepsOf(C) <=> text[i] \in C /\ Mode[i-1] \in {"free", "fesc", "q2"}
  BY DEF SepsOf, Stream!Outside
<1>4. IsFiniteSet(SepsOf(C))
  <2>1. IsFiniteSet(1..Len(text))
    BY <1>1, FS_Interval
  <2> QED
    BY <1>2, <2>1, FS_Subset
<1>5. Stream!Outsiders(text, C) = Cardinality(SepsOf(C))
  BY Zenon DEF Stream!Outsiders, SepsOf, Mode, Stream!Cardinality, Cardinality,
                Stream!IsFiniteSet, IsFiniteSet
<1> QED
  BY <1>2, <1>3, <1>4, <1>5

\* The separators up to a place, and those up to a later one.
LEMMA SepsToIs ==
  ASSUME text \in Seq(STRING), NEW C, NEW n \in Int
  PROVE  /\ IsFiniteSet(SepsTo(C, n)) /\ Cardinality(SepsTo(C, n)) \in Nat
         /\ \A i : i \in SepsTo(C, n) <=> i \in SepsOf(C) /\ i <= n
<1>1. SepsTo(C, n) \subseteq SepsOf(C)
  BY DEF SepsTo
<1>2. IsFiniteSet(SepsTo(C, n))
  BY <1>1, SepsAre, FS_Subset
<1>3. \A i : i \in SepsTo(C, n) <=> i \in SepsOf(C) /\ i <= n
  BY Zenon DEF SepsTo
<1> QED
  BY <1>2, <1>3, FS_CardinalityType

LEMMA SepsToSame ==
  ASSUME text \in Seq(STRING), NEW C, NEW m \in Int, NEW n \in Int, m <= n, SepFree(C, m + 1, n)
  PROVE  SepsTo(C, n) = SepsTo(C, m)
<1>1. \A i \in SepsOf(C) : i \in Nat
  BY SepsAre
<1>2. \A i : i \in SepsTo(C, n) <=> i \in SepsTo(C, m)
  BY <1>1, SepsToIs DEF SepFree
<1> QED
  BY <1>2

LEMMA SepsToOneMore ==
  ASSUME text \in Seq(STRING), NEW C, NEW m \in Int, NEW n \in SepsOf(C), m < n,
         SepFree(C, m + 1, n - 1)
  PROVE  Cardinality(SepsTo(C, n)) = Cardinality(SepsTo(C, m)) + 1
<1>1. \A i \in SepsOf(C) : i \in Nat
  BY SepsAre
<1>2. \A i : i \in SepsTo(C, n) <=> i \in SepsTo(C, m) \/ i = n
  BY <1>1, SepsToIs DEF SepFree
<1>3. SepsTo(C, n) = SepsTo(C, m) \cup {n} /\ n \notin SepsTo(C, m)
  <2>1. n \notin SepsTo(C, m)
    BY <1>1, SepsToIs
  <2> QED
    BY <1>2, <2>1
<1>4. IsFiniteSet(SepsTo(C, m))
  BY SepsToIs
<1> QED
  BY <1>3, <1>4, FS_AddElement

LEMMA SepsToMore ==
  ASSUME text \in Seq(STRING), NEW C, NEW m \in Int, NEW n \in Int, m <= n
  PROVE  Cardinality(SepsTo(C, m)) <= Cardinality(SepsTo(C, n))
<1>1. \A i \in SepsOf(C) : i \in Nat
  BY SepsAre
<1>2. SepsTo(C, m) \subseteq SepsTo(C, n)
  BY <1>1, SepsToIs
<1>3. IsFiniteSet(SepsTo(C, n))
  BY SepsToIs
<1> QED
  BY <1>2, <1>3, FS_Subset

LEMMA SepFreeJoin ==
  ASSUME text \in Seq(STRING), NEW C, NEW a \in Int, NEW b \in Int, NEW c \in Int,
         SepFree(C, a, b), SepFree(C, b + 1, c)
  PROVE  SepFree(C, a, c)
<1>1. SepsOf(C) \subseteq Nat
  BY SepsAre
<1> QED
  BY <1>1 DEF SepFree

\* The separators in the buffer.
LEMMA SepSeen ==
  ASSUME ReaderInv, NEW p \in 1..Len(buf), NEW C
  PROVE  base + p \in SepsOf(C) <=> buf[p] \in C /\ At(p - 1) \in {"free", "fesc", "q2"}
<1>1. text \in Seq(STRING) /\ base \in Nat
  BY Window
<1>2. base + p \in 1..Len(text) /\ buf[p] = text[base + p] /\ base + p - 1 = base + (p - 1)
  BY <1>1, Seen
<1> QED
  BY <1>1, <1>2, SepsAre DEF At

LEMMA NoSeps ==
  ASSUME ReaderInv, NEW C, NEW a \in 1..Len(buf)+1, NEW b \in 0..Len(buf),
         \A k \in a..b : buf[k] \notin C
  PROVE  SepFree(C, base + a, base + b)
<1>w. text \in Seq(STRING) /\ Len(buf) \in Nat /\ base \in Nat
  BY Window
<1>1. SUFFICES ASSUME NEW e \in SepsOf(C), base + a <= e, e <= base + b PROVE FALSE
  BY DEF SepFree
<1>2. e \in Nat
  BY <1>w, SepsAre
<1> DEFINE k == e - base
<1>3. k \in a..b /\ k \in 1..Len(buf) /\ e = base + k
  BY <1>1, <1>2, <1>w
<1> HIDE DEF k
<1> QED
  BY <1>1, <1>3, SepSeen

\* A search passes none by.
LEMMA StretchSepFree ==
  ASSUME ReaderInv, Tracks, NEW q, Reached(q), NEW C, C \subseteq Seps
  PROVE  SepFree(C, base + tp, base + q - 1)
<1>w. /\ tp \in Nat /\ Len(buf) \in Nat /\ base \in Nat /\ q \in Nat /\ q \in tp..Len(buf)+1
      /\ text \in Seq(STRING) /\ sp \in Nat /\ sp \in 1..tp
  BY Window DEF Reached
<1>1. SUFFICES ASSUME NEW e \in SepsOf(C), base + tp <= e, e <= base + q - 1 PROVE FALSE
  BY DEF SepFree
<1> DEFINE k == e - base
<1>2. e \in Nat
  BY <1>w, SepsAre
<1>3. k \in tp..q-1 /\ k \in 1..Len(buf) /\ e = base + k /\ tp..k-1 \subseteq tp..q-1 /\ k \in tp..Len(buf)+1
  BY <1>w, <1>1, <1>2
<1>4. Reached(k) /\ ~Hit(k)
  BY <1>3 DEF Reached
<1> HIDE DEF k
<1>5. InMode(k)
  BY <1>4, Stretch
<1>6. buf[k] \in Seps /\ At(k - 1) \in {"free", "fesc", "q2"}
  BY <1>1, <1>3, SepSeen
<1>7. st # "free"
  BY <1>4, <1>6, HitIs DEF FreeStops
<1>8. st \in {"angles", "quotes", "long", "comment"}
  BY <1>7, Window DEF States
<1>9. buf[k] # Quote
  BY <1>6, StopsAssumption DEF Quote
<1> QED
  BY <1>5, <1>6, <1>8 DEF InMode, QuotesAt, LongAt

---------------------------------------------------------------------------
(* What the scan loop passes.                                              *)

\* A token has no separator in it that counts.
LEMMA TokenSpan ==
  ASSUME ReaderInv, Tracks, NEW p \in tp..Len(buf), Found(p), Token(p)
  PROVE  /\ UNCHANGED <<text, nread, failed, buf, bsz, sp, pc, out>>
         /\ tp' \in p+1..Len(buf)+1
         /\ \A k \in p..tp'-1 : buf[k] \in {"<", ">", "#", "\n", Quote}
<1>w. p \in 1..Len(buf) /\ p \in Nat /\ Hit(p) /\ Len(buf) \in Nat
  BY AtFound, Window
<1>1. PICK s, q : Follows(p, s, q)
  BY TokenFollows
<1>2. /\ UNCHANGED <<text, nread, failed, buf, bsz, sp, pc, out>>
      /\ tp' \in p+1..Len(buf)+1
  BY <1>1 DEF Follows, input
<1>3. ASSUME tp' = p + 1, buf[p] \in {"<", ">", "#", "\n", Quote}
      PROVE  \A k \in p..tp'-1 : buf[k] \in {"<", ">", "#", "\n", Quote}
  <2>1. \A k \in p..tp'-1 : k = p
    BY <1>w, <1>3
  <2> QED
    BY <1>3, <2>1
<1>4. CASE OpenAngle(p) \/ CloseAngle(p) \/ Hash(p) \/ Newline(p)
  <2>1. tp' = p + 1 /\ buf[p] \in {"<", ">", "#", "\n"}
    BY <1>4, <1>w, HitIs DEF OpenAngle, CloseAngle, Hash, Newline, Advance
  <2> QED
    BY <1>2, <1>3, <2>1
<1>5. CASE EscapedQuote(p) \/ OpenQuote(p) \/ CloseQuote(p)
  <2>1. tp' = p + 1 /\ buf[p] = Quote
    BY <1>5 DEF EscapedQuote, OpenQuote, CloseQuote, PlainQuote, Advance
  <2> QED
    BY <1>2, <1>3, <2>1
<1>6. CASE EmptyQuote(p) \/ OpenLong(p)
  <2>1. buf[p] = Quote /\ After(p, 1) = Quote
        /\ (tp' = p + 2 \/ (tp' = p + 3 /\ After(p, 2) = Quote))
    BY <1>6 DEF EmptyQuote, OpenLong, PlainQuote, Advance
  <2>2. buf[p+1] = Quote
    BY <2>1 DEF After, Quote
  <2>3. tp' = p + 3 => buf[p+2] = Quote
    <3>1. SUFFICES ASSUME tp' = p + 3 PROVE buf[p+2] = Quote
      OBVIOUS
    <3>2. p + 3 # p + 2
      BY <1>w
    <3>3. After(p, 2) = Quote
      BY <2>1, <3>1, <3>2, Zenon
    <3> QED
      BY <3>3 DEF After, Quote
  <2>4. \A k \in p..tp'-1 : k = p \/ k = p + 1 \/ (k = p + 2 /\ tp' = p + 3)
    <3> HIDE DEF After
    <3> QED
      BY <1>w, <2>1
  <2> QED
    BY <1>2, <2>1, <2>2, <2>3, <2>4
<1>7. CASE CloseLong(p)
  <2>1. st = "long" /\ tp' = p + 3
    BY <1>7 DEF CloseLong, Advance
  <2>2. \A k \in p..p+2 : buf[k] = Quote
    BY <1>w, <2>1, HitIs
  <2>3. tp' - 1 = p + 2
    BY <1>w, <2>1
  <2> QED
    BY <1>2, <2>2, <2>3
<1> QED
  BY <1>4, <1>5, <1>6, <1>7 DEF Token

LEMMA FoundSepFree ==
  ASSUME ReaderInv, Tracks, NEW p \in tp..Len(buf), Found(p), NEW C, C \subseteq Seps
  PROVE  SepFree(C, (base + tp - 1) + 1, (base + p) - 1)
<1>1. p \in tp..Len(buf)+1 /\ base \in Nat /\ tp \in Nat /\ p \in Nat
  BY Window
<1>2. Reached(p)
  BY <1>1 DEF Found, Reached
<1>3. SepFree(C, base + tp, base + p - 1)
  BY <1>2, StretchSepFree
<1>4. (base + tp - 1) + 1 = base + tp /\ (base + p) - 1 = base + p - 1
  BY <1>1
<1> QED
  BY <1>3, <1>4

\* From the start of a search up to q, if nothing counts from p on.
LEMMA PassedBy ==
  ASSUME ReaderInv, Tracks, NEW p \in tp..Len(buf), Found(p), NEW C, C \subseteq Seps,
         NEW q \in p+1..Len(buf)+1, \A k \in p..q-1 : buf[k] \notin C
  PROVE  SepsTo(C, base + q - 1) = SepsTo(C, base + tp - 1)
<1>w. /\ text \in Seq(STRING) /\ base \in Nat /\ tp \in Nat /\ p \in Nat /\ q \in Nat
      /\ Len(buf) \in Nat /\ tp >= 1 /\ p \in 1..Len(buf)+1 /\ q - 1 \in 0..Len(buf)
  BY Window
<1>1. SepFree(C, base + p, base + (q - 1))
  BY <1>w, NoSeps
<1>2. SepFree(C, (base + tp - 1) + 1, (base + p) - 1)
  BY FoundSepFree
<1>3. base + (q - 1) = base + q - 1 /\ ((base + p) - 1) + 1 = base + p
      /\ base + tp - 1 <= base + q - 1
  BY <1>w
<1>4. base + tp - 1 \in Int /\ base + q - 1 \in Int /\ (base + p) - 1 \in Int
      /\ (base + tp - 1) + 1 \in Int
  BY <1>w
<1> HIDE DEF base
<1>5. SepFree(C, (base + tp - 1) + 1, base + q - 1)
  BY <1>w, <1>1, <1>2, <1>3, <1>4, SepFreeJoin
<1> QED
  BY <1>w, <1>3, <1>4, <1>5, SepsToSame

LEMMA TokenPasses ==
  ASSUME ReaderInv, Tracks, NEW p \in tp..Len(buf), Found(p), Token(p), NEW C, C \subseteq Seps
  PROVE  SepsTo(C, base + tp' - 1) = SepsTo(C, base + tp - 1)
<1>1. tp' \in p+1..Len(buf)+1 /\ \A k \in p..tp'-1 : buf[k] \in {"<", ">", "#", "\n", Quote}
  BY TokenSpan
<1>2. \A k \in p..tp'-1 : buf[k] \notin C
  BY <1>1, StopsAssumption DEF Quote
<1> HIDE DEF base
<1> QED
  BY <1>1, <1>2, PassedBy

LEMMA DotPasses ==
  ASSUME ReaderInv, Tracks, NEW p \in tp..Len(buf), Found(p), Dot(p), NEW C, C \subseteq Seps
  PROVE  SepsTo(C, base + tp' - 1) = SepsTo(C, base + tp - 1)
<1>1. PICK j \in p+1..Len(buf)+1 : Overread(buf, p+1, j) /\ tp' = j
  BY DEF Dot
<1>2. buf[p] = "." /\ \A k \in p+1..j-1 : buf[k] \in White
  BY <1>1 DEF Dot, Overread
<1>3. \A k \in p..j-1 : k = p \/ k \in p+1..j-1
  <2>1. p \in Nat
    BY Window
  <2> QED
    BY <2>1, <1>1
<1>4. \A k \in p..j-1 : buf[k] \notin C
  BY <1>2, <1>3, StopsAssumption DEF White
<1> HIDE DEF base
<1> QED
  BY <1>1, <1>4, PassedBy

LEMMA SeparatorPasses ==
  ASSUME ReaderInv, Tracks, NEW p \in tp..Len(buf), Found(p), Separator(p), NEW C, C \subseteq Seps
  PROVE  /\ tp' = p + 1
         /\ buf[p] \notin C => SepsTo(C, base + tp' - 1) = SepsTo(C, base + tp - 1)
         /\ buf[p] \in C => Cardinality(SepsTo(C, base + tp' - 1))
                              = Cardinality(SepsTo(C, base + tp - 1)) + 1
<1>1. tp' = p + 1 /\ st = "free" /\ buf[p] \in Seps
  BY DEF Separator, Advance
<1>w. /\ text \in Seq(STRING) /\ base \in Nat /\ tp \in Nat /\ p \in Nat
      /\ Len(buf) \in Nat /\ tp >= 1 /\ p \in 1..Len(buf) /\ base + tp' - 1 = base + p
      /\ base + tp - 1 \in Int /\ base + tp - 1 < base + p
  BY <1>1, Window
<1>2. ASSUME buf[p] \notin C PROVE SepsTo(C, base + tp' - 1) = SepsTo(C, base + tp - 1)
  <2>1. p + 1 \in p+1..Len(buf)+1 /\ \A k \in p..(p+1)-1 : k = p
    BY <1>w
  <2>2. SepsTo(C, base + (p + 1) - 1) = SepsTo(C, base + tp - 1)
    BY <1>2, <2>1, PassedBy
  <2> QED
    BY <1>1, <2>2
<1>3. ASSUME buf[p] \in C
      PROVE  Cardinality(SepsTo(C, base + p)) = Cardinality(SepsTo(C, base + tp - 1)) + 1
  <2>1. base + p \in SepsOf(C)
    BY <1>1, <1>3, <1>w, FreeFound, SepSeen
  <2>2. SepFree(C, (base + tp - 1) + 1, (base + p) - 1)
    BY FoundSepFree
  <2> HIDE DEF base
  <2> QED
    BY <1>w, <2>1, <2>2, SepsToOneMore
<1> QED
  BY <1>1, <1>2, <1>3, <1>w

\* When proc() returns it has passed all of the buffer.
LEMMA ReturnPasses ==
  ASSUME ReaderInv, Tracks, text \in Texts, Returns, NEW C, C \subseteq Seps
  PROVE  SepsTo(C, nread) = SepsTo(C, base + tp - 1)
<1>w. /\ text \in Seq(STRING) /\ base \in Nat /\ tp \in Nat /\ Len(buf) \in Nat /\ tp >= 1
      /\ nread = base + Len(buf) /\ tp <= Len(buf) + 1 /\ nread \in Int
      /\ base + tp - 1 \in Int /\ base + tp - 1 <= nread /\ (base + tp - 1) + 1 = base + tp
      /\ base + (Len(buf) + 1) - 1 = nread
  BY Window
<1>1. CASE NotFound
  <2>1. Reached(Len(buf) + 1)
    <3>1. (Len(buf) + 1) - 1 = Len(buf) /\ Len(buf) + 1 \in tp..Len(buf)+1
      BY <1>w
    <3> QED
      BY <1>1, <3>1 DEF NotFound, Reached
  <2>2. SepFree(C, base + tp, base + (Len(buf) + 1) - 1)
    BY <2>1, StretchSepFree
  <2> HIDE DEF base
  <2> QED
    BY <1>w, <2>2, SepsToSame
<1>2. ASSUME NEW p \in tp..Len(buf), Found(p), CutShort(p)
      PROVE  SepsTo(C, nread) = SepsTo(C, base + tp - 1)
  <2>1. p \in 1..Len(buf) /\ Len(buf) + 1 \in p+1..Len(buf)+1 /\ (Len(buf) + 1) - 1 = Len(buf)
    BY <1>w
  <2>2. \A k \in p..Len(buf) : buf[k] = Quote
    BY <1>2, <2>1, OnlyQuotes
  <2>3. \A k \in p..(Len(buf)+1)-1 : buf[k] \notin C
    BY <2>1, <2>2, StopsAssumption DEF Quote
  <2>4. SepsTo(C, base + (Len(buf) + 1) - 1) = SepsTo(C, base + tp - 1)
    BY <1>2, <2>1, <2>3, PassedBy
  <2> QED
    BY <1>w, <2>4
<1> QED
  BY <1>1, <1>2 DEF Returns

---------------------------------------------------------------------------
(* The invariant.  scanned is how far proc() has looked, or looked last    *)
(* time.                                                                   *)

scanned  == IF Scanning THEN base + tp - 1 ELSE nread
semis    == Cardinality(SepsTo({";"}, scanned))
stops    == Cardinality(SepsTo({";", ","}, scanned))
Subjects == {k \in 1..Len(out) : out[k][1] # "@"}

CountSet == [nsub : Nat, npre : Nat, nobj : Nat]
RowSet   == [opened : BOOLEAN, text : Seq(STRING), counts : CountSet]

WcTypes ==
  /\ nsub \in Nat /\ npre \in Nat /\ nobj \in Nat
  /\ total \in CountSet
  /\ rc \in Nat /\ reads \in Nat
  /\ rows \in Seq(RowSet)
  /\ main \in {"open", "count", "print", "end", "exit"}

\* A file is printed once, whether it opened or not.
OneRowEach ==
  /\ rc <= Len(rows) + (IF main = "print" THEN 1 ELSE 0)
  /\ Len(rows) <= MaxFiles
  /\ main \in {"open", "count", "print"} => Len(rows) < MaxFiles

AtLeast == npre >= nsub + semis /\ nobj >= nsub + stops
Exact   == npre = nsub + semis /\ nobj = nsub + stops

\* A separator behind the last statement is counted again once there is more of
\* the file; nothing is counted again if the file came in one read.
Counting ==
  main = "count" =>
    /\ nsub = Cardinality(Subjects)
    /\ AtLeast
    /\ reads = 0 => nread = 0
    /\ reads <= 1 /\ (pc \in {"read", "scan"} \/ Whole(text)) => Exact

\* Nothing is left of a file of whole statements when it has been read.
Emptied ==
  /\ pc \in {"last", "fini", "done"} => nread = Len(text)
  /\ pc \in {"read", "last"} /\ nread = Len(text) /\ Whole(text) => Len(buf) = 0

RowRight(r) ==
  /\ r.counts.nsub = TrueCounts(r.text).nsub
  /\ r.counts.npre >= TrueCounts(r.text).npre
  /\ r.counts.nobj >= TrueCounts(r.text).nobj
RowsRight == \A i \in DOMAIN rows : rows[i].opened => RowRight(rows[i])

\* What holds whatever fails.
FilesInv ==
  /\ HandedInv /\ WcTypes /\ OneRowEach
  /\ main \in {"open", "print"} => Init /\ reads = 0

WcInv == FilesInv /\ ~failed /\ Counting /\ Emptied /\ RowsRight

---------------------------------------------------------------------------
(* What the counters and the separators passed do in a step.               *)

LEMMA SubjectsAre ==
  ASSUME HandedInv
  PROVE  IsFiniteSet(Subjects) /\ Cardinality(Subjects) \in Nat /\ Len(out) \in Nat
         /\ out \in Seq(Seq(STRING))
<1>1. out \in Seq(Seq(STRING)) /\ Len(out) \in Nat
  BY LenProperties DEF HandedInv, StreamInv, ReaderInv, TypeOK
<1>2. IsFiniteSet(1..Len(out))
  BY <1>1, FS_Interval
<1>3. Subjects \subseteq 1..Len(out)
  BY DEF Subjects
<1>4. IsFiniteSet(Subjects)
  BY <1>2, <1>3, FS_Subset
<1> QED
  BY <1>1, <1>4, FS_CardinalityType

\* The separators passed, in the next state.
LEMMA NextPassed ==
  ASSUME text' = text, NEW n, scanned' = n
  PROVE  /\ semis' = Cardinality(SepsTo({";"}, n))
         /\ stops' = Cardinality(SepsTo({";", ","}, n))
<1>1. Mode' = Mode
  BY DEF Mode
<1>2. SepsOf({";"})' = SepsOf({";"}) /\ SepsOf({";", ","})' = SepsOf({";", ","})
  BY <1>1 DEF SepsOf
<1> QED
  BY <1>2 DEF semis, stops, SepsTo

\* Both counts of separators are natural numbers.
LEMMA PassedAre ==
  ASSUME ReaderInv
  PROVE  semis \in Nat /\ stops \in Nat /\ scanned \in Int
<1>1. scanned \in Int /\ text \in Seq(STRING)
  BY Window DEF scanned
<1> QED
  BY <1>1, SepsToIs DEF semis, stops

\* A statement that counts s, and a separator that counts a and b.
Counted1(s, a, b) ==
  /\ nsub' = nsub + s /\ npre' = npre + s + a /\ nobj' = nobj + s + b
  /\ semis' = semis + a /\ stops' = stops + b
  /\ Cardinality(Subjects') = Cardinality(Subjects) + s

LEMMA SubjectsNext ==
  ASSUME HandedInv, NEW x \in Seq(STRING), out' = Append(out, x)
  PROVE  Cardinality(Subjects')
           = IF x[1] = "@" THEN Cardinality(Subjects) ELSE Cardinality(Subjects) + 1
<1>1. out \in Seq(Seq(STRING)) /\ Len(out) \in Nat
  BY SubjectsAre
<1> DEFINE n == Len(out) + 1
<1>2. /\ Len(out') = n /\ out'[n] = x /\ \A k \in 1..Len(out) : out'[k] = out[k]
      /\ \A k : k \in 1..n <=> k \in 1..Len(out) \/ k = n
      /\ n \notin 1..Len(out)
  BY <1>1, AppendProperties
<1> HIDE DEF n
<1>3. \A k : k \in Subjects <=> k \in 1..Len(out) /\ out[k][1] # "@"
  BY Zenon DEF Subjects
<1>4. \A k : k \in Subjects' <=> k \in 1..n /\ out'[k][1] # "@"
  BY <1>2 DEF Subjects
<1>5. \A k : k \in Subjects' <=> k \in Subjects \/ (k = n /\ x[1] # "@")
  <2>1. ASSUME NEW k, k \in 1..Len(out) PROVE k \in Subjects' <=> k \in Subjects
    <3>1. out'[k] = out[k] /\ k # n /\ k \in 1..n
      BY <1>2, <2>1
    <3> QED
      BY <1>3, <1>4, <2>1, <3>1
  <2>2. n \in Subjects' <=> x[1] # "@"
    <3>1. n \in 1..n /\ out'[n] = x
      BY <1>2
    <3> QED
      BY <1>4, <3>1
  <2>3. \A k : k \in Subjects' => k \in 1..Len(out) \/ k = n
    BY <1>2, <1>4
  <2>4. \A k : k \in Subjects => k \in 1..Len(out) /\ k # n
    BY <1>2, <1>3
  <2> QED
    BY <2>1, <2>2, <2>3, <2>4, Zenon
<1>6. CASE x[1] = "@"
  <2>1. Subjects' = Subjects
    BY <1>5, <1>6
  <2> QED
    BY <1>6, <2>1
<1>7. CASE x[1] # "@"
  <2>1. Subjects' = Subjects \cup {n}
    BY <1>5, <1>7
  <2>2. n \notin Subjects
    BY <1>2, <1>3
  <2>3. Cardinality(Subjects') = Cardinality(Subjects) + 1
    BY <2>1, <2>2, SubjectsAre, FS_AddElement
  <2> QED
    BY <1>7, <2>3
<1> QED
  BY <1>6, <1>7

\* In the scan loop the counters follow the separators and the subjects.
LEMMA ScanCounts ==
  ASSUME HandedInv, WcTypes, CountScan
  PROVE  \E s, a, b \in {0, 1} : Counted1(s, a, b)
<1>1. PICK p \in tp..Len(buf) :
        Found(p) /\ (CountDot(p) \/ CountSeparator(p) \/ (Token(p) /\ UNCHANGED counters))
  BY DEF CountScan
<1>w. /\ ReaderInv /\ Tracks /\ text \in Texts /\ Scanning /\ StreamInv
      /\ {";"} \subseteq Seps /\ {";", ","} \subseteq Seps
  <2>1. ReaderInv /\ Tracks /\ Scanning /\ text \in Texts /\ StreamInv
    BY DEF CountScan, HandedInv, StreamInv, Tracking
  <2> QED
    BY <2>1, StopsAssumption
<1>r. ReaderInv
  BY <1>w
<1>v. /\ p \in Nat /\ sp \in Nat /\ tp \in Nat /\ sp <= p /\ sp >= 1 /\ p <= Len(buf)
      /\ Len(buf) \in Nat
  BY <1>r, Window
<1>s. p \in 1..Len(buf) /\ buf \in Seq(STRING)
  BY <1>r, Window
<1>n. nsub \in Nat /\ npre \in Nat /\ nobj \in Nat
  BY DEF WcTypes
<1>2. semis \in Nat /\ stops \in Nat /\ Cardinality(Subjects) \in Nat
  BY <1>w, PassedAre, SubjectsAre
<1>3. semis = Cardinality(SepsTo({";"}, base + tp - 1))
      /\ stops = Cardinality(SepsTo({";", ","}, base + tp - 1))
  BY <1>w DEF semis, stops, scanned
<1>4. ASSUME UNCHANGED <<text, nread, buf, pc>>
      PROVE  /\ semis' = Cardinality(SepsTo({";"}, base + tp' - 1))
             /\ stops' = Cardinality(SepsTo({";", ","}, base + tp' - 1))
  <2>1. scanned' = base + tp' - 1 /\ text' = text
    BY <1>4, <1>w DEF scanned, Scanning, base
  <2> HIDE DEF base
  <2> QED
    BY <2>1, NextPassed
<1>5. CASE Token(p) /\ UNCHANGED counters
  <2>1. UNCHANGED <<text, nread, failed, buf, bsz, sp, pc, out>>
    BY <1>1, <1>5, <1>w, TokenSpan
  <2>2. semis' = semis /\ stops' = stops
    <3>1. SepsTo({";"}, base + tp' - 1) = SepsTo({";"}, base + tp - 1)
          /\ SepsTo({";", ","}, base + tp' - 1) = SepsTo({";", ","}, base + tp - 1)
      BY <1>1, <1>5, <1>w, TokenPasses
    <3> QED
      BY <1>3, <1>4, <2>1, <3>1
  <2>3. Cardinality(Subjects') = Cardinality(Subjects)
    BY <2>1 DEF Subjects
  <2>4. UNCHANGED <<nsub, npre, nobj>>
    BY <1>5 DEF counters
  <2>5. Counted1(0, 0, 0)
    BY <1>2, <1>n, <2>2, <2>3, <2>4 DEF Counted1
  <2> QED
    BY <2>5
<1>6. CASE CountSeparator(p)
  <2>1. UNCHANGED <<text, nread, failed, buf, bsz, sp, pc, out>> /\ Separator(p) /\ buf[p] \in Seps
    BY <1>6 DEF CountSeparator, Separator, Advance, input
  <2>2. Cardinality(Subjects') = Cardinality(Subjects)
    BY <2>1 DEF Subjects
  <2>3. /\ semis' = Cardinality(SepsTo({";"}, base + tp' - 1))
        /\ stops' = Cardinality(SepsTo({";", ","}, base + tp' - 1))
    BY <1>4, <2>1
  <2>4. stops' = stops + 1
    <3>1. buf[p] \in {";", ","}
      BY <2>1, StopsAssumption
    <3> HIDE DEF base
    <3> QED
      BY <1>1, <1>3, <1>s, <1>w, <2>1, <2>3, <3>1, SeparatorPasses
  <2>5. IF buf[p] = ";" THEN semis' = semis + 1 ELSE semis' = semis
    <3>1. buf[p] \in {";"} <=> buf[p] = ";"
      OBVIOUS
    <3> HIDE DEF base
    <3> QED
      BY <1>1, <1>3, <1>s, <1>w, <2>1, <2>3, <3>1, SeparatorPasses
  <2>6. IF buf[p] = ";" THEN nsub' = nsub + 0 /\ npre' = npre + 1 /\ nobj' = nobj + 1
                        ELSE nsub' = nsub + 0 /\ npre' = npre + 0 /\ nobj' = nobj + 1
    BY <1>6, <1>n DEF CountSeparator, Count
  <2>7. CASE buf[p] = ";"
    <3>1. Counted1(0, 1, 1)
      <4>1. nsub' = nsub + 0 /\ npre' = npre + 1 /\ nobj' = nobj + 1
            /\ semis' = semis + 1
        BY <2>5, <2>6, <2>7, Zenon
      <4> QED
        BY <1>n, <1>2, <2>2, <2>4, <4>1 DEF Counted1
    <3> QED
      BY <3>1
  <2>8. CASE buf[p] # ";"
    <3>1. Counted1(0, 0, 1)
      <4>1. nsub' = nsub + 0 /\ npre' = npre + 0 /\ nobj' = nobj + 1
            /\ semis' = semis
        BY <2>5, <2>6, <2>8, Zenon
      <4> QED
        BY <1>n, <1>2, <2>2, <2>4, <4>1 DEF Counted1
    <3> QED
      BY <3>1
  <2> QED
    BY <2>7, <2>8
<1>7. CASE CountDot(p)
  <2>1. Dot(p) /\ (IF buf[sp] = "@" THEN UNCHANGED counters ELSE Count(1, 1, 1))
    BY <1>7 DEF CountDot
  <2>2. UNCHANGED <<text, nread, buf, pc>> /\ out' = Append(out, SubSeq(buf, sp, p))
    BY <2>1 DEF Dot, input
  <2>3. semis' = semis /\ stops' = stops
    <3>1. SepsTo({";"}, base + tp' - 1) = SepsTo({";"}, base + tp - 1)
          /\ SepsTo({";", ","}, base + tp' - 1) = SepsTo({";", ","}, base + tp - 1)
      BY <1>1, <2>1, <1>w, DotPasses
    <3> QED
      BY <1>3, <1>4, <2>2, <3>1
  <2>4. SubSeq(buf, sp, p) \in Seq(STRING) /\ SubSeq(buf, sp, p)[1] = buf[sp]
    <3>1. sp \in 1..Len(buf)+1 /\ p \in sp-1..Len(buf) /\ 1 \in 1..p-sp+1 /\ sp + 1 - 1 = sp
          /\ sp \in Int /\ p \in Int
      BY <1>v
    <3>2. \A i \in sp..p : buf[i] \in STRING
      <4>1. \A i \in sp..p : i \in 1..Len(buf)
        BY <1>v
      <4> QED
        BY <1>s, <4>1, ElementOfSeq
    <3>3. SubSeq(buf, sp, p)[1] = buf[sp + 1 - 1]
      BY <3>1, <3>2, SubSeqProperties
    <3> QED
      BY <1>s, <3>1, <3>3, PartOf
  <2>5. Cardinality(Subjects')
          = IF buf[sp] = "@" THEN Cardinality(Subjects) ELSE Cardinality(Subjects) + 1
    BY <2>2, <2>4, SubjectsNext
  <2>6. CASE buf[sp] = "@"
    <3>1. UNCHANGED <<nsub, npre, nobj>>
      BY <2>1, <2>6 DEF counters
    <3>2. Counted1(0, 0, 0)
      BY <1>n, <1>2, <2>3, <2>5, <2>6, <3>1 DEF Counted1
    <3> QED
      BY <3>2
  <2>7. CASE buf[sp] # "@"
    <3>1. nsub' = nsub + 1 /\ npre' = npre + 1 /\ nobj' = nobj + 1
      BY <2>1, <2>7 DEF Count
    <3>2. Counted1(1, 0, 0)
      BY <1>n, <1>2, <2>3, <2>5, <2>7, <3>1 DEF Counted1
    <3> QED
      BY <3>2
  <2> QED
    BY <2>6, <2>7
<1> QED
  BY <1>1, <1>5, <1>6, <1>7

\* proc() starts over at the front of the buffer: what it has passed is what
\* was passed when the buffer was moved there.
LEMMA EnterCounts ==
  ASSUME StreamInv, ReaderInv', pc = "read", text' = text, base' = base, Len(buf') \in Nat,
         Enter(buf'), Scanning', out' = out
  PROVE  /\ semis' = Cardinality(SepsTo({";"}, base))
         /\ stops' = Cardinality(SepsTo({";", ","}, base))
         /\ semis' <= semis /\ stops' <= stops
         /\ Cardinality(Subjects') = Cardinality(Subjects)
<1>w. ReaderInv /\ text \in Seq(STRING) /\ base \in Nat /\ nread \in Int /\ base <= nread
  BY Window DEF StreamInv
<1>1. PICK j \in 1..Len(buf')+1 : Overread(buf', 1, j) /\ tp' = j
  BY DEF Enter
<1>2. \A p \in 1..Len(buf') : base + p \in 1..Len(text) /\ buf'[p] = text[base + p]
  <2>1. Contents'
    BY NextBufferIsText
  <2> QED
    BY <2>1 DEF Contents
<1>3. \A k \in base+1..base+j-1 : text[k] \in White
  <2>1. SUFFICES ASSUME NEW k \in base+1..base+j-1 PROVE text[k] \in White
    OBVIOUS
  <2>2. k - base \in 1..j-1 /\ k - base \in 1..Len(buf') /\ base + (k - base) = k
    BY <1>w, <1>1, <2>1
  <2>3. buf'[k - base] \in White
    BY <1>1, <2>2 DEF Overread
  <2> QED
    BY <1>2, <2>2, <2>3
<1>4. base + j - 1 \in Int /\ base <= base + j - 1
  BY <1>w, <1>1
<1>5. ASSUME NEW C, C \subseteq Seps PROVE SepsTo(C, base + j - 1) = SepsTo(C, base)
  <2>1. SepFree(C, base + 1, base + j - 1)
    <3>1. SUFFICES ASSUME NEW e \in SepsOf(C), base + 1 <= e, e <= base + j - 1 PROVE FALSE
      BY DEF SepFree
    <3>2. e \in 1..Len(text) /\ e \in Nat
      BY <1>w, SepsAre
    <3>3. text[e] \in C
      BY <1>w, <3>2, SepsAre
    <3>4. text[e] \in White
      BY <1>3, <1>4, <1>w, <3>1, <3>2
    <3> QED
      BY <1>5, <3>3, <3>4, StopsAssumption DEF White
  <2> HIDE DEF base
  <2> QED
    BY <1>w, <1>4, <2>1, SepsToSame
<1>6. scanned' = base + j - 1
  BY <1>1 DEF scanned
<1>7. {";"} \subseteq Seps /\ {";", ","} \subseteq Seps
  BY StopsAssumption
<1>8. /\ semis' = Cardinality(SepsTo({";"}, base))
      /\ stops' = Cardinality(SepsTo({";", ","}, base))
  <2> HIDE DEF base
  <2>1. /\ semis' = Cardinality(SepsTo({";"}, base + j - 1))
        /\ stops' = Cardinality(SepsTo({";", ","}, base + j - 1))
    BY <1>6, NextPassed
  <2> QED
    BY <1>5, <1>7, <2>1
<1>9. semis = Cardinality(SepsTo({";"}, nread)) /\ stops = Cardinality(SepsTo({";", ","}, nread))
  BY DEF semis, stops, scanned, Scanning
<1>10. semis' <= semis /\ stops' <= stops
  <2> HIDE DEF base
  <2>1. /\ Cardinality(SepsTo({";"}, base)) <= Cardinality(SepsTo({";"}, nread))
        /\ Cardinality(SepsTo({";", ","}, base)) <= Cardinality(SepsTo({";", ","}, nread))
    <3>1. text \in Seq(STRING) /\ base \in Int /\ nread \in Int /\ base <= nread
      BY <1>w
    <3>2. ASSUME NEW C PROVE Cardinality(SepsTo(C, base)) <= Cardinality(SepsTo(C, nread))
      BY <3>1, SepsToMore
    <3> QED
      BY <3>2
  <2> QED
    BY <1>8, <1>9, <2>1, Zenon
<1>11. Cardinality(Subjects') = Cardinality(Subjects)
  BY DEF Subjects
<1> QED
  BY <1>8, <1>10, <1>11

\* proc() returns: it has passed all of the separators read.
LEMMA LeaveCounts ==
  ASSUME StreamInv, Scanning, Returns, ~Scanning', UNCHANGED <<text, nread, out>>
  PROVE  semis' = semis /\ stops' = stops /\ Cardinality(Subjects') = Cardinality(Subjects)
<1>1. ReaderInv /\ Tracks /\ text \in Texts
  BY DEF StreamInv, Tracking
<1>2. scanned' = nread /\ scanned = base + tp - 1
  BY DEF scanned
<1>3. {";"} \subseteq Seps /\ {";", ","} \subseteq Seps
  BY StopsAssumption
<1>4. semis' = semis /\ stops' = stops
  <2>1. /\ SepsTo({";"}, nread) = SepsTo({";"}, base + tp - 1)
        /\ SepsTo({";", ","}, nread) = SepsTo({";", ","}, base + tp - 1)
    BY <1>1, <1>3, ReturnPasses
  <2>2. /\ semis' = Cardinality(SepsTo({";"}, nread))
        /\ stops' = Cardinality(SepsTo({";", ","}, nread))
    BY <1>2, NextPassed
  <2> HIDE DEF base
  <2> QED
    BY <1>2, <2>1, <2>2 DEF semis, stops
<1>5. Cardinality(Subjects') = Cardinality(Subjects)
  BY DEF Subjects
<1> QED
  BY <1>4, <1>5

\* A file of whole statements is used up when it has been read.
LEMMA WholeUsedUp ==
  ASSUME StreamInv, Scanning, Returns, nread = Len(text), Whole(text)
  PROVE  sp = Len(buf) + 1
<1>w. /\ ReaderInv /\ text \in Seq(STRING) /\ base \in Nat /\ sp \in Nat /\ Len(buf) \in Nat
      /\ sp >= 1 /\ sp <= Len(buf) + 1 /\ nread = base + Len(buf) /\ passed = base + sp - 1
      /\ Len(text) \in Nat
  BY Window DEF StreamInv, passed
<1>1. CASE text = <<>>
  <2>1. Len(text) = 0
    BY <1>1, EmptySeq
  <2>2. Len(buf) = 0 /\ Len(buf) + 1 = 1
    <3>1. base + Len(buf) = 0 /\ base \in Nat /\ Len(buf) \in Nat
      BY <1>w, <2>1
    <3> HIDE DEF base
    <3> QED
      BY <3>1
  <2>3. sp >= 1 /\ sp <= Len(buf) + 1 /\ sp \in Nat
    BY <1>w
  <2> QED
    BY <2>2, <2>3
<1>2. CASE text # <<>>
  <2>1. SUFFICES ASSUME sp <= Len(buf) PROVE FALSE
    BY <1>w
  <2>2. PICK e \in E : \A i \in e+1..Len(text) : text[i] \in White
    BY <1>2 DEF Whole, E
  <2>3. e \in Nat /\ e <= Len(text)
    BY <1>w, EndIs
  <2>4. EndFree(passed + 1, nread)
    BY NothingLeft
  <2>5. ~(passed + 1 <= e /\ e <= nread)
    BY <2>4 DEF EndFree
  <2>6. base + sp \in e+1..Len(text)
    BY <1>w, <2>1, <2>3, <2>5
  <2>7. text[base + sp] \in White
    BY <2>2, <2>6
  <2>8. sp \in 1..Len(buf) /\ buf[sp] \notin White
    BY <1>w, <2>1 DEF StreamInv, Starts, Running, Scanning
  <2>9. buf[sp] = text[base + sp]
    BY <1>w, <2>8, Seen
  <2> QED
    BY <2>7, <2>8, <2>9
<1> QED
  BY <1>1, <1>2

---------------------------------------------------------------------------
(* The true counts, and what is true when a file has been counted.         *)

\* The subjects of the text.
TextSubjects ==
  {k \in DOMAIN Stream!Statements(text) : Stream!Statements(text)[k][1] # "@"}

LEMMA TrueCountsAre ==
  ASSUME text \in Seq(STRING)
  PROVE  /\ TrueCounts(text).nsub = Cardinality(TextSubjects)
         /\ TrueCounts(text).npre = Cardinality(TextSubjects) + Cardinality(SepsOf({";"}))
         /\ TrueCounts(text).nobj = Cardinality(TextSubjects) + Cardinality(SepsOf({";", ","}))
         /\ TrueCounts(text) = [nsub |-> TrueCounts(text).nsub, npre |-> TrueCounts(text).npre,
                                nobj |-> TrueCounts(text).nobj]
<1> DEFINE s == Cardinality(TextSubjects)
           p == s + Stream!Outsiders(text, {";"})
           o == s + Stream!Outsiders(text, {";", ","})
<1>1. TrueCounts(text) = [nsub |-> s, npre |-> p, nobj |-> o]
  BY DEF TrueCounts, TextSubjects
<1>2. p = s + Cardinality(SepsOf({";"})) /\ o = s + Cardinality(SepsOf({";", ","}))
  BY SepsAre
<1> HIDE DEF s, p, o
<1>3. TrueCounts(text).nsub = s /\ TrueCounts(text).npre = p /\ TrueCounts(text).nobj = o
  BY <1>1
<1> QED
  BY <1>1, <1>2, <1>3 DEF s

\* At the end of a file all of its statements have been counted, and all of its
\* separators passed.
LEMMA CountedAll ==
  ASSUME WcInv, main = "count", pc = "done"
  PROVE  /\ Subjects = TextSubjects
         /\ semis = Cardinality(SepsOf({";"})) /\ stops = Cardinality(SepsOf({";", ","}))
<1>1. HandedInv /\ ~failed /\ nread = Len(text)
  BY DEF WcInv, FilesInv, Emptied
<1>2. text \in Seq(STRING) /\ Len(text) \in Nat /\ text \in Texts
  BY <1>1, Window DEF HandedInv, StreamInv
<1> DEFINE S == Stream!Statements(text)
<1>3. DOMAIN S = 1..Len(S)
  <2>1. Cardinality(E) \in Nat /\ Len(S) = Cardinality(E)
    BY <1>2, NthStatement
  <2>2. DOMAIN S = 1..Cardinality(E)
    BY Zenon DEF Stream!Statements, E, Stream!Cardinality, Cardinality
  <2> QED
    BY <2>1, <2>2
<1> HIDE DEF S
<1>4. Len(out) = Len(S) /\ \A k \in 1..Len(out) : out[k] = S[k]
  BY <1>1 DEF HandedInv, Handed, S
<1>5. Subjects = TextSubjects
  <2>1. \A k : k \in TextSubjects <=> k \in 1..Len(out) /\ S[k][1] # "@"
    BY <1>3, <1>4 DEF TextSubjects, S
  <2>2. \A k : k \in Subjects <=> k \in 1..Len(out) /\ out[k][1] # "@"
    BY DEF Subjects
  <2> QED
    BY <1>4, <2>1, <2>2
<1>6. ASSUME NEW C PROVE SepsTo(C, nread) = SepsOf(C)
  <2>1. \A i \in SepsOf(C) : i <= nread
    BY <1>1, <1>2, SepsAre
  <2>2. \A i : i \in SepsTo(C, nread) <=> i \in SepsOf(C)
    BY <1>1, <1>2, <2>1, SepsToIs
  <2> QED
    BY <2>2
<1>7. scanned = nread
  BY DEF scanned, Scanning
<1> QED
  BY <1>5, <1>6, <1>7 DEF semis, stops

---------------------------------------------------------------------------
(* The invariant holds.                                                    *)

LEMMA AtStart ==
  ASSUME Init
  PROVE  /\ semis = 0 /\ stops = 0 /\ Cardinality(Subjects) = 0
         /\ nread = 0 /\ Len(buf) = 0 /\ pc = "read" /\ ~failed
         /\ HandedInv
<1>1. HandedInv
  BY HandedInit
<1>2. /\ nread = 0 /\ Len(buf) = 0 /\ pc = "read" /\ ~failed /\ Len(out) = 0
  BY EmptySeq DEF Init
<1>3. scanned = 0 /\ text \in Seq(STRING)
  BY <1>1, <1>2, Window DEF scanned, Scanning, HandedInv, StreamInv
<1>4. ASSUME NEW C PROVE SepsTo(C, 0) = {}
  <2>1. \A i : i \notin SepsTo(C, 0)
    <3>1. SUFFICES ASSUME NEW i, i \in SepsTo(C, 0) PROVE FALSE
      OBVIOUS
    <3>2. i \in SepsOf(C) /\ i <= 0
      BY <3>1, <1>3, SepsToIs
    <3>3. i \in 1..Len(text)
      BY <3>2, <1>3, SepsAre
    <3> QED
      BY <3>2, <3>3
  <2> QED
    BY <2>1
<1>5. semis = 0 /\ stops = 0
  BY <1>3, <1>4, FS_EmptySet DEF semis, stops
<1>6. Subjects = {}
  BY <1>2 DEF Subjects
<1> QED
  BY <1>1, <1>2, <1>5, <1>6, FS_EmptySet

LEMMA AtStartNext ==
  Init' => /\ semis' = 0 /\ stops' = 0 /\ Cardinality(Subjects') = 0
           /\ nread' = 0 /\ Len(buf') = 0 /\ pc' = "read" /\ ~failed'
           /\ HandedInv'
<1> DEFINE Started == /\ semis = 0 /\ stops = 0 /\ Cardinality(Subjects) = 0
                      /\ nread = 0 /\ Len(buf) = 0 /\ pc = "read" /\ ~failed
                      /\ HandedInv
<1>1. Init => Started
  BY AtStart
<1>2. Init' => Started'
  BY <1>1, PTL
<1> QED
  BY <1>2

\* The parts that speak of the file that is being counted.
FileInv == HandedInv /\ ~failed /\ Counting /\ Emptied

LEMMA CountScanKeeps ==
  ASSUME WcInv, CountScan
  PROVE  FileInv'
<1>1. /\ HandedInv /\ WcTypes /\ StreamInv /\ ReaderInv /\ main = "count" /\ main' = "count"
      /\ reads' = reads
  BY DEF WcInv, FilesInv, HandedInv, StreamInv, CountScan
<1>2. Scan
  BY DEF CountScan, Scan, CountDot, CountSeparator
<1>3. HandedInv'
  BY <1>1, <1>2, HandedStep DEF Next
<1>4. UNCHANGED <<text, nread, failed, buf, pc>>
  <2>1. PICK p \in tp..Len(buf) : Found(p) /\ (Dot(p) \/ Separator(p) \/ Token(p))
    BY <1>2 DEF Scan
  <2> QED
    BY <2>1 DEF Dot, Separator, Token, OpenAngle, CloseAngle, Hash, Newline, EscapedQuote, OpenQuote,
                EmptyQuote, OpenLong, CloseQuote, CloseLong, Advance, input
<1>5. PICK s \in {0, 1}, a \in {0, 1}, b \in {0, 1} : Counted1(s, a, b)
  BY <1>1, ScanCounts
<1>6. /\ nsub \in Nat /\ npre \in Nat /\ nobj \in Nat /\ semis \in Nat /\ stops \in Nat
      /\ Cardinality(Subjects) \in Nat
  BY <1>1, PassedAre, SubjectsAre DEF WcTypes
<1>7. /\ AtLeast => AtLeast'
      /\ Exact => Exact'
      /\ nsub = Cardinality(Subjects) => nsub' = Cardinality(Subjects')
  <2>1. /\ nsub' = nsub + s /\ npre' = npre + s + a /\ nobj' = nobj + s + b
        /\ semis' = semis + a /\ stops' = stops + b
        /\ Cardinality(Subjects') = Cardinality(Subjects) + s
    BY <1>5 DEF Counted1
  <2>2. s \in Nat /\ a \in Nat /\ b \in Nat
    OBVIOUS
  <2> QED
    BY <1>6, <2>1, <2>2 DEF AtLeast, Exact
<1>8. Counting'
  BY <1>1, <1>4, <1>7 DEF WcInv, FilesInv, Counting, Whole
<1>9. Emptied'
  BY <1>4 DEF WcInv, FilesInv, Emptied, Whole
<1> QED
  BY <1>3, <1>4, <1>8, <1>9 DEF WcInv, FilesInv, FileInv

LEMMA Smaller ==
  ASSUME NEW a \in Nat, NEW b \in Nat, NEW c \in Nat, NEW d \in Nat, a >= b + c, d <= c
  PROVE  a >= b + d
  OBVIOUS

LEMMA PassedNext == ReaderInv' => semis' \in Nat /\ stops' \in Nat
<1> DEFINE Passed == semis \in Nat /\ stops \in Nat
<1>1. ReaderInv => Passed
  BY PassedAre
<1>2. ReaderInv' => Passed'
  BY <1>1, PTL
<1> QED
  BY <1>2

LEMMA CountReadKeeps ==
  ASSUME WcInv, CountRead
  PROVE  FileInv'
<1>1. /\ HandedInv /\ WcTypes /\ StreamInv /\ ReaderInv /\ main = "count" /\ main' = "count"
      /\ reads' = reads + 1 /\ UNCHANGED <<nsub, npre, nobj>>
  BY DEF WcInv, FilesInv, HandedInv, StreamInv, CountRead, counters
<1>2. PICK n \in 1..Room : Read(n)
  BY DEF CountRead, ReadInput
<1>3. HandedInv'
  BY <1>1, HandedStep DEF Next, CountRead
<1>4. /\ pc = "read" /\ pc' = "scan" /\ Enter(buf') /\ UNCHANGED <<text, failed, out>>
      /\ nread' = nread + n
  BY <1>2 DEF Read
<1>5. ReaderInv' /\ StreamInv'
  BY <1>3 DEF HandedInv, StreamInv
<1>6. base' = base /\ Len(buf') \in Nat /\ base \in Nat /\ nread \in Nat /\ base <= nread
  <2>1. /\ text \in Seq(STRING) /\ Len(text) \in Nat /\ nread \in Nat /\ buf \in Seq(STRING)
        /\ Len(buf) \in Nat /\ bsz \in Nat /\ base \in Nat /\ base <= nread
    BY <1>1, Window DEF ReaderInv, TypeOK
  <2>2. n \in Nat /\ nread + n <= Len(text)
    BY <1>2, <2>1 DEF Read, Room
  <2>3. /\ SubSeq(text, nread + 1, nread + n) \in Seq(STRING)
        /\ Len(SubSeq(text, nread + 1, nread + n)) = n
    BY <2>1, <2>2, PartOf
  <2>4. buf' = buf \o SubSeq(text, nread + 1, nread + n)
    BY <1>2 DEF Read
  <2>5. Len(buf') = Len(buf) + n
    BY <2>1, <2>3, <2>4, ConcatProperties
  <2> QED
    BY <1>4, <2>1, <2>2, <2>5 DEF base
<1>7. /\ semis' = Cardinality(SepsTo({";"}, base))
      /\ stops' = Cardinality(SepsTo({";", ","}, base))
      /\ semis' <= semis /\ stops' <= stops
      /\ Cardinality(Subjects') = Cardinality(Subjects)
  <2>1. Scanning'
    BY <1>4 DEF Scanning
  <2> QED
    BY <1>1, <1>4, <1>5, <1>6, <2>1, EnterCounts
<1>8. /\ nsub \in Nat /\ npre \in Nat /\ nobj \in Nat /\ semis \in Nat /\ stops \in Nat
      /\ reads \in Nat
  BY <1>1, PassedAre DEF WcTypes
<1>9. semis' \in Nat /\ stops' \in Nat
  <2>1. text \in Seq(STRING) /\ base \in Int
    BY <1>1, <1>6, Window
  <2> HIDE DEF base
  <2> QED
    BY <1>7, <2>1, SepsToIs
<1>10. nsub = Cardinality(Subjects) /\ AtLeast /\ (reads = 0 => nread = 0 /\ Exact)
  BY <1>1, <1>4, <1>8 DEF WcInv, FilesInv, Counting
<1>11. AtLeast'
  <2>1. /\ nsub' = nsub /\ npre' = npre /\ nobj' = nobj
        /\ semis' <= semis /\ stops' <= stops
    BY <1>1, <1>7, Zenon
  <2>2. npre >= nsub + semis /\ nobj >= nsub + stops
    BY <1>10 DEF AtLeast
  <2> QED
    BY <1>8, <1>9, <2>1, <2>2, Smaller DEF AtLeast
<1>12. reads' <= 1 => Exact'
  <2>1. SUFFICES ASSUME reads = 0 PROVE Exact'
    BY <1>1, <1>8
  <2>2. base = nread
    BY <1>6, <1>10, <2>1
  <2>3. semis' = semis /\ stops' = stops
    BY <1>7, <1>4, <2>2 DEF semis, stops, scanned, Scanning
  <2> QED
    BY <1>1, <1>10, <2>1, <2>3 DEF Exact
<1>13. Counting'
  <2>1. reads' # 0
    BY <1>1, <1>8
  <2>2. nsub' = Cardinality(Subjects')
    BY <1>1, <1>7, <1>10, Zenon
  <2> QED
    BY <1>11, <1>12, <2>1, <2>2 DEF Counting
<1>14. Emptied'
  BY <1>4 DEF Emptied
<1> QED
  BY <1>3, <1>4, <1>13, <1>14 DEF WcInv, FilesInv, FileInv

LEMMA CountRestKeeps ==
  ASSUME WcInv, CountRest, Faults = {}
  PROVE  FileInv'
<1>1. /\ HandedInv /\ WcTypes /\ StreamInv /\ ReaderInv /\ main = "count" /\ main' = "count"
      /\ reads' = reads /\ nsub' = nsub /\ npre' = npre /\ nobj' = nobj /\ ~failed
  BY DEF WcInv, FilesInv, HandedInv, StreamInv, CountRest, counters
<1>2. HandedInv' /\ StreamInv' /\ ReaderInv'
  <2>1. HandedInv'
    BY <1>1, HandedStep DEF Next, CountRest
  <2> QED
    BY <2>1 DEF HandedInv, StreamInv
<1>3. /\ nsub \in Nat /\ npre \in Nat /\ nobj \in Nat /\ semis \in Nat /\ stops \in Nat
      /\ reads \in Nat
  BY <1>1, PassedAre DEF WcTypes
<1>4. semis' \in Nat /\ stops' \in Nat
  BY <1>2, PassedNext
<1>5. /\ nsub = Cardinality(Subjects) /\ AtLeast
      /\ reads = 0 => nread = 0
      /\ reads <= 1 /\ (pc \in {"read", "scan"} \/ Whole(text)) => Exact
      /\ pc \in {"last", "fini", "done"} => nread = Len(text)
      /\ pc \in {"read", "last"} /\ nread = Len(text) /\ Whole(text) => Len(buf) = 0
  BY <1>1 DEF WcInv, FilesInv, Counting, Emptied
\* What is passed stays the same.
<1>6. ASSUME semis' = semis, stops' = stops, Cardinality(Subjects') = Cardinality(Subjects),
             UNCHANGED <<text, nread>>,
             pc' \in {"read", "scan"} \/ Whole(text) => pc \in {"read", "scan"} \/ Whole(text)
      PROVE  Counting'
  <2>1. AtLeast' /\ (Exact => Exact')
    BY <1>1, <1>5, <1>6 DEF AtLeast, Exact
  <2>2. Whole(text)' = Whole(text)
    BY <1>6 DEF Whole
  <2> QED
    BY <1>1, <1>5, <1>6, <2>1, <2>2 DEF Counting
<1>7. CASE Eof
  <2>1. /\ pc = "read" /\ pc' = "last" /\ Enter(buf) /\ UNCHANGED <<text, nread, buf, out>>
        /\ base' = base /\ Scanning'
    BY <1>7 DEF Eof, base, Scanning
  <2>2. /\ base \in Nat /\ nread \in Nat /\ Len(buf) \in Nat /\ nread = base + Len(buf)
        /\ bsz \in Nat /\ nread <= Len(text) /\ Len(text) \in Nat
    BY <1>1, Window DEF ReaderInv, TypeOK
  <2>3. nread = Len(text) /\ ~failed'
    <3>1. Room > 0
      BY <1>1, <2>1, <2>2 DEF ReaderInv, RoomToRead, Room
    <3>2. nread = Len(text) \/ Room <= 0
      BY <1>7 DEF Eof
    <3>3. Room \in Int
      BY <2>2 DEF Room
    <3>4. nread = Len(text)
      BY <3>1, <3>2, <3>3
    <3>5. failed' = (nread < Len(text) /\ Room > 0)
      BY <1>7 DEF Eof
    <3>6. ~(nread < Len(text))
      BY <2>2, <3>4
    <3> QED
      BY <3>4, <3>5, <3>6
  <2>4. /\ semis' = Cardinality(SepsTo({";"}, base))
        /\ stops' = Cardinality(SepsTo({";", ","}, base))
        /\ semis' <= semis /\ stops' <= stops
        /\ Cardinality(Subjects') = Cardinality(Subjects)
    <3>1. Len(buf') \in Nat /\ Enter(buf') /\ text' = text /\ out' = out
      BY <2>1, <2>2
    <3> QED
      BY <1>1, <1>2, <2>1, <3>1, EnterCounts
  <2>5. AtLeast'
    <3>1. npre >= nsub + semis /\ nobj >= nsub + stops
      BY <1>5 DEF AtLeast
    <3>2. semis' <= semis /\ stops' <= stops
      BY <2>4
    <3> QED
      BY <1>1, <1>3, <1>4, <3>1, <3>2, Smaller DEF AtLeast
  <2>6. ASSUME reads <= 1, Whole(text) PROVE Exact'
    <3>1. Exact /\ Len(buf) = 0
      BY <1>5, <2>1, <2>3, <2>6
    <3>2. base = nread
      BY <2>2, <3>1
    <3>3. semis' = semis /\ stops' = stops
      BY <2>1, <2>4, <3>2 DEF semis, stops, scanned, Scanning
    <3> QED
      BY <1>1, <3>1, <3>3 DEF Exact
  <2>7. Whole(text)' = Whole(text)
    BY <2>1 DEF Whole
  <2>8. Counting'
    <3>1. nsub' = Cardinality(Subjects')
      BY <1>1, <1>5, <2>4, Zenon
    <3> QED
      BY <1>1, <1>5, <2>1, <2>5, <2>6, <2>7, <3>1 DEF Counting
  <2>9. Emptied'
    BY <1>5, <2>1, <2>3, <2>7 DEF Emptied
  <2> QED
    BY <1>2, <2>3, <2>8, <2>9 DEF FileInv
<1>8. CASE Grow \/ ReadMore \/ Compact \/ LastReturn
  <2>1. /\ Scanning /\ Returns /\ ~Scanning' /\ UNCHANGED <<text, nread, failed, out>>
        /\ pc = "scan" => pc' = "read"
        /\ pc = "last" => pc' = "fini"
    BY <1>8 DEF Grow, ReadMore, Compact, LastReturn, Scanning, input
  <2>2. semis' = semis /\ stops' = stops /\ Cardinality(Subjects') = Cardinality(Subjects)
    BY <1>1, <2>1, LeaveCounts
  <2>3. pc \in {"scan", "last"}
    BY <2>1 DEF Scanning
  <2>4. Counting'
    BY <1>6, <2>1, <2>2, <2>3
  <2>5. Whole(text)' = Whole(text)
    BY <2>1 DEF Whole
  <2>6. ASSUME pc = "scan", nread = Len(text), Whole(text) PROVE Len(buf') = 0
    <3>1. sp = Len(buf) + 1 /\ Len(buf) \in Nat
      BY <1>1, <2>1, <2>6, WholeUsedUp, Window
    <3>2. CASE Compact
      <4>1. buf' = SubSeq(buf, Len(buf) + 1, Len(buf)) /\ buf \in Seq(STRING)
        BY <1>1, <3>1, <3>2, Window DEF Compact
      <4>2. Len(buf) + 1 \in 1..Len(buf)+1 /\ Len(buf) \in (Len(buf)+1)-1..Len(buf)
            /\ Len(buf) - (Len(buf) + 1) + 1 = 0
        BY <3>1
      <4> QED
        BY <4>1, <4>2, PartOf
    <3>3. CASE Grow \/ ReadMore
      <4>1. sp = 1 /\ buf' = buf
        BY <3>3 DEF Grow, ReadMore, Full
      <4> QED
        BY <3>1, <4>1
    <3>4. CASE LastReturn
      BY <2>6, <3>4 DEF LastReturn
    <3> QED
      BY <1>8, <3>2, <3>3, <3>4
  <2>7. Emptied'
    BY <1>5, <2>1, <2>3, <2>5, <2>6 DEF Emptied
  <2> QED
    BY <1>1, <1>2, <2>1, <2>4, <2>7 DEF FileInv
<1>9. CASE Fini
  <2>1. /\ UNCHANGED <<text, nread, failed, buf, out>> /\ pc = "fini" /\ pc' = "done"
    BY <1>9 DEF Fini, input
  <2>2. scanned' = nread /\ scanned = nread
    BY <2>1 DEF scanned, Scanning
  <2>3. semis' = semis /\ stops' = stops
    BY <2>1, <2>2, NextPassed DEF semis, stops
  <2>4. Cardinality(Subjects') = Cardinality(Subjects)
    BY <2>1 DEF Subjects
  <2>5. Counting'
    BY <1>6, <2>1, <2>3, <2>4
  <2>6. Emptied'
    BY <1>5, <2>1 DEF Emptied
  <2> QED
    BY <1>1, <1>2, <2>1, <2>5, <2>6 DEF FileInv
<1>10. ~GrowFail
  BY DEF GrowFail
<1> QED
  BY <1>7, <1>8, <1>9, <1>10 DEF CountRest

LEMMA WcStarts == WcInit => WcInv
<1> SUFFICES ASSUME WcInit PROVE WcInv
  OBVIOUS
<1>1. Init /\ reads = 0 /\ main = "open" /\ rows = <<>> /\ rc = 0 /\ total = Zero
      /\ nsub = 0 /\ npre = 0 /\ nobj = 0
  BY DEF WcInit
<1>2. HandedInv /\ ~failed /\ pc = "read" /\ Len(buf) = 0
  BY <1>1, AtStart
<1>3. total \in CountSet
  BY <1>1 DEF Zero, CountSet
<1>4. rows \in Seq(RowSet) /\ Len(rows) = 0
  BY <1>1, EmptySeq
<1>5. WcTypes /\ OneRowEach
  BY <1>1, <1>3, <1>4, FilesAssumption DEF WcTypes, OneRowEach
<1>6. Counting /\ Emptied
  BY <1>1, <1>2 DEF Counting, Emptied
<1>7. RowsRight
  BY <1>1 DEF RowsRight
<1> QED
  BY <1>1, <1>2, <1>5, <1>6, <1>7 DEF WcInv, FilesInv

LEMMA RowIs ==
  ASSUME FilesInv, NEW r, r = [opened |-> main = "count", text |-> text, counts |-> Counts]
  PROVE  r \in RowSet
<1>1. nsub \in Nat /\ npre \in Nat /\ nobj \in Nat /\ text \in Seq(STRING)
  BY Window DEF FilesInv, WcTypes, HandedInv, StreamInv
<1> QED
  BY <1>1 DEF RowSet, CountSet, Counts

LEMMA RowIsRight ==
  ASSUME WcInv, main = "count", pc = "done",
         NEW r, r = [opened |-> main = "count", text |-> text, counts |-> Counts]
  PROVE  RowRight(r)
<1>1. nsub \in Nat /\ npre \in Nat /\ nobj \in Nat /\ text \in Seq(STRING)
  BY Window DEF WcInv, FilesInv, WcTypes, HandedInv, StreamInv
<1>2. nsub = Cardinality(Subjects) /\ AtLeast
  BY DEF WcInv, Counting
<1>3. /\ Subjects = TextSubjects
      /\ semis = Cardinality(SepsOf({";"})) /\ stops = Cardinality(SepsOf({";", ","}))
  BY CountedAll
<1>4. /\ TrueCounts(text).nsub = nsub
      /\ TrueCounts(text).npre = nsub + semis /\ TrueCounts(text).nobj = nsub + stops
  BY <1>1, <1>2, <1>3, TrueCountsAre
<1>5. r.text = text /\ r.counts.nsub = nsub /\ r.counts.npre = npre /\ r.counts.nobj = nobj
  BY DEF Counts
<1> QED
  BY <1>2, <1>4, <1>5 DEF RowRight, AtLeast

\* Adding counts.
LEMMA PlusIs ==
  ASSUME NEW a \in CountSet, NEW b \in CountSet
  PROVE  Plus(a, b) \in CountSet
<1>1. DOMAIN a = {"nsub", "npre", "nobj"} /\ \A k \in {"nsub", "npre", "nobj"} : a[k] + b[k] \in Nat
  BY DEF CountSet
<1>2. Plus(a, b) = [nsub |-> a["nsub"] + b["nsub"], npre |-> a["npre"] + b["npre"],
                    nobj |-> a["nobj"] + b["nobj"]]
  BY <1>1 DEF Plus
<1> QED
  BY <1>1, <1>2 DEF CountSet

LEMMA PrintKeeps ==
  ASSUME FilesInv, PrintCounts
  PROVE  FilesInv'
<1> DEFINE r == [opened |-> main = "count", text |-> text, counts |-> Counts]
<1>1. /\ main = "print" \/ (main = "count" /\ pc = "done")
      /\ rows' = Append(rows, r) /\ total' = Plus(total, Counts) /\ reads' = 0
      /\ nsub' = nsub /\ npre' = npre /\ nobj' = nobj /\ rc' = rc
  BY DEF PrintCounts, counters
<1>2. r \in RowSet
  BY <1>1, RowIs
<1>3. /\ WcTypes /\ OneRowEach /\ rows \in Seq(RowSet) /\ Len(rows) \in Nat
      /\ Len(rows) < MaxFiles /\ MaxFiles \in Nat /\ rc \in Nat
  BY <1>1, LenProperties, FilesAssumption DEF FilesInv, WcTypes, OneRowEach
<1> HIDE DEF r
<1>4. rows' \in Seq(RowSet) /\ Len(rows') = Len(rows) + 1
  BY <1>1, <1>2, <1>3, AppendProperties
<1>5. IF Len(rows') < MaxFiles
      THEN main' = "open" /\ Init'
      ELSE main' = "end" /\ UNCHANGED vars
  BY DEF PrintCounts, Init
<1>6. total' \in CountSet
  <2>1. Counts \in CountSet
    BY <1>3 DEF WcTypes, Counts, CountSet
  <2>2. total \in CountSet
    BY <1>3 DEF WcTypes
  <2> HIDE DEF Counts
  <2> QED
    BY <1>1, <2>1, <2>2, PlusIs
<1>7. WcTypes'
  BY <1>1, <1>3, <1>4, <1>5, <1>6 DEF WcTypes
<1>8. OneRowEach'
  <2>1. rc <= Len(rows) + 1
    BY <1>3 DEF OneRowEach
  <2>2. main' = "open" \/ main' = "end"
    BY <1>5
  <2> QED
    BY <1>1, <1>3, <1>4, <1>5, <2>1, <2>2 DEF OneRowEach
<1>9. HandedInv'
  <2>1. Init' \/ UNCHANGED vars
    BY <1>5
  <2> QED
    BY <2>1, AtStartNext, HandedStep DEF FilesInv
<1> QED
  BY <1>1, <1>5, <1>7, <1>8, <1>9 DEF FilesInv

LEMMA FilesStep ==
  FilesInv /\ [WcNext]_wcVars => FilesInv'
<1> SUFFICES ASSUME FilesInv, [WcNext]_wcVars PROVE FilesInv'
  OBVIOUS
<1>w. /\ HandedInv /\ WcTypes /\ OneRowEach
      /\ main \in {"open", "print"} => Init /\ reads = 0
  BY DEF FilesInv
<1>r. Len(rows) \in Nat /\ MaxFiles \in Nat
  BY <1>w, LenProperties, FilesAssumption DEF WcTypes
\* The reader stands still.
<1>s. ASSUME UNCHANGED vars PROVE HandedInv' /\ (Init => Init')
  BY <1>w, <1>s, HandedStep DEF vars, Init
\* A file is being counted.
<1>f. ASSUME Next, main = "count", main' = "count", UNCHANGED <<total, rc, rows>>,
             nsub' \in Nat, npre' \in Nat, nobj' \in Nat, reads' \in Nat
      PROVE  FilesInv'
  <2>1. WcTypes' /\ OneRowEach'
    BY <1>w, <1>f DEF WcTypes, OneRowEach
  <2> QED
    BY <1>w, <1>f, <2>1, HandedStep DEF FilesInv
<1>1. CASE OpenFile
  <2>1. /\ main = "open" /\ main' = "count" /\ nsub' = 0 /\ npre' = 0 /\ nobj' = 0
        /\ UNCHANGED <<total, rc, rows, reads>> /\ UNCHANGED vars
    BY <1>1 DEF OpenFile
  <2>2. WcTypes' /\ OneRowEach'
    BY <1>w, <2>1 DEF WcTypes, OneRowEach
  <2> QED
    BY <1>s, <2>1, <2>2 DEF FilesInv
<1>2. CASE OpenFails
  <2>1. /\ main = "open" /\ main' = "print" /\ rc' = rc + 1
        /\ UNCHANGED <<nsub, npre, nobj, total, rows, reads>> /\ UNCHANGED vars
    BY <1>2 DEF OpenFails, counters
  <2>2. WcTypes'
    BY <1>w, <2>1 DEF WcTypes
  <2>3. OneRowEach'
    <3>1. rc <= Len(rows) /\ Len(rows) <= MaxFiles /\ Len(rows) < MaxFiles /\ rc \in Nat
      BY <1>w, <1>r, <2>1 DEF OneRowEach, WcTypes
    <3>2. rc' <= Len(rows) + 1
      BY <1>r, <2>1, <3>1
    <3> QED
      BY <2>1, <3>1, <3>2 DEF OneRowEach
  <2> QED
    BY <1>w, <1>s, <2>1, <2>2, <2>3 DEF FilesInv
<1>3. CASE CountScan
  <2>1. main = "count" /\ main' = "count" /\ UNCHANGED <<total, rc, rows, reads>>
    BY <1>3 DEF CountScan
  <2>2. nsub' \in Nat /\ npre' \in Nat /\ nobj' \in Nat
    <3>1. PICK s \in {0, 1}, a \in {0, 1}, b \in {0, 1} : Counted1(s, a, b)
      BY <1>w, <1>3, ScanCounts
    <3>2. nsub' = nsub + s /\ npre' = npre + s + a /\ nobj' = nobj + s + b
      BY <3>1 DEF Counted1
    <3> QED
      BY <1>w, <3>2 DEF WcTypes
  <2>3. Next
    BY <1>3 DEF CountScan, Next, Scan, CountDot, CountSeparator
  <2> QED
    BY <1>w, <1>f, <2>1, <2>2, <2>3 DEF WcTypes
<1>4. CASE CountRead
  <2>1. main = "count" /\ main' = "count" /\ UNCHANGED <<nsub, npre, nobj, total, rc, rows>>
        /\ reads' = reads + 1 /\ Next
    BY <1>4 DEF CountRead, counters, Next
  <2> QED
    BY <1>w, <1>f, <2>1 DEF WcTypes
<1>5. CASE CountRest
  <2>1. main = "count" /\ main' = "count" /\ UNCHANGED <<nsub, npre, nobj, total, rc, rows, reads>>
        /\ Next
    BY <1>5 DEF CountRest, counters, Next
  <2> QED
    BY <1>w, <1>f, <2>1 DEF WcTypes
<1>6. CASE PrintCounts
  BY <1>6, PrintKeeps
<1>7. CASE PrintTotal
  <2>1. /\ main = "end" /\ main' = "exit" /\ UNCHANGED <<rc, rows, reads>> /\ UNCHANGED vars
        /\ nsub' = total.nsub /\ npre' = total.npre /\ nobj' = total.nobj
        /\ total' = Plus(total, total)
    BY <1>7 DEF PrintTotal
  <2>2. total \in CountSet /\ total' \in CountSet
    BY <1>w, <2>1, PlusIs DEF WcTypes
  <2>3. WcTypes' /\ OneRowEach'
    BY <1>w, <2>1, <2>2 DEF WcTypes, OneRowEach, CountSet
  <2> QED
    BY <1>s, <2>1, <2>3 DEF FilesInv
<1>8. CASE UNCHANGED wcVars
  <2>1. UNCHANGED <<nsub, npre, nobj, total, rc, main, rows, reads>> /\ UNCHANGED vars
    BY <1>8 DEF wcVars, counters
  <2>2. WcTypes' /\ OneRowEach'
    BY <1>w, <2>1 DEF WcTypes, OneRowEach
  <2> QED
    BY <1>w, <1>s, <2>1, <2>2 DEF FilesInv
<1>9. CASE Exit
  BY <1>8, <1>9 DEF Exit
<1> QED
  BY <1>1, <1>2, <1>3, <1>4, <1>5, <1>6, <1>7, <1>8, <1>9 DEF WcNext

LEMMA WcStep ==
  ASSUME Faults = {}
  PROVE  WcInv /\ [WcNext]_wcVars => WcInv'
<1> SUFFICES ASSUME WcInv, [WcNext]_wcVars PROVE WcInv'
  OBVIOUS
<1>w. /\ FilesInv /\ FilesInv' /\ ~failed /\ Counting /\ Emptied /\ RowsRight
      /\ main \in {"open", "print"} => Init /\ reads = 0
  BY FilesStep DEF WcInv, FilesInv
\* The reader stands still.
<1>s. ASSUME UNCHANGED vars PROVE ~failed' /\ Emptied' /\ (Init => Init')
  BY <1>w, <1>s DEF vars, Emptied, Whole, Init
<1>t. ASSUME rows' = rows PROVE RowsRight'
  BY <1>w, <1>t DEF RowsRight, RowRight, TrueCounts
<1>1. CASE OpenFile
  <2>1. /\ main = "open" /\ main' = "count" /\ nsub' = 0 /\ npre' = 0 /\ nobj' = 0
        /\ UNCHANGED <<total, rc, rows, reads>> /\ UNCHANGED vars
    BY <1>1 DEF OpenFile
  <2>2. Init' /\ reads' = 0
    BY <1>s, <1>w, <2>1
  <2>3. semis' = 0 /\ stops' = 0 /\ Cardinality(Subjects') = 0 /\ nread' = 0
    BY <2>2, AtStartNext
  <2>4. Counting'
    BY <2>1, <2>3 DEF Counting, AtLeast, Exact
  <2> QED
    BY <1>w, <1>s, <1>t, <2>1, <2>4 DEF WcInv
<1>2. CASE OpenFails \/ PrintTotal
  <2>1. main' # "count" /\ rows' = rows /\ UNCHANGED vars
    BY <1>2 DEF OpenFails, PrintTotal
  <2> QED
    BY <1>w, <1>s, <1>t, <2>1 DEF WcInv, Counting
<1>3. CASE CountScan \/ CountRead \/ CountRest
  <2>1. rows' = rows
    BY <1>3 DEF CountScan, CountRead, CountRest
  <2> QED
    BY <1>3, <1>w, <1>t, <2>1, CountScanKeeps, CountReadKeeps, CountRestKeeps DEF WcInv, FileInv
<1>4. CASE PrintCounts
  <2> DEFINE r == [opened |-> main = "count", text |-> text, counts |-> Counts]
  <2>1. /\ main = "print" \/ (main = "count" /\ pc = "done")
        /\ rows' = Append(rows, r)
    BY <1>4 DEF PrintCounts
  <2>2. r \in RowSet /\ (r.opened => RowRight(r))
    BY <1>w, <2>1, RowIs, RowIsRight
  <2>3. rows \in Seq(RowSet) /\ Len(rows) \in Nat
    BY <1>w, LenProperties DEF FilesInv, WcTypes
  <2> HIDE DEF r
  <2>4. /\ rows' \in Seq(RowSet) /\ Len(rows') = Len(rows) + 1 /\ rows'[Len(rows) + 1] = r
        /\ \A i \in 1..Len(rows) : rows'[i] = rows[i]
    BY <2>1, <2>2, <2>3, AppendProperties
  <2>5. IF Len(rows') < MaxFiles
        THEN main' = "open" /\ Init'
        ELSE main' = "end" /\ UNCHANGED vars
    BY <1>4 DEF PrintCounts, Init
  <2>6. RowsRight'
    <3>1. SUFFICES ASSUME NEW i \in DOMAIN rows', rows'[i].opened PROVE RowRight(rows'[i])
      BY DEF RowsRight, RowRight, TrueCounts
    <3>2. i \in 1..Len(rows) \/ i = Len(rows) + 1
      BY <2>3, <2>4
    <3>3. CASE i \in 1..Len(rows)
      <4>1. rows'[i] = rows[i] /\ i \in DOMAIN rows
        BY <2>3, <2>4, <3>3
      <4> QED
        BY <1>w, <3>1, <4>1 DEF RowsRight
    <3>4. CASE i = Len(rows) + 1
      BY <2>2, <2>4, <3>1, <3>4
    <3> QED
      BY <3>2, <3>3, <3>4
  <2>7. ~failed' /\ Emptied'
    <3>1. CASE Init'
      BY <3>1, AtStartNext DEF Emptied
    <3>2. CASE UNCHANGED vars
      BY <1>s, <3>2
    <3> QED
      BY <2>5, <3>1, <3>2
  <2>8. main' # "count"
    BY <2>5
  <2> QED
    BY <1>w, <2>6, <2>7, <2>8 DEF WcInv, Counting
<1>5. CASE UNCHANGED wcVars
  <2>1. UNCHANGED <<nsub, npre, nobj, total, rc, main, rows, reads>> /\ UNCHANGED vars
    BY <1>5 DEF wcVars, counters
  <2>2. Counting'
    <3>1. Scanning' = Scanning /\ base' = base
      BY <2>1 DEF vars, Scanning, base
    <3>2. scanned' = scanned /\ text' = text
      BY <2>1, <3>1 DEF scanned, vars
    <3>3. semis' = semis /\ stops' = stops
      BY <3>2, NextPassed DEF semis, stops
    <3>4. Subjects' = Subjects /\ Whole(text)' = Whole(text) /\ pc' = pc /\ nread' = nread
      BY <2>1 DEF vars, Subjects, Whole
    <3>5. (AtLeast => AtLeast') /\ (Exact => Exact')
      BY <2>1, <3>3 DEF AtLeast, Exact
    <3> QED
      BY <1>w, <2>1, <3>4, <3>5 DEF Counting
  <2> QED
    BY <1>w, <1>s, <1>t, <2>1, <2>2 DEF WcInv
<1>6. CASE Exit
  BY <1>5, <1>6 DEF Exit
<1> QED
  BY <1>1, <1>2, <1>3, <1>4, <1>5, <1>6 DEF WcNext

LEMMA WcCorrect ==
  ASSUME Faults = {}
  PROVE  WcSpec => []WcInv
  BY WcStarts, WcStep, PTL DEF WcSpec

---------------------------------------------------------------------------
(* The properties.                                                         *)

\* The types of counters, totals and rows, for any number of files and whatever
\* fails; no file has more than one row, and the exit status counts only files
\* that did not open (ttl-wc.c:354-363).
THEOREM WcTypesHold == WcSpec => []WcTypeOK
<1>1. WcInit => FilesInv
  BY WcStarts DEF WcInv
<1>2. FilesInv => WcTypeOK
  <2> SUFFICES ASSUME FilesInv PROVE WcTypeOK
    OBVIOUS
  <2>1. TypeOK
    BY DEF FilesInv, HandedInv, StreamInv, ReaderInv
  <2>2. Len(rows) \in Nat /\ MaxFiles \in Nat
    BY LenProperties, FilesAssumption DEF FilesInv, WcTypes
  <2>3. rc \in 0..MaxFiles
    BY <2>2 DEF FilesInv, WcTypes, OneRowEach
  <2> QED
    BY <2>1, <2>3 DEF WcTypeOK, FilesInv, WcTypes, OneRowEach
<1> QED
  BY <1>1, <1>2, FilesStep, PTL DEF WcSpec

\* The subject count of a file that was opened is that of its text, for any number
\* of files, sizes of the buffer and ways to cut the file into reads, as long as no
\* read and no growth of the buffer fails (ttl-wc.c:165-174, :269-281).
THEOREM SubjectsAreExact ==
  ASSUME Faults = {}
  PROVE  WcSpec => []SubjectsExact
<1>1. WcInv => SubjectsExact
  BY DEF WcInv, RowsRight, RowRight, SubjectsExact, Counted
<1> QED
  BY <1>1, WcCorrect, PTL

\* Nor do the two other counts ever miss anything (ttl-wc.c:175-181).
THEOREM NothingIsMissed ==
  ASSUME Faults = {}
  PROVE  WcSpec => []NothingMissed
<1>1. WcInv => NothingMissed
  BY DEF WcInv, RowsRight, RowRight, NothingMissed, Counted
<1> QED
  BY <1>1, WcCorrect, PTL

\* A file of whole statements that comes in one read is counted exactly
\* (ttl-wc.c:268-288).
THEOREM OneReadIsExact ==
  ASSUME Faults = {}
  PROVE  WcSpec => []OneReadExact
<1>1. WcInv => OneReadExact
  <2> SUFFICES ASSUME WcInv, main = "count", pc = "done", reads <= 1, Whole(text)
               PROVE  Counts = TrueCounts(text)
    BY DEF OneReadExact
  <2>1. nsub = Cardinality(Subjects) /\ npre = nsub + semis /\ nobj = nsub + stops
    BY DEF WcInv, Counting, Exact
  <2>2. /\ Subjects = TextSubjects
        /\ semis = Cardinality(SepsOf({";"})) /\ stops = Cardinality(SepsOf({";", ","}))
    BY CountedAll
  <2>3. text \in Seq(STRING)
    BY Window DEF WcInv, FilesInv, HandedInv, StreamInv
  <2>4. /\ TrueCounts(text).nsub = nsub /\ TrueCounts(text).npre = npre
        /\ TrueCounts(text).nobj = nobj
    BY <2>1, <2>2, <2>3, TrueCountsAre
  <2>5. TrueCounts(text) = [nsub |-> TrueCounts(text).nsub, npre |-> TrueCounts(text).npre,
                            nobj |-> TrueCounts(text).nobj]
    BY <2>3, TrueCountsAre
  <2>6. TrueCounts(text) = [nsub |-> nsub, npre |-> npre, nobj |-> nobj]
    BY <2>4, <2>5, Zenon
  <2> QED
    BY <2>6 DEF Counts
<1> QED
  BY <1>1, WcCorrect, PTL

===========================================================================
