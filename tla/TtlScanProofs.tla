-------------------------- MODULE TtlScanProofs ---------------------------
(***************************************************************************)
(* What holds of the read loop and the scanner for every text, every size  *)
(* of the buffer, every way the input is cut into reads, and every fault.  *)
(***************************************************************************)
EXTENDS TtlScan, SequenceTheorems, FiniteSetTheorems, WellFoundedInduction,
        TLAPS

\* The buffer has a place for the NUL behind what is in it.
NulFits == Len(buf) + 1 <= bsz /\ bsz >= 2

ReaderInv ==
  /\ TypeOK
  /\ NulFits
  /\ RoomToRead
  /\ Len(buf) <= nread
  /\ Contiguous

---------------------------------------------------------------------------
(* Sequences and searches.                                                 *)

\* Part of a sequence is a sequence of the same elements.
LEMMA PartOf ==
  ASSUME NEW S, NEW s \in Seq(S), NEW m \in 1..Len(s)+1, NEW n \in m-1..Len(s)
  PROVE  SubSeq(s, m, n) \in Seq(S) /\ Len(SubSeq(s, m, n)) = n - m + 1
<1>1. Len(s) \in Nat
  BY LenProperties
<1> QED
  BY <1>1, SubSeqProperties

\* A quote with one, or two, characters behind it.
LEMMA CharactersAfter ==
  ASSUME buf \in Seq(STRING), NEW p \in 1..Len(buf), NEW n \in {1, 2},
         After(p, n) # ""
  PROVE  p + n <= Len(buf)
  BY DEF After

\* Where a token ends the search goes on, within the buffer.
LEMMA TokenAdvances ==
  ASSUME TypeOK, NEW p \in tp..Len(buf), Found(p), Token(p) \/ Separator(p)
  PROVE  /\ \E q \in p+1..Len(buf)+1 : tp' = q
         /\ st' \in States
         /\ UNCHANGED <<input, buf, bsz, sp, pc, out>>
<1>1. Len(buf) \in Nat /\ tp \in Nat /\ sp \in 1..Len(buf)+1 /\ buf \in Seq(STRING)
  BY LenProperties DEF TypeOK
<1>2. p \in 1..Len(buf)
  BY <1>1 DEF TypeOK
<1>3. ASSUME NEW q \in p+1..Len(buf)+1, NEW s \in States, Advance(q, s)
      PROVE  /\ \E r \in p+1..Len(buf)+1 : tp' = r
             /\ st' \in States
             /\ UNCHANGED <<input, buf, bsz, sp, pc, out>>
  BY <1>3 DEF Advance
<1>4. st \in States /\ {"free", "angles", "quotes", "long", "comment"} \subseteq States
  BY DEF TypeOK, States
<1>5. p + 1 \in p+1..Len(buf)+1
  BY <1>1, <1>2
<1>6. CASE Separator(p) \/ OpenAngle(p) \/ CloseAngle(p) \/ Hash(p) \/ Newline(p)
  BY <1>3, <1>4, <1>5, <1>6
     DEF Separator, OpenAngle, CloseAngle, Hash, Newline
<1>7. CASE EscapedQuote(p) \/ OpenQuote(p) \/ CloseQuote(p)
  BY <1>3, <1>4, <1>5, <1>7 DEF EscapedQuote, OpenQuote, CloseQuote
<1>8. CASE EmptyQuote(p) \/ OpenLong(p)
  <2>1. After(p, 2) # ""
    BY <1>8 DEF EmptyQuote, OpenLong, Quote
  <2>2. p + 2 <= Len(buf)
    BY <1>1, <1>2, <2>1, CharactersAfter
  <2>3. p + 2 \in p+1..Len(buf)+1 /\ p + 3 \in p+1..Len(buf)+1
    BY <1>1, <1>2, <2>2
  <2> QED
    BY <1>3, <1>4, <1>8, <2>3 DEF EmptyQuote, OpenLong
<1>9. CASE CloseLong(p)
  <2>1. p + 2 <= Len(buf)
    BY <1>9 DEF CloseLong, Found, Hit
  <2>2. p + 3 \in p+1..Len(buf)+1
    BY <1>1, <1>2, <2>1
  <2> QED
    BY <1>3, <1>4, <1>9, <2>2 DEF CloseLong
<1> QED
  BY <1>6, <1>7, <1>8, <1>9 DEF Token

---------------------------------------------------------------------------
(* The invariant.                                                          *)

LEMMA ReaderInit == Init => ReaderInv
<1> SUFFICES ASSUME Init PROVE ReaderInv
  OBVIOUS
<1>1. text \in Seq(STRING) /\ Len(text) \in Nat
  BY TextsAssumption, LenProperties DEF Init
<1>2. <<>> \in Seq(STRING) /\ <<>> \in Seq(Seq(STRING)) /\ Len(<<>>) = 0
  BY EmptySeq
<1>3. Len(buf) = 0 /\ nread = 0 /\ buf = <<>>
  BY <1>2 DEF Init
<1>4. TypeOK
  <2>1. sp \in 1..Len(buf)+1 /\ tp \in sp..Len(buf)+1
    BY <1>3 DEF Init
  <2>2. st \in States /\ pc = "read" /\ bsz \in Nat /\ failed \in BOOLEAN
    BY CapAssumption DEF Init, States
  <2>3. buf \in Seq(STRING) /\ out \in Seq(Seq(STRING)) /\ nread \in 0..Len(text)
    BY <1>1, <1>2, <1>3 DEF Init
  <2> QED
    BY <1>1, <2>1, <2>2, <2>3 DEF TypeOK
<1>5. SubSeq(text, 1, 0) = <<>>
  BY <1>1, SubSeqEmpty
<1>6. Contiguous
  BY <1>3, <1>5 DEF Contiguous
<1> QED
  BY <1>3, <1>4, <1>6, CapAssumption DEF Init, ReaderInv, NulFits, RoomToRead

\* What was read is what comes next in the text.
LEMMA ReadKeepsInv ==
  ASSUME ReaderInv, NEW n \in 1..Room, Read(n)
  PROVE  ReaderInv'
<1>1. /\ text \in Seq(STRING) /\ Len(text) \in Nat /\ nread \in 0..Len(text)
      /\ buf \in Seq(STRING) /\ Len(buf) \in Nat /\ Len(buf) <= nread
      /\ bsz \in Nat /\ out \in Seq(Seq(STRING)) /\ failed \in BOOLEAN
  BY LenProperties DEF ReaderInv, TypeOK
<1>2. n \in Nat /\ n <= bsz - Len(buf) - 1 /\ nread + n <= Len(text)
  BY <1>1 DEF Read, Room
<1> DEFINE new == SubSeq(text, nread + 1, nread + n)
<1>3. new \in Seq(STRING) /\ Len(new) = n
  BY <1>1, <1>2, PartOf
<1>4. buf' = buf \o new /\ nread' = nread + n
  BY DEF Read
<1>5. buf' \in Seq(STRING) /\ Len(buf') = Len(buf) + n
  BY <1>1, <1>3, <1>4, ConcatProperties
<1>6. Contiguous'
  <2>1. buf = SubSeq(text, nread - Len(buf) + 1, nread)
    BY DEF ReaderInv, Contiguous
  <2>2. SubSeq(text, nread - Len(buf) + 1, nread) \o SubSeq(text, nread + 1, nread + n)
          = SubSeq(text, nread - Len(buf) + 1, nread + n)
    <3>1. /\ nread - Len(buf) + 1 \in 1..Len(text)+1
          /\ nread \in nread-Len(buf)+1-1..Len(text)
          /\ nread + n \in nread..Len(text)
      BY <1>1, <1>2
    <3> DEFINE first == nread - Len(buf) + 1
               last  == nread + n
    <3>2. /\ first \in 1..Len(text)+1 /\ nread \in first-1..Len(text)
          /\ last \in nread..Len(text)
      BY <3>1
    <3> HIDE DEF first, last
    <3>3. SubSeq(text, first, nread) \o SubSeq(text, nread + 1, last)
            = SubSeq(text, first, last)
      BY ONLY <1>1, <3>2, ConcatAdjacentSubSeq
    <3> QED
      BY <3>3 DEF first, last
  <2>3. nread' - Len(buf') + 1 = nread - Len(buf) + 1 /\ text' = text
    BY <1>1, <1>2, <1>4, <1>5 DEF Read
  <2> QED
    BY <1>4, <2>1, <2>2, <2>3 DEF Contiguous
<1>7. TypeOK'
  <2>1. sp' \in 1..Len(buf')+1 /\ tp' = sp' /\ st' = "free"
    BY <1>5 DEF Read, Enter
  <2> QED
    BY <1>1, <1>2, <1>4, <1>5, <2>1 DEF Read, TypeOK, States
<1> QED
  BY <1>1, <1>2, <1>4, <1>5, <1>6, <1>7
     DEF ReaderInv, NulFits, RoomToRead, Read

\* A step that leaves the buffer and the input as they are.
LEMMA BufferUntouched ==
  ASSUME ReaderInv, UNCHANGED <<text, nread, buf, bsz>>, failed' \in BOOLEAN,
         sp' \in 1..Len(buf)+1, tp' \in sp'..Len(buf)+1, st' \in States,
         pc' \in {"scan", "last", "fini", "done"} \/ (pc' = "read" /\ Len(buf) + 1 < bsz),
         out' \in Seq(Seq(STRING))
  PROVE  ReaderInv'
<1>1. TypeOK'
  BY DEF ReaderInv, TypeOK
<1> QED
  BY <1>1 DEF ReaderInv, NulFits, RoomToRead, Contiguous

\* One pass through the scan loop.
LEMMA ScanKeepsInv ==
  ASSUME ReaderInv, Scan
  PROVE  ReaderInv'
<1>1. PICK p \in tp..Len(buf) : Found(p) /\ (Dot(p) \/ Separator(p) \/ Token(p))
  BY DEF Scan
<1>2. /\ TypeOK /\ buf \in Seq(STRING) /\ Len(buf) \in Nat
      /\ sp \in 1..Len(buf)+1 /\ tp \in sp..Len(buf)+1 /\ p \in 1..Len(buf)
      /\ st \in States /\ out \in Seq(Seq(STRING)) /\ failed \in BOOLEAN
  BY LenProperties DEF ReaderInv, TypeOK
<1>3. CASE Dot(p)
  <2>1. SubSeq(buf, sp, p) \in Seq(STRING)
    BY <1>2, PartOf
  <2>2. out' \in Seq(Seq(STRING))
    BY <1>2, <1>3, <2>1, AppendProperties DEF Dot
  <2>3. sp' \in 1..Len(buf)+1 /\ tp' = sp' /\ UNCHANGED <<text, nread, failed, buf, bsz>>
    BY <1>2, <1>3 DEF Dot, input
  <2>4. st' \in States /\ pc' \in {"scan", "last"}
    BY <1>2, <1>3 DEF Dot, Scan, Scanning
  <2> QED
    BY <1>2, <2>2, <2>3, <2>4, BufferUntouched
<1>4. CASE Separator(p) \/ Token(p)
  <2>1. /\ \E q \in p+1..Len(buf)+1 : tp' = q
        /\ st' \in States
        /\ UNCHANGED <<input, buf, bsz, sp, pc, out>>
    BY <1>1, <1>2, <1>4, TokenAdvances
  <2>2. sp' \in 1..Len(buf)+1 /\ tp' \in sp'..Len(buf)+1
    BY <1>2, <2>1
  <2>3. pc' \in {"scan", "last"} /\ out' \in Seq(Seq(STRING))
    BY <1>2, <2>1 DEF Scan, Scanning
  <2> QED
    BY <1>2, <2>1, <2>2, <2>3, BufferUntouched DEF input
<1> QED
  BY <1>1, <1>3, <1>4

\* memmove() keeps what is at the end of the part that has been read.
LEMMA CompactKeepsInv ==
  ASSUME ReaderInv, Compact
  PROVE  ReaderInv'
<1>1. /\ text \in Seq(STRING) /\ Len(text) \in Nat /\ nread \in 0..Len(text)
      /\ buf \in Seq(STRING) /\ Len(buf) \in Nat /\ Len(buf) <= nread
      /\ bsz \in Nat /\ Len(buf) + 1 <= bsz /\ bsz >= 2 /\ out \in Seq(Seq(STRING))
      /\ sp \in 2..Len(buf)+1 /\ failed \in BOOLEAN
  BY LenProperties DEF ReaderInv, TypeOK, NulFits, Compact
<1>2. /\ buf' = SubSeq(buf, sp, Len(buf)) /\ pc' = "read" /\ Leave
      /\ UNCHANGED <<text, nread, failed, bsz, out>>
  BY DEF Compact, input
<1>3. buf' \in Seq(STRING) /\ Len(buf') = Len(buf) - sp + 1
  <2>1. sp \in 1..Len(buf)+1 /\ Len(buf) \in sp-1..Len(buf)
    BY <1>1
  <2>2. /\ SubSeq(buf, sp, Len(buf)) \in Seq(STRING)
        /\ Len(SubSeq(buf, sp, Len(buf))) = Len(buf) - sp + 1
    BY ONLY <1>1, <2>1, PartOf
  <2> QED
    BY <1>2, <2>2
<1>4. Contiguous'
  <2> DEFINE start == nread - Len(buf) + 1
  <2>1. buf = SubSeq(text, start, nread)
    BY DEF ReaderInv, Contiguous
  <2>2. SubSeq(SubSeq(text, start, nread), sp, Len(buf))
          = SubSeq(text, start + sp - 1, start + Len(buf) - 1)
    <3>1. /\ start \in Int /\ start >= 1 /\ start <= Len(text) + 1
          /\ Len(buf) = nread - start + 1
      BY <1>1
    <3>2. CASE sp = Len(buf) + 1
      <4>1. SubSeq(SubSeq(text, start, nread), sp, Len(buf)) = <<>>
        BY <1>1, <3>2, SubSeqEmpty
      <4>2. start + sp - 1 \in Int /\ start + Len(buf) - 1 \in Int
            /\ start + Len(buf) - 1 < start + sp - 1
        BY <1>1, <3>1, <3>2
      <4> HIDE DEF start
      <4>3. SubSeq(text, start + sp - 1, start + Len(buf) - 1) = <<>>
        BY <4>2, SubSeqEmpty
      <4> QED
        BY <4>1, <4>3
    <3>3. CASE sp <= Len(buf)
      <4>1. /\ start \in 1..Len(text) /\ nread \in 1..Len(text)
            /\ sp \in 1..nread-start+1 /\ Len(buf) \in 1..nread-start+1
        BY <1>1, <3>1, <3>3
      <4> HIDE DEF start
      <4> QED
        BY <1>1, <4>1, SubSeqOfSubSeq
    <3> QED
      BY <1>1, <3>2, <3>3
  <2>3. start + sp - 1 = nread - Len(buf') + 1 /\ start + Len(buf) - 1 = nread
    BY <1>1, <1>3
  <2> QED
    BY <1>2, <2>1, <2>2, <2>3 DEF Contiguous
<1>5. TypeOK'
  BY <1>1, <1>2, <1>3 DEF Leave, TypeOK, States
<1> QED
  BY <1>1, <1>2, <1>3, <1>4, <1>5 DEF ReaderInv, NulFits, RoomToRead

LEMMA ReaderStep == ReaderInv /\ [Next]_vars => ReaderInv'
<1> SUFFICES ASSUME ReaderInv, [Next]_vars PROVE ReaderInv'
  OBVIOUS
<1>1. /\ TypeOK /\ buf \in Seq(STRING) /\ Len(buf) \in Nat /\ bsz \in Nat
      /\ Len(buf) + 1 <= bsz /\ bsz >= 2 /\ out \in Seq(Seq(STRING))
      /\ 1 \in 1..Len(buf)+1 /\ "free" \in States /\ failed \in BOOLEAN
  BY LenProperties DEF ReaderInv, NulFits, TypeOK, States
<1>2. CASE ReadInput
  BY <1>2, ReadKeepsInv DEF ReadInput
<1>3. CASE Eof
  <2>1. sp' \in 1..Len(buf)+1 /\ tp' = sp' /\ st' = "free" /\ failed' \in BOOLEAN
    BY <1>3 DEF Eof, Enter
  <2> QED
    BY <1>1, <1>3, <2>1, BufferUntouched DEF Eof
<1>4. CASE Scan
  BY <1>4, ScanKeepsInv
<1>5. CASE Grow
  <2>1. bsz' = 2 * bsz /\ pc' = "read" /\ Leave
        /\ UNCHANGED <<text, nread, failed, buf, out>>
    BY <1>5 DEF Grow, input
  <2>2. bsz' \in Nat /\ Len(buf) + 1 < bsz' /\ bsz' >= 2
    BY <1>1, <2>1
  <2>3. TypeOK'
    BY <1>1, <2>1, <2>2 DEF TypeOK, Leave
  <2> QED
    BY <2>1, <2>2, <2>3 DEF ReaderInv, NulFits, RoomToRead, Contiguous
<1>6. CASE GrowFail \/ LastReturn
  BY <1>1, <1>6, BufferUntouched DEF GrowFail, LastReturn, Leave, input
<1>7. CASE ReadMore
  <2>1. Len(buf) + 1 < bsz
    BY <1>1, <1>7 DEF ReadMore, Full
  <2> QED
    BY <1>1, <1>7, <2>1, BufferUntouched DEF ReadMore, Leave, input
<1>8. CASE Compact
  BY <1>8, CompactKeepsInv
<1>9. CASE Fini
  BY <1>1, <1>9, BufferUntouched DEF Fini, proc_locals, TypeOK, input
<1>10. CASE Done \/ UNCHANGED vars
  BY <1>1, <1>10 DEF Done, vars, input, TypeOK, ReaderInv, NulFits, RoomToRead, Contiguous
<1> QED
  BY <1>2, <1>3, <1>4, <1>5, <1>6, <1>7, <1>8, <1>9, <1>10 DEF Next

LEMMA ReaderCorrect == Spec => []ReaderInv
  BY ReaderInit, ReaderStep, PTL DEF Spec

---------------------------------------------------------------------------
\* Every variable of the reader and scanner keeps its type; in particular no
\* search starts, and no statement is taken, outside of the buffer
\* (ttl-split.c:230-397).
THEOREM TypeCorrect == Spec => []TypeOK
<1>1. ReaderInv => TypeOK
  BY DEF ReaderInv
<1> QED
  BY <1>1, ReaderCorrect, PTL

\* Reading, moving and growing the buffer never lose, repeat or reorder a
\* character of the input (ttl-split.c:363-382).
THEOREM BufferContiguous == Spec => []Contiguous
<1>1. ReaderInv => Contiguous
  BY DEF ReaderInv
<1> QED
  BY <1>1, ReaderCorrect, PTL

\* read() is never called without room, so its 0 always is the end of the input
\* (ttl-split.c:364, :369-374).
THEOREM AlwaysRoomToRead == Spec => []RoomToRead
<1>1. ReaderInv => RoomToRead
  BY DEF ReaderInv
<1> QED
  BY <1>1, ReaderCorrect, PTL

---------------------------------------------------------------------------
(* Natural numbers: the least one of a set, and induction with sets.       *)

LEMMA LeastOf ==
  ASSUME NEW T, T \subseteq Nat, T # {}
  PROVE  \E x \in T : \A y \in T : x <= y
<1> DEFINE R == OpToRel(<, Nat)
<1>1. IsWellFoundedOn(R, Nat)
  BY NatLessThanWellFounded
<1>2. \A x, y \in Nat : (<<y, x>> \in R) <=> y < x
  BY DEF OpToRel
<1> HIDE DEF R
<1>3. \E x \in T : \A y \in T : ~ (<<y, x>> \in R)
  BY <1>1, WFMin
<1>4. PICK x \in T : \A y \in T : ~ (<<y, x>> \in R)
  BY <1>3
<1>5. \A y \in T : ~ (y < x)
  BY <1>2, <1>4, Zenon
<1> QED
  BY <1>5

LEMMA SetInduction ==
  ASSUME NEW T, 0 \in T, \A n \in Nat : n \in T => n + 1 \in T
  PROVE  \A n \in Nat : n \in T
<1> SUFFICES ASSUME Nat \ T # {} PROVE FALSE
  OBVIOUS
<1>1. PICK x \in Nat \ T : \A y \in Nat \ T : x <= y
  BY LeastOf
<1>2. x # 0 /\ x - 1 \in Nat /\ x - 1 \in T
  BY <1>1
<1> QED
  BY <1>1, <1>2

\* The same from one number to another.
LEMMA IntervalInduction ==
  ASSUME NEW T, NEW a \in Int, NEW b \in Int, a \in T,
         \A n \in a..b-1 : n \in T => n + 1 \in T
  PROVE  \A n \in a..b : n \in T
<1> DEFINE U == {n \in Nat : a + n <= b => a + n \in T}
<1>1. 0 \in U
  OBVIOUS
<1>2. ASSUME NEW n \in Nat, n \in U PROVE n + 1 \in U
  <2>1. SUFFICES ASSUME a + (n + 1) <= b PROVE a + (n + 1) \in T
    OBVIOUS
  <2>2. a + n \in a..b-1 /\ a + n \in T /\ a + (n + 1) = (a + n) + 1
    BY <1>2, <2>1
  <2> QED
    BY <2>2
<1> HIDE DEF U
<1>3. \A n \in Nat : n \in U
  BY <1>1, <1>2, SetInduction
<1>4. ASSUME NEW n \in a..b PROVE n \in T
  <2>1. n - a \in Nat /\ n - a \in U /\ a + (n - a) = n /\ a + (n - a) <= b
    BY <1>3
  <2> QED
    BY <2>1 DEF U
<1> QED
  BY <1>4

---------------------------------------------------------------------------
(* The lexer: its mode after a prefix follows from the mode before.        *)

LEMMA Modes ==
  ASSUME NEW t \in Seq(STRING)
  PROVE  /\ Stream!ModeAfter(t)[0] = "free"
         /\ \A i \in 1..Len(t) :
              Stream!ModeAfter(t)[i] = Stream!LexStep(Stream!ModeAfter(t)[i-1], t[i])
<1> DEFINE step(f, i)  == IF i = 0 THEN "free" ELSE Stream!LexStep(f[i-1], t[i])
           modes(f, n) == f = [i \in 0..n |-> step(f, i)]
           T           == {n \in Nat : \E f : modes(f, n)}
<1>1. 0 \in T
  <2> DEFINE f == [i \in 0..0 |-> "free"]
  <2>1. modes(f, 0)
    OBVIOUS
  <2> QED
    BY <2>1
<1>2. ASSUME NEW n \in Nat, n \in T PROVE n + 1 \in T
  <2>1. PICK f : modes(f, n)
    BY <1>2
  <2> DEFINE g == [i \in 0..n+1 |-> IF i = n + 1 THEN Stream!LexStep(f[n], t[n+1]) ELSE f[i]]
  <2>2. \A i \in 0..n : g[i] = f[i]
    OBVIOUS
  <2>3. \A i \in 0..n+1 : g[i] = step(g, i)
    <3>1. ASSUME NEW i \in 1..n PROVE g[i] = step(g, i)
      <4>1. f[i] = step(f, i) /\ i - 1 \in 0..n /\ i \in 0..n
        BY <2>1
      <4> QED
        BY <2>2, <4>1
    <3>2. g[n + 1] = step(g, n + 1)
      <4>1. g[n] = f[n] /\ n + 1 \in 0..n+1 /\ n + 1 # 0 /\ n + 1 - 1 = n
        BY <2>2
      <4> QED
        BY <4>1
    <3>3. g[0] = step(g, 0)
      <4>1. f[0] = step(f, 0) /\ 0 \in 0..n
        BY <2>1
      <4> QED
        BY <2>2, <4>1
    <3>4. \A i \in 0..n+1 : i = 0 \/ i \in 1..n \/ i = n + 1
      OBVIOUS
    <3> HIDE DEF g, step
    <3> QED
      BY <3>1, <3>2, <3>3, <3>4
  <2>4. modes(g, n + 1)
    BY <2>3
  <2> HIDE DEF modes, g
  <2> QED
    BY <2>4
<1>3. Len(t) \in T
  <2> HIDE DEF T
  <2> QED
    BY <1>1, <1>2, SetInduction, LenProperties
<1>4. PICK f : modes(f, Len(t))
  BY <1>3
<1>5. modes(Stream!ModeAfter(t), Len(t))
  BY <1>4 DEF Stream!ModeAfter
<1> HIDE DEF step
<1>6. \A i \in 0..Len(t) : Stream!ModeAfter(t)[i] = step(Stream!ModeAfter(t), i)
  BY <1>5
<1> QED
  BY <1>6, LenProperties DEF step

---------------------------------------------------------------------------
(* The invariant.  The lexer's modes and the ends of the statements are    *)
(* those of the whole text; buf[p] is its character base + p.              *)

Mode == Stream!ModeAfter(text)
E    == Stream!Ends(text)
base == nread - Len(buf)
At(p) == Mode[base + p]
Before(i) == {e \in E : e <= i}
EndFree(i, j) == \A e \in E : ~(i <= e /\ e <= j)

Running == pc \in {"read", "scan", "last"}

\* proc() starts at the beginning of the buffer.
Fresh == pc = "read" => sp = 1 /\ tp = 1

\* proc's state is the lexer's, but for the first of two quotes and for the second
\* one, of which the scanner knows that no third follows.
Tracks ==
  /\ st = "free"    => \/ At(tp-1) = "free"
                       \/ At(tp-1) = "q2" /\ tp <= Len(buf) /\ buf[tp] # Quote
  /\ st = "angles"  => At(tp-1) = "angles"
  /\ st = "quotes"  => \/ At(tp-1) = "quote"
                       \/ At(tp-1) = "q1" /\ tp <= Len(buf) /\ buf[tp] # Quote
  /\ st = "long"    => At(tp-1) = "long"
  /\ st = "comment" => At(tp-1) = "comment"
Tracking == Scanning => Tracks

\* What the statements before the current one, and the white space behind them,
\* take up; a statement starts outside of every token, behind that.
passed == base + sp - 1

StartsAfter(a) ==
  /\ Mode[a] = "free"
  /\ \A i \in 1..a : EndFree(i, a) => text[i] \in White

Starts ==
  Running =>
    /\ StartsAfter(passed)
    /\ Scanning /\ sp <= Len(buf) => buf[sp] \notin White

\* All that was found was handed on, and all that is in the buffer is found before
\* the next read.
Tally ==
  /\ Running => Len(out) = Cardinality(Before(passed)) /\ EndFree(passed + 1, base + tp - 1)
  /\ pc \in {"read", "last"} => EndFree(passed + 1, nread)
  /\ pc = "fini" => Len(out) = Cardinality(Before(nread))

\* The reading stops before the end of the text only if it fails.
Through ==
  /\ pc \in {"read", "scan"} => ~failed
  /\ pc \in {"last", "fini"} /\ ~failed => nread = Len(text)

StreamInv == ReaderInv /\ text \in Texts /\ Fresh /\ Tracking /\ Starts /\ Tally /\ Through

---------------------------------------------------------------------------
(* The modes, one by one.                                                  *)

Backslash == "\\"

LEMMA OutsideSteps ==
  ASSUME NEW c, NEW m \in {"free", "fesc", "q2"},
         m = "fesc" => c # Quote /\ c # Backslash, m = "q2" => c # Quote
  PROVE  Stream!LexStep(m, c) = IF c = Quote THEN "q1" ELSE IF c = Backslash THEN "fesc"
                                ELSE IF c = "<" THEN "angles" ELSE IF c = "#" THEN "comment"
                                ELSE "free"
<1> DEFINE r == IF c = Quote THEN "q1" ELSE IF c = Backslash THEN "fesc"
                ELSE IF c = "<" THEN "angles" ELSE IF c = "#" THEN "comment" ELSE "free"
<1>1. Stream!FromFree(c) = r
  <2>1. CASE c = "\""
    BY <2>1, Zenon DEF Stream!FromFree, Stream!Quote, Stream!Backslash, Quote, Backslash
  <2>2. CASE c = "\\"
    BY <2>2, Zenon DEF Stream!FromFree, Stream!Quote, Stream!Backslash, Quote, Backslash
  <2>3. CASE c = "<"
    BY <2>3, Zenon DEF Stream!FromFree, Stream!Quote, Stream!Backslash, Quote, Backslash
  <2>4. CASE c = "#"
    BY <2>4, Zenon DEF Stream!FromFree, Stream!Quote, Stream!Backslash, Quote, Backslash
  <2>5. CASE c \notin {"\"", "\\", "<", "#"}
    BY <2>5, Zenon DEF Stream!FromFree, Stream!Quote, Stream!Backslash, Quote, Backslash
  <2> QED
    BY <2>1, <2>2, <2>3, <2>4, <2>5
<1> HIDE DEF r
<1>2. ASSUME m = "free" PROVE Stream!LexStep(m, c) = r
  BY <1>1, <1>2, Zenon DEF Stream!LexStep
<1>3. ASSUME m = "fesc" PROVE Stream!LexStep(m, c) = r
  <2>1. c \notin {Stream!Quote, Stream!Backslash}
    BY <1>3 DEF Stream!Quote, Stream!Backslash, Quote, Backslash
  <2> QED
    BY <1>1, <1>3, <2>1, Zenon DEF Stream!LexStep
<1>4. ASSUME m = "q2" PROVE Stream!LexStep(m, c) = r
  <2>1. c # Stream!Quote
    BY <1>4 DEF Stream!Quote, Quote
  <2> QED
    BY <1>1, <1>4, <2>1, Zenon DEF Stream!LexStep
<1> QED
  BY <1>2, <1>3, <1>4 DEF r

LEMMA EscapedSteps ==
  /\ \A c \in {Quote, Backslash} : Stream!LexStep("fesc", c) = "free"
  /\ \A c : Stream!LexStep("qesc", c) = "quote"
  /\ \A c : Stream!LexStep("lesc", c) = "long"
  BY Zenon DEF Stream!LexStep, Stream!Quote, Stream!Backslash, Quote, Backslash

LEMMA MarkupSteps ==
  /\ \A c : Stream!LexStep("angles", c) = IF c = ">" THEN "free" ELSE "angles"
  /\ \A c : Stream!LexStep("comment", c) = IF c = "\n" THEN "free" ELSE "comment"
  BY Zenon DEF Stream!LexStep

LEMMA QuoteSteps ==
  /\ Stream!LexStep("q1", Quote) = "q2" /\ Stream!LexStep("q2", Quote) = "long"
  /\ Stream!LexStep("quote", Quote) = "free"
  /\ \A m \in {"q1", "quote"} : \A c :
       c # Quote => Stream!LexStep(m, c) = IF c = Backslash THEN "qesc" ELSE "quote"
<1>1. \A c : c # "\"" => Stream!FromQuote(c) = IF c = "\\" THEN "qesc" ELSE "quote"
  BY Zenon DEF Stream!FromQuote, Stream!Quote, Stream!Backslash
<1>2. Stream!FromQuote("\"") = "free"
  BY Zenon DEF Stream!FromQuote, Stream!Quote, Stream!Backslash
<1>3. Stream!LexStep("q1", "\"") = "q2" /\ Stream!LexStep("q2", "\"") = "long"
  BY Zenon DEF Stream!LexStep, Stream!Quote
<1>4. \A c : c # "\"" => Stream!LexStep("q1", c) = Stream!FromQuote(c)
  BY Zenon DEF Stream!LexStep, Stream!Quote
<1>5. \A c : Stream!LexStep("quote", c) = Stream!FromQuote(c)
  BY Zenon DEF Stream!LexStep
<1>6. /\ Stream!LexStep("q1", "\"") = "q2" /\ Stream!LexStep("q2", "\"") = "long"
      /\ Stream!LexStep("quote", "\"") = "free"
  BY <1>2, <1>3, <1>5
<1>7. \A m \in {"q1", "quote"} : \A c :
        c # "\"" => Stream!LexStep(m, c) = IF c = "\\" THEN "qesc" ELSE "quote"
  BY <1>1, <1>4, <1>5
<1> QED
  BY <1>6, <1>7, Zenon DEF Quote, Backslash

LEMMA LongSteps ==
  /\ Stream!LexStep("long", Quote) = "l1" /\ Stream!LexStep("l1", Quote) = "l2"
  /\ Stream!LexStep("l2", Quote) = "free"
  /\ \A m \in {"long", "l1", "l2"} : \A c :
       c # Quote => Stream!LexStep(m, c) = IF c = Backslash THEN "lesc" ELSE "long"
<1>1. \A c, q : c # "\"" => Stream!FromLong(c, q) = IF c = "\\" THEN "lesc" ELSE "long"
  BY Zenon DEF Stream!FromLong, Stream!Quote, Stream!Backslash
<1>2. \A q : Stream!FromLong("\"", q) = q
  BY Zenon DEF Stream!FromLong, Stream!Quote, Stream!Backslash
<1>3. \A c : Stream!LexStep("long", c) = Stream!FromLong(c, "l1")
  BY Zenon DEF Stream!LexStep
<1>4. \A c : Stream!LexStep("l1", c) = Stream!FromLong(c, "l2")
  BY Zenon DEF Stream!LexStep
<1>5. \A c : Stream!LexStep("l2", c) = Stream!FromLong(c, "free")
  BY Zenon DEF Stream!LexStep
<1>6. ASSUME NEW m \in {"long", "l1", "l2"}, NEW c, c # "\""
      PROVE  Stream!LexStep(m, c) = IF c = "\\" THEN "lesc" ELSE "long"
  <2>1. \A q : Stream!FromLong(c, q) = IF c = "\\" THEN "lesc" ELSE "long"
    BY <1>1, <1>6, Zenon
  <2>2. CASE m = "long"
    BY <1>3, <2>1, <2>2
  <2>3. CASE m = "l1"
    BY <1>4, <2>1, <2>3
  <2>4. CASE m = "l2"
    BY <1>5, <2>1, <2>4
  <2> QED
    BY <2>2, <2>3, <2>4
<1>7. /\ Stream!LexStep("long", "\"") = "l1" /\ Stream!LexStep("l1", "\"") = "l2"
      /\ Stream!LexStep("l2", "\"") = "free"
  BY <1>2, <1>3, <1>4, <1>5
<1> QED
  BY <1>6, <1>7 DEF Quote, Backslash

---------------------------------------------------------------------------
(* Backslashes: escapedp() says of one place the opposite of what it says  *)
(* of the backslash before it.                                             *)

\* The n characters before q are backslashes, and the one before them is not, or
\* the search started there.
Run(q, n) ==
  /\ \A k \in q-n..q-1 : buf[k] = Backslash
  /\ q - n > tp => buf[q-n-1] # Backslash

LEMMA EscapedIs ==
  ASSUME NEW q
  PROVE  Escaped(q) <=> \E n \in 0..q-tp : n % 2 = 1 /\ Run(q, n)
  BY DEF Escaped, Run, Backslash

LEMMA RunsMeet ==
  ASSUME tp \in Nat, NEW q \in Nat, NEW m \in 0..q-tp, NEW n \in 0..q-tp, Run(q, m), Run(q, n)
  PROVE  m = n
<1>1. ASSUME NEW a \in 0..q-tp, NEW b \in 0..q-tp, Run(q, a), Run(q, b), a < b PROVE FALSE
  <2>1. q - a - 1 \in q-b..q-1 /\ q - a > tp
    BY <1>1
  <2>2. buf[q-a-1] = Backslash
    BY <1>1, <2>1 DEF Run
  <2>3. buf[q-a-1] # Backslash
    BY <1>1, <2>1 DEF Run
  <2> QED
    BY <2>2, <2>3
<1>2. ~(m < n) /\ ~(n < m)
  BY <1>1
<1> QED
  BY <1>2

LEMMA RunNext ==
  ASSUME tp \in Nat, NEW q \in Nat, tp <= q, NEW n \in 0..q-tp, Run(q, n)
  PROVE  IF buf[q] = Backslash THEN Run(q + 1, n + 1) ELSE Run(q + 1, 0)
<1>1. CASE buf[q] = Backslash
  <2>1. (q + 1) - (n + 1) = q - n /\ (q + 1) - 1 = q
    OBVIOUS
  <2>2. \A k \in q-n..q : k \in q-n..q-1 \/ k = q
    OBVIOUS
  <2>3. \A k \in q-n..q : buf[k] = Backslash
    BY <1>1, <2>2 DEF Run
  <2>4. q - n > tp => buf[q-n-1] # Backslash
    BY DEF Run
  <2>5. Run(q + 1, n + 1)
    BY <2>1, <2>3, <2>4 DEF Run
  <2> QED
    BY <1>1, <2>5
<1>2. CASE buf[q] # Backslash
  <2>1. (q + 1) - 0 - 1 = q /\ (q + 1)-0..(q + 1)-1 = {}
    OBVIOUS
  <2>2. Run(q + 1, 0)
    BY <1>2, <2>1 DEF Run
  <2> QED
    BY <1>2, <2>2
<1> QED
  BY <1>1, <1>2

LEMMA RunThere ==
  ASSUME tp \in Nat, NEW q \in Nat, tp <= q
  PROVE  \E n \in 0..q-tp : Run(q, n)
<1> DEFINE T == {r \in Nat : \E n \in 0..r-tp : Run(r, n)}
<1>1. tp \in T
  <2>1. Run(tp, 0) /\ 0 \in 0..tp-tp
    BY DEF Run
  <2> QED
    BY <2>1
<1>2. ASSUME NEW r \in tp..q-1, r \in T PROVE r + 1 \in T
  <2>1. PICK n \in 0..r-tp : Run(r, n)
    BY <1>2
  <2>2. Run(r + 1, n + 1) \/ Run(r + 1, 0)
    BY <2>1, RunNext
  <2>3. n + 1 \in 0..(r+1)-tp /\ 0 \in 0..(r+1)-tp /\ r + 1 \in Nat
    OBVIOUS
  <2> QED
    BY <2>2, <2>3
<1> HIDE DEF T
<1>3. tp \in Int /\ q \in Int /\ q \in tp..q
  OBVIOUS
<1>4. \A r \in tp..q : r \in T
  BY <1>1, <1>2, <1>3, IntervalInduction
<1> QED
  BY <1>3, <1>4 DEF T

LEMMA EscapeAlternates ==
  ASSUME tp \in Nat, NEW q \in Nat, tp <= q
  PROVE  /\ ~Escaped(tp)
         /\ Escaped(q + 1) <=> buf[q] = Backslash /\ ~Escaped(q)
<1>1. ~Escaped(tp)
  BY EscapedIs
<1>2. PICK n \in 0..q-tp : Run(q, n)
  BY RunThere
<1>3. Escaped(q) <=> n % 2 = 1
  BY <1>2, EscapedIs, RunsMeet
<1>4. CASE buf[q] = Backslash
  <2>1. Run(q + 1, n + 1) /\ n + 1 \in 0..(q+1)-tp /\ q + 1 \in Nat
    BY <1>2, <1>4, RunNext
  <2>2. \A m \in 0..(q+1)-tp : Run(q + 1, m) => m = n + 1
    BY <2>1, RunsMeet
  <2>3. Escaped(q + 1) <=> (n + 1) % 2 = 1
    BY <2>1, <2>2, EscapedIs
  <2>4. (n + 1) % 2 = 1 <=> ~(n % 2 = 1)
    OBVIOUS
  <2> QED
    BY <1>1, <1>3, <1>4, <2>3, <2>4
<1>5. CASE buf[q] # Backslash
  <2>1. Run(q + 1, 0) /\ 0 \in 0..(q+1)-tp /\ q + 1 \in Nat
    BY <1>2, <1>5, RunNext
  <2>2. \A m \in 0..(q+1)-tp : Run(q + 1, m) => m = 0
    BY <2>1, RunsMeet
  <2>3. ~Escaped(q + 1)
    BY <2>2, EscapedIs
  <2> QED
    BY <1>1, <1>5, <2>3
<1> QED
  BY <1>4, <1>5

---------------------------------------------------------------------------
(* The buffer as a window on the text.                                     *)

LEMMA Window ==
  ASSUME ReaderInv
  PROVE  /\ text \in Seq(STRING) /\ Len(text) \in Nat
         /\ buf \in Seq(STRING) /\ Len(buf) \in Nat
         /\ base \in Nat /\ nread \in Nat /\ nread = base + Len(buf) /\ nread <= Len(text)
         /\ sp \in Nat /\ sp \in 1..Len(buf)+1 /\ tp \in Nat /\ tp \in sp..Len(buf)+1
         /\ st \in States
<1>1. /\ text \in Seq(STRING) /\ Len(text) \in Nat
      /\ buf \in Seq(STRING) /\ Len(buf) \in Nat
      /\ nread \in 0..Len(text) /\ Len(buf) <= nread
      /\ sp \in 1..Len(buf)+1 /\ tp \in sp..Len(buf)+1 /\ st \in States
  BY LenProperties DEF ReaderInv, TypeOK
<1> QED
  BY <1>1 DEF base

LEMMA Seen ==
  ASSUME ReaderInv, NEW p \in 1..Len(buf)
  PROVE  /\ base + p \in 1..Len(text) /\ buf[p] = text[base + p]
         /\ At(p) = Stream!LexStep(At(p - 1), buf[p])
<1>1. /\ text \in Seq(STRING) /\ Len(text) \in Nat /\ Len(buf) \in Nat
      /\ base \in Nat /\ nread \in Nat /\ nread = base + Len(buf) /\ nread <= Len(text)
  BY Window
<1>2. base + p \in 1..Len(text) /\ base + p - 1 = base + (p - 1)
  BY <1>1
<1>3. buf = SubSeq(text, base + 1, nread)
  BY DEF ReaderInv, Contiguous, base
<1>4. \A i \in base+1..nread : text[i] \in STRING
  BY <1>1, ElementOfSeq
<1>5. \A i \in 1..nread-(base+1)+1 : SubSeq(text, base + 1, nread)[i] = text[(base+1)+i-1]
  <2>1. base + 1 \in Int /\ nread \in Int
    BY <1>1
  <2> HIDE DEF base
  <2> QED
    BY <1>4, <2>1, SubSeqProperties
<1>6. p \in 1..nread-(base+1)+1 /\ (base+1)+p-1 = base + p
  BY <1>1
<1>7. buf[p] = text[base + p]
  BY <1>3, <1>5, <1>6
<1>8. Mode[base + p] = Stream!LexStep(Mode[base + p - 1], text[base + p])
  BY <1>1, <1>2, Modes DEF Mode
<1> QED
  BY <1>2, <1>7, <1>8 DEF At

LEMMA EndIs ==
  ASSUME text \in Seq(STRING)
  PROVE  /\ E \subseteq 1..Len(text) /\ E \subseteq Nat
         /\ \A e \in 1..Len(text) :
              e \in E <=> text[e] = "." /\ Mode[e-1] \in {"free", "fesc", "q2"}
<1>1. E = {e \in 1..Len(text) : text[e] = "." /\ Mode[e-1] \in {"free", "fesc", "q2"}}
  BY DEF E, Mode, Stream!Ends, Stream!Outside
<1> QED
  BY <1>1, LenProperties

LEMMA EndSeen ==
  ASSUME ReaderInv, NEW p \in 1..Len(buf)
  PROVE  base + p \in E <=> buf[p] = "." /\ At(p - 1) \in {"free", "fesc", "q2"}
<1>1. text \in Seq(STRING) /\ base \in Nat
  BY Window
<1>2. base + p \in 1..Len(text) /\ buf[p] = text[base + p] /\ base + p - 1 = base + (p - 1)
  BY <1>1, Seen
<1> QED
  BY <1>1, <1>2, EndIs DEF At

LEMMA HitIs ==
  ASSUME NEW p
  PROVE  /\ st = "free" => (Hit(p) <=> buf[p] \in FreeStops)
         /\ st = "angles" => (Hit(p) <=> buf[p] = ">")
         /\ st = "quotes" => (Hit(p) <=> buf[p] = Quote)
         /\ st = "long" => (Hit(p) <=> p + 2 <= Len(buf) /\ \A k \in p..p+2 : buf[k] = Quote)
         /\ st = "comment" => (Hit(p) <=> buf[p] = "\n")
  BY Zenon DEF Hit

---------------------------------------------------------------------------
(* The lexer, between the places where a search stops.                     *)

\* A search from tp has come to q.
Reached(q) == q \in tp..Len(buf)+1 /\ \A k \in tp..q-1 : ~Hit(k)

FreeAt(q) ==
  IF Escaped(q) THEN At(q-1) = "fesc"
  ELSE At(q-1) = "free" \/ (q = tp /\ At(q-1) = "q2" /\ tp <= Len(buf) /\ buf[tp] # Quote)

QuotesAt(q) ==
  IF Escaped(q) THEN At(q-1) = "qesc"
  ELSE At(q-1) = "quote" \/ (q = tp /\ At(q-1) = "q1" /\ tp <= Len(buf) /\ buf[tp] # Quote)

LongAt(q) ==
  IF Escaped(q) THEN At(q-1) = "lesc"
  ELSE \/ At(q-1) = "long"
       \/ At(q-1) = "l1" /\ q - 1 >= tp /\ buf[q-1] = Quote
       \/ At(q-1) = "l2" /\ q - 2 >= tp /\ buf[q-1] = Quote /\ buf[q-2] = Quote

InMode(q) ==
  /\ st = "free" => FreeAt(q)
  /\ st = "angles" => At(q-1) = "angles"
  /\ st = "quotes" => QuotesAt(q)
  /\ st = "long" => LongAt(q)
  /\ st = "comment" => At(q-1) = "comment"

LEMMA StretchStep ==
  ASSUME ReaderInv, NEW q \in tp..Len(buf), InMode(q), Reached(q), ~Hit(q)
  PROVE  InMode(q + 1)
<1>w. /\ sp \in Nat /\ tp \in Nat /\ Len(buf) \in Nat /\ q \in Nat /\ tp <= q /\ q \in 1..Len(buf)
      /\ (q + 1) - 1 = q /\ q + 1 # tp /\ q \in Int /\ tp \in Int /\ q <= Len(buf)
  BY Window
<1>m. At(q) = Stream!LexStep(At(q - 1), buf[q])
  BY <1>w, Seen
<1>e. Escaped(q + 1) <=> buf[q] = Backslash /\ ~Escaped(q)
  BY <1>w, EscapeAlternates
<1>s. \A k \in tp..q : ~Hit(k)
  BY <1>w DEF Reached
<1>d. Quote # Backslash
  BY DEF Quote, Backslash
<1>1. ASSUME st = "free" PROVE FreeAt(q + 1)
  <2>1. FreeAt(q) /\ buf[q] \notin {".", "<", Quote, "#"}
    BY <1>1, HitIs DEF InMode, FreeStops
  <2>2. CASE Escaped(q)
    <3>1. At(q - 1) = "fesc"
      BY <2>1, <2>2 DEF FreeAt
    <3>2. CASE buf[q] = Backslash
      <4>1. At(q) = "free"
        BY <1>m, <3>1, <3>2, EscapedSteps
      <4> QED
        BY <1>e, <1>w, <2>2, <4>1 DEF FreeAt
    <3>3. CASE buf[q] # Backslash
      <4>1. At(q) = "free"
        BY <1>m, <2>1, <3>1, <3>3, OutsideSteps
      <4> QED
        BY <1>e, <1>w, <2>2, <4>1 DEF FreeAt
    <3> QED
      BY <3>2, <3>3
  <2>3. CASE ~Escaped(q)
    <3>1. At(q - 1) = "free" \/ At(q - 1) = "q2"
      BY <2>1, <2>3 DEF FreeAt
    <3>2. At(q) = IF buf[q] = Backslash THEN "fesc" ELSE "free"
      BY <1>m, <2>1, <3>1, OutsideSteps
    <3> QED
      BY <1>e, <1>w, <2>3, <3>2 DEF FreeAt
  <2> QED
    BY <2>2, <2>3
<1>2. ASSUME st = "angles" PROVE At(q) = "angles"
  BY <1>2, <1>m, HitIs, MarkupSteps DEF InMode
<1>3. ASSUME st = "comment" PROVE At(q) = "comment"
  BY <1>3, <1>m, HitIs, MarkupSteps DEF InMode
<1>4. ASSUME st = "quotes" PROVE QuotesAt(q + 1)
  <2>1. QuotesAt(q) /\ buf[q] # Quote
    BY <1>4, HitIs DEF InMode
  <2>2. CASE Escaped(q)
    <3>1. At(q) = "quote"
      BY <1>m, <2>1, <2>2, EscapedSteps DEF QuotesAt
    <3> QED
      BY <1>e, <1>w, <2>2, <3>1 DEF QuotesAt
  <2>3. CASE ~Escaped(q)
    <3>1. At(q - 1) \in {"quote", "q1"}
      BY <2>1, <2>3 DEF QuotesAt
    <3>2. At(q) = IF buf[q] = Backslash THEN "qesc" ELSE "quote"
      BY <1>m, <2>1, <3>1, QuoteSteps
    <3> QED
      BY <1>e, <1>w, <2>3, <3>2 DEF QuotesAt
  <2> QED
    BY <2>2, <2>3
<1>5. ASSUME st = "long" PROVE LongAt(q + 1)
  <2>1. LongAt(q)
    BY <1>5 DEF InMode
  <2>2. CASE Escaped(q)
    <3>1. At(q) = "long"
      BY <1>m, <2>1, <2>2, EscapedSteps DEF LongAt
    <3> QED
      BY <1>e, <1>w, <2>2, <3>1 DEF LongAt
  <2>3. CASE ~Escaped(q) /\ buf[q] # Quote
    <3>1. At(q - 1) \in {"long", "l1", "l2"}
      BY <2>1, <2>3 DEF LongAt
    <3>2. At(q) = IF buf[q] = Backslash THEN "lesc" ELSE "long"
      BY <1>m, <2>3, <3>1, LongSteps
    <3> QED
      BY <1>e, <1>w, <2>3, <3>2 DEF LongAt
  <2>4. CASE ~Escaped(q) /\ buf[q] = Quote
    <3>1. CASE At(q - 1) = "long"
      <4>1. At(q) = "l1"
        BY <1>m, <2>4, <3>1, LongSteps
      <4> QED
        BY <1>d, <1>e, <1>w, <2>4, <4>1 DEF LongAt
    <3>2. CASE At(q - 1) = "l1"
      <4>1. At(q) = "l2"
        BY <1>m, <2>4, <3>2, LongSteps
      <4>2. q - 1 >= tp /\ buf[q-1] = Quote
        BY <2>1, <2>4, <3>2 DEF LongAt
      <4>3. (q + 1) - 2 = q - 1
        BY <1>w
      <4> QED
        BY <1>d, <1>e, <1>w, <2>4, <4>1, <4>2, <4>3 DEF LongAt
    <3>3. ASSUME At(q - 1) = "l2" PROVE FALSE
      <4>1. q - 2 >= tp /\ buf[q-1] = Quote /\ buf[q-2] = Quote
        BY <2>1, <2>4, <3>3 DEF LongAt
      <4>2. q - 2 \in tp..q /\ (q - 2) + 2 <= Len(buf)
            /\ \A k \in q-2..(q-2)+2 : k = q - 2 \/ k = q - 1 \/ k = q
        BY <1>w, <4>1
      <4>3. \A k \in q-2..(q-2)+2 : buf[k] = Quote
        BY <2>4, <4>1, <4>2
      <4> QED
        BY <1>5, <1>s, <4>2, <4>3, HitIs
    <3> QED
      BY <2>1, <2>4, <3>1, <3>2, <3>3 DEF LongAt
  <2> QED
    BY <2>2, <2>3, <2>4
<1> QED
  BY <1>1, <1>2, <1>3, <1>4, <1>5, <1>w DEF InMode

LEMMA Stretch ==
  ASSUME ReaderInv, Tracks, NEW q, Reached(q)
  PROVE  InMode(q)
<1> DEFINE T == {k \in Nat : Reached(k) => InMode(k)}
<1>w. tp \in Nat /\ Len(buf) \in Nat /\ q \in Nat /\ q \in tp..Len(buf)+1 /\ tp \in Int /\ q \in Int
  BY Window DEF Reached
<1>1. tp \in T
  <2>1. ~Escaped(tp)
    BY <1>w, EscapeAlternates
  <2>2. InMode(tp)
    BY <2>1 DEF Tracks, InMode, FreeAt, QuotesAt, LongAt
  <2> QED
    BY <1>w, <2>2
<1>2. ASSUME NEW k \in tp..q-1, k \in T PROVE k + 1 \in T
  <2>1. k \in tp..Len(buf) /\ k \in Nat /\ k + 1 \in Nat /\ tp..k-1 \subseteq tp..q-1
    BY <1>w
  <2>2. Reached(k) /\ ~Hit(k)
    BY <2>1 DEF Reached
  <2>3. InMode(k + 1)
    BY <1>2, <2>1, <2>2, StretchStep
  <2> QED
    BY <2>1, <2>3
<1> HIDE DEF T
<1>3. \A k \in tp..q : k \in T
  BY <1>w, <1>1, <1>2, IntervalInduction
<1> QED
  BY <1>w, <1>3 DEF T

\* No statement ends between the places where a search stops.
LEMMA StretchEndFree ==
  ASSUME ReaderInv, Tracks, NEW q, Reached(q)
  PROVE  EndFree(base + tp, base + q - 1)
<1>w. /\ tp \in Nat /\ Len(buf) \in Nat /\ base \in Nat /\ q \in Nat /\ q \in tp..Len(buf)+1
      /\ text \in Seq(STRING) /\ sp \in Nat /\ sp \in 1..tp
  BY Window DEF Reached
<1>1. SUFFICES ASSUME NEW e \in E, base + tp <= e, e <= base + q - 1 PROVE FALSE
  BY DEF EndFree
<1> DEFINE k == e - base
<1>2. e \in Nat
  BY <1>w, EndIs
<1>3. k \in tp..q-1 /\ k \in 1..Len(buf) /\ e = base + k /\ tp..k-1 \subseteq tp..q-1 /\ k \in tp..Len(buf)+1
  BY <1>w, <1>1, <1>2
<1>4. Reached(k) /\ ~Hit(k)
  BY <1>3 DEF Reached
<1> HIDE DEF k
<1>5. InMode(k)
  BY <1>4, Stretch
<1>6. buf[k] = "." /\ At(k - 1) \in {"free", "fesc", "q2"}
  BY <1>1, <1>3, EndSeen
<1>7. st # "free"
  BY <1>4, <1>6, HitIs DEF FreeStops
<1>8. st \in {"angles", "quotes", "long", "comment"}
  BY <1>7, Window DEF States
<1> QED
  BY <1>5, <1>6, <1>8 DEF InMode, QuotesAt, LongAt

\* Part of a stretch without an end, and two next to each other.
LEMMA EndFreePart ==
  ASSUME text \in Seq(STRING), NEW a \in Int, NEW b \in Int, NEW c \in Int, NEW d \in Int,
         EndFree(a, b), a <= c, d <= b
  PROVE  EndFree(c, d)
<1>1. E \subseteq Nat
  BY EndIs
<1> QED
  BY <1>1 DEF EndFree

LEMMA EndFreeJoin ==
  ASSUME text \in Seq(STRING), NEW a \in Int, NEW b \in Int, NEW c \in Int,
         EndFree(a, b), EndFree(b + 1, c)
  PROVE  EndFree(a, c)
<1>1. E \subseteq Nat
  BY EndIs
<1> QED
  BY <1>1 DEF EndFree

\* The ends before j are those before i if there is none between.
LEMMA BeforeIs ==
  ASSUME text \in Seq(STRING), NEW i \in Int
  PROVE  /\ \A e : e \in Before(i) <=> e \in E /\ e <= i
         /\ Before(i) \subseteq E
         /\ IsFiniteSet(Before(i)) /\ Cardinality(Before(i)) \in Nat
<1>1. (\A e : e \in Before(i) <=> e \in E /\ e <= i) /\ Before(i) \subseteq E
  BY Zenon DEF Before
<1>2. E \subseteq 1..Len(text) /\ Len(text) \in Int
  BY EndIs, LenProperties
<1>3. IsFiniteSet(1..Len(text))
  BY <1>2, FS_Interval
<1>4. Before(i) \in SUBSET (1..Len(text))
  BY <1>1, <1>2, Zenon
<1> HIDE DEF Before
<1>5. IsFiniteSet(Before(i))
  BY <1>3, <1>4, FS_Subset
<1> QED
  BY <1>1, <1>5, FS_CardinalityType

LEMMA BeforeSame ==
  ASSUME text \in Seq(STRING), NEW i \in Int, NEW j \in Int, i <= j, EndFree(i + 1, j)
  PROVE  Before(j) = Before(i)
<1>1. \A e : e \in E => e \in Nat
  BY EndIs
<1>2. \A e : e \in E => ~(i + 1 <= e /\ e <= j)
  BY DEF EndFree
<1>3. \A e : e \in E => (e <= j <=> e <= i)
  <2> HIDE DEF E
  <2> QED
    BY <1>1, <1>2
<1>4. \A e : e \in Before(j) <=> e \in E /\ e <= j
  BY BeforeIs
<1>5. \A e : e \in Before(i) <=> e \in E /\ e <= i
  BY BeforeIs
<1>6. \A e : e \in Before(j) <=> e \in Before(i)
  BY <1>3, <1>4, <1>5, Zenon
<1> QED
  BY <1>6, Zenon

LEMMA BeforeOneMore ==
  ASSUME text \in Seq(STRING), NEW i \in Int, NEW e \in E, i < e, EndFree(i + 1, e - 1)
  PROVE  /\ Before(e) = Before(i) \cup {e} /\ e \notin Before(i)
         /\ Cardinality(Before(e)) = Cardinality(Before(i)) + 1
<1>1. \A f : f \in E => f \in Nat
  BY EndIs
<1>2. \A f : f \in E => ~(i + 1 <= f /\ f <= e - 1)
  BY DEF EndFree
<1>3. e \in Int /\ e \in Nat
  BY <1>1
<1>4. \A f : f \in E => (f <= e <=> f <= i \/ f = e)
  <2> HIDE DEF E
  <2> QED
    BY <1>1, <1>2, <1>3
<1>5. \A f : f \in Before(e) <=> f \in E /\ f <= e
  BY <1>3, BeforeIs
<1>6. /\ \A f : f \in Before(i) <=> f \in E /\ f <= i
      /\ IsFiniteSet(Before(i))
  BY BeforeIs
<1>7. ~(e <= i)
  BY <1>3
<1>8. e \notin Before(i)
  BY <1>6, <1>7, Zenon
<1>9. \A f : f \in Before(e) <=> f \in Before(i) \cup {e}
  BY <1>4, <1>5, <1>6, Zenon
<1>10. Before(e) = Before(i) \cup {e}
  BY <1>9, Zenon
<1> DEFINE B == Before(i)
<1>11. IsFiniteSet(B) /\ e \notin B
  BY <1>6, <1>8
<1> HIDE DEF B
<1>12. Cardinality(B \cup {e}) = IF e \in B THEN Cardinality(B) ELSE Cardinality(B) + 1
  BY <1>11, FS_AddElement
<1>13. Cardinality(B \cup {e}) = Cardinality(B) + 1
  BY <1>11, <1>12, Zenon
<1> QED
  BY <1>8, <1>10, <1>13, Zenon DEF B

---------------------------------------------------------------------------
(* White space, and characters that are no full stops.                     *)

LEMMA ModeStep ==
  ASSUME text \in Seq(STRING), NEW i \in 1..Len(text)
  PROVE  Mode[i] = Stream!LexStep(Mode[i-1], text[i])
  BY Modes DEF Mode

LEMMA WhiteGap ==
  ASSUME text \in Seq(STRING), NEW a \in Nat, NEW b \in a..Len(text), Mode[a] = "free",
         \A k \in a+1..b : text[k] \in White
  PROVE  Mode[b] = "free" /\ EndFree(a + 1, b)
<1> DEFINE T == {k \in Nat : Mode[k] = "free"}
<1>w. Len(text) \in Nat /\ a \in Int /\ b \in Int /\ b \in a..b
  BY LenProperties
<1>1. a \in T
  OBVIOUS
<1>2. ASSUME NEW k \in a..b-1, k \in T PROVE k + 1 \in T
  <2>1. k + 1 \in a+1..b /\ k + 1 \in 1..Len(text) /\ (k + 1) - 1 = k /\ k + 1 \in Nat
    BY <1>w
  <2>2. Mode[k+1] = Stream!LexStep("free", text[k+1])
    BY <1>2, <2>1, ModeStep
  <2>3. text[k+1] \notin {Quote, Backslash, "<", "#"}
    BY <2>1 DEF White, Quote, Backslash
  <2>4. Mode[k+1] = "free"
    BY <2>2, <2>3, OutsideSteps
  <2> QED
    BY <2>1, <2>4
<1> HIDE DEF T
<1>3. \A k \in a..b : k \in T
  BY <1>w, <1>1, <1>2, IntervalInduction
<1>4. ASSUME NEW e \in E, a + 1 <= e, e <= b PROVE FALSE
  <2>1. e \in 1..Len(text) /\ e \in a+1..b
    BY <1>4, <1>w, EndIs
  <2>2. text[e] = "."
    BY <2>1, EndIs
  <2> QED
    BY <2>1, <2>2 DEF White
<1> QED
  BY <1>w, <1>3, <1>4 DEF T, EndFree

LEMMA NoDots ==
  ASSUME ReaderInv, NEW a \in 1..Len(buf)+1, NEW b \in 0..Len(buf), \A k \in a..b : buf[k] # "."
  PROVE  EndFree(base + a, base + b)
<1>w. text \in Seq(STRING) /\ Len(buf) \in Nat /\ base \in Nat
  BY Window
<1>1. SUFFICES ASSUME NEW e \in E, base + a <= e, e <= base + b PROVE FALSE
  BY DEF EndFree
<1>2. e \in Nat
  BY <1>w, EndIs
<1> DEFINE k == e - base
<1>3. k \in a..b /\ k \in 1..Len(buf) /\ e = base + k
  BY <1>1, <1>2, <1>w
<1> HIDE DEF k
<1> QED
  BY <1>1, <1>3, EndSeen

---------------------------------------------------------------------------
(* The scan loop follows the lexer.                                        *)

\* proc's state s agrees with the lexer's at t.
TracksIn(s, t) ==
  /\ s = "free"    => \/ At(t-1) = "free"
                      \/ At(t-1) = "q2" /\ t <= Len(buf) /\ buf[t] # Quote
  /\ s = "angles"  => At(t-1) = "angles"
  /\ s = "quotes"  => \/ At(t-1) = "quote"
                      \/ At(t-1) = "q1" /\ t <= Len(buf) /\ buf[t] # Quote
  /\ s = "long"    => At(t-1) = "long"
  /\ s = "comment" => At(t-1) = "comment"

\* A token, or a separator, from p to q is one for the lexer too.
Follows(p, s, q) ==
  /\ tp' = q /\ st' = s
  /\ UNCHANGED <<input, buf, bsz, sp, pc, out>>
  /\ q \in p+1..Len(buf)+1
  /\ TracksIn(s, q)
  /\ EndFree(base + p, base + q - 1)

LEMMA AtFound ==
  ASSUME ReaderInv, Tracks, NEW p \in tp..Len(buf), Found(p)
  PROVE  /\ p \in 1..Len(buf) /\ p \in Nat /\ Hit(p)
         /\ InMode(p)
         /\ EndFree(base + tp, base + p - 1)
         /\ At(p) = Stream!LexStep(At(p-1), buf[p])
<1>w. tp \in Nat /\ tp >= 1 /\ Len(buf) \in Nat
  BY Window
<1>1. p \in 1..Len(buf) /\ p \in tp..Len(buf)+1
  BY <1>w
<1>2. Hit(p) /\ Reached(p)
  BY <1>1 DEF Found, Reached
<1> QED
  BY <1>1, <1>2, Stretch, StretchEndFree, Seen

\* One character that is no full stop.
LEMMA OneOn ==
  ASSUME ReaderInv, NEW p \in 1..Len(buf), buf[p] # ".", NEW s, Advance(p + 1, s),
         TracksIn(s, p + 1)
  PROVE  Follows(p, s, p + 1)
<1>1. Len(buf) \in Nat /\ base \in Nat /\ p + 1 \in p+1..Len(buf)+1 /\ base + (p + 1) - 1 = base + p
  BY Window
<1>2. p \in 1..Len(buf)+1 /\ p \in 0..Len(buf) /\ \A k \in p..p : buf[k] # "."
  BY <1>1
<1>3. EndFree(base + p, base + p)
  BY <1>2, NoDots
<1> QED
  BY <1>1, <1>3 DEF Follows, Advance

LEMMA FreeFound ==
  ASSUME ReaderInv, Tracks, NEW p \in tp..Len(buf), Found(p), st = "free"
  PROVE  /\ At(p-1) \in {"free", "fesc", "q2"}
         /\ At(p-1) = "q2" => buf[p] # Quote
         /\ ~Escaped(p) /\ buf[p] = Quote => At(p-1) = "free"
         /\ Escaped(p) => At(p-1) = "fesc"
<1>1. FreeAt(p)
  BY AtFound DEF InMode
<1> QED
  BY <1>1 DEF FreeAt

LEMMA MarkupFollows ==
  ASSUME ReaderInv, Tracks, NEW p \in tp..Len(buf), Found(p),
         Separator(p) \/ OpenAngle(p) \/ CloseAngle(p) \/ Hash(p) \/ Newline(p)
  PROVE  \E s, q : Follows(p, s, q)
<1>w. p \in 1..Len(buf) /\ Hit(p) /\ InMode(p) /\ At(p) = Stream!LexStep(At(p-1), buf[p])
      /\ (p + 1) - 1 = p
  BY AtFound
<1>1. ASSUME NEW c, NEW m, buf[p] = c, c \notin {".", Quote, Backslash}, st = "free", Advance(p + 1, m),
             m = IF c = "<" THEN "angles" ELSE IF c = "#" THEN "comment" ELSE "free"
      PROVE  Follows(p, m, p + 1)
  <2>1. At(p) = m
    BY <1>1, <1>w, FreeFound, OutsideSteps
  <2>2. TracksIn(m, p + 1)
    BY <1>1, <1>w, <2>1 DEF TracksIn
  <2> QED
    BY <1>1, <1>w, <2>2, OneOn
<1>2. CASE Separator(p)
  <2>1. buf[p] \in {",", ";"} /\ st = "free" /\ Advance(p + 1, "free")
    BY <1>2, SepsAssumption DEF Separator
  <2> QED
    BY <1>1, <2>1 DEF Quote, Backslash
<1>3. CASE OpenAngle(p)
  BY <1>1, <1>3 DEF OpenAngle, Quote, Backslash
<1>4. CASE Hash(p)
  BY <1>1, <1>4 DEF Hash, Quote, Backslash
<1>5. CASE CloseAngle(p)
  <2>1. buf[p] = ">" /\ At(p-1) = "angles" /\ Advance(p + 1, "free")
    BY <1>5, <1>w, HitIs DEF CloseAngle, InMode
  <2>2. TracksIn("free", p + 1)
    BY <1>w, <2>1, MarkupSteps DEF TracksIn
  <2>3. Follows(p, "free", p + 1)
    BY <1>w, <2>1, <2>2, OneOn
  <2> QED
    BY <2>3
<1>6. CASE Newline(p)
  <2>1. buf[p] = "\n" /\ At(p-1) = "comment" /\ Advance(p + 1, "free")
    BY <1>6, <1>w, HitIs DEF Newline, InMode
  <2>2. TracksIn("free", p + 1)
    BY <1>w, <2>1, MarkupSteps DEF TracksIn
  <2>3. Follows(p, "free", p + 1)
    BY <1>w, <2>1, <2>2, OneOn
  <2> QED
    BY <2>3
<1> QED
  BY <1>2, <1>3, <1>4, <1>5, <1>6

LEMMA EscapedFollows ==
  ASSUME ReaderInv, Tracks, NEW p \in tp..Len(buf), Found(p), EscapedQuote(p)
  PROVE  Follows(p, st, p + 1)
<1>w. p \in 1..Len(buf) /\ Hit(p) /\ InMode(p) /\ At(p) = Stream!LexStep(At(p-1), buf[p])
      /\ (p + 1) - 1 = p
  BY AtFound
<1>1. buf[p] = Quote /\ Escaped(p) /\ Advance(p + 1, st) /\ buf[p] # "."
  BY DEF EscapedQuote, Quote
<1>2. st \in {"free", "quotes", "long"}
  <2>1. buf[p] # ">" /\ buf[p] # "\n"
    BY <1>1 DEF Quote
  <2> QED
    BY <1>w, <2>1, HitIs, Window DEF States
<1>3. TracksIn(st, p + 1)
  <2>1. CASE st = "free"
    <3>1. At(p) = "free"
      BY <1>w, <1>1, <2>1, FreeFound, EscapedSteps
    <3> QED
      BY <1>w, <2>1, <3>1 DEF TracksIn
  <2>2. CASE st = "quotes"
    <3>1. At(p) = "quote"
      BY <1>w, <1>1, <2>2, EscapedSteps DEF InMode, QuotesAt
    <3> QED
      BY <1>w, <2>2, <3>1 DEF TracksIn
  <2>3. CASE st = "long"
    <3>1. At(p) = "long"
      BY <1>w, <1>1, <2>3, EscapedSteps DEF InMode, LongAt
    <3> QED
      BY <1>w, <2>3, <3>1 DEF TracksIn
  <2> QED
    BY <1>2, <2>1, <2>2, <2>3
<1> QED
  BY <1>w, <1>1, <1>3, OneOn

\* A quote that opens a literal.
LEMMA OpeningFollows ==
  ASSUME ReaderInv, Tracks, NEW p \in tp..Len(buf), Found(p),
         OpenQuote(p) \/ EmptyQuote(p) \/ OpenLong(p)
  PROVE  \E s, q : Follows(p, s, q)
<1>w. /\ p \in 1..Len(buf) /\ p \in Nat /\ Len(buf) \in Nat /\ base \in Nat
      /\ At(p) = Stream!LexStep(At(p-1), buf[p]) /\ (p + 1) - 1 = p /\ (p + 2) - 1 = p + 1 /\ (p + 3) - 1 = p + 2
  BY AtFound, Window
<1>1. buf[p] = Quote /\ ~Escaped(p) /\ st = "free"
  BY DEF OpenQuote, EmptyQuote, OpenLong, PlainQuote
<1>2. At(p-1) = "free"
  BY <1>1, FreeFound
<1>d. Quote # "." /\ Quote # "" /\ Quote # Backslash
  BY DEF Quote, Backslash
<1>3. At(p) = "q1"
  BY <1>w, <1>1, <1>2, OutsideSteps
<1>4. CASE OpenQuote(p)
  <2>1. p + 1 <= Len(buf) /\ buf[p+1] # Quote /\ Advance(p + 1, "quotes")
    BY <1>4 DEF OpenQuote, After
  <2>2. TracksIn("quotes", p + 1)
    BY <1>w, <1>3, <2>1 DEF TracksIn
  <2>3. Follows(p, "quotes", p + 1)
    BY <1>d, <1>w, <1>1, <2>1, <2>2, OneOn
  <2> QED
    BY <2>3
<1>5. CASE EmptyQuote(p) \/ OpenLong(p)
  <2>0. After(p, 1) = Quote /\ After(p, 2) # ""
    BY <1>5, <1>d DEF EmptyQuote, OpenLong
  <2>a. p + 1 <= Len(buf) /\ buf[p+1] = Quote
    BY <1>d, <2>0 DEF After
  <2>b. p + 2 <= Len(buf)
    BY <2>0 DEF After
  <2>c. buf[p+2] = After(p, 2)
    BY <2>b, Zenon DEF After
  <2>1. p + 1 \in 1..Len(buf) /\ buf[p+1] = Quote /\ p + 2 \in 1..Len(buf)
    BY <1>w, <2>a, <2>b
  <2>2. At(p + 1) = "q2"
    BY <1>w, <1>3, <2>1, Seen, QuoteSteps
  <2>3. CASE EmptyQuote(p)
    <3>1. buf[p+2] # Quote /\ Advance(p + 2, "free")
      BY <1>1, <2>c, <2>3 DEF EmptyQuote
    <3>2. TracksIn("free", p + 2)
      BY <1>w, <2>1, <2>2, <3>1 DEF TracksIn
    <3>a. p + 1 \in 0..Len(buf) /\ p \in 1..Len(buf)+1 /\ \A k \in p..p+1 : k = p \/ k = p + 1
      BY <1>w, <2>1
    <3>3. p + 1 \in 0..Len(buf) /\ p \in 1..Len(buf)+1 /\ \A k \in p..p+1 : buf[k] # "."
      BY <1>d, <1>1, <2>1, <3>a
    <3>4. EndFree(base + p, base + (p + 1))
      BY <3>3, NoDots
    <3>5. base + (p + 1) = base + (p + 2) - 1 /\ p + 2 \in p+1..Len(buf)+1
      BY <1>w, <2>1
    <3>6. Follows(p, "free", p + 2)
      BY <3>1, <3>2, <3>4, <3>5 DEF Follows, Advance
    <3> QED
      BY <3>6
  <2>4. CASE OpenLong(p)
    <3>1. buf[p+2] = Quote /\ Advance(p + 3, "long")
      BY <2>c, <2>4 DEF OpenLong
    <3>2. At(p + 2) = "long"
      BY <1>w, <2>1, <2>2, <3>1, Seen, QuoteSteps
    <3>3. TracksIn("long", p + 3)
      BY <1>w, <3>2 DEF TracksIn
    <3>a. /\ p + 2 \in 0..Len(buf) /\ p \in 1..Len(buf)+1
          /\ \A k \in p..p+2 : k = p \/ k = p + 1 \/ k = p + 2
      BY <1>w, <2>1
    <3>4. p + 2 \in 0..Len(buf) /\ p \in 1..Len(buf)+1 /\ \A k \in p..p+2 : buf[k] # "."
      BY <1>d, <1>1, <2>1, <3>1, <3>a
    <3>5. EndFree(base + p, base + (p + 2))
      BY <3>4, NoDots
    <3>6. base + (p + 2) = base + (p + 3) - 1 /\ p + 3 \in p+1..Len(buf)+1
      BY <1>w, <2>1
    <3>7. Follows(p, "long", p + 3)
      BY <3>1, <3>3, <3>5, <3>6 DEF Follows, Advance
    <3> QED
      BY <3>7
  <2> QED
    BY <1>5, <2>3, <2>4
<1> QED
  BY <1>4, <1>5

\* A quote that closes one.
LEMMA ClosingFollows ==
  ASSUME ReaderInv, Tracks, NEW p \in tp..Len(buf), Found(p), CloseQuote(p) \/ CloseLong(p)
  PROVE  \E s, q : Follows(p, s, q)
<1>w. /\ p \in 1..Len(buf) /\ p \in Nat /\ Len(buf) \in Nat /\ base \in Nat /\ tp \in Nat
      /\ At(p) = Stream!LexStep(At(p-1), buf[p]) /\ (p + 1) - 1 = p /\ (p + 2) - 1 = p + 1 /\ (p + 3) - 1 = p + 2
      /\ Hit(p) /\ InMode(p)
  BY AtFound, Window
<1>1. buf[p] = Quote /\ ~Escaped(p)
  BY DEF CloseQuote, CloseLong, PlainQuote
<1>d. Quote # "." /\ Quote # Backslash
  BY DEF Quote, Backslash
<1>2. CASE CloseQuote(p)
  <2>1. st = "quotes" /\ Advance(p + 1, "free")
    BY <1>2 DEF CloseQuote
  <2>2. At(p - 1) = "quote"
    BY <1>w, <1>1, <2>1 DEF InMode, QuotesAt
  <2>3. At(p) = "free"
    BY <1>w, <1>1, <2>2, QuoteSteps
  <2>4. TracksIn("free", p + 1)
    BY <1>w, <2>3 DEF TracksIn
  <2>5. Follows(p, "free", p + 1)
    BY <1>d, <1>w, <1>1, <2>1, <2>4, OneOn
  <2> QED
    BY <2>5
<1>3. CASE CloseLong(p)
  <2>1. st = "long" /\ Advance(p + 3, "free")
    BY <1>3 DEF CloseLong
  <2>2. p + 2 <= Len(buf) /\ \A k \in p..p+2 : buf[k] = Quote
    BY <1>w, <2>1, HitIs
  <2>3. ASSUME p - 1 >= tp, buf[p-1] = Quote PROVE FALSE
    <3>1. p - 1 \in tp..p-1 /\ (p - 1) + 2 <= Len(buf)
          /\ \A k \in p-1..(p-1)+2 : k = p - 1 \/ k \in p..p+2
      BY <1>w, <2>2, <2>3
    <3>2. Hit(p - 1)
      BY <2>1, <2>2, <2>3, <3>1, HitIs
    <3> QED
      BY <3>1, <3>2 DEF Found
  <2>4. At(p - 1) = "long"
    BY <1>w, <1>1, <2>1, <2>3 DEF InMode, LongAt
  <2>5. p + 1 \in 1..Len(buf) /\ p + 2 \in 1..Len(buf) /\ buf[p+1] = Quote /\ buf[p+2] = Quote
    BY <1>w, <2>2
  <2>6. At(p) = "l1"
    BY <1>w, <1>1, <2>4, LongSteps
  <2>7. At(p + 1) = "l2"
    BY <1>w, <2>5, <2>6, Seen, LongSteps
  <2>8. At(p + 2) = "free"
    BY <1>w, <2>5, <2>7, Seen, LongSteps
  <2>9. TracksIn("free", p + 3)
    BY <1>w, <2>8 DEF TracksIn
  <2>10. p + 2 \in 0..Len(buf) /\ p \in 1..Len(buf)+1 /\ \A k \in p..p+2 : buf[k] # "."
    BY <1>d, <1>w, <2>2
  <2>11. EndFree(base + p, base + (p + 2))
    BY <2>10, NoDots
  <2>12. base + (p + 2) = base + (p + 3) - 1 /\ p + 3 \in p+1..Len(buf)+1
    BY <1>w, <2>2
  <2>13. Follows(p, "free", p + 3)
    BY <2>1, <2>9, <2>11, <2>12 DEF Follows, Advance
  <2> QED
    BY <2>13
<1> QED
  BY <1>2, <1>3

LEMMA TokenFollows ==
  ASSUME ReaderInv, Tracks, NEW p \in tp..Len(buf), Found(p), Separator(p) \/ Token(p)
  PROVE  \E s, q : Follows(p, s, q)
  BY MarkupFollows, EscapedFollows, OpeningFollows, ClosingFollows DEF Token

---------------------------------------------------------------------------
(* The statements of the text.                                             *)

\* The statement that ends at e starts where the white space behind the end
\* before it does.
LEMMA StatementFrom ==
  ASSUME text \in Seq(STRING), NEW e \in E, NEW s \in 1..e, EndFree(s, e - 1),
         StartsAfter(s - 1), text[s] \notin White
  PROVE  Stream!StatementAt(text, e) = SubSeq(text, s, e)
<1> DEFINE before      == {0} \cup {f \in Stream!Ends(text) : f < e}
           last(f)     == f \in before /\ \A g \in before : g <= f
           prev        == CHOOSE f \in before : \A g \in before : g <= f
           start(i)    == /\ text[i] \notin Stream!White
                          /\ \A j \in prev+1..i-1 : text[j] \in Stream!White
<1>w. e \in Nat /\ s \in Nat /\ s >= 1 /\ s <= e
  BY EndIs
<1>1. Stream!StatementAt(text, e) = SubSeq(text, CHOOSE i \in prev+1..e : start(i), e)
  BY DEF Stream!StatementAt
<1>2. \A f : f \in before <=> f = 0 \/ (f \in E /\ f < e)
  BY DEF E
<1> HIDE DEF before
<1>n. \A f \in before : f \in Nat /\ f <= e
  <2>1. \A f \in E : f \in Nat
    BY EndIs
  <2>2. SUFFICES ASSUME NEW f \in before PROVE f \in Nat /\ f <= e
    OBVIOUS
  <2>3. CASE f = 0
    BY <1>w, <2>3
  <2>4. CASE f \in E /\ f < e
    BY <1>w, <2>1, <2>4
  <2> QED
    BY <1>2, <2>3, <2>4
<1>3. \E f \in before : \A g \in before : g <= f
  <2> DEFINE U == {e - f : f \in before}
  <2>1. \A f \in before : f \in Nat /\ f <= e /\ e - f \in Nat
    BY <1>n, <1>w
  <2>2. U \subseteq Nat /\ U # {}
    BY <1>2, <2>1
  <2> HIDE DEF U
  <2>3. PICK u \in U : \A v \in U : u <= v
    BY <2>2, LeastOf
  <2>4. PICK f \in before : u = e - f
    BY DEF U
  <2>5. \A g \in before : u <= e - g
    BY <2>3 DEF U
  <2> QED
    BY <1>w, <2>1, <2>4, <2>5
<1>4. prev \in before /\ \A g \in before : g <= prev
  BY <1>3
<1> HIDE DEF prev
<1>5. prev \in Nat /\ prev <= s - 1
  <2>1. ASSUME prev \in E, prev < e PROVE prev <= s - 1
    <3>1. ~(s <= prev /\ prev <= e - 1)
      BY <2>1 DEF EndFree
    <3> QED
      BY <1>w, <2>1, <3>1, EndIs
  <2>2. prev = 0 \/ (prev \in E /\ prev < e)
    BY <1>2, <1>4
  <2>3. prev \in Nat
    BY <1>4, <1>n
  <2>4. CASE prev = 0
    BY <1>w, <2>4
  <2> QED
    BY <2>1, <2>2, <2>3, <2>4
<1>6. \A j \in prev+1..s-1 : text[j] \in White
  <2>1. SUFFICES ASSUME NEW j \in prev+1..s-1 PROVE text[j] \in White
    OBVIOUS
  <2>2. EndFree(j, s - 1)
    <3>1. SUFFICES ASSUME NEW f \in E, j <= f, f <= s - 1 PROVE FALSE
      BY DEF EndFree
    <3>2. f \in Nat /\ f < e
      BY <1>w, <3>1, EndIs
    <3>3. f <= prev
      BY <1>2, <1>4, <3>2
    <3> QED
      BY <1>5, <2>1, <3>1, <3>2, <3>3
  <2>3. j \in 1..s-1
    BY <1>5, <1>w, <2>1
  <2> QED
    BY <2>2, <2>3 DEF StartsAfter
<1>7. Stream!White = White
  BY DEF Stream!White, White
<1>8. s \in prev+1..e /\ start(s)
  BY <1>5, <1>6, <1>7, <1>w
<1>9. ASSUME NEW i \in prev+1..e, start(i) PROVE i = s
  <2>1. ASSUME i < s PROVE FALSE
    <3>1. i \in prev+1..s-1
      BY <1>5, <1>w, <2>1
    <3> QED
      BY <1>6, <1>7, <1>9, <3>1
  <2>2. ASSUME s < i PROVE FALSE
    <3>1. s \in prev+1..i-1
      BY <1>5, <1>w, <2>2
    <3> QED
      BY <1>7, <1>9, <3>1
  <2> QED
    BY <1>5, <1>w, <2>1, <2>2
<1>10. (CHOOSE i \in prev+1..e : start(i)) = s
  <2> DEFINE r == CHOOSE i \in prev+1..e : start(i)
  <2> HIDE DEF start
  <2>1. r \in prev+1..e /\ start(r)
    BY <1>8
  <2> HIDE DEF r
  <2>2. r = s
    BY <1>9, <2>1
  <2> QED
    BY <2>2 DEF r
<1> QED
  BY <1>1, <1>10

\* As many statements end up to e as its number says.
LEMMA NthStatement ==
  ASSUME text \in Seq(STRING)
  PROVE  /\ IsFiniteSet(E) /\ Cardinality(E) \in Nat
         /\ Len(Stream!Statements(text)) = Cardinality(E)
         /\ \A e \in E :
              /\ Cardinality(Before(e)) \in 1..Cardinality(E)
              /\ Stream!Statements(text)[Cardinality(Before(e))] = Stream!StatementAt(text, e)
<1>1. E \subseteq 1..Len(text) /\ Len(text) \in Int
  BY EndIs, LenProperties
<1>2. IsFiniteSet(1..Len(text))
  BY <1>1, FS_Interval
<1>3. IsFiniteSet(E) /\ Cardinality(E) \in Nat
  BY <1>1, <1>2, FS_Subset, FS_CardinalityType
<1> DEFINE nth(k) == CHOOSE e \in E : Cardinality(Before(e)) = k
<1>4. Stream!Statements(text) = [k \in 1..Cardinality(E) |-> Stream!StatementAt(text, nth(k))]
  BY Zenon DEF Stream!Statements, E, Before, Stream!Cardinality, Cardinality
<1>5. Len(Stream!Statements(text)) = Cardinality(E)
  BY <1>3, <1>4
<1>6. ASSUME NEW d \in E, NEW e \in E, d < e PROVE Cardinality(Before(d)) # Cardinality(Before(e))
  <2>1. d \in Int /\ e \in Int /\ \A f \in E : f \in Int
    BY EndIs
  <2>2. /\ \A f : f \in Before(d) <=> f \in E /\ f <= d
        /\ \A f : f \in Before(e) <=> f \in E /\ f <= e
        /\ IsFiniteSet(Before(e))
    BY <2>1, BeforeIs
  <2>3. \A f \in E : f <= d => f <= e
    BY <1>6, <2>1
  <2>4. Before(d) \in SUBSET Before(e)
    BY <2>2, <2>3, Zenon
  <2>5. e <= e /\ ~(e <= d)
    BY <1>6, <2>1
  <2>6. Before(d) # Before(e)
    BY <2>2, <2>5, Zenon
  <2> QED
    BY <2>2, <2>4, <2>6, FS_Subset
<1>7. ASSUME NEW e \in E PROVE nth(Cardinality(Before(e))) = e
  <2> DEFINE r == nth(Cardinality(Before(e)))
  <2>1. r \in E /\ Cardinality(Before(r)) = Cardinality(Before(e))
    BY Zenon
  <2> HIDE DEF r
  <2>2. ~(r < e) /\ ~(e < r)
    BY <1>6, <2>1
  <2>3. r \in Nat /\ e \in Nat
    BY <2>1, EndIs
  <2>4. r = e
    BY <2>2, <2>3
  <2> QED
    BY <2>4 DEF r
<1>8. ASSUME NEW e \in E PROVE Cardinality(Before(e)) \in 1..Cardinality(E)
  <2>1. e \in Int /\ e <= e
    BY EndIs
  <2>2. /\ e \in Before(e) /\ Before(e) \in SUBSET E
        /\ IsFiniteSet(Before(e)) /\ Cardinality(Before(e)) \in Nat
    BY <2>1, BeforeIs
  <2>3. Cardinality(Before(e)) <= Cardinality(E)
    BY <1>3, <2>2, FS_Subset
  <2>4. Cardinality(Before(e)) # 0
    BY <2>2, FS_EmptySet
  <2> QED
    BY <1>3, <2>2, <2>3, <2>4
<1> HIDE DEF nth
<1>9. ASSUME NEW e \in E
      PROVE  Stream!Statements(text)[Cardinality(Before(e))] = Stream!StatementAt(text, e)
  BY <1>4, <1>7, <1>8
<1> QED
  BY <1>3, <1>5, <1>8, <1>9

---------------------------------------------------------------------------
(* A full stop that is found is the end of the next statement.             *)

LEMMA ScannedSoFar ==
  ASSUME StreamInv, Scanning, NEW p \in tp..Len(buf), Found(p)
  PROVE  EndFree(passed + 1, base + p - 1)
<1>1. /\ ReaderInv /\ Tracks /\ text \in Seq(STRING) /\ base \in Nat /\ tp \in Nat /\ p \in Nat
      /\ sp \in Nat /\ passed \in Int
  BY AtFound, Window DEF StreamInv, Tracking, passed
<1>2. EndFree(passed + 1, base + tp - 1)
  BY DEF StreamInv, Tally, Running, Scanning
<1>3. EndFree(base + tp, base + p - 1)
  BY <1>1, AtFound
<1>4. (base + tp - 1) + 1 = base + tp /\ base + tp - 1 \in Int /\ base + p - 1 \in Int /\ passed + 1 \in Int
  BY <1>1
<1> HIDE DEF base, passed
<1> QED
  BY <1>1, <1>2, <1>3, <1>4, EndFreeJoin

LEMMA DotEnds ==
  ASSUME StreamInv, Scanning, NEW p \in tp..Len(buf), Found(p), Dot(p)
  PROVE  /\ base + p \in E /\ passed < base + p /\ At(p) = "free" /\ pc = "scan"
         /\ Before(base + p) = Before(passed) \cup {base + p}
         /\ Cardinality(Before(base + p)) = Len(out) + 1
         /\ Len(out) < Len(Stream!Statements(text))
         /\ SubSeq(buf, sp, p) = Stream!Statements(text)[Len(out) + 1]
<1>w. /\ ReaderInv /\ Tracks /\ text \in Seq(STRING) /\ base \in Nat /\ tp \in Nat /\ p \in Nat
      /\ sp \in Nat /\ sp >= 1 /\ sp <= tp /\ tp <= p /\ p <= Len(buf) /\ p \in 1..Len(buf) /\ Len(buf) \in Nat
      /\ passed = base + sp - 1 /\ passed \in Int /\ nread = base + Len(buf) /\ nread <= Len(text)
      /\ Len(text) \in Nat
  BY AtFound, Window DEF StreamInv, Tracking, passed
<1>1. buf[p] = "." /\ st = "free"
  BY DEF Dot
<1>2. At(p-1) \in {"free", "fesc", "q2"} /\ At(p) = Stream!LexStep(At(p-1), buf[p])
  BY <1>w, <1>1, FreeFound, AtFound
<1>3. At(p) = "free"
  BY <1>1, <1>2, OutsideSteps DEF Quote, Backslash
<1>4. base + p \in E
  BY <1>w, <1>1, <1>2, EndSeen
<1>5. passed < base + p /\ EndFree(passed + 1, base + p - 1)
  BY <1>w, ScannedSoFar
<1>6. pc = "scan"
  <2>1. SUFFICES ASSUME pc = "last" PROVE FALSE
    BY DEF Scanning
  <2>2. EndFree(passed + 1, nread)
    BY <2>1 DEF StreamInv, Tally
  <2>3. passed + 1 <= base + p /\ base + p <= nread
    BY <1>w
  <2> QED
    BY <1>4, <2>2, <2>3 DEF EndFree
<1>7. Len(out) = Cardinality(Before(passed)) /\ StartsAfter(passed) /\ buf[sp] \notin White
  BY <1>w DEF StreamInv, Tally, Starts, Running, Scanning
<1>8. Before(base + p) = Before(passed) \cup {base + p}
      /\ Cardinality(Before(base + p)) = Len(out) + 1
  <2>1. ASSUME NEW e, e = base + p
        PROVE  Before(e) = Before(passed) \cup {e} /\ Cardinality(Before(e)) = Len(out) + 1
    <3>1. e \in E
      BY <1>4, <2>1
    <3>2. passed < e /\ e - 1 = base + p - 1
      BY <1>5, <1>w, <2>1
    <3>3. EndFree(passed + 1, e - 1)
      BY <1>5, <3>2
    <3> HIDE DEF base, passed
    <3> QED
      BY <1>w, <1>7, <3>1, <3>2, <3>3, BeforeOneMore
  <2> QED
    BY <2>1
<1>9. Stream!StatementAt(text, base + p) = SubSeq(text, base + sp, base + p)
  <2>1. ASSUME NEW e, e = base + p, NEW s, s = base + sp
        PROVE  Stream!StatementAt(text, e) = SubSeq(text, s, e)
    <3>1. e \in E /\ s \in 1..e /\ s - 1 = passed /\ s = passed + 1 /\ e - 1 = base + p - 1
      BY <1>4, <1>w, <2>1
    <3>2. EndFree(s, e - 1) /\ StartsAfter(s - 1)
      BY <1>5, <1>7, <3>1
    <3>3. text[s] \notin White
      <4>1. sp \in 1..Len(buf)
        BY <1>w
      <4> QED
        BY <1>w, <1>7, <2>1, <4>1, Seen
    <3> QED
      BY <1>w, <3>1, <3>2, <3>3, StatementFrom
  <2> QED
    BY <2>1
<1>10. SubSeq(buf, sp, p) = SubSeq(text, base + sp, base + p)
  <2> DEFINE first == base + 1
  <2>1. buf = SubSeq(text, first, nread)
    BY DEF StreamInv, ReaderInv, Contiguous, base
  <2>2. /\ first \in 1..Len(text) /\ nread \in 1..Len(text)
        /\ sp \in 1..nread-first+1 /\ p \in 1..nread-first+1
        /\ first + sp - 1 = base + sp /\ first + p - 1 = base + p
    BY <1>w
  <2> HIDE DEF first, base
  <2>3. SubSeq(SubSeq(text, first, nread), sp, p) = SubSeq(text, first + sp - 1, first + p - 1)
    BY ONLY <1>w, <2>2, SubSeqOfSubSeq
  <2> QED
    BY <2>1, <2>2, <2>3
<1>11. /\ Len(Stream!Statements(text)) = Cardinality(E) /\ Cardinality(E) \in Nat
       /\ Cardinality(Before(base + p)) \in 1..Cardinality(E)
       /\ Stream!Statements(text)[Cardinality(Before(base + p))] = Stream!StatementAt(text, base + p)
  BY <1>4, <1>w, NthStatement
<1>12. SubSeq(buf, sp, p) = Stream!Statements(text)[Len(out) + 1]
  BY <1>8, <1>9, <1>10, <1>11
<1>13. Len(out) < Len(Stream!Statements(text))
  <2>1. Len(out) \in Nat
    BY LenProperties DEF StreamInv, ReaderInv, TypeOK
  <2> QED
    BY <1>8, <1>11, <2>1
<1> QED
  BY <1>3, <1>4, <1>5, <1>6, <1>8, <1>12, <1>13

\* What is too short to tell which literal it opens is one or two quotes.
LEMMA OnlyQuotes ==
  ASSUME ReaderInv, text \in Texts, NEW p \in 1..Len(buf), CutShort(p)
  PROVE  \A k \in p..Len(buf) : buf[k] = Quote
<1>w. text \in Seq(STRING) /\ base \in Nat /\ Len(buf) \in Nat /\ p \in Nat
  BY Window
<1>2. buf[p] = Quote /\ (After(p, 1) = "" \/ (After(p, 1) = Quote /\ After(p, 2) = ""))
  BY DEF CutShort, PlainQuote
<1>3. ASSUME NEW k \in 1..Len(buf) PROVE buf[k] # ""
  <2>1. base + k \in 1..Len(text) /\ buf[k] = text[base + k]
    BY Seen
  <2>2. \A i \in 1..Len(text) : text[i] # ""
    BY NoNul
  <2> HIDE DEF base
  <2> QED
    BY <2>1, <2>2
<1>4. ASSUME NEW n \in {1, 2}, After(p, n) = "" PROVE p + n > Len(buf)
  <2>1. SUFFICES ASSUME p + n <= Len(buf) PROVE FALSE
    BY <1>w
  <2>2. buf[p+n] = ""
    BY <1>4, <2>1, Zenon DEF After
  <2>3. p + n \in 1..Len(buf)
    BY <1>w, <2>1
  <2> QED
    BY <1>3, <2>2, <2>3
<1>5. CASE After(p, 1) = ""
  <2>1. p + 1 > Len(buf)
    BY <1>4, <1>5
  <2>2. \A k \in p..Len(buf) : k = p
    BY <1>w, <2>1
  <2> QED
    BY <1>2, <2>2
<1>6. CASE After(p, 1) = Quote /\ After(p, 2) = ""
  <2>1. p + 2 > Len(buf)
    BY <1>4, <1>6
  <2>2. \A k \in p..Len(buf) : k = p \/ k = p + 1
    BY <1>w, <2>1
  <2>3. p + 1 <= Len(buf) => buf[p+1] = Quote
    BY <1>6 DEF After
  <2>4. p + 1 \in p..Len(buf) => p + 1 <= Len(buf)
    BY <1>w
  <2> QED
    BY <1>2, <2>2, <2>3, <2>4
<1> QED
  BY <1>2, <1>5, <1>6

\* When proc() returns no end of a statement is left in the buffer.
LEMMA NothingLeft ==
  ASSUME StreamInv, Scanning, Returns
  PROVE  EndFree(passed + 1, nread)
<1>w. /\ ReaderInv /\ Tracks /\ text \in Seq(STRING) /\ base \in Nat /\ tp \in Nat /\ tp >= 1
      /\ sp \in Nat /\ tp <= Len(buf) + 1 /\ Len(buf) \in Nat /\ Len(text) \in Nat
      /\ passed \in Int /\ nread = base + Len(buf) /\ nread <= Len(text) /\ nread \in Int
  BY Window DEF StreamInv, Tracking, passed
<1>1. CASE NotFound
  <2>1. Reached(Len(buf) + 1)
    <3>1. (Len(buf) + 1) - 1 = Len(buf) /\ Len(buf) + 1 \in tp..Len(buf)+1
      BY <1>w
    <3> QED
      BY <1>1, <3>1 DEF NotFound, Reached
  <2>2. EndFree(base + tp, base + (Len(buf) + 1) - 1)
    BY <1>w, <2>1, StretchEndFree
  <2>3. base + (Len(buf) + 1) - 1 = nread /\ (base + tp - 1) + 1 = base + tp /\ base + tp - 1 \in Int
    BY <1>w
  <2>4. EndFree(passed + 1, base + tp - 1)
    BY DEF StreamInv, Tally, Running, Scanning
  <2>5. passed + 1 \in Int
    BY <1>w
  <2> HIDE DEF base, passed
  <2> QED
    BY <1>w, <2>2, <2>3, <2>4, <2>5, EndFreeJoin
<1>2. ASSUME NEW p \in tp..Len(buf), Found(p), CutShort(p) PROVE EndFree(passed + 1, nread)
  <2>1. EndFree(passed + 1, base + p - 1) /\ p \in Nat /\ p \in 1..Len(buf)
    BY <1>2, <1>w, AtFound, ScannedSoFar
  <2>4. \A k \in p..Len(buf) : buf[k] # "."
    <3>1. \A k \in p..Len(buf) : buf[k] = Quote
      BY <1>2, <1>w, <2>1, OnlyQuotes DEF StreamInv
    <3> QED
      BY <3>1 DEF Quote
  <2>5. EndFree(base + p, base + Len(buf))
    <3>1. p \in 1..Len(buf)+1 /\ Len(buf) \in 0..Len(buf)
      BY <1>w, <2>1
    <3> QED
      BY <1>w, <2>4, <3>1, NoDots
  <2>6. /\ (base + p - 1) + 1 = base + p /\ base + p - 1 \in Int /\ passed + 1 \in Int
        /\ base + Len(buf) = nread
    BY <1>w, <2>1
  <2> HIDE DEF base, passed
  <2> QED
    BY <1>w, <2>1, <2>5, <2>6, EndFreeJoin
<1> QED
  BY <1>1, <1>2 DEF Returns

---------------------------------------------------------------------------
(* The invariant holds.                                                    *)

\* Between two numbers without one between them nothing ends.
LEMMA NothingBetween ==
  ASSUME text \in Seq(STRING), NEW a \in Int, NEW b \in Int, b < a
  PROVE  EndFree(a, b)
<1>1. \A e \in E : e \in Nat
  BY EndIs
<1> QED
  BY <1>1 DEF EndFree

LEMMA StreamInit == Init => StreamInv
<1> SUFFICES ASSUME Init PROVE StreamInv
  OBVIOUS
<1>1. ReaderInv /\ text \in Texts /\ text \in Seq(STRING)
  BY ReaderInit, TextsAssumption DEF Init
<1>e. /\ Len(buf) = 0 /\ nread = 0 /\ sp = 1 /\ tp = 1 /\ pc = "read" /\ Len(out) = 0 /\ ~failed
  <2>1. buf = <<>> /\ out = <<>> /\ Len(<<>>) = 0
    BY EmptySeq DEF Init
  <2> QED
    BY <2>1 DEF Init
<1>2. /\ Len(buf) = 0 /\ nread = 0 /\ base = 0 /\ passed = 0 /\ sp = 1 /\ tp = 1
      /\ pc = "read" /\ Len(out) = 0 /\ ~failed
  BY <1>e DEF base, passed
<1>3. Mode[0] = "free"
  BY <1>1, Modes DEF Mode
<1>4. StartsAfter(passed)
  BY <1>2, <1>3 DEF StartsAfter
<1>5. Cardinality(Before(0)) = 0
  <2>1. IsFiniteSet(Before(0)) /\ \A e : e \in Before(0) <=> e \in E /\ e <= 0
    BY <1>1, BeforeIs
  <2>2. \A e \in E : ~(e <= 0)
    BY <1>1, EndIs
  <2>3. Before(0) = {}
    BY <2>1, <2>2, Zenon
  <2> QED
    BY <2>3, FS_EmptySet
<1>6. EndFree(1, 0)
  BY <1>1, NothingBetween
<1>7. Starts
  BY <1>2, <1>4 DEF Starts, Scanning
<1>8. Tally
  <2>1. passed + 1 = 1 /\ base + tp - 1 = 0
    BY <1>2
  <2> QED
    BY <1>2, <1>5, <1>6, <2>1 DEF Tally
<1> QED
  BY <1>1, <1>2, <1>7, <1>8 DEF StreamInv, Fresh, Tracking, Scanning, Through

\* What the parts of the invariant say of the next state.
LEMMA NextTracks ==
  ASSUME UNCHANGED <<text, nread, buf>>, NEW s, NEW q, st' = s, tp' = q, TracksIn(s, q)
  PROVE  Tracks'
  BY DEF TracksIn, Tracks, At, Mode, base

LEMMA NextStarts ==
  ASSUME text' = text, NEW a, passed' = a, StartsAfter(a),
         Scanning' /\ sp' <= Len(buf') => buf'[sp'] \notin White
  PROVE  Starts'
<1>1. Mode' = Mode /\ E' = E
  BY DEF Mode, E
<1>2. StartsAfter(passed)'
  BY <1>1 DEF StartsAfter, EndFree
<1> QED
  BY <1>2 DEF Starts

LEMMA NextTally ==
  ASSUME text' = text, NEW a, passed' = a, Len(out') = Cardinality(Before(a)),
         EndFree(a + 1, (base + tp - 1)'), pc' \in {"read", "last"} => EndFree(a + 1, nread'),
         pc' # "fini"
  PROVE  Tally'
<1>1. E' = E
  BY DEF E
<1>2. Before(passed)' = Before(a)
  BY <1>1 DEF Before
<1>3. EndFree(passed + 1, base + tp - 1)' /\ (pc' \in {"read", "last"} => EndFree(passed + 1, nread)')
  BY <1>1 DEF EndFree
<1> QED
  BY <1>2, <1>3 DEF Tally

\* One pass through the scan loop.
LEMMA ScanKeepsStream ==
  ASSUME StreamInv, Scan
  PROVE  StreamInv'
<1>1. PICK p \in tp..Len(buf) : Found(p) /\ (Dot(p) \/ Separator(p) \/ Token(p))
  BY DEF Scan
<1>w. /\ ReaderInv /\ Tracks /\ text \in Seq(STRING) /\ base \in Nat /\ tp \in Nat /\ p \in Nat
      /\ sp \in Nat /\ sp >= 1 /\ p <= Len(buf) /\ p \in 1..Len(buf) /\ Len(buf) \in Nat
      /\ passed = base + sp - 1 /\ passed \in Int /\ nread = base + Len(buf) /\ nread <= Len(text)
      /\ Len(text) \in Nat /\ Scanning /\ Running
  BY <1>1, AtFound, Window DEF StreamInv, Tracking, passed, Scan, Scanning, Running
<1>2. ReaderInv'
  BY <1>w, ScanKeepsInv
<1>3. StartsAfter(passed) /\ (sp <= Len(buf) => buf[sp] \notin White)
  BY <1>w DEF StreamInv, Starts
<1>4. Len(out) = Cardinality(Before(passed)) /\ (pc = "last" => EndFree(passed + 1, nread))
  BY <1>w DEF StreamInv, Tally
<1>5. ASSUME Separator(p) \/ Token(p) PROVE StreamInv'
  <2>1. PICK s, q : Follows(p, s, q)
    BY <1>1, <1>w, <1>5, TokenFollows
  <2>2. /\ tp' = q /\ st' = s /\ UNCHANGED <<text, nread, failed, buf, bsz, sp, pc, out>>
        /\ q \in p+1..Len(buf)+1 /\ TracksIn(s, q) /\ EndFree(base + p, base + q - 1)
    BY <2>1 DEF Follows, input
  <2>3. base' = base /\ passed' = passed
    BY <2>2 DEF base, passed
  <2>4. Tracks'
    BY <2>2, NextTracks
  <2>5. Starts'
    BY <1>3, <2>2, <2>3, NextStarts
  <2>6. EndFree(passed + 1, base + q - 1)
    <3>1. EndFree(passed + 1, base + p - 1)
      BY <1>1, <1>w, ScannedSoFar
    <3>2. (base + p - 1) + 1 = base + p /\ base + p - 1 \in Int /\ passed + 1 \in Int
          /\ base + q - 1 \in Int
      BY <1>w, <2>2
    <3> HIDE DEF base, passed
    <3> QED
      BY <1>w, <2>2, <3>1, <3>2, EndFreeJoin
  <2>7. Tally'
    <3>1. (base + tp - 1)' = base + q - 1 /\ pc' \notin {"read", "fini"} /\ nread' = nread
          /\ Len(out') = Cardinality(Before(passed)) /\ pc' = pc
      BY <1>4, <1>w, <2>2, <2>3 DEF Scanning
    <3> QED
      BY <1>4, <2>2, <2>3, <2>6, <3>1, NextTally
  <2> QED
    BY <1>2, <1>w, <2>2, <2>4, <2>5, <2>7
       DEF StreamInv, Fresh, Tracking, Through, Scanning
<1>6. ASSUME Dot(p) PROVE StreamInv'
  <2>1. PICK j \in p+1..Len(buf)+1 : Overread(buf, p+1, j) /\ sp' = j /\ tp' = j
    BY <1>6 DEF Dot
  <2>2. /\ UNCHANGED <<text, nread, failed, buf, bsz, st, pc>> /\ st = "free"
        /\ out' = Append(out, SubSeq(buf, sp, p))
    BY <1>6 DEF Dot, input
  <2>3. /\ base + p \in E /\ passed < base + p /\ At(p) = "free" /\ pc = "scan"
        /\ Cardinality(Before(base + p)) = Len(out) + 1
    BY <1>1, <1>6, <1>w, DotEnds
  <2>4. j \in Nat /\ base + p \in Nat /\ base + j - 1 \in base+p..Len(text) /\ base' = base
        /\ passed' = base + j - 1 /\ base + j - 1 \in Int /\ base + p <= base + j - 1
    BY <1>w, <2>1, <2>2 DEF base, passed
  <2>5. \A k \in base+p+1..base+j-1 : text[k] \in White
    <3>1. SUFFICES ASSUME NEW k \in base+p+1..base+j-1 PROVE text[k] \in White
      OBVIOUS
    <3>2. k - base \in p+1..j-1 /\ k - base \in 1..Len(buf) /\ base + (k - base) = k
      BY <1>w, <2>1, <3>1
    <3>3. buf[k - base] \in White
      BY <2>1, <3>2 DEF Overread
    <3> QED
      BY <1>w, <3>2, <3>3, Seen
  <2>6. Mode[base + j - 1] = "free" /\ EndFree((base + p) + 1, base + j - 1)
    <3>1. Mode[base + p] = "free" /\ \A k \in (base+p)+1..base+j-1 : text[k] \in White
      BY <2>3, <2>5 DEF At
    <3> HIDE DEF base
    <3> QED
      BY <1>w, <2>4, <3>1, WhiteGap
  <2>7. Before(base + j - 1) = Before(base + p)
    <3> HIDE DEF base
    <3> QED
      BY <1>w, <2>4, <2>6, BeforeSame
  <2>8. StartsAfter(base + j - 1)
    <3>1. ASSUME NEW i \in 1..base+j-1, EndFree(i, base + j - 1) PROVE text[i] \in White
      <4>1. ~(i <= base + p /\ base + p <= base + j - 1)
        BY <2>3, <3>1 DEF EndFree
      <4>2. i \in base+p+1..base+j-1
        BY <2>4, <4>1
      <4> QED
        BY <2>5, <4>2
    <3> QED
      BY <2>6, <3>1 DEF StartsAfter
  <2>9. Starts'
    <3>1. sp' <= Len(buf') => buf'[sp'] \notin White
      BY <2>1, <2>2 DEF Overread
    <3> QED
      BY <2>2, <2>4, <2>8, <3>1, NextStarts
  <2>10. Len(out') = Cardinality(Before(base + j - 1))
    <3>1. SubSeq(buf, sp, p) \in Seq(STRING) /\ out \in Seq(Seq(STRING))
      <4>1. buf \in Seq(STRING) /\ sp \in 1..Len(buf)+1 /\ p \in sp-1..Len(buf)
            /\ out \in Seq(Seq(STRING))
        BY <1>1, <1>w, Window DEF ReaderInv, TypeOK
      <4> QED
        BY <4>1, PartOf
    <3>2. Len(out') = Len(out) + 1
      BY <2>2, <3>1, AppendProperties
    <3> QED
      BY <2>3, <2>7, <3>2
  <2>11. Tally'
    <3>1. (base + tp - 1)' = base + j - 1 /\ pc' = "scan"
      BY <2>1, <2>2, <2>3, <2>4
    <3>2. EndFree((base + j - 1) + 1, base + j - 1)
      <4>1. (base + j - 1) + 1 \in Int /\ base + j - 1 < (base + j - 1) + 1
        BY <2>4
      <4> QED
        BY <1>w, <2>4, <4>1, NothingBetween
    <3> QED
      BY <2>2, <2>4, <2>10, <3>1, <3>2, NextTally
  <2>12. Tracks'
    <3>1. At(j - 1) = "free"
      <4>1. base + j - 1 = base + (j - 1)
        BY <2>4, <1>w
      <4> QED
        BY <2>6, <4>1 DEF At
    <3>2. TracksIn("free", j)
      BY <3>1 DEF TracksIn
    <3> QED
      BY <2>1, <2>2, <3>2, NextTracks
  <2> QED
    BY <1>2, <1>w, <2>2, <2>3, <2>9, <2>11, <2>12
       DEF StreamInv, Fresh, Tracking, Through, Scanning
<1> QED
  BY <1>1, <1>5, <1>6

\* What the buffer holds is the text.
Contents == \A p \in 1..Len(buf) : base + p \in 1..Len(text) /\ buf[p] = text[base + p]

LEMMA BufferIsText == ReaderInv => Contents
  BY Seen DEF Contents

LEMMA NextBufferIsText == ReaderInv' => Contents'
  BY BufferIsText, PTL

\* proc() starts on the buffer, behind the white space at its front.
LEMMA EnterKeepsStream ==
  ASSUME StreamInv, ReaderInv', pc = "read", text' = text, base' = base, out' = out,
         Len(buf') \in Nat, Enter(buf'), pc' \in {"scan", "last"},
         pc' = "last" => nread' = nread, nread' \in Int
  PROVE  Tracks' /\ Starts' /\ Tally'
<1>w. /\ ReaderInv /\ text \in Seq(STRING) /\ base \in Nat /\ Len(text) \in Nat
      /\ passed = base /\ passed \in Int /\ nread \in Int /\ sp = 1 /\ base <= Len(text)
  BY Window DEF StreamInv, Fresh, passed
<1>1. PICK j \in 1..Len(buf')+1 :
        Overread(buf', 1, j) /\ sp' = j /\ tp' = j /\ st' = "free"
  BY DEF Enter
<1>2. Contents'
  BY NextBufferIsText
<1>3. \A p \in 1..Len(buf') : base + p \in 1..Len(text) /\ buf'[p] = text[base + p]
  BY <1>2 DEF Contents
<1>4. /\ j \in Nat /\ base + j - 1 \in base..Len(text) /\ passed' = base + j - 1
      /\ base + j - 1 \in Int /\ base <= base + j - 1 /\ base' + (j - 1) = base + j - 1
  <2>1. j - 1 = 0 \/ j - 1 \in 1..Len(buf')
    BY <1>1
  <2>2. base + (j - 1) <= Len(text)
    BY <1>w, <1>3, <2>1, SMTT(30)
  <2> QED
    BY <1>w, <1>1, <2>2 DEF passed
<1>5. \A k \in base+1..base+j-1 : text[k] \in White
  <2>1. SUFFICES ASSUME NEW k \in base+1..base+j-1 PROVE text[k] \in White
    OBVIOUS
  <2>2. k - base \in 1..j-1 /\ k - base \in 1..Len(buf') /\ base + (k - base) = k
    BY <1>w, <1>1, <1>4, <2>1
  <2>3. buf'[k - base] \in White
    BY <1>1, <2>2 DEF Overread
  <2> QED
    BY <1>3, <2>2, <2>3
<1>6. StartsAfter(base) /\ Len(out) = Cardinality(Before(base)) /\ EndFree(base + 1, nread)
  BY <1>w DEF StreamInv, Starts, Tally, Running
<1>7. Mode[base + j - 1] = "free" /\ EndFree(base + 1, base + j - 1)
  <2>1. Mode[base] = "free"
    BY <1>6 DEF StartsAfter
  <2> HIDE DEF base
  <2> QED
    BY <1>w, <1>4, <1>5, <2>1, WhiteGap
<1>8. StartsAfter(base + j - 1)
  <2>1. ASSUME NEW i \in 1..base+j-1, EndFree(i, base + j - 1) PROVE text[i] \in White
    <3>1. CASE i \in base+1..base+j-1
      BY <1>5, <3>1
    <3>2. CASE i \in 1..base
      <4>1. EndFree(i, base)
        <5>1. i \in Int /\ i <= i
          BY <3>2
        <5> HIDE DEF base
        <5> QED
          BY <1>w, <1>4, <2>1, <5>1, EndFreePart
      <4> QED
        BY <1>6, <3>2, <4>1 DEF StartsAfter
    <3> QED
      BY <1>w, <1>4, <3>1, <3>2
  <2> QED
    BY <1>7, <2>1 DEF StartsAfter
<1>9. Starts'
  <2>1. sp' <= Len(buf') => buf'[sp'] \notin White
    BY <1>1 DEF Overread
  <2> QED
    BY <1>4, <1>8, <2>1, NextStarts
<1>10. Tally'
  <2>1. Len(out') = Cardinality(Before(base + j - 1))
    <3> HIDE DEF base
    <3>1. Before(base + j - 1) = Before(base)
      BY <1>w, <1>4, <1>7, BeforeSame
    <3> QED
      BY <1>6, <3>1
  <2>2. EndFree((base + j - 1) + 1, base + j - 1)
    <3>1. (base + j - 1) + 1 \in Int /\ base + j - 1 < (base + j - 1) + 1
      BY <1>4
    <3> QED
      BY <1>w, <1>4, <3>1, NothingBetween
  <2>3. (base + tp - 1)' = base + j - 1
    BY <1>1, <1>4
  <2>4. EndFree((base + j - 1) + 1, nread)
    <3>1. (base + j - 1) + 1 \in Int /\ base + 1 \in Int /\ base + 1 <= (base + j - 1) + 1
          /\ nread <= nread
      BY <1>w, <1>4
    <3> HIDE DEF base
    <3> QED
      BY <1>w, <1>6, <3>1, EndFreePart
  <2> QED
    BY <1>4, <2>1, <2>2, <2>3, <2>4, NextTally
<1>11. Tracks'
  <2>1. Mode' = Mode
    BY DEF Mode
  <2>2. At(tp - 1)' = "free" /\ st' = "free"
    BY <1>1, <1>4, <1>7, <2>1 DEF At
  <2> QED
    BY <2>2 DEF Tracks
<1> QED
  BY <1>9, <1>10, <1>11

LEMMA ReadKeepsStream ==
  ASSUME StreamInv, NEW n \in 1..Room, Read(n)
  PROVE  StreamInv'
<1>1. ReaderInv /\ ReaderInv'
  BY ReadKeepsInv DEF StreamInv
<1>2. /\ pc = "read" /\ pc' = "scan" /\ Enter(buf') /\ UNCHANGED <<text, failed, bsz, out>>
      /\ nread' = nread + n
  BY DEF Read
<1>3. Len(buf') = Len(buf) + n /\ Len(buf) \in Nat /\ nread \in Nat /\ n \in Int
      /\ buf \in Seq(STRING)
  <2>1. /\ text \in Seq(STRING) /\ Len(text) \in Nat /\ nread \in Nat /\ buf \in Seq(STRING)
        /\ Len(buf) \in Nat /\ bsz \in Nat
    BY <1>1, Window DEF ReaderInv, TypeOK
  <2>2. n \in Nat /\ nread + n <= Len(text)
    BY <2>1 DEF Read, Room
  <2>3. /\ SubSeq(text, nread + 1, nread + n) \in Seq(STRING)
        /\ Len(SubSeq(text, nread + 1, nread + n)) = n
    BY <2>1, <2>2, PartOf
  <2>4. buf' = buf \o SubSeq(text, nread + 1, nread + n)
    BY DEF Read
  <2> QED
    BY <2>1, <2>2, <2>3, <2>4, ConcatProperties
<1>4. base' = base /\ Len(buf') \in Nat /\ nread' \in Int
  <2>1. n \in Nat
    BY <1>3
  <2> QED
    BY <1>2, <1>3, <2>1 DEF base
<1>5. Tracks' /\ Starts' /\ Tally'
  BY <1>1, <1>2, <1>4, EnterKeepsStream
<1> QED
  BY <1>1, <1>2, <1>5 DEF StreamInv, Fresh, Tracking, Through

LEMMA EofKeepsStream ==
  ASSUME StreamInv, ReaderInv', Eof
  PROVE  StreamInv'
<1>1. /\ pc = "read" /\ pc' = "last" /\ Enter(buf') /\ UNCHANGED <<text, nread, buf, bsz, out>>
  BY DEF Eof
<1>2. ReaderInv /\ base' = base /\ Len(buf') \in Nat /\ nread' \in Int /\ Len(buf) \in Nat
      /\ nread \in 0..Len(text) /\ bsz \in Nat /\ Len(text) \in Nat
  BY <1>1, Window DEF StreamInv, ReaderInv, TypeOK, base
<1>3. Tracks' /\ Starts' /\ Tally'
  BY <1>1, <1>2, EnterKeepsStream
<1>4. Through'
  <2>1. Room > 0
    BY <1>1, <1>2 DEF ReaderInv, RoomToRead, Room
  <2>2. failed' = (nread < Len(text))
    BY <2>1 DEF Eof
  <2>3. ~(nread < Len(text)) => nread = Len(text)
    BY <1>2
  <2>4. text' = text /\ nread' = nread
    BY <1>1
  <2> QED
    BY <1>1, <2>2, <2>3, <2>4, Zenon DEF Through
<1> QED
  BY <1>1, <1>3, <1>4 DEF StreamInv, Fresh, Tracking

\* proc() has returned, and the next read follows.
LEMMA BackToRead ==
  ASSUME StreamInv, ReaderInv', pc = "scan", Returns, pc' = "read", Leave,
         UNCHANGED <<text, nread, failed, out>>, base' = passed
  PROVE  StreamInv'
<1>w. /\ ReaderInv /\ text \in Seq(STRING) /\ base \in Nat /\ sp \in Nat /\ sp >= 1
      /\ passed = base + sp - 1 /\ passed \in Int
  BY Window DEF StreamInv, passed
<1>1. StartsAfter(passed) /\ Len(out) = Cardinality(Before(passed)) /\ EndFree(passed + 1, nread)
  BY NothingLeft DEF StreamInv, Starts, Tally, Running, Scanning
<1>2. passed' = passed /\ (base + tp - 1)' = passed
  BY <1>w DEF Leave, passed
<1>3. Starts'
  BY <1>1, <1>2, NextStarts DEF Scanning
<1>4. Tally'
  <2>1. EndFree(passed + 1, passed)
    <3>1. passed < passed + 1 /\ passed + 1 \in Int
      BY <1>w
    <3> QED
      BY <1>w, <3>1, NothingBetween
  <2> QED
    BY <1>1, <1>2, <2>1, NextTally
<1> QED
  BY <1>3, <1>4 DEF StreamInv, Fresh, Tracking, Scanning, Through, Leave

LEMMA StreamStep == StreamInv /\ [Next]_vars => StreamInv'
<1> SUFFICES ASSUME StreamInv, [Next]_vars PROVE StreamInv'
  OBVIOUS
<1>w. /\ ReaderInv /\ ReaderInv' /\ text \in Seq(STRING) /\ text \in Texts /\ base \in Nat
      /\ nread \in Nat /\ Len(buf) \in Nat /\ base = nread - Len(buf) /\ sp \in Nat
      /\ sp >= 1 /\ sp <= Len(buf) + 1
  BY ReaderStep, Window DEF StreamInv, base
<1>1. CASE ReadInput
  BY <1>1, ReadKeepsStream DEF ReadInput
<1>2. CASE Eof
  BY <1>2, <1>w, EofKeepsStream
<1>3. CASE Scan
  BY <1>3, ScanKeepsStream
<1>4. CASE Grow \/ ReadMore
  <2>1. /\ pc = "scan" /\ Returns /\ pc' = "read" /\ Leave /\ sp = 1
        /\ UNCHANGED <<text, nread, failed, buf, out>>
    BY <1>4 DEF Grow, ReadMore, Full, input
  <2>2. base' = passed
    BY <1>w, <2>1 DEF base, passed
  <2> QED
    BY <1>w, <2>1, <2>2, BackToRead
<1>5. CASE Compact
  <2>1. /\ pc = "scan" /\ Returns /\ pc' = "read" /\ Leave
        /\ UNCHANGED <<text, nread, failed, out>> /\ buf' = SubSeq(buf, sp, Len(buf))
    BY <1>5 DEF Compact, input
  <2>2. Len(buf') = Len(buf) - sp + 1
    <3>1. buf \in Seq(STRING) /\ sp \in 1..Len(buf)+1 /\ Len(buf) \in sp-1..Len(buf)
      BY <1>w, Window
    <3>2. Len(SubSeq(buf, sp, Len(buf))) = Len(buf) - sp + 1
      BY ONLY <3>1, PartOf
    <3> QED
      BY <2>1, <3>2
  <2>3. base' = passed
    BY <1>w, <2>1, <2>2 DEF base, passed
  <2> QED
    BY <1>w, <2>1, <2>3, BackToRead
<1>6. CASE LastReturn
  <2>1. /\ pc = "last" /\ pc' = "fini" /\ UNCHANGED <<text, nread, failed, buf, out>>
    BY <1>6 DEF LastReturn, input
  <2>2. Len(out) = Cardinality(Before(passed)) /\ EndFree(passed + 1, nread)
    BY <2>1 DEF StreamInv, Tally, Running
  <2>3. Before(nread) = Before(passed)
    <3>1. passed \in Int /\ nread \in Int /\ passed <= nread
      BY <1>w DEF passed
    <3> QED
      BY <1>w, <2>2, <3>1, BeforeSame
  <2>4. E' = E
    BY <2>1 DEF E
  <2>5. Before(nread)' = Before(nread)
    BY <2>1, <2>4 DEF Before
  <2>6. Starts' /\ Tally' /\ Fresh' /\ Tracking' /\ Through' /\ text' \in Texts
    BY <1>w, <2>1, <2>2, <2>3, <2>5
       DEF StreamInv, Starts, Tally, Running, Fresh, Tracking, Scanning, Through
  <2> QED
    BY <1>w, <2>6 DEF StreamInv
<1>7. CASE GrowFail \/ Fini
  <2>1. pc' = "done" /\ text' = text
    BY <1>7 DEF GrowFail, Fini, input
  <2>2. Starts' /\ Tally' /\ Fresh' /\ Tracking' /\ Through' /\ text' \in Texts
    BY <1>w, <2>1
       DEF StreamInv, Starts, Tally, Running, Fresh, Tracking, Scanning, Through
  <2> QED
    BY <1>w, <2>2 DEF StreamInv
<1>8. CASE Done \/ UNCHANGED vars
  <2>1. UNCHANGED vars
    BY <1>8 DEF Done
  <2>2. UNCHANGED <<Mode, E, base, passed>>
    BY <2>1 DEF vars, Mode, E, base, passed
  <2>3. Starts'
    BY <2>1, <2>2
       DEF vars, StreamInv, Starts, Running, Scanning, StartsAfter, EndFree
  <2>4. Tally'
    BY <2>1, <2>2 DEF vars, StreamInv, Tally, Running, Before, EndFree
  <2>5. Tracking'
    BY <2>1, <2>2 DEF vars, StreamInv, Tracking, Scanning, Tracks, At
  <2>6. Fresh' /\ Through' /\ text' \in Texts
    BY <2>1 DEF vars, StreamInv, Fresh, Through
  <2> QED
    BY <1>w, <2>3, <2>4, <2>5, <2>6 DEF StreamInv
<1> QED
  BY <1>1, <1>2, <1>3, <1>4, <1>5, <1>6, <1>7, <1>8 DEF Next

LEMMA StreamCorrect == Spec => []StreamInv
  BY StreamInit, StreamStep, PTL DEF Spec

---------------------------------------------------------------------------
(* TtlScan implements StmtStream.                                          *)

\* At the end of the text all of its statements have been handed on.
LEMMA AllHandedOn ==
  ASSUME StreamInv, pc = "fini", ~failed
  PROVE  Len(out) = Len(Stream!Statements(text))
<1>1. text \in Seq(STRING) /\ nread = Len(text) /\ Len(out) = Cardinality(Before(nread))
  BY Window DEF StreamInv, Through, Tally
<1>2. \A e \in E : e <= nread
  <2>1. E \subseteq 1..Len(text) /\ Len(text) \in Nat
    BY <1>1, EndIs, LenProperties
  <2> QED
    BY <1>1, <2>1
<1>3. nread \in Int
  BY <1>1, LenProperties
<1>4. \A e : e \in Before(nread) <=> e \in E /\ e <= nread
  BY <1>1, <1>3, BeforeIs
<1>5. Before(nread) = E
  BY <1>2, <1>4, Zenon
<1> QED
  BY <1>1, <1>5, NthStatement

LEMMA StreamStepSimulated ==
  StreamInv /\ [Next]_vars => [Stream!StreamNext]_(Stream!streamVars)
<1> SUFFICES ASSUME StreamInv, [Next]_vars
             PROVE  Stream!StreamNext \/ UNCHANGED <<text, failed, out, pc = "done">>
  BY DEF Stream!streamVars
<1>1. CASE ReadInput \/ Grow \/ ReadMore \/ Compact \/ LastReturn
  <2>1. UNCHANGED <<text, failed, out>> /\ pc # "done" /\ pc' # "done"
    BY <1>1 DEF ReadInput, Read, Grow, ReadMore, Compact, LastReturn, input
  <2> QED
    BY <2>1
<1>2. CASE Eof
  <2>1. UNCHANGED <<text, out>> /\ pc = "read" /\ pc' = "last" /\ failed' \in BOOLEAN /\ ~failed
    BY <1>2 DEF Eof, StreamInv, Through
  <2>2. CASE failed'
    <3>1. Stream!Fail
      BY <2>1, <2>2 DEF Stream!Fail
    <3> QED
      BY <3>1 DEF Stream!StreamNext
  <2>3. CASE ~failed'
    <3>1. failed' = failed
      BY <2>1, <2>3 DEF StreamInv, ReaderInv, TypeOK
    <3> QED
      BY <2>1, <3>1
  <2> QED
    BY <2>2, <2>3
<1>3. CASE Scan
  <2>1. PICK p \in tp..Len(buf) : Found(p) /\ (Dot(p) \/ Separator(p) \/ Token(p))
    BY <1>3 DEF Scan
  <2>2. Scanning /\ ReaderInv /\ Tracks
    BY <1>3 DEF Scan, StreamInv, Tracking
  <2>3. CASE Separator(p) \/ Token(p)
    <3>1. PICK s, q : Follows(p, s, q)
      BY <2>1, <2>2, <2>3, TokenFollows
    <3>2. UNCHANGED <<text, failed, out, pc>>
      BY <3>1 DEF Follows, input
    <3> QED
      BY <3>2
  <2>4. CASE Dot(p)
    <3>1. /\ Len(out) < Len(Stream!Statements(text))
          /\ SubSeq(buf, sp, p) = Stream!Statements(text)[Len(out) + 1]
      BY <2>1, <2>2, <2>4, DotEnds
    <3>2. out' = Append(out, SubSeq(buf, sp, p)) /\ UNCHANGED <<text, failed, pc>>
      BY <2>4 DEF Dot, input
    <3>3. pc # "done"
      BY <2>2 DEF Scanning
    <3>4. Stream!Emit
      BY <3>1, <3>2, <3>3 DEF Stream!Emit
    <3> QED
      BY <3>4 DEF Stream!StreamNext
  <2> QED
    BY <2>1, <2>3, <2>4
<1>4. CASE GrowFail
  <2>1. UNCHANGED <<text, out>> /\ pc = "scan" /\ pc' = "done" /\ failed' = TRUE /\ ~failed
    BY <1>4 DEF GrowFail, StreamInv, Through
  <2>2. Stream!Fail
    BY <2>1 DEF Stream!Fail
  <2> QED
    BY <2>2 DEF Stream!StreamNext
<1>5. CASE Fini
  <2>1. UNCHANGED <<text, failed, out>> /\ pc = "fini" /\ pc' = "done"
    BY <1>5 DEF Fini, input
  <2>2. Len(out) = Len(Stream!Statements(text)) \/ failed
    BY <2>1, AllHandedOn
  <2>3. Stream!Close
    BY <2>1, <2>2 DEF Stream!Close
  <2> QED
    BY <2>3 DEF Stream!StreamNext
<1>6. CASE Done \/ UNCHANGED vars
  BY <1>6 DEF Done, vars
<1> QED
  BY <1>1, <1>2, <1>3, <1>4, <1>5, <1>6 DEF Next

\* The statements come out whole, once and in the order of the text, and all of
\* them unless a read or a growth fails, whatever the text, the reads and the
\* size of the buffer are (ttl-split.c:225-397).
THEOREM StatementsOfTheText == Spec => ChunkIndependent
<1>1. Init => Stream!StreamInit
  BY DEF Init, Stream!StreamInit
<1>2. Spec => Stream!StreamSpec
  BY <1>1, StreamCorrect, StreamStepSimulated, PTL DEF Spec, Stream!StreamSpec
<1> QED
  BY <1>2 DEF ChunkIndependent

\* What the last try hands on is nothing: the end of every statement was found
\* before, in the read loop (ttl-split.c:385-386).
THEOREM LastTryIsMoot == Spec => LastTryFindsNothing
<1>1. StreamInv /\ [Next]_vars => [pc = "last" => out' = out]_vars
  <2> SUFFICES ASSUME StreamInv, [Next]_vars, pc = "last" PROVE out' = out
    OBVIOUS
  <2>1. CASE Scan
    <3>1. PICK p \in tp..Len(buf) : Found(p) /\ (Dot(p) \/ Separator(p) \/ Token(p))
      BY <2>1 DEF Scan
    <3>2. Scanning /\ ReaderInv /\ Tracks
      BY <2>1 DEF Scan, StreamInv, Tracking
    <3>3. ~Dot(p)
      BY <3>1, <3>2, DotEnds
    <3>4. PICK s, q : Follows(p, s, q)
      BY <3>1, <3>2, <3>3, TokenFollows
    <3> QED
      BY <3>4 DEF Follows
  <2>2. CASE ~Scan
    BY <2>2 DEF Next, ReadInput, Read, Eof, Grow, GrowFail, ReadMore, Compact, LastReturn,
                Fini, Done, vars
  <2> QED
    BY <2>1, <2>2
<1> QED
  BY <1>1, StreamCorrect, PTL DEF Spec, LastTryFindsNothing

---------------------------------------------------------------------------
(* What has been handed on.                                                *)

\* A step leaves the text as it is, and hands on a statement or nothing.
LEMMA OutSteps ==
  ASSUME [Next]_vars
  PROVE  /\ text' = text
         /\ \/ out' = out
            \/ Scanning /\ \E p \in tp..Len(buf) : Found(p) /\ Dot(p)
<1> USE DEF input
<1>1. CASE Scan
  <2>1. PICK p \in tp..Len(buf) : Found(p) /\ (Dot(p) \/ Separator(p) \/ Token(p))
    BY <1>1 DEF Scan
  <2>2. CASE Separator(p) \/ Token(p)
    BY <2>2 DEF Separator, Token, OpenAngle, CloseAngle, Hash, Newline, EscapedQuote, OpenQuote,
                EmptyQuote, OpenLong, CloseQuote, CloseLong, Advance
  <2>3. CASE Dot(p)
    BY <1>1, <2>1, <2>3 DEF Dot, Scan
  <2> QED
    BY <2>1, <2>2, <2>3
<1>2. CASE ~Scan
  BY <1>2 DEF Next, ReadInput, Read, Eof, Grow, GrowFail, ReadMore, Compact, LastReturn,
              Fini, Done, vars
<1> QED
  BY <1>1, <1>2

\* The statements handed on are the first ones of the text, and at the end they are
\* all of them, unless something failed.
Handed ==
  /\ Len(out) <= Len(Stream!Statements(text))
  /\ \A k \in 1..Len(out) : out[k] = Stream!Statements(text)[k]
  /\ pc = "done" /\ ~failed => Len(out) = Len(Stream!Statements(text))

HandedInv == StreamInv /\ Handed

LEMMA HandedInit == Init => HandedInv
<1> SUFFICES ASSUME Init PROVE HandedInv
  OBVIOUS
<1>1. StreamInv
  BY StreamInit
<1>2. Len(out) = 0 /\ pc = "read"
  BY EmptySeq DEF Init
<1>3. Len(Stream!Statements(text)) \in Nat
  BY <1>1, Window, NthStatement DEF StreamInv
<1>4. Handed
  BY <1>2, <1>3 DEF Handed
<1> QED
  BY <1>1, <1>4 DEF HandedInv

LEMMA HandedStep == HandedInv /\ [Next]_vars => HandedInv'
<1> SUFFICES ASSUME HandedInv, [Next]_vars PROVE HandedInv'
  OBVIOUS
<1>1. StreamInv /\ StreamInv'
  BY StreamStep DEF HandedInv
<1> DEFINE S == Stream!Statements(text)
<1>2. /\ text' = text /\ Stream!Statements(text)' = S /\ Len(S) \in Nat /\ Len(out) \in Nat
      /\ out \in Seq(Seq(STRING))
  <2>1. text' = text
    BY OutSteps
  <2>2. Len(S) \in Nat
    BY <1>1, Window, NthStatement DEF StreamInv
  <2>3. out \in Seq(Seq(STRING)) /\ Len(out) \in Nat
    BY <1>1, LenProperties DEF StreamInv, ReaderInv, TypeOK
  <2> QED
    BY <2>1, <2>2, <2>3
<1> HIDE DEF S
<1>3. Len(out) <= Len(S) /\ (\A k \in 1..Len(out) : out[k] = S[k])
      /\ (pc = "done" /\ ~failed => Len(out) = Len(S))
  BY DEF HandedInv, Handed, S
<1>4. CASE Scanning /\ \E p \in tp..Len(buf) : Found(p) /\ Dot(p)
  <2>1. PICK p \in tp..Len(buf) : Found(p) /\ Dot(p)
    BY <1>4
  <2>2. Len(out) < Len(S) /\ SubSeq(buf, sp, p) = S[Len(out) + 1]
    BY <1>1, <1>4, <2>1, DotEnds DEF S
  <2>3. out' = Append(out, SubSeq(buf, sp, p)) /\ pc' = pc /\ pc # "done"
    BY <1>4, <2>1 DEF Dot, Scanning
  <2>4. /\ Len(out') = Len(out) + 1 /\ out'[Len(out) + 1] = S[Len(out) + 1]
        /\ \A k \in 1..Len(out) : out'[k] = out[k]
    <3>1. /\ buf \in Seq(STRING) /\ sp \in 1..Len(buf)+1 /\ p \in sp-1..Len(buf)
      BY <1>1, <2>1, Window DEF StreamInv
    <3>2. SubSeq(buf, sp, p) \in Seq(STRING)
      BY <3>1, PartOf
    <3> QED
      BY <1>2, <2>2, <2>3, <3>2, AppendProperties
  <2>5. \A k \in 1..Len(out') : out'[k] = S[k]
    <3>1. \A k \in 1..Len(out') : k \in 1..Len(out) \/ k = Len(out) + 1
      BY <1>2, <2>4
    <3> QED
      BY <1>3, <2>4, <3>1
  <2>6. Len(out') <= Len(S)
    BY <1>2, <2>2, <2>4
  <2> QED
    BY <1>1, <1>2, <2>3, <2>5, <2>6 DEF HandedInv, Handed
<1>5. CASE out' = out
  <2>1. pc' = "done" /\ ~failed' => Len(out) = Len(S)
    <3>1. SUFFICES ASSUME pc' = "done", ~failed' PROVE Len(out) = Len(S)
      OBVIOUS
    <3>2. CASE Fini
      <4>1. pc = "fini" /\ ~failed
        BY <3>1, <3>2 DEF Fini, input
      <4> QED
        BY <1>1, <4>1, AllHandedOn DEF S
    <3>3. CASE pc = "done"
      <4>1. ~failed
        BY <3>1, <3>3 DEF Next, ReadInput, Read, Eof, Scan, Scanning, Grow, GrowFail, ReadMore,
                          Compact, LastReturn, Fini, Done, vars
      <4> QED
        BY <1>3, <3>3, <4>1
    <3>4. CASE ~Fini /\ pc # "done"
      <4>1. ~Scan
        <5>1. SUFFICES ASSUME Scan PROVE FALSE
          OBVIOUS
        <5>2. PICK p \in tp..Len(buf) : Found(p) /\ (Dot(p) \/ Separator(p) \/ Token(p))
          BY <5>1 DEF Scan
        <5>3. pc' = pc
          BY <5>2 DEF Dot, Separator, Token, OpenAngle, CloseAngle, Hash, Newline, EscapedQuote,
                OpenQuote, EmptyQuote, OpenLong, CloseQuote, CloseLong, Advance
        <5> QED
          BY <3>1, <3>4, <5>3
      <4> QED
        BY <3>1, <3>4, <4>1 DEF Next, ReadInput, Read, Eof, Grow, GrowFail, ReadMore, Compact,
                                LastReturn, Done, vars
    <3> QED
      BY <3>2, <3>3, <3>4
  <2> QED
    BY <1>1, <1>2, <1>3, <1>5, <2>1 DEF HandedInv, Handed
<1> QED
  BY <1>4, <1>5, OutSteps

---------------------------------------------------------------------------
(* The growth of the buffer.                                               *)

\* Where a stretch of the text begins or ends.
Cuts == {0, Len(text)} \cup E

\* No stretch between two cuts is longer than n.
Covers(n) == \A f \in Cuts : n < Len(text) - f => \E g \in f+1..f+n : g \in Cuts

LEMMA CutsAre ==
  ASSUME text \in Seq(STRING)
  PROVE  /\ \A f \in Cuts : f \in Nat /\ f <= Len(text)
         /\ 0 \in Cuts /\ Len(text) \in Cuts /\ Len(text) \in Nat
         /\ \A f : f \in Cuts <=> f = 0 \/ f = Len(text) \/ f \in E
<1>1. E \subseteq 1..Len(text) /\ Len(text) \in Nat
  BY EndIs, LenProperties
<1>2. \A f : f \in Cuts <=> f = 0 \/ f = Len(text) \/ f \in E
  BY DEF Cuts
<1>3. ASSUME NEW f \in Cuts PROVE f \in Nat /\ f <= Len(text)
  <2>1. f = 0 \/ f = Len(text) \/ f \in 1..Len(text)
    BY <1>1, <1>2
  <2> QED
    BY <1>1, <2>1
<1>4. 0 \in Cuts /\ Len(text) \in Cuts
  BY <1>2, Zenon
<1> QED
  BY <1>1, <1>2, <1>3, <1>4

\* The longest stretch is one, and none is longer.
LEMMA LongestIs ==
  ASSUME text \in Seq(STRING)
  PROVE  Stream!Longest(text) \in Nat /\ Covers(Stream!Longest(text))
<1> DEFINE stretches == UNION {{e - f : f \in Cuts} : e \in Cuts}
           gap(n)    == \E f \in Cuts : f + n \in Cuts /\ \A g \in f+1..f+n-1 : g \notin Cuts
<1>1. Stream!Longest(text) = CHOOSE n \in stretches : gap(n) /\ Covers(n)
  BY DEF Stream!Longest, Cuts, E, Covers
<1>2. \E n \in stretches : gap(n) /\ Covers(n)
  <2> DEFINE T == {n \in Nat : Covers(n)}
  <2>1. Len(text) \in T
    BY CutsAre DEF Covers
  <2> HIDE DEF T
  <2>2. PICK n \in T : \A m \in T : n <= m
    <3>1. T \subseteq Nat /\ T # {}
      BY <2>1 DEF T
    <3> QED
      BY <3>1, LeastOf
  <2>3. n \in Nat /\ Covers(n)
    BY <2>2 DEF T
  <2>4. \E f \in Cuts : f + n \in Cuts /\ \A g \in f+1..f+n-1 : g \notin Cuts
    <3>1. CASE n = 0
      <4>1. Len(text) \in Cuts /\ Len(text) + n = Len(text) /\ Len(text)+1..Len(text)+n-1 = {}
        BY <3>1, CutsAre
      <4> QED
        BY <4>1
    <3>2. CASE n # 0
      <4>1. n - 1 \in Nat /\ n - 1 \notin T
        BY <2>2, <2>3, <3>2
      <4>2. ~Covers(n - 1)
        BY <4>1 DEF T
      <4>3. PICK f \in Cuts : n - 1 < Len(text) - f /\ \A g \in f+1..f+(n-1) : g \notin Cuts
        BY <4>2 DEF Covers
      <4>4. f \in Nat /\ Len(text) \in Nat /\ f + (n - 1) = f + n - 1
        BY <2>3, CutsAre
      <4>5. f + n \in Cuts
        <5>1. CASE f + n = Len(text)
          BY <5>1, CutsAre
        <5>2. CASE f + n # Len(text)
          <6>1. n < Len(text) - f
            BY <2>3, <4>3, <4>4, <5>2
          <6>2. PICK g \in f+1..f+n : g \in Cuts
            BY <2>3, <6>1 DEF Covers
          <6>3. g \in f+1..f+(n-1) \/ g = f + n
            BY <2>3, <4>4, <6>2
          <6> QED
            BY <4>3, <6>2, <6>3
        <5> QED
          BY <5>1, <5>2
      <4> QED
        BY <4>3, <4>4, <4>5
    <3> QED
      BY <3>1, <3>2
  <2>5. n \in stretches
    <3>1. PICK f \in Cuts : f + n \in Cuts
      BY <2>4
    <3>2. f \in Nat /\ (f + n) - f = n
      BY <2>3, CutsAre
    <3>3. n \in {(f + n) - h : h \in Cuts}
      BY <3>1, <3>2
    <3> QED
      BY <3>1, <3>3
  <2> HIDE DEF stretches
  <2> QED
    BY <2>3, <2>4, <2>5
<1>3. ASSUME NEW n \in stretches, gap(n) PROVE n \in Int
  <2>1. PICK e \in Cuts : n \in {e - f : f \in Cuts}
    OBVIOUS
  <2>2. PICK f \in Cuts : n = e - f
    BY <2>1
  <2> QED
    BY <2>2, CutsAre
<1> HIDE DEF stretches, gap
<1>4. Stream!Longest(text) \in stretches /\ gap(Stream!Longest(text)) /\ Covers(Stream!Longest(text))
  BY <1>1, <1>2, Zenon
<1>5. Stream!Longest(text) \in Int
  BY <1>3, <1>4
<1>6. Stream!Longest(text) >= 0
  <2>1. SUFFICES ASSUME NEW n \in Int, Covers(n), n < 0 PROVE FALSE
    BY <1>4, <1>5
  <2>2. n < Len(text) - Len(text) /\ Len(text) \in Cuts /\ Len(text)+1..Len(text)+n = {}
    BY <2>1, CutsAre
  <2> QED
    BY <2>1, <2>2 DEF Covers
<1> QED
  BY <1>4, <1>5, <1>6

\* A part of the text without an end in it is no longer than the longest stretch.
LEMMA StretchFits ==
  ASSUME text \in Seq(STRING), NEW i \in Nat, NEW j \in i..Len(text), EndFree(i + 1, j)
  PROVE  j - i <= Stream!Longest(text)
<1> DEFINE n == Stream!Longest(text)
<1>1. n \in Nat /\ Covers(n)
  BY LongestIs
<1> HIDE DEF n
<1>2. \E f \in Cuts : f <= i /\ \A g \in Cuts : g <= i => g <= f
  <2> DEFINE U == {k \in Nat : i - k \in Cuts}
  <2>1. i \in U
    BY CutsAre
  <2> HIDE DEF U
  <2>2. U \subseteq Nat /\ U # {}
    BY <2>1 DEF U
  <2>3. PICK k \in U : \A m \in U : k <= m
    BY <2>2, LeastOf
  <2>4. k \in Nat /\ i - k \in Cuts /\ i - k <= i
    BY <2>3 DEF U
  <2>5. ASSUME NEW g \in Cuts, g <= i PROVE g <= i - k
    <3>1. g \in Nat /\ i - g \in Nat /\ i - (i - g) = g
      BY <2>5, CutsAre
    <3>2. i - g \in U
      BY <2>5, <3>1 DEF U
    <3> QED
      BY <2>3, <2>4, <3>1, <3>2
  <2> QED
    BY <2>4, <2>5
<1>3. PICK f \in Cuts : f <= i /\ \A g \in Cuts : g <= i => g <= f
  BY <1>2
<1>4. f \in Nat /\ Len(text) \in Nat /\ j \in Nat
  BY CutsAre
<1>5. SUFFICES ASSUME n < j - i PROVE FALSE
  BY <1>1, <1>4 DEF n
<1>6. n < Len(text) - f
  BY <1>1, <1>3, <1>4, <1>5
<1>7. PICK g \in f+1..f+n : g \in Cuts
  BY <1>1, <1>6 DEF Covers
<1>8. g \in Nat /\ ~(g <= f) /\ i < g
  BY <1>1, <1>3, <1>4, <1>7
<1>9. g <= j /\ g # Len(text) /\ g # 0
  BY <1>1, <1>3, <1>4, <1>5, <1>7, <1>8
<1>10. g \in E
  BY <1>7, <1>9, CutsAre
<1>11. i + 1 <= g
  BY <1>8
<1> QED
  BY <1>9, <1>10, <1>11 DEF EndFree

\* The buffer grows for a statement that does not fit and not with the input: once
\* grown it is at most twice the longest stretch of the text without an end of a
\* statement, and the NUL (ttl-split.c:369-374).
THEOREM GrownForAStatement == Spec => []GrowthEarned
<1>1. Init => GrowthEarned
  BY DEF Init, GrowthEarned
<1>2. StreamInv /\ GrowthEarned /\ [Next]_vars => GrowthEarned'
  <2> SUFFICES ASSUME StreamInv, GrowthEarned, [Next]_vars PROVE GrowthEarned'
    OBVIOUS
  <2>1. CASE Grow
    <3>1. /\ pc = "scan" /\ Returns /\ sp = 1 /\ Len(buf) + 1 >= bsz /\ bsz' = 2 * bsz
          /\ text' = text
      BY <2>1 DEF Grow, Full, input
    <3>2. /\ text \in Seq(STRING) /\ base \in Nat /\ nread = base + Len(buf) /\ nread <= Len(text)
          /\ Len(buf) \in Nat /\ Len(text) \in Nat /\ bsz \in Nat /\ passed = base
      BY <3>1, Window DEF StreamInv, ReaderInv, TypeOK, passed
    <3>3. EndFree(base + 1, nread)
      BY <3>1, <3>2, NothingLeft DEF Scanning
    <3>4. nread - base <= Stream!Longest(text) /\ nread - base = Len(buf)
      <4>1. nread \in base..Len(text) /\ nread - base = Len(buf)
        BY <3>2
      <4> HIDE DEF base
      <4> QED
        BY <3>2, <3>3, <4>1, StretchFits
    <3>5. Stream!Longest(text) \in Nat
      BY <3>2, LongestIs
    <3>6. bsz' <= 2 * (Stream!Longest(text) + 1)
      BY <3>1, <3>2, <3>4, <3>5
    <3> QED
      BY <3>1, <3>6 DEF GrowthEarned
  <2>2. CASE ~Grow
    <3>1. UNCHANGED <<text, bsz>>
      <4>1. CASE Scan
        <5>1. PICK p \in tp..Len(buf) : Found(p) /\ (Dot(p) \/ Separator(p) \/ Token(p))
          BY <4>1 DEF Scan
        <5>2. CASE Dot(p)
          BY <5>2 DEF Dot, input
        <5>3. CASE Separator(p) \/ Token(p)
          BY <5>1, <5>3, TokenAdvances DEF input, StreamInv, ReaderInv
        <5> QED
          BY <5>1, <5>2, <5>3
      <4>2. CASE ~Scan
        BY <2>2, <4>2 DEF Next, ReadInput, Read, Eof, GrowFail, ReadMore, Compact, LastReturn,
                Fini, Done, vars, input
      <4> QED
        BY <4>1, <4>2
    <3> QED
      BY <3>1 DEF GrowthEarned
  <2> QED
    BY <2>1, <2>2
<1> QED
  BY <1>1, <1>2, StreamCorrect, PTL DEF Spec

===========================================================================
