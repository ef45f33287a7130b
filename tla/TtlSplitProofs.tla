-------------------------- MODULE TtlSplitProofs --------------------------
(***************************************************************************)
(* ttl-split as a whole: what is proved of the reader in TtlScanProofs and *)
(* of the writer in SplitWriterProofs holds of the program that runs the   *)
(* two on FILE after FILE.                                                 *)
(***************************************************************************)
EXTENDS TtlSplit, TtlScanProofs

WrP == INSTANCE SplitWriterProofs WITH
        buf <- wbuf, bix <- wbix, bsz <- wbsz, pc <- wpc,
        Stmt   <- Statement,
        Dirs   <- Directives,
        Size   <- Length,
        Faults <- OutFaults \cup (Faults \cap {"mmap"})
                    \cup (IF "mmap" \in Faults \/ MayNotOpen THEN {"input"} ELSE {})

---------------------------------------------------------------------------
(* The reader, from one FILE to the next.                                  *)

TextGiven == text \in Texts

LEMMA NextFileIsInit == NextFile => Init'
  BY DEF NextFile, Init, Leave

LEMMA HandedInitNext == Init' => HandedInv'
  BY HandedInit, PTL

\* A step of the program is a step of the reader, none, or to the next FILE.
LEMMA ReaderSteps == [SplitNext]_splitVars => [Next]_vars \/ NextFile
<1> SUFFICES ASSUME [SplitNext]_splitVars PROVE [Next]_vars \/ NextFile
  OBVIOUS
<1>1. CASE OpenInput \/ InputFails \/ Write \/ Exit \/ UNCHANGED splitVars
  BY <1>1 DEF OpenInput, InputFails, Write, Exit, splitVars
<1>2. CASE ScanOn
  BY <1>2 DEF ScanOn, Next, Scan
<1>3. CASE HandOn
  BY <1>3 DEF HandOn, Next, Scan
<1>4. CASE FiniProc \/ GiveUp
  BY <1>4 DEF FiniProc, GiveUp, Next
<1> QED
  BY <1>1, <1>2, <1>3, <1>4 DEF SplitNext

LEMMA SplitReaderStep == HandedInv /\ [SplitNext]_splitVars => HandedInv'
<1> SUFFICES ASSUME HandedInv, [SplitNext]_splitVars PROVE HandedInv'
  OBVIOUS
<1>1. CASE [Next]_vars
  BY <1>1, HandedStep
<1>2. CASE NextFile
  BY <1>2, NextFileIsInit, HandedInitNext
<1> QED
  BY <1>1, <1>2, ReaderSteps

\* What the scanner's invariant says of the scanner alone.
LEMMA OfReader == HandedInv => ReaderInv /\ TextGiven /\ text \in Seq(STRING) /\ Len(out) \in Nat
<1> SUFFICES ASSUME HandedInv
             PROVE  ReaderInv /\ TextGiven /\ text \in Seq(STRING) /\ Len(out) \in Nat
  OBVIOUS
<1>1. ReaderInv /\ TextGiven
  BY DEF HandedInv, StreamInv, TextGiven
<1> QED
  BY <1>1, LenProperties DEF ReaderInv, TypeOK

---------------------------------------------------------------------------
(* The writer.                                                             *)

\* What the scanner hands on is a part of the text.
LEMMA HandedOn ==
  ASSUME ReaderInv, TextGiven, NEW p \in tp..Len(buf)
  PROVE  SubSeq(buf, sp, p) \in Statement
<1> DEFINE m == nread - Len(buf)
<1>1. /\ text \in Seq(STRING) /\ buf \in Seq(STRING) /\ Len(buf) \in Nat /\ Len(text) \in Nat
      /\ nread \in 0..Len(text) /\ Len(buf) <= nread
      /\ buf = SubSeq(text, m + 1, nread)
      /\ sp \in 1..Len(buf)+1 /\ tp \in sp..Len(buf)+1
  BY LenProperties DEF ReaderInv, TypeOK, Contiguous
<1>2. /\ m \in Nat /\ sp \in 1..Len(buf) /\ p \in 1..Len(buf) /\ sp <= p
      /\ m + 1 \in 1..Len(text) /\ nread \in 1..Len(text) /\ nread - (m + 1) + 1 = Len(buf)
  BY <1>1
<1>3. SubSeq(SubSeq(text, m + 1, nread), sp, p) = SubSeq(text, m + 1 + sp - 1, m + 1 + p - 1)
  <2> HIDE DEF m
  <2> QED
    BY <1>1, <1>2, SubSeqOfSubSeq
<1> DEFINE i == m + sp
           j == m + p
<1>4. i \in 1..Len(text) /\ j \in 1..Len(text) /\ i <= j /\ m + 1 + sp - 1 = i /\ m + 1 + p - 1 = j
  BY <1>1, <1>2
<1>5. SubSeq(buf, sp, p) = SubSeq(text, i, j)
  BY <1>1, <1>3, <1>4
<1> HIDE DEF i, j
<1>6. SubSeq(text, i, j) \in PartsOf(text)
  <2> DEFINE from(k) == {SubSeq(text, k, l) : l \in k..Len(text)}
  <2>1. SubSeq(text, i, j) \in from(i)
    <3>1. j \in i..Len(text)
      BY <1>1, <1>4
    <3> QED
      BY <3>1
  <2>2. PartsOf(text) = UNION {from(k) : k \in 1..Len(text)}
    BY DEF PartsOf
  <2> HIDE DEF from
  <2> QED
    BY <1>4, <2>1, <2>2
<1> QED
  BY <1>5, <1>6 DEF Statement, TextGiven

\* The assumptions of the writer hold of the statements and of the faults.
LEMMA WriterAssumptions ==
  WrP!StmtAssumption /\ WrP!BoundAssumption /\ WrP!FaultAssumption /\ WrP!Pow2Assumption
<1>1. WrP!StmtAssumption
  <2>1. Directives \subseteq Statement
    BY DEF Directives
  <2>2. \A s \in Statement : Len(s) \in Nat \ {0}
    <3>1. SUFFICES ASSUME NEW s \in Statement PROVE Len(s) \in Nat \ {0}
      OBVIOUS
    <3>2. PICK t \in Texts : s \in PartsOf(t)
      BY DEF Statement
    <3>3. PICK i \in 1..Len(t) : s \in {SubSeq(t, i, j) : j \in i..Len(t)}
      BY <3>2 DEF PartsOf
    <3>4. PICK j \in i..Len(t) : s = SubSeq(t, i, j)
      BY <3>3
    <3>5. t \in Seq(STRING) /\ Len(t) \in Nat
      BY TextsAssumption, LenProperties
    <3>6. i \in 1..Len(t)+1 /\ j \in i-1..Len(t) /\ j - i + 1 \in Nat \ {0}
      BY <3>5
    <3>7. Len(SubSeq(t, i, j)) = j - i + 1
      BY <3>5, <3>6, PartOf
    <3> QED
      BY <3>4, <3>6, <3>7
  <2>3. Length \in [Statement -> Nat \ {0}]
    BY <2>2 DEF Length
  <2> QED
    BY <2>1, <2>3 DEF WrP!StmtAssumption
<1>2. WrP!BoundAssumption /\ WrP!Pow2Assumption
  BY WriterAssumption DEF Wr!BoundAssumption, WrP!BoundAssumption, Wr!Pow2Assumption,
     WrP!Pow2Assumption, Wr!Need, WrP!Need
<1>3. WrP!FaultAssumption
  BY SplitAssumption DEF WrP!FaultAssumption
<1> QED
  BY <1>1, <1>2, <1>3

\* The program's steps of the writer, as the writer's proofs have them.
LEMMA HandOnIsCall ==
  ASSUME ReaderInv, TextGiven, HandOn
  PROVE  WrP!Called
<1>1. PICK p \in tp..Len(buf) : Wr!Call(SubSeq(buf, sp, p))
  BY DEF HandOn
<1>2. SubSeq(buf, sp, p) \in Statement
  BY HandedOn
<1>3. WrP!Call(SubSeq(buf, sp, p))
  BY <1>1 DEF Wr!Call, WrP!Call, Wr!buffer, WrP!buffer, Wr!cache, WrP!cache, Wr!output, WrP!output
<1> QED
  BY <1>2, <1>3 DEF WrP!Called

LEMMA FiniProcFlushes == FiniProc => WrP!FiniStmt
  BY DEF FiniProc, Wr!FiniStmt, WrP!FiniStmt, Wr!NextInput, WrP!NextInput, Wr!WrBuf, WrP!WrBuf,
     Wr!Range, WrP!Range

LEMMA WriteRuns ==
  Write => WrP!Between \/ WrP!OpenPiece \/ WrP!PutStmt \/ WrP!PutLast \/ WrP!Dropped
<1> USE DEF Wr!buffer, WrP!buffer, Wr!cache, WrP!cache, Wr!output, WrP!output, Wr!calls, WrP!calls,
      Wr!cur, WrP!cur, Wr!z, WrP!z, Wr!IsDirective, WrP!IsDirective, Wr!Drop, WrP!Drop
<1>1. Wr!OpenPiece => WrP!OpenPiece
  BY DEF Wr!OpenPiece, WrP!OpenPiece
<1>2. Wr!OpenFails => WrP!OpenFails
  BY DEF Wr!OpenFails, WrP!OpenFails
<1>3. Wr!NotDirective => WrP!NotDirective
  BY DEF Wr!NotDirective, WrP!NotDirective
<1>4. Wr!CacheDirective => WrP!CacheDirective
  BY DEF Wr!CacheDirective, WrP!CacheDirective, Wr!CacheFits, WrP!CacheFits, Wr!Cached, WrP!Cached
<1>5. Wr!GrowCache => WrP!GrowCache
  BY DEF Wr!GrowCache, WrP!GrowCache, Wr!CacheFits, WrP!CacheFits, Wr!Cached, WrP!Cached
<1>6. Wr!GrowCacheFails => WrP!GrowCacheFails
  BY DEF Wr!GrowCacheFails, WrP!GrowCacheFails, Wr!CacheFits, WrP!CacheFits
<1>7. Wr!HasRoom => WrP!HasRoom
  BY DEF Wr!HasRoom, WrP!HasRoom
<1>8. Wr!Flush => WrP!Flush
  BY DEF Wr!Flush, WrP!Flush, Wr!WrBuf, WrP!WrBuf,
     Wr!Range, WrP!Range
<1>9. Wr!NoResize => WrP!NoResize
  BY DEF Wr!NoResize, WrP!NoResize
<1>10. Wr!Resize => WrP!Resize
  BY DEF Wr!Resize, WrP!Resize
<1>11. Wr!ResizeFails => WrP!ResizeFails
  BY DEF Wr!ResizeFails, WrP!ResizeFails
<1>12. Wr!PutStmt => WrP!PutStmt
  BY DEF Wr!PutStmt, WrP!PutStmt, Wr!Appended, WrP!Appended, Wr!grown, WrP!grown,
     Wr!counted, WrP!counted
<1>13. Wr!PutLast => WrP!PutLast
  BY DEF Wr!PutLast, WrP!PutLast, Wr!Appended, WrP!Appended, Wr!WrBuf, WrP!WrBuf,
     Wr!Range, WrP!Range,
     Wr!counted, WrP!counted
<1> QED
  BY <1>1, <1>2, <1>3, <1>4, <1>5, <1>6, <1>7, <1>8, <1>9, <1>10, <1>11, <1>12, <1>13
     DEF Write, WrP!Between, WrP!Dropped

\* A step of the program is a step of the writer, or none.
LEMMA WriterSteps ==
  ASSUME ReaderInv, TextGiven, [SplitNext]_splitVars
  PROVE  [WrP!Next]_(WrP!vars)
<1> USE DEF writer
<1>1. ASSUME UNCHANGED writer PROVE UNCHANGED WrP!vars
  BY <1>1 DEF WrP!vars, WrP!buffer, WrP!cache, WrP!output, WrP!calls
<1>2. CASE OpenInput \/ ScanOn \/ NextFile \/ Exit \/ UNCHANGED splitVars
  BY <1>1, <1>2 DEF OpenInput, ScanOn, NextFile, Exit, splitVars
<1>3. CASE InputFails \/ GiveUp
  <2>1. Wr!GiveUp
    BY <1>3 DEF InputFails, GiveUp
  <2>2. WrP!GiveUp
    BY <2>1 DEF Wr!GiveUp, WrP!GiveUp, Wr!NextInput, WrP!NextInput, Wr!buffer, WrP!buffer,
       Wr!cache, WrP!cache, Wr!output, WrP!output, Wr!Range, WrP!Range
  <2> QED
    BY <2>2 DEF WrP!Next
<1>4. CASE HandOn
  BY <1>4, HandOnIsCall DEF WrP!Called, WrP!Next
<1>5. CASE FiniProc
  BY <1>5, FiniProcFlushes DEF WrP!Next
<1>6. CASE Write
  BY <1>6, WriteRuns DEF WrP!Between, WrP!Dropped, WrP!Next
<1> QED
  BY <1>2, <1>3, <1>4, <1>5, <1>6 DEF SplitNext

---------------------------------------------------------------------------
(* The two together.                                                       *)

\* The n-th call for an input is the n-th statement of its text.
Nth(k, i) ==
  LET n == i - CallsBefore(k) IN n \in 1..Len(Due(k)) /\ fed[i].stmt = Due(k)[n]

\* Where main() is among the inputs, for itself and for the writer.
Standing ==
  /\ main \in {"open", "split"}
  /\ texts \in Seq(Seq(STRING))
  /\ main = "open" => Len(out) = 0 /\ pc = "read"
  /\ main = "split" => Len(texts) \in 1..Len(texts) /\ texts[Len(texts)] = text
  /\ wpc # "done" => inp = IF main = "split" /\ pc # "done" THEN Len(texts) ELSE Len(texts) + 1

\* The calls for the current input are the statements that the scanner has found in it.
CallsInv ==
  /\ Standing
  /\ \A i \in 1..Len(fed) : fed[i].inp \in 1..Len(texts) /\ Nth(fed[i].inp, i)
  /\ main = "split" => Len(fed) = CallsBefore(Len(texts)) + Len(out)

SplitInv == HandedInv /\ WrP!PiecesInv /\ CallsInv

LEMMA SplitInvInit == SplitInit => SplitInv
<1> SUFFICES ASSUME SplitInit PROVE SplitInv
  OBVIOUS
<1>1. Init /\ Wr!Init
  BY DEF SplitInit
<1>2. HandedInv
  BY <1>1, HandedInit
<1>3. WrP!Init
  BY <1>1 DEF Wr!Init, WrP!Init
<1>4. WrP!PiecesInv
  BY <1>3, WriterAssumptions, WrP!PiecesInit
<1>5. /\ texts = <<>> /\ out = <<>> /\ fed = <<>> /\ inp = 1 /\ main = "open" /\ pc = "read"
      /\ <<>> \in Seq(Seq(STRING)) /\ Len(<<>>) = 0
  BY <1>1, EmptySeq DEF SplitInit, Init, Wr!Init
<1>6. CallsInv
  BY <1>5 DEF CallsInv, Standing
<1> QED
  BY <1>2, <1>4, <1>6 DEF SplitInv

\* The calls are a sequence of records, and so many of them are for an earlier input.
CallsAre ==
  /\ Len(fed) \in Nat /\ DOMAIN fed = 1..Len(fed)
  /\ \A k : CallsBefore(k) \in Nat

LEMMA CallsTyped == WrP!PiecesInv => CallsAre
<1> SUFFICES ASSUME WrP!PiecesInv PROVE CallsAre
  OBVIOUS
<1>1. fed \in Seq(WrP!Item)
  BY DEF WrP!PiecesInv, WrP!TypeInv, WrP!TypeOK
<1>2. Len(fed) \in Nat /\ DOMAIN fed = 1..Len(fed)
  BY <1>1, LenProperties
<1>3. ASSUME NEW k PROVE CallsBefore(k) \in Nat
  <2> DEFINE B == {i \in DOMAIN fed : fed[i].inp < k}
  <2>1. IsFiniteSet(1..Len(fed))
    BY <1>2, FS_Interval
  <2>2. B \subseteq 1..Len(fed)
    BY <1>2
  <2> HIDE DEF B
  <2>3. Cardinality(B) \in Nat
    BY <2>1, <2>2, FS_Subset, FS_CardinalityType
  <2> QED
    BY <2>3 DEF CallsBefore, B
<1> QED
  BY <1>2, <1>3 DEF CallsAre

\* As long as there are no more calls, what was said of them remains true when there
\* is another input.
LEMMA CallsStay ==
  ASSUME CallsInv, CallsAre, fed' = fed, Len(texts) <= Len(texts'), texts' \in Seq(Seq(STRING)),
         \A k \in 1..Len(texts) : texts'[k] = texts[k]
  PROVE  /\ \A k : CallsBefore(k)' = CallsBefore(k)
         /\ \A i \in 1..Len(fed') : fed'[i].inp \in 1..Len(texts') /\ Nth(fed[i].inp, i)'
<1>0. texts \in Seq(Seq(STRING)) /\ Len(texts) \in Nat /\ Len(texts') \in Nat
  BY LenProperties DEF CallsInv, Standing
<1>1. ASSUME NEW k PROVE CallsBefore(k)' = CallsBefore(k)
  BY DEF CallsBefore
<1>2. ASSUME NEW i \in 1..Len(fed) PROVE fed'[i].inp \in 1..Len(texts') /\ Nth(fed[i].inp, i)'
  <2>1. PICK k \in 1..Len(texts) : k = fed[i].inp /\ Nth(k, i)
    BY DEF CallsInv
  <2>2. k \in 1..Len(texts') /\ fed'[i].inp = k
    BY <1>0, <2>1
  <2>3. texts'[k] = texts[k]
    OBVIOUS
  <2>4. Due(k)' = Due(k)
    BY <2>3 DEF Due
  <2>5. Nth(k, i)'
    BY <1>1, <2>1, <2>4 DEF Nth
  <2> QED
    BY <2>1, <2>2, <2>5
<1> QED
  BY <1>1, <1>2

LEMMA CallsUntouched ==
  ASSUME CallsInv, CallsAre, fed' = fed, texts' = texts, Standing',
         main' = "split" => main = "split" /\ Len(out') = Len(out)
  PROVE  CallsInv'
<1>1. texts \in Seq(Seq(STRING)) /\ Len(texts) \in Nat
  BY LenProperties DEF CallsInv, Standing
<1>2. /\ \A k : CallsBefore(k)' = CallsBefore(k)
      /\ \A i \in 1..Len(fed') : fed'[i].inp \in 1..Len(texts') /\ Nth(fed[i].inp, i)'
  BY <1>1, CallsStay
<1>4. main' = "split" => Len(fed') = CallsBefore(Len(texts))' + Len(out')
  <2>1. CallsBefore(Len(texts))' = CallsBefore(Len(texts))
    BY <1>2
  <2> QED
    BY <2>1 DEF CallsInv
<1> QED
  BY <1>2, <1>4 DEF CallsInv

LEMMA OpenInputCalls ==
  ASSUME HandedInv, CallsInv, CallsAre, OpenInput
  PROVE  CallsInv'
<1> DEFINE K == Len(texts) + 1
<1>1. /\ fed' = fed /\ inp' = inp /\ wpc' = wpc /\ wpc = "idle" /\ main = "open" /\ main' = "split"
      /\ pc' = pc /\ out' = out /\ text' = text /\ texts' = Append(texts, text)
  BY DEF OpenInput, vars, input, proc_locals, writer
<1>2. text \in Seq(STRING) /\ texts \in Seq(Seq(STRING)) /\ Len(texts) \in Nat
  BY OfReader, LenProperties DEF CallsInv, Standing
<1>3. /\ texts' \in Seq(Seq(STRING)) /\ Len(texts') = K /\ texts'[K] = text
      /\ \A k \in 1..Len(texts) : texts'[k] = texts[k]
  BY <1>1, <1>2, AppendProperties
<1>4. Standing'
  BY <1>1, <1>2, <1>3 DEF CallsInv, Standing
<1>5. /\ \A k : CallsBefore(k)' = CallsBefore(k)
      /\ \A i \in 1..Len(fed') : fed'[i].inp \in 1..Len(texts') /\ Nth(fed[i].inp, i)'
  BY <1>1, <1>2, <1>3, CallsStay
<1>7. CallsBefore(K) = Len(fed)
  <2>1. \A i \in DOMAIN fed : fed[i].inp < K
    BY <1>2 DEF CallsInv, CallsAre
  <2>2. {i \in DOMAIN fed : fed[i].inp < K} = 1..Len(fed)
    BY <2>1 DEF CallsAre
  <2>3. Cardinality(1..Len(fed)) = Len(fed)
    <3>1. PICK n \in Nat : n = Len(fed)
      BY DEF CallsAre
    <3>2. Cardinality(1..n) = n
      <4>1. Cardinality(1..n) = IF 1 > n THEN 0 ELSE n - 1 + 1
        BY FS_Interval
      <4> QED
        BY <4>1
    <3> QED
      BY <3>1, <3>2
  <2> HIDE DEF K
  <2> QED
    BY <2>2, <2>3 DEF CallsBefore
<1>8. Len(out) = 0 /\ Len(fed) \in Nat
  BY <1>1 DEF CallsInv, Standing, CallsAre
<1>9. Len(fed') = CallsBefore(Len(texts))' + Len(out')
  <2>1. PICK k : k = K
    OBVIOUS
  <2>2. CallsBefore(k)' = CallsBefore(k) /\ CallsBefore(k) = Len(fed)
    BY <1>5, <1>7, <2>1
  <2>3. CallsBefore(Len(texts))' = CallsBefore(k)'
    BY <1>3, <2>1
  <2> HIDE DEF K
  <2> QED
    BY <1>1, <1>8, <2>2, <2>3
<1> QED
  BY <1>4, <1>5, <1>9 DEF CallsInv

LEMMA InputFailsCalls ==
  ASSUME CallsInv, CallsAre, InputFails
  PROVE  CallsInv'
<1>1. /\ fed' = fed /\ main = "open" /\ main' = "open" /\ wpc = "idle"
      /\ pc' = pc /\ out' = out /\ texts' = Append(texts, <<>>)
      /\ wpc' # "done" => inp' = inp + 1
  BY DEF InputFails, Wr!GiveUp, Wr!NextInput, vars, input, proc_locals
<1>2. <<>> \in Seq(STRING) /\ texts \in Seq(Seq(STRING)) /\ Len(texts) \in Nat
  BY EmptySeq, LenProperties DEF CallsInv, Standing
<1>3. /\ texts' \in Seq(Seq(STRING)) /\ Len(texts') = Len(texts) + 1
      /\ \A k \in 1..Len(texts) : texts'[k] = texts[k]
  BY <1>1, <1>2, AppendProperties
<1>4. Standing'
  BY <1>1, <1>2, <1>3 DEF CallsInv, Standing
<1>5. \A i \in 1..Len(fed') : fed'[i].inp \in 1..Len(texts') /\ Nth(fed[i].inp, i)'
  BY <1>1, <1>2, <1>3, CallsStay
<1> QED
  BY <1>1, <1>4, <1>5 DEF CallsInv

\* A call is for the statement that the scanner has come to.
LEMMA HandOnCalls ==
  ASSUME HandedInv, HandedInv', CallsInv, CallsAre, WrP!PiecesInv, HandOn
  PROVE  CallsInv'
<1> DEFINE K == Len(texts)
           m == Len(fed)
<1>1. PICK p \in tp..Len(buf) : Dot(p) /\ Wr!Call(SubSeq(buf, sp, p))
  BY DEF HandOn
<1> DEFINE s == SubSeq(buf, sp, p)
           c == [no |-> m + 1, stmt |-> s, inp |-> inp]
<1>2. /\ fed' = Append(fed, c) /\ inp' = inp /\ out' = Append(out, s)
      /\ text' = text /\ pc' = pc /\ texts' = texts /\ main = "split" /\ main' = "split"
      /\ pc # "done" /\ wpc = "idle"
  BY <1>1 DEF HandOn, Quiet, Dot, Wr!Call, input, Scanning
<1>3. /\ inp = K /\ K \in 1..K /\ K \in Nat /\ texts[K] = text /\ texts \in Seq(Seq(STRING))
      /\ m = CallsBefore(K) + Len(out)
  BY <1>2, LenProperties DEF CallsInv, Standing
<1>4. m \in Nat /\ DOMAIN fed = 1..m /\ CallsBefore(K) \in Nat /\ Len(out) \in Nat
  BY OfReader DEF CallsAre
<1>5. Standing'
  BY <1>2, <1>3 DEF CallsInv, Standing
<1>6. /\ Len(fed') = m + 1 /\ DOMAIN fed' = 1..m+1
      /\ \A i \in 1..m : fed'[i] = fed[i]
      /\ fed'[m + 1] = c
  <2> DEFINE R == WrP!Item \cup {c}
  <2>1. fed \in Seq(WrP!Item)
    BY DEF WrP!PiecesInv, WrP!TypeInv, WrP!TypeOK
  <2>2. fed \in [1..m -> WrP!Item]
    BY <2>1, LenProperties
  <2>3. WrP!Item \subseteq R /\ c \in R
    OBVIOUS
  <2> HIDE DEF c, R
  <2>4. fed \in [1..m -> R]
    BY <2>2, <2>3
  <2>5. fed \in Seq(R)
    BY <1>4, <2>4
  <2> QED
    BY <1>2, <1>4, <2>3, <2>5, AppendProperties
<1>7. fed'[m + 1].inp = K /\ fed'[m + 1].stmt = s
  <2>1. c.inp = inp /\ c.stmt = s
    OBVIOUS
  <2> HIDE DEF c, s, K, m
  <2> QED
    BY <1>3, <1>6, <2>1
<1>8. /\ Len(out') = Len(out) + 1 /\ out'[Len(out) + 1] = s
  <2>1. out \in Seq(Seq(STRING)) /\ out' \in Seq(Seq(STRING))
    BY OfReader DEF HandedInv, StreamInv, ReaderInv, TypeOK
  <2> HIDE DEF s
  <2> QED
    BY <1>2, <1>4, <2>1
<1>9. Len(out) + 1 \in 1..Len(Due(K)) /\ Due(K)[Len(out) + 1] = s
  <2> DEFINE S == Stream!Statements(text)
  <2>1. Stream!Statements(text)' = S
    BY <1>2
  <2>2. Len(out') <= Len(S) /\ \A k \in 1..Len(out') : out'[k] = S[k]
    BY <2>1 DEF HandedInv, Handed
  <2>3. Due(K) = S
    BY <1>3 DEF Due
  <2>4. Len(S) \in Nat
    BY OfReader, NthStatement
  <2> HIDE DEF S, K, s
  <2> QED
    BY <1>4, <1>8, <2>2, <2>3, <2>4
<1>10. \A k \in 1..K : CallsBefore(k)' = CallsBefore(k)
  <2>1. SUFFICES ASSUME NEW k \in 1..K PROVE CallsBefore(k)' = CallsBefore(k)
    OBVIOUS
  <2>2. {i \in DOMAIN fed' : fed'[i].inp < k} = {i \in DOMAIN fed : fed[i].inp < k}
    BY <1>3, <1>4, <1>6, <1>7
  <2> QED
    BY <2>2 DEF CallsBefore
<1>11. \A k \in 1..K : Due(k)' = Due(k)
  BY <1>2 DEF Due
<1>12. ASSUME NEW i \in 1..m PROVE fed'[i].inp \in 1..K /\ Nth(fed[i].inp, i)'
  <2>1. fed[i].inp \in 1..K /\ Nth(fed[i].inp, i) /\ fed'[i] = fed[i]
    BY <1>6 DEF CallsInv
  <2>2. PICK k \in 1..K : k = fed[i].inp /\ k = fed'[i].inp
    BY <2>1
  <2>3. Nth(k, i)'
    BY <1>10, <1>11, <2>1, <2>2 DEF Nth
  <2> QED
    BY <2>1, <2>2, <2>3
<1>13. PICK k, n : k = K /\ n = m + 1
  OBVIOUS
<1>14. /\ k \in 1..K /\ Due(k)' = Due(k) /\ CallsBefore(k)' = CallsBefore(k)
       /\ n - CallsBefore(k) = Len(out) + 1
       /\ Len(out) + 1 \in 1..Len(Due(k)) /\ Due(k)[Len(out) + 1] = s
       /\ fed'[n].stmt = s /\ fed'[n].inp = k
  BY <1>3, <1>4, <1>7, <1>9, <1>10, <1>11, <1>13, SMTT(30)
<1>15. Nth(k, n)'
  <2> HIDE DEF s, K, m
  <2> QED
    BY <1>14 DEF Nth
<1>16. ASSUME NEW i \in 1..Len(fed') PROVE fed'[i].inp \in 1..Len(texts') /\ Nth(fed[i].inp, i)'
  <2>1. CASE i \in 1..m
    BY <1>2, <1>12, <2>1
  <2>2. CASE i = n
    BY <1>2, <1>3, <1>13, <1>14, <1>15, <2>2
  <2> QED
    BY <1>4, <1>6, <1>13, <2>1, <2>2
<1>17. Len(fed') = CallsBefore(Len(texts))' + Len(out')
  <2>1. CallsBefore(k)' = CallsBefore(k) /\ texts' = texts /\ k = Len(texts)
    BY <1>2, <1>13, <1>14
  <2>2. CallsBefore(Len(texts))' = CallsBefore(k)
    BY <2>1
  <2> QED
    BY <1>2, <1>3, <1>4, <1>6, <1>8, <2>1, <2>2
<1> QED
  BY <1>5, <1>16, <1>17 DEF CallsInv

\* The steps of the one or of the other that are no calls.
LEMMA StandingStep ==
  ASSUME HandedInv, CallsInv, ScanOn \/ Write \/ FiniProc \/ GiveUp \/ Exit \/ UNCHANGED splitVars
  PROVE  fed' = fed /\ texts' = texts /\ Len(out') = Len(out) /\ main' = main /\ Standing'
<1> USE DEF writer, vars, input, proc_locals
<1>1. CASE ScanOn
  <2>1. /\ fed' = fed /\ texts' = texts /\ main' = main /\ main = "split" /\ wpc' = wpc /\ inp' = inp
    BY <1>1 DEF ScanOn, Quiet
  <2>2. /\ text' = text /\ out' = out /\ pc # "done" /\ pc' # "done"
    BY <1>1 DEF ScanOn, ReadInput, Read, Eof, Grow, ReadMore, Compact, LastReturn, Scanning, Token,
       OpenAngle, CloseAngle, Hash, Newline, EscapedQuote, OpenQuote, EmptyQuote, OpenLong,
       CloseQuote, CloseLong, Advance
  <2> QED
    BY <2>1, <2>2 DEF CallsInv, Standing
<1>2. CASE Write
  <2>1. UNCHANGED vars /\ main' = main /\ texts' = texts
    BY <1>2 DEF Write
  <2>2. fed' = fed /\ inp' = inp /\ wpc # "done"
    BY <1>2 DEF Write, Wr!buffer, Wr!cache, Wr!output, Wr!calls, Wr!Drop, Wr!OpenPiece, Wr!OpenFails,
       Wr!NotDirective, Wr!CacheDirective, Wr!GrowCache, Wr!Cached, Wr!GrowCacheFails, Wr!HasRoom,
       Wr!Flush, Wr!NoResize, Wr!Resize, Wr!ResizeFails, Wr!PutStmt, Wr!PutLast
  <2> QED
    BY <2>1, <2>2 DEF CallsInv, Standing
<1>3. CASE FiniProc
  <2>1. /\ main = "split" /\ main' = main /\ texts' = texts /\ text' = text /\ out' = out
        /\ pc # "done" /\ pc' = "done" /\ wpc = "idle"
    BY <1>3 DEF FiniProc, Quiet, Fini
  <2>2. fed' = fed /\ (wpc' # "done" => inp' = inp + 1)
    BY <1>3, <2>1 DEF FiniProc, Wr!FiniStmt, Wr!NextInput
  <2> QED
    BY <2>1, <2>2 DEF CallsInv, Standing
<1>4. CASE GiveUp
  <2>1. /\ main = "split" /\ main' = main /\ texts' = texts /\ text' = text /\ out' = out
        /\ pc # "done" /\ pc' = "done" /\ wpc = "idle"
    BY <1>4 DEF GiveUp, Quiet, GrowFail
  <2>2. fed' = fed /\ (wpc' # "done" => inp' = inp + 1)
    BY <1>4, <2>1 DEF GiveUp, Wr!GiveUp, Wr!NextInput
  <2> QED
    BY <2>1, <2>2 DEF CallsInv, Standing
<1>5. CASE Exit \/ UNCHANGED splitVars
  BY <1>5 DEF Exit, splitVars, CallsInv, Standing
<1> QED
  BY <1>1, <1>2, <1>3, <1>4, <1>5

LEMMA NextFileCalls ==
  ASSUME CallsInv, CallsAre, NextFile
  PROVE  CallsInv'
<1>1. /\ fed' = fed /\ texts' = texts /\ inp' = inp /\ wpc' = wpc /\ wpc = "idle"
      /\ main = "split" /\ main' = "open" /\ pc = "done" /\ pc' = "read" /\ out' = <<>>
  BY DEF NextFile, writer
<1>2. Len(<<>>) = 0
  BY EmptySeq
<1>3. Standing'
  BY <1>1, <1>2 DEF CallsInv, Standing
<1> QED
  BY <1>1, <1>3, CallsUntouched

LEMMA SplitInvStep == SplitInv /\ [SplitNext]_splitVars => SplitInv'
<1> SUFFICES ASSUME SplitInv, [SplitNext]_splitVars PROVE SplitInv'
  OBVIOUS
<1>1. HandedInv /\ HandedInv' /\ ReaderInv /\ TextGiven
  BY SplitReaderStep, OfReader DEF SplitInv
<1>2. [WrP!Next]_(WrP!vars) /\ WrP!PiecesInv
  BY <1>1, WriterSteps DEF SplitInv
<1>3. WrP!PiecesInv'
  BY <1>2, WriterAssumptions, WrP!PiecesInvStep
<1>4. CallsInv /\ CallsAre
  BY CallsTyped DEF SplitInv
<1>5. CallsInv'
  <2>1. CASE OpenInput
    BY <1>1, <1>4, <2>1, OpenInputCalls
  <2>2. CASE InputFails
    BY <1>4, <2>2, InputFailsCalls
  <2>3. CASE HandOn
    BY <1>1, <1>2, <1>4, <2>3, HandOnCalls
  <2>4. CASE NextFile
    BY <1>4, <2>4, NextFileCalls
  <2>5. CASE ScanOn \/ Write \/ FiniProc \/ GiveUp \/ Exit \/ UNCHANGED splitVars
    <3>1. fed' = fed /\ texts' = texts /\ Len(out') = Len(out) /\ main' = main /\ Standing'
      BY <1>1, <1>4, <2>5, StandingStep
    <3> QED
      BY <1>4, <3>1, CallsUntouched
  <2> QED
    BY <2>1, <2>2, <2>3, <2>4, <2>5 DEF SplitNext
<1> QED
  BY <1>1, <1>3, <1>5 DEF SplitInv

LEMMA SplitInvariant == SplitSpec => []SplitInv
  BY SplitInvInit, SplitInvStep, PTL DEF SplitSpec

---------------------------------------------------------------------------
\* Reading, moving and growing the buffer never lose, repeat or reorder a
\* character, of any of the inputs (ttl-split.c:347-397).
THEOREM EveryInputContiguous == SplitSpec => []Contiguous
<1>1. SplitInv => Contiguous
  BY OfReader DEF SplitInv, ReaderInv
<1> QED
  BY <1>1, SplitInvariant, PTL

\* Each statement that the scanner hands on and no failure drops, in the reader or
\* in the writer, is in exactly one piece, once, and in the order of the FILEs
\* (ttl-split.c:188-225, :418-428).
THEOREM SplitOnceAndInOrder == SplitSpec => []OnceAndInOrder
<1>1. SplitInv => OnceAndInOrder
  <2> SUFFICES ASSUME SplitInv PROVE OnceAndInOrder
    OBVIOUS
  <2>1. WrP!OnceAndInOrder
    BY WriterAssumptions, WrP!OrderFollows DEF SplitInv
  <2> QED
    BY <2>1 DEF OnceAndInOrder, Wr!OnceAndInOrder, WrP!OnceAndInOrder,
       Wr!StatementsAt, WrP!StatementsAt, Wr!IsStatement, WrP!IsStatement,
       Wr!IsDirective, WrP!IsDirective, Wr!Content, WrP!Content,
       Wr!Through, WrP!Through, Wr!Range, WrP!Range
<1> QED
  BY <1>1, SplitInvariant, PTL

\* In every piece, before a statement come the directives of its FILE that were
\* handed on before it and not dropped (ttl-split.c:172-186, :224).
THEOREM SplitSelfContained == SplitSpec => []SelfContained
<1>1. SplitInv => SelfContained
  <2> SUFFICES ASSUME SplitInv PROVE SelfContained
    OBVIOUS
  <2>1. WrP!SelfContained
    BY WriterAssumptions, WrP!SelfContainedFollows DEF SplitInv
  <2> QED
    BY <2>1 DEF SelfContained, Wr!SelfContained, WrP!SelfContained,
       Wr!IsStatement, WrP!IsStatement, Wr!IsDirective, WrP!IsDirective,
       Wr!Content, WrP!Content, Wr!Range, WrP!Range
<1> QED
  BY <1>1, SplitInvariant, PTL

\* No piece holds more than nstmt statements, however many FILEs went into it
\* (ttl-split.c:214-222).
THEOREM SplitQuota == SplitSpec => []Quota
<1>1. SplitInv => Quota
  <2> SUFFICES ASSUME SplitInv PROVE Quota
    OBVIOUS
  <2>1. WrP!Quota
    BY WriterAssumptions, WrP!QuotaFollows DEF SplitInv
  <2> QED
    BY <2>1 DEF Quota, Wr!Quota, WrP!Quota, Wr!StatementsAt, WrP!StatementsAt,
       Wr!IsStatement, WrP!IsStatement, Wr!IsDirective, WrP!IsDirective,
       Wr!Content, WrP!Content, Wr!Cardinality, WrP!Cardinality
<1> QED
  BY <1>1, SplitInvariant, PTL

\* No write goes past the end of the writer's buffer, with the statements that the
\* scanner hands on and with failures on either side of it, until a directive is
\* dropped that is in the cache (ttl-split.c:188-225).
THEOREM SplitBufferSafe == SplitSpec => []Wr!BufNeverOverrun
<1>1. SplitInv => Wr!BufNeverOverrun
  <2> SUFFICES ASSUME SplitInv PROVE Wr!BufNeverOverrun
    OBVIOUS
  <2>1. WrP!CacheMeasured => wpc # "wild_buf" /\ wbix <= wbsz
    BY DEF SplitInv, WrP!PiecesInv, WrP!SizeInv, WrP!Sizes
  <2> QED
    BY <2>1 DEF Wr!BufNeverOverrun, Wr!CacheMeasured, WrP!CacheMeasured, Wr!Range, WrP!Range
<1> QED
  BY <1>1, SplitInvariant, PTL

\* The n-th call for an input is the n-th statement of its text, there is one for each
\* of them unless the reader failed, and what the pieces have are these calls: from
\* text to piece nothing is made up, cut short or swapped, for any number of FILEs,
\* reads, buffers and failures (ttl-split.c:284-287, :347-397, :418-428).
THEOREM SplitFromTextToPiece == SplitSpec => []FromTextToPiece
<1>1. SplitInv => FromTextToPiece
  <2> SUFFICES ASSUME SplitInv PROVE FromTextToPiece
    OBVIOUS
  <2>1. CallsInv /\ CallsAre /\ HandedInv /\ WrP!PiecesInv
    BY CallsTyped DEF SplitInv
  <2>2. \A k \in DOMAIN texts : \A i \in CallsFor(k) : Nth(k, i)
    BY <2>1 DEF CallsInv, CallsAre, CallsFor
  <2>3. main = "split" /\ pc = "done" /\ ~failed =>
          Len(fed) = CallsBefore(Len(texts)) + Len(Due(Len(texts)))
    <3>1. SUFFICES ASSUME main = "split", pc = "done", ~failed
                   PROVE  Len(fed) = CallsBefore(Len(texts)) + Len(Due(Len(texts)))
      OBVIOUS
    <3>2. Len(out) = Len(Stream!Statements(text)) /\ texts[Len(texts)] = text
      BY <2>1, <3>1 DEF HandedInv, Handed, CallsInv, Standing
    <3>3. Len(fed) = CallsBefore(Len(texts)) + Len(out)
      BY <2>1, <3>1 DEF CallsInv
    <3> QED
      BY <3>2, <3>3 DEF Due
  <2>4. ASSUME NEW k \in DOMAIN file, NEW i \in WrP!StatementsAt(WrP!Content(k))
        PROVE  LET x == WrP!Content(k)[i] IN x.no \in DOMAIN fed /\ x = fed[x.no]
    BY <2>1, WriterAssumptions, WrP!GenuineFollows
  <2>5. \A k \in DOMAIN file : \A i \in Wr!StatementsAt(Wr!Content(k)) :
          LET x == Wr!Content(k)[i] IN x.no \in DOMAIN fed /\ x = fed[x.no]
    BY <2>4 DEF Wr!StatementsAt, WrP!StatementsAt, Wr!IsStatement, WrP!IsStatement,
       Wr!IsDirective, WrP!IsDirective, Wr!Content, WrP!Content
  <2> QED
    BY <2>2, <2>3, <2>5 DEF FromTextToPiece, Nth
<1> QED
  BY <1>1, SplitInvariant, PTL

---------------------------------------------------------------------------
(* The pieces of the first FILE: those that PiecesOf names for the calls   *)
(* that are through, up to the first failure.                              *)

Told == Stmts(fed)
AllStmts(P) == [k \in DOMAIN P |-> Stmts(P[k])]
Items == WrP!Item

\* What is written of items, of one more, and of pieces of them.
LEMMA StmtsOf ==
  ASSUME NEW s \in Seq(Items)
  PROVE  /\ Stmts(s) \in Seq(Statement) /\ Len(Stmts(s)) = Len(s)
         /\ \A i \in 1..Len(s) : Stmts(s)[i] = s[i].stmt
<1>1. Len(s) \in Nat /\ DOMAIN s = 1..Len(s) /\ \A i \in 1..Len(s) : s[i] \in Items
  BY LenProperties
<1>2. \A i \in 1..Len(s) : s[i].stmt \in Statement
  BY <1>1 DEF Items, WrP!Item
<1>3. Stmts(s) = [i \in 1..Len(s) |-> s[i].stmt]
  BY <1>1 DEF Stmts
<1>4. Stmts(s) \in [1..Len(s) -> Statement]
  BY <1>2, <1>3
<1> QED
  BY <1>1, <1>3, <1>4

LEMMA StmtsOfMore ==
  ASSUME NEW s \in Seq(Items), NEW x \in Items
  PROVE  x.stmt \in Statement /\ Stmts(Append(s, x)) = Append(Stmts(s), x.stmt)
<1>0. x.stmt \in Statement
  BY DEF Items, WrP!Item
<1> DEFINE t == Append(s, x)
<1>1. /\ t \in Seq(Items) /\ Len(t) = Len(s) + 1 /\ Len(s) \in Nat
      /\ \A i \in 1..Len(s) : t[i] = s[i]
      /\ t[Len(s) + 1] = x
  BY AppendProperties, LenProperties
<1> HIDE DEF t
<1> DEFINE u == Stmts(s)
           v == Stmts(t)
           w == Append(u, x.stmt)
<1>2. /\ u \in Seq(Statement) /\ Len(u) = Len(s) /\ \A i \in 1..Len(s) : u[i] = s[i].stmt
      /\ v \in Seq(Statement) /\ Len(v) = Len(t) /\ \A i \in 1..Len(t) : v[i] = t[i].stmt
  BY <1>1, StmtsOf
<1> HIDE DEF u, v
<1>3. /\ w \in Seq(Statement) /\ Len(w) = Len(u) + 1
      /\ \A i \in 1..Len(u) : w[i] = u[i]
      /\ w[Len(u) + 1] = x.stmt
  BY <1>0, <1>2, AppendProperties
<1> HIDE DEF w
<1>4. \A i \in 1..Len(v) : v[i] = w[i]
  <2>1. \A i \in 1..Len(v) : i \in 1..Len(s) \/ i = Len(s) + 1
    BY <1>1, <1>2
  <2> QED
    BY <1>1, <1>2, <1>3, <2>1
<1>5. v = w
  BY <1>1, <1>2, <1>3, <1>4, SeqEqual
<1> QED
  BY <1>0, <1>5 DEF t, u, v, w

LEMMA AllStmtsOf ==
  ASSUME NEW P \in Seq(Seq(Items))
  PROVE  /\ AllStmts(P) \in Seq(Seq(Statement)) /\ Len(AllStmts(P)) = Len(P)
         /\ \A k \in 1..Len(P) : AllStmts(P)[k] = Stmts(P[k])
<1>1. Len(P) \in Nat /\ DOMAIN P = 1..Len(P) /\ \A k \in 1..Len(P) : P[k] \in Seq(Items)
  BY LenProperties
<1>2. \A k \in 1..Len(P) : Stmts(P[k]) \in Seq(Statement)
  BY <1>1, StmtsOf
<1>3. AllStmts(P) = [k \in 1..Len(P) |-> Stmts(P[k])]
  BY <1>1 DEF AllStmts
<1>4. AllStmts(P) \in [1..Len(P) -> Seq(Statement)]
  BY <1>2, <1>3
<1> QED
  BY <1>1, <1>3, <1>4

LEMMA AllStmtsOfMore ==
  ASSUME NEW P \in Seq(Seq(Items)), NEW s \in Seq(Items)
  PROVE  AllStmts(Append(P, s)) = Append(AllStmts(P), Stmts(s))
<1> DEFINE t == Append(P, s)
<1>1. /\ t \in Seq(Seq(Items)) /\ Len(t) = Len(P) + 1 /\ Len(P) \in Nat
      /\ \A i \in 1..Len(P) : t[i] = P[i]
      /\ t[Len(P) + 1] = s
  BY AppendProperties, LenProperties
<1> HIDE DEF t
<1> DEFINE u == AllStmts(P)
           v == AllStmts(t)
           w == Append(u, Stmts(s))
<1>2. /\ u \in Seq(Seq(Statement)) /\ Len(u) = Len(P) /\ \A i \in 1..Len(P) : u[i] = Stmts(P[i])
      /\ v \in Seq(Seq(Statement)) /\ Len(v) = Len(t) /\ \A i \in 1..Len(t) : v[i] = Stmts(t[i])
      /\ Stmts(s) \in Seq(Statement)
  BY <1>1, AllStmtsOf, StmtsOf
<1> HIDE DEF u, v
<1>3. /\ w \in Seq(Seq(Statement)) /\ Len(w) = Len(u) + 1
      /\ \A i \in 1..Len(u) : w[i] = u[i]
      /\ w[Len(u) + 1] = Stmts(s)
  BY <1>2, AppendProperties
<1> HIDE DEF w
<1>4. \A i \in 1..Len(v) : v[i] = w[i]
  <2> SUFFICES ASSUME NEW i \in 1..Len(v) PROVE v[i] = w[i]
    OBVIOUS
  <2>1. v[i] = Stmts(t[i])
    BY <1>2
  <2>2. CASE i \in 1..Len(P)
    <3>1. t[i] = P[i] /\ u[i] = Stmts(P[i]) /\ w[i] = u[i]
      BY <1>1, <1>2, <1>3, <2>2
    <3> QED
      BY <2>1, <3>1
  <2>3. CASE i = Len(P) + 1
    <3>1. t[i] = s /\ w[i] = Stmts(s)
      BY <1>1, <1>2, <1>3, <2>3
    <3> QED
      BY <2>1, <3>1
  <2> QED
    BY <1>1, <1>2, <2>2, <2>3
<1>5. v = w
  BY <1>1, <1>2, <1>3, <1>4, SeqEqual
<1> QED
  BY <1>5 DEF t, u, v, w

LEMMA AllStmtsOfLast ==
  ASSUME NEW P \in Seq(Seq(Items)), Len(P) \in 1..Len(P), NEW x \in Items
  PROVE  AllStmts([P EXCEPT ![Len(P)] = Append(P[Len(P)], x)])
           = [AllStmts(P) EXCEPT ![Len(P)] = Append(AllStmts(P)[Len(P)], x.stmt)]
<1> DEFINE l == Len(P)
           e == Append(P[l], x)
           t == [P EXCEPT ![l] = e]
           u == AllStmts(P)
           v == AllStmts(t)
           f == Append(u[l], x.stmt)
           w == [u EXCEPT ![l] = f]
<1>1. l \in Nat /\ P[l] \in Seq(Items) /\ e \in Seq(Items)
  BY LenProperties, ElementOfSeq, AppendProperties
<1>2. Stmts(e) = f /\ f \in Seq(Statement)
  <2>1. Stmts(e) = Append(Stmts(P[l]), x.stmt) /\ Stmts(e) \in Seq(Statement)
    BY <1>1, StmtsOfMore, StmtsOf
  <2>2. u[l] = Stmts(P[l])
    BY AllStmtsOf
  <2> QED
    BY <2>1, <2>2
<1> HIDE DEF e, f
<1>3. /\ t \in Seq(Seq(Items)) /\ Len(t) = l
      /\ \A k \in 1..l : t[k] = IF k = l THEN e ELSE P[k]
  BY <1>1, ExceptSeq
<1> HIDE DEF t
<1>4. /\ u \in Seq(Seq(Statement)) /\ Len(u) = l /\ \A k \in 1..l : u[k] = Stmts(P[k])
      /\ v \in Seq(Seq(Statement)) /\ Len(v) = l /\ \A k \in 1..l : v[k] = Stmts(t[k])
  BY <1>3, AllStmtsOf
<1> HIDE DEF u, v
<1>5. /\ w \in Seq(Seq(Statement)) /\ Len(w) = l
      /\ \A k \in 1..l : w[k] = IF k = l THEN f ELSE u[k]
  BY <1>2, <1>4, ExceptSeq
<1> HIDE DEF w
<1>6. \A k \in 1..l : v[k] = w[k]
  BY <1>2, <1>3, <1>4, <1>5
<1>7. v = w
  <2> HIDE DEF l
  <2> QED
    BY <1>4, <1>5, <1>6, SeqEqual
<1> QED
  BY <1>7 DEF e, f, t, u, v, w

---------------------------------------------------------------------------
\* The function of PiecesOf, up to the n-th statement.
IsFilling(a, S, n) ==
  a = [i \in 0..n |-> IF i = 0 THEN NoPieces ELSE With(a[i-1], S[i])]

LEMMA NoFilling ==
  ASSUME NEW S
  PROVE  \E a : IsFilling(a, S, 0) /\ a[0] = NoPieces
<1> DEFINE a == [i \in 0..0 |-> NoPieces]
<1>1. IsFilling(a, S, 0) /\ a[0] = NoPieces
  BY DEF IsFilling
<1> HIDE DEF a
<1> QED
  BY <1>1

\* It is for the statements up to there, whatever comes behind them.
LEMMA SameFilling ==
  ASSUME NEW n \in Nat, NEW S, NEW R, NEW a, IsFilling(a, S, n), \A i \in 1..n : R[i] = S[i]
  PROVE  IsFilling(a, R, n)
<1>1. \A i \in 0..n : (IF i = 0 THEN NoPieces ELSE With(a[i-1], S[i]))
                        = IF i = 0 THEN NoPieces ELSE With(a[i-1], R[i])
  <2>1. SUFFICES ASSUME NEW i \in 0..n, i # 0 PROVE With(a[i-1], S[i]) = With(a[i-1], R[i])
    OBVIOUS
  <2>2. R[i] = S[i]
    BY <2>1
  <2> QED
    BY <2>2
<1>2. a = [i \in 0..n |-> IF i = 0 THEN NoPieces ELSE With(a[i-1], S[i])]
  BY DEF IsFilling
<1>3. a = [i \in 0..n |-> IF i = 0 THEN NoPieces ELSE With(a[i-1], R[i])]
  BY <1>1, <1>2
<1> QED
  BY <1>3 DEF IsFilling

LEMMA OneMoreFilled ==
  ASSUME NEW n \in Nat, NEW S, NEW a, IsFilling(a, S, n)
  PROVE  \E b : IsFilling(b, S, n + 1) /\ b[n + 1] = With(a[n], S[n + 1])
<1> DEFINE b == [i \in 0..n+1 |-> IF i = n + 1 THEN With(a[n], S[n + 1]) ELSE a[i]]
<1>1. ASSUME NEW i \in 0..n+1 PROVE b[i] = IF i = 0 THEN NoPieces ELSE With(b[i-1], S[i])
  <2>1. CASE i = 0
    BY <2>1 DEF IsFilling
  <2>2. CASE i \in 1..n
    <3>1. b[i] = a[i] /\ b[i-1] = a[i-1]
      BY <2>2
    <3>2. a[i] = With(a[i-1], S[i])
      BY <2>2 DEF IsFilling
    <3> HIDE DEF b
    <3> QED
      BY <2>2, <3>1, <3>2
  <2>3. CASE i = n + 1
    <3>1. b[i] = With(a[n], S[i]) /\ b[i-1] = a[n] /\ i # 0
      BY <2>3
    <3> HIDE DEF b
    <3> QED
      BY <3>1
  <2> QED
    BY <2>1, <2>2, <2>3
<1>2. b = [i \in 0..n+1 |-> b[i]] /\ b[n + 1] = With(a[n], S[n + 1])
  OBVIOUS
<1> HIDE DEF b
<1>3. IsFilling(b, S, n + 1)
  BY <1>1, <1>2 DEF IsFilling
<1> QED
  BY <1>2, <1>3

LEMMA FillingsAgree ==
  ASSUME NEW n \in Nat, NEW S, NEW a, NEW b, IsFilling(a, S, n), IsFilling(b, S, n)
  PROVE  a[n] = b[n]
<1> DEFINE T == {i \in 0..n : a[i] = b[i]}
<1>1. 0 \in T
  BY DEF IsFilling
<1>2. ASSUME NEW i \in 0..n-1, i \in T PROVE i + 1 \in T
  <2>1. i + 1 \in 0..n /\ i + 1 # 0 /\ (i + 1) - 1 = i /\ a[i] = b[i]
    BY <1>2
  <2>2. a[i + 1] = With(a[i], S[i + 1]) /\ b[i + 1] = With(b[i], S[i + 1])
    BY <2>1 DEF IsFilling
  <2> QED
    BY <2>1, <2>2
<1> HIDE DEF T
<1>3. n \in T
  BY <1>1, <1>2, IntervalInduction
<1> QED
  BY <1>3 DEF T

LEMMA PiecesOfIs ==
  ASSUME NEW S, Len(S) \in Nat, NEW a, IsFilling(a, S, Len(S))
  PROVE  PiecesOf(S) = a[Len(S)].pieces
<1> DEFINE b == CHOOSE b : IsFilling(b, S, Len(S))
<1>1. IsFilling(b, S, Len(S))
  OBVIOUS
<1>2. PiecesOf(S) = b[Len(S)].pieces
  BY Zenon DEF PiecesOf, IsFilling
<1> HIDE DEF b
<1>3. a[Len(S)] = b[Len(S)]
  <2>1. PICK n \in Nat : n = Len(S)
    OBVIOUS
  <2>2. a[n] = b[n]
    BY <1>1, <2>1, FillingsAgree
  <2> QED
    BY <2>1, <2>2
<1> QED
  BY <1>2, <1>3

---------------------------------------------------------------------------
\* The calls that are through, what the pieces hold, and as far as this goes: until a
\* failure, the end of the input, or a write out of bounds.
Handled == IF wpc = "idle" THEN Len(fed) ELSE Len(fed) - 1
PieceStmts == AllStmts(WrP!Made)
Undisturbed == inp = 1 /\ lost = {} /\ wpc \notin {"done", "wild_dir", "wild_buf"}

\* The writer is where p says, but that a piece may have been opened for the statement
\* of the call.
Fits(p) ==
  /\ p.dirs = Stmts(WrP!DirsSeen)
  /\ istmt = Count(p)
  /\ PieceStmts = IF cfd THEN Begun(p) ELSE p.pieces
  /\ wpc = "idle" \/ ~cfd => cfd = ~Concluded(p)

FillInv == Undisturbed => \E a : IsFilling(a, Told, Handled) /\ Fits(a[Handled])

\* The types of it all.
Shapes ==
  /\ fed \in Seq(Items) /\ Len(fed) \in Nat
  /\ WrP!Made \in Seq(Seq(Items)) /\ Len(WrP!Made) = Len(file)
  /\ WrP!DirsSeen \in Seq(Items)
  /\ istmt \in Nat /\ nstmt \in Nat /\ cfd \in BOOLEAN
  /\ cfd => Len(WrP!Made) \in 1..Len(WrP!Made)
  /\ inp \in Nat \ {0}
  /\ wpc # "idle" /\ wpc \notin {"done", "wild_dir", "wild_buf"} => Len(fed) # 0

LEMMA HasShape == WrP!PiecesInv /\ WrP!MapInv => Shapes
<1> SUFFICES ASSUME WrP!PiecesInv, WrP!MapInv PROVE Shapes
  OBVIOUS
<1>1. WrP!TypeOK /\ (WrP!InCall => fed # <<>>)
  BY DEF WrP!PiecesInv, WrP!TypeInv
<1>2. fed \in Seq(Items) /\ dir \in Seq(Items) /\ istmt \in Nat /\ cfd \in BOOLEAN /\ inp \in 1..MaxInputs
  BY <1>1 DEF WrP!TypeOK, Items
<1>3. nstmt \in Nat /\ MaxInputs \in Nat
  BY WriterAssumptions DEF WrP!BoundAssumption
<1>4. Len(fed) \in Nat /\ Len(dir) \in Nat
  BY <1>2, LenProperties
<1>5. WrP!MadeSeq
  BY <1>1, WriterAssumptions, WrP!MadeIsSeq
<1>6. cfd => Len(file) \in 1..Len(file)
  BY <1>1, WriterAssumptions, WrP!MadeType
<1>7. WrP!DirsSeen \in Seq(Items)
  <2>1. CASE WrP!AheadOfPiece
    <3>1. dir # <<>>
      BY <2>1 DEF WrP!MapInv, WrP!AheadIsLast
    <3>2. Len(dir) \in Nat \ {0}
      BY <1>2, <3>1, EmptySeq
    <3>3. 1 \in 1..Len(dir)+1 /\ Len(dir) - 1 \in 1-1..Len(dir)
      BY <3>2
    <3>4. SubSeq(dir, 1, Len(dir) - 1) \in Seq(Items)
      BY <1>2, <3>3, PartOf
    <3> QED
      BY <2>1, <3>4 DEF WrP!DirsSeen
  <2>2. CASE ~WrP!AheadOfPiece
    BY <1>2, <2>2 DEF WrP!DirsSeen
  <2> QED
    BY <2>1, <2>2
<1>8. wpc # "idle" /\ wpc \notin {"done", "wild_dir", "wild_buf"} => Len(fed) # 0
  <2>1. fed # <<>> => Len(fed) # 0
    BY <1>2, EmptySeq
  <2>2. wpc # "idle" /\ wpc \notin {"done", "wild_dir", "wild_buf"} => WrP!InCall
    BY <1>1 DEF WrP!TypeOK, WrP!InCall
  <2> QED
    BY <1>1, <2>1, <2>2
<1> QED
  BY <1>2, <1>3, <1>4, <1>5, <1>6, <1>7, <1>8 DEF Shapes, WrP!MadeSeq, Items, Handled

LEMMA HasShapeNext == WrP!PiecesInv' /\ WrP!MapInv' => Shapes'
  BY HasShape, PTL

\* A step that the pieces show nothing of, and after which the call goes on.
LEMMA SameFits ==
  ASSUME WrP!SameSeen, istmt' = istmt, wpc' # "idle", NEW p, Fits(p)
  PROVE  Fits(p)'
<1>1. /\ PieceStmts' = PieceStmts /\ Stmts(WrP!DirsSeen)' = Stmts(WrP!DirsSeen) /\ cfd' = cfd
  <2>1. WrP!Made' = WrP!Made /\ WrP!DirsSeen' = WrP!DirsSeen
    BY DEF WrP!SameSeen
  <2> QED
    BY <2>1 DEF WrP!SameSeen, PieceStmts, AllStmts, Stmts
<1> QED
  BY <1>1 DEF Fits

\* A piece is opened only for what does not belong into the one before.
LEMMA BeginFits ==
  ASSUME Shapes, WrP!BeginSeen, istmt' = istmt, wpc' # "idle", cfd', NEW p, Fits(p)
  PROVE  Fits(p)'
<1>1. ~cfd /\ Concluded(p)
  BY DEF WrP!BeginSeen, Fits, Shapes
<1>2. PieceStmts' = Append(PieceStmts, Stmts(WrP!DirsSeen))
  <2> DEFINE P == WrP!Made
             d == WrP!DirsSeen
  <2>1. P \in Seq(Seq(Items)) /\ d \in Seq(Items) /\ P' = Append(P, d)
    BY DEF Shapes, WrP!BeginSeen
  <2> HIDE DEF P, d
  <2>2. AllStmts(Append(P, d)) = Append(AllStmts(P), Stmts(d))
    BY <2>1, AllStmtsOfMore
  <2>3. AllStmts(P)' = AllStmts(Append(P, d))
    BY <2>1 DEF AllStmts, Stmts
  <2>4. AllStmts(P)' = Append(AllStmts(P), Stmts(d))
    BY <2>2, <2>3
  <2> QED
    BY <2>4 DEF PieceStmts, P, d
<1>3. PieceStmts' = Begun(p)
  BY <1>1, <1>2 DEF Fits, Begun
<1>4. Stmts(WrP!DirsSeen)' = Stmts(WrP!DirsSeen)
  <2>1. WrP!DirsSeen' = WrP!DirsSeen
    BY DEF WrP!BeginSeen
  <2> QED
    BY <2>1 DEF Stmts
<1> QED
  BY <1>3, <1>4 DEF Fits

\* The statement of the call joins the pieces as PiecesOf says.
LEMMA PutFits ==
  ASSUME Shapes, Shapes', WrP!PutSeen, wpc = "put", wpc' = "idle", istmt' = WrP!CountSeen',
         NEW p, Fits(p), NEW s, s = WrP!cur.stmt
  PROVE  Fits(With(p, s))'
<1> DEFINE x == WrP!cur
           q == With(p, s)
           B == PieceStmts
           P == WrP!Made
           d == WrP!DirsSeen
           c == IF Directive(s) THEN istmt ELSE istmt + 1
<1>1. x \in Items /\ s = x.stmt /\ s \in Statement /\ cfd
  <2>1. x \in Items /\ cfd
    BY DEF WrP!PutSeen, Items
  <2> QED
    BY <2>1, StmtsOfMore, EmptySeq
<1>2. WrP!IsDirective(x) <=> Directive(s)
  BY <1>1 DEF WrP!IsDirective, Directives, Directive
<1>3. p.dirs = Stmts(d) /\ Count(p) = istmt /\ Begun(p) = B
  BY <1>1 DEF Fits
<1>4. /\ B \in Seq(Seq(Statement)) /\ Len(B) = Len(P) /\ Len(P) \in 1..Len(P)
      /\ P \in Seq(Seq(Items)) /\ d \in Seq(Items)
  <2>1. P \in Seq(Seq(Items)) /\ d \in Seq(Items) /\ Len(P) \in 1..Len(P)
    BY <1>1 DEF Shapes
  <2> HIDE DEF P
  <2>2. AllStmts(P) \in Seq(Seq(Statement)) /\ Len(AllStmts(P)) = Len(P)
    BY <2>1, AllStmtsOf
  <2>3. B = AllStmts(P)
    BY DEF PieceStmts, P
  <2> QED
    BY <2>1, <2>2, <2>3
<1>5. q.pieces = B' /\ B' # <<>>
  <2>1. P' = [P EXCEPT ![Len(P)] = Append(P[Len(P)], x)]
    BY DEF WrP!PutSeen
  <2>2. AllStmts([P EXCEPT ![Len(P)] = Append(P[Len(P)], x)])
          = [AllStmts(P) EXCEPT ![Len(P)] = Append(AllStmts(P)[Len(P)], s)]
    <3> HIDE DEF P, x
    <3> QED
      BY <1>1, <1>4, AllStmtsOfLast
  <2>3. B' = [B EXCEPT ![Len(B)] = Append(B[Len(B)], s)]
    <3>1. B = AllStmts(P)
      BY DEF PieceStmts
    <3>2. B' = AllStmts([P EXCEPT ![Len(P)] = Append(P[Len(P)], x)])
      BY <2>1 DEF PieceStmts, AllStmts, Stmts
    <3> HIDE DEF B, P, x
    <3> QED
      BY <1>4, <2>2, <3>1, <3>2
  <2>4. q.pieces = [B EXCEPT ![Len(B)] = Append(B[Len(B)], s)]
    <3> HIDE DEF B
    <3> QED
      BY <1>3 DEF With
  <2>5. B' # <<>>
    <3>1. P' \in Seq(Seq(Items)) /\ Len(P') = Len(P)
      <4>1. P[Len(P)] \in Seq(Items)
        <5> HIDE DEF P
        <5> QED
          BY <1>4, ElementOfSeq
      <4>2. Append(P[Len(P)], x) \in Seq(Items)
        BY <1>1, <4>1, AppendProperties
      <4> HIDE DEF P
      <4> QED
        BY <1>4, <2>1, <4>2, ExceptSeq
    <3>2. Len(B') = Len(P')
      <4>1. AllStmts(P)' = AllStmts(P')
        BY DEF AllStmts, Stmts
      <4>2. B' = AllStmts(P')
        BY <4>1 DEF PieceStmts
      <4> HIDE DEF P
      <4> QED
        BY <3>1, <4>2, AllStmtsOf
    <3>3. Len(B') # 0
      <4> HIDE DEF B, P
      <4> QED
        BY <1>4, <3>1, <3>2
    <3> QED
      BY <3>3, EmptySeq
  <2> HIDE DEF B, q
  <2> QED
    BY <2>3, <2>4, <2>5
<1>6. q.dirs = Stmts(d)'
  <2>1. d' = IF Directive(s) THEN Append(d, x) ELSE d
    BY <1>2 DEF WrP!PutSeen
  <2>2. Stmts(Append(d, x)) = Append(Stmts(d), s)
    <3> HIDE DEF d
    <3> QED
      BY <1>1, <1>4, StmtsOfMore
  <2>3. Stmts(d)' = IF Directive(s) THEN Append(Stmts(d), s) ELSE Stmts(d)
    <3>1. Stmts(d)' = Stmts(d')
      BY DEF Stmts
    <3> HIDE DEF d, x
    <3> QED
      BY <2>1, <2>2, <3>1
  <2>4. q.dirs = IF Directive(s) THEN Append(p.dirs, s) ELSE p.dirs
    BY DEF With
  <2> HIDE DEF d, q
  <2> QED
    BY <1>3, <2>3, <2>4
<1>7. q.count = c /\ c \in Nat
  <2>1. istmt \in Nat
    BY DEF Shapes
  <2> QED
    BY <1>3, <2>1 DEF With
<1>8. cfd' = (c < nstmt) /\ istmt' = IF c < nstmt THEN c ELSE 0
  <2>1. WrP!CountSeen = istmt
    BY DEF WrP!CountSeen
  <2> QED
    BY <1>2, <2>1 DEF WrP!PutSeen
<1>9. nstmt \in Nat
  BY DEF Shapes
<1> HIDE DEF q, c, B, d
<1>10. (q.pieces = <<>>) = FALSE
  BY <1>5
<1>11. Concluded(q) = (c >= nstmt)
  BY <1>7, <1>10 DEF Concluded
<1>12. (c >= nstmt) = ~(c < nstmt)
  BY <1>7, <1>9
<1>13. cfd' = ~Concluded(q)
  <2>1. CASE c < nstmt
    BY <1>8, <1>11, <1>12, <2>1
  <2>2. CASE ~(c < nstmt)
    <3>1. (c < nstmt) = FALSE /\ (c >= nstmt) = TRUE
      BY <1>7, <1>9, <2>2
    <3>2. cfd' = FALSE /\ Concluded(q) = TRUE
      BY <1>8, <1>11, <3>1, Zenon
    <3> QED
      BY <3>2
  <2> QED
    BY <2>1, <2>2
<1>14. istmt' = Count(q)
  BY <1>7, <1>8, <1>11, <1>12 DEF Count
<1>15. B' = IF cfd' THEN Begun(q) ELSE q.pieces
  <2>1. CASE cfd'
    BY <1>5, <1>13, <2>1 DEF Begun
  <2>2. CASE ~cfd'
    BY <1>5, <2>2
  <2> QED
    BY <2>1, <2>2
<1>16. Fits(q)'
  BY <1>6, <1>13, <1>14, <1>15 DEF Fits, B, d
<1> QED
  BY <1>16 DEF q

LEMMA FillInit == SplitInit => FillInv
<1> SUFFICES ASSUME SplitInit PROVE FillInv
  OBVIOUS
<1>1. /\ fed = <<>> /\ dir = <<>> /\ file = <<>> /\ istmt = 0 /\ cfd = FALSE /\ wpc = "idle"
  BY DEF SplitInit, Wr!Init
<1>2. Len(<<>>) = 0 /\ <<>> \in Seq(Items) /\ <<>> \in Seq(Seq(Items))
  BY EmptySeq
<1>3. Handled = 0
  BY <1>1, <1>2 DEF Handled
<1>4. PICK a : IsFilling(a, Told, 0) /\ a[0] = NoPieces
  BY NoFilling
<1>5. WrP!DirsSeen = <<>> /\ WrP!Made = <<>>
  <2>1. WrP!DirsSeen = <<>>
    BY <1>1 DEF WrP!DirsSeen, WrP!AheadOfPiece
  <2>2. DOMAIN <<>> = {}
    OBVIOUS
  <2>3. WrP!Made = <<>>
    BY <1>1, <2>2 DEF WrP!Made
  <2> QED
    BY <2>1, <2>3
<1>6. Stmts(<<>>) = <<>> /\ AllStmts(<<>>) = <<>>
  <2>1. Len(Stmts(<<>>)) = 0 /\ Stmts(<<>>) \in Seq(Statement)
    BY <1>2, StmtsOf
  <2>2. Len(AllStmts(<<>>)) = 0 /\ AllStmts(<<>>) \in Seq(Seq(Statement))
    BY <1>2, AllStmtsOf
  <2> QED
    BY <2>1, <2>2, EmptySeq
<1>7. Concluded(NoPieces) = TRUE /\ NoPieces.pieces = <<>> /\ NoPieces.dirs = <<>>
  BY DEF Concluded, NoPieces
<1>8. Count(NoPieces) = 0
  BY <1>7 DEF Count
<1>9. Fits(NoPieces)
  BY <1>1, <1>5, <1>6, <1>7, <1>8 DEF Fits, PieceStmts
<1>10. IsFilling(a, Told, Handled) /\ Fits(a[Handled])
  BY <1>3, <1>4, <1>9
<1> QED
  BY <1>10 DEF FillInv

\* What the call that is running leaves of the calls before it.
LEMMA FillStep ==
  ASSUME SplitInv, SplitInv', WrP!MapInv, WrP!MapInv', FillInv, [SplitNext]_splitVars
  PROVE  FillInv'
<1>r. ReaderInv /\ TextGiven /\ WrP!PiecesInv /\ WrP!PiecesInv'
  BY OfReader DEF SplitInv
<1>s. Shapes /\ Shapes'
  BY <1>r, HasShape, HasShapeNext
<1>n. [WrP!Next]_(WrP!vars)
  BY <1>r, WriterSteps
<1> SUFFICES ASSUME Undisturbed'
             PROVE  (\E a : IsFilling(a, Told, Handled) /\ Fits(a[Handled]))'
  BY DEF FillInv
<1>u. inp' = 1 /\ lost' = {} /\ wpc' \notin {"done", "wild_dir", "wild_buf"}
  BY DEF Undisturbed
<1>l. lost = {}
  BY <1>n, <1>r, <1>u, WriterAssumptions, WrP!RecordStep DEF WrP!PiecesInv
<1>w. /\ WrP!Called \/ WrP!Between => WrP!SameSeen
      /\ WrP!OpenPiece => WrP!BeginSeen
      /\ WrP!PutStmt \/ WrP!PutLast => WrP!PutSeen
      /\ ~WrP!Dropped
  BY <1>n, <1>r, <1>u, WriterAssumptions, WrP!SeenStep
<1>1. CASE OpenInput \/ ScanOn \/ NextFile \/ Exit \/ UNCHANGED splitVars
  <2>1. UNCHANGED writer
    BY <1>1 DEF OpenInput, ScanOn, NextFile, Exit, splitVars
  <2>2. Undisturbed
    BY <1>u, <2>1 DEF Undisturbed, writer
  <2>3. PICK a : IsFilling(a, Told, Handled) /\ Fits(a[Handled])
    BY <2>2 DEF FillInv
  <2>4. Told' = Told /\ Handled' = Handled
    BY <2>1 DEF Told, Stmts, Handled, writer
  <2>5. PICK p : p = a[Handled]
    OBVIOUS
  <2>6. Fits(p)'
    <3>1. WrP!Made' = WrP!Made /\ WrP!DirsSeen' = WrP!DirsSeen
      BY <2>1 DEF writer, WrP!Made, WrP!Content, WrP!DirsSeen, WrP!AheadOfPiece, WrP!cur, WrP!IsDirective
    <3>2. PieceStmts' = PieceStmts /\ Stmts(WrP!DirsSeen)' = Stmts(WrP!DirsSeen)
      BY <3>1 DEF PieceStmts, AllStmts, Stmts
    <3> QED
      BY <2>1, <2>3, <2>5, <3>2 DEF Fits, writer
  <2>7. IsFilling(a, Told, Handled)'
    BY <2>3, <2>4 DEF IsFilling
  <2>8. Fits(a[Handled])'
    BY <2>4, <2>5, <2>6
  <2> QED
    BY <2>7, <2>8
<1>2. CASE InputFails \/ GiveUp \/ FiniProc
  <2>1. Wr!NextInput
    BY <1>2 DEF InputFails, GiveUp, FiniProc, Wr!GiveUp, Wr!FiniStmt
  <2>2. inp' = inp + 1
    BY <1>u, <2>1 DEF Wr!NextInput
  <2> QED
    BY <1>s, <1>u, <2>2 DEF Shapes
<1>3. CASE HandOn
  <2>1. WrP!Called
    BY <1>3, <1>r, HandOnIsCall
  <2>2. PICK s \in Statement : WrP!Call(s)
    BY <2>1 DEF WrP!Called
  <2> DEFINE c == [no |-> Len(fed) + 1, stmt |-> s, inp |-> inp]
  <2>3. /\ wpc = "idle" /\ wpc' # "idle" /\ fed' = Append(fed, c)
        /\ istmt' = istmt /\ inp' = inp
    BY <2>2 DEF WrP!Call
  <2>4. Undisturbed /\ Handled = Len(fed)
    BY <1>u, <1>l, <2>3 DEF Undisturbed, Handled
  <2>5. PICK a : IsFilling(a, Told, Handled) /\ Fits(a[Handled])
    BY <2>4 DEF FillInv
  <2>6. PICK n, p, S : n = Len(fed) /\ p = a[n] /\ S = Told
    OBVIOUS
  <2>7. IsFilling(a, S, n) /\ Fits(p) /\ n \in Nat
    BY <1>s, <2>4, <2>5, <2>6 DEF Shapes
  <2>8. Fits(p)'
    BY <1>w, <2>1, <2>3, <2>7, SameFits
  <2>9. /\ fed \in Seq(Items) /\ fed' \in Seq(Items)
        /\ Len(fed') = n + 1 /\ \A i \in 1..n : fed'[i] = fed[i]
    <3>1. fed \in Seq(Items) /\ fed' \in Seq(Items)
      BY <1>s DEF Shapes
    <3>2. fed' # fed
      <4>1. c \in {c} /\ fed \in Seq(Items \cup {c})
        <5>1. fed \in [1..Len(fed) -> Items] /\ Len(fed) \in Nat
          BY <3>1, LenProperties
        <5> DEFINE R == Items \cup {c}
        <5>2. fed \in [1..Len(fed) -> R]
          BY <5>1
        <5> HIDE DEF R
        <5>3. fed \in Seq(R)
          BY <5>1, <5>2
        <5> QED
          BY <5>3 DEF R
      <4> HIDE DEF c
      <4>2. Len(Append(fed, c)) = Len(fed) + 1
        BY <4>1, AppendProperties
      <4> QED
        BY <2>3, <2>6, <2>7, <4>2
    <3>3. Len(fed') = Len(fed) + 1 /\ \A i \in 1..Len(fed) : fed'[i] = fed[i]
      BY <1>n, <1>r, <3>2, WriterAssumptions, WrP!RecordStep DEF WrP!PiecesInv
    <3> QED
      BY <2>6, <3>1, <3>3
  <2>10. Handled' = n
    BY <2>3, <2>7, <2>9 DEF Handled
  <2>11. \A i \in 1..n : Told'[i] = S[i]
    <3> DEFINE G == fed'
    <3>1. Told' = Stmts(G)
      BY DEF Told, Stmts
    <3> HIDE DEF G
    <3>2. \A i \in 1..n : Stmts(G)[i] = G[i].stmt
      <4>1. \A i \in 1..Len(G) : Stmts(G)[i] = G[i].stmt
        BY <2>9, StmtsOf DEF G
      <4> QED
        BY <2>7, <2>9, <4>1 DEF G
    <3>3. \A i \in 1..n : S[i] = fed[i].stmt
      BY <2>6, <2>9, StmtsOf DEF Told
    <3> QED
      BY <2>9, <3>1, <3>2, <3>3 DEF G
  <2>12. IsFilling(a, Told', n)
    BY <2>7, <2>11, SameFilling
  <2>13. IsFilling(a, Told, Handled)'
    BY <2>10, <2>12 DEF IsFilling
  <2>14. Fits(a[Handled])'
    BY <2>6, <2>8, <2>10
  <2> QED
    BY <2>13, <2>14
<1>4. CASE Write
  <2>1. WrP!Between \/ WrP!OpenPiece \/ WrP!PutStmt \/ WrP!PutLast
    BY <1>4, <1>w, WriteRuns
  <2>2. fed' = fed /\ inp' = inp
    BY <2>1 DEF WrP!buffer, WrP!cache, WrP!output, WrP!calls, WrP!OpenPiece, WrP!Between, WrP!NotDirective,
       WrP!CacheDirective, WrP!GrowCache, WrP!Cached, WrP!HasRoom, WrP!Flush, WrP!NoResize, WrP!Resize,
       WrP!PutStmt, WrP!PutLast
  <2>3. Told' = Told
    BY <2>2 DEF Told, Stmts
  <2>4. wpc \notin {"idle", "done", "wild_dir", "wild_buf"}
    BY <2>1 DEF WrP!OpenPiece, WrP!Between, WrP!NotDirective, WrP!CacheDirective, WrP!GrowCache,
       WrP!HasRoom, WrP!Flush, WrP!NoResize, WrP!Resize, WrP!PutStmt, WrP!PutLast
  <2>5. Undisturbed
    BY <1>l, <1>u, <2>2, <2>4 DEF Undisturbed
  <2>6. PICK a : IsFilling(a, Told, Handled) /\ Fits(a[Handled])
    BY <2>5 DEF FillInv
  <2>7. PICK n, p, S : n = Handled /\ p = a[n] /\ S = Told
    OBVIOUS
  <2>8. IsFilling(a, S, n) /\ Fits(p) /\ n = Len(fed) - 1 /\ Len(fed) \in Nat \ {0} /\ n \in Nat
    <3>1. n = Len(fed) - 1
      BY <2>4, <2>7 DEF Handled
    <3>2. Len(fed) \in Nat \ {0}
      BY <1>s, <2>4 DEF Shapes
    <3> QED
      BY <2>6, <2>7, <3>1, <3>2
  <2>9. ASSUME wpc' # "idle", Fits(p)' PROVE (\E b : IsFilling(b, Told, Handled) /\ Fits(b[Handled]))'
    <3>1. Handled' = n
      BY <2>2, <2>8, <2>9 DEF Handled
    <3>2. IsFilling(a, Told, Handled)'
      BY <2>3, <2>7, <2>8, <3>1 DEF IsFilling
    <3>3. Fits(a[Handled])'
      BY <2>7, <2>9, <3>1
    <3> QED
      BY <3>2, <3>3
  <2>10. CASE WrP!Between
    <3>1. istmt' = istmt /\ wpc' # "idle"
      BY <2>10 DEF WrP!Between, WrP!NotDirective, WrP!CacheDirective, WrP!GrowCache, WrP!Cached,
         WrP!HasRoom, WrP!Flush, WrP!NoResize, WrP!Resize
    <3> QED
      BY <1>w, <2>8, <2>9, <2>10, <3>1, SameFits
  <2>11. CASE WrP!OpenPiece
    <3>1. istmt' = istmt /\ wpc' # "idle" /\ cfd'
      BY <2>11 DEF WrP!OpenPiece
    <3> QED
      BY <1>s, <1>w, <2>8, <2>9, <2>11, <3>1, BeginFits
  <2>12. CASE WrP!PutStmt \/ WrP!PutLast
    <3>1. wpc = "put" /\ wpc' = "idle"
      BY <1>u, <2>12 DEF WrP!PutStmt, WrP!PutLast
    <3>2. istmt' = WrP!CountSeen'
      BY <3>1 DEF WrP!CountSeen
    <3>3. PICK s : s = WrP!cur.stmt
      OBVIOUS
    <3>4. Fits(With(p, s))'
      BY <1>s, <1>w, <2>8, <2>12, <3>1, <3>2, <3>3, PutFits
    <3>5. S[n + 1] = s
      <4>1. n + 1 = Len(fed) /\ n + 1 \in 1..Len(fed)
        BY <2>8
      <4>2. Told[n + 1] = fed[n + 1].stmt
        BY <1>s, <4>1, StmtsOf DEF Told, Shapes
      <4> QED
        BY <2>7, <3>3, <4>1, <4>2 DEF WrP!cur
    <3>6. PICK b : IsFilling(b, S, n + 1) /\ b[n + 1] = With(p, s)
      BY <2>7, <2>8, <3>5, OneMoreFilled
    <3>7. Handled' = n + 1
      BY <2>2, <2>8, <3>1 DEF Handled
    <3>8. IsFilling(b, Told, Handled)'
      BY <2>3, <2>7, <3>6, <3>7 DEF IsFilling
    <3>9. Fits(b[Handled])'
      BY <3>4, <3>6, <3>7
    <3> QED
      BY <3>8, <3>9
  <2> QED
    BY <2>1, <2>10, <2>11, <2>12
<1> QED
  BY <1>1, <1>2, <1>3, <1>4 DEF SplitNext

---------------------------------------------------------------------------
\* At the end of the first FILE all calls are through, and there was one for each of
\* its statements.
FirstSplit == main = "split" /\ pc = "done" /\ Len(texts) = 1 /\ ~failed /\ lost = {}
DoneInv ==
  /\ pc = "done" => wpc \in {"idle", "done"}
  /\ FirstSplit => ~cfd /\ PieceStmts = PiecesOf(Due(1))

LEMMA DoneInit == SplitInit => DoneInv
  BY DEF SplitInit, Init, DoneInv, FirstSplit

\* Without a failure, the calls for the first FILE are its statements.
LEMMA FirstCalls ==
  ASSUME CallsInv, CallsAre, Len(texts) = 1
  PROVE  /\ CallsBefore(1) = 0
         /\ \A i \in 1..Len(fed) : i \in 1..Len(Due(1)) /\ fed[i].stmt = Due(1)[i]
<1>1. \A i \in 1..Len(fed) : fed[i].inp = 1 /\ Nth(fed[i].inp, i)
  BY DEF CallsInv
<1>2. CallsBefore(1) = 0
  <2>1. {i \in DOMAIN fed : fed[i].inp < 1} = {}
    BY <1>1 DEF CallsAre
  <2> QED
    BY <2>1, FS_EmptySet DEF CallsBefore
<1>3. ASSUME NEW i \in 1..Len(fed) PROVE i \in 1..Len(Due(1)) /\ fed[i].stmt = Due(1)[i]
  <2>1. Nth(1, i)
    BY <1>1
  <2>2. i - CallsBefore(1) = i
    BY <1>2 DEF CallsAre
  <2> QED
    BY <2>1, <2>2 DEF Nth
<1> QED
  BY <1>2, <1>3

LEMMA FiniProcDone ==
  ASSUME SplitInv, SplitInv', WrP!MapInv, FillInv, FiniProc, [SplitNext]_splitVars, FirstSplit'
  PROVE  (~cfd /\ PieceStmts = PiecesOf(Due(1)))'
<1>r. ReaderInv /\ TextGiven /\ WrP!PiecesInv /\ CallsInv /\ CallsAre /\ Shapes
  BY OfReader, CallsTyped, HasShape DEF SplitInv
<1>1. /\ main = "split" /\ wpc = "idle" /\ pc = "fini" /\ pc' = "done"
      /\ texts' = texts /\ text' = text /\ out' = out /\ failed' = failed
  BY DEF FiniProc, Quiet, Fini, input
<1>2. Len(texts) = 1 /\ ~failed' /\ lost' = {}
  BY <1>1 DEF FirstSplit
<1>3. inp = 1 /\ texts[1] = text
  BY <1>1, <1>2, <1>r DEF CallsInv, Standing
<1>4. WrP!FiniStmt /\ [WrP!Next]_(WrP!vars)
  BY <1>r, FiniProcFlushes, WriterSteps
<1>5. lost = {}
  BY <1>2, <1>4, <1>r, WriterAssumptions, WrP!RecordStep DEF WrP!PiecesInv
<1>6. WrP!FiniSeen
  BY <1>2, <1>4, <1>r, WriterAssumptions, WrP!SeenStep
<1>7. PICK a : IsFilling(a, Told, Handled) /\ Fits(a[Handled])
  BY <1>1, <1>3, <1>5 DEF FillInv, Undisturbed
<1>8. PICK n, S, p : n = Len(fed) /\ S = Due(1) /\ p = a[n]
  OBVIOUS
<1>9. n = Handled /\ n \in Nat /\ fed \in Seq(Items)
  BY <1>1, <1>8, <1>r DEF Handled, Shapes
<1>10. Len(S) = n
  <2>1. Len(out') = Len(Stream!Statements(text'))
    BY <1>1, <1>2 DEF SplitInv, HandedInv, Handed
  <2>2. Len(fed) = CallsBefore(1) + Len(out)
    BY <1>1, <1>2, <1>r DEF CallsInv
  <2>3. CallsBefore(1) = 0
    BY <1>2, <1>r, FirstCalls
  <2>4. Len(out) \in Nat
    BY OfReader DEF SplitInv
  <2>5. Len(Due(1)) = Len(out)
    BY <1>1, <1>3, <2>1 DEF Due
  <2> QED
    BY <1>8, <2>2, <2>3, <2>4, <2>5
<1>11. \A i \in 1..n : S[i] = Told[i]
  <2>1. \A i \in 1..n : fed[i].stmt = S[i]
    BY <1>2, <1>8, <1>r, FirstCalls
  <2>2. \A i \in 1..n : Told[i] = fed[i].stmt
    BY <1>8, <1>9, StmtsOf DEF Told
  <2> QED
    BY <2>1, <2>2
<1>12. IsFilling(a, S, n)
  <2>1. IsFilling(a, Told, n)
    BY <1>7, <1>9
  <2> QED
    BY <1>9, <1>11, <2>1, SameFilling
<1>13. PiecesOf(S) = p.pieces
  BY <1>8, <1>9, <1>10, <1>12, PiecesOfIs
<1>14. PieceStmts = p.pieces
  BY <1>1, <1>7, <1>8, <1>9 DEF Fits, Begun
<1>15. PieceStmts' = PieceStmts /\ ~cfd'
  BY <1>6 DEF WrP!FiniSeen, PieceStmts, AllStmts, Stmts
<1>16. PiecesOf(Due(1))' = PiecesOf(S)
  <2>1. Due(1)' = S
    BY <1>1, <1>8 DEF Due
  <2> QED
    BY <2>1 DEF PiecesOf
<1> QED
  BY <1>13, <1>14, <1>15, <1>16

LEMMA DoneStep ==
  ASSUME SplitInv, SplitInv', WrP!MapInv, FillInv, DoneInv, [SplitNext]_splitVars
  PROVE  DoneInv'
<1> USE DEF vars, input, proc_locals
<1>s. Standing
  BY DEF SplitInv, CallsInv
<1>1. CASE OpenInput \/ InputFails \/ ScanOn \/ HandOn \/ NextFile
  <2>1. pc' # "done"
    <3>1. CASE OpenInput \/ InputFails
      BY <1>s, <3>1 DEF OpenInput, InputFails, Standing
    <3>2. CASE ScanOn
      BY <3>2 DEF ScanOn, ReadInput, Read, Eof, Grow, ReadMore, Compact, LastReturn, Scanning, Token,
         OpenAngle, CloseAngle, Hash, Newline, EscapedQuote, OpenQuote, EmptyQuote, OpenLong,
         CloseQuote, CloseLong, Advance
    <3>3. CASE HandOn
      BY <3>3 DEF HandOn, Scanning, Dot
    <3>4. CASE NextFile
      BY <3>4 DEF NextFile
    <3> QED
      BY <1>1, <3>1, <3>2, <3>3, <3>4
  <2> QED
    BY <2>1 DEF DoneInv, FirstSplit
<1>2. CASE Write
  <2>1. wpc \notin {"idle", "done"}
    BY <1>2 DEF Write, Wr!OpenPiece, Wr!OpenFails, Wr!NotDirective, Wr!CacheDirective, Wr!GrowCache,
       Wr!GrowCacheFails, Wr!HasRoom, Wr!Flush, Wr!NoResize, Wr!Resize, Wr!ResizeFails, Wr!PutStmt,
       Wr!PutLast
  <2>2. pc' = pc /\ pc # "done"
    BY <1>2, <2>1 DEF Write, DoneInv
  <2> QED
    BY <2>2 DEF DoneInv, FirstSplit
<1>3. CASE FiniProc
  <2>1. wpc' \in {"idle", "done"}
    BY <1>3 DEF FiniProc, Wr!FiniStmt, Wr!NextInput
  <2>2. FirstSplit' => (~cfd /\ PieceStmts = PiecesOf(Due(1)))'
    BY <1>3, FiniProcDone
  <2> QED
    BY <2>1, <2>2 DEF DoneInv
<1>4. CASE GiveUp
  <2>1. wpc' \in {"idle", "done"} /\ failed' = TRUE
    BY <1>4 DEF GiveUp, Wr!GiveUp, Wr!NextInput, GrowFail
  <2> QED
    BY <2>1 DEF DoneInv, FirstSplit
<1>5. CASE Exit \/ UNCHANGED splitVars
  <2>1. UNCHANGED splitVars
    BY <1>5 DEF Exit
  <2>2. WrP!Made' = WrP!Made
    BY <2>1 DEF splitVars, writer, WrP!Made, WrP!Content
  <2>3. PieceStmts' = PieceStmts
    BY <2>2 DEF PieceStmts, AllStmts, Stmts
  <2>4. PiecesOf(Due(1))' = PiecesOf(Due(1))
    <3>1. Due(1)' = Due(1)
      BY <2>1 DEF splitVars, Due
    <3> QED
      BY <3>1 DEF PiecesOf
  <2> QED
    BY <2>1, <2>3, <2>4 DEF DoneInv, FirstSplit, splitVars, writer
<1> QED
  BY <1>1, <1>2, <1>3, <1>4, <1>5 DEF SplitNext

LEMMA DoneFollows == SplitInv /\ DoneInv => PiecesOfText
<1> SUFFICES ASSUME SplitInv, DoneInv, FirstFileDone
             PROVE  [k \in DOMAIN file |-> Stmts(file[k])] = PiecesOf(Due(1))
  BY DEF PiecesOfText
<1>1. FirstSplit
  BY DEF SplitInv, CallsInv, Standing, FirstFileDone, FirstSplit
<1>2. ~cfd /\ PieceStmts = PiecesOf(Due(1))
  BY <1>1 DEF DoneInv
<1>3. WrP!Made = [k \in DOMAIN file |-> file[k]]
  BY <1>2 DEF WrP!Made, WrP!Content
<1>4. PieceStmts = [k \in DOMAIN file |-> Stmts(file[k])]
  <2>1. PieceStmts = [k \in DOMAIN WrP!Made |-> Stmts(WrP!Made[k])]
    BY DEF PieceStmts, AllStmts
  <2>2. DOMAIN WrP!Made = DOMAIN file /\ \A k \in DOMAIN file : WrP!Made[k] = file[k]
    BY <1>3
  <2> QED
    BY <2>1, <2>2
<1> QED
  BY <1>2, <1>4

PiecesGoOn == SplitInv /\ WrP!MapInv /\ FillInv /\ DoneInv

LEMMA MapGoesOn == SplitInv /\ WrP!MapInv /\ [SplitNext]_splitVars => WrP!MapInv'
<1> SUFFICES ASSUME SplitInv, WrP!MapInv, [SplitNext]_splitVars PROVE WrP!MapInv'
  OBVIOUS
<1>1. ReaderInv /\ TextGiven /\ WrP!PiecesInv
  BY OfReader DEF SplitInv
<1>2. [WrP!Next]_(WrP!vars)
  BY <1>1, WriterSteps
<1> QED
  BY <1>1, <1>2, WriterAssumptions, WrP!MapStep

\* What is in the pieces of the first FILE, directives and all, is what PiecesOf makes of
\* its text, whatever the reads, the sizes of the buffers and the number of statements
\* per piece are, if nothing fails (ttl-split.c:121-397).
THEOREM FirstFilePieces == SplitSpec => []PiecesOfText
<1>1. SplitInit => PiecesGoOn
  <2>1. SplitInit => WrP!MapInv
    <3> SUFFICES ASSUME SplitInit PROVE WrP!MapInv
      OBVIOUS
    <3>1. WrP!Init
      BY DEF SplitInit, Wr!Init, WrP!Init
    <3> QED
      BY <3>1, WriterAssumptions, WrP!MapInit
  <2> QED
    BY <2>1, SplitInvInit, FillInit, DoneInit DEF PiecesGoOn
<1>2. PiecesGoOn /\ [SplitNext]_splitVars => PiecesGoOn'
  BY SplitInvStep, MapGoesOn, FillStep, DoneStep DEF PiecesGoOn
<1>3. PiecesGoOn => PiecesOfText
  BY DoneFollows DEF PiecesGoOn
<1> QED
  BY <1>1, <1>2, <1>3, PTL DEF SplitSpec

===========================================================================
