------------------------ MODULE SplitWriterProofs -------------------------
(***************************************************************************)
(* What holds of wr_stmt() for every size of the buffers, every statement  *)
(* and any number of calls and inputs.                                     *)
(***************************************************************************)
EXTENDS SplitWriter, SequenceTheorems, FiniteSetTheorems, TLAPS

\* A call is running.
InCall == pc \in {"enter", "cache", "room", "resize", "put"}

TypeInv ==
  /\ TypeOK
  /\ InCall => fed # <<>>
  /\ InCall /\ pc # "enter" => cfd

\* Nothing is a sequence of whatever it should be.
LEMMA Nothing == \A S : <<>> \in Seq(S)
  BY EmptySeq

\* Appending an element of the right type.
LEMMA AppendType ==
  ASSUME NEW S, NEW s \in Seq(S), NEW e \in S
  PROVE  Append(s, e) \in Seq(S) /\ Append(s, e) # <<>> /\ Len(Append(s, e)) = Len(s) + 1
<1>1. Append(s, e) \in Seq(S) /\ Len(Append(s, e)) = Len(s) + 1
  BY AppendProperties
<1>2. Len(s) \in Nat
  BY LenProperties
<1> QED
  BY <1>1, <1>2, EmptySeq

\* A further name, of which nothing is written yet.
LEMMA NewPiece ==
  ASSUME file \in Seq(Seq(Item))
  PROVE  Append(file, <<>>) \in Seq(Seq(Item)) /\ Append(file, <<>>) # <<>>
<1>1. <<>> \in Seq(Item)
  BY Nothing
<1> QED
  BY <1>1, AppendType

\* The last element of a nonempty sequence is one of its elements.
LEMMA LastElement ==
  ASSUME NEW S, NEW s \in Seq(S), s # <<>>
  PROVE  Len(s) \in 1..Len(s) /\ s[Len(s)] \in S
<1>1. Len(s) \in Nat /\ Len(s) # 0
  BY LenProperties, EmptySeq
<1>2. Len(s) \in 1..Len(s)
  BY <1>1
<1> QED
  BY <1>2, ElementOfSeq

\* The call that runs is an item, and its size a positive number.
LEMMA CurrentCall ==
  ASSUME TypeInv, InCall
  PROVE  cur \in Item /\ cur.stmt \in Stmt /\ z \in Nat \ {0} /\ z + 1 \in Need /\ z + 2 \in Need
<1>1. cur \in Item
  BY LastElement DEF TypeInv, TypeOK, cur
<1>2. cur.stmt \in Stmt
  BY <1>1 DEF Item
<1>3. z \in Nat \ {0}
  BY <1>2, StmtAssumption DEF z
<1> QED
  BY <1>1, <1>2, <1>3 DEF Need, z

\* What wr_buf() does to the pieces and to the record of what was dropped.
LEMMA WrBufType ==
  ASSUME NEW b \in Seq(Item), file \in Seq(Seq(Item)), file # <<>>,
         lost \subseteq Item, WrBuf(b)
  PROVE  file' \in Seq(Seq(Item)) /\ file' # <<>> /\ lost' \subseteq Item
<1>1. PICK n \in 0..Len(b) :
        /\ file' = [file EXCEPT ![Len(file)] = @ \o SubSeq(b, 1, n)]
        /\ lost' = lost \cup Range(SubSeq(b, n + 1, Len(b)))
  BY DEF WrBuf
<1>2. Len(file) \in 1..Len(file) /\ file[Len(file)] \in Seq(Item)
  BY LastElement
<1>3. SubSeq(b, 1, n) \in Seq(Item) /\ SubSeq(b, n + 1, Len(b)) \in Seq(Item)
  BY LenProperties, SubSeqProperties
<1>4. file[Len(file)] \o SubSeq(b, 1, n) \in Seq(Item)
  BY <1>2, <1>3, ConcatProperties
<1>5. file' \in Seq(Seq(Item)) /\ Len(file') = Len(file)
  BY <1>1, <1>2, <1>4, ExceptSeq
<1>6. file' # <<>>
  BY <1>2, <1>5, EmptySeq
<1>7. Range(SubSeq(b, n + 1, Len(b))) \subseteq Item
  BY <1>3, ElementOfSeq, LenProperties DEF Range
<1> QED
  BY <1>1, <1>5, <1>6, <1>7

\* The variables keep their types.
LEMMA TypeInit == Init => TypeInv
<1> SUFFICES ASSUME Init PROVE TypeInv
  OBVIOUS
<1>1. <<>> \in Seq(Item) /\ <<>> \in Seq(Seq(Item)) /\ Len(<<>>) = 0
  BY Nothing, EmptySeq
<1>2. TypeOK
  <2>1. fed \in Seq(Item) /\ Len(fed) <= MaxCalls
    BY <1>1, BoundAssumption DEF Init
  <2>2. inp \in 1..MaxInputs
    BY BoundAssumption DEF Init
  <2>3. /\ buf \in Seq(Item) /\ bix \in Nat /\ bsz \in Nat
        /\ dir \in Seq(Item) /\ dix \in Nat /\ dsz \in Nat
        /\ istmt \in Nat
    BY <1>1, BoundAssumption DEF Init
  <2>4. cfd = FALSE /\ file \in Seq(Seq(Item)) /\ lost \subseteq Item /\ pc = "idle"
    BY <1>1 DEF Init
  <2> QED
    BY <2>1, <2>2, <2>3, <2>4 DEF TypeOK
<1> QED
  BY <1>2 DEF Init, TypeInv, InCall

LEMMA TypeStep == TypeInv /\ [Next]_vars => TypeInv'
<1> SUFFICES ASSUME TypeInv, [Next]_vars PROVE TypeInv'
  OBVIOUS
<1> USE DEF vars, buffer, cache, output, calls
<1>t. TypeOK
  BY DEF TypeInv
<1>c. InCall => cur \in Item /\ z \in Nat /\ z + 1 \in Need /\ z + 2 \in Need
  BY CurrentCall
<1>1. ASSUME NEW s \in Stmt, Call(s) PROVE TypeInv'
  <2>1. Len(fed) + 1 \in 1..MaxCalls
    BY <1>t, <1>1, LenProperties, BoundAssumption DEF Call, TypeOK
  <2>2. [no |-> Len(fed) + 1, stmt |-> s, inp |-> inp] \in Item
    BY <1>t, <2>1 DEF TypeOK, Item
  <2>3. fed' \in Seq(Item) /\ fed' # <<>> /\ Len(fed') <= MaxCalls
    <3>1. PICK e \in Item : e = [no |-> Len(fed) + 1, stmt |-> s, inp |-> inp]
      BY <2>2
    <3>2. fed \in Seq(Item) /\ fed' = Append(fed, e)
      BY <1>t, <1>1, <3>1 DEF Call, TypeOK
    <3>3. fed' \in Seq(Item) /\ Len(fed') = Len(fed) + 1
      BY <3>2, AppendProperties
    <3> QED
      BY <2>1, <3>2, <3>3, EmptySeq
  <2>4. pc' \in {"cache", "enter"} /\ (pc' # "enter" => cfd')
    BY <1>1 DEF Call
  <2>5. TypeOK'
    <3>1. UNCHANGED <<buffer, cache, istmt, output, inp, lost>>
      BY <1>1 DEF Call
    <3> QED
      BY <1>t, <2>3, <2>4, <3>1 DEF TypeOK
  <2> QED
    BY <2>3, <2>4, <2>5, Zenon DEF TypeInv, InCall
<1>2. CASE OpenPiece
  BY <1>t, <1>2, NewPiece DEF OpenPiece, TypeOK, TypeInv, InCall
<1>3. CASE OpenFails
  BY <1>t, <1>c, <1>3, NewPiece DEF OpenFails, Drop, TypeOK, TypeInv, InCall
<1>4. CASE NotDirective
  BY <1>t, <1>4 DEF NotDirective, TypeOK, TypeInv, InCall
<1>5. ASSUME NEW size \in Nat, pc = "cache", Cached(size) PROVE TypeInv'
  <2>1. Append(dir, cur) \in Seq(Item)
    BY <1>t, <1>c, <1>5, AppendProperties DEF TypeOK, InCall
  <2>2. dix + z + 1 \in Nat
    BY <1>t, <1>c, <1>5 DEF TypeOK, InCall
  <2> QED
    BY <1>t, <1>5, <2>1, <2>2 DEF Cached, TypeOK, TypeInv, InCall
<1>6. CASE CacheDirective
  BY <1>t, <1>5, <1>6 DEF CacheDirective, TypeOK
<1>7. CASE GrowCache
  <2>1. NewSize(z + 1) \in Nat
    BY <1>c, <1>7, Pow2Assumption DEF GrowCache, InCall
  <2> QED
    BY <1>5, <1>7, <2>1 DEF GrowCache
<1>8. CASE GrowCacheFails
  BY <1>t, <1>c, <1>8 DEF GrowCacheFails, Drop, TypeOK, TypeInv, InCall
<1>9. CASE HasRoom
  BY <1>t, <1>9 DEF HasRoom, TypeOK, TypeInv, InCall
<1>10. ASSUME NEW b \in Seq(Item), file # <<>>, WrBuf(b)
       PROVE  file' \in Seq(Seq(Item)) /\ file' # <<>> /\ lost' \subseteq Item
  BY <1>t, <1>10, WrBufType DEF TypeOK
<1>11. CASE Flush
  BY <1>t, <1>10, <1>11, Nothing DEF Flush, TypeOK, TypeInv, InCall
<1>12. CASE NoResize
  BY <1>t, <1>12 DEF NoResize, TypeOK, TypeInv, InCall
<1>13. CASE Resize
  <2>1. NewSize(z + 2) \in Nat
    BY <1>c, <1>13, Pow2Assumption DEF Resize, InCall
  <2> QED
    BY <1>t, <1>13, <2>1 DEF Resize, TypeOK, TypeInv, InCall
<1>14. CASE ResizeFails
  BY <1>t, <1>c, <1>14 DEF ResizeFails, Drop, TypeOK, TypeInv, InCall
<1>15. ASSUME pc = "put"
       PROVE  Appended \in Seq(Item) /\ grown \in Nat /\ counted \in Nat
  BY <1>t, <1>c, <1>15, AppendProperties DEF TypeOK, InCall, Appended, grown, counted
<1>16. CASE PutStmt
  BY <1>t, <1>15, <1>16 DEF PutStmt, TypeOK, TypeInv, InCall
<1>17. CASE PutLast
  BY <1>t, <1>10, <1>15, <1>17 DEF PutLast, TypeOK, TypeInv, InCall
<1>18. CASE FiniStmt
  <2>1. file' \in Seq(Seq(Item)) /\ lost' \subseteq Item
    <3>1. CASE cfd
      BY <1>t, <1>10, <1>18, <3>1 DEF FiniStmt, TypeOK
    <3>2. CASE ~cfd
      BY <1>t, <1>18, <3>2 DEF FiniStmt, TypeOK
    <3> QED
      BY <3>1, <3>2
  <2>2. inp' \in 1..MaxInputs /\ pc' \in {"idle", "done"}
    BY <1>t, <1>18, BoundAssumption DEF FiniStmt, NextInput, TypeOK
  <2>3. buf' \in Seq(Item) /\ dir' \in Seq(Item)
    BY <1>18, Nothing DEF FiniStmt
  <2> QED
    BY <1>t, <1>18, <2>1, <2>2, <2>3, BoundAssumption DEF FiniStmt, TypeOK, TypeInv, InCall
<1>19. CASE GiveUp
  <2>1. Range(buf) \subseteq Item
    BY <1>t, ElementOfSeq, LenProperties DEF TypeOK, Range
  <2> QED
    BY <1>t, <1>19, <2>1, BoundAssumption DEF GiveUp, NextInput, TypeOK, TypeInv, InCall
<1>20. CASE Halted \/ UNCHANGED vars
  BY <1>t, <1>20, SMTT(30) DEF Halted, TypeOK, TypeInv, InCall
<1> QED
  BY <1>1, <1>2, <1>3, <1>4, <1>6, <1>7, <1>8, <1>9, <1>11, <1>12, <1>13, <1>14,
     <1>16, <1>17, <1>18, <1>19, <1>20 DEF Next

\* Every variable of the writer keeps its type, and a call that is running has an
\* item to write (ttl-split.c:121-227).
THEOREM TypeCorrect == Spec => []TypeOK
<1>1. TypeInv => TypeOK
  BY DEF TypeInv
<1> QED
  BY <1>1, TypeInit, TypeStep, PTL DEF Spec

---------------------------------------------------------------------------
(***************************************************************************)
(* That the buffer is never overrun needs more than its own size: a piece  *)
(* is seeded with the cache without a look at the size of either.  The     *)
(* cache fits because it never has more room than the buffer, and that     *)
(* holds because the buffer is measured for a directive (z + 2) after the  *)
(* cache has been (z + 1), with the same function rounding both up.        *)
(***************************************************************************)

\* Growing for what fits already is not growing.
Rounded == \A x \in Need : x <= bsz => NewSize(x) <= bsz

\* The running call writes a directive.
AtDirective == IsDirective(cur)

\* The cache has no more room than the buffer has, or will have once the buffer
\* has been measured for the same directive.
CacheBelowBuffer ==
  IF pc \in {"room", "resize"}
  THEN dsz <= bsz \/ (AtDirective /\ dsz = NewSize(z + 1))
  ELSE pc # "wild_dir" => dsz <= bsz

\* The sizes agree, as long as the cache is measured.
Sizes ==
  /\ pc # "wild_buf" /\ bix <= bsz
  /\ Rounded
  /\ CacheBelowBuffer
  /\ pc # "wild_dir" => dix <= dsz
  /\ pc = "resize" => bix = 0
  /\ pc = "put" => bix + z + 2 <= bsz

\* The directive that is being written is in the cache already.
DirectiveCached ==
  pc \in {"room", "resize", "put"} /\ AtDirective => cur \in Range(dir)

SizeInv == (CacheMeasured => Sizes) /\ DirectiveCached

LEMMA SizeInit == Init => SizeInv
<1>1. Rounded <=> \A x \in Need : x <= bsz => NewSize(x) <= bsz
  BY DEF Rounded
<1> QED
  BY <1>1, Pow2Assumption, BoundAssumption
     DEF Init, SizeInv, Sizes, DirectiveCached, CacheBelowBuffer

\* What is appended to a sequence is in it, next to what was.
LEMMA RangeOfAppend ==
  ASSUME NEW S, NEW s \in Seq(S), NEW e \in S
  PROVE  Range(s) \subseteq Range(Append(s, e)) /\ e \in Range(Append(s, e))
<1>1. /\ Append(s, e) \in Seq(S) /\ Len(Append(s, e)) = Len(s) + 1
      /\ \A i \in 1..Len(s) : Append(s, e)[i] = s[i]
      /\ Append(s, e)[Len(s) + 1] = e
  BY AppendProperties
<1>2. Len(s) \in Nat /\ DOMAIN s = 1..Len(s) /\ DOMAIN Append(s, e) = 1..(Len(s) + 1)
  BY <1>1, LenProperties
<1> QED
  BY <1>1, <1>2 DEF Range

\* A directive that is dropped stays dropped, and one that is cached stays cached
\* until the end of the input, so the cache was measured if it still is.
LEMMA MeasuredBefore ==
  ASSUME TypeInv, [Next]_vars, ~FiniStmt, CacheMeasured'
  PROVE  CacheMeasured
<1> USE DEF vars, buffer, cache, output, calls
<1>1. lost \subseteq lost'
  <2>1. ASSUME NEW b, WrBuf(b) PROVE lost \subseteq lost'
    BY <2>1 DEF WrBuf
  <2>2. CASE Flush \/ PutLast
    BY <2>1, <2>2 DEF Flush, PutLast
  <2> QED
    BY <2>2 DEF Next, Call, OpenPiece, OpenFails, Drop, NotDirective, CacheDirective, GrowCache,
       Cached, GrowCacheFails, HasRoom, NoResize, Resize, ResizeFails, PutStmt, GiveUp, Halted
<1>2. Range(dir) \subseteq Range(dir')
  <2>1. ASSUME NEW size, pc = "cache", Cached(size) PROVE Range(dir) \subseteq Range(dir')
    <3>1. cur \in Item /\ dir \in Seq(Item)
      BY <2>1, CurrentCall DEF TypeInv, TypeOK, InCall
    <3> QED
      BY <2>1, <3>1, RangeOfAppend DEF Cached
  <2>2. CASE CacheDirective \/ GrowCache
    BY <2>1, <2>2 DEF CacheDirective, GrowCache
  <2> QED
    BY <2>2 DEF Next, Call, OpenPiece, OpenFails, NotDirective, GrowCacheFails,
       HasRoom, Flush, NoResize, Resize, ResizeFails, PutStmt, PutLast, GiveUp, Halted
<1> QED
  BY <1>1, <1>2 DEF CacheMeasured

LEMMA CachedStep == TypeInv /\ SizeInv /\ [Next]_vars => DirectiveCached'
<1> SUFFICES ASSUME TypeInv, DirectiveCached, [Next]_vars PROVE DirectiveCached'
  BY DEF SizeInv
<1> USE DEF vars, buffer, cache, output, calls
<1>1. ASSUME fed' = fed PROVE cur' = cur /\ AtDirective' = AtDirective
  BY <1>1 DEF cur, AtDirective, IsDirective
<1>2. ASSUME NEW size, pc = "cache", Cached(size) PROVE DirectiveCached'
  <2>1. cur \in Item /\ dir \in Seq(Item)
    BY <1>2, CurrentCall DEF TypeInv, TypeOK, InCall
  <2> QED
    BY <1>1, <1>2, <2>1, RangeOfAppend DEF Cached, DirectiveCached
<1>3. CASE CacheDirective \/ GrowCache
  BY <1>2, <1>3 DEF CacheDirective, GrowCache
<1>4. CASE HasRoom \/ Flush \/ NoResize \/ Resize \/ PutStmt \/ PutLast
  BY <1>1, <1>4 DEF HasRoom, Flush, NoResize, Resize, PutStmt, PutLast, DirectiveCached
<1>8. CASE NotDirective
  BY <1>1, <1>8 DEF NotDirective, AtDirective, DirectiveCached
<1>5. CASE (\E s \in Stmt : Call(s)) \/ OpenPiece \/ OpenFails \/ GrowCacheFails \/ ResizeFails
  BY <1>5 DEF Call, OpenPiece, OpenFails, GrowCacheFails, ResizeFails, Drop, DirectiveCached
<1>6. CASE FiniStmt \/ GiveUp
  BY <1>6 DEF FiniStmt, GiveUp, NextInput, DirectiveCached
<1>7. CASE Halted \/ UNCHANGED vars
  BY <1>1, <1>7 DEF Halted, DirectiveCached
<1> QED
  BY <1>3, <1>4, <1>5, <1>6, <1>7, <1>8 DEF Next

\* The sizes agree when an input has ended, whatever was before.
LEMMA SizesReset == FiniStmt => Sizes'
<1> SUFFICES ASSUME FiniStmt PROVE Sizes'
  OBVIOUS
<1>1. Rounded'
  BY Pow2Assumption DEF FiniStmt, Rounded
<1>2. pc' \in {"idle", "done"}
  BY DEF FiniStmt, NextInput
<1> QED
  BY <1>1, <1>2, BoundAssumption DEF FiniStmt, Sizes, CacheBelowBuffer

LEMMA SizeStep == TypeInv /\ SizeInv /\ [Next]_vars => (CacheMeasured => Sizes)'
<1> SUFFICES ASSUME TypeInv, SizeInv, [Next]_vars, CacheMeasured', ~FiniStmt PROVE Sizes'
  BY SizesReset
<1> USE DEF vars, buffer, cache, output, calls
<1>t. TypeOK
  BY DEF TypeInv
<1>c. InCall => z \in Nat \ {0} /\ z + 1 \in Need /\ z + 2 \in Need
  BY CurrentCall
<1>i. /\ bix <= bsz /\ pc # "wild_buf" /\ Rounded /\ CacheBelowBuffer
      /\ pc # "wild_dir" => dix <= dsz
      /\ pc = "resize" => bix = 0
      /\ pc = "put" => bix + z + 2 <= bsz
  BY MeasuredBefore DEF SizeInv, Sizes
<1>r. ASSUME bsz' = bsz PROVE Rounded'
  BY <1>i, <1>r DEF Rounded
<1>z. ASSUME fed' = fed PROVE z' = z /\ AtDirective' = AtDirective
  BY <1>z DEF z, cur, AtDirective, IsDirective
<1>1. ASSUME NEW s \in Stmt, Call(s) PROVE Sizes'
  BY <1>i, <1>r, <1>1 DEF Call, Sizes, CacheBelowBuffer
<1>2. CASE OpenPiece
  BY <1>i, <1>r, <1>2 DEF OpenPiece, Sizes, CacheBelowBuffer
<1>3. CASE OpenFails
  BY <1>i, <1>r, <1>3 DEF OpenFails, Drop, Sizes, CacheBelowBuffer
<1>4. CASE NotDirective
  BY <1>i, <1>r, <1>4 DEF NotDirective, Sizes, CacheBelowBuffer
<1>5. CASE CacheDirective
  BY <1>i, <1>r, <1>5
     DEF CacheDirective, Cached, CacheFits, Sizes, CacheBelowBuffer
<1>6. CASE GrowCache
  <2>1. z' = z /\ AtDirective' = AtDirective
    BY <1>z, <1>6 DEF GrowCache, Cached
  <2> QED
    BY <1>i, <1>r, <1>6, <2>1
       DEF GrowCache, Cached, AtDirective, Sizes, CacheBelowBuffer
<1>7. CASE GrowCacheFails
  BY <1>i, <1>r, <1>7 DEF GrowCacheFails, Drop, Sizes, CacheBelowBuffer
<1>15. CASE ResizeFails
  <2>1. ~AtDirective
    BY <1>15 DEF SizeInv, DirectiveCached, CacheMeasured, ResizeFails, Drop
  <2> QED
    BY <1>i, <1>r, <1>15, <2>1 DEF ResizeFails, Drop, Sizes, CacheBelowBuffer
<1>8. ASSUME pc \in {"room", "resize"}, z + 2 <= bsz PROVE dsz <= bsz
  <2>1. NewSize(z + 1) <= bsz
    BY <1>t, <1>c, <1>i, <1>8 DEF TypeOK, InCall, Rounded
  <2> QED
    BY <1>i, <1>8, <2>1 DEF CacheBelowBuffer
<1>9. CASE HasRoom
  <2>1. z + 2 <= bsz
    BY <1>t, <1>c, <1>9 DEF TypeOK, InCall, HasRoom
  <2>2. dsz <= bsz /\ z' = z /\ AtDirective' = AtDirective
    BY <1>8, <1>9, <1>z, <2>1 DEF HasRoom
  <2> QED
    BY <1>i, <1>r, <1>9, <2>2 DEF HasRoom, Sizes, CacheBelowBuffer
<1>10. CASE Flush
  <2>1. z' = z /\ AtDirective' = AtDirective
    BY <1>z, <1>10 DEF Flush
  <2> QED
    BY <1>t, <1>i, <1>r, <1>10, <2>1
       DEF TypeOK, Flush, Sizes, CacheBelowBuffer
<1>11. CASE NoResize
  <2>1. dsz <= bsz /\ z' = z /\ AtDirective' = AtDirective
    BY <1>8, <1>11, <1>z DEF NoResize
  <2> QED
    BY <1>t, <1>c, <1>i, <1>r, <1>11, <2>1
       DEF TypeOK, InCall, NoResize, Sizes, CacheBelowBuffer
<1>12. CASE Resize
  <2>1. /\ z \in Nat /\ z + 1 \in Need /\ z + 2 \in Need
        /\ z + 2 <= NewSize(z + 2) /\ NewSize(z + 2) \in Nat
        /\ NewSize(z + 1) \in Nat
    BY <1>c, <1>12, Pow2Assumption DEF InCall, Resize
  <2>2. z + 1 <= NewSize(z + 2)
    BY <2>1
  <2>3. NewSize(z + 1) <= NewSize(z + 2)
    BY <2>1, <2>2, Pow2Assumption
  <2>4. dsz <= bsz'
    BY <1>t, <1>i, <1>12, <2>1, <2>3 DEF TypeOK, CacheBelowBuffer, Resize
  <2>5. Rounded'
    BY <1>12, <2>1, Pow2Assumption DEF Rounded, Resize
  <2>6. z' = z /\ AtDirective' = AtDirective /\ bix' = 0
    BY <1>z, <1>i, <1>12 DEF Resize
  <2> QED
    BY <1>t, <1>i, <1>12, <2>1, <2>4, <2>5, <2>6
       DEF TypeOK, Resize, Sizes, CacheBelowBuffer
<1>13. CASE PutStmt
  <2>1. grown <= bsz
    BY <1>t, <1>c, <1>i, <1>13 DEF TypeOK, InCall, PutStmt, grown
  <2> QED
    BY <1>i, <1>r, <1>13, <2>1 DEF PutStmt, Sizes, CacheBelowBuffer
<1>14. CASE PutLast
  <2>1. dix <= bsz
    BY <1>t, <1>i, <1>14 DEF TypeOK, PutLast, CacheBelowBuffer
  <2> QED
    BY <1>i, <1>r, <1>14, <2>1 DEF PutLast, Sizes, CacheBelowBuffer
<1>16. CASE GiveUp
  <2>1. pc' \in {"idle", "done"}
    BY <1>16 DEF GiveUp, NextInput
  <2> QED
    BY <1>i, <1>r, <1>16, <2>1 DEF GiveUp, Sizes, CacheBelowBuffer
<1>17. CASE Halted \/ UNCHANGED vars
  <2>1. z' = z /\ AtDirective' = AtDirective
    BY <1>17, <1>z DEF Halted
  <2> QED
    BY <1>i, <1>r, <1>17, <2>1 DEF Halted, Sizes, CacheBelowBuffer
<1> QED
  BY <1>1, <1>2, <1>3, <1>4, <1>5, <1>6, <1>7, <1>9, <1>10, <1>11, <1>12, <1>13,
     <1>14, <1>15, <1>16, <1>17 DEF Next

\* No write goes past the end of the buffer, the unmeasured copy of the cache into
\* it included, whichever pieces, writes and growths fail, until a directive is
\* dropped that is in the cache (ttl-split.c:188-225).  A write past the end of the
\* cache halts the model before any such copy.
THEOREM BufferSafe == Spec => []BufNeverOverrun
<1>1. TypeInv /\ SizeInv /\ [Next]_vars => (TypeInv /\ SizeInv)'
  BY TypeStep, SizeStep, CachedStep DEF SizeInv
<1>2. Init => TypeInv /\ SizeInv
  BY TypeInit, SizeInit
<1>3. SizeInv => BufNeverOverrun
  BY DEF SizeInv, Sizes, BufNeverOverrun
<1> QED
  BY <1>1, <1>2, <1>3, PTL DEF Spec

---------------------------------------------------------------------------
(* What is written to the pieces, whatever the sizes of the buffers and    *)
(* whatever fails: each statement once and in order, the directives before *)
(* it in the same piece, no more than nstmt of them in a piece.            *)

\* The pieces with what is in the buffer for the last one.
Made == [k \in DOMAIN file |-> Content(k)]

\* b begins with the elements of a.
Begins(a, b) == Len(a) <= Len(b) /\ \A i \in 1..Len(a) : a[i] = b[i]

\* What a step does to the pieces: nothing, add one, or write T to the last one as
\* far as write() takes it.
Same    == file' = file /\ Made' = Made
Adds(b) ==
  /\ Len(file') = Len(file) + 1
  /\ Made'[Len(file) + 1] = b
  /\ \A k \in 1..Len(file) : Made'[k] = Made[k]
Cuts(T) ==
  /\ cfd /\ Len(file') = Len(file)
  /\ \A k \in 1..Len(file) : k # Len(file) => Made'[k] = Made[k]
  /\ Begins(Made'[Len(file)], T)
  /\ \A x \in Range(T) : x \in Range(Made'[Len(file)]) \/ x \in lost'
  /\ lost' = {} => Made'[Len(file)] = T

LEMMA MadeType ==
  ASSUME TypeOK
  PROVE  /\ Len(file) \in Nat /\ DOMAIN file = 1..Len(file) /\ DOMAIN Made = 1..Len(file)
         /\ \A k \in 1..Len(file) : Made[k] = Content(k) /\ Made[k] \in Seq(Item)
         /\ cfd => Len(file) \in 1..Len(file) /\ Made[Len(file)] = file[Len(file)] \o buf
<1>1. Len(file) \in Nat /\ DOMAIN file = 1..Len(file)
  BY LenProperties DEF TypeOK
<1>2. cfd => Len(file) \in 1..Len(file)
  BY LastElement DEF TypeOK
<1>3. \A k \in 1..Len(file) : file[k] \in Seq(Item) /\ file[k] \o buf \in Seq(Item)
  BY ElementOfSeq, ConcatProperties DEF TypeOK
<1> QED
  BY <1>1, <1>2, <1>3 DEF Made, Content

\* Taking something off the end of a sequence, and putting it back.
LEMMA Beginning ==
  ASSUME NEW S, NEW s \in Seq(S), NEW n \in 0..Len(s)
  PROVE  /\ SubSeq(s, 1, n) \in Seq(S) /\ SubSeq(s, n + 1, Len(s)) \in Seq(S)
         /\ Len(SubSeq(s, 1, n)) = n
         /\ \A i \in 1..n : SubSeq(s, 1, n)[i] = s[i]
         /\ Len(SubSeq(s, n + 1, Len(s))) = Len(s) - n
         /\ \A i \in 1..Len(s)-n : SubSeq(s, n + 1, Len(s))[i] = s[i + n]
<1>1. Len(s) \in Nat /\ \A i \in 1..Len(s) : s[i] \in S
  BY LenProperties, ElementOfSeq
<1>2. /\ SubSeq(s, 1, n) \in Seq(S)
      /\ Len(SubSeq(s, 1, n)) = IF 1 <= n THEN n - 1 + 1 ELSE 0
      /\ \A i \in 1..n-1+1 : SubSeq(s, 1, n)[i] = s[1 + i - 1]
  BY <1>1, SubSeqProperties
<1>3. /\ SubSeq(s, n+1, Len(s)) \in Seq(S)
      /\ Len(SubSeq(s, n+1, Len(s))) = IF n+1 <= Len(s) THEN Len(s) - (n+1) + 1 ELSE 0
      /\ \A i \in 1..Len(s)-(n+1)+1 : SubSeq(s, n+1, Len(s))[i] = s[(n+1) + i - 1]
  BY <1>1, SubSeqProperties
<1> QED
  BY <1>1, <1>2, <1>3

\* What is written of T = h \o b begins T, and what is not is in the rest of b.
LEMMA WrittenPart ==
  ASSUME NEW S, NEW h \in Seq(S), NEW b \in Seq(S), NEW n \in 0..Len(b)
  PROVE  /\ Begins(h \o SubSeq(b, 1, n), h \o b)
         /\ \A x \in Range(h \o b) :
              x \in Range(h \o SubSeq(b, 1, n)) \/ x \in Range(SubSeq(b, n + 1, Len(b)))
         /\ Range(SubSeq(b, n + 1, Len(b))) = {} => SubSeq(b, 1, n) = b
<1> DEFINE w == SubSeq(b, 1, n)
           r == SubSeq(b, n + 1, Len(b))
<1>0. n \in 0..Len(b) /\ n \in Nat
  BY LenProperties
<1>1. /\ w \in Seq(S) /\ r \in Seq(S) /\ Len(w) = n /\ Len(r) = Len(b) - n
      /\ \A i \in 1..n : w[i] = b[i]
      /\ \A i \in 1..Len(b)-n : r[i] = b[i + n]
  BY Beginning
<1>2. Len(b) \in Nat /\ Len(h) \in Nat /\ DOMAIN r = 1..Len(r) /\ DOMAIN b = 1..Len(b) /\ DOMAIN w = 1..Len(w)
  BY <1>1, LenProperties
<1>3. /\ h \o b \in Seq(S) /\ Len(h \o b) = Len(h) + Len(b)
      /\ \A i \in 1..Len(h)+Len(b) : (h \o b)[i] = IF i <= Len(h) THEN h[i] ELSE b[i - Len(h)]
  BY ConcatProperties
<1>4. /\ h \o w \in Seq(S) /\ Len(h \o w) = Len(h) + Len(w)
      /\ \A i \in 1..Len(h)+Len(w) : (h \o w)[i] = IF i <= Len(h) THEN h[i] ELSE w[i - Len(h)]
  BY <1>1, ConcatProperties
<1>5. DOMAIN (h \o b) = 1..Len(h)+Len(b) /\ DOMAIN (h \o w) = 1..Len(h)+n
  BY <1>1, <1>3, <1>4, LenProperties
<1> HIDE DEF w, r
<1>6. Begins(h \o w, h \o b)
  BY <1>1, <1>2, <1>3, <1>4 DEF Begins
<1>9. \A i \in 1..Len(r) : r[i] \in Range(r)
  BY <1>2 DEF Range
<1>7. ASSUME NEW x \in Range(h \o b)
      PROVE  x \in Range(h \o w) \/ x \in Range(r)
  <2>1. PICK i \in 1..Len(h)+Len(b) : x = (h \o b)[i]
    BY <1>5 DEF Range
  <2>2. CASE i <= Len(h) + n
    <3>1. i \in 1..Len(h)+n /\ (h \o w)[i] = x
      BY <1>1, <1>2, <1>3, <1>4, <2>1, <2>2
    <3> QED
      BY <1>5, <3>1 DEF Range
  <2>3. CASE ~(i <= Len(h) + n)
    <3>0. PICK k \in 1..Len(b)-n : i = Len(h) + (k + n)
      <4>1. i - Len(h) - n \in 1..Len(b)-n /\ i = Len(h) + ((i - Len(h) - n) + n)
        BY <1>0, <1>2, <2>3
      <4> QED
        BY <4>1
    <3>1. k \in 1..Len(r) /\ r[k] = x
      BY <1>0, <1>1, <1>2, <1>3, <2>1, <3>0
    <3>2. x \in Range(r)
      BY <1>9, <3>1
    <3> QED
      BY <3>2
  <2> QED
    BY <2>2, <2>3
<1>8. ASSUME Range(r) = {} PROVE w = b
  <2>1. n = Len(b)
    <3>1. ASSUME n < Len(b) PROVE FALSE
      <4>1. 1 \in 1..Len(r)
        BY <1>1, <1>2, <3>1
      <4> QED
        BY <1>8, <1>9, <4>1
    <3>2. n \in 0..Len(b) /\ Len(b) \in Nat
      BY <1>0, <1>2
    <3> QED
      BY <3>1, <3>2, SMT
  <2> QED
    BY <1>1, <1>2, <2>1, SeqEqual
<1> QED
  BY <1>6, <1>7, <1>8 DEF w, r

\* wr_buf() of b, with nothing left in the buffer that belongs to the piece.
LEMMA Writing ==
  ASSUME TypeOK, cfd, NEW b \in Seq(Item), WrBuf(b), cfd' => buf' = <<>>, buf' \in Seq(Item)
  PROVE  Cuts(file[Len(file)] \o b)
<1> DEFINE L == Len(file)
           h == file[L]
<1>1. PICK n \in 0..Len(b) :
        /\ file' = [file EXCEPT ![L] = h \o SubSeq(b, 1, n)]
        /\ lost' = lost \cup Range(SubSeq(b, n + 1, Len(b)))
  BY DEF WrBuf
<1> DEFINE w == h \o SubSeq(b, 1, n)
<1>2. L \in 1..L /\ h \in Seq(Item) /\ file \in Seq(Seq(Item)) /\ L \in Nat
  BY LastElement, LenProperties DEF TypeOK
<1>3. SubSeq(b, 1, n) \in Seq(Item) /\ w \in Seq(Item)
  BY <1>2, Beginning, ConcatProperties
<1>4. /\ Begins(w, h \o b)
      /\ \A x \in Range(h \o b) :
           x \in Range(w) \/ x \in Range(SubSeq(b, n + 1, Len(b)))
      /\ Range(SubSeq(b, n + 1, Len(b))) = {} => SubSeq(b, 1, n) = b
  BY <1>2, WrittenPart
<1>5. /\ file' \in Seq(Seq(Item)) /\ Len(file') = L
      /\ \A k \in 1..L : file'[k] = IF k = L THEN w ELSE file[k]
  <2> HIDE DEF w
  <2>1. file' = [file EXCEPT ![L] = w]
    BY <1>1 DEF w
  <2> QED
    BY <1>2, <1>3, <2>1, ExceptSeq
<1>6. DOMAIN file = 1..L /\ DOMAIN file' = 1..L
  BY <1>2, <1>5, LenProperties
<1>7. w \o <<>> = w
  BY <1>3, ConcatEmptySeq
<1> HIDE DEF w, h
<1>8. \A k \in 1..L : Made'[k] = IF k = L THEN w ELSE file[k]
  BY <1>5, <1>6, <1>7 DEF Made, Content
<1>9. \A k \in 1..L : k # L => Made[k] = file[k]
  BY <1>6 DEF Made, Content
<1>10. /\ \A x \in Range(h \o b) : x \in Range(w) \/ x \in lost'
       /\ lost' = {} => w = h \o b
  BY <1>1, <1>4 DEF w
<1>11. Made'[L] = w
  BY <1>2, <1>8
<1> HIDE DEF L
<1>12. Cuts(h \o b)
  <2>1. /\ cfd /\ Len(file') = L
        /\ \A k \in 1..L : k # L => Made'[k] = Made[k]
    BY <1>5, <1>8, <1>9
  <2> QED
    BY <1>4, <1>10, <1>11, <2>1 DEF Cuts, L
<1> QED
  BY <1>12 DEF h, L

\* A piece is opened when none is open.
Opening == pc = "enter" => ~cfd

\* Only directives seed a piece.
SeedsClean ==
  /\ \A x \in Range(dir) : IsDirective(x)
  /\ ~cfd /\ pc # "wild_buf" => \A x \in Range(buf) : IsDirective(x)

\* The running call is written.
Putting == PutStmt \/ PutLast

\* What each action does to the pieces.
LEMMA PieceStep ==
  ASSUME TypeInv, Opening, [Next]_vars
  PROVE  \/ ~Putting /\ Same
         \/ ~Putting /\ OpenPiece /\ Adds(buf)
         \/ ~Putting /\ OpenFails /\ Adds(<<>>)
         \/ ~Putting /\ (Flush \/ FiniStmt) /\ Cuts(Made[Len(file)])
         \/ Putting /\ Cuts(Append(Made[Len(file)], cur))
<1> USE DEF vars, buffer, cache, output, calls
<1>t. TypeOK /\ TypeOK'
  BY TypeStep DEF TypeInv
<1>m. /\ Len(file) \in Nat /\ DOMAIN file = 1..Len(file)
      /\ \A k \in 1..Len(file) : Made[k] = Content(k) /\ Made[k] \in Seq(Item)
      /\ cfd => Len(file) \in 1..Len(file) /\ Made[Len(file)] = file[Len(file)] \o buf
  BY <1>t, MadeType
<1>d. Len(file) \in Nat /\ DOMAIN file = 1..Len(file)
  BY <1>m
<1>n. Putting => pc = "put" /\ cfd /\ cur \in Item
  BY CurrentCall DEF Putting, PutStmt, PutLast, TypeInv, InCall
<1>1. ASSUME file' = file, buf' = buf, cfd' = cfd PROVE Same
  BY <1>1 DEF Same, Made, Content
<1>2. ASSUME file' = Append(file, <<>>)
      PROVE  /\ Len(file') = Len(file) + 1 /\ DOMAIN file' = 1..Len(file)+1
             /\ \A k \in 1..Len(file) : file'[k] = file[k]
             /\ file'[Len(file) + 1] = <<>>
  <2>1. <<>> \in Seq(Item) /\ file \in Seq(Seq(Item))
    BY <1>t, Nothing DEF TypeOK
  <2> QED
    BY <1>2, <2>1, AppendProperties, LenProperties
<1>3. CASE OpenPiece
  <2>1. ~cfd /\ cfd' /\ buf' = buf /\ file' = Append(file, <<>>) /\ ~Putting
    BY <1>3 DEF OpenPiece, Opening, Putting, PutStmt, PutLast
  <2>0. /\ Len(file') = Len(file) + 1 /\ DOMAIN file' = 1..Len(file)+1
        /\ \A k \in 1..Len(file) : file'[k] = file[k]
        /\ file'[Len(file) + 1] = <<>>
    BY <1>2, <2>1
  <2>o. \A k \in 1..Len(file) : Made[k] = file[k]
    BY <1>d, <2>1 DEF Made, Content
  <2>p. \A k \in 1..Len(file)+1 : Made'[k] = IF k = Len(file) + 1 THEN file'[k] \o buf ELSE file'[k]
    BY <2>0, <2>1 DEF Made, Content
  <2>2. \A k \in 1..Len(file) : Made[k] = file[k] /\ Made'[k] = file[k]
    <3>1. \A k \in 1..Len(file) : k \in 1..Len(file)+1 /\ k # Len(file) + 1
      BY <1>d
    <3> QED
      BY <2>0, <2>o, <2>p, <3>1, Zenon
  <2>3. Made'[Len(file) + 1] = <<>> \o buf
    <3>1. Len(file) + 1 \in 1..Len(file)+1
      BY <1>d
    <3> QED
      BY <2>0, <2>p, <3>1, Zenon
  <2>4. <<>> \o buf = buf
    BY <1>t, ConcatEmptySeq DEF TypeOK
  <2>5. Adds(buf)
    BY <1>2, <2>1, <2>2, <2>3, <2>4 DEF Adds
  <2> QED
    BY <1>3, <2>1, <2>5
<1>4. CASE OpenFails
  <2>1. ~cfd /\ ~cfd' /\ file' = Append(file, <<>>) /\ ~Putting
    BY <1>4 DEF OpenFails, Opening, Putting, PutStmt, PutLast
  <2>0. /\ Len(file') = Len(file) + 1 /\ DOMAIN file' = 1..Len(file)+1
        /\ \A k \in 1..Len(file) : file'[k] = file[k]
        /\ file'[Len(file) + 1] = <<>>
    BY <1>2, <2>1
  <2>o. \A k \in 1..Len(file) : Made[k] = file[k]
    BY <1>d, <2>1 DEF Made, Content
  <2>p. \A k \in 1..Len(file)+1 : Made'[k] = file'[k]
    BY <2>0, <2>1 DEF Made, Content
  <2>2. \A k \in 1..Len(file) : Made[k] = file[k] /\ Made'[k] = file[k]
    <3>1. \A k \in 1..Len(file) : k \in 1..Len(file)+1
      BY <1>d
    <3> QED
      BY <2>0, <2>o, <2>p, <3>1, Zenon
  <2>3. Made'[Len(file) + 1] = <<>>
    BY <1>d, <2>0, <2>p
  <2>4. Adds(<<>>)
    BY <1>2, <2>1, <2>2, <2>3 DEF Adds
  <2> QED
    BY <1>4, <2>1, <2>4
<1>5. CASE Flush
  <2>1. /\ WrBuf(buf) /\ cfd /\ buf' = <<>> /\ buf \in Seq(Item) /\ buf' \in Seq(Item)
        /\ ~Putting
    BY <1>t, <1>5 DEF Flush, TypeInv, InCall, TypeOK, Putting, PutStmt, PutLast
  <2>2. Cuts(file[Len(file)] \o buf)
    BY <1>t, <2>1, Writing
  <2> QED
    BY <1>m, <1>5, <2>1, <2>2
<1>6. CASE FiniStmt
  <2>1. ~Putting /\ ~cfd' /\ buf \in Seq(Item) /\ buf' \in Seq(Item)
    BY <1>t, <1>6 DEF FiniStmt, TypeOK, Putting, PutStmt, PutLast
  <2>2. CASE cfd
    <3>1. WrBuf(buf)
      BY <1>6, <2>2 DEF FiniStmt
    <3>2. Cuts(file[Len(file)] \o buf)
      BY <1>t, <2>1, <2>2, <3>1, Writing
    <3> QED
      BY <1>m, <1>6, <2>1, <2>2, <3>2
  <2>3. CASE ~cfd
    <3>1. file' = file
      BY <1>6, <2>3 DEF FiniStmt
    <3>2. Same
      BY <2>1, <2>3, <3>1 DEF Same, Made, Content
    <3> QED
      BY <2>1, <3>2
  <2> QED
    BY <2>2, <2>3
<1>7. ASSUME Putting PROVE Appended \in Seq(Item) /\ Append(Made[Len(file)], cur) = file[Len(file)] \o Appended
  <2>1. cfd /\ cur \in Item /\ buf \in Seq(Item) /\ file[Len(file)] \in Seq(Item)
    BY <1>t, <1>n, <1>7, LastElement DEF TypeOK
  <2>2. Appended \in Seq(Item)
    BY <2>1, AppendProperties DEF Appended
  <2> DEFINE h   == file[Len(file)]
             one == <<cur>>
             P   == Made[Len(file)]
  <2>3. h \in Seq(Item) /\ buf \in Seq(Item) /\ one \in Seq(Item) /\ cur \in Item /\ P \in Seq(Item)
    BY <1>m, <2>1
  <2>4. Append(P, cur) = P \o one
    <3> HIDE DEF P
    <3> QED
      BY <2>3, AppendIsConcat
  <2>5. Appended = buf \o one
    BY <2>3, AppendIsConcat DEF Appended
  <2>6. P = h \o buf
    BY <1>m, <2>1
  <2> HIDE DEF h, one, P
  <2>7. (h \o buf) \o one = h \o (buf \o one)
    BY <2>3, ConcatAssociative
  <2>8. Append(P, cur) = h \o Appended
    BY <2>4, <2>5, <2>6, <2>7
  <2> QED
    BY <2>2, <2>8 DEF P, h
<1>8. CASE PutLast
  <2>1. WrBuf(Appended) /\ ~cfd' /\ Putting /\ cfd /\ buf' \in Seq(Item)
    BY <1>t, <1>n, <1>8 DEF PutLast, Putting, TypeOK
  <2>2. Cuts(file[Len(file)] \o Appended)
    BY <1>t, <1>7, <2>1, Writing
  <2> QED
    BY <1>7, <2>1, <2>2
<1>9. CASE PutStmt
  <2>1. Putting /\ cfd /\ cfd' /\ file' = file /\ buf' = Appended /\ lost' = lost
    BY <1>n, <1>9 DEF PutStmt, Putting
  <2>2. \A k \in 1..Len(file) : k # Len(file) => Made'[k] = Made[k]
    BY <1>m, <2>1 DEF Made, Content
  <2>3. Made'[Len(file)] = file[Len(file)] \o Appended
    BY <1>m, <2>1 DEF Made, Content
  <2>4. Made'[Len(file)] \in Seq(Item)
    BY <1>t, <1>7, <2>1, <2>3, LastElement, ConcatProperties DEF TypeOK
  <2> DEFINE T == Made'[Len(file)]
  <2>5. Begins(T, T)
    BY <2>4, LenProperties DEF Begins
  <2>6. Cuts(T)
    BY <2>1, <2>2, <2>5 DEF Cuts
  <2> QED
    BY <1>7, <2>1, <2>3, <2>6
<1>10. ASSUME NEW size, Cached(size) PROVE file' = file /\ buf' = buf /\ cfd' = cfd
  BY <1>10 DEF Cached
<1>11. CASE CacheDirective \/ GrowCache
  <2>1. file' = file /\ buf' = buf /\ cfd' = cfd /\ pc = "cache"
    BY <1>10, <1>11 DEF CacheDirective, GrowCache
  <2> QED
    BY <1>1, <1>n, <2>1
<1>12. CASE \/ \E s \in Stmt : Call(s)
            \/ NotDirective \/ GrowCacheFails \/ HasRoom \/ NoResize \/ Resize \/ ResizeFails
            \/ GiveUp \/ Halted
  <2>1. file' = file /\ buf' = buf /\ cfd' = cfd /\ pc # "put"
    BY <1>12 DEF Call, NotDirective, GrowCacheFails, HasRoom, NoResize, Resize, ResizeFails,
       GiveUp, Halted, Drop
  <2> QED
    BY <1>1, <1>n, <2>1
<1>13. CASE UNCHANGED vars
  <2>1. Same
    BY <1>1, <1>13
  <2>2. ~Putting
    BY <1>13 DEF Putting, PutStmt, PutLast
  <2> QED
    BY <2>1, <2>2
<1> QED
  BY <1>3, <1>4, <1>5, <1>6, <1>8, <1>9, <1>11, <1>12, <1>13 DEF Next

\* The pieces are sequences after a step, too.
PiecesTyped == Len(file) \in Nat /\ \A k \in 1..Len(file) : Made[k] \in Seq(Item)
LEMMA MadeTypeNext == TypeOK' => PiecesTyped'
<1>1. TypeOK => PiecesTyped
  BY MadeType DEF PiecesTyped
<1> QED
  BY <1>1, PTL

\* x is in s, at some place.
LEMMA InRange ==
  ASSUME NEW S, NEW s \in Seq(S), NEW x
  PROVE  x \in Range(s) <=> \E i \in 1..Len(s) : s[i] = x
  BY LenProperties DEF Range

\* Where the statements of a piece are from: they were there, at the same place
\* behind the same items, or it is the one that the running call writes.
WasThere(k, i) ==
  /\ k \in 1..Len(file) /\ i \in DOMAIN Made[k]
  /\ \A j \in 1..i : Made'[k][j] = Made[k][j]
WrittenNow(k, i) ==
  /\ Putting /\ cfd /\ k = Len(file) /\ k \in 1..Len(file)
  /\ i = Len(Made[k]) + 1 /\ Made'[k][i] = cur
  /\ \A j \in 1..i-1 : Made'[k][j] = Made[k][j]

LEMMA WhereFrom ==
  ASSUME TypeInv, Opening, SeedsClean, [Next]_vars,
         NEW k \in 1..Len(file'), NEW i \in DOMAIN Made'[k], ~IsDirective(Made'[k][i])
  PROVE  WasThere(k, i) \/ WrittenNow(k, i)
<1>m. /\ Len(file) \in Nat
      /\ \A l \in 1..Len(file) : Made[l] \in Seq(Item)
      /\ cfd => Len(file) \in 1..Len(file)
  BY MadeType DEF TypeInv
<1>w. /\ Len(file') \in Nat /\ Made'[k] \in Seq(Item)
      /\ DOMAIN Made'[k] = 1..Len(Made'[k]) /\ Len(Made'[k]) \in Nat
  <2>1. TypeOK'
    BY TypeStep DEF TypeInv
  <2>2. Len(file') \in Nat /\ \A l \in 1..Len(file') : Made'[l] \in Seq(Item)
    BY <2>1, MadeTypeNext DEF PiecesTyped
  <2> QED
    BY <2>2, LenProperties
<1>1. ASSUME k \in 1..Len(file), Made'[k] = Made[k] PROVE WasThere(k, i)
  BY <1>1 DEF WasThere
<1>2. CASE Same
  BY <1>1, <1>2 DEF Same
<1>3. ASSUME NEW b \in Seq(Item), \A x \in Range(b) : IsDirective(x), Adds(b)
      PROVE  WasThere(k, i)
  <2>1. k # Len(file) + 1
    <3>1. ASSUME k = Len(file) + 1 PROVE FALSE
      <4>1. Made'[k] = b
        BY <1>3, <3>1 DEF Adds
      <4>2. Made'[k][i] \in Range(b)
        BY <4>1 DEF Range
      <4> QED
        BY <1>3, <4>2
    <3> QED
      BY <3>1
  <2>2. k \in 1..Len(file)
    BY <1>m, <1>3, <2>1 DEF Adds
  <2> QED
    BY <1>1, <1>3, <2>2 DEF Adds
<1>4. CASE OpenPiece /\ Adds(buf)
  <2>1. buf \in Seq(Item) /\ \A x \in Range(buf) : IsDirective(x)
    BY <1>4 DEF OpenPiece, Opening, SeedsClean, TypeInv, TypeOK
  <2> QED
    BY <1>3, <1>4, <2>1
<1>5. CASE Adds(<<>>)
  <2>1. <<>> \in Seq(Item) /\ \A x \in Range(<<>>) : IsDirective(x)
    BY Nothing DEF Range
  <2> QED
    BY <1>3, <1>5, <2>1
<1>6. ASSUME NEW T \in Seq(Item), Cuts(T), k = Len(file)
      PROVE  /\ cfd /\ i \in 1..Len(T)
             /\ \A j \in 1..i : Made'[k][j] = T[j]
  BY <1>m, <1>w, <1>6, LenProperties DEF Cuts, Begins
<1>7. ASSUME NEW T, Cuts(T), k # Len(file)
      PROVE  WasThere(k, i)
  <2>1. k \in 1..Len(file) /\ Made'[k] = Made[k]
    BY <1>7 DEF Cuts
  <2> QED
    BY <1>1, <2>1
<1>8. CASE Cuts(Made[Len(file)])
  <2>1. CASE k = Len(file)
    <3>1. cfd
      BY <1>8 DEF Cuts
    <3>2. Made[k] \in Seq(Item) /\ k \in 1..Len(file)
      BY <1>m, <2>1, <3>1
    <3>3. i \in 1..Len(Made[k]) /\ \A j \in 1..i : Made'[k][j] = Made[k][j]
      BY <1>6, <1>8, <2>1, <3>2
    <3> QED
      BY <3>2, <3>3, LenProperties DEF WasThere
  <2> QED
    BY <1>7, <1>8, <2>1
<1>9. CASE Putting /\ Cuts(Append(Made[Len(file)], cur))
  <2>1. CASE k = Len(file)
    <3> DEFINE P == Made[k]
               T == Append(P, cur)
    <3>1. cfd /\ cur \in Item
      BY <1>9, CurrentCall DEF Putting, PutStmt, PutLast, TypeInv, InCall
    <3>2. P \in Seq(Item) /\ k \in 1..Len(file)
      BY <1>m, <2>1, <3>1
    <3> HIDE DEF P
    <3>3. /\ T \in Seq(Item) /\ Len(T) = Len(P) + 1 /\ T[Len(P) + 1] = cur
          /\ \A j \in 1..Len(P) : T[j] = P[j]
          /\ Len(P) \in Nat /\ DOMAIN P = 1..Len(P)
      BY <3>1, <3>2, AppendProperties, LenProperties
    <3>4. Cuts(T)
      BY <1>9, <2>1 DEF P
    <3> HIDE DEF T
    <3>5. i \in 1..Len(T) /\ \A j \in 1..i : Made'[k][j] = T[j]
      BY <1>6, <2>1, <3>3, <3>4
    <3>6. CASE i \in 1..Len(P)
      <4>1. i \in DOMAIN P /\ \A j \in 1..i : Made'[k][j] = P[j]
        BY <3>3, <3>5, <3>6
      <4> QED
        BY <3>2, <4>1 DEF WasThere, P
    <3>7. CASE i = Len(P) + 1
      <4>1. Made'[k][i] = cur /\ \A j \in 1..i-1 : Made'[k][j] = P[j]
        BY <3>3, <3>5, <3>7
      <4> QED
        BY <1>9, <2>1, <3>1, <3>2, <3>7, <4>1 DEF WrittenNow, P
    <3> QED
      BY <3>3, <3>5, <3>6, <3>7
  <2> QED
    BY <1>7, <1>9, <2>1
<1> QED
  BY <1>2, <1>4, <1>5, <1>8, <1>9, PieceStep

\* Nothing leaves a piece, unless a failure drops it; what a call writes arrives.
LEMMA WhereTo ==
  ASSUME TypeInv, Opening, [Next]_vars
  PROVE  /\ \A k \in 1..Len(file) :
              k \in 1..Len(file') /\ \A x \in Range(Made[k]) : x \in Range(Made'[k]) \/ x \in lost'
         /\ Putting => /\ Len(file) \in 1..Len(file')
                       /\ cur \in Range(Made'[Len(file)]) \/ cur \in lost'
<1>m. /\ Len(file) \in Nat
      /\ \A l \in 1..Len(file) : Made[l] \in Seq(Item)
      /\ cfd => Len(file) \in 1..Len(file)
  BY MadeType DEF TypeInv
<1>1. CASE ~Putting /\ Same
  BY <1>1 DEF Same
<1>2. ASSUME NEW b, ~Putting, Adds(b)
      PROVE  \A k \in 1..Len(file) : k \in 1..Len(file') /\ Made'[k] = Made[k]
  BY <1>m, <1>2 DEF Adds
<1>3. ASSUME ~Putting, Cuts(Made[Len(file)])
      PROVE  \A k \in 1..Len(file) :
               k \in 1..Len(file') /\ \A x \in Range(Made[k]) : x \in Range(Made'[k]) \/ x \in lost'
  BY <1>3 DEF Cuts
<1>4. ASSUME Putting, Cuts(Append(Made[Len(file)], cur))
      PROVE  /\ \A k \in 1..Len(file) :
                  k \in 1..Len(file') /\ \A x \in Range(Made[k]) : x \in Range(Made'[k]) \/ x \in lost'
             /\ Len(file) \in 1..Len(file')
             /\ cur \in Range(Made'[Len(file)]) \/ cur \in lost'
  <2>1. cfd /\ cur \in Item
    BY <1>4, CurrentCall DEF Putting, PutStmt, PutLast, TypeInv, InCall
  <2> DEFINE P == Made[Len(file)]
             T == Append(P, cur)
  <2>2. P \in Seq(Item)
    BY <1>m, <2>1
  <2>3. Range(P) \subseteq Range(T) /\ cur \in Range(T)
    <3> HIDE DEF P
    <3> QED
      BY <2>1, <2>2, RangeOfAppend
  <2>4. Cuts(T)
    BY <1>4
  <2> HIDE DEF T
  <2> QED
    BY <1>m, <2>1, <2>3, <2>4 DEF Cuts
<1> QED
  BY <1>1, <1>2, <1>3, <1>4, PieceStep

---------------------------------------------------------------------------
(* The inductive invariant, part by part.                                  *)

\* The calls carry their numbers, and the input that they are from.
Numbered ==
  /\ \A i \in 1..Len(fed) : fed[i].no = i /\ fed[i].inp <= inp
  /\ InCall => cur.inp = inp

\* What is in a piece was handed on before the running call.
Past ==
  \A k \in 1..Len(file) : \A i \in StatementsAt(Made[k]) :
    Made[k][i].no <= Len(fed) /\ (InCall => Made[k][i].no < Len(fed))

Genuine ==
  \A k \in 1..Len(file) : \A i \in StatementsAt(Made[k]) : Made[k][i] = fed[Made[k][i].no]

InOrder ==
  \A k, l \in 1..Len(file) :
    \A i \in StatementsAt(Made[k]), j \in StatementsAt(Made[l]) :
      k < l \/ (k = l /\ i < j) => Made[k][i].no < Made[l][j].no

Kept ==
  \A x \in Through : IsDirective(x) \/ x \in lost \/ \E k \in 1..Len(file) : x \in Range(Made[k])

\* The directives of the input that are through and were not dropped.
Standing == {x \in Through : IsDirective(x) /\ x.inp = inp /\ x \notin lost}

\* They are in the cache, and in the piece or in the buffer that will seed it.
DirectivesHeld ==
  pc \notin {"done", "wild_dir", "wild_buf"} =>
    /\ Standing \subseteq Range(dir)
    /\ Standing \subseteq IF cfd THEN Range(Made[Len(file)]) ELSE Range(buf)

Contained ==
  \A k \in 1..Len(file) : \A i \in StatementsAt(Made[k]) : \A d \in Range(fed) :
    /\ IsDirective(d) /\ d.no < Made[k][i].no /\ d.inp = Made[k][i].inp /\ d \notin lost
    => \E j \in 1..i-1 : Made[k][j] = d

Most == IF nstmt = 0 THEN 1 ELSE nstmt

Counted ==
  /\ istmt = 0 \/ istmt < nstmt
  /\ cfd => Cardinality(StatementsAt(Made[Len(file)])) <= istmt
  /\ \A k \in 1..Len(file) : Cardinality(StatementsAt(Made[k])) <= Most

---------------------------------------------------------------------------
(* Each part holds after a step if the invariant holds before it.          *)

\* What a step does to the record of the calls and of what was dropped.
LEMMA RecordStep ==
  ASSUME TypeInv, [Next]_vars
  PROVE  /\ lost \subseteq lost'
         /\ \/ fed' = fed
            \/ /\ pc = "idle" /\ InCall' /\ Len(fed') = Len(fed) + 1 /\ inp' = inp
               /\ \A i \in 1..Len(fed) : fed'[i] = fed[i]
               /\ fed'[Len(fed) + 1].no = Len(fed) + 1 /\ fed'[Len(fed) + 1].inp = inp
         /\ fed' = fed /\ InCall' => InCall /\ inp' = inp
         /\ Putting => InCall /\ pc = "put" /\ fed' = fed /\ ~InCall'
         /\ InCall /\ ~InCall' /\ pc' \notin {"wild_dir", "wild_buf"} /\ ~Putting => cur \in lost'
<1> USE DEF vars, buffer, cache, output, calls
<1>t. TypeOK
  BY DEF TypeInv
<1>1. lost \subseteq lost'
  <2>1. ASSUME NEW b, WrBuf(b) PROVE lost \subseteq lost'
    BY <2>1 DEF WrBuf
  <2>2. CASE Flush \/ PutLast \/ FiniStmt
    BY <2>1, <2>2 DEF Flush, PutLast, FiniStmt
  <2> QED
    BY <2>2 DEF Next, Call, OpenPiece, OpenFails, Drop, NotDirective, CacheDirective, GrowCache,
       Cached, GrowCacheFails, HasRoom, NoResize, Resize, ResizeFails, PutStmt, GiveUp, Halted
<1>2. ASSUME NEW s \in Stmt, Call(s)
      PROVE  /\ pc = "idle" /\ InCall' /\ Len(fed') = Len(fed) + 1 /\ inp' = inp
             /\ \A i \in 1..Len(fed) : fed'[i] = fed[i]
             /\ fed'[Len(fed) + 1].no = Len(fed) + 1 /\ fed'[Len(fed) + 1].inp = inp
  <2> DEFINE new == [no |-> Len(fed) + 1, stmt |-> s, inp |-> inp]
  <2>1. Len(fed) + 1 \in 1..MaxCalls
    BY <1>t, <1>2, LenProperties, BoundAssumption DEF Call, TypeOK
  <2>2. new \in Item /\ new.no = Len(fed) + 1 /\ new.inp = inp
    BY <1>t, <2>1 DEF TypeOK, Item
  <2>3. fed' = Append(fed, new) /\ fed \in Seq(Item)
    BY <1>t, <1>2 DEF Call, TypeOK
  <2> HIDE DEF new
  <2>4. /\ Len(fed') = Len(fed) + 1 /\ fed'[Len(fed) + 1] = new
        /\ \A i \in 1..Len(fed) : fed'[i] = fed[i]
    BY <2>2, <2>3, AppendProperties
  <2>5. pc = "idle" /\ InCall' /\ inp' = inp
    BY <1>2 DEF Call, InCall
  <2> QED
    BY <2>2, <2>4, <2>5
<1>3. CASE OpenPiece \/ OpenFails \/ NotDirective \/ CacheDirective \/ GrowCache \/ GrowCacheFails
  BY <1>1, <1>3 DEF OpenPiece, OpenFails, Drop, NotDirective, CacheDirective, GrowCache,
     Cached, GrowCacheFails, InCall, Putting, PutStmt, PutLast
<1>4. CASE HasRoom \/ Flush \/ NoResize \/ Resize \/ ResizeFails
  BY <1>1, <1>4 DEF HasRoom, Flush, NoResize, Resize, ResizeFails, Drop,
     InCall, Putting, PutStmt, PutLast
<1>5. CASE PutStmt \/ PutLast
  BY <1>1, <1>5 DEF InCall, Putting, PutStmt, PutLast
<1>6. CASE FiniStmt \/ GiveUp
  <2>1. pc = "idle" /\ fed' = fed /\ ~InCall /\ ~InCall'
    BY <1>6 DEF FiniStmt, GiveUp, NextInput, InCall
  <2> QED
    BY <1>1, <2>1 DEF Putting, PutStmt, PutLast
<1>7. CASE Halted \/ UNCHANGED vars
  BY <1>1, <1>7 DEF Halted, InCall, Putting, PutStmt, PutLast
<1>8. CASE \E s \in Stmt : Call(s)
  <2>1. PICK s \in Stmt : Call(s)
    BY <1>8
  <2>2. fed' # fed
    BY <1>2, <1>t, <2>1, LenProperties DEF TypeOK
  <2>3. pc = "idle" /\ ~InCall /\ ~Putting
    BY <2>1 DEF Call, InCall, Putting, PutStmt, PutLast
  <2> QED
    BY <1>1, <1>2, <2>1, <2>2, <2>3
<1> QED
  BY <1>3, <1>4, <1>5, <1>6, <1>7, <1>8 DEF Next

LEMMA OpeningStep == TypeInv /\ Opening /\ [Next]_vars => Opening'
<1> USE DEF vars, buffer, cache, output, calls
<1>1. ASSUME pc' # "enter" PROVE Opening'
  BY <1>1 DEF Opening
<1>2. ASSUME NEW s \in Stmt, Call(s) PROVE Opening'
  BY <1>2 DEF Call, Opening
<1>3. CASE OpenPiece \/ OpenFails \/ NotDirective \/ CacheDirective \/ GrowCache
  BY <1>1, <1>3 DEF OpenPiece, OpenFails, Drop, NotDirective, CacheDirective, GrowCache, Cached
<1>4. CASE GrowCacheFails \/ HasRoom \/ Flush \/ NoResize \/ Resize \/ ResizeFails
  BY <1>1, <1>4 DEF GrowCacheFails, HasRoom, Flush, NoResize, Resize, ResizeFails, Drop
<1>5. CASE PutStmt \/ PutLast \/ FiniStmt \/ GiveUp \/ Halted
  BY <1>1, <1>5 DEF PutStmt, PutLast, FiniStmt, GiveUp, NextInput, Halted
<1> QED
  BY <1>2, <1>3, <1>4, <1>5 DEF Next, Opening

LEMMA SeedsStep == TypeInv /\ SeedsClean /\ [Next]_vars => SeedsClean'
<1> SUFFICES ASSUME TypeInv, SeedsClean, [Next]_vars PROVE SeedsClean'
  OBVIOUS
<1> USE DEF vars, buffer, cache, output, calls
<1>1. ASSUME dir' = dir, buf' = buf, cfd' = cfd, pc # "wild_buf" PROVE SeedsClean'
  BY <1>1 DEF SeedsClean
<1>2. ASSUME dir' = dir, cfd' PROVE SeedsClean'
  BY <1>2 DEF SeedsClean
<1>3. ASSUME NEW size, pc = "cache", IsDirective(cur), Cached(size) PROVE SeedsClean'
  <2>1. cur \in Item /\ dir \in Seq(Item) /\ cfd'
    BY <1>3, CurrentCall DEF TypeInv, TypeOK, InCall, Cached
  <2>2. \A x \in Range(Append(dir, cur)) : IsDirective(x)
    <3>1. /\ Append(dir, cur) \in Seq(Item) /\ Len(Append(dir, cur)) = Len(dir) + 1
          /\ \A i \in 1..Len(dir) : Append(dir, cur)[i] = dir[i]
          /\ Append(dir, cur)[Len(dir) + 1] = cur
      BY <2>1, AppendProperties
    <3>2. DOMAIN dir = 1..Len(dir) /\ Len(dir) \in Nat /\ DOMAIN Append(dir, cur) = 1..Len(dir)+1
      BY <2>1, <3>1, LenProperties
    <3>3. \A i \in 1..Len(dir) : IsDirective(dir[i])
      BY <3>2 DEF SeedsClean, Range
    <3>4. \A i \in 1..Len(dir)+1 : IsDirective(Append(dir, cur)[i])
      BY <1>3, <3>1, <3>2, <3>3
    <3> QED
      BY <3>2, <3>4 DEF Range
  <2> QED
    BY <1>3, <2>1, <2>2 DEF Cached, SeedsClean
<1>4. CASE CacheDirective \/ GrowCache
  BY <1>3, <1>4 DEF CacheDirective, GrowCache
<1>5. CASE \/ \E s \in Stmt : Call(s)
           \/ OpenFails \/ NotDirective \/ GrowCacheFails \/ HasRoom \/ NoResize
           \/ Resize \/ ResizeFails \/ GiveUp
  BY <1>1, <1>5 DEF Call, OpenFails, NotDirective, GrowCacheFails, HasRoom, NoResize, Resize,
     ResizeFails, GiveUp, Drop
<1>6. CASE OpenPiece \/ Flush \/ PutStmt
  BY <1>2, <1>6 DEF OpenPiece, Flush, PutStmt, TypeInv, InCall
<1>7. CASE PutLast
  BY <1>7 DEF PutLast, SeedsClean
<1>8. CASE FiniStmt
  BY <1>8 DEF FiniStmt, SeedsClean, Range
<1>9. CASE Halted \/ UNCHANGED vars
  BY <1>9 DEF Halted, SeedsClean
<1> QED
  BY <1>4, <1>5, <1>6, <1>7, <1>8, <1>9 DEF Next

LEMMA NumberedStep == TypeInv /\ Numbered /\ [Next]_vars => Numbered'
<1> SUFFICES ASSUME TypeInv, Numbered, [Next]_vars PROVE Numbered'
  OBVIOUS
<1>t. TypeOK /\ TypeOK' /\ Len(fed) \in Nat
  BY TypeStep, LenProperties DEF TypeInv, TypeOK
<1>1. inp <= inp'
  <2> USE DEF vars, buffer, cache, output, calls
  <2>1. CASE FiniStmt \/ GiveUp
    BY <1>t, <2>1 DEF FiniStmt, GiveUp, NextInput, TypeOK
  <2>2. inp' = inp => inp <= inp'
    BY <1>t DEF TypeOK
  <2> QED
    BY <2>1, <2>2 DEF Next, Call, OpenPiece, OpenFails, Drop, NotDirective, CacheDirective, GrowCache,
       Cached, GrowCacheFails, HasRoom, Flush, NoResize, Resize, ResizeFails, PutStmt, PutLast, Halted
<1>2. \A i \in 1..Len(fed) : fed[i].inp \in Nat
  <2>1. fed \in Seq(Item)
    BY <1>t DEF TypeOK
  <2>2. \A i \in 1..Len(fed) : fed[i] \in Item
    BY <2>1, ElementOfSeq
  <2>3. \A x \in Item : x.inp \in Nat
    BY BoundAssumption DEF Item
  <2> QED
    BY <2>2, <2>3
<1>i. inp \in Nat /\ inp' \in Nat
  BY <1>t, BoundAssumption DEF TypeOK
<1>3. CASE fed' = fed
  <2>1. \A i \in 1..Len(fed) : fed[i].no = i /\ fed[i].inp <= inp'
    BY <1>i, <1>1, <1>2 DEF Numbered
  <2>2. InCall' => cur' = cur /\ cur.inp = inp /\ inp' = inp
    BY <1>3, RecordStep DEF Numbered, cur
  <2> QED
    BY <1>3, <2>1, <2>2 DEF Numbered
<1>4. CASE fed' # fed
  <2>1. /\ Len(fed') = Len(fed) + 1 /\ inp' = inp
        /\ \A i \in 1..Len(fed) : fed'[i] = fed[i]
        /\ fed'[Len(fed) + 1].no = Len(fed) + 1 /\ fed'[Len(fed) + 1].inp = inp
    BY <1>4, RecordStep
  <2>2. cur'.inp = inp
    BY <2>1 DEF cur
  <2>3. \A i \in 1..Len(fed') : i \in 1..Len(fed) \/ i = Len(fed) + 1
    BY <1>t, <2>1
  <2> QED
    BY <1>i, <2>1, <2>2, <2>3 DEF Numbered
<1> QED
  BY <1>3, <1>4

\* The running call, as the pieces see it.
LEMMA WrittenItem ==
  ASSUME TypeInv, Numbered, Putting
  PROVE  /\ Len(fed) \in Nat /\ cur \in Item /\ cur.no = Len(fed) /\ cur.inp = inp
         /\ cfd /\ pc = "put" /\ InCall
<1>1. pc = "put" /\ InCall
  BY DEF Putting, PutStmt, PutLast, InCall
<1>2. Len(fed) \in 1..Len(fed) /\ Len(fed) \in Nat
  BY <1>1, LastElement, LenProperties DEF TypeInv, TypeOK
<1> QED
  BY <1>1, <1>2, CurrentCall DEF TypeInv, Numbered, cur

\* What the pieces hold are items.
LEMMA PieceItems ==
  ASSUME TypeInv, NEW k \in 1..Len(file)
  PROVE  /\ DOMAIN Made[k] = 1..Len(Made[k]) /\ Len(Made[k]) \in Nat
         /\ \A i \in DOMAIN Made[k] : Made[k][i] \in Item /\ Made[k][i].no \in Nat
<1>1. Made[k] \in Seq(Item)
  BY MadeType DEF TypeInv
<1>2. \A x \in Item : x.no \in Nat
  BY BoundAssumption DEF Item
<1>3. DOMAIN Made[k] = 1..Len(Made[k]) /\ Len(Made[k]) \in Nat
  BY <1>1, LenProperties
<1>4. \A i \in 1..Len(Made[k]) : Made[k][i] \in Item
  BY <1>1, ElementOfSeq
<1> QED
  BY <1>2, <1>3, <1>4

\* A place in a piece after a step is a number.
LEMMA PlaceNext ==
  ASSUME TypeInv, [Next]_vars, NEW k \in 1..Len(file'), NEW i \in DOMAIN Made'[k]
  PROVE  i \in Nat /\ i \in 1..i
<1>1. PiecesTyped'
  BY TypeStep, MadeTypeNext DEF TypeInv
<1>2. DOMAIN Made'[k] = 1..Len(Made'[k])
  BY <1>1, LenProperties DEF PiecesTyped
<1>3. Len(Made'[k]) \in Nat
  BY <1>1, LenProperties DEF PiecesTyped
<1> QED
  BY <1>2, <1>3

LEMMA PastStep ==
  TypeInv /\ Opening /\ SeedsClean /\ Numbered /\ Past /\ [Next]_vars => Past'
<1> SUFFICES ASSUME TypeInv, Opening, SeedsClean, Numbered, Past, [Next]_vars,
                    NEW k \in 1..Len(file'), NEW i \in DOMAIN Made'[k], ~IsDirective(Made'[k][i])
             PROVE  Made'[k][i].no <= Len(fed') /\ (InCall' => Made'[k][i].no < Len(fed'))
  BY DEF Past, StatementsAt, IsStatement
<1>1. i \in 1..i
  BY PlaceNext
<1>2. Len(fed) \in Nat
  BY LenProperties DEF TypeInv, TypeOK
<1>3. CASE WasThere(k, i)
  <2>1. k \in 1..Len(file) /\ i \in DOMAIN Made[k] /\ Made'[k][i] = Made[k][i]
    BY <1>1, <1>3 DEF WasThere
  <2>2. /\ Made[k][i].no \in Nat /\ Made[k][i].no <= Len(fed)
        /\ InCall => Made[k][i].no < Len(fed)
    BY <2>1, PieceItems DEF Past, StatementsAt, IsStatement
  <2>3. \/ fed' = fed /\ (InCall' => InCall)
        \/ Len(fed') = Len(fed) + 1
    BY RecordStep
  <2> QED
    BY <1>2, <2>1, <2>2, <2>3
<1>4. CASE WrittenNow(k, i)
  <2>1. Made'[k][i] = cur /\ Putting
    BY <1>4 DEF WrittenNow
  <2>2. cur.no = Len(fed) /\ fed' = fed /\ ~InCall'
    BY <2>1, WrittenItem, RecordStep
  <2> QED
    BY <1>2, <2>1, <2>2
<1> QED
  BY <1>3, <1>4, WhereFrom

LEMMA GenuineStep ==
  TypeInv /\ Opening /\ SeedsClean /\ Numbered /\ Past /\ Genuine /\ [Next]_vars => Genuine'
<1> SUFFICES ASSUME TypeInv, Opening, SeedsClean, Numbered, Past, Genuine, [Next]_vars,
                    NEW k \in 1..Len(file'), NEW i \in DOMAIN Made'[k], ~IsDirective(Made'[k][i])
             PROVE  Made'[k][i] = fed'[Made'[k][i].no]
  BY DEF Genuine, StatementsAt, IsStatement
<1>1. i \in 1..i
  BY PlaceNext
<1>2. Len(fed) \in Nat
  BY LenProperties DEF TypeInv, TypeOK
<1>3. CASE WasThere(k, i)
  <2>1. k \in 1..Len(file) /\ i \in DOMAIN Made[k] /\ Made'[k][i] = Made[k][i]
    BY <1>1, <1>3 DEF WasThere
  <2>2. Made[k][i] = fed[Made[k][i].no] /\ Made[k][i].no <= Len(fed) /\ Made[k][i] \in Item
    BY <2>1, PieceItems DEF Past, Genuine, StatementsAt, IsStatement
  <2>3. Made[k][i].no \in 1..Len(fed)
    <3>1. Made[k][i].no \in 1..MaxCalls
      BY <2>2 DEF Item
    <3> QED
      BY <1>2, <2>2, <3>1, BoundAssumption
  <2>4. \A n \in 1..Len(fed) : fed'[n] = fed[n]
    BY RecordStep
  <2> QED
    BY <2>1, <2>2, <2>3, <2>4
<1>4. CASE WrittenNow(k, i)
  <2>1. Made'[k][i] = cur /\ Putting
    BY <1>4 DEF WrittenNow
  <2>2. cur.no = Len(fed) /\ fed' = fed
    BY <2>1, WrittenItem, RecordStep
  <2> QED
    BY <2>1, <2>2 DEF cur
<1> QED
  BY <1>3, <1>4, WhereFrom

LEMMA OrderStep ==
  TypeInv /\ Opening /\ SeedsClean /\ Numbered /\ Past /\ InOrder /\ [Next]_vars => InOrder'
<1> SUFFICES ASSUME TypeInv, Opening, SeedsClean, Numbered, Past, InOrder, [Next]_vars,
                    NEW k \in 1..Len(file'), NEW l \in 1..Len(file'),
                    NEW i \in DOMAIN Made'[k], ~IsDirective(Made'[k][i]),
                    NEW j \in DOMAIN Made'[l], ~IsDirective(Made'[l][j]),
                    k < l \/ (k = l /\ i < j)
             PROVE  Made'[k][i].no < Made'[l][j].no
  BY DEF InOrder, StatementsAt, IsStatement
<1>1. i \in 1..i /\ j \in 1..j /\ i \in Nat /\ j \in Nat
  BY PlaceNext
<1>m. Len(file) \in Nat
  BY MadeType DEF TypeInv
<1>2. WasThere(k, i) =>
        k \in 1..Len(file) /\ i \in DOMAIN Made[k] /\ Made'[k][i] = Made[k][i]
  BY <1>1 DEF WasThere
<1>3. WasThere(l, j) =>
        l \in 1..Len(file) /\ j \in DOMAIN Made[l] /\ Made'[l][j] = Made[l][j]
  BY <1>1 DEF WasThere
<1>4. CASE WasThere(k, i) /\ WasThere(l, j)
  BY <1>2, <1>3, <1>4 DEF InOrder, StatementsAt, IsStatement
<1>5. CASE WasThere(k, i) /\ WrittenNow(l, j)
  <2>1. Putting /\ Made'[l][j] = cur
    BY <1>5 DEF WrittenNow
  <2>2. InCall /\ cur.no = Len(fed)
    BY <2>1, WrittenItem
  <2> QED
    BY <1>2, <1>5, <2>1, <2>2 DEF Past, StatementsAt, IsStatement
<1>6. CASE WrittenNow(k, i)
  <2>1. k = Len(file) /\ i = Len(Made[k]) + 1 /\ k \in 1..Len(file)
    BY <1>6 DEF WrittenNow
  <2>2. l \in 1..Len(file)
    BY <1>3, WhereFrom DEF WrittenNow
  <2>3. l = k
    BY <1>m, <2>1, <2>2
  <2>4. j \in 1..Len(Made[k]) \/ j = Len(Made[k]) + 1
    <3>1. DOMAIN Made[k] = 1..Len(Made[k])
      BY <2>1, PieceItems
    <3> QED
      BY <1>3, <2>3, <3>1, WhereFrom DEF WrittenNow
  <2>5. Len(Made[k]) \in Nat
    BY <2>1, PieceItems
  <2> QED
    BY <1>1, <2>1, <2>3, <2>4, <2>5
<1> QED
  BY <1>4, <1>5, <1>6, WhereFrom

\* The model halts at a write out of bounds.
LEMMA WildStays == [Next]_vars /\ pc \in {"wild_dir", "wild_buf"} => pc' = pc
  BY DEF Next, Call, OpenPiece, OpenFails, NotDirective, CacheDirective, GrowCache,
     GrowCacheFails, HasRoom, Flush, NoResize, Resize, ResizeFails, PutStmt, PutLast,
     FiniStmt, GiveUp, Halted, vars

\* Which calls are through.
IsThrough(x) ==
  \E i \in 1..Len(fed) : fed[i] = x /\ (i = Len(fed) => pc \in {"idle", "done"})
ThroughShape == \A x : x \in Through <=> IsThrough(x)
LEMMA ThroughIs == TypeOK => ThroughShape
<1>1. TypeOK => Len(fed) \in Nat
  BY LenProperties DEF TypeOK
<1> QED
  BY <1>1 DEF ThroughShape, Through, IsThrough
LEMMA ThroughIsNext == TypeOK' => ThroughShape'
  BY ThroughIs, PTL

\* The running call comes through when it is written or dropped, and no other.
LEMMA ThroughStep ==
  ASSUME TypeInv, [Next]_vars, NEW x \in Through'
  PROVE  x \in Through \/ (x = cur /\ InCall /\ fed' = fed /\ (Putting \/ cur \in lost'))
<1>t. TypeOK /\ TypeOK' /\ Len(fed) \in Nat
  BY TypeStep, LenProperties DEF TypeInv, TypeOK
<1>1. PICK i \in 1..Len(fed') : fed'[i] = x /\ (i = Len(fed') => pc' \in {"idle", "done"})
  BY <1>t, ThroughIsNext DEF ThroughShape, IsThrough
<1>2. ASSUME NEW m \in 1..Len(fed), fed[m] = x, m = Len(fed) => pc \in {"idle", "done"}
      PROVE  x \in Through
  BY <1>t, <1>2, ThroughIs DEF ThroughShape, IsThrough
<1>3. CASE fed' = fed
  <2>1. CASE i = Len(fed) /\ pc \notin {"idle", "done"}
    <3>1. x = cur /\ pc' \in {"idle", "done"}
      BY <1>1, <1>3, <2>1 DEF cur
    <3>2. InCall /\ ~InCall' /\ pc' \notin {"wild_dir", "wild_buf"}
      BY <1>t, <2>1, <3>1, WildStays DEF TypeOK, InCall
    <3> QED
      BY <1>3, <3>1, <3>2, RecordStep
  <2>2. CASE ~(i = Len(fed) /\ pc \notin {"idle", "done"})
    BY <1>1, <1>2, <1>3, <2>2
  <2> QED
    BY <2>1, <2>2
<1>4. CASE fed' # fed
  <2>1. /\ Len(fed') = Len(fed) + 1 /\ pc = "idle" /\ InCall'
        /\ \A m \in 1..Len(fed) : fed'[m] = fed[m]
    BY <1>4, RecordStep
  <2>2. i \in 1..Len(fed)
    BY <1>t, <1>1, <2>1 DEF InCall
  <2> QED
    BY <1>1, <1>2, <2>1, <2>2
<1> QED
  BY <1>3, <1>4

LEMMA KeptStep == TypeInv /\ Opening /\ Kept /\ [Next]_vars => Kept'
<1> SUFFICES ASSUME TypeInv, Opening, Kept, [Next]_vars,
                    NEW x \in Through', ~IsDirective(x), x \notin lost'
             PROVE  \E k \in 1..Len(file') : x \in Range(Made'[k])
  BY DEF Kept
<1>1. CASE x \in Through
  <2>1. x \notin lost
    BY RecordStep
  <2>2. PICK k \in 1..Len(file) : x \in Range(Made[k])
    BY <1>1, <2>1 DEF Kept
  <2> QED
    BY <2>2, WhereTo
<1>2. CASE x = cur /\ Putting
  BY <1>2, WhereTo
<1> QED
  BY <1>1, <1>2, ThroughStep

\* The cache only grows, and it holds the directive that is being written.
LEMMA CacheStep ==
  ASSUME TypeInv, [Next]_vars, inp' = inp, pc' # "done"
  PROVE  Range(dir) \subseteq Range(dir')
<1> USE DEF vars, buffer, cache, output, calls
<1>1. ASSUME NEW size, pc = "cache", Cached(size) PROVE Range(dir) \subseteq Range(dir')
  <2>1. cur \in Item /\ dir \in Seq(Item)
    BY <1>1, CurrentCall DEF TypeInv, TypeOK, InCall
  <2> QED
    BY <1>1, <2>1, RangeOfAppend DEF Cached
<1>2. CASE CacheDirective \/ GrowCache
  BY <1>1, <1>2 DEF CacheDirective, GrowCache
<1>3. CASE FiniStmt
  BY <1>3, BoundAssumption DEF FiniStmt, NextInput, TypeInv, TypeOK
<1> QED
  BY <1>2, <1>3 DEF Next, Call, OpenPiece, OpenFails, NotDirective, GrowCacheFails,
     HasRoom, Flush, NoResize, Resize, ResizeFails, PutStmt, PutLast, GiveUp, Halted

LEMMA HeldStep ==
  /\ TypeInv /\ Opening /\ Numbered /\ DirectiveCached /\ DirectivesHeld /\ [Next]_vars
  => DirectivesHeld'
<1> SUFFICES ASSUME TypeInv, Opening, Numbered, DirectiveCached, DirectivesHeld, [Next]_vars,
                    pc' \notin {"done", "wild_dir", "wild_buf"},
                    NEW x \in Through', IsDirective(x), x.inp = inp', x \notin lost'
             PROVE  x \in Range(dir') /\ x \in IF cfd' THEN Range(Made'[Len(file')]) ELSE Range(buf')
  BY DEF DirectivesHeld, Standing
<1> USE DEF vars, buffer, cache, output, calls
<1>t. TypeOK
  BY DEF TypeInv
<1>1. x \in Through \/ (x = cur /\ InCall /\ Putting)
  BY ThroughStep
<1>2. inp' = inp
  <2>1. CASE inp' # inp
    <3>1. inp' = inp + 1 /\ fed' = fed /\ inp \in Nat
      <4>1. CASE FiniStmt \/ GiveUp
        BY <1>t, <2>1, <4>1 DEF FiniStmt, GiveUp, NextInput, TypeOK
      <4> QED
        BY <2>1, <4>1 DEF Next, Call, OpenPiece, OpenFails, Drop, NotDirective, CacheDirective,
           GrowCache, Cached, GrowCacheFails, HasRoom, Flush, NoResize, Resize, ResizeFails,
           PutStmt, PutLast, Halted
    <3>2. x.inp <= inp
      <4>1. CASE x \in Through
        BY <1>t, <4>1, ThroughIs DEF ThroughShape, IsThrough, Numbered
      <4>2. CASE x = cur /\ InCall
        BY <3>1, <4>2 DEF Numbered
      <4> QED
        BY <1>1, <4>1, <4>2
    <3> QED
      BY <3>1, <3>2
  <2> QED
    BY <2>1
<1>3. pc \notin {"done", "wild_dir", "wild_buf"}
  <2>1. pc # "done"
    BY DEF Next, Call, OpenPiece, OpenFails, NotDirective, CacheDirective, GrowCache,
       GrowCacheFails, HasRoom, Flush, NoResize, Resize, ResizeFails, PutStmt, PutLast,
       FiniStmt, GiveUp, Halted
  <2> QED
    BY <2>1, WildStays
<1>4. ASSUME x \in Through
      PROVE  x \in Range(dir) /\ x \in IF cfd THEN Range(Made[Len(file)]) ELSE Range(buf)
  <2>1. x \notin lost
    BY RecordStep
  <2> QED
    BY <1>2, <1>3, <1>4, <2>1 DEF DirectivesHeld, Standing
<1>5. ASSUME Putting, x = cur PROVE x \in Range(dir)
  BY <1>5 DEF Putting, PutStmt, PutLast, DirectiveCached, AtDirective
<1>6. x \in Range(dir')
  <2>1. Range(dir) \subseteq Range(dir')
    BY <1>2, CacheStep
  <2> QED
    BY <1>1, <1>4, <1>5, <2>1
<1>7. CASE PutLast
  <2>1. buf' = dir /\ dir' = dir /\ ~cfd'
    BY <1>7 DEF PutLast
  <2> QED
    BY <1>6, <2>1
<1>8. CASE PutStmt
  <2>1. cfd /\ cfd' /\ Putting /\ Len(file') = Len(file)
    BY <1>8 DEF PutStmt, TypeInv, InCall, Putting
  <2>2. Len(file) \in 1..Len(file)
    BY <1>t, <2>1, MadeType
  <2>3. x \in Range(Made'[Len(file)])
    <3>1. CASE x \in Through
      BY <1>4, <2>1, <2>2, <3>1, WhereTo
    <3>2. CASE x = cur
      BY <2>1, <3>2, WhereTo
    <3> QED
      BY <1>1, <3>1, <3>2
  <2> QED
    BY <1>6, <2>1, <2>3
<1>9. ASSUME ~Putting, cfd' = cfd, cfd, Len(file') = Len(file)
      PROVE  x \in Range(Made'[Len(file')])
  <2>1. Len(file) \in 1..Len(file)
    BY <1>t, <1>9, MadeType
  <2> QED
    BY <1>1, <1>4, <1>9, <2>1, WhereTo
<1>10. CASE OpenPiece
  <2>1. ~cfd /\ cfd' /\ pc = "enter" /\ ~Putting
    BY <1>10 DEF OpenPiece, Opening, Putting, PutStmt, PutLast
  <2>2. x \in Range(buf)
    BY <1>1, <1>4, <2>1
  <2>3. Len(file') = Len(file) + 1 /\ Made'[Len(file) + 1] = buf
    <3>1. Adds(buf) \/ OpenFails \/ Same \/ Cuts(Made[Len(file)])
      BY <2>1, PieceStep
    <3>2. file' # file
      <4>1. <<>> \in Seq(Item) /\ file \in Seq(Seq(Item))
        BY <1>t, Nothing DEF TypeOK
      <4>2. Len(Append(file, <<>>)) = Len(file) + 1 /\ Len(file) \in Nat
        BY <4>1, AppendProperties, LenProperties
      <4> QED
        BY <1>10, <4>2 DEF OpenPiece
    <3>3. ~Cuts(Made[Len(file)]) /\ ~OpenFails
      BY <1>10, <2>1 DEF Cuts, OpenPiece, OpenFails
    <3> QED
      BY <3>1, <3>2, <3>3 DEF Adds, Same
  <2> QED
    BY <1>6, <2>1, <2>2, <2>3
<1>11. CASE Flush
  <2>1. cfd /\ cfd' = cfd /\ ~Putting
    BY <1>11 DEF Flush, Putting, PutStmt, PutLast, TypeInv, InCall
  <2>2. Len(file') = Len(file)
    BY <1>11, <2>1, PieceStep DEF Cuts, Same, Flush, OpenPiece, OpenFails
  <2> QED
    BY <1>6, <1>9, <2>1, <2>2
<1>12. CASE FiniStmt
  BY <1>t, <1>2, <1>12, BoundAssumption DEF FiniStmt, NextInput, TypeOK
<1>13. ASSUME ~Putting, cfd' = cfd, buf' = buf, cfd => Len(file') = Len(file)
       PROVE  x \in Range(dir') /\ x \in IF cfd' THEN Range(Made'[Len(file')]) ELSE Range(buf')
  BY <1>1, <1>4, <1>6, <1>9, <1>13
<1>14. CASE OpenFails
  BY <1>13, <1>14 DEF OpenFails, Opening, Putting, PutStmt, PutLast
<1>15. CASE CacheDirective \/ GrowCache
  BY <1>13, <1>15 DEF CacheDirective, GrowCache, Cached, Putting, PutStmt, PutLast
<1>16. CASE \/ \E s \in Stmt : Call(s)
            \/ NotDirective \/ GrowCacheFails \/ HasRoom \/ NoResize \/ Resize
            \/ ResizeFails \/ GiveUp
  BY <1>13, <1>16 DEF Call, NotDirective, GrowCacheFails, HasRoom, NoResize, Resize,
     ResizeFails, GiveUp, Drop, Putting, PutStmt, PutLast
<1>17. CASE Halted \/ UNCHANGED vars
  BY <1>3, <1>13, <1>17 DEF Halted, Putting, PutStmt, PutLast
<1> QED
  BY <1>7, <1>8, <1>10, <1>11, <1>12, <1>14, <1>15, <1>16, <1>17 DEF Next

LEMMA ContainedStep ==
  /\ TypeInv /\ Opening /\ SeedsClean /\ Numbered /\ Past /\ DirectivesHeld /\ Contained
  /\ [Next]_vars
  => Contained'
<1> SUFFICES ASSUME TypeInv, Opening, SeedsClean, Numbered, Past, DirectivesHeld, Contained,
                    [Next]_vars,
                    NEW k \in 1..Len(file'), NEW i \in DOMAIN Made'[k], ~IsDirective(Made'[k][i]),
                    NEW d \in Range(fed'), IsDirective(d), d.no < Made'[k][i].no,
                    d.inp = Made'[k][i].inp, d \notin lost'
             PROVE  \E j \in 1..i-1 : Made'[k][j] = d
  BY DEF Contained, StatementsAt, IsStatement
<1>t. TypeOK /\ TypeOK' /\ fed \in Seq(Item) /\ Len(fed) \in Nat /\ DOMAIN fed = 1..Len(fed)
  BY TypeStep, LenProperties DEF TypeInv, TypeOK
<1>1. i \in 1..i /\ i \in Nat
  BY PlaceNext
<1>2. d \notin lost
  BY RecordStep
<1>3. CASE WasThere(k, i)
  <2>1. /\ k \in 1..Len(file) /\ i \in DOMAIN Made[k]
        /\ \A j \in 1..i : Made'[k][j] = Made[k][j]
    BY <1>3 DEF WasThere
  <2>2. Made'[k][i] = Made[k][i]
    BY <1>1, <2>1
  <2>3. Made[k][i].no \in Nat /\ Made[k][i].no <= Len(fed)
    BY <2>1, <2>2, PieceItems DEF Past, StatementsAt, IsStatement
  <2>4. d \in Range(fed)
    <3>1. CASE fed' = fed
      BY <3>1
    <3>2. CASE fed' # fed
      <4>1. /\ Len(fed') = Len(fed) + 1
            /\ \A m \in 1..Len(fed) : fed'[m] = fed[m]
            /\ fed'[Len(fed) + 1].no = Len(fed) + 1
        BY <3>2, RecordStep
      <4>2. DOMAIN fed' = 1..Len(fed')
        BY <1>t, LenProperties DEF TypeOK
      <4>3. PICK m \in 1..Len(fed)+1 : fed'[m] = d
        BY <4>1, <4>2 DEF Range
      <4>4. m # Len(fed) + 1
        BY <1>t, <2>2, <2>3, <4>1, <4>3
      <4>5. m \in 1..Len(fed) /\ fed[m] = d
        BY <1>t, <4>1, <4>3, <4>4
      <4> QED
        BY <1>t, <4>5 DEF Range
    <3> QED
      BY <3>1, <3>2
  <2>5. PICK j \in 1..i-1 : Made[k][j] = d
    BY <1>2, <2>1, <2>2, <2>4 DEF Contained, StatementsAt, IsStatement
  <2>6. j \in 1..i
    BY <1>1
  <2> QED
    BY <2>1, <2>5, <2>6
<1>4. CASE WrittenNow(k, i)
  <2>1. /\ Putting /\ k = Len(file) /\ k \in 1..Len(file)
        /\ i = Len(Made[k]) + 1 /\ Made'[k][i] = cur
        /\ \A j \in 1..i-1 : Made'[k][j] = Made[k][j]
    BY <1>4 DEF WrittenNow
  <2>2. cur.no = Len(fed) /\ cur.inp = inp /\ cfd /\ pc = "put" /\ fed' = fed
    BY <2>1, WrittenItem, RecordStep
  <2>3. PICK m \in 1..Len(fed) : fed[m] = d
    BY <1>t, <2>2 DEF Range
  <2>4. m # Len(fed)
    <3>1. SUFFICES ASSUME m = Len(fed) PROVE FALSE
      OBVIOUS
    <3>2. d.no = Len(fed)
      BY <2>2, <2>3, <3>1 DEF cur
    <3>3. Len(fed) < Len(fed)
      BY <2>1, <2>2, <3>2
    <3>4. Len(fed) \in Nat
      BY <1>t
    <3> QED
      BY <3>3, <3>4
  <2>5. d \in Through
    BY <1>t, <2>3, <2>4, ThroughIs DEF ThroughShape, IsThrough
  <2>6. d \in Range(Made[Len(file)])
    BY <1>2, <2>1, <2>2, <2>5 DEF DirectivesHeld, Standing
  <2>7. DOMAIN Made[k] = 1..Len(Made[k]) /\ Len(Made[k]) \in Nat
    BY <2>1, PieceItems
  <2>8. PICK j \in 1..Len(Made[k]) : Made[k][j] = d
    BY <2>1, <2>6, <2>7 DEF Range
  <2>9. j \in 1..i-1
    BY <2>1, <2>7
  <2> QED
    BY <2>1, <2>8, <2>9
<1> QED
  BY <1>3, <1>4, WhereFrom

\* As many statements as there are places of them in a piece.
LEMMA StatementCount ==
  ASSUME NEW S, NEW P \in Seq(S)
  PROVE  IsFiniteSet(StatementsAt(P)) /\ Cardinality(StatementsAt(P)) \in Nat
<1>1. StatementsAt(P) \subseteq 1..Len(P)
  BY LenProperties DEF StatementsAt
<1>2. IsFiniteSet(1..Len(P))
  BY LenProperties, FS_Interval
<1> QED
  BY <1>1, <1>2, FS_Subset, FS_CardinalityType

LEMMA CountedStep ==
  TypeInv /\ Opening /\ SeedsClean /\ Numbered /\ Counted /\ [Next]_vars => Counted'
<1> SUFFICES ASSUME TypeInv, Opening, SeedsClean, Numbered, Counted, [Next]_vars PROVE Counted'
  OBVIOUS
<1> DEFINE was(k) == StatementsAt(Made[k])
           is(k)  == StatementsAt(Made'[k])
<1>t. TypeOK /\ TypeOK' /\ Len(file) \in Nat /\ Len(file') \in Nat
  BY TypeStep, MadeType, MadeTypeNext DEF TypeInv, PiecesTyped
<1>k. \A k \in 1..Len(file) : IsFiniteSet(was(k)) /\ Cardinality(was(k)) \in Nat
  <2>1. \A k \in 1..Len(file) : Made[k] \in Seq(Item)
    BY <1>t, MadeType
  <2> QED
    BY <2>1, StatementCount
<1>l. \A k \in 1..Len(file') : IsFiniteSet(is(k)) /\ Cardinality(is(k)) \in Nat
  <2>1. \A k \in 1..Len(file') : Made'[k] \in Seq(Item)
    BY <1>t, MadeTypeNext DEF PiecesTyped
  <2> QED
    BY <2>1, StatementCount
<1>n. istmt \in Nat /\ istmt' \in Nat /\ nstmt \in Nat
  BY <1>t, BoundAssumption DEF TypeOK
<1>w. \A k \in 1..Len(file') : \A i \in is(k) : WasThere(k, i) \/ WrittenNow(k, i)
  BY WhereFrom DEF StatementsAt, IsStatement
<1>p. ASSUME NEW k \in 1..Len(file'), NEW i \in is(k), WasThere(k, i)
      PROVE  k \in 1..Len(file) /\ i \in was(k)
  <2>1. i \in 1..i
    BY PlaceNext DEF StatementsAt
  <2> QED
    BY <1>p, <2>1 DEF WasThere, StatementsAt, IsStatement
<1>1. ASSUME NEW k \in 1..Len(file'), \A i \in is(k) : ~WrittenNow(k, i)
      PROVE  IF k \in 1..Len(file) THEN Cardinality(is(k)) <= Cardinality(was(k))
                                   ELSE Cardinality(is(k)) = 0
  <2>1. CASE k \in 1..Len(file)
    <3>1. is(k) \subseteq was(k)
      BY <1>1, <1>p, <1>w
    <3> QED
      BY <1>k, <2>1, <3>1, FS_Subset
  <2>2. CASE k \notin 1..Len(file)
    <3>1. is(k) = {}
      BY <1>1, <1>p, <1>w, <2>2
    <3> QED
      BY <2>2, <3>1, FS_EmptySet
  <2> QED
    BY <2>1, <2>2
<1>2. CASE Putting
  <2> DEFINE L == Len(file)
  <2>1. cur \in Item /\ cfd /\ L \in 1..Len(file) /\ L \in 1..Len(file')
    BY <1>2, <1>t, WrittenItem, WhereTo, MadeType
  <2>2. Cardinality(is(L)) <= counted
    <3>1. \A i \in is(L) : i \in was(L) \/ (i = Len(Made[L]) + 1 /\ ~IsDirective(cur))
      <4>1. SUFFICES ASSUME NEW i \in is(L), i \notin was(L)
                     PROVE  i = Len(Made[L]) + 1 /\ ~IsDirective(cur)
        OBVIOUS
      <4>2. WrittenNow(L, i)
        BY <1>p, <1>w, <2>1, <4>1
      <4> QED
        BY <4>1, <4>2 DEF WrittenNow, StatementsAt, IsStatement
    <3>2. Cardinality(was(L)) <= istmt
      BY <2>1 DEF Counted
    <3>3. CASE IsDirective(cur)
      <4>1. is(L) \subseteq was(L)
        BY <3>1, <3>3
      <4>2. Cardinality(is(L)) <= Cardinality(was(L))
        BY <1>k, <2>1, <4>1, FS_Subset
      <4> QED
        BY <1>k, <1>l, <1>n, <2>1, <3>2, <3>3, <4>2 DEF counted
    <3>4. CASE ~IsDirective(cur)
      <4> DEFINE new == Len(Made[L]) + 1
      <4>1. is(L) \subseteq was(L) \cup {new}
        BY <3>1
      <4>2. new \notin was(L)
        BY <2>1, PieceItems DEF StatementsAt
      <4>3. /\ IsFiniteSet(was(L) \cup {new})
            /\ Cardinality(was(L) \cup {new}) = Cardinality(was(L)) + 1
        BY <1>k, <2>1, <4>2, FS_AddElement
      <4>4. Cardinality(is(L)) <= Cardinality(was(L)) + 1
        BY <4>1, <4>3, FS_Subset
      <4> QED
        BY <1>k, <1>l, <1>n, <2>1, <3>2, <3>4, <4>4 DEF counted
    <3> QED
      BY <3>3, <3>4
  <2>3. Len(file') = L
    BY <1>2, PieceStep DEF Cuts
  <2>4. \A k \in 1..L : k # L => Cardinality(is(k)) <= Cardinality(was(k))
    BY <1>1, <2>3 DEF WrittenNow
  <2>5. counted \in Nat /\ counted <= Most
    BY <1>n DEF counted, Most, Counted
  <2>6. \A k \in 1..L : Cardinality(is(k)) <= Most
    <3>1. SUFFICES ASSUME NEW k \in 1..L PROVE Cardinality(is(k)) <= Most
      OBVIOUS
    <3>2. Most \in Nat
      BY <1>n DEF Most
    <3>3. CASE k = L
      BY <1>l, <2>1, <2>2, <2>5, <3>2, <3>3
    <3>4. CASE k # L
      <4>1. Cardinality(was(k)) <= Most
        BY DEF Counted
      <4>2. Cardinality(is(k)) \in Nat /\ Cardinality(was(k)) \in Nat
        BY <1>k, <1>l, <2>3
      <4> QED
        BY <2>4, <3>2, <3>4, <4>1, <4>2
    <3> QED
      BY <3>3, <3>4
  <2>7. \/ istmt' = counted /\ counted < nstmt
        \/ istmt' = 0 /\ ~cfd'
    BY <1>2 DEF Putting, PutStmt, PutLast
  <2> QED
    BY <2>2, <2>3, <2>6, <2>7 DEF Counted, Most
<1>3. CASE ~Putting
  <2>1. istmt' = istmt
    BY <1>3 DEF Next, Call, OpenPiece, OpenFails, Drop, NotDirective, CacheDirective, GrowCache,
       Cached, GrowCacheFails, HasRoom, Flush, NoResize, Resize, ResizeFails, Putting, FiniStmt,
       GiveUp, Halted, vars
  <2>2. \A k \in 1..Len(file') :
          IF k \in 1..Len(file) THEN Cardinality(is(k)) <= Cardinality(was(k))
                                ELSE Cardinality(is(k)) = 0
    BY <1>1, <1>3 DEF WrittenNow
  <2>3. \A k \in 1..Len(file') : Cardinality(is(k)) <= Most
    <3>1. SUFFICES ASSUME NEW k \in 1..Len(file') PROVE Cardinality(is(k)) <= Most
      OBVIOUS
    <3>2. Most \in Nat
      BY <1>n DEF Most
    <3>3. CASE k \in 1..Len(file)
      <4>1. Cardinality(was(k)) <= Most
        BY <3>3 DEF Counted
      <4>2. Cardinality(is(k)) \in Nat /\ Cardinality(was(k)) \in Nat
        BY <1>k, <1>l, <3>3
      <4> QED
        BY <2>2, <3>2, <3>3, <4>1, <4>2
    <3>4. CASE k \notin 1..Len(file)
      BY <2>2, <3>2, <3>4
    <3> QED
      BY <3>3, <3>4
  <2>4. cfd' => Cardinality(is(Len(file'))) <= istmt
    <3>1. SUFFICES ASSUME cfd' PROVE Cardinality(is(Len(file'))) <= istmt
      OBVIOUS
    <3>2. Len(file') \in 1..Len(file')
      BY <1>t, <3>1, LastElement DEF TypeOK
    <3>3. CASE Len(file') = Len(file)
      <4>1. cfd
        <5>1. ASSUME ~cfd PROVE OpenPiece
          BY <3>1, <5>1 DEF Next, Call, OpenFails, NotDirective, CacheDirective, GrowCache,
             Cached, GrowCacheFails, HasRoom, Flush, NoResize, Resize, ResizeFails, PutStmt,
             PutLast, FiniStmt, GiveUp, Halted, vars, output
        <5>2. ASSUME OpenPiece PROVE Len(file') = Len(file) + 1
          <6>1. <<>> \in Seq(Item) /\ file \in Seq(Seq(Item))
            BY <1>t, Nothing DEF TypeOK
          <6> QED
            BY <5>2, <6>1, AppendProperties DEF OpenPiece
        <5> QED
          BY <1>t, <3>3, <5>1, <5>2
      <4>2. Cardinality(was(Len(file))) <= istmt
        BY <4>1 DEF Counted
      <4>3. Cardinality(is(Len(file'))) <= Cardinality(was(Len(file)))
        BY <2>2, <3>2, <3>3
      <4>4. Cardinality(is(Len(file'))) \in Nat /\ Cardinality(was(Len(file))) \in Nat
        BY <1>k, <1>l, <3>2, <3>3
      <4> QED
        BY <1>n, <4>2, <4>3, <4>4
    <3>4. CASE Len(file') = Len(file) + 1
      BY <1>n, <1>t, <2>2, <3>2, <3>4
    <3> QED
      BY <1>3, <3>3, <3>4, PieceStep DEF Same, Adds, Cuts
  <2> QED
    BY <2>1, <2>3, <2>4 DEF Counted, Most
<1> QED
  BY <1>2, <1>3

---------------------------------------------------------------------------
(* The invariant, and what follows from it.                                *)

PiecesInv ==
  /\ TypeInv /\ SizeInv /\ Opening /\ SeedsClean /\ Numbered
  /\ Past /\ Genuine /\ InOrder /\ Kept
  /\ DirectivesHeld /\ Contained
  /\ Counted

LEMMA PiecesInit == Init => PiecesInv
<1> SUFFICES ASSUME Init PROVE PiecesInv
  OBVIOUS
<1>1. TypeInv /\ SizeInv
  BY TypeInit, SizeInit
<1>2. fed = <<>> /\ file = <<>> /\ buf = <<>> /\ dir = <<>> /\ Len(<<>>) = 0
  BY Nothing, EmptySeq DEF Init
<1>3. Range(buf) = {} /\ Range(dir) = {}
  BY <1>2 DEF Range
<1>4. 1..Len(file) = {} /\ 1..Len(fed) = {}
  BY <1>2
<1>5. Opening /\ SeedsClean /\ Numbered
  BY <1>3, <1>4 DEF Init, Opening, SeedsClean, Numbered, InCall
<1>6. Past /\ Genuine /\ InOrder /\ Contained
  BY <1>4 DEF Past, Genuine, InOrder, Contained
<1>7. Through = {}
  <2>1. \A x : ~IsThrough(x)
    BY <1>4 DEF IsThrough
  <2> QED
    BY <1>1, <2>1, ThroughIs DEF TypeInv, ThroughShape
<1>8. Kept /\ DirectivesHeld
  BY <1>7 DEF Kept, DirectivesHeld, Standing
<1>9. Counted
  BY <1>4 DEF Init, Counted
<1> QED
  BY <1>1, <1>5, <1>6, <1>8, <1>9 DEF PiecesInv

LEMMA PiecesInvStep == PiecesInv /\ [Next]_vars => PiecesInv'
<1> SUFFICES ASSUME PiecesInv, [Next]_vars PROVE PiecesInv'
  OBVIOUS
<1>1. TypeInv' /\ SizeInv'
  BY TypeStep, SizeStep, CachedStep DEF PiecesInv, SizeInv
<1>2. Opening' /\ SeedsClean' /\ Numbered'
  BY OpeningStep, SeedsStep, NumberedStep DEF PiecesInv
<1>3. Past' /\ Genuine' /\ InOrder' /\ Kept'
  BY PastStep, GenuineStep, OrderStep, KeptStep DEF PiecesInv
<1>4. DirectivesHeld' /\ Contained' /\ Counted'
  BY HeldStep, ContainedStep, CountedStep DEF PiecesInv, SizeInv
<1> QED
  BY <1>1, <1>2, <1>3, <1>4 DEF PiecesInv

LEMMA PiecesInvariant == Spec => []PiecesInv
  BY PiecesInit, PiecesInvStep, PTL DEF Spec

\* What is said of Made is said of Content.
LEMMA PieceIs ==
  ASSUME PiecesInv, NEW k \in DOMAIN file
  PROVE  k \in 1..Len(file) /\ Content(k) = Made[k]
  BY MadeType DEF PiecesInv, TypeInv

LEMMA OrderFollows == PiecesInv => OnceAndInOrder
<1> SUFFICES ASSUME PiecesInv PROVE OnceAndInOrder
  OBVIOUS
<1>1. ASSUME NEW k \in DOMAIN file, NEW l \in DOMAIN file,
             NEW i \in StatementsAt(Content(k)), NEW j \in StatementsAt(Content(l)),
             k < l \/ (k = l /\ i < j)
      PROVE  Content(k)[i].no < Content(l)[j].no
  <2>1. /\ k \in 1..Len(file) /\ Content(k) = Made[k]
        /\ l \in 1..Len(file) /\ Content(l) = Made[l]
    BY PieceIs
  <2> QED
    BY <1>1, <2>1 DEF PiecesInv, InOrder
<1>2. ASSUME NEW x \in Through, IsStatement(x), x \notin lost
      PROVE  x \in UNION {Range(Content(k)) : k \in DOMAIN file}
  <2>1. PICK k \in 1..Len(file) : x \in Range(Made[k])
    BY <1>2 DEF PiecesInv, Kept, IsStatement
  <2>2. k \in DOMAIN file
    BY MadeType DEF PiecesInv, TypeInv
  <2>3. x \in Range(Content(k))
    BY <2>1, <2>2, PieceIs
  <2> QED
    BY <2>2, <2>3
<1> QED
  BY <1>1, <1>2 DEF OnceAndInOrder

LEMMA GenuineFollows ==
  ASSUME PiecesInv, NEW k \in DOMAIN file, NEW i \in StatementsAt(Content(k))
  PROVE  LET x == Content(k)[i] IN x.no \in DOMAIN fed /\ x = fed[x.no]
<1>1. k \in 1..Len(file) /\ Content(k) = Made[k]
  BY PieceIs
<1>2. i \in DOMAIN Made[k] /\ i \in StatementsAt(Made[k])
  BY <1>1 DEF StatementsAt
<1>3. Made[k][i] = fed[Made[k][i].no] /\ Made[k][i].no <= Len(fed)
  BY <1>1, <1>2 DEF PiecesInv, Past, Genuine
<1>4. Made[k][i] \in Item
  BY <1>1, <1>2, PieceItems DEF PiecesInv
<1>5. Made[k][i].no \in 1..MaxCalls
  BY <1>4 DEF Item
<1>6. DOMAIN fed = 1..Len(fed) /\ Len(fed) \in Nat
  BY LenProperties DEF PiecesInv, TypeInv, TypeOK
<1>7. Made[k][i].no \in DOMAIN fed
  BY <1>3, <1>5, <1>6, BoundAssumption
<1> QED
  BY <1>1, <1>3, <1>7

LEMMA SelfContainedFollows == PiecesInv => SelfContained
<1> SUFFICES ASSUME PiecesInv PROVE SelfContained
  OBVIOUS
<1>1. ASSUME NEW k \in DOMAIN file, NEW i \in DOMAIN Content(k), NEW d \in Range(fed),
             IsStatement(Content(k)[i]), IsDirective(d),
             d.no < Content(k)[i].no, d.inp = Content(k)[i].inp, d \notin lost
      PROVE  \E j \in 1..i-1 : Content(k)[j] = d
  <2>1. k \in 1..Len(file) /\ Content(k) = Made[k]
    BY PieceIs
  <2>2. i \in StatementsAt(Made[k])
    BY <1>1, <2>1 DEF StatementsAt
  <2> QED
    BY <1>1, <2>1, <2>2 DEF PiecesInv, Contained
<1> QED
  BY <1>1 DEF SelfContained

LEMMA QuotaFollows == PiecesInv => Quota
<1> SUFFICES ASSUME PiecesInv, NEW k \in DOMAIN file
             PROVE  Cardinality(StatementsAt(Content(k))) <= Most
  BY DEF Quota, Most
<1>1. k \in 1..Len(file) /\ Content(k) = Made[k]
  BY PieceIs
<1> QED
  BY <1>1 DEF PiecesInv, Counted

\* Each statement that no failure dropped is in exactly one piece, once, and the
\* statements are in the order of the calls, within a piece and from piece to
\* piece, whichever sizes the buffers have, wherever they are flushed and grown and
\* whatever fails (ttl-split.c:188-225).
THEOREM EachOnceInOrder == Spec => []OnceAndInOrder
  BY OrderFollows, PiecesInvariant, PTL

\* In every piece, before a statement come the directives of its input that were
\* handed on before it, those apart that a failure dropped: a piece can be read
\* without the others (ttl-split.c:172-186, :224).
THEOREM PiecesReadAlone == Spec => []SelfContained
  BY SelfContainedFollows, PiecesInvariant, PTL

\* No piece holds more than nstmt statements, and one if nstmt is zero, at the end
\* of an input and after a failure, too (ttl-split.c:214-222).
THEOREM PiecesWithinQuota == Spec => []Quota
  BY QuotaFollows, PiecesInvariant, PTL

---------------------------------------------------------------------------
(* The pieces are those that SplitPieces promises.  A failure that dropped *)
(* a statement is noted in lost, which does not shrink again: the theorem  *)
(* is about the steps before the first.                                    *)

\* Until a failure, the buffer that the next piece begins with is the cache, and
\* the directive that is being written is the last one in it.
SeedIsCache == lost = {} /\ ~cfd /\ pc \in {"idle", "enter"} => buf = dir
AheadIsLast == AheadOfPiece => dir # <<>> /\ dir[Len(dir)] = cur
MapInv == SeedIsCache /\ AheadIsLast

LEMMA MapInit == Init => MapInv
  BY DEF Init, MapInv, SeedIsCache, AheadIsLast, AheadOfPiece

LEMMA MapStep == PiecesInv /\ MapInv /\ [Next]_vars => MapInv'
<1> SUFFICES ASSUME PiecesInv, MapInv, [Next]_vars PROVE MapInv'
  OBVIOUS
<1> USE DEF vars, buffer, cache, output, calls
<1>t. TypeOK /\ TypeInv
  BY DEF PiecesInv, TypeInv
<1>l. lost' = {} => lost = {}
  BY <1>t, RecordStep
<1>1. SeedIsCache'
  <2>1. ASSUME lost' = {}, Drop PROVE FALSE
    BY <2>1 DEF Drop
  <2>2. CASE \E s \in Stmt : Call(s)
    BY <1>l, <2>2 DEF Call, MapInv, SeedIsCache
  <2>3. CASE OpenFails \/ GrowCacheFails \/ ResizeFails
    BY <2>1, <2>3 DEF OpenFails, GrowCacheFails, ResizeFails, SeedIsCache
  <2>4. CASE OpenPiece \/ NotDirective \/ CacheDirective \/ GrowCache \/ HasRoom \/ Flush
             \/ NoResize \/ Resize
    BY <2>4 DEF OpenPiece, NotDirective, CacheDirective, GrowCache, Cached, HasRoom, Flush,
       NoResize, Resize, SeedIsCache
  <2>5. CASE PutStmt \/ PutLast
    BY <1>t, <2>5 DEF PutStmt, PutLast, SeedIsCache, TypeInv, InCall
  <2>6. CASE FiniStmt
    BY <2>6 DEF FiniStmt, SeedIsCache
  <2>7. CASE GiveUp \/ Halted \/ UNCHANGED vars
    BY <1>l, <2>7 DEF GiveUp, NextInput, Halted, MapInv, SeedIsCache
  <2> QED
    BY <2>2, <2>3, <2>4, <2>5, <2>6, <2>7 DEF Next
<1>2. AheadIsLast'
  <2>1. ASSUME dir' = dir, fed' = fed, pc \in {"room", "resize", "put"} PROVE AheadIsLast'
    BY <2>1 DEF MapInv, AheadIsLast, AheadOfPiece, cur
  <2>2. ASSUME pc' \notin {"room", "resize", "put"} PROVE AheadIsLast'
    BY <2>2 DEF AheadIsLast, AheadOfPiece
  <2>3. ASSUME NEW size, pc = "cache", Cached(size) PROVE AheadIsLast'
    <3>1. cur \in Item /\ dir \in Seq(Item) /\ cur' = cur
      BY <1>t, <2>3, CurrentCall DEF TypeInv, TypeOK, InCall, Cached, cur
    <3>2. /\ Len(Append(dir, cur)) = Len(dir) + 1 /\ Append(dir, cur)[Len(dir) + 1] = cur
          /\ Append(dir, cur) # <<>>
      BY <3>1, AppendProperties
    <3> QED
      BY <2>2, <2>3, <3>1, <3>2 DEF Cached, AheadIsLast
  <2>4. CASE CacheDirective \/ GrowCache
    BY <2>3, <2>4 DEF CacheDirective, GrowCache
  <2>5. CASE NotDirective
    BY <2>5 DEF NotDirective, AheadIsLast, AheadOfPiece, cur
  <2>6. CASE (\E s \in Stmt : Call(s)) \/ OpenPiece \/ OpenFails \/ GrowCacheFails
    BY <2>2, <2>6 DEF Call, OpenPiece, OpenFails, GrowCacheFails, Drop
  <2>7. CASE HasRoom \/ Flush \/ NoResize \/ Resize \/ ResizeFails
    BY <2>1, <2>7 DEF HasRoom, Flush, NoResize, Resize, ResizeFails
  <2>8. CASE PutStmt \/ PutLast \/ FiniStmt \/ GiveUp
    BY <2>2, <2>8 DEF PutStmt, PutLast, FiniStmt, GiveUp, NextInput
  <2>9. CASE Halted \/ UNCHANGED vars
    BY <2>9 DEF Halted, MapInv, AheadIsLast, AheadOfPiece, cur
  <2> QED
    BY <2>4, <2>5, <2>6, <2>7, <2>8, <2>9 DEF Next
<1> QED
  BY <1>1, <1>2 DEF MapInv

\* The pieces are a sequence of sequences, after a step, too.
MadeSeq == Made \in Seq(Seq(Item)) /\ Len(Made) = Len(file) /\ Len(file) \in Nat
LEMMA MadeIsSeq == TypeOK => MadeSeq
<1> SUFFICES ASSUME TypeOK PROVE MadeSeq
  OBVIOUS
<1>1. /\ Len(file) \in Nat /\ DOMAIN file = 1..Len(file)
      /\ \A k \in 1..Len(file) : Made[k] \in Seq(Item)
  BY MadeType
<1>2. Made = [k \in 1..Len(file) |-> Content(k)]
  BY <1>1 DEF Made
<1>3. Made \in [1..Len(file) -> Seq(Item)]
  <2>1. DOMAIN Made = 1..Len(file)
    BY <1>2
  <2>2. Made = [k \in 1..Len(file) |-> Made[k]]
    BY <1>2
  <2> HIDE DEF Made
  <2> QED
    BY <1>1, <2>2
<1> HIDE DEF Made
<1>4. Made \in Seq(Seq(Item)) /\ Len(Made) = Len(file)
  BY <1>1, <1>3
<1> QED
  BY <1>1, <1>4 DEF MadeSeq
LEMMA MadeIsSeqNext == TypeOK' => MadeSeq'
  BY MadeIsSeq, PTL

\* The pieces after a step, said with the operators of SplitPieces.
LEMMA PieceBegun ==
  ASSUME MadeSeq, MadeSeq', NEW b \in Seq(Item), Adds(b)
  PROVE  Made' = Append(Made, b)
<1> DEFINE P == Made
           Q == Made'
<1>1. P \in Seq(Seq(Item)) /\ Q \in Seq(Seq(Item)) /\ Len(P) \in Nat /\ Len(Q) = Len(P) + 1
  BY DEF MadeSeq, Adds
<1>2. Q[Len(P) + 1] = b /\ \A k \in 1..Len(P) : Q[k] = P[k]
  BY DEF MadeSeq, Adds
<1> HIDE DEF P, Q
<1>3. /\ Append(P, b) \in Seq(Seq(Item)) /\ Len(Append(P, b)) = Len(P) + 1
      /\ \A k \in 1..Len(P) : Append(P, b)[k] = P[k]
      /\ Append(P, b)[Len(P) + 1] = b
  BY <1>1, AppendProperties
<1>4. \A k \in 1..Len(Q) : Q[k] = Append(P, b)[k]
  <2>1. \A k \in 1..Len(Q) : k \in 1..Len(P) \/ k = Len(P) + 1
    BY <1>1
  <2> QED
    BY <1>2, <1>3, <2>1
<1>5. Q = Append(P, b)
  BY <1>1, <1>3, <1>4, SeqEqual
<1> QED
  BY <1>5 DEF P, Q

LEMMA PieceReplaced ==
  ASSUME MadeSeq, MadeSeq', NEW T \in Seq(Item), Cuts(T), lost' = {}, Len(file) \in 1..Len(file)
  PROVE  Made' = [Made EXCEPT ![Len(Made)] = T]
<1> DEFINE P == Made
           Q == Made'
<1>1. P \in Seq(Seq(Item)) /\ Q \in Seq(Seq(Item)) /\ Len(P) \in 1..Len(P) /\ Len(Q) = Len(P)
  BY DEF MadeSeq, Cuts
<1>2. Q[Len(P)] = T /\ \A k \in 1..Len(P) : k # Len(P) => Q[k] = P[k]
  BY DEF MadeSeq, Cuts
<1> HIDE DEF P, Q
<1>3. /\ [P EXCEPT ![Len(P)] = T] \in Seq(Seq(Item))
      /\ Len([P EXCEPT ![Len(P)] = T]) = Len(P)
      /\ \A k \in 1..Len(P) : [P EXCEPT ![Len(P)] = T][k] = IF k = Len(P) THEN T ELSE P[k]
  BY <1>1, ExceptSeq
<1>4. \A k \in 1..Len(Q) : Q[k] = [P EXCEPT ![Len(P)] = T][k]
  BY <1>1, <1>2, <1>3
<1>5. Q = [P EXCEPT ![Len(P)] = T]
  BY <1>1, <1>3, <1>4, SeqEqual
<1> QED
  BY <1>5 DEF P, Q

\* A sequence without its last element, with it again, and as it was before.
LEMMA WithoutLast ==
  ASSUME NEW S, NEW s \in Seq(S), NEW e \in S
  PROVE  /\ SubSeq(Append(s, e), 1, Len(Append(s, e)) - 1) = s
         /\ s # <<>> => s = Append(SubSeq(s, 1, Len(s) - 1), s[Len(s)])
<1> DEFINE t == Append(s, e)
<1>1. /\ t \in Seq(S) /\ Len(t) = Len(s) + 1 /\ Len(s) \in Nat /\ Len(s) \in 0..Len(t)
      /\ \A i \in 1..Len(s) : t[i] = s[i]
  BY AppendProperties, LenProperties
<1> HIDE DEF t
<1>2. /\ SubSeq(t, 1, Len(s)) \in Seq(S) /\ Len(SubSeq(t, 1, Len(s))) = Len(s)
      /\ \A i \in 1..Len(s) : SubSeq(t, 1, Len(s))[i] = t[i]
  BY <1>1, Beginning
<1>3. SubSeq(t, 1, Len(s)) = s
  BY <1>1, <1>2, SeqEqual
<1>4. Len(t) - 1 = Len(s)
  BY <1>1
<1>5. ASSUME s # <<>> PROVE s = Append(SubSeq(s, 1, Len(s) - 1), s[Len(s)])
  <2> DEFINE u == SubSeq(s, 1, Len(s) - 1)
             l == s[Len(s)]
  <2>1. Len(s) \in 1..Len(s) /\ Len(s) - 1 \in 0..Len(s) /\ l \in S
    BY <1>1, <1>5, EmptySeq, ElementOfSeq
  <2>2. u \in Seq(S) /\ Len(u) = Len(s) - 1 /\ \A i \in 1..Len(s)-1 : u[i] = s[i]
    BY <2>1, Beginning
  <2>3. \A i \in 1..Len(s) : i \in 1..Len(s)-1 \/ i = Len(s)
    BY <1>1
  <2> HIDE DEF u
  <2>4. /\ Append(u, l) \in Seq(S) /\ Len(Append(u, l)) = Len(u) + 1
        /\ \A i \in 1..Len(u) : Append(u, l)[i] = u[i]
        /\ Append(u, l)[Len(u) + 1] = l
    BY <2>1, <2>2, AppendProperties
  <2>5. Len(Append(u, l)) = Len(s) /\ Len(u) + 1 = Len(s)
    BY <1>1, <2>2, <2>4
  <2>6. \A i \in 1..Len(s) : s[i] = Append(u, l)[i]
    BY <2>2, <2>3, <2>4, <2>5
  <2>7. s = Append(u, l)
    BY <2>4, <2>5, <2>6, SeqEqual
  <2> QED
    BY <2>7 DEF u
<1> QED
  BY <1>3, <1>4, <1>5 DEF t

\* What SplitPieces sees of the cache and of the count.
DirsSeen  == IF AheadOfPiece THEN SubSeq(dir, 1, Len(dir) - 1) ELSE dir
CountSeen == IF pc = "done" THEN 0 ELSE istmt

\* A step changes nothing of it, begins a piece, puts the statement of the call, or
\* concludes the last piece.
SameSeen == Made' = Made /\ DirsSeen' = DirsSeen /\ CountSeen' = CountSeen /\ cfd' = cfd
BeginSeen ==
  /\ ~cfd /\ cfd' /\ Made' = Append(Made, DirsSeen)
  /\ DirsSeen' = DirsSeen /\ CountSeen' = CountSeen
PutSeen ==
  /\ cfd /\ cur \in Item
  /\ Made' = [Made EXCEPT ![Len(Made)] = Append(Made[Len(Made)], cur)]
  /\ DirsSeen' = IF IsDirective(cur) THEN Append(DirsSeen, cur) ELSE DirsSeen
  /\ LET n == IF IsDirective(cur) THEN CountSeen ELSE CountSeen + 1
     IN  cfd' = (n < nstmt) /\ CountSeen' = IF n < nstmt THEN n ELSE 0
FiniSeen == cfd' = FALSE /\ Made' = Made

Called  == \E s \in Stmt : Call(s)
Between == NotDirective \/ CacheDirective \/ GrowCache \/ HasRoom \/ Flush \/ NoResize \/ Resize
Dropped == OpenFails \/ GrowCacheFails \/ ResizeFails

LEMMA SeenStep ==
  ASSUME PiecesInv, MapInv, [Next]_vars, lost' = {}
  PROVE  /\ Called \/ Between => SameSeen
         /\ OpenPiece => BeginSeen
         /\ PutStmt \/ PutLast => PutSeen
         /\ FiniStmt => FiniSeen
         /\ ~Dropped
<1> USE DEF vars, buffer, cache, output, calls
<1>t. TypeInv /\ Opening /\ TypeOK /\ TypeOK' /\ lost = {}
  BY TypeStep, RecordStep DEF PiecesInv, TypeInv
<1>m. MadeSeq /\ MadeSeq'
  BY <1>t, MadeIsSeq, MadeIsSeqNext
<1>p. /\ cfd => Len(file) \in 1..Len(file) /\ Made[Len(file)] \in Seq(Item)
      /\ buf \in Seq(Item) /\ dir \in Seq(Item)
  BY <1>t, MadeType DEF TypeOK
<1>2. ASSUME file' = file, buf' = buf, cfd' = cfd PROVE Made' = Made
  BY <1>2 DEF Made, Content
<1>3. ASSUME Called PROVE SameSeen
  <2>1. DirsSeen' = DirsSeen /\ CountSeen' = CountSeen
    BY <1>3 DEF Called, Call, DirsSeen, CountSeen, AheadOfPiece
  <2> QED
    BY <1>2, <1>3, <2>1 DEF Called, Call, SameSeen
<1>4. ASSUME OpenPiece PROVE BeginSeen
  <2>1. Adds(buf) /\ ~cfd /\ cfd'
    <3>1. ~cfd /\ cfd' /\ pc = "enter" /\ pc' # "put" /\ ~Putting /\ pc' = "cache"
      BY <1>4, <1>t DEF OpenPiece, Opening, Putting, PutStmt, PutLast
    <3>2. ~Same
      <4>1. <<>> \in Seq(Item) /\ file \in Seq(Seq(Item))
        BY <1>t, Nothing DEF TypeOK
      <4>2. Len(Append(file, <<>>)) = Len(file) + 1 /\ Len(file) \in Nat
        BY <4>1, AppendProperties, LenProperties
      <4> QED
        BY <1>4, <4>2 DEF OpenPiece, Same
    <3>3. ~OpenFails /\ ~Flush /\ ~FiniStmt
      BY <3>1 DEF OpenFails, Flush, FiniStmt, Drop
    <3> QED
      BY <1>t, <3>1, <3>2, <3>3, PieceStep
  <2>2. buf = dir
    BY <1>4, <1>t, <2>1 DEF OpenPiece, MapInv, SeedIsCache
  <2>3. Made' = Append(Made, dir)
    BY <1>m, <1>p, <2>1, <2>2, PieceBegun
  <2>4. DirsSeen = dir /\ DirsSeen' = DirsSeen /\ CountSeen' = CountSeen
    BY <1>4 DEF OpenPiece, DirsSeen, CountSeen, AheadOfPiece
  <2> QED
    BY <2>1, <2>3, <2>4 DEF BeginSeen
<1>5. ~Dropped
  BY DEF Dropped, OpenFails, GrowCacheFails, ResizeFails, Drop
<1>6. ASSUME NotDirective PROVE SameSeen
  <2>1. DirsSeen' = DirsSeen /\ CountSeen' = CountSeen
    BY <1>6 DEF NotDirective, DirsSeen, CountSeen, AheadOfPiece, cur
  <2> QED
    BY <1>2, <1>6, <2>1 DEF NotDirective, SameSeen
<1>7. ASSUME NEW size, pc = "cache", IsDirective(cur), Cached(size)
      PROVE  SameSeen
  <2>1. cur \in Item /\ cur' = cur
    BY <1>t, <1>7, CurrentCall DEF TypeInv, InCall, Cached, cur
  <2>2. SubSeq(Append(dir, cur), 1, Len(Append(dir, cur)) - 1) = dir
    BY <1>p, <2>1, WithoutLast
  <2>3. DirsSeen = dir /\ CountSeen = istmt
    BY <1>7 DEF DirsSeen, CountSeen, AheadOfPiece
  <2>4. CASE dir' = Append(dir, cur) /\ pc' = "room"
    <3>1. AheadOfPiece'
      BY <1>7, <2>1, <2>4 DEF AheadOfPiece
    <3>2. DirsSeen' = dir /\ CountSeen' = istmt
      BY <1>7, <2>2, <2>4, <3>1 DEF DirsSeen, CountSeen, Cached
    <3> QED
      BY <1>2, <1>7, <2>3, <3>2 DEF Cached, SameSeen
  <2>5. CASE dir' = dir /\ pc' = "wild_dir"
    <3>1. DirsSeen' = dir /\ CountSeen' = istmt
      BY <1>7, <2>5 DEF DirsSeen, CountSeen, AheadOfPiece, Cached
    <3> QED
      BY <1>2, <1>7, <2>3, <3>1 DEF Cached, SameSeen
  <2> QED
    BY <1>7, <2>4, <2>5 DEF Cached
<1>8. ASSUME CacheDirective \/ GrowCache PROVE SameSeen
  BY <1>7, <1>8 DEF CacheDirective, GrowCache
<1>9. ASSUME HasRoom \/ NoResize \/ Resize PROVE SameSeen
  <2>1. DirsSeen' = DirsSeen /\ CountSeen' = CountSeen
    BY <1>9 DEF HasRoom, NoResize, Resize, DirsSeen, CountSeen, AheadOfPiece, cur
  <2> QED
    BY <1>2, <1>9, <2>1 DEF HasRoom, NoResize, Resize, SameSeen
<1>10. ASSUME cfd, Cuts(Made[Len(file)]) PROVE Made' = Made
  <2>1. Made' = [Made EXCEPT ![Len(Made)] = Made[Len(file)]]
    BY <1>m, <1>p, <1>10, PieceReplaced
  <2>2. Len(Made) = Len(file) /\ Made \in Seq(Seq(Item))
    BY <1>m DEF MadeSeq
  <2> DEFINE P == Made
  <2> HIDE DEF P
  <2>3. [P EXCEPT ![Len(P)] = P[Len(P)]] = P
    BY <2>2, LenProperties DEF P
  <2> QED
    BY <2>1, <2>2, <2>3 DEF P
<1>11. ASSUME Flush PROVE SameSeen
  <2>1. cfd /\ cfd' = cfd /\ DirsSeen' = DirsSeen /\ CountSeen' = CountSeen
    BY <1>t, <1>11 DEF Flush, DirsSeen, CountSeen, AheadOfPiece, cur, TypeInv, InCall
  <2>2. Cuts(file[Len(file)] \o buf)
    <3>1. WrBuf(buf) /\ (cfd' => buf' = <<>>) /\ buf' \in Seq(Item)
      BY <1>t, <1>11 DEF Flush, TypeOK
    <3> QED
      BY <1>t, <1>p, <2>1, <3>1, Writing
  <2>3. Made[Len(file)] = file[Len(file)] \o buf
    BY <1>t, <2>1, MadeType
  <2> QED
    BY <1>10, <2>1, <2>2, <2>3 DEF SameSeen
<1>12. ASSUME PutStmt \/ PutLast PROVE PutSeen
  <2>1. Putting /\ cfd /\ cur \in Item /\ InCall /\ pc = "put"
    BY <1>t, <1>12, CurrentCall DEF Putting, PutStmt, PutLast, InCall, TypeInv
  <2>2. Cuts(Append(Made[Len(file)], cur))
    BY <1>t, <2>1, PieceStep
  <2>3. Append(Made[Len(file)], cur) \in Seq(Item)
    BY <1>p, <2>1, AppendProperties
  <2>4. Made' = [Made EXCEPT ![Len(Made)] = Append(Made[Len(Made)], cur)]
    <3>1. Made' = [Made EXCEPT ![Len(Made)] = Append(Made[Len(file)], cur)]
      BY <1>m, <1>p, <2>1, <2>2, <2>3, PieceReplaced
    <3> QED
      BY <1>m, <3>1 DEF MadeSeq
  <2>5. DirsSeen' = dir /\ CountSeen = istmt
    BY <1>12 DEF PutStmt, PutLast, DirsSeen, CountSeen, AheadOfPiece
  <2>6. dir = IF IsDirective(cur) THEN Append(DirsSeen, cur) ELSE DirsSeen
    <3>1. CASE IsDirective(cur)
      <4>1. dir # <<>> /\ dir[Len(dir)] = cur /\ DirsSeen = SubSeq(dir, 1, Len(dir) - 1)
        BY <2>1, <3>1 DEF MapInv, AheadIsLast, AheadOfPiece, DirsSeen
      <4> QED
        BY <1>p, <2>1, <3>1, <4>1, WithoutLast
    <3>2. CASE ~IsDirective(cur)
      BY <3>2 DEF DirsSeen, AheadOfPiece
    <3> QED
      BY <3>1, <3>2
  <2>7. istmt \in Nat /\ nstmt \in Nat
    BY <1>t, BoundAssumption DEF TypeOK
  <2>8. /\ cfd' = (counted < nstmt)
        /\ CountSeen' = IF counted < nstmt THEN counted ELSE 0
    <3>1. counted \in Nat
      BY <2>7 DEF counted
    <3>2. CASE PutStmt
      <4>1. cfd' = cfd /\ cfd = TRUE /\ counted < nstmt /\ istmt' = counted /\ pc' = "idle"
        BY <1>t, <2>1, <3>2 DEF PutStmt, TypeOK
      <4> QED
        BY <4>1 DEF CountSeen
    <3>3. CASE PutLast
      <4>1. cfd' = FALSE /\ counted >= nstmt /\ istmt' = 0
        BY <3>3 DEF PutLast
      <4>2. (counted < nstmt) = FALSE
        BY <2>7, <3>1, <4>1
      <4> QED
        BY <4>1, <4>2 DEF CountSeen
    <3> QED
      BY <1>12, <3>2, <3>3
  <2>9. counted = IF IsDirective(cur) THEN CountSeen ELSE CountSeen + 1
    BY <2>5, <2>7 DEF counted
  <2> QED
    BY <2>1, <2>4, <2>5, <2>6, <2>8, <2>9 DEF PutSeen
<1>13. ASSUME FiniStmt PROVE FiniSeen
  <2>1. cfd' = FALSE
    BY <1>13 DEF FiniStmt
  <2>2. CASE cfd
    <3>1. WrBuf(buf) /\ (cfd' => buf' = <<>>) /\ buf' \in Seq(Item)
      BY <1>t, <1>13, <2>2 DEF FiniStmt, TypeOK
    <3>2. Made[Len(file)] = file[Len(file)] \o buf
      BY <1>t, <2>2, MadeType
    <3> QED
      BY <1>t, <1>p, <1>10, <2>1, <2>2, <3>1, <3>2, Writing DEF FiniSeen
  <2>3. CASE ~cfd
    BY <1>13, <2>1, <2>3 DEF FiniStmt, Made, Content, FiniSeen
  <2> QED
    BY <2>2, <2>3
<1> QED
  BY <1>3, <1>4, <1>5, <1>6, <1>8, <1>9, <1>11, <1>12, <1>13 DEF Between

\* Each step of wr_stmt() is one of SplitPieces, or changes nothing that it sees.
LEMMA SplitStep ==
  ASSUME MaxInputs = 1, PiecesInv, MapInv, [Next]_vars, lost' = {}, ~GiveUp
  PROVE  [Pieces!SplitNext]_(Pieces!splitVars)
<1> USE DEF vars, buffer, cache, output, calls
<1>1. /\ Called \/ Between => SameSeen
      /\ OpenPiece => BeginSeen
      /\ PutStmt \/ PutLast => PutSeen
      /\ FiniStmt => FiniSeen
      /\ ~Dropped
  BY SeenStep
<1>2. ASSUME SameSeen PROVE UNCHANGED Pieces!splitVars
  BY <1>2 DEF Pieces!splitVars, Made, DirsSeen, CountSeen, SameSeen
<1>3. CASE Called \/ Between
  BY <1>1, <1>2, <1>3
<1>4. CASE OpenPiece
  <2>1. cfd' = TRUE
    BY <1>4 DEF OpenPiece
  <2>2. Pieces!Begin
    BY <1>1, <1>4, <2>1 DEF BeginSeen, Pieces!Begin, Made, DirsSeen, CountSeen
  <2> QED
    BY <2>2 DEF Pieces!SplitNext
<1>5. CASE PutStmt \/ PutLast
  <2>1. PutSeen
    BY <1>1, <1>5
  <2>2. cur \in Item /\ Pieces!Put(cur)
    BY <2>1 DEF PutSeen, Pieces!Put, Made, DirsSeen, CountSeen
  <2> QED
    BY <2>2 DEF Pieces!SplitNext
<1>6. CASE FiniStmt
  <2>1. inp = MaxInputs /\ pc' = "done"
    BY <1>6 DEF FiniStmt, NextInput, PiecesInv, TypeInv, TypeOK
  <2>2. DirsSeen' = <<>> /\ CountSeen' = 0
    BY <1>6, <2>1 DEF FiniStmt, DirsSeen, CountSeen, AheadOfPiece
  <2>3. Pieces!Finish
    BY <1>1, <1>6, <2>2 DEF FiniSeen, Pieces!Finish, Made, DirsSeen, CountSeen
  <2> QED
    BY <2>3 DEF Pieces!SplitNext
<1>7. CASE Halted \/ UNCHANGED vars
  <2>1. DirsSeen' = DirsSeen /\ CountSeen' = CountSeen
    BY <1>7 DEF Halted, DirsSeen, CountSeen, AheadOfPiece, cur
  <2> QED
    BY <1>2, <1>7, <2>1 DEF Halted, SameSeen, Made, Content
<1> QED
  BY <1>1, <1>3, <1>4, <1>5, <1>6, <1>7 DEF Next, Called, Between, Dropped

\* For one input, wr_stmt() and fini_stmt() write the pieces that SplitPieces
\* promises, whichever sizes the buffers have, up to the first failure
\* (ttl-split.c:121-227).  From one input to the next they do not: fini_stmt()
\* leaves istmt as it is (:142-168).
THEOREM WritesThePieces ==
  ASSUME MaxInputs = 1
  PROVE  Spec => ImplementsSplitPieces
<1>1. Init => Pieces!SplitInit
  <2> SUFFICES ASSUME Init PROVE Pieces!SplitInit
    OBVIOUS
  <2>1. MadeSeq /\ Len(file) = 0
    BY MadeIsSeq, TypeInit DEF TypeInv, Init
  <2>2. Made = <<>>
    BY <2>1, EmptySeq DEF MadeSeq
  <2>3. DirsSeen = <<>> /\ CountSeen = 0 /\ cfd = FALSE
    BY DEF Init, DirsSeen, CountSeen, AheadOfPiece
  <2> QED
    BY <2>2, <2>3 DEF Pieces!SplitInit, Made, DirsSeen, CountSeen
<1>2. Spec => [](PiecesInv /\ MapInv)
  BY PiecesInit, PiecesInvStep, MapInit, MapStep, PTL DEF Spec
<1>3. PiecesInv /\ MapInv /\ [Next]_vars
        => [Pieces!SplitNext \/ lost' # {} \/ GiveUp]_(Pieces!splitVars)
  BY SplitStep
<1> QED
  BY <1>1, <1>2, <1>3, PTL DEF Spec, ImplementsSplitPieces

===========================================================================
