--------------------------- MODULE SplitWriter ----------------------------
(***************************************************************************)
(* wr_stmt() of ttl-split: the statements and directives that the scanner  *)
(* hands on are gathered in a buffer and written to pieces of nstmt        *)
(* statements; the directives are also kept in a cache, with which each    *)
(* later piece begins.  The buffer, the cache and the counters are static: *)
(* they outlive the call, and some of them the input.                      *)
(*                                                                         *)
(* A call is an item, [no, stmt, inp]: the how-many'th call it is, what is *)
(* written and which input it is from.  The bytes of an item are not       *)
(* modelled, but their number is: buf and dir are sequences of items, bix  *)
(* and dix what the code believes to be their lengths in bytes.            *)
(***************************************************************************)
EXTENDS Integers, Sequences, FiniteSets, Functions

CONSTANTS
  Stmt,           \* what the scanner may hand on
  Dirs,           \* those of them that start with @
  Size,           \* the number of bytes of each
  Buf0,           \* the size of the static buffers, 4096 in the code
  NewSize(_),     \* the size a buffer is grown to, next_2pow() in the code
  nstmt,          \* statements per piece
  MaxCalls,       \* bound on the calls
  MaxInputs,      \* bound on the inputs
  Faults          \* what may fail: "open" of a piece, "mmap" of a buffer,
                  \* "write", and "input": the reader gives up on an input

Need == {Size[s] + 1 : s \in Stmt} \cup {Size[s] + 2 : s \in Stmt}

ASSUME StmtAssumption  == Dirs \subseteq Stmt /\ Size \in [Stmt -> Nat \ {0}]
ASSUME BoundAssumption == /\ Buf0 \in Nat /\ nstmt \in Nat
                          /\ MaxCalls \in Nat /\ MaxInputs \in Nat \ {0}
ASSUME FaultAssumption == Faults \subseteq {"open", "mmap", "write", "input"}
ASSUME Pow2Assumption  ==
  /\ \A x \in Need : NewSize(x) \in Nat /\ x <= NewSize(x)
  /\ \A x \in Need : x <= Buf0 => NewSize(x) <= Buf0
  /\ \A x, y \in Need : x <= NewSize(y) => NewSize(x) <= NewSize(y)

VARIABLES
  buf, bix, bsz,  \* the buffer, the bytes in it, its size
  dir, dix, dsz,  \* the cache of directives, likewise
  istmt,          \* statements in the current piece
  cfd,            \* whether a piece is open; it is the last one of file
  file,           \* what has been written to each piece
  pc,             \* "idle" between calls; "enter", "cache", "room", "resize"
                  \* and "put" in one; "done"; "wild_dir" and "wild_buf" after
                  \* a write past the end of the cache or of the buffer
  fed,            \* the calls so far
  inp,            \* the current input
  lost            \* the calls that a failure made the code drop

buffer == <<buf, bix, bsz>>
cache  == <<dir, dix, dsz>>
output == <<cfd, file>>
calls  == <<fed, inp>>
vars   == <<buffer, cache, istmt, output, pc, calls, lost>>

Item == [no : 1..MaxCalls, stmt : Stmt, inp : 1..MaxInputs]
IsDirective(x) == x.stmt \in Dirs

\* The call that is running, and the z that it was given.
cur == fed[Len(fed)]
z   == Size[cur.stmt]

---------------------------------------------------------------------------
Init ==
  /\ buf = <<>> /\ bix = 0 /\ bsz = Buf0
  /\ dir = <<>> /\ dix = 0 /\ dsz = Buf0
  /\ istmt = 0
  /\ cfd = FALSE /\ file = <<>>
  /\ pc = "idle"
  /\ fed = <<>> /\ inp = 1
  /\ lost = {}

(***************************************************************************)
(* A call.  Open pieces stay open from one call to the next.               *)
(***************************************************************************)
Call(s) ==
  /\ pc = "idle"
  /\ Len(fed) < MaxCalls
  /\ fed' = Append(fed, [no |-> Len(fed) + 1, stmt |-> s, inp |-> inp])
  /\ pc' = IF cfd THEN "cache" ELSE "enter"
  /\ UNCHANGED <<buffer, cache, istmt, output, inp, lost>>

\* The call returns without having written its statement anywhere.
Drop ==
  /\ pc' = "idle"
  /\ lost' = lost \cup {cur}

\* The next name is used up whether or not the file can be opened.
OpenPiece ==
  /\ pc = "enter"
  /\ file' = Append(file, <<>>)
  /\ cfd' = TRUE
  /\ pc' = "cache"
  /\ UNCHANGED <<buffer, cache, istmt, calls, lost>>

OpenFails ==
  /\ pc = "enter" /\ "open" \in Faults
  /\ file' = Append(file, <<>>)
  /\ Drop
  /\ UNCHANGED <<buffer, cache, istmt, cfd, calls>>

---------------------------------------------------------------------------
(* The cache of directives.  It is resized for the directive alone, not    *)
(* for the directive and what is in the cache already.                     *)

NotDirective ==
  /\ pc = "cache" /\ ~IsDirective(cur)
  /\ pc' = "room"
  /\ UNCHANGED <<buffer, cache, istmt, output, calls, lost>>

Cached(size) ==
  /\ dsz' = size
  /\ IF dix + z + 1 <= size
     THEN dir' = Append(dir, cur) /\ dix' = dix + z + 1 /\ pc' = "room"
     ELSE dix' = dix + z + 1 /\ pc' = "wild_dir" /\ UNCHANGED dir
  /\ UNCHANGED <<buffer, istmt, output, calls, lost>>

CacheFits == dix + z + 1 <= dsz

CacheDirective ==
  /\ pc = "cache" /\ IsDirective(cur)
  /\ CacheFits
  /\ Cached(dsz)

GrowCache ==
  /\ pc = "cache" /\ IsDirective(cur)
  /\ ~CacheFits
  /\ Cached(NewSize(z + 1))

GrowCacheFails ==
  /\ pc = "cache" /\ IsDirective(cur)
  /\ ~CacheFits
  /\ "mmap" \in Faults
  /\ Drop
  /\ UNCHANGED <<buffer, cache, istmt, output, calls>>

---------------------------------------------------------------------------
(* Room in the buffer.                                                     *)

\* wr_buf() of a buffer b to the current piece.  When write() fails the rest
\* of the buffer goes nowhere: nobody looks at what wr_buf() returns.
WrBuf(b) ==
  \E n \in 0..Len(b) :
    /\ n = Len(b) \/ "write" \in Faults
    /\ file' = [file EXCEPT ![Len(file)] = @ \o SubSeq(b, 1, n)]
    /\ lost' = lost \cup Range(SubSeq(b, n + 1, Len(b)))

\* Mutant: only one newline is reckoned with.
HasRoomTight ==
  /\ pc = "room"
  /\ bix + z + 1 <= bsz
  /\ pc' = "put"
  /\ UNCHANGED <<buffer, cache, istmt, output, calls, lost>>

HasRoom ==
  /\ pc = "room"
  /\ bix + z + 2 <= bsz
  /\ pc' = "put"
  /\ UNCHANGED <<buffer, cache, istmt, output, calls, lost>>

\* Mutant: the index pointer is not reset.
FlushKeeping ==
  /\ pc = "room"
  /\ bix + z + 2 > bsz
  /\ WrBuf(buf)
  /\ pc' = "resize"
  /\ UNCHANGED <<buffer, cache, istmt, cfd, calls>>

Flush ==
  /\ pc = "room"
  /\ bix + z + 2 > bsz
  /\ WrBuf(buf)
  /\ buf' = <<>> /\ bix' = 0
  /\ pc' = "resize"
  /\ UNCHANGED <<bsz, cache, istmt, cfd, calls>>

NoResize ==
  /\ pc = "resize"
  /\ z + 2 <= bsz
  /\ pc' = "put"
  /\ UNCHANGED <<buffer, cache, istmt, output, calls, lost>>

Resize ==
  /\ pc = "resize"
  /\ z + 2 > bsz
  /\ bsz' = NewSize(z + 2)
  /\ pc' = "put"
  /\ UNCHANGED <<buf, bix, cache, istmt, output, calls, lost>>

ResizeFails ==
  /\ pc = "resize"
  /\ z + 2 > bsz
  /\ "mmap" \in Faults
  /\ Drop
  /\ UNCHANGED <<buffer, cache, istmt, output, calls>>

---------------------------------------------------------------------------
(* Copying the statement in, and concluding the piece when it is full.     *)

Appended == Append(buf, cur)
grown    == bix + z + (IF IsDirective(cur) THEN 1 ELSE 2)
counted  == istmt + (IF IsDirective(cur) THEN 0 ELSE 1)

\* Mutant: a piece ends one statement late.
PutStmtLate ==
  /\ pc = "put"
  /\ counted <= nstmt
  /\ buf' = Appended /\ bix' = grown /\ istmt' = counted
  /\ pc' = "idle"
  /\ UNCHANGED <<bsz, cache, output, calls, lost>>

PutStmt ==
  /\ pc = "put"
  /\ counted < nstmt
  /\ buf' = Appended /\ bix' = grown /\ istmt' = counted
  /\ pc' = "idle"
  /\ UNCHANGED <<bsz, cache, output, calls, lost>>

\* Mutant: the next piece begins with an empty buffer.
PutLastUnseeded ==
  /\ pc = "put"
  /\ counted >= nstmt
  /\ WrBuf(Appended)
  /\ cfd' = FALSE
  /\ istmt' = 0
  /\ buf' = <<>> /\ bix' = 0
  /\ pc' = "idle"
  /\ UNCHANGED <<bsz, cache, calls>>

\* The buffer is seeded with the cache for the next piece.
PutLast ==
  /\ pc = "put"
  /\ counted >= nstmt
  /\ WrBuf(Appended)
  /\ cfd' = FALSE
  /\ istmt' = 0
  /\ bix' = dix
  /\ IF dix <= bsz THEN buf' = dir /\ pc' = "idle"
                   ELSE pc' = "wild_buf" /\ UNCHANGED buf
  /\ UNCHANGED <<bsz, cache, calls>>

---------------------------------------------------------------------------
(* The end of an input: fini_stmt(), which leaves istmt as it is.          *)

\* Mutant: one input too many.
NextInputFar ==
  IF inp <= MaxInputs THEN inp' = inp + 1 /\ UNCHANGED pc
                      ELSE pc' = "done" /\ UNCHANGED inp

NextInput ==
  IF inp < MaxInputs THEN inp' = inp + 1 /\ UNCHANGED pc
                     ELSE pc' = "done" /\ UNCHANGED inp

FiniStmt ==
  /\ pc = "idle"
  /\ IF cfd THEN WrBuf(buf) ELSE UNCHANGED <<file, lost>>
  /\ cfd' = FALSE
  /\ buf' = <<>> /\ bix' = 0 /\ bsz' = Buf0
  /\ dir' = <<>> /\ dix' = 0 /\ dsz' = Buf0
  /\ NextInput
  /\ UNCHANGED <<istmt, fed>>

\* split1() gives up on an input without calling fini_stmt(); after the last
\* input what is in the buffer is gone.
GiveUp ==
  /\ pc = "idle" /\ "input" \in Faults
  /\ NextInput
  /\ lost' = IF inp = MaxInputs THEN lost \cup Range(buf) ELSE lost
  /\ UNCHANGED <<buffer, cache, istmt, output, fed>>

Halted == pc \in {"done", "wild_dir", "wild_buf"} /\ UNCHANGED vars

Next ==
  \/ \E s \in Stmt : Call(s)
  \/ OpenPiece \/ OpenFails
  \/ NotDirective \/ CacheDirective \/ GrowCache \/ GrowCacheFails
  \/ HasRoom \/ Flush \/ NoResize \/ Resize \/ ResizeFails
  \/ PutStmt \/ PutLast
  \/ FiniStmt \/ GiveUp \/ Halted

Spec == Init /\ [][Next]_vars

---------------------------------------------------------------------------
(* Properties.                                                             *)

TypeOK ==
  /\ buf \in Seq(Item) /\ bix \in Nat /\ bsz \in Nat
  /\ dir \in Seq(Item) /\ dix \in Nat /\ dsz \in Nat
  /\ istmt \in Nat
  /\ cfd \in BOOLEAN /\ file \in Seq(Seq(Item))
  /\ cfd => file # <<>>
  /\ pc \in {"idle", "enter", "cache", "room", "resize", "put", "done",
              "wild_dir", "wild_buf"}
  /\ fed \in Seq(Item) /\ Len(fed) <= MaxCalls
  /\ inp \in 1..MaxInputs
  /\ lost \subseteq Item

\* The buffer was grown for every directive in the cache: the one way to a cache
\* that is not measured is a directive that was cached and then dropped, because
\* the buffer could not be grown for it (ttl-split.c:183, :196-200).
CacheMeasured == "mmap" \notin Faults \/ Range(dir) \cap lost = {}

\* No write ends past the end of the buffer.  Statements and directives are
\* measured before they are copied in (ttl-split.c:188-201), the cache that
\* seeds the next piece is not (:224).
BufNeverOverrun == CacheMeasured => pc # "wild_buf" /\ bix <= bsz

\* No write ends past the end of the cache: "firstly check whether to resize
\* our directives buffer" (ttl-split.c:173-185).
DirNeverOverrun == pc # "wild_dir"

\* What a piece holds, or will when the buffer is flushed.
Content(k) == IF cfd /\ k = Len(file) THEN file[k] \o buf ELSE file[k]

\* The calls that are through.
Through == {fed[i] : i \in 1..(IF pc \in {"idle", "done"} THEN Len(fed) ELSE Len(fed) - 1)}

\* Each statement that no failure dropped is in exactly one piece, once, and
\* in the order of the calls, however the buffer was flushed, grown and seeded
\* (ttl-split.c:188-225).
IsStatement(x) == ~IsDirective(x)
StatementsAt(P) == {i \in DOMAIN P : IsStatement(P[i])}
OnceAndInOrder ==
  /\ \A k, l \in DOMAIN file :
       \A i \in StatementsAt(Content(k)), j \in StatementsAt(Content(l)) :
         k < l \/ (k = l /\ i < j) => Content(k)[i].no < Content(l)[j].no
  /\ {x \in Through : IsStatement(x)} \ lost
       \subseteq UNION {Range(Content(k)) : k \in DOMAIN file}

\* A piece can be read without the others: before any of its statements come
\* the directives that were handed on before it (ttl-split.c:172-186, :224).
SelfContained ==
  \A k \in DOMAIN file :
    LET P == Content(k)
    IN  \A i \in DOMAIN P : \A d \in Range(fed) :
          /\ IsStatement(P[i]) /\ IsDirective(d)
          /\ d.no < P[i].no /\ d.inp = P[i].inp
          /\ d \notin lost
          => \E j \in 1..i-1 : P[j] = d

\* No piece holds more than nstmt statements (ttl-split.c:214-222).
Quota ==
  \A k \in DOMAIN file :
    Cardinality(StatementsAt(Content(k))) <= IF nstmt = 0 THEN 1 ELSE nstmt

StatementsIn(s) == SelectSeq(s, IsStatement)

\* Every piece but the last of an input holds nstmt statements: "Output N
\* statements per file" (ttl-split.yuck:7), "fixed-size pieces" (:3).
FullPieces ==
  \A k \in DOMAIN file :
    LET P == StatementsIn(Content(k))
        followed == k < Len(file) /\ \E x \in Range(StatementsIn(Content(k+1))) :
                      x.inp = P[Len(P)].inp
    IN  P # <<>> /\ followed => Len(P) = nstmt

\* Piece by piece, ttl-split does what SplitPieces promises, as far as no write
\* goes out of bounds, and until a failure makes it drop a statement or leave the
\* input (ttl-split.c:121-227).  The directive of a running call is in the cache
\* before it is in the piece.
AheadOfPiece == pc \in {"room", "resize", "put"} /\ IsDirective(cur)
Pieces == INSTANCE SplitPieces WITH
            pieces  <- [k \in DOMAIN file |-> Content(k)],
            dirs    <- IF AheadOfPiece THEN SubSeq(dir, 1, Len(dir) - 1) ELSE dir,
            count   <- IF pc = "done" THEN 0 ELSE istmt,
            filling <- cfd
ImplementsSplitPieces ==
  Pieces!SplitInit /\ [][Pieces!SplitNext \/ lost' # {} \/ GiveUp]_(Pieces!splitVars)

===========================================================================
