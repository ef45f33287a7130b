----------------------------- MODULE TtlSplit -----------------------------
(***************************************************************************)
(* ttl-split: main() runs the reader and scanner of TtlScan over one FILE  *)
(* after the other; the scanner calls the writer of SplitWriter for each   *)
(* statement, and waits for it.  The scanner's state is that of one input, *)
(* the writer's that of the program.                                       *)
(***************************************************************************)
EXTENDS TtlScan, SequencesExt

CONSTANTS
  Buf0,       \* the size of the writer's static buffers
  NewSize(_), \* next_2pow()
  nstmt,      \* statements per piece
  MaxInputs,  \* the number of FILE arguments
  MaxCalls,   \* at least the statements of MaxInputs texts
  MayNotOpen, \* TRUE if a FILE may fail to open
  OutFaults   \* what may fail on the way out: a subset of {"open", "write"}

ASSUME SplitAssumption ==
  MaxInputs \in Nat \ {0} /\ MayNotOpen \in BOOLEAN /\ OutFaults \subseteq {"open", "write"}
ASSUME NoSeparators == Seps = {}

VARIABLES
  wbuf, wbix, wbsz, dir, dix, dsz, istmt, cfd, file, wpc, fed, inp, lost,
              \* wr_stmt()'s state and history, see SplitWriter
  main,       \* "open": before split1() opens an input; "split": in it
  rc,         \* main()'s, the exit status before the system cuts it to a byte
  texts       \* the inputs so far, <<>> for one that does not open

writer == <<wbuf, wbix, wbsz, dir, dix, dsz, istmt, cfd, file, wpc, fed, inp, lost>>
splitVars == <<vars, writer, main, rc, texts>>

\* To the writer a statement is its characters, some of a text that follow one
\* another, and its size is their number.
PartsOf(t) == UNION {{SubSeq(t, i, j) : j \in i..Len(t)} : i \in 1..Len(t)}
Statement  == UNION {PartsOf(t) : t \in Texts}
Directives == {s \in Statement : s[1] = "@"}
Length     == [s \in Statement |-> Len(s)]

Wr == INSTANCE SplitWriter WITH
        buf <- wbuf, bix <- wbix, bsz <- wbsz, pc <- wpc,
        Stmt   <- Statement,
        Dirs   <- Directives,
        Size   <- Length,
        Faults <- OutFaults \cup (Faults \cap {"mmap"})
                    \cup (IF "mmap" \in Faults \/ MayNotOpen THEN {"input"} ELSE {})

ASSUME WriterAssumption == Wr!BoundAssumption /\ Wr!Pow2Assumption

SplitInit ==
  /\ Init /\ Wr!Init
  /\ main = "open" /\ rc = 0 /\ texts = <<>>

---------------------------------------------------------------------------
(* split1() opens the input, or main() counts it as failed.                *)

OpenInput ==
  /\ main = "open" /\ wpc = "idle"
  /\ main' = "split"
  /\ texts' = Append(texts, text)
  /\ UNCHANGED <<vars, writer, rc>>

InputFails ==
  /\ main = "open" /\ MayNotOpen
  /\ Wr!GiveUp
  /\ rc' = rc + 1
  /\ texts' = Append(texts, <<>>)
  /\ UNCHANGED <<vars, main>>

---------------------------------------------------------------------------
(* Within split1(): the reader, the scanner, and the writer that it calls. *)

Quiet == main = "split" /\ wpc = "idle"

\* What the reader and the scanner do between two statements.
ScanOn ==
  /\ Quiet
  /\ \/ ReadInput \/ Eof \/ Grow \/ ReadMore \/ Compact \/ LastReturn
     \/ Scanning /\ \E p \in tp..Len(buf) : Found(p) /\ Token(p)
  /\ UNCHANGED <<writer, main, rc, texts>>

\* A full stop: proc() calls wr_stmt().
HandOn ==
  /\ Quiet /\ Scanning
  /\ \E p \in tp..Len(buf) : Found(p) /\ Dot(p) /\ Wr!Call(SubSeq(buf, sp, p))
  /\ UNCHANGED <<main, rc, texts>>

\* wr_stmt() runs to its end.
Write ==
  /\ main = "split"
  /\ \/ Wr!OpenPiece \/ Wr!OpenFails
     \/ Wr!NotDirective \/ Wr!CacheDirective \/ Wr!GrowCache \/ Wr!GrowCacheFails
     \/ Wr!HasRoom \/ Wr!Flush \/ Wr!NoResize \/ Wr!Resize \/ Wr!ResizeFails
     \/ Wr!PutStmt \/ Wr!PutLast
  /\ UNCHANGED <<vars, main, rc, texts>>

\* fini_proc() calls fini_stmt() at the end of an input.  When the reader gives
\* up it does not.
FiniProc == Quiet /\ Fini /\ Wr!FiniStmt /\ UNCHANGED <<main, rc, texts>>
GiveUp   == Quiet /\ GrowFail /\ Wr!GiveUp /\ UNCHANGED <<main, rc, texts>>

\* split1() has returned 0, and main() goes on to the next FILE.
NextFile ==
  /\ main = "split" /\ pc = "done" /\ wpc = "idle"
  /\ main' = "open"
  /\ text' \in Texts
  /\ nread' = 0 /\ failed' = FALSE /\ buf' = <<>> /\ bsz' = Cap0
  /\ Leave
  /\ pc' = "read" /\ out' = <<>>
  /\ UNCHANGED <<writer, rc, texts>>

Exit == wpc \in {"done", "wild_dir", "wild_buf"} /\ UNCHANGED splitVars

SplitNext == \/ OpenInput \/ InputFails \/ ScanOn \/ HandOn \/ Write
             \/ FiniProc \/ GiveUp \/ NextFile \/ Exit

SplitSpec == SplitInit /\ [][SplitNext]_splitVars /\ WF_splitVars(SplitNext)

---------------------------------------------------------------------------
(* Properties.                                                             *)

Due(k) == Stream!Statements(texts[k])
Stmts(items) == [i \in DOMAIN items |-> items[i].stmt]

\* The pieces that a sequence of statements is due: what SplitPieces promises,
\* as a function.  A piece ends with its nstmt'th statement, or with anything if
\* nstmt is zero; the next one, if there is one, begins with the directives so far.
Directive(s) == s[1] = "@"
NoPieces == [pieces |-> <<>>, dirs |-> <<>>, count |-> 0]
Concluded(p) == p.pieces = <<>> \/ p.count >= nstmt
Begun(p) == IF Concluded(p) THEN Append(p.pieces, p.dirs) ELSE p.pieces
Count(p) == IF Concluded(p) THEN 0 ELSE p.count
With(p, s) ==
  [pieces |-> [Begun(p) EXCEPT ![Len(Begun(p))] = Append(@, s)],
   dirs   |-> IF Directive(s) THEN Append(p.dirs, s) ELSE p.dirs,
   count  |-> IF Directive(s) THEN Count(p) ELSE Count(p) + 1]
PiecesOf(S) ==
  LET after[i \in 0..Len(S)] == IF i = 0 THEN NoPieces ELSE With(after[i-1], S[i])
  IN  after[Len(S)].pieces

\* What ttl-split writes for the first FILE depends on the FILE alone: not on the
\* reads, not on the sizes of the buffers and not on when they are flushed
\* (ttl-split.c:121-397).  For later ones see FullPieces in SplitWriter.
FirstFileDone ==
  Len(texts) = 1 /\ pc = "done" /\ wpc \in {"idle", "done"} /\ ~failed /\ lost = {}
PiecesOfText ==
  FirstFileDone => [k \in DOMAIN file |-> Stmts(file[k])] = PiecesOf(Due(1))

\* The calls for the k-th input, which come one after the other, and how many there
\* were before them.
CallsFor(k)    == {i \in DOMAIN fed : fed[i].inp = k}
CallsBefore(k) == Cardinality({i \in DOMAIN fed : fed[i].inp < k})

\* Over several inputs, the n-th call for an input is the n-th statement of its text,
\* also when the reader gives up on an input and leaves the writer as it is; there is
\* a call for each of them, unless the reader has failed; and what is in the pieces,
\* directives aside, is what was handed on (ttl-split.c:284-287, :367-396).
FromTextToPiece ==
  /\ \A k \in DOMAIN texts : \A i \in CallsFor(k) :
       LET n == i - CallsBefore(k) IN n \in 1..Len(Due(k)) /\ fed[i].stmt = Due(k)[n]
  /\ main = "split" /\ pc = "done" /\ ~failed =>
       Len(fed) = CallsBefore(Len(texts)) + Len(Due(Len(texts)))
  /\ \A k \in DOMAIN file : \A i \in Wr!StatementsAt(Wr!Content(k)) :
       LET x == Wr!Content(k)[i] IN x.no \in DOMAIN fed /\ x = fed[x.no]

\* The writer's own properties, with the statements that the scanner hands on, and
\* with failures on either side of it: statements that no failure dropped are in one
\* piece, once and in order, after the directives before them, and no piece has more
\* than nstmt of them (ttl-split.c:161-226).
OnceAndInOrder == Wr!OnceAndInOrder
SelfContained  == Wr!SelfContained
Quota          == Wr!Quota

\* Every input is split, or the program has overrun its cache of directives
\* (ttl-split.c:423-427).
SplitTerminates == <>(wpc \in {"done", "wild_dir"})

===========================================================================
