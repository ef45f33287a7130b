----------------------------- MODULE TtlScan ------------------------------
(***************************************************************************)
(* The reader and scanner that ttl-split, ttl-prefixify and ttl-wc share:  *)
(* split1() (count1() in ttl-wc) reads an input into a buffer and calls    *)
(* proc(), which looks for the full stop of each statement with string     *)
(* searches, hands the statement on, and returns how much of the buffer it *)
(* is done with; the rest is moved to the front and scanned again together *)
(* with what the next read brings.                                         *)
(*                                                                         *)
(* One action is one pass through the read loop or one through the scan    *)
(* loop.  A character is a one-character string, positions count from 1    *)
(* (the code's pointers from 0), and the NUL the code puts behind the      *)
(* buffer is the position Len(buf) + 1.                                    *)
(***************************************************************************)
EXTENDS Integers, Sequences, FiniteSets

CONSTANTS
  Texts,      \* the texts an input may hold
  Cap0,       \* the size of the static buffer, 4096 in the code
  Seps,       \* further characters the free scan stops at (ttl-wc's , and ;)
  Faults      \* what may fail: "read", and "mmap" for a bigger buffer

ASSUME CapAssumption   == Cap0 \in Nat /\ Cap0 >= 2
ASSUME TextsAssumption == \A t \in Texts : t \in Seq(STRING)
ASSUME NoNul           == \A t \in Texts : \A i \in 1..Len(t) : t[i] # ""
ASSUME SepsAssumption  == Seps \subseteq {",", ";"}
ASSUME FaultAssumption == Faults \subseteq {"read", "mmap"}

VARIABLES
  text,       \* what the input holds
  nread,      \* how much of it has been read
  failed,     \* whether a read or the growth of the buffer has failed
  buf,        \* buf[0..bix): read, and not yet done with
  bsz,        \* the size of the buffer
  sp,         \* proc's sp, the start of the current statement
  tp,         \* proc's tp, where its next search starts
  st,         \* proc's st
  pc,         \* "read": at read(); "scan": in proc(); "last": in the last
              \* proc() after the loop; "fini": at fini_proc(); "done"
  out         \* the statements handed on

vars == <<text, nread, failed, buf, bsz, sp, tp, st, pc, out>>
proc_locals == <<sp, tp, st>>
input == <<text, nread, failed>>

States == {"free", "angles", "quotes", "long", "comment"}

---------------------------------------------------------------------------
(* The string searches of the scan loop. *)

White == {" ", "\n"}
Quote == "\""
FreeStops == {".", "<", Quote, "#"} \cup Seps

\* for (; *sp > '\0' && *sp <= ' '; sp++): from i in b it ends at j.
Overread(b, i, j) ==
  /\ \A k \in i..j-1 : b[k] \in White
  /\ j <= Len(b) => b[j] \notin White

\* A search in the current state would stop at p.
Hit(p) ==
  CASE st = "free"    -> buf[p] \in FreeStops
    [] st = "angles"  -> buf[p] = ">"
    [] st = "quotes"  -> buf[p] = Quote
    [] st = "long"    -> p + 2 <= Len(buf) /\ \A k \in p..p+2 : buf[k] = Quote
    [] st = "comment" -> buf[p] = "\n"

\* The search from tp finds p.
Found(p) == Hit(p) /\ \A q \in tp..p-1 : ~Hit(q)

NotFound == \A p \in tp..Len(buf) : ~Hit(p)

\* escapedp(): an odd number of backslashes between tp and p.
Escaped(p) ==
  \E n \in 0..p-tp :
    /\ n % 2 = 1
    /\ \A k \in p-n..p-1 : buf[k] = "\\"
    /\ p - n > tp => buf[p-n-1] # "\\"

\* eo[0] and eo[1] of a quote at p, "" standing for the NUL.
After(p, n) == IF p + n <= Len(buf) THEN buf[p+n] ELSE ""

---------------------------------------------------------------------------
Init ==
  /\ text \in Texts
  /\ nread = 0
  /\ failed = FALSE
  /\ buf = <<>>
  /\ bsz = Cap0
  /\ sp = 1 /\ tp = 1 /\ st = "free"
  /\ pc = "read"
  /\ out = <<>>

---------------------------------------------------------------------------
(* split1(): read() returned n bytes, any number up to the room there is,  *)
(* and proc() starts on the buffer.                                        *)

Room == bsz - Len(buf) - 1

Enter(b) ==
  \E j \in 1..Len(b)+1 :
    Overread(b, 1, j) /\ sp' = j /\ tp' = j /\ st' = "free"

Read(n) ==
  /\ pc = "read"
  /\ n <= Room /\ nread + n <= Len(text)
  /\ buf' = buf \o SubSeq(text, nread + 1, nread + n)
  /\ nread' = nread + n
  /\ Enter(buf')
  /\ pc' = "scan"
  /\ UNCHANGED <<text, failed, bsz, out>>

\* read() returned 0, for want of input or of room, or it failed: the last
\* try scans what is left.
Eof ==
  /\ pc = "read"
  /\ nread = Len(text) \/ Room <= 0 \/ "read" \in Faults
  /\ failed' = (nread < Len(text) /\ Room > 0)
  /\ Enter(buf)
  /\ pc' = "last"
  /\ UNCHANGED <<text, nread, buf, bsz, out>>

---------------------------------------------------------------------------
(* proc(): the scan loop.                                                  *)

Scanning == pc \in {"scan", "last"}

Advance(p, state) ==
  /\ tp' = p /\ st' = state
  /\ UNCHANGED <<input, buf, bsz, sp, pc, out>>

\* A full stop: hand the statement on, and start on the one after it.
Dot(p) ==
  /\ st = "free" /\ buf[p] = "."
  /\ out' = Append(out, SubSeq(buf, sp, p))
  /\ \E j \in p+1..Len(buf)+1 : Overread(buf, p+1, j) /\ sp' = j /\ tp' = j
  /\ UNCHANGED <<input, buf, bsz, st, pc>>

Separator(p)  == st = "free" /\ buf[p] \in Seps /\ Advance(p+1, st)
OpenAngle(p)  == st = "free" /\ buf[p] = "<" /\ Advance(p+1, "angles")
CloseAngle(p) == st = "angles" /\ Advance(p+1, "free")
Hash(p)       == st = "free" /\ buf[p] = "#" /\ Advance(p+1, "comment")
Newline(p)    == st = "comment" /\ Advance(p+1, "free")

\* A quote that is escaped is skipped, whatever the state.
EscapedQuote(p) == buf[p] = Quote /\ Escaped(p) /\ Advance(p+1, st)

\* A quote outside a literal opens one, or a long one if two more follow; two
\* quotes are an empty literal.
PlainQuote(p) == buf[p] = Quote /\ ~Escaped(p)

OpenQuote(p)  == /\ PlainQuote(p) /\ st = "free"
                 /\ After(p, 1) \notin {"", Quote}
                 /\ Advance(p+1, "quotes")
EmptyQuote(p) == /\ PlainQuote(p) /\ st = "free"
                 /\ After(p, 1) = Quote /\ After(p, 2) \notin {"", Quote}
                 /\ Advance(p+2, st)
\* Mutant: one quote too few is skipped.
OpenLongShort(p) == /\ PlainQuote(p) /\ st = "free"
                    /\ After(p, 1) = Quote /\ After(p, 2) = Quote
                    /\ Advance(p+2, "long")

OpenLong(p)   == /\ PlainQuote(p) /\ st = "free"
                 /\ After(p, 1) = Quote /\ After(p, 2) = Quote
                 /\ Advance(p+3, "long")
CloseQuote(p) == PlainQuote(p) /\ st = "quotes" /\ Advance(p+1, "free")
\* Mutant: one character too many is skipped.
CloseLongFar(p) == PlainQuote(p) /\ st = "long" /\ Advance(p+4, "free")

CloseLong(p)  == PlainQuote(p) /\ st = "long" /\ Advance(p+3, "free")

\* goto out: too little is there to tell which of the three it is.
CutShort(p)   == /\ PlainQuote(p) /\ st = "free"
                 /\ \/ After(p, 1) = ""
                    \/ After(p, 1) = Quote /\ After(p, 2) = ""

\* What neither concludes nor divides a statement.
Token(p) ==
  \/ OpenAngle(p) \/ CloseAngle(p) \/ Hash(p) \/ Newline(p)
  \/ EscapedQuote(p) \/ OpenQuote(p) \/ EmptyQuote(p) \/ OpenLong(p)
  \/ CloseQuote(p) \/ CloseLong(p)

Scan ==
  /\ Scanning
  /\ \E p \in tp..Len(buf) :
       Found(p) /\ (Dot(p) \/ Separator(p) \/ Token(p))

\* Mutant: proc() returns after a statement.
ReturnsEarly ==
  NotFound \/ sp > 1 \/ \E p \in tp..Len(buf) : Found(p) /\ CutShort(p)

\* proc() returns sp - buf.
Returns == NotFound \/ \E p \in tp..Len(buf) : Found(p) /\ CutShort(p)

\* The locals of proc() are gone.
Leave == sp' = 1 /\ tp' = 1 /\ st' = "free"

---------------------------------------------------------------------------
(* split1(): what it does about the return value.                          *)

\* Mutants: the place of the NUL is forgotten; the buffer is grown even when part
\* of it is done with.
FullLate == sp = 1 /\ Len(buf) >= bsz
FullAlways == Len(buf) + 1 >= bsz

\* npr == 0 with a full buffer: double it, or give up on the input.
Full == sp = 1 /\ Len(buf) + 1 >= bsz

Grow ==
  /\ pc = "scan" /\ Returns /\ Full
  /\ bsz' = 2 * bsz
  /\ pc' = "read"
  /\ Leave
  /\ UNCHANGED <<input, buf, out>>

GrowFail ==
  /\ pc = "scan" /\ Returns /\ Full
  /\ "mmap" \in Faults
  /\ failed' = TRUE
  /\ pc' = "done"
  /\ Leave
  /\ UNCHANGED <<text, nread, buf, bsz, out>>

\* Mutant: the same buffer is scanned again.
ReadMoreAgain ==
  /\ pc = "scan" /\ Returns /\ sp = 1 /\ ~Full
  /\ pc' = "scan"
  /\ Leave
  /\ UNCHANGED <<input, buf, bsz, out>>

\* npr == 0 otherwise: just read some more.
ReadMore ==
  /\ pc = "scan" /\ Returns /\ sp = 1 /\ ~Full
  /\ pc' = "read"
  /\ Leave
  /\ UNCHANGED <<input, buf, bsz, out>>

\* Mutant: the rest is not moved to the front.
CompactUnmoved ==
  /\ pc = "scan" /\ Returns /\ sp > 1
  /\ buf' = SubSeq(buf, 1, Len(buf) - sp + 1)
  /\ pc' = "read"
  /\ Leave
  /\ UNCHANGED <<input, bsz, out>>

\* npr > 0: memmove() the rest to the front.
Compact ==
  /\ pc = "scan" /\ Returns /\ sp > 1
  /\ buf' = SubSeq(buf, sp, Len(buf))
  /\ pc' = "read"
  /\ Leave
  /\ UNCHANGED <<input, bsz, out>>

\* The return value of the last try is ignored.
LastReturn ==
  /\ pc = "last" /\ Returns
  /\ pc' = "fini"
  /\ Leave
  /\ UNCHANGED <<input, buf, bsz, out>>

\* fini_proc(), close() and the end of split1().
Fini ==
  /\ pc = "fini"
  /\ pc' = "done"
  /\ UNCHANGED <<input, buf, bsz, proc_locals, out>>

Done == pc = "done" /\ UNCHANGED vars

ReadInput == \E n \in 1..Room : Read(n)

Next == \/ ReadInput \/ Eof \/ Scan \/ Grow \/ GrowFail \/ ReadMore
        \/ Compact \/ LastReturn \/ Fini \/ Done

\* The program keeps running, and no input keeps a read waiting for ever.
Spec == Init /\ [][Next]_vars /\ WF_vars(Next)

---------------------------------------------------------------------------
(* Properties.                                                             *)

TypeOK ==
  /\ text \in Seq(STRING)
  /\ nread \in 0..Len(text)
  /\ failed \in BOOLEAN
  /\ buf \in Seq(STRING)
  /\ bsz \in Nat
  /\ sp \in 1..Len(buf)+1 /\ tp \in sp..Len(buf)+1
  /\ st \in States
  /\ pc \in {"read", "scan", "last", "fini", "done"}
  /\ out \in Seq(Seq(STRING))

\* The buffer is the part of the input that ends where the reading stands: no
\* read, compaction or growth loses, repeats or reorders a character
\* (ttl-split.c:363-382).
Contiguous == buf = SubSeq(text, nread - Len(buf) + 1, nread)

\* read() is never asked for zero bytes, which would look like the end of the
\* input and drop the rest of it (ttl-split.c:364, :369).
RoomToRead == pc = "read" => Len(buf) + 1 < bsz

\* The statements come out whole, once and in order, whatever the reads and
\* the size of the buffer were; all of them, unless a read or a growth failed
\* (ttl-split.c:347-397).
Stream == INSTANCE StmtStream WITH closed <- (pc = "done")
ChunkIndependent == Stream!StreamSpec

\* The last try after the read loop finds nothing the loop has not found
\* (ttl-split.c:385-386): its "last try, we don't care how much" is moot.
LastTryFindsNothing == [][pc = "last" => out' = out]_vars

\* The buffer grows for a statement that does not fit and not with the input:
\* once grown it is at most twice the longest stretch without an end of a
\* statement, and the NUL (ttl-split.c:369-374).
GrowthEarned == bsz = Cap0 \/ bsz <= 2 * (Stream!Longest(text) + 1)

\* Every input is scanned to its end (ttl-split.c:364-392).
Terminates == <>(pc = "done")

===========================================================================
