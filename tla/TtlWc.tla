------------------------------ MODULE TtlWc -------------------------------
(***************************************************************************)
(* ttl-wc: main() counts one FILE after the other.  count1() runs the      *)
(* scanner of TtlScan over a file; its proc() counts, next to the          *)
(* statements, the ; and , at which it stops on the way.  The counters are *)
(* static: only count1() resets them, and only once the file is open.      *)
(***************************************************************************)
EXTENDS TtlScan

CONSTANTS
  MaxFiles,   \* the number of FILE arguments
  MayNotOpen  \* TRUE if a file may fail to open

ASSUME FilesAssumption == MaxFiles \in Nat \ {0} /\ MayNotOpen \in BOOLEAN
ASSUME StopsAssumption == Seps = {",", ";"}

VARIABLES
  nsub, npre, nobj,   \* the counters
  total,              \* pr_counts()' tnsub, tnpre and tnobj
  rc,                 \* main()'s, the exit status before the system cuts it
                      \* down to a byte
  main,               \* "open": at open(); "count"; "print"; "end"
  rows,               \* the lines printed for files
  reads               \* how many times read() has returned something

counters == <<nsub, npre, nobj>>
wcVars == <<vars, counters, total, rc, main, rows, reads>>

Counts == [nsub |-> nsub, npre |-> npre, nobj |-> nobj]
Plus(a, b) == [k \in DOMAIN a |-> a[k] + b[k]]
Zero == [k \in {"nsub", "npre", "nobj"} |-> 0]

WcInit ==
  /\ Init
  /\ nsub = 0 /\ npre = 0 /\ nobj = 0
  /\ total = Zero
  /\ rc = 0
  /\ main = "open"
  /\ rows = <<>>
  /\ reads = 0

---------------------------------------------------------------------------
\* count1(): the file is there, and the counters start at zero.  text already
\* is what it holds.
OpenFile ==
  /\ main = "open"
  /\ nsub' = 0 /\ npre' = 0 /\ nobj' = 0
  /\ main' = "count"
  /\ UNCHANGED <<vars, total, rc, rows, reads>>

\* count1() returns -1 before it gets to init_proc().
OpenFails ==
  /\ main = "open" /\ MayNotOpen
  /\ rc' = rc + 1
  /\ main' = "print"
  /\ UNCHANGED <<vars, counters, total, rows, reads>>

Count(s, p, o) == nsub' = nsub + s /\ npre' = npre + p /\ nobj' = nobj + o

\* Mutant: directives count as well.
CountDotAny(p) == Dot(p) /\ Count(1, 1, 1)

\* Mutants: a ; is no , as well; a ; falls through into the case of the , .
CountSeparatorOnce(p) ==
  /\ Separator(p)
  /\ IF buf[p] = ";" THEN Count(0, 1, 0) ELSE Count(0, 0, 1)
CountSeparatorFalls(p) ==
  /\ Separator(p)
  /\ IF buf[p] = ";" THEN Count(0, 1, 2) ELSE Count(0, 0, 1)

\* proc(): a full stop counts unless the statement starts with @; the
\* separators count where they are met, before the statement is known to be
\* whole.
CountDot(p) ==
  /\ Dot(p)
  /\ IF buf[sp] = "@" THEN UNCHANGED counters ELSE Count(1, 1, 1)

CountSeparator(p) ==
  /\ Separator(p)
  /\ IF buf[p] = ";" THEN Count(0, 1, 1) ELSE Count(0, 0, 1)

CountScan ==
  /\ main = "count" /\ Scanning
  /\ \E p \in tp..Len(buf) :
       /\ Found(p)
       /\ CountDot(p) \/ CountSeparator(p) \/ (Token(p) /\ UNCHANGED counters)
  /\ UNCHANGED <<total, rc, main, rows, reads>>

CountRead ==
  /\ main = "count"
  /\ ReadInput
  /\ reads' = reads + 1
  /\ UNCHANGED <<counters, total, rc, main, rows>>

CountRest ==
  /\ main = "count"
  /\ Eof \/ Grow \/ GrowFail \/ ReadMore \/ Compact \/ LastReturn \/ Fini
  /\ UNCHANGED <<counters, total, rc, main, rows, reads>>

\* Mutant: one file too many.
PrintCountsFar ==
  /\ \/ main = "count" /\ pc = "done"
     \/ main = "print"
  /\ rows' = Append(rows, [opened |-> main = "count", text |-> text,
                           counts |-> Counts])
  /\ total' = Plus(total, Counts)
  /\ reads' = 0
  /\ IF Len(rows) <= MaxFiles
     THEN /\ main' = "open"
          /\ text' \in Texts
          /\ nread' = 0 /\ failed' = FALSE /\ buf' = <<>> /\ bsz' = Cap0
          /\ sp' = 1 /\ tp' = 1 /\ st' = "free"
          /\ pc' = "read" /\ out' = <<>>
     ELSE main' = "end" /\ UNCHANGED vars
  /\ UNCHANGED <<counters, rc>>

\* pr_counts() for a file, and on to the next one, or to the end.
PrintCounts ==
  /\ \/ main = "count" /\ pc = "done"
     \/ main = "print"
  /\ rows' = Append(rows, [opened |-> main = "count", text |-> text,
                           counts |-> Counts])
  /\ total' = Plus(total, Counts)
  /\ reads' = 0
  /\ IF Len(rows') < MaxFiles
     THEN /\ main' = "open"
          /\ text' \in Texts
          /\ nread' = 0 /\ failed' = FALSE /\ buf' = <<>> /\ bsz' = Cap0
          /\ sp' = 1 /\ tp' = 1 /\ st' = "free"
          /\ pc' = "read" /\ out' = <<>>
     ELSE main' = "end" /\ UNCHANGED vars
  /\ UNCHANGED <<counters, rc>>

\* With more than one FILE pr_counts() prints the total, from counters that it
\* overwrites with it.
PrintTotal ==
  /\ main = "end" /\ MaxFiles > 1
  /\ nsub' = total.nsub /\ npre' = total.npre /\ nobj' = total.nobj
  /\ main' = "exit"
  /\ total' = Plus(total, total)
  /\ UNCHANGED <<vars, rc, rows, reads>>

Exit == main \in {"end", "exit"} /\ (main = "end" => MaxFiles = 1) /\ UNCHANGED wcVars

WcNext == \/ OpenFile \/ OpenFails \/ CountScan \/ CountRead \/ CountRest
          \/ PrintCounts \/ PrintTotal \/ Exit

WcSpec == WcInit /\ [][WcNext]_wcVars /\ WF_wcVars(WcNext)

---------------------------------------------------------------------------
(* Properties.                                                             *)

WcTypeOK ==
  /\ TypeOK
  /\ nsub \in Nat /\ npre \in Nat /\ nobj \in Nat
  /\ rc \in 0..MaxFiles
  /\ main \in {"open", "count", "print", "end", "exit"}
  /\ Len(rows) <= MaxFiles

\* What there is to count in a text: the statements that are not directives,
\* and the separators outside every token.
TrueCounts(t) ==
  LET S == Stream!Statements(t)
      s == Cardinality({k \in DOMAIN S : S[k][1] # "@"})
      p == s + Stream!Outsiders(t, {";"})
      o == s + Stream!Outsiders(t, {";", ","})
  IN  [nsub |-> s, npre |-> p, nobj |-> o]

Counted == {rows[i] : i \in {j \in DOMAIN rows : rows[j].opened}}

\* The subject count is right whatever the reads were: a full stop is met once
\* in the file it is in (ttl-wc.c:165-174, :269-281).
SubjectsExact == \A r \in Counted : r.counts.nsub = TrueCounts(r.text).nsub

\* The other two counts never miss anything (ttl-wc.c:175-181).
NothingMissed ==
  \A r \in Counted : /\ r.counts.npre >= TrueCounts(r.text).npre
                     /\ r.counts.nobj >= TrueCounts(r.text).nobj

\* A file of whole statements that comes in one read is counted exactly, and the
\* last try does not count it again (ttl-wc.c:268-288).
Whole(t) == t = <<>> \/ \E e \in Stream!Ends(t) : \A i \in e+1..Len(t) : t[i] \in White
OneReadExact ==
  main = "count" /\ pc = "done" /\ reads <= 1 /\ Whole(text)
    => Counts = TrueCounts(text)

\* "Print subject, predicate and statement counts for each FILE"
\* (ttl-wc.yuck:3): each row has the counts of its file.
CountsExact == \A r \in Counted : Whole(r.text) => r.counts = TrueCounts(r.text)

\* Every file is counted, and the total is printed (ttl-wc.c:354-363).
WcTerminates == <>(main \in {"end", "exit"} /\ Len(rows) = MaxFiles)

===========================================================================
