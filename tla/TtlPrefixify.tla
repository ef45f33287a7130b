--------------------------- MODULE TtlPrefixify ---------------------------
(***************************************************************************)
(* wr_stmt() and add_prefix() of ttl-prefixify.  Statements come from the  *)
(* reader and scanner of TtlScan and go to standard output, with the IRIs  *)
(* in them replaced by prefixed names.  The table of prefixes starts with  *)
(* the default ones and grows with each @prefix directive; it, the buffer  *)
(* and standard output belong to the program, not to an input, and the end *)
(* of an input resets some of them.                                        *)
(*                                                                         *)
(* A statement is a sequence of characters; "@prefix" stands for the bytes *)
(* up to the white space behind it, any other first character with an @ is *)
(* a directive that is none of these.  The buffer is a sequence of lines;  *)
(* bix is the number of bytes that they have.                              *)
(***************************************************************************)
EXTENDS Integers, Sequences, FiniteSets, PrefixSubst

CONSTANTS
  Stmt,       \* what the scanner may hand on
  Defaults,   \* dflt_pres: the prefixes that are always known
  Buf0,       \* the size of the static buffer, 4096 in the code
  Prb0,       \* that of the static buffer for names and URIs, 4096 in the code
  Pres0,      \* entries in the static table, 64 in the code
  NewSize(_), \* next_2pow()
  Longest,    \* bound on the length of what it hands on
  MaxCalls,   \* bound on the calls
  MaxInputs,  \* the inputs
  Faults      \* what may fail: "mmap", "write", and "input": the reader gives up

ASSUME StmtAssumption == \A s \in Stmt : s \in Seq(Char) /\ Len(s) \in 1..Longest
ASSUME TableAssumption ==
  /\ Defaults \in Seq(Prefix)
  /\ Pres0 \in Nat \ {0} /\ Len(Defaults) <= Pres0
ASSUME NamesAssumption ==
  /\ \A i, j \in DOMAIN Defaults : Defaults[i].prfx = Defaults[j].prfx => i = j
  /\ \A i \in DOMAIN Defaults : \A x \in DOMAIN Defaults[i].prfx : Defaults[i].prfx[x] # ":"
ASSUME BoundsAssumption ==
  /\ Longest \in Nat /\ MaxCalls \in Nat /\ MaxInputs \in Nat \ {0}
  /\ Faults \subseteq {"mmap", "write", "input"}
ASSUME RoundingAssumption ==
  /\ Buf0 \in Nat /\ Prb0 \in Nat
  /\ \A x \in 0..Buf0 + 8 + (MaxCalls + 1) * Longest : NewSize(x) \in Nat /\ x <= NewSize(x)

VARIABLES
  pres,           \* the table of prefixes; npres is its length
  zpres, cap,     \* the entries it is believed to have room for, and really has
  pix, prz,       \* the bytes of names and URIs, and the room for them
  buf, bix, bsz,  \* the buffer, the bytes in it, its size
  stdout,         \* whether the descriptor is still open
  out,            \* the lines that have been written to it
  pi,             \* the loop that pushes the prefixes is there
  pc,             \* "idle" between calls; "push", "prefix", "room" and "put" in
                  \* one; "done"; "wild_pres" and "wild_buf" after a write past
                  \* the end of the table or of the buffer
  fed,            \* the calls so far
  inp,            \* the current input
  lost,           \* the calls that were given up for want of memory
  gone            \* the lines that were written to nowhere

table  == <<pres, zpres, cap, pix, prz>>
buffer == <<buf, bix, bsz>>
calls  == <<fed, inp>>
history == <<lost, gone>>
vars   == <<table, buffer, stdout, out, pi, pc, calls, history>>

cur == fed[Len(fed)].stmt
z   == Len(cur)

---------------------------------------------------------------------------
(* Directives.                                                             *)

IsDirective(s) == s[1] \in {"@prefix", "@base"}

\* add_prefix() takes the name from before the first colon, and the URI from
\* between the < and the > after it.
First(s, c, j) == LET S == {i \in j..Len(s) : s[i] = c} IN IF S = {} THEN 0 ELSE Min(S)
Colon(s) == First(s, ":", 2)
Open(s)  == First(s, "<", Colon(s))
Close(s) == First(s, ">", Open(s))

Declares(s) == s[1] = "@prefix" /\ Colon(s) # 0 /\ Open(s) # 0 /\ Close(s) # 0
Binding(s)  == [prfx |-> SubSeq(s, 2, Colon(s) - 1),
                puri |-> SubSeq(s, Open(s) + 1, Close(s) - 1)]

Registered(b) == \E i \in DOMAIN pres : pres[i].prfx = b.prfx

\* The line that declares a prefix.
Declaration(b) == <<"@prefix">> \o b.prfx \o <<":", " ", "<">> \o b.puri
                    \o <<">", " ", ".", "\n">>

\* The static buffer has room for the default prefixes: how much of it each of them
\* and those before it take up.
DefaultsTake ==
  LET upto[k \in 0..Len(Defaults)] ==
        IF k = 0 THEN 0 ELSE upto[k-1] + Len(Declaration(Defaults[k]))
  IN  upto
ASSUME DefaultsFit == DefaultsTake[Len(Defaults)] <= Buf0

---------------------------------------------------------------------------
Init ==
  /\ pres = Defaults /\ zpres = Pres0 /\ cap = Pres0
  /\ pix = 0 /\ prz = Prb0
  /\ buf = <<>> /\ bix = 0 /\ bsz = Buf0
  /\ stdout = TRUE /\ out = <<>>
  /\ pi = 1 /\ pc = "idle"
  /\ fed = <<>> /\ inp = 1
  /\ lost = {} /\ gone = {}

\* A call.  When there is nothing in the buffer the prefixes come first.
Call(s) ==
  /\ pc = "idle"
  /\ Len(fed) < MaxCalls
  /\ fed' = Append(fed, [stmt |-> s, inp |-> inp])
  /\ pi' = 1
  /\ pc' = IF bix = 0 THEN "push" ELSE "prefix"
  /\ UNCHANGED <<table, buffer, stdout, out, inp, history>>

\* The call returns without having put its statement anywhere.
Drop ==
  /\ pc' = "idle"
  /\ lost' = lost \cup {Len(fed)}

---------------------------------------------------------------------------
(* The prefixes, at the beginning of an empty buffer.  The buffer is grown *)
(* for the one that does not fit, not for those that are in it already.    *)

adz   == Len(Declaration(pres[pi]))

Pushed(size) ==
  /\ bsz' = size
  /\ buf' = Append(buf, [no |-> 0, text |-> Declaration(pres[pi]), tab |-> <<>>])
  /\ bix' = bix + adz
  /\ pi' = pi + 1
  /\ pc' = IF bix + adz <= size THEN pc ELSE "wild_buf"
  /\ UNCHANGED <<table, stdout, out, calls, history>>

Push ==
  /\ pc = "push" /\ pi <= Len(pres)
  /\ bix + adz <= bsz
  /\ Pushed(bsz)

PushGrow ==
  /\ pc = "push" /\ pi <= Len(pres)
  /\ bix + adz > bsz
  /\ Pushed(NewSize(adz))

PushFails ==
  /\ pc = "push" /\ pi <= Len(pres)
  /\ bix + adz > bsz /\ "mmap" \in Faults
  /\ Drop
  /\ UNCHANGED <<table, buffer, stdout, out, pi, calls, gone>>

AllPushed ==
  /\ pc = "push" /\ pi > Len(pres)
  /\ pc' = "prefix" /\ pi' = 1
  /\ UNCHANGED <<table, buffer, stdout, out, calls, history>>

---------------------------------------------------------------------------
(* add_prefix().                                                           *)

\* It is no directive, or none that add_prefix() understands: it is copied.
NoPrefix ==
  /\ pc = "prefix"
  /\ ~Declares(cur)
  /\ pc' = "room"
  /\ UNCHANGED <<table, buffer, stdout, out, pi, calls, history>>

\* The name is known, for whatever URI: the directive is skipped.
KnownPrefix ==
  /\ pc = "prefix"
  /\ Declares(cur) /\ Registered(Binding(cur))
  /\ pc' = "idle"
  /\ UNCHANGED <<table, buffer, stdout, out, pi, calls, history>>

NewPrefix == pc = "prefix" /\ Declares(cur) /\ ~Registered(Binding(cur))

bytes   == LET b == Binding(cur) IN pix + Len(b.prfx) + Len(b.puri)
PrbFits == bytes <= prz

\* Room for the name and the URI first, then for the entry.  The loop that moves
\* the pointers of the entries to the grown buffer leaves them what they are.
Add(fits, next) ==
  /\ NewPrefix
  /\ prz' = IF PrbFits THEN prz ELSE NewSize(bytes)
  /\ IF fits THEN UNCHANGED <<zpres, cap>>
             ELSE zpres' = 2 * zpres /\ cap' = 2 * zpres
  /\ pres' = Append(pres, Binding(cur))
  /\ pix' = bytes
  /\ pc' = IF Len(pres) < cap' THEN next ELSE "wild_pres"
  /\ UNCHANGED <<buffer, stdout, out, pi, calls, history>>

\* Mutants: the table is grown an entry late; a new directive is skipped like one
\* that is known.
AddPrefixLate  == Add(Len(pres) <= zpres, "room")
AddPrefixSkips == Add(Len(pres) < zpres, "idle")

AddPrefix == Add(Len(pres) < zpres, "room")

\* Without room it is copied all the same.
PrbFails ==
  /\ NewPrefix
  /\ ~PrbFits /\ "mmap" \in Faults
  /\ pc' = "room"
  /\ UNCHANGED <<table, buffer, stdout, out, pi, calls, history>>

PresFails ==
  /\ NewPrefix
  /\ Len(pres) >= zpres /\ "mmap" \in Faults
  /\ prz' = IF PrbFits THEN prz ELSE NewSize(bytes)
  /\ pc' = "room"
  /\ UNCHANGED <<pres, zpres, cap, pix, buffer, stdout, out, pi, calls, history>>

---------------------------------------------------------------------------
(* The buffer.                                                             *)

\* wr_buf(): what cannot be written is gone.
WrBuf ==
  \E n \in 0..Len(buf) :
    /\ n = Len(buf) \/ ~stdout \/ "write" \in Faults
    /\ stdout \/ n = 0
    /\ out' = out \o SubSeq(buf, 1, n)
    /\ gone' = gone \cup {buf[i].no : i \in n+1..Len(buf)}

Fits == bix + z + 3 <= bsz

HasRoom ==
  /\ pc = "room" /\ Fits
  /\ pc' = "put"
  /\ UNCHANGED <<table, buffer, stdout, out, pi, calls, history>>

\* Mutant: the index pointer is not reset.
FlushKeeping ==
  /\ pc = "room" /\ ~Fits
  /\ WrBuf
  /\ bsz' = IF z + 2 <= bsz THEN bsz ELSE NewSize(z + 2)
  /\ pc' = "put"
  /\ UNCHANGED <<table, buf, bix, stdout, pi, calls, lost>>

Flush ==
  /\ pc = "room" /\ ~Fits
  /\ WrBuf
  /\ buf' = <<>> /\ bix' = 0
  /\ bsz' = IF z + 2 <= bsz THEN bsz ELSE NewSize(z + 2)
  /\ pc' = "put"
  /\ UNCHANGED <<table, stdout, pi, calls, lost>>

FlushFails ==
  /\ pc = "room" /\ ~Fits
  /\ z + 2 > bsz /\ "mmap" \in Faults
  /\ WrBuf
  /\ buf' = <<>> /\ bix' = 0
  /\ Drop
  /\ UNCHANGED <<table, bsz, stdout, pi, calls>>

Line(text) == [no |-> Len(fed), text |-> text, tab |-> pres]

\* Mutant: directives are substituted in as well.
PutDirectiveSubst ==
  /\ pc = "put" /\ IsDirective(cur)
  /\ LET s == subst(pres, cur, bsz - bix)
     IN  /\ buf' = Append(buf, Line(s.text \o <<"\n">>))
         /\ bix' = bix + Len(s.text) + 1
  /\ pc' = "idle"
  /\ UNCHANGED <<table, bsz, stdout, out, pi, calls, history>>

PutDirective ==
  /\ pc = "put" /\ IsDirective(cur)
  /\ buf' = Append(buf, Line(cur \o <<"\n">>))
  /\ bix' = bix + z + 1
  /\ pc' = "idle"
  /\ UNCHANGED <<table, bsz, stdout, out, pi, calls, history>>

\* The newline in front leaves bsz - bix - 1 bytes to substitute in.
PutStmt ==
  /\ pc = "put" /\ ~IsDirective(cur)
  /\ LET s == subst(pres, cur, bsz - bix - 1)
     IN  /\ buf' = Append(buf, Line(<<"\n">> \o s.text \o <<"\n">>))
         /\ bix' = bix + Len(s.text) + 2
         /\ pc' = IF s.far THEN "wild_buf" ELSE "idle"
  /\ UNCHANGED <<table, bsz, stdout, out, pi, calls, history>>

---------------------------------------------------------------------------
(* The end of an input.                                                    *)

\* Mutant: one input too many.
NextInputFar ==
  IF inp <= MaxInputs THEN inp' = inp + 1 /\ UNCHANGED pc
                      ELSE pc' = "done" /\ UNCHANGED inp

NextInput ==
  IF inp < MaxInputs THEN inp' = inp + 1 /\ UNCHANGED pc
                     ELSE pc' = "done" /\ UNCHANGED inp

\* fini_stmt() closes standard output; the next input gets its descriptor, which
\* cannot be written to.  fini_prefix() goes back to the default prefixes and the
\* static buffers, but not to the size of the static table.
FiniStmt ==
  /\ pc = "idle"
  /\ WrBuf
  /\ stdout' = FALSE
  /\ buf' = <<>> /\ bix' = 0 /\ bsz' = Buf0
  /\ pres' = Defaults /\ cap' = Pres0
  /\ prz' = Prb0
  /\ NextInput
  /\ UNCHANGED <<zpres, pix, pi, fed, lost>>

\* split1() gives up without it.
GiveUp ==
  /\ pc = "idle" /\ "input" \in Faults
  /\ NextInput
  /\ gone' = IF inp < MaxInputs THEN gone ELSE gone \cup {buf[i].no : i \in DOMAIN buf}
  /\ UNCHANGED <<table, buffer, stdout, out, pi, fed, lost>>

Halted == pc \in {"done", "wild_pres", "wild_buf"} /\ UNCHANGED vars

Next ==
  \/ \E s \in Stmt : Call(s)
  \/ Push \/ PushGrow \/ PushFails \/ AllPushed
  \/ NoPrefix \/ KnownPrefix \/ AddPrefix \/ PrbFails \/ PresFails
  \/ HasRoom \/ Flush \/ FlushFails \/ PutDirective \/ PutStmt
  \/ FiniStmt \/ GiveUp \/ Halted

Spec == Init /\ [][Next]_vars

---------------------------------------------------------------------------
(* Properties.                                                             *)

TypeOK ==
  /\ Len(pres) >= Len(Defaults)
  /\ zpres >= Pres0 /\ cap >= Pres0
  /\ pix \in Nat /\ prz \in Nat
  /\ bix \in Nat /\ bsz \in Nat
  /\ stdout \in BOOLEAN
  /\ pc = "push" => pi \in 1..Len(pres)+1
  /\ pc \in {"idle", "push", "prefix", "room", "put", "done", "wild_pres", "wild_buf"}
  /\ Len(fed) <= MaxCalls /\ inp \in 1..MaxInputs
  /\ lost \subseteq DOMAIN fed /\ gone \subseteq {0} \cup DOMAIN fed

\* What is on standard output, or will be when the buffer is flushed.
Stream == IF pc = "done" THEN out ELSE out \o buf
StmtOf(l)   == fed[l.no].stmt
IsStmt(l)   == l.no # 0 /\ ~IsDirective(StmtOf(l))
Closed(s)   == \A j \in DOMAIN s : s[j] = "<" => First(s, ">", j) # 0
Short(tab)  == \A i \in DOMAIN tab : Len(tab[i].prfx) <= Len(tab[i].puri)

\* In place the IRIs are rewritten as they would be elsewhere, several of them in a
\* statement and up to the last byte of the buffer, as long as no prefix is longer
\* than its URI and every known URI has its > (ttl-prefixify.c:140-191).
InPlaceExact ==
  \A k \in DOMAIN buf :
    LET l == buf[k]
    IN  IsStmt(l) /\ Short(l.tab) /\ Closed(StmtOf(l))
          => l.text = <<"\n">> \o Substituted(l.tab, StmtOf(l)) \o <<"\n">>

\* The prefix b is what its name stands for after these lines.
InForce(lines, b) ==
  \E i \in DOMAIN lines :
    /\ Declares(lines[i].text) /\ Binding(lines[i].text) = b
    /\ \A h \in i+1..Len(lines) :
         Declares(lines[h].text) => Binding(lines[h].text).prfx # b.prfx

\* Whatever is substituted in a statement has been declared on standard output
\* before it, with that URI.  A failed allocation is survived: a prefix whose
\* directive was dropped is declared with all others, because the buffer starts
\* anew; a second one may cut these declarations short (ttl-prefixify.c:347-400).
Survivable == gone = {} /\ Cardinality(lost) <= 1
Declared ==
  Survivable =>
    \A k \in DOMAIN Stream :
      IsStmt(Stream[k]) =>
        \A i \in DOMAIN Stream[k].tab : InForce(SubSeq(Stream, 1, k - 1), Stream[k].tab[i])

\* A name that a statement uses stands for what it does in the input: the directive
\* that declares it was copied, or skipped for one that is the same, and nothing in
\* between redefines it.  A name that is defined twice, or that is a default one's,
\* keeps its first URI (ttl-prefixify.c:247-263).
Undisputed(b) ==
  /\ \A i \in DOMAIN Defaults : Defaults[i].prfx = b.prfx => Defaults[i] = b
  /\ \A n \in DOMAIN fed : LET s == fed[n].stmt
                           IN  Declares(s) /\ Binding(s).prfx = b.prfx => Binding(s) = b
NamesKept ==
  Survivable =>
    \A k \in DOMAIN Stream : IsStmt(Stream[k]) =>
      \A n \in 1..Stream[k].no-1 :
        LET s == fed[n].stmt
        IN  Declares(s) /\ n \notin lost /\ Undisputed(Binding(s))
              => InForce(SubSeq(Stream, 1, k - 1), Binding(s))

\* Each statement that was not dropped is in the output once, and in order, however
\* the buffer was flushed and grown; from the second input on nothing is, for
\* standard output is closed (ttl-prefixify.c:330-334, :387-417).
Through == {n \in DOMAIN fed : n < Len(fed) \/ pc \in {"idle", "done"}}
OnceAndInOrder ==
  LET put == {k \in DOMAIN Stream : IsStmt(Stream[k])}
  IN  /\ \A k, h \in put : k < h => Stream[k].no < Stream[h].no
      /\ pc # "wild_buf" =>
           {n \in Through : ~IsDirective(fed[n].stmt)} \ (lost \cup gone)
             = {Stream[k].no : k \in put}

\* No write ends past the end of the table during the first input, nor past the end
\* of the buffer as long as the prefixes are short and memory can be had: each of
\* them is measured with what is in there already.  Later inputs have a table that
\* is smaller than zpres says (ttl-prefixify.c:212, :282-301, :355-417).
WritesInBounds ==
  /\ pc = "wild_pres" => inp > 1 /\ zpres > cap
  /\ pc = "wild_buf"  => lost # {} \/ ~Short(pres)

===========================================================================
