------------------------------ MODULE Metarap -----------------------------
(***************************************************************************)
(* metarap: main() reads a FILTER, then the statements of standard input,  *)
(* and writes those whose predicate is a subject of the filter as reified  *)
(* statements, followed by the filter's predicates and objects.  An object *)
(* @NAME[:SUFFIX] of the filter waits, as nul_term, for the input to       *)
(* declare the prefix NAME.  The parser and the serialisers are raptor's:  *)
(* the parser calls a handler for each statement and namespace, in the     *)
(* order of the file, and may give up at any of them.                      *)
(*                                                                         *)
(* beefs[i] is a sequence of pairs, so its nbeefs is twice its length, and *)
(* a slot's cord and cake are one sequence, ent, of coordinates and terms. *)
(***************************************************************************)
EXTENDS RplcTable, SequencesExt

CONSTANTS
  FilterEvents, InputEvents,  \* what the parser may hand over
  MaxFilter, MaxInput,        \* bounds on how often it does
  Rplc0, Cords0, Terms0, Buf0, \* first sizes: 256, 64, 64 and 256 in the code
  Faults  \* what may go wrong: "world": no serialiser or no parser for the format
          \* that is asked for, "filter": FILTER can't be read or is not valid

ASSUME MetarapAssumption ==
  /\ MaxFilter \in Nat /\ MaxInput \in Nat
  /\ {Rplc0, Cords0, Terms0, Buf0} \subseteq Nat \ {0} /\ Rplc0 % WordSize = 0
  /\ Faults \subseteq {"world", "filter"}

\* Raptor's terms, those that are told apart here.
Term == [type : {"uri", "literal"}, str : Seq(Nat)]
ASSUME EventAssumption ==
  \A e \in FilterEvents \cup InputEvents :
    IF e.kind = "ns" THEN e.prefix \in Seq(Nat) /\ e.uri \in Seq(Nat)
    ELSE e.kind = "stmt" /\ e.subj \in Term /\ e.pred \in Term /\ e.obj \in Term
\* Characters are bytes, which is what the sums of xmemmem() are made for.  A prefix is
\* a C string to the parser, and has no NUL.
ASSUME ByteAssumption ==
  \A e \in FilterEvents \cup InputEvents :
    IF e.kind = "ns" THEN Bytes(e.prefix) /\ Nul \notin ToSet(e.prefix) ELSE Bytes(e.obj.str)

VARIABLES
  main,           \* where main() is: "start", "filter", "input", "end",
                  \* or "aborted" by the allocator
  rc,             \* its exit status
  terms, zterms,  \* the subjects of the filter, and the room for them
  beefs, zbeefs,  \* the pairs of each subject, and the room for each
  rplc, zrplc,    \* the names of @ objects
  cords,          \* for each slot: ent, cap (of cord) and sufx
  mem,            \* the buffer of the serialiser whose statements are hashed
  fold,           \* what has been handed to the other one
  far,            \* something was written or sought past the end of its array
  told, heard     \* history: what the filter and the input were, so far

filterVars == <<terms, zterms, beefs, zbeefs>>
rplcVars   == <<rplc, zrplc, cords>>
vars == <<main, rc, filterVars, rplcVars, mem, fold, far, told, heard>>

nul_term == [type |-> "unknown"]
Rdf(n)   == [type |-> "uri", rdf |-> n]
Colon    == 58

Init ==
  /\ main = "start" /\ rc = 0
  /\ terms = <<>> /\ zterms = 0 /\ beefs = <<>> /\ zbeefs = <<>>
  /\ rplc = <<>> /\ zrplc = 0 /\ cords = <<>>
  /\ mem = [s |-> <<>>, z |-> Buf0]
  /\ fold = <<>> /\ far = FALSE /\ told = <<>> /\ heard = <<>>

---------------------------------------------------------------------------
(* The arrays.  Both rules for their growth look at the count alone.       *)

\* realloc() of a list of n numbers that two more go to: !(n & (n + 2)).
PairRoom(n, z) == IF Disjoint(n, n + 2) THEN (n + 2) * 2 ELSE z

\* Slots are counted from 0, cords from 1.
NewSlots(n) == [k \in 1..n |-> [ent |-> <<>>, cap |-> 0, sufx |-> 0]]

\* add_cord(): one more slot than there are makes the tables twice as long, or as
\* long as they are at first; recalloc() clears what is new.
Slots(cs, r) ==
  IF r < Len(cs) THEN cs
  ELSE cs \o NewSlots(IF cs = <<>> THEN Cords0 ELSE Len(cs))

\* Mutant: the longest suffix is forgotten.
WithCordLast(c, i, j, t, sufx) ==
  [ent  |-> Append(c.ent, [i |-> i, j |-> j, proto |-> t]),
   cap  |-> PairRoom(2 * Len(c.ent), c.cap),
   sufx |-> sufx]

WithCord(c, i, j, t, sufx) ==
  [ent  |-> Append(c.ent, [i |-> i, j |-> j, proto |-> t]),
   cap  |-> PairRoom(2 * Len(c.ent), c.cap),
   sufx |-> IF sufx > c.sufx THEN sufx ELSE c.sufx]

---------------------------------------------------------------------------
(* Objects of the filter.                                                  *)

HasText(t) == t.type \in {"uri", "literal"}
IsAtObject(t) == HasText(t) /\ t.str # <<>> /\ t.str[1] = At

\* From the @ to the first colon, or to the end.
Name(t) ==
  LET ends == {p \in 2..Len(t.str) : t.str[p] = Colon} \cup {Len(t.str) + 1}
  IN  SubSeq(t.str, 2, Min(ends) - 1)
\* The characters from the colon on.
Sufx(t) == Len(t.str) - 1 - Len(Name(t))

\* flts() with an @ object, the j-th of its subject i: its name is looked up or
\* registered, and the object moved to the slot.
Registered(i, j, t) ==
  LET known == FindRplc(rplc, Name(t))
      fresh == known = {}
      r     == IF fresh THEN Len(rplc) \div WordSize ELSE CHOOSE x \in known : TRUE
      names == IF fresh THEN AddRplc(rplc, Name(t)) ELSE rplc
      room  == IF fresh THEN RplcRoom(rplc, zrplc, Name(t)) ELSE zrplc
      cs    == Slots(cords, r)
      c     == WithCord(cs[r + 1], i, j, t, Sufx(t))
  IN  [rplc  |-> names,
       zrplc |-> room,
       cords |-> IF r < Len(cs) THEN [cs EXCEPT ![r + 1] = c] ELSE cs,
       far   |-> Len(names) > room \/ (r < Len(cs) => 2 * Len(c.ent) > c.cap)]

\* What flts() leaves in the pairs.
Left(t) == IF IsAtObject(t) THEN nul_term ELSE t

\* flts(): a statement of the filter.  Its subject is looked for among the terms
\* and added; its predicate and object are added to the subject's pairs.
Flts(e) ==
  LET at == {n \in DOMAIN terms : terms[n] = e.subj}
      i  == IF at = {} THEN Len(terms) + 1 ELSE CHOOSE n \in at : TRUE
      bs == IF at = {} THEN Append(beefs, <<>>) ELSE beefs
      zs == IF at = {} THEN Append(zbeefs, 0) ELSE zbeefs
      j  == Len(bs[i]) + 1
      r  == IF IsAtObject(e.obj) THEN Registered(i, j, e.obj)
            ELSE [rplc |-> rplc, zrplc |-> zrplc, cords |-> cords, far |-> FALSE]
  IN  /\ terms'  = IF at = {} THEN Append(terms, e.subj) ELSE terms
      /\ zterms' = IF at = {} /\ Len(terms) >= zterms THEN 2 * zterms ELSE zterms
      /\ beefs'  = [bs EXCEPT ![i] = Append(@, <<e.pred, Left(e.obj)>>)]
      /\ zbeefs' = [zs EXCEPT ![i] = PairRoom(2 * (j - 1), @)]
      /\ rplc' = r.rplc /\ zrplc' = r.zrplc /\ cords' = r.cords
      /\ far' = (r.far \/ Len(terms') > zterms' \/ 2 * j > zbeefs'[i])

\* nmsp(): a namespace of the filter.
Nmsp(e) == fold' = Append(fold, e) /\ UNCHANGED <<filterVars, rplcVars, far>>

---------------------------------------------------------------------------
(* The input.                                                              *)

\* What nscp() makes of an @ object: the URI, and the suffix if a colon follows the
\* name.
Resolved(t, e) ==
  LET n   == Len(e.prefix)
      sfx == IF n < Len(t.str) - 1 /\ t.str[n + 2] = Colon
               THEN SubSeq(t.str, n + 3, Len(t.str)) ELSE <<>>
  IN  [t EXCEPT !.str = e.uri \o sfx]

\* nscp(): a namespace of the input.  The objects that wait for it are resolved, or
\* resolved again.  URI and suffix are put together in an array with room for the
\* longest suffix.  A hit behind the @ in a name may lie beyond the last slot.
Nscp(e) ==
  LET known == FindRplc(rplc, e.prefix)
      r     == CHOOSE x \in known : TRUE
      c     == cords[r + 1]
      to(i, j) == {k \in DOMAIN c.ent : c.ent[k].i = i /\ c.ent[k].j = j}
      new(i, j) == Resolved(c.ent[Max(to(i, j))].proto, e)
  IN  IF known = {} THEN UNCHANGED <<beefs, far>>
      ELSE IF r >= Len(cords) THEN far' = TRUE /\ UNCHANGED beefs
      ELSE /\ beefs' = [i \in DOMAIN beefs |-> [j \in DOMAIN beefs[i] |->
                 IF to(i, j) = {} THEN beefs[i][j] ELSE <<beefs[i][j][1], new(i, j)>>]]
           /\ far' = \E k \in DOMAIN c.ent :
                       Len(Resolved(c.ent[k].proto, e).str) > Len(e.uri) + c.sufx

\* _write_byte() and _write_bytes(): one character comes by itself, strings don't.
Write(b, s) ==
  LET n == Len(b.s) + Len(s)
  IN  [s |-> b.s \o s,
       z |-> IF Len(s) = 1 THEN IF Len(b.s) >= b.z THEN 2 * b.z ELSE b.z
             ELSE IF n >= b.z THEN Doubled(b.z, n) ELSE b.z]

\* Texts that come one after the other.
Written(b, ts) ==
  LET w[k \in 0..Len(ts)] == IF k = 0 THEN b ELSE Write(w[k-1], ts[k]) IN w[Len(ts)]

\* The statement as the serialiser writes it, in pieces; 60 and 62 are < and >,
\* 34 a quote, 10 ends the line.
NTriples(e) ==
  LET text(t) == IF t.type = "uri" THEN <<60>> \o t.str \o <<62>>
                 ELSE <<34>> \o t.str \o <<34>>
  IN  <<text(e.subj), <<32>>, text(e.pred), <<32>>, text(e.obj), <<32, 46>>, <<10>> >>

\* _hash(): the line without its end.  The resource is named after its hash: two
\* texts have different ones here.
Hashed(b) ==
  LET n == Len(b.s)
  IN  [type |-> "uri",
       mmh3 |-> IF n > 0 /\ b.s[n] = 10 THEN SubSeq(b.s, 1, n - 1) ELSE b.s]

\* The members of s that are at the places I, in their order.
Kept(s, I) ==
  LET kept[n \in 0..Len(s)] ==
        IF n = 0 THEN <<>> ELSE IF n \in I THEN Append(kept[n-1], s[n]) ELSE kept[n-1]
  IN  kept[Len(s)]

\* Mutant: the first pair that waits ends the list.
PairsUntil(H, bs) ==
  LET waits == {k \in DOMAIN bs : bs[k][2].type = "unknown"}
  IN  [k \in 1..Min(waits \cup {Len(bs) + 1}) - 1 |-> <<H, bs[k][1], bs[k][2]>>]

\* The pairs of the filter, without those that still wait for a prefix.
Pairs(H, bs) ==
  LET ready == Kept(bs, {k \in DOMAIN bs : bs[k][2].type # "unknown"})
  IN  [k \in DOMAIN ready |-> <<H, ready[k][1], ready[k][2]>>]

\* The statement itself, reified.
Reified(H, e) ==
  << <<H, Rdf("type"), Rdf("Statement")>>, <<H, Rdf("subject"), e.subj>>,
     <<H, Rdf("predicate"), e.pred>>, <<H, Rdf("object"), e.obj>> >>

\* prnt(): a statement of the input, if there is no filter or its predicate is one
\* of the terms.
Prnt(e) ==
  LET at == {n \in DOMAIN terms : terms[n] = e.pred}
      b  == Written(mem, NTriples(e))
      H  == Hashed(b)
  IN  IF terms # <<>> /\ at = {} THEN UNCHANGED <<mem, fold, far>>
      ELSE /\ fold' = fold \o Reified(H, e)
                        \o (IF at = {} THEN <<>> ELSE Pairs(H, beefs[Min(at)]))
           /\ mem' = [s |-> <<>>, z |-> b.z]
           /\ far' = (Len(b.s) > b.z)

---------------------------------------------------------------------------
(* main().                                                                 *)

\* A serialiser for the format, raptor's buffer and, if there is a FILTER, fltr()'s
\* tables; without one the input is next.
Start ==
  /\ main = "start"
  /\ \/ main' = "filter" /\ zterms' = Terms0 /\ zrplc' = Rplc0
     \/ main' = "input" /\ UNCHANGED <<zterms, zrplc>>
  /\ fold' = <<[kind |-> "ns", rdf |-> "rdf"]>>
  /\ UNCHANGED <<rc, terms, beefs, zbeefs, rplc, cords, mem, far, told, heard>>

\* free_rplc(): a slot's terms are half as many as the numbers in its cord, and as
\* many as those are freed.  What comes behind the terms was never written: it may be
\* NULL, which is fine, or anything.
Frees == main' \in {"end"} \cup {"aborted" : c \in {c \in ToSet(cords) : c.ent # <<>>}}

\* A serialiser, a parser or the FILTER that can't be had.
Fails ==
  /\ \/ main \in {"start", "input"} /\ heard = <<>> /\ "world" \in Faults
     \/ main = "filter" /\ "filter" \in Faults
  /\ rc' = 1 /\ Frees
  /\ UNCHANGED <<filterVars, rplcVars, mem, fold, far, told, heard>>

ReadFilter ==
  /\ main = "filter" /\ ~far /\ Len(told) < MaxFilter
  /\ \E e \in FilterEvents :
       /\ told' = Append(told, e)
       /\ IF e.kind = "ns" THEN Nmsp(e) ELSE Flts(e) /\ UNCHANGED fold
  /\ UNCHANGED <<main, rc, mem, heard>>

FilterEnds ==
  /\ main = "filter" /\ ~far
  /\ main' = "input"
  /\ UNCHANGED <<rc, filterVars, rplcVars, mem, fold, far, told, heard>>

ReadInput ==
  /\ main = "input" /\ ~far /\ Len(heard) < MaxInput
  /\ \E e \in InputEvents :
       /\ heard' = Append(heard, e)
       /\ IF e.kind = "ns" THEN Nscp(e) /\ UNCHANGED <<mem, fold>>
                           ELSE Prnt(e) /\ UNCHANGED beefs
  /\ UNCHANGED <<main, rc, terms, zterms, zbeefs, rplcVars, told>>

\* The end of standard input, or an error in it: main() does not ask which.
InputEnds ==
  /\ main = "input" /\ ~far
  /\ Frees
  /\ UNCHANGED <<rc, filterVars, rplcVars, mem, fold, far, told, heard>>

Next == Start \/ Fails \/ ReadFilter \/ FilterEnds \/ ReadInput \/ InputEnds
Spec == Init /\ [][Next]_vars

---------------------------------------------------------------------------
(* Properties.                                                             *)

\* A subject is one of the terms once, and has one list of pairs.
TermsDistinct == IsInjective(terms) /\ Len(beefs) = Len(terms)

\* The coordinates of a slot are those of a pair.
CoordsValid ==
  \A r \in DOMAIN cords : \A k \in DOMAIN cords[r].ent :
    LET c == cords[r].ent[k] IN c.i \in DOMAIN beefs /\ c.j \in DOMAIN beefs[c.i]

TypeOK ==
  /\ main \in {"start", "filter", "input", "end", "aborted"} /\ rc \in {0, 1} /\ far \in BOOLEAN
  /\ TermsDistinct /\ Len(zbeefs) = Len(terms)
  /\ CoordsValid
  /\ {zterms, zrplc, mem.z} \subseteq Nat
  /\ Len(rplc) % WordSize = 0

AtObjects == {told[n].obj : n \in
  {n \in DOMAIN told : told[n].kind = "stmt" /\ IsAtObject(told[n].obj)}}

\* No write leaves the terms, their pairs, the names, the slots, the coordinates of
\* a slot, the text that is hashed or the URI that is put together, however the
\* tables grow (metarap.c:258-279, :370-380, :390-405, :464-468, :589-605).  The
\* slots are doubled once even if a long name skips more of them than there are; and
\* what follows an @ within a name is found as if it had a slot.
Short(name) == Len(name) + 1 + Pad(Len(name) + 1) <= Cords0 * WordSize
NamesPlain  == \A t \in AtObjects : At \notin ToSet(Name(t))
TablesInBounds == (\A t \in AtObjects : Short(Name(t))) /\ NamesPlain => ~far

\* A slot has the objects of one name, the one that is written at the slot, if there is
\* no @ within a name, and no NUL (metarap.c:351-384, :625-642).
NamesEnd == \A t \in AtObjects : Nul \notin ToSet(Name(t))
NameAt(r) ==
  LET p == r * WordSize + 2
  IN  SubSeq(rplc, p, Min({q \in p..Len(rplc) : rplc[q] = Nul}) - 1)
SlotsNamed ==
  NamesPlain /\ NamesEnd =>
    \A r \in DOMAIN cords : \A k \in DOMAIN cords[r].ent :
      Name(cords[r].ent[k].proto) = NameAt(r - 1)

\* What the documentation promises of an object: the latest URI that the input has
\* given the prefix, and nothing before it does.
Given(k, name) == {n \in 1..k-1 : heard[n].kind = "ns" /\ heard[n].prefix = name}
Suffix(t) == SubSeq(t.str, Len(Name(t)) + 3, Len(t.str))
Objects(k, t) ==
  IF ~IsAtObject(t) THEN {t}
  ELSE {[t EXCEPT !.str = heard[n].uri \o Suffix(t)] : n \in
          {n \in Given(k, Name(t)) : \A m \in Given(k, Name(t)) : m <= n}}

\* The statements of the filter about a subject.
About(s) == Kept(told, {n \in DOMAIN told : told[n].kind = "stmt" /\ told[n].subj = s})

\* What the k-th statement of the input becomes.
Output(k) ==
  LET e  == heard[k]
      H  == [type |-> "uri", mmh3 |-> Front(FlattenSeq(NTriples(e)))]
      fs == About(e.pred)
      ready == Kept(fs, {n \in DOMAIN fs : Objects(k, fs[n].obj) # {}})
  IN  IF e.kind = "ns" \/ (fs = <<>> /\ \E n \in DOMAIN told : told[n].kind = "stmt") THEN <<>>
      ELSE Reified(H, e) \o
             [n \in DOMAIN ready |-> <<H, ready[n].pred, CHOOSE o \in Objects(k, ready[n].obj) : TRUE>>]
\* The output that the documentation promises for the input so far.
Expected ==
  <<[kind |-> "ns", rdf |-> "rdf"]>> \o Kept(told, {n \in DOMAIN told : told[n].kind = "ns"})
    \o FlattenSeq([k \in DOMAIN heard |-> Output(k)])

\* find_rplc() looks at the first hit alone: a name that is a part of one that came
\* before is registered anew each time, and never found.  Nor is the empty name.
Mentioned(n) ==
  IF told[n].kind = "stmt" /\ IsAtObject(told[n].obj) THEN {Name(told[n].obj)} ELSE {}
IsHidden(name) ==
  \/ name = <<>>
  \/ \E n \in DOMAIN told : /\ \E m \in Mentioned(n) : Hits(m, name) # {}
                            /\ \A k \in 1..n : name \notin Mentioned(k)
NamesFound == \A t \in AtObjects : ~IsHidden(Name(t))
NamesNonempty == \A t \in AtObjects : Name(t) # <<>>

\* The whole output: each selected statement once and in order, under a resource that
\* is its own, with the filter's pairs in the filter's order and @ objects resolved
\* as of here.  It is for filters that have no @ or NUL in a name, no empty name and no
\* name that is a part of one before it (metarap.c:292-300, :442-573, :575-647).
MetadataExact ==
  main \in {"filter", "input"} /\ ~far /\ NamesPlain /\ NamesEnd /\ NamesFound => fold = Expected

\* The same for any names that are not empty, as metarap.yuck:26-28 promises: an @ object
\* is PREFIX:[SUFFIX] with the @prefix PREFIX of the input.  find_rplc() (metarap.c:351-364)
\* breaks it for a name that is a part of one before it in the filter.
EveryPrefixServed ==
  main \in {"filter", "input"} /\ ~far /\ NamesPlain /\ NamesEnd /\ NamesNonempty => fold = Expected

===========================================================================
