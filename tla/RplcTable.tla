----------------------------- MODULE RplcTable ----------------------------
(***************************************************************************)
(* The names of @PREFIX objects as metarap keeps them: one string, rplc,   *)
(* in which each name is preceded by an @ and padded with NULs up to the   *)
(* next word.  The index of the word that a name starts in is its slot.    *)
(*                                                                         *)
(* A text is a sequence of characters, a character is a number.            *)
(***************************************************************************)
EXTENDS Integers, Sequences, FiniteSetsExt, Words

CONSTANT WordSize  \* sizeof(size_t)

ASSUME WordAssumption == WordSize \in Nat /\ WordSize > 1

Nul == 0
At  == 64
Bytes(s) == \A k \in 1..Len(s) : s[k] \in Word

\* The text of n characters of s that starts at p.
Window(s, p, n) == SubSeq(s, p, p + n - 1)

\* Where ndl is in hay: the positions of a hit, {} if there is none.
Hits(hay, ndl) == {p \in 1..Len(hay) - Len(ndl) + 1 : Window(hay, p, Len(ndl)) = ndl}
Least(S) == IF S = {} THEN {} ELSE {Min(S)}

---------------------------------------------------------------------------
\* The sum that the search of xmemmem() updates as it goes.
XorSum(s) == LET f[i \in 0..Len(s)] == IF i = 0 THEN 0 ELSE f[i-1] ^^ s[i] IN f[Len(s)]

\* xmemmem(): the search starts where the needle's first character is.  There the
\* characters are compared, from there on the sums, and if they agree all but the
\* last character.
XMemMem(hay, ndl) ==
  LET n      == Len(ndl)
      starts == Least({p \in DOMAIN hay : hay[p] = ndl[1]})
      Agrees(p) == /\ XorSum(Window(hay, p, n)) = XorSum(ndl)
                   /\ Window(hay, p, n - 1) = SubSeq(ndl, 1, n - 1)
      From(h) == Least({p \in h..Len(hay) - n + 1 :
                          IF p = h THEN Window(hay, p, n) = ndl ELSE Agrees(p)})
  IN  IF ndl = <<>> THEN {1} ELSE UNION {From(h) : h \in starts}

\* It is the search for the first hit.
XMemMemIsSearch(hays, ndls) ==
  \A h \in hays, n \in ndls : XMemMem(h, n) = IF n = <<>> THEN {1} ELSE Least(Hits(h, n))

---------------------------------------------------------------------------
\* Mutant: what follows the name is not looked at.
FindRplcLoose(rplc, name) ==
  {(p - 1) \div WordSize : p \in {p \in XMemMem(rplc, name) : p > 1 /\ rplc[p - 1] = At}}

\* find_rplc(): the slot of the first hit, unless it is a hit inside of another
\* name.  An empty name is found at the start of rplc, and what is before that is
\* the allocator's and no @.
FindRplc(rplc, name) ==
  {(p - 1) \div WordSize : p \in {p \in XMemMem(rplc, name) :
     p > 1 /\ rplc[p - 1] = At /\ rplc[p + Len(name)] = Nul}}

\* The padding that follows a string of n characters.
Pad(n) == WordSize - (n % WordSize)

\* Mutant: the padding does not know of the @.
AddRplcUnaligned(rplc, name) ==
  rplc \o <<At>> \o name \o [k \in 1..Pad(Len(rplc) + Len(name)) |-> Nul]

\* add_rplc(): what rplc becomes.
AddRplc(rplc, name) ==
  rplc \o <<At>> \o name \o [k \in 1..Pad(Len(rplc) + 1 + Len(name)) |-> Nul]

\* while ((z *= 2) < need);
Doubled(z, need) ==
  LET d[y \in 1..need] == IF 2 * y < need THEN d[2 * y] ELSE 2 * y IN d[z]

\* The room for rplc, made before the name is copied there.
RplcRoom(rplc, z, name) ==
  LET need == Len(rplc) + Len(name) + WordSize
  IN  IF need >= z THEN Doubled(z, need) ELSE z

===========================================================================
