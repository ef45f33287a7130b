--------------------------- MODULE PrefixSubst ----------------------------
(***************************************************************************)
(* subst() of ttl-prefixify: in the buffer that a statement has just been  *)
(* copied to, each <IRI> that begins with the URI of a known prefix is     *)
(* replaced by the prefixed name, in place and from left to right.  sp is  *)
(* where the search for the next < goes on, cp what is still to be moved   *)
(* (0 for NULL), pp where it is moved to.                                  *)
(*                                                                         *)
(* A prefix table is a sequence of [prfx, puri], a text a sequence of      *)
(* characters; Nul ends it in memory.                                      *)
(***************************************************************************)
EXTENDS Integers, Sequences, FiniteSetsExt

Nul == ""
Char   == STRING \ {Nul}
Prefix == [prfx : Seq(Char), puri : Seq(Char \ {">"})]

\* memmove(), memcpy(): what would go past the end of mem is cut off; Rewrite
\* remembers it in far.
Move(mem, dst, src, n) ==
  [x \in DOMAIN mem |-> IF x \in dst..dst+n-1 THEN mem[x - dst + src] ELSE mem[x]]
Copy(mem, dst, s) ==
  [x \in DOMAIN mem |-> IF x \in dst..dst+Len(s)-1 THEN s[x - dst + 1] ELSE mem[x]]

\* memcmp() of the URI of a prefix with what is at j, and the first that agrees.
At(mem, j, puri) ==
  j + Len(puri) - 1 <= Len(mem) /\ SubSeq(mem, j, j + Len(puri) - 1) = puri
Known(tab, mem, j) == {i \in DOMAIN tab : At(mem, j, tab[i].puri)}

\* The > that strchr() finds from j on; {} if there is none.
Closing(mem, j) ==
  LET ends == {e \in j..Len(mem) : mem[e] \in {">", Nul}}
  IN  IF ends # {} /\ mem[Min(ends)] = ">" THEN {Min(ends)} ELSE {}

\* Mutant: the text between two IRIs is not moved.
RewriteShort(a, j, e, p) ==
  LET pp1 == IF a.cp = 0 THEN j ELSE a.pp
      m2  == Copy(a.mem, pp1, p.prfx \o <<":">>)
      pp2 == pp1 + Len(p.prfx) + 1
      val == j + 1 + Len(p.puri)
      m3  == Move(m2, pp2, val, e - val)
  IN  [a EXCEPT !.mem = m3, !.sp = e + 1, !.cp = e + 1, !.pp = pp2 + e - val]

\* One <...> at j, with the prefix p, up to the > at e.  The text between the
\* last one and this goes first, then the prefix, then the rest of the IRI.
Rewrite(a, j, e, p) ==
  LET m1  == IF a.cp = 0 THEN a.mem ELSE Move(a.mem, a.pp, a.cp, j - a.cp)
      pp1 == IF a.cp = 0 THEN j ELSE a.pp + j - a.cp
      m2  == Copy(m1, pp1, p.prfx \o <<":">>)
      pp2 == pp1 + Len(p.prfx) + 1
      val == j + 1 + Len(p.puri)
      m3  == Move(m2, pp2, val, e - val)
  IN  [a EXCEPT !.mem = m3, !.sp = e + 1, !.cp = e + 1, !.pp = pp2 + e - val,
                !.far = @ \/ pp2 + e - val - 1 > Len(a.mem)]

\* The search has come to j.  A known URI without a > makes subst() return 0.
Look(tab, a, j) ==
  IF j < a.sp \/ a.none THEN a
  ELSE IF a.mem[j] = Nul THEN [a EXCEPT !.sp = Len(a.mem) + 1]
  ELSE LET K == Known(tab, a.mem, j + 1)
       IN  IF a.mem[j] # "<" \/ K = {} THEN a
           ELSE IF Closing(a.mem, j + 1) = {} THEN [a EXCEPT !.none = TRUE]
           ELSE Rewrite(a, j, Min(Closing(a.mem, j + 1)), tab[Min(K)])

\* What the search has come to, at each place of mem.
Searched(tab, mem) ==
  LET a[j \in 0..Len(mem)] ==
        IF j = 0 THEN [mem |-> mem, sp |-> 1, cp |-> 0, pp |-> 0,
                       none |-> FALSE, far |-> FALSE]
                 ELSE Look(tab, a[j-1], j)
  IN  a

\* subst() of the text s with that much room in the buffer: what is left in the
\* place of s, and whether anything went past the end.
Loaded(s, room) == [x \in 1..room |-> IF x <= Len(s) THEN s[x] ELSE Nul]
subst(tab, s, room) ==
  LET a    == Searched(tab, Loaded(s, room))[room]
      rest == Len(s) + 1 - a.cp
      len  == IF a.none THEN 0 ELSE IF a.cp = 0 THEN Len(s) ELSE a.pp + rest - 1
      last == IF a.none \/ a.cp = 0 THEN a.mem ELSE Move(a.mem, a.pp, a.cp, rest)
  IN  [text |-> SubSeq(last, 1, IF len <= room THEN len ELSE room),
       far  |-> a.far \/ len >= room]

---------------------------------------------------------------------------
(* What it is for: the same, not in place.                                 *)

\* The IRI at j, from < to >, is to be replaced, with the first prefix that fits.
Replaced(tab, s, j) == s[j] = "<" /\ Known(tab, s, j + 1) # {} /\ Closing(s, j + 1) # {}
End(s, j)           == Min(Closing(s, j + 1))
Named(tab, s, j) ==
  LET p == tab[Min(Known(tab, s, j + 1))]
  IN  p.prfx \o <<":">> \o SubSeq(s, j + 1 + Len(p.puri), End(s, j) - 1)

\* What becomes of the text from each place on.
SubstitutedFrom(tab, s) ==
  LET from[j \in 1..Len(s)+1] ==
        IF j > Len(s) THEN <<>>
        ELSE IF Replaced(tab, s, j) THEN Named(tab, s, j) \o from[End(s, j) + 1]
                                    ELSE <<s[j]>> \o from[j+1]
  IN  from
Substituted(tab, s) == SubstitutedFrom(tab, s)[1]

===========================================================================
