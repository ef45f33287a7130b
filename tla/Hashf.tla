------------------------------- MODULE Hashf ------------------------------
(***************************************************************************)
(* hashf: the XXH3 hash of each FILE, of one byte of each read or, with    *)
(* --stride, of what is read at the start of each stride.  The size of the *)
(* file is the seed.  Bytes and words are those of Xxh3.                   *)
(***************************************************************************)
EXTENDS Xxh3

CONSTANTS Strides,      \* what --stride may say: [n |-> number, suffix |-> character]
          Sizes,        \* of files
          Hiccups,      \* bounds the reads that are short or fail
          Kilo,         \* what a suffix multiplies by, 1024 in the code
          Bufsz         \* sizeof(B)

READ   == BufferSize    \* 256 bytes, like the buffer of the state
Shorts == {1, 20}

ASSUME HashfAssumption ==
  /\ Sizes \subseteq Nat /\ Hiccups \in Nat /\ Kilo \in Nat \ {0}
  /\ Bufsz \in Nat /\ Bufsz >= READ /\ Bufsz % READ = 0
  /\ \A s \in Strides : s.n \in Nat

\* What is in a file, from its first byte on; and what is in memory nobody wrote to.
Content(l) == [k \in 1..l |-> (k * k + 3 * k + k \div 7) % 16]
Unwritten == [k \in 1..Bufsz |-> 14]

VARIABLES pc, files, name, len, stride, out, rc, st, foreign, B, pos, fz, strd, i, stp, Z, nrd, fed, left
\* files: those to come; name: the one that is read (0: standard input), of len bytes;
\* pos: where its descriptor stands.  Histories: fed, the bytes that
\* were hashed; foreign, whether st was found with the seed fz but not left by hash1;
\* left, the hiccups that may still happen.
vars == <<pc, files, name, len, stride, out, rc, st, foreign, B, pos, fz, strd, i, stp, Z, nrd,
          fed, left>>
main == <<files, stride, out, rc>>
state == <<st, foreign, fed>>
desc == <<pos, left>>
loop == <<i, stp, Z, nrd>>

\* Each suffix falls through to the ones before it.
StrideLength(s) ==
  CASE s.suffix \in {"t", "T"} -> s.n * Kilo * Kilo * Kilo * Kilo
    [] s.suffix \in {"g", "G"} -> s.n * Kilo * Kilo * Kilo
    [] s.suffix \in {"m", "M"} -> s.n * Kilo * Kilo
    [] s.suffix \in {"k", "K"} -> s.n * Kilo
    [] OTHER -> s.n
IsPercent(s) == s.suffix = "%" /\ s.n > 0
\* The stride for a file of z bytes.
StrideFor(s, z) == IF IsPercent(s) THEN (z * 100) \div StrideLength(s) ELSE StrideLength(s)

Init ==
  /\ stride \in Strides
  /\ files \in {<<0>>, <<1>>, <<1, 2>>}
  /\ pc = "main" /\ name = 0 /\ len = 0 /\ out = <<>> /\ rc = 0
  /\ st = Garbage(0) /\ foreign = FALSE /\ B = Unwritten
  /\ pos = 0 /\ fz = 0 /\ strd = 0
  /\ i = 0 /\ stp = 0 /\ Z = 0 /\ nrd = 0 /\ fed = <<>> /\ left = Hiccups

---------------------------------------------------------------------------
(* main().                                                                 *)

OpenFails ==
  /\ pc = "main" /\ files # <<>> /\ Head(files) # 0
  /\ files' = Tail(files) /\ rc' = 1
  /\ UNCHANGED <<pc, name, len, stride, out, B, fz, strd, state, desc, loop>>

Strided(s, z) == s >= READ /\ z >= READ

\* The loops of hash1() as they are entered: where the next pass is to go on.
Outer(s, z, n) == IF ~Strided(s, z) THEN "whole" ELSE IF n * s < z THEN "part" ELSE "digest"

\* hash1() starts with what is on its stack: what its last call left there, or not.
Hash1(f, l, z, s) ==
  /\ \E old \in {st, Garbage(z), Garbage(z + 1)} :
       /\ st' = reset_withSeed(old, z)
       /\ foreign' = (z # 0 /\ old.seed = z /\ (old = st => foreign))
  /\ B' = Unwritten
  /\ name' = f /\ len' = l /\ fz' = z /\ strd' = s /\ pos' = 0 /\ fed' = <<>>
  /\ i' = 0 /\ stp' = 0 /\ Z' = 0 /\ nrd' = 0
  /\ pc' = Outer(s, z, 0)

\* fz(): the size of the file, or 0 when fstat() fails.
SizesOf(l) == {l, 0}

OpenFile ==
  /\ pc = "main" /\ files # <<>> /\ Head(files) # 0
  /\ \E l \in Sizes : \E z \in SizesOf(l) :
       Hash1(Head(files), l, z, StrideFor(stride, z))
  /\ files' = Tail(files)
  /\ UNCHANGED <<stride, out, rc, left>>

Stdin ==
  /\ pc = "main" /\ files # <<>> /\ Head(files) = 0
  /\ \E l \in Sizes : Hash1(0, l, 0, 0)
  /\ files' = Tail(files)
  /\ UNCHANGED <<stride, out, rc, left>>

Exit ==
  /\ pc = "main" /\ files = <<>>
  /\ pc' = "done"
  /\ UNCHANGED <<name, len, B, fz, strd, main, state, desc, loop>>

---------------------------------------------------------------------------
(* read(): into B from p on, as much as was asked for and is there.  It    *)
(* may be less, and it may fail (-1), as long as there are hiccups left.   *)

Least(a, b) == IF a <= b THEN a ELSE b
Full(asked)   == Least(asked, Max({0, len - pos}))
Results(asked) == {Full(asked)} \cup
                  (IF left = 0 THEN {} ELSE {-1} \cup {n \in Shorts : n < Full(asked)})
Received(p, n) == [k \in DOMAIN B |-> IF k \in p+1..p+n THEN Content(len)[pos + k - p] ELSE B[k]]

Read(p, asked, n) ==
  /\ n \in Results(asked)
  /\ left' = IF n = Full(asked) THEN left ELSE left - 1
  /\ IF n > 0 THEN B' = Received(p, n) /\ pos' = pos + n ELSE UNCHANGED <<B, pos>>

---------------------------------------------------------------------------
(* hash1().                                                                *)

Updated(bytes) == st' = update(st, bytes) /\ fed' = fed \o bytes

\* nrd is not the number of bytes but whether there are any.
ReadWhole ==
  /\ pc = "whole"
  /\ \E n \in Results(Bufsz) :
       /\ Read(0, Bufsz, n)
       /\ nrd' = IF n > 0 THEN 1 ELSE 0
       /\ IF n > 0 THEN pc' = pc /\ Updated(Window(B', 0, 1))
                   ELSE pc' = "digest" /\ UNCHANGED <<st, fed>>
  /\ UNCHANGED <<name, len, foreign, fz, strd, i, stp, Z, main>>

\* Mutant: it asks for a whole part again after a short read.
ReadPartWhole ==
  /\ pc = "part" /\ stp < READ
  /\ \E n \in Results(READ) :
       /\ Read(Z + stp, READ, n)
       /\ nrd' = n
       /\ IF n > 0 THEN stp' = stp + n /\ pc' = pc ELSE stp' = stp /\ pc' = "seek"
  /\ UNCHANGED <<name, len, fz, strd, i, Z, main, state>>

\* A pass of the for loop that has something to read.
ReadPart ==
  /\ pc = "part" /\ stp < READ
  /\ \E n \in Results(READ - stp) :
       /\ Read(Z + stp, READ - stp, n)
       /\ nrd' = n
       /\ IF n > 0 THEN stp' = stp + n /\ pc' = pc ELSE stp' = stp /\ pc' = "seek"
  /\ UNCHANGED <<name, len, fz, strd, i, Z, main, state>>

\* Mutant: the stride is counted from where the part ends.
EndPartRelative ==
  /\ pc = "seek" \/ (pc = "part" /\ stp = READ)
  /\ i' = i + 1 /\ pos' = pos + i' * strd /\ Z' = Z + stp /\ stp' = 0
  /\ IF Z' < Bufsz /\ nrd > 0 THEN pc' = "part" ELSE pc' = "update"
  /\ UNCHANGED <<name, len, B, fz, strd, nrd, left, main, state>>

\* Mutant: the buffer is full one part later.
EndPartLate ==
  /\ pc = "seek" \/ (pc = "part" /\ stp = READ)
  /\ i' = i + 1 /\ pos' = i' * strd /\ Z' = Z + stp /\ stp' = 0
  /\ IF Z' <= Bufsz /\ nrd > 0 THEN pc' = "part" ELSE pc' = "update"
  /\ UNCHANGED <<name, len, B, fz, strd, nrd, left, main, state>>

\* Mutant: a part in which the file ends is waited for.
EndPartWaits ==
  /\ pc = "seek" \/ (pc = "part" /\ stp = READ)
  /\ i' = (IF nrd > 0 THEN i + 1 ELSE i) /\ pos' = i' * strd /\ stp' = 0
  /\ Z' = (IF nrd = 0 THEN Z ELSE Z + stp)
  /\ IF Z' < Bufsz /\ nrd >= 0 THEN pc' = "part" ELSE pc' = "update"
  /\ UNCHANGED <<name, len, B, fz, strd, nrd, left, main, state>>

\* The for loop is over: on to the next stride, and to the next part if this one was
\* not the last and there is room for it.
EndPart ==
  /\ pc = "seek" \/ (pc = "part" /\ stp = READ)
  /\ i' = i + 1 /\ pos' = i' * strd /\ Z' = Z + stp /\ stp' = 0
  /\ IF Z' < Bufsz /\ nrd > 0 THEN pc' = "part" ELSE pc' = "update"
  /\ UNCHANGED <<name, len, B, fz, strd, nrd, left, main, state>>

Update ==
  /\ pc = "update"
  /\ Updated(Window(B, 0, Z))
  /\ Z' = 0 /\ pc' = Outer(strd, fz, i)
  /\ UNCHANGED <<name, len, foreign, B, fz, strd, i, stp, nrd, desc, main>>

\* The high half is printed first; the digits overwrite B.
Digest ==
  /\ pc = "digest"
  /\ out' = Append(out, LET h == digest(st) IN [name |-> name, hash |-> <<h.high64, h.low64>>])
  /\ B' = Unwritten /\ pc' = "main"
  /\ UNCHANGED <<files, name, len, stride, rc, fz, strd, state, desc, loop>>

Stopped == pc = "done" /\ UNCHANGED vars

Next ==
  \/ OpenFails \/ OpenFile \/ Stdin \/ Exit
  \/ ReadWhole \/ ReadPart \/ EndPart \/ Update \/ Digest
  \/ Stopped

Spec == Init /\ [][Next]_vars
\* The program runs as long as it is not done: WF_vars(Next), since it always has a
\* step to take, in a form that TLC need not compute hashes for to see what is enabled.
FairSpec == Spec /\ ([]<>(pc = "done") \/ []<><<Next>>_vars)

---------------------------------------------------------------------------
Hashing == pc \in {"whole", "part", "seek", "update", "digest"}

\* The state has its types; what is read goes to places of B.
TypeOK ==
  /\ pc \in {"main", "whole", "part", "seek", "update", "digest", "done"}
  /\ rc \in {0, 1} /\ nrd \in -1..Bufsz /\ left \in 0..Hiccups
  /\ fz \in Sizes \cup {0} /\ strd \in Nat /\ pos \in Nat /\ i \in Nat
  /\ stp \in 0..READ /\ Z \in 0..Bufsz /\ B \in [1..Bufsz -> Half]

\* The library's assertions hold, nothing is copied past the end of the state's
\* buffer, and the parts that are collected between two updates fit into B
\* (hashf.c:99-105, xxhash.h:4595-4706).
InBounds == ~st.bad /\ Z + stp <= Bufsz

\* Whenever the hash is asked for, it is the one-shot hash of the bytes that were
\* handed over (hashf.c:90-108), whatever the state was before its reset and however
\* the bytes were cut; only that a secret that happens to lie under the right seed in
\* memory that nobody initialised (hashf.c:86, xxhash.h:1008-1017) is taken for the
\* seed's own.
StreamExact ==
  Hashing => digest(st) = IF foreign /\ Len(fed) > MidsizeMax
                            THEN hashLong_128b(fed, Garbage(fz).customSecret)
                            ELSE withSeed128(fed, fz)

\* The first READ bytes of each stride of a file of the given length.
Heads(l, s) ==
  FlattenSeq([k \in 1..(l + s - 1) \div s |->
                Window(Content(l), (k - 1) * s, Least(READ, l - (k - 1) * s))])

\* When a file has been read without a hiccup, what was hashed is the start of each of
\* its strides, all of them and in order, the short last one included (hashf.c:95-107);
\* or, without strides, the first byte of each buffer (hashf.c:92-94).
PartsHashed ==
  pc = "digest" /\ left = Hiccups =>
    fed = IF Strided(strd, fz) THEN Heads(len, strd)
          ELSE [k \in 1..(len + Bufsz - 1) \div Bufsz |->
                  Content(len)[(k - 1) * Bufsz + 1]]

\* All files are done with in the end, whatever the strides, and although a part that
\* cannot be read does not end the loop (hashf.c:96-106).  Fairness: the program runs.
HashfTerminates == <>(pc = "done")

===========================================================================
