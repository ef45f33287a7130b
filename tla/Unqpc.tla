------------------------------ MODULE Unqpc -------------------------------
(***************************************************************************)
(* unqpc: fold1() reads line after line, and kilpc() decodes the percent   *)
(* sequences of one, in place; with --recursive as often as haspc() still  *)
(* finds one.  What counts as a sequence is written down twice, in haspc() *)
(* and in kilpc(), and --only-printable narrows it.                        *)
(*                                                                         *)
(* A character is its byte, positions count from 1.                        *)
(***************************************************************************)
EXTENDS Integers, Sequences

CONSTANT
  Lines       \* the lines that may be read, without the newline

ASSUME LinesAssumption == \A l \in Lines : l \in Seq(0..255)

VARIABLES
  only_printable, recursive,  \* the flags, f1st = '2' and rcur
  line,       \* the buffer
  nrd,        \* fold1()'s nrd and kilpc()'s z, the length of what is in it
  i, k,       \* kilpc()'s: the next character to read, and to write
  pc,         \* "getline", "haspc", "kilpc", "write" or "done"
  was         \* the line before this round of kilpc()

flags == <<only_printable, recursive>>
unqpcVars == <<flags, line, nrd, i, k, pc, was>>

---------------------------------------------------------------------------
(* Percent sequences.                                                      *)

Percent == 37
f1st == IF only_printable THEN 50 ELSE 48

Upper == 65..70
Lower == 97..102
High(c) == c \in f1st..57 \/ c \in Upper \/ c \in Lower
Low(c)  == c \in 48..57 \/ c \in Upper \/ c \in Lower

\* haspc() takes %FE and %FF for none when only printable ones are asked for,
\* unless the cases of the digits are mixed.
FEorFF(c, d) == \/ c = 70 /\ d \in {69, 70}
                \/ c = 102 /\ d \in {101, 102}

\* Mutants: the second digit is not looked at; it is no small letter.
SequenceLoose(s, z, j) ==
  /\ j + 2 <= z
  /\ s[j] = Percent /\ High(s[j+1])
  /\ ~(only_printable /\ FEorFF(s[j+1], s[j+2]))

SequenceUpper(s, z, j) ==
  /\ j + 2 <= z
  /\ s[j] = Percent /\ High(s[j+1]) /\ Low(s[j+2]) /\ s[j+2] \notin Lower
  /\ ~(only_printable /\ FEorFF(s[j+1], s[j+2]))

Sequence(s, z, j) ==
  /\ j + 2 <= z
  /\ s[j] = Percent /\ High(s[j+1]) /\ Low(s[j+2])
  /\ ~(only_printable /\ FEorFF(s[j+1], s[j+2]))

\* haspc(): what rules a sequence out is looked at again, so that it misses none.
haspc(s, z) == \E j \in 1..z : Sequence(s, z, j)

\* What kilpc() decodes.
Decodable(s, z, j) ==
  /\ j + 2 <= z
  /\ s[j] = Percent /\ High(s[j+1]) /\ Low(s[j+2])

Hex(c) == IF c \in Upper THEN c - 55 ELSE IF c \in Lower THEN c - 87 ELSE c - 48
Byte(s, j) == 16 * Hex(s[j+1]) + Hex(s[j+2])

---------------------------------------------------------------------------
Init ==
  /\ only_printable \in BOOLEAN /\ recursive \in BOOLEAN
  /\ line = <<>> /\ nrd = 0 /\ i = 1 /\ k = 1
  /\ pc = "getline"
  /\ was = <<>>

\* getline(): any line, or the end of the input.
Getline ==
  /\ pc = "getline"
  /\ \E l \in Lines : line' = l /\ nrd' = Len(l)
  /\ pc' = "haspc"
  /\ UNCHANGED <<flags, i, k, was>>

Eof ==
  /\ pc = "getline"
  /\ pc' = "done"
  /\ UNCHANGED <<flags, line, nrd, i, k, was>>

Enter == i' = 1 /\ k' = 1 /\ was' = SubSeq(line', 1, nrd')

Haspc ==
  /\ pc = "haspc"
  /\ IF haspc(line, nrd)
     THEN pc' = "kilpc" /\ UNCHANGED <<line, nrd>> /\ Enter
     ELSE pc' = "write" /\ UNCHANGED <<line, nrd, i, k, was>>
  /\ UNCHANGED flags

\* kilpc(): a character that begins no sequence moves to the front, a % among them.
Copy ==
  /\ pc = "kilpc" /\ i <= nrd
  /\ ~Decodable(line, nrd, i)
  /\ line' = [line EXCEPT ![k] = line[i]]
  /\ i' = i + 1 /\ k' = k + 1
  /\ UNCHANGED <<flags, nrd, pc, was>>

\* Mutants: a character too many is skipped; the last digit is not.
DecodeLong ==
  /\ pc = "kilpc"
  /\ Decodable(line, nrd, i)
  /\ line' = [line EXCEPT ![k] = Byte(line, i)]
  /\ i' = i + 5 /\ k' = k + 1
  /\ UNCHANGED <<flags, nrd, pc, was>>

DecodeShort ==
  /\ pc = "kilpc"
  /\ Decodable(line, nrd, i)
  /\ line' = [line EXCEPT ![k] = Byte(line, i)]
  /\ i' = i + 2 /\ k' = k + 1
  /\ UNCHANGED <<flags, nrd, pc, was>>

Decode ==
  /\ pc = "kilpc"
  /\ Decodable(line, nrd, i)
  /\ line' = [line EXCEPT ![k] = Byte(line, i)]
  /\ i' = i + 3 /\ k' = k + 1
  /\ UNCHANGED <<flags, nrd, pc, was>>

\* kilpc() returns, and fold1() has it decode once more, or not.
Return ==
  /\ pc = "kilpc" /\ i > nrd
  /\ nrd' = k - 1
  /\ UNCHANGED <<flags, line>>
  /\ IF recursive /\ haspc(line, k - 1)
     THEN pc' = "kilpc" /\ Enter
     ELSE pc' = "write" /\ UNCHANGED <<i, k, was>>

Write ==
  /\ pc = "write"
  /\ pc' = "getline"
  /\ line' = <<>> /\ nrd' = 0 /\ i' = 1 /\ k' = 1 /\ was' = <<>>
  /\ UNCHANGED flags

Done == pc = "done" /\ UNCHANGED unqpcVars

Step == Haspc \/ Copy \/ Decode \/ Return \/ Write
Next == Getline \/ Eof \/ Step \/ Done

\* The program keeps running; the input may keep it waiting.
Spec == Init /\ [][Next]_unqpcVars /\ WF_unqpcVars(Step)

---------------------------------------------------------------------------
(* Properties.                                                             *)

TypeOK ==
  /\ only_printable \in BOOLEAN /\ recursive \in BOOLEAN
  /\ line \in Seq(0..255) /\ was \in Seq(0..255)
  /\ nrd \in 0..Len(line)
  /\ i \in 1..Len(line)+1 /\ k \in 1..i
  /\ pc \in {"getline", "haspc", "kilpc", "write", "done"}

\* A line with its sequences decoded, from left to right, once; and what that is from
\* each of its characters on.
DecodedFrom(s) ==
  LET z == Len(s)
      from[j \in 1..z+1] ==
        IF j > z THEN <<>>
        ELSE IF Decodable(s, z, j) THEN <<Byte(s, j)>> \o from[j+3]
                                   ELSE <<s[j]>> \o from[j+1]
  IN  from
Decoded(s) == DecodedFrom(s)[1]

\* Decoding in place does not overtake itself: what has been written and what is
\* still to be read make up the decoded line, although kilpc() writes to the
\* buffer that it reads from (unqpc.c:97-119).
InPlace ==
  pc = "kilpc" =>
    SubSeq(line, 1, k - 1) \o Decoded(SubSeq(line, i, nrd)) = Decoded(was)

\* With --recursive there is nothing left to decode: what haspc() overlooks
\* kilpc() would not decode either (unqpc.c:130-132).
NothingLeft ==
  pc = "write" /\ recursive /\ ~only_printable =>
    LET l == SubSeq(line, 1, nrd) IN Decoded(l) = l

\* Each line is written in the end: what haspc() finds kilpc() decodes, so that
\* the line gets shorter with every round (unqpc.c:130-132).
EveryLineWritten == pc = "haspc" ~> pc = "getline"

===========================================================================
