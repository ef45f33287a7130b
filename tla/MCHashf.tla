------------------------------ MODULE MCHashf -----------------------------
(***************************************************************************)
(* Files around the sizes where hashf and XXH3 change their ways: no byte, *)
(* one part, several buffers.  A stride of 32 bytes leaves nothing out; 3% *)
(* of a file is a stride of 33 times its size, 300% one of a third.        *)
(* The parts of the library that are functions are compared with one       *)
(* another by assumptions that TLC evaluates before it starts.             *)
(***************************************************************************)
EXTENDS Hashf

MCStrides == {[n |-> 0, suffix |-> ""], [n |-> 32, suffix |-> "x"], [n |-> 21, suffix |-> "k"],
              [n |-> 9, suffix |-> "M"], [n |-> 3, suffix |-> "%"], [n |-> 300, suffix |-> "%"],
              [n |-> 0, suffix |-> "%"]}

---------------------------------------------------------------------------
Patterns(n) == {[k \in 1..n |-> (a * k * k + b * k + k \div 3) % 16] : a \in {0, 3}, b \in {1, 6}}
               \cup {[k \in 1..n |-> 15]}
Accs == {InitAcc, [k \in 1..AccNb |-> 255], [k \in 1..AccNb |-> (k * 77) % 256]}

ASSUME LanesAssumption == UnitsAgree(Accs, Patterns(StripeLen), {0, 1, 16, 77, 255})
ASSUME ProductAssumption == ProductExact

Cuts == {0, 1, 15, 16, 17, 24, 25, 31, 32, 33, 48, 63, 64, 65, 80, 96, 128, 129, 145}
Secrets == {kSecret, SubSeq(kSecret, 1, 28), SubSeq(kSecret, 1, SecretMin)}
ASSUME StreamAssumption == StreamsAgree(Content(145), Secrets, Cuts)

\* XXH32 and XXH64.
Old == INSTANCE XxhStream
ASSUME OldAssumption ==
  /\ Old!SwitchIsLoop /\ Old!PiecesAreBytes
  /\ Old!Streams32({0, 1, 2, 3, 4, 12, 15, 16, 17, 31, 32, 33, 35, 47, 48, 49, 63, 64, 65})
  /\ Old!Streams64({0, 1, 3, 4, 7, 8, 9, 12, 31, 32, 33, 37, 63, 64, 65, 68, 95, 96, 97})

Memory == INSTANCE XxhMemory
ASSUME MemoryAssumption ==
  /\ Memory!ReadsAgree({<<1, 2>>, <<0, 0, 0, 1>>, <<1, 2, 3, 4>>, <<1, 2, 3, 4, 5, 6, 7, 8>>})
  /\ Memory!CanonicalOrder({<<a, b>> : a \in {0, 1, 15}, b \in {0, 1, 7, 15}})
  /\ Memory!AlignedFits(0..300, {8, 16, 32, 64, 128}, 100)

Brief == INSTANCE Xxh3Short
ASSUME BriefAssumption ==
  /\ Brief!AllBytesRead(Brief!Reads64) /\ Brief!AllBytesRead(Brief!Reads128)
  /\ Brief!SecretOnce(Brief!Reads64) /\ Brief!SecretOnce(Brief!Reads128)
  /\ Brief!UpperWordExact
  /\ Brief!SeedsRepeat({1, 2, 3, 7, 8, 16, 95, 96, 97, 200})

===========================================================================
