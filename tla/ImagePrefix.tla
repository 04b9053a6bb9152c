---------------------------- MODULE ImagePrefix -----------------------------
(***************************************************************************)
(* What an output image and its resume state promise together: `claim`     *)
(* blocks from the start are settled, that is, hold the volume's data or   *)
(* are known to be given up.  Blocks are settled and torn one at a time;   *)
(* the claim moves to any point the settled blocks reach; and only when    *)
(* the image is started over, the claim with it, can a claimed block come  *)
(* undone.                                                                 *)
(***************************************************************************)
EXTENDS Naturals

CONSTANT N

Blocks == 0 .. N - 1

VARIABLES
  settled,  \* the blocks of the image that are accounted for
  claim     \* how many blocks from the start the state file vouches for

avars == <<settled, claim>>

Reaches(k) == \A b \in Blocks : b < k => b \in settled'

Init == settled \subseteq Blocks /\ claim = 0

\* The image is created, or the claim on it is given up.
StartOver ==
  /\ settled' \in SUBSET Blocks
  /\ claim' = 0

\* One block is accounted for, and the claim may follow.
SettleBlock ==
  /\ \E b \in Blocks : settled' = settled \cup {b}
  /\ claim' \in 0 .. N
  /\ claim' # claim => Reaches(claim')

\* A block past the claim is cut short.
Tear ==
  /\ \E b \in Blocks : b >= claim /\ settled' = settled \ {b}
  /\ UNCHANGED claim

\* The claim is moved, to no further than the settled blocks reach.
Claim ==
  /\ UNCHANGED settled
  /\ claim' \in 0 .. N
  /\ Reaches(claim')

Next == StartOver \/ SettleBlock \/ Tear \/ Claim

Spec == Init /\ [][Next]_avars

=============================================================================
