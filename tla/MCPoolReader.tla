---------------------------- MODULE MCPoolReader ----------------------------
(***************************************************************************)
(* An instance of PoolReader: two members and four small volumes.          *)
(***************************************************************************)
EXTENDS PoolReader

CONSTANTS d1, d2

Cand(d, a) == [dev |-> d, at |-> a, piece |-> 1, side |-> 1]
Leaf(d, a) == [how |-> "leaf", cands |-> <<Cand(d, a)>>, ways |-> 1, children |-> <<>>]
Mirror(a) == [how |-> "leaf", cands |-> <<Cand(d1, a), Cand(d2, a)>>, ways |-> 1, children |-> <<>>]
Gang(a, children) ==
  [how |-> "gang", cands |-> <<Cand(d1, a), Cand(d2, a)>>, ways |-> 1, children |-> children]
NoVdev == [how |-> "unknown", cands |-> <<>>, ways |-> 1, children |-> <<>>]

\* The first piece of the block went to one disk, the second to a mirror.
Removed ==
  [how |-> "removed", ways |-> 2, children |-> <<>>, cands |->
     << [dev |-> d1, at |-> 1, piece |-> 1, side |-> 1],
        [dev |-> d1, at |-> 2, piece |-> 2, side |-> 1],
        [dev |-> d2, at |-> 2, piece |-> 2, side |-> 2] >>]

MCPointers == {"L1", "A", "B", "R", "U", "S", "G1", "G2", "G3", "G4", "X"}
MCDvas == [p \in MCPointers |->
  CASE p = "L1" -> <<Mirror(1)>>
    [] p = "A"  -> <<Mirror(2)>>
    [] p = "B"  -> <<Leaf(d1, 3), Leaf(d2, 3)>>
    [] p = "R"  -> <<Leaf(d1, 3), Removed>>
    [] p = "U"  -> <<Mirror(1)>>
    [] p = "S"  -> <<Leaf(d2, 2)>>
    [] p = "G1" -> <<Gang(1, <<"A", "B">>)>>
    [] p = "G2" -> <<Gang(1, <<"X">>)>>
    [] p = "X"  -> <<NoVdev, Gang(2, <<"S">>), Leaf(d1, 3)>>
    [] p = "G3" -> <<Gang(3, <<"G2">>)>>
    [] p = "G4" -> <<Gang(3, <<"U">>)>>]

Data(path) == [path |-> path, hole |-> FALSE]
Hole(path) == [path |-> path, hole |-> TRUE]

Indirect == << Data(<<"L1", "A">>), Hole(<<"L1">>), Data(<<"L1", "B">>) >>
Odd == << Hole(<<>>), Data(<<"R">>), Data(<<"U">>), Data(<<"S">>) >>
Gangs == << Data(<<"G1">>), Data(<<"B">>), Data(<<"G4">>) >>
Nested == << Data(<<"G2">>), Data(<<"G3">>) >>

MCVolumes == {Indirect, Odd, Gangs, Nested}
=============================================================================
