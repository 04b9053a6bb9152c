--------------------------- MODULE MCEvidenceReport ---------------------------
(***************************************************************************)
(* One disk, two images with one file name, three things a run may do.     *)
(***************************************************************************)
EXTENDS EvidenceReport, TLC

CONSTANTS t1, t2
Symmetry == Permutations(Tools)

MCBase == [p \in {11, 12, 21} |-> IF p = 21 THEN 21 ELSE 10]
MCWorks ==
  {[output |-> 11, hashes |-> FALSE, remarks |-> {}],
   [output |-> 12, hashes |-> TRUE, remarks |-> {"zeroed"}]}
=============================================================================
