----------------------------- MODULE MCCarveScan -----------------------------
(***************************************************************************)
(* An instance of CarveScan: two members of two chunks; the first member   *)
(* holds more candidates than the cap, two of them of one shape, and the   *)
(* best of all comes last.                                                 *)
(***************************************************************************)
EXTENDS CarveScan

CONSTANTS a, b, c, d

MCCandidates == {a, b, c, d}
MCPlace == [x \in MCCandidates |->
  CASE x \in {a, b} -> <<1, 0>> [] x = c -> <<1, 1>> [] x = d -> <<2, 1>>]
MCScore == [x \in MCCandidates |-> CASE x = a -> 3 [] x = b -> 1 [] x = c -> 4 [] x = d -> 2]
MCShape == [x \in MCCandidates |-> IF x = b THEN 2 ELSE 1]
MCDefects == {{}, {<<1, 0>>}}
=============================================================================
