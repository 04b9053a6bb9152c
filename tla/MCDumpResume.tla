---------------------------- MODULE MCDumpResume ----------------------------
(***************************************************************************)
(* Instances of DumpResume.  Two images of three blocks: `a` has a hole in *)
(* the middle, the tree of `b` ends one block early.                       *)
(***************************************************************************)
EXTENDS DumpResume

CONSTANTS a, b

MCTotal == [i \in Images |-> IF i = a THEN N ELSE N - 1]
MCHoles == [i \in Images |-> IF i = a THEN {1} ELSE {}]

MCDense == [i \in Images |-> {}]
=============================================================================
