------------------------------ MODULE MCDumpRun ------------------------------
(***************************************************************************)
(* An instance of DumpRun: a pool with a filesystem, three volumes, two of *)
(* which share a file name, and a snapshot.                                *)
(***************************************************************************)
EXTENDS DumpRun

CONSTANTS p, pa, pbc, pb_c, pas,    \* p, p/a, p/b/c, p/b_c, p/a@s
          fp, fa, fbc, out          \* p.img, p_a.img, p_b_c.img, -o

Entry(name, within, volume) ==
  [name |-> name, within |-> within, volume |-> volume,
   snapshot |-> FALSE, locked |-> FALSE, empty |-> FALSE]

P == Entry(p, {p}, FALSE)
A == Entry(pa, {p, pa}, TRUE)
AS == [Entry(pas, {p, pas}, TRUE) EXCEPT !.snapshot = TRUE]
BC == [Entry(pbc, {p, pbc}, TRUE) EXCEPT !.locked = TRUE]
B_C == [Entry(pb_c, {p, pb_c}, TRUE) EXCEPT !.empty = TRUE]

MCNames == {p, pa, pbc, pb_c, pas}
MCFiles == {fp, fa, fbc, out}
MCMangled == [n \in MCNames |->
  CASE n = p -> fp [] n \in {pa, pas} -> fa [] OTHER -> fbc]

\* p/a is gone in the newer TXG.
MCHeld == << <<P, BC, B_C>>, <<P, A, AS, BC, B_C>> >>
MCApart == << <<P, A, BC>> >>
MCRoots == {p, pa}
=============================================================================
