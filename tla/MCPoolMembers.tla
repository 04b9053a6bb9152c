---------------------------- MODULE MCPoolMembers ----------------------------
(* Pools and metadata for TLC: a mirror beside a disk and a stranger, with a *)
(* disk to join it; a raidz whose metadata has rows of one and of two data   *)
(* columns, with a disk to join it; a raidz with rows of one data column     *)
EXTENDS PoolMembers

Small(p, d) == [parity |-> {p}, data |-> {d}]
Full(p) == [parity |-> {p}, data |-> {1, 2, 3} \ {p}]
MCStarts ==
  {[kind |-> "mirror", first |-> <<1, 2>>, second |-> 3, stranger |-> 5, spare |-> 4, rows |-> {}],
   [kind |-> "raidz", first |-> <<1, 2, 3>>, second |-> 0, stranger |-> 0, spare |-> 4,
    rows |-> {Small(1, 2), Full(1), Full(2)}],
   [kind |-> "raidz", first |-> <<1, 2, 3>>, second |-> 0, stranger |-> 0, spare |-> 0,
    rows |-> {Small(1, 2), Small(2, 3), Small(3, 1)}]}
MCRemembered == {<<1, 2, 3>>, <<2, 1, 3>>}
=============================================================================
