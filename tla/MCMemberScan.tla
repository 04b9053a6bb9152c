---------------------------- MODULE MCMemberScan ----------------------------
(* Members for TLC: a bare vdev, one under GEOM, partitions, an old vdev of *)
(* the whole disk under a new one, and a disk too long to be searched whole *)
EXTENDS MemberScan

Whole == [base |-> 0, size |-> 6]
Inner == [base |-> 0, size |-> 5]
Part == [base |-> 2, size |-> 5]
Old == [base |-> 0, size |-> 8]
Far == [base |-> 4, size |-> 5]
MCVdevs == {Whole, Inner, Part, Old, Far}

\* The labels of a vdev, L1 and L3 one sync behind, over what was there
Write(cells, v, txg) ==
  LET offsets == LabelOffsets(v.size)
      at(u) == {k \in 1 .. 4 : v.base + offsets[k] = u}
  IN  [u \in DOMAIN cells |->
         IF at(u) = {} THEN cells[u]
         ELSE LET k == CHOOSE k \in at(u) : TRUE
                  t == IF k % 2 = 1 THEN txg ELSE txg - 1
              IN  [vdev |-> v, at |-> offsets[k], config |-> t, ring |-> {t}]]
Empty(n) == [u \in 0 .. n - 1 |-> Unwritten]

Plain(n, cells) ==
  [kind |-> "image", size |-> n, tail |-> FALSE, cells |-> cells,
   geom |-> [there |-> FALSE, inner |-> 0], gpt |-> FALSE, backup |-> FALSE, mbr |-> FALSE,
   parts |-> <<>>, refused |-> {}]
Partition(start, length, zfs) == [start |-> start, length |-> length, zfs |-> zfs]
Boot == Partition(1, 1, FALSE)
Swap == Partition(1, 4, FALSE)
Data == Partition(2, 5, TRUE)

OnGeom == [Plain(6, Write(Empty(6), Inner, 3)) EXCEPT !.geom = [there |-> TRUE, inner |-> 5]]
OnDisk == [Plain(8, Write(Empty(8), Part, 3)) EXCEPT
             !.gpt = TRUE, !.backup = TRUE, !.parts = <<Data>>]
Bare(d) == [d EXCEPT !.cells = [u \in DOMAIN @ |-> [@[u] EXCEPT !.config = 0]]]
MCMembers ==
  {Plain(6, Write(Empty(6), Whole, 3)), OnGeom, OnDisk,
   [OnGeom EXCEPT !.geom.inner = 0],
   [OnGeom EXCEPT !.tail = TRUE, !.geom.inner = 0],
   [OnDisk EXCEPT !.kind = "device", !.tail = TRUE],
   [OnDisk EXCEPT !.cells = Write(Write(Empty(8), Old, 2), Part, 3)],
   [OnDisk EXCEPT !.gpt = FALSE, !.backup = FALSE, !.mbr = TRUE],
   Plain(9, Write(Empty(9), Far, 3)),
   Bare(OnDisk), Bare([OnDisk EXCEPT !.kind = "device"]),
   Bare(Plain(9, Write(Empty(9), Far, 3))), Bare(OnGeom),
   Plain(3, Empty(3))}
MCTables == {<<Swap, Data>>, <<Boot, Partition(2, 5, FALSE)>>, <<Partition(2, 4, TRUE)>>, <<Partition(3, 5, TRUE)>>}
=============================================================================
