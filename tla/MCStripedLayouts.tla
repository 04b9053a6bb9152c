-------------------------- MODULE MCStripedLayouts --------------------------
(***************************************************************************)
(* Six pools: raidz of one, two and three parities, the second with a disk *)
(* being replaced; two dRAIDs, one whose spare stands beside the disk it   *)
(* replaces and one where it has the slot alone; and a pool of disks and   *)
(* mirrors, the only kind vdevs are removed from.                          *)
(***************************************************************************)
EXTENDS StripedLayouts

Single(n) == [i \in 1..n |-> <<Disk(i)>>]

Raidz(kids, nparity) == [kind |-> "raidz", kids |-> kids, nparity |-> nparity]

\* Groups of `ndata` and parity over five children, one of them spare.
Draid(kids, ndata, nparity, ngroups) ==
  [kind |-> "draid", kids |-> kids, nparity |-> nparity, ndata |-> ndata, nspares |-> 1,
   ngroups |-> ngroups, perms |-> <<<<2, 0, 4, 1, 3>>, <<1, 3, 0, 2, 4>>>>]

Mirror(disks) == [kind |-> "mirror", kids |-> [i \in DOMAIN disks |-> <<Disk(disks[i])>>]]

MCPools == {
  [v \in {0} |-> Raidz(Single(3), 1)],
  [v \in {0} |-> Raidz([Single(4) EXCEPT ![2] = <<Disk(2), Disk(5)>>], 2)],
  [v \in {0} |-> Raidz(Single(5), 3)],
  [v \in {0} |-> Draid([Single(5) EXCEPT ![3] = <<Disk(3), Dspare(0)>>], 2, 1, 4)],
  [v \in {0} |-> Draid([Single(5) EXCEPT ![4] = <<Dspare(0)>>], 2, 2, 1)],
  [v \in 0..2 |-> <<Mirror(<<1, 2>>), Mirror(<<3>>), Mirror(<<4, 5>>)>>[v + 1]]}

MCOffsets == [raidz |-> {1, 6}, draid |-> {0, 3, 4, 12, 24, 27}, mirror |-> {0}]
MCSizes   == [raidz |-> {1, 3, 4}, draid |-> {1, 3, 4}, mirror |-> {3}]
=============================================================================
