--------------------------- MODULE MemberScanProofs ---------------------------
(***************************************************************************)
(* What a member is taken to be, for every member whose labels were sealed *)
(* with their offsets, every table it may be given and any number of       *)
(* things that happen to it: the base that is accepted is a vdev's, a      *)
(* configuration that survived where it is looked for is found, and        *)
(* without one a ring in front gives the base and the uberblocks.          *)
(*                                                                         *)
(* The argument is one scan at a time: `ScanIsProven` says what a label    *)
(* that verifies tells, `LabelIsSeen` when a label that survived verifies. *)
(* The invariant carries from phase to phase that nothing verified in any  *)
(* of the places tried so far.                                             *)
(***************************************************************************)
EXTENDS MemberScan, FiniteSetTheorems, TLAPS

-----------------------------------------------------------------------------
(* The invariant                                                           *)

Begun(d) == DeviceScan(d, 0, d.size, "none")
OverGeom(d) == DeviceScan(d, 0, GeomSize(d), "GEOM metadata")
Inside(d, p) == DeviceScan(d, p.start, p.length, "partition table")
Shifted(d, zero) == DeviceScan(d, zero, d.size - zero, "uberblock checksum")

Phases == {"evidence", "geom", "table", "parts", "done", "failed"}

ScanTypes ==
  /\ IsMember(disk) /\ damage \in Nat /\ search \in BOOLEAN
  /\ phase \in Phases /\ parts \subseteq Nat

\* The labels were looked for over the member as it stands ...
AsItStands ==
  phase \in {"geom", "table", "parts"} => scan = Begun(disk) /\ Fits(disk, 0, disk.size)

\* ... where none verified, nor over the provider that GEOM recorded ...
NothingUnderGeom(d) ==
  /\ GeomReads(d)
  /\ GeomThere(d) /\ Fits(d, 0, GeomSize(d)) => VerifiedLabels(OverGeom(d)) = 0
NothingSoFar ==
  phase \in {"table", "parts"} => VerifiedLabels(scan) = 0 /\ NothingUnderGeom(disk)

\* ... nor in any partition that was tried.
NothingInside(d, p) == Fits(d, p.start, p.length) /\ VerifiedLabels(Inside(d, p)) = 0
NothingTried ==
  phase = "parts" =>
    /\ parts \subseteq Table(disk)
    /\ \A k \in Table(disk) \ parts : Skipped(disk.parts[k]) \/ NothingInside(disk, disk.parts[k])

OnlyHalts == phase = "failed" => Halts

ScanInv ==
  /\ ScanTypes /\ AsItStands /\ NothingSoFar /\ NothingTried /\ OnlyHalts
  /\ BaseIsProven /\ AConfigurationIsFound /\ RingsStandIn

-----------------------------------------------------------------------------
(* What a scan of four labels tells                                        *)

\* The state of a label as it was sealed.
LEMMA CellIsTyped ==
  ASSUME NEW d, IsMember(d), NEW u \in 0 .. d.size - 1
  PROVE  /\ d.size \in Nat /\ u \in DOMAIN d.cells /\ Sealed(d.cells[u], u)
         /\ d.cells[u] \in [vdev : Vdevs \cup {Unwritten.vdev}, at : Nat, config : Nat, ring : SUBSET Nat]
BY DEF IsMember

\* The labels of a scan are four, each read where its place is.
LEMMA LabelsOfAScan ==
  ASSUME NEW d, NEW base, NEW psize, NEW source
  PROVE  LET s == DeviceScan(d, base, psize, source)
             offsets == LabelOffsets(Psize(d, base, psize))
         IN  /\ s.base = base /\ s.source = source /\ s.best = BestLabel(s.labels)
             /\ DOMAIN s.labels = 1 .. 4
             /\ \A k \in 1 .. 4 : s.labels[k] = LabelScan(d, base, offsets[k])
BY DEF DeviceScan, LabelsPerVdev

\* A scan has verified labels if one of its labels verifies.
LEMMA SomeVerifies ==
  ASSUME NEW s, DOMAIN s.labels \subseteq 1 .. 4
  PROVE  /\ VerifiedLabels(s) \in Nat
         /\ VerifiedLabels(s) > 0 <=> \E k \in DOMAIN s.labels : ConfigVerified(s.labels[k])
<1> DEFINE V == {k \in DOMAIN s.labels : ConfigVerified(s.labels[k])}
<1>1. IsFiniteSet(V)
  <2>1. 1 \in Int /\ 4 \in Int
    OBVIOUS
  <2>2. IsFiniteSet(1 .. 4)
    BY <2>1, FS_Interval
  <2>3. V \subseteq 1 .. 4
    OBVIOUS
  <2> QED
    BY <2>2, <2>3, FS_Subset
<1>2. Cardinality(V) \in Nat /\ (Cardinality(V) = 0 <=> V = {})
  BY <1>1, FS_CardinalityType, FS_EmptySet
<1>3. VerifiedLabels(s) = Cardinality(V)
  BY DEF VerifiedLabels
<1> QED
  BY <1>2, <1>3

\* How many labels of a scan verify is a number.
LEMMA ScanCounts ==
  ASSUME NEW d, NEW base, NEW psize, NEW source
  PROVE  VerifiedLabels(DeviceScan(d, base, psize, source)) \in Nat
<1> DEFINE s == DeviceScan(d, base, psize, source)
<1>1. DOMAIN s.labels = 1 .. 4
  BY LabelsOfAScan
<1> HIDE DEF s
<1>2. VerifiedLabels(s) \in Nat
  BY <1>1, SomeVerifies
<1> QED
  BY <1>2 DEF s

\* The four places of a label are in the vdev, and the two in front do not
\* depend on its size.
LEMMA PlacesAreInside ==
  ASSUME NEW size \in Nat, size >= LabelsPerVdev
  PROVE  /\ LabelOffsets(size)[1] = 0 /\ LabelOffsets(size)[2] = 1
         /\ LabelOffsets(size)[3] = size - 2 /\ LabelOffsets(size)[4] = size - 1
         /\ \A k \in 1 .. 4 : LabelOffsets(size)[k] \in 0 .. size - 1
<1>1. \A k \in 1 .. 4 : k = 1 \/ k = 2 \/ k = 3 \/ k = 4
  OBVIOUS
<1> QED
  BY <1>1 DEF LabelOffsets, LabelsPerVdev

\* The room a scan has is the room asked for or what is left of the member.
LEMMA RoomIsThere ==
  ASSUME NEW d, d.size \in Nat, NEW base \in Nat, NEW psize \in Nat
  PROVE  LET room == Psize(d, base, psize)
         IN  /\ room \in Nat /\ room <= psize
             /\ Fits(d, base, psize) <=> room >= LabelsPerVdev
             /\ room >= LabelsPerVdev => base + room <= d.size
             /\ base + psize <= d.size => room = psize
             /\ base <= d.size /\ d.size < base + psize => room = d.size - base
BY DEF Psize, Smaller, Fits, LabelsPerVdev

\* A label that verifies is a vdev's that begins where the scan began.
LEMMA VerifiedIsAtItsBase ==
  ASSUME NEW d, IsMember(d), NEW base \in Nat, NEW psize \in Nat, NEW source, Fits(d, base, psize),
         NEW k \in 1 .. 4, ConfigVerified(DeviceScan(d, base, psize, source).labels[k])
  PROVE  LET v == DeviceScan(d, base, psize, source).labels[k].vdev
         IN  v \in Vdevs /\ v.base = base
<1> DEFINE room == Psize(d, base, psize)
           off == LabelOffsets(room)[k]
           u == base + off
           cell == ReadSalvaging(d, u)
<1>1. d.size \in Nat
  BY DEF IsMember
<1>2. room \in Nat /\ room >= LabelsPerVdev /\ base + room <= d.size
  BY <1>1, RoomIsThere
<1>3. off \in 0 .. room - 1
  BY <1>2, PlacesAreInside
<1>4. u \in 0 .. d.size - 1
  BY <1>1, <1>2, <1>3
<1>5. DeviceScan(d, base, psize, source).labels[k] = LabelScan(d, base, off)
  BY LabelsOfAScan
<1>6. cell.config > 0 /\ cell.at = off /\ LabelScan(d, base, off).vdev = cell.vdev
  <2>1. LabelScan(d, base, off).txg > 0 /\ LabelScan(d, base, off).ok
    BY <1>5 DEF ConfigVerified
  <2> QED
    BY <2>1 DEF LabelScan
<1>7. cell = d.cells[u]
  BY <1>6 DEF ReadSalvaging, Unwritten
<1>8. /\ Sealed(d.cells[u], u)
      /\ d.cells[u] \in [vdev : Vdevs \cup {Unwritten.vdev}, at : Nat, config : Nat, ring : SUBSET Nat]
  BY <1>4, CellIsTyped
<1>9. cell.vdev \in Vdevs /\ u = cell.vdev.base + cell.at
  BY <1>6, <1>7, <1>8 DEF Sealed
<1>10. cell.vdev.base \in Nat
  BY <1>9, ScanAssumption
<1> HIDE DEF u, cell, off
<1>11. cell.vdev.base = base
  BY <1>3, <1>6, <1>9, <1>10 DEF u
<1> QED
  BY <1>5, <1>6, <1>9, <1>11

\* Where a label verifies, the base is a vdev's, and so is the configuration
\* that is taken.
Proven(s) ==
  \E v \in Vdevs : v.base = s.base /\ \A c \in Config(s) : c.vdev.base = s.base

LEMMA ScanIsProven ==
  ASSUME NEW d, IsMember(d), NEW base \in Nat, NEW psize \in Nat, NEW source, Fits(d, base, psize),
         VerifiedLabels(DeviceScan(d, base, psize, source)) > 0
  PROVE  Proven(DeviceScan(d, base, psize, source))
<1> DEFINE s == DeviceScan(d, base, psize, source)
<1>1. s.base = base /\ s.best = BestLabel(s.labels) /\ DOMAIN s.labels = 1 .. 4
  BY LabelsOfAScan
<1>2. \A k \in 1 .. 4 : ConfigVerified(s.labels[k]) => s.labels[k].vdev \in Vdevs /\ s.labels[k].vdev.base = base
  BY VerifiedIsAtItsBase
<1>3. VerifiedLabels(s) > 0
  OBVIOUS
<1> HIDE DEF s
<1>4. PICK k \in 1 .. 4 : ConfigVerified(s.labels[k])
  BY <1>1, <1>3, SomeVerifies
<1>5. \A j \in s.best : ConfigVerified(s.labels[j]) /\ j \in 1 .. 4
  BY <1>1, <1>4 DEF BestLabel, ConfigVerified
<1>6. \A c \in Config(s) : c.vdev.base = base
  BY <1>2, <1>5 DEF Config
<1>7. s.labels[k].vdev \in Vdevs /\ s.labels[k].vdev.base = base
  BY <1>2, <1>4
<1>8. Proven(s)
  BY <1>1, <1>6, <1>7 DEF Proven
<1> QED
  BY <1>8 DEF s

\* A label that survived verifies where its vdev is scanned: one in front
\* whatever the size, one at the end where the size is known, or a unit of the
\* vdev's end is missing.
LEMMA LabelIsSeen ==
  ASSUME NEW d, IsMember(d), NEW v \in Vdevs, NEW psize \in Nat, NEW source, Fits(d, v.base, psize),
         NEW u \in 0 .. d.size - 1, u \notin d.refused, d.cells[u].vdev = v, d.cells[u].config > 0,
         u \in Front(v) \/ v.size = psize
  PROVE  VerifiedLabels(DeviceScan(d, v.base, psize, source)) > 0
<1> DEFINE room == Psize(d, v.base, psize)
           at == d.cells[u].at
           s == DeviceScan(d, v.base, psize, source)
<1>1. /\ d.size \in Nat /\ v.base \in Nat /\ v.size \in Nat /\ v.size >= LabelsPerVdev
  BY ScanAssumption DEF IsMember
<1>2. /\ room \in Nat /\ room >= LabelsPerVdev /\ v.base + room <= d.size
      /\ v.base + psize <= d.size => room = psize
      /\ d.size < v.base + psize => room = d.size - v.base
  <2>1. room \in Nat /\ room >= LabelsPerVdev /\ v.base + room <= d.size
    BY <1>1, RoomIsThere
  <2>2. v.base <= d.size
    BY <1>1, <2>1
  <2> QED
    BY <1>1, <2>1, <2>2, RoomIsThere
<1>3. u = v.base + at /\ at \in Nat /\ \E k \in 1 .. 4 : at = LabelOffsets(v.size)[k]
  BY CellIsTyped DEF Sealed, LabelsPerVdev
<1>4. at \in {0, 1, v.size - 2, v.size - 1}
  <2>1. \A k \in 1 .. 4 : k = 1 \/ k = 2 \/ k = 3 \/ k = 4
    OBVIOUS
  <2>2. /\ LabelOffsets(v.size)[1] = 0 /\ LabelOffsets(v.size)[2] = 1
        /\ LabelOffsets(v.size)[3] = v.size - 2 /\ LabelOffsets(v.size)[4] = v.size - 1
    BY <1>1, PlacesAreInside
  <2> QED
    BY <1>3, <2>1, <2>2
<1>5. u \in Front(v) => at \in {0, 1}
  BY <1>1, <1>3 DEF Front
<1>6. PICK k \in 1 .. 4 : LabelOffsets(room)[k] = at
  <2>1. /\ LabelOffsets(room)[1] = 0 /\ LabelOffsets(room)[2] = 1
        /\ LabelOffsets(room)[3] = room - 2 /\ LabelOffsets(room)[4] = room - 1
    BY <1>2, PlacesAreInside
  <2>2. CASE at \in {0, 1}
    BY <2>1, <2>2
  <2>3. CASE at \notin {0, 1}
    <3>1. v.size = psize /\ at \in {v.size - 2, v.size - 1}
      BY <1>4, <1>5, <2>3
    <3>2. at = room - 2 \/ at = room - 1
      <4> HIDE DEF room, at
      <4>1. CASE v.base + psize <= d.size
        BY <1>2, <3>1, <4>1
      <4>2. CASE d.size < v.base + psize
        <5>1. v.base + at < d.size
          BY <1>1, <1>3
        <5> QED
          BY <1>1, <1>2, <1>3, <3>1, <4>2, <5>1
      <4> QED
        BY <1>1, <1>2, <3>1, <4>1, <4>2
    <3> QED
      BY <2>1, <3>2
  <2> QED
    BY <2>2, <2>3
<1>7. DOMAIN s.labels = 1 .. 4 /\ s.labels[k] = LabelScan(d, v.base, at)
  BY <1>6, LabelsOfAScan
<1>8. ConfigVerified(s.labels[k])
  <2>1. ReadSalvaging(d, v.base + at) = d.cells[u]
    BY <1>3 DEF ReadSalvaging
  <2>2. LabelScan(d, v.base, at).txg = d.cells[u].config /\ LabelScan(d, v.base, at).ok
    BY <2>1 DEF LabelScan
  <2> QED
    BY <1>7, <2>2 DEF ConfigVerified
<1> HIDE DEF s
<1>9. VerifiedLabels(s) > 0
  BY <1>7, <1>8, SomeVerifies
<1> QED
  BY <1>9 DEF s

-----------------------------------------------------------------------------
(* What the search for rings gives                                         *)

\* A hit is a unit of the member that reads and holds a ring of a vdev.
LEMMA HitIsARing ==
  ASSUME NEW d, IsMember(d), NEW u \in Hits(d)
  PROVE  /\ u \in 0 .. d.size - 1 /\ u \in Windows(d) /\ u \notin d.refused /\ d.cells[u].ring # {}
         /\ d.cells[u].vdev \in Vdevs /\ d.cells[u].at \in Nat
         /\ u = d.cells[u].vdev.base + d.cells[u].at /\ d.cells[u].vdev.base \in Nat
         /\ Base(d, u) = d.cells[u].vdev.base
<1>1. d.size \in Nat /\ Edge \in Nat \ {0}
  BY ScanAssumption DEF IsMember
<1>2. u \in Windows(d) /\ ReadSalvaging(d, u).ring # {}
  BY DEF Hits
<1>3. u \in 0 .. d.size - 1
  BY <1>1, <1>2 DEF Windows
<1>4. u \notin d.refused /\ d.cells[u].ring # {}
  BY <1>2 DEF ReadSalvaging, Unwritten
<1>5. d.cells[u].vdev \in Vdevs /\ u = d.cells[u].vdev.base + d.cells[u].at /\ d.cells[u].at \in Nat
  BY <1>3, <1>4, CellIsTyped DEF Sealed
<1>6. d.cells[u].vdev.base \in Nat
  BY <1>5, ScanAssumption
<1> QED
  BY <1>2, <1>3, <1>4, <1>5, <1>6 DEF Base

\* The base that is found is a vdev's.
LEMMA ZeroIsABase ==
  ASSUME NEW d, IsMember(d), NEW zero \in ZeroPoint(d)
  PROVE  \E v \in Vdevs : v.base = zero /\ zero \in Nat
<1>1. PICK u \in Anchors(d) : zero = Base(d, u)
  BY DEF ZeroPoint
<1>2. u \in Hits(d)
  BY <1>1 DEF Anchors
<1> QED
  BY <1>1, <1>2, HitIsARing

\* Where no ring but those of v is left, and one of them is in front, the base
\* is that of v, and no ring that is searched is left out.
LEMMA AnchoredGivesTheBase ==
  ASSUME IsMember(disk), NEW v \in Vdevs, Anchored(v)
  PROVE  /\ ZeroPoint(disk) = {v.base}
         /\ \A u \in RingsLeft(v) \cap Windows(disk) : u \in AnchorsOf(disk, v.base)
<1>1. \A u \in Hits(disk) : disk.cells[u].vdev = v
  <2> SUFFICES ASSUME NEW u \in Hits(disk), disk.cells[u].vdev # v PROVE FALSE
    OBVIOUS
  <2>1. /\ u \in 0 .. disk.size - 1 /\ u \notin disk.refused /\ disk.cells[u].ring # {}
        /\ disk.cells[u].vdev \in Vdevs
    BY HitIsARing
  <2>2. u \in DOMAIN disk.cells
    BY <2>1, CellIsTyped
  <2>3. u \in RingsLeft(disk.cells[u].vdev)
    BY <2>1, <2>2 DEF RingsLeft
  <2> QED
    BY <2>1, <2>3 DEF Anchored, OnlyRingsOf
<1>2. \A u \in Hits(disk) : Base(disk, u) = v.base /\ u = v.base + disk.cells[u].at /\ disk.cells[u].at \in Nat
  BY <1>1, HitIsARing
<1>3. \A u \in RingsLeft(v) \cap Windows(disk) : u \in Hits(disk)
  BY DEF RingsLeft, Hits, ReadSalvaging
<1>4. v.base \in Nat /\ v.size \in Nat /\ v.size >= LabelsPerVdev
  BY ScanAssumption
<1>5. PICK f \in RingsLeft(v) \cap Front(v) : f \in Windows(disk)
  BY DEF Anchored
<1>6. f \in Hits(disk) /\ disk.cells[f].at \in {0, 1}
  <2>1. f \in Hits(disk)
    BY <1>3, <1>5
  <2>2. f \in {v.base, v.base + 1}
    BY <1>5 DEF Front
  <2> QED
    BY <1>2, <1>4, <2>1, <2>2
<1>7. ConfirmSlot(disk, f)
  BY <1>2, <1>4, <1>6 DEF ConfirmSlot
<1>8. f \in Anchors(disk)
  BY <1>6, <1>7 DEF Anchors
<1>9. {Base(disk, u) : u \in Anchors(disk)} = {v.base}
  <2>1. Anchors(disk) \subseteq Hits(disk)
    BY DEF Anchors
  <2> QED
    BY <1>2, <1>8, <2>1
<1>10. Better(disk, v.base, v.base)
  BY <1>4 DEF Better
<1>11. ZeroPoint(disk) = {v.base}
  BY <1>9, <1>10 DEF ZeroPoint
<1>12. ASSUME NEW u \in RingsLeft(v) \cap Windows(disk)
       PROVE  u \in AnchorsOf(disk, v.base)
  <2>1. u \in Hits(disk) /\ u = v.base + disk.cells[u].at /\ disk.cells[u].at \in Nat /\ Base(disk, u) = v.base
    BY <1>2, <1>3
  <2>2. u \in Anchors(disk)
    <3>1. CASE f < u
      <4>1. ConfirmAgainstBase(disk, u, Base(disk, f))
        BY <1>2, <1>6, <2>1 DEF ConfirmAgainstBase
      <4> QED
        BY <1>6, <1>7, <2>1, <3>1, <4>1 DEF Anchors
    <3>2. CASE ~ (f < u)
      <4>1. f = v.base + disk.cells[f].at /\ disk.cells[f].at \in {0, 1}
        BY <1>2, <1>6
      <4>2. disk.cells[u].at \in {0, 1}
        BY <1>4, <2>1, <3>2, <4>1
      <4>3. ConfirmSlot(disk, u)
        BY <1>4, <2>1, <4>2 DEF ConfirmSlot
      <4> QED
        BY <2>1, <4>3 DEF Anchors
    <3> QED
      BY <3>1, <3>2
  <2> QED
    BY <2>1, <2>2 DEF AnchorsOf
<1> QED
  BY <1>11, <1>12

-----------------------------------------------------------------------------
(* The places a label is looked for in                                     *)

\* What a scan of the member does not change is what its answer is judged by.
LEMMA WorldStays ==
  ASSUME UNCHANGED <<disk, search>>
  PROVE  /\ Halts' <=> Halts
         /\ \A v \in Vdevs : /\ ConfigsLeft(v)' = ConfigsLeft(v)
                             /\ RingsLeft(v)' = RingsLeft(v)
                             /\ Anchored(v)' <=> Anchored(v)
                             /\ \A u \in ConfigsLeft(v) : LookedAt(v, u)' <=> LookedAt(v, u)
<1>1. Halts' <=> Halts
  BY DEF Halts, Listed, Skipped
<1>2. ASSUME NEW v \in Vdevs
      PROVE  /\ ConfigsLeft(v)' = ConfigsLeft(v) /\ RingsLeft(v)' = RingsLeft(v)
             /\ Anchored(v)' <=> Anchored(v)
  <2>1. \A w \in Vdevs : RingsLeft(w)' = RingsLeft(w)
    BY DEF RingsLeft
  <2>2. OnlyRingsOf(v)' <=> OnlyRingsOf(v)
    BY <2>1 DEF OnlyRingsOf
  <2> QED
    BY <2>1, <2>2 DEF ConfigsLeft, Anchored, Searched
<1>3. ASSUME NEW v \in Vdevs, NEW u \in ConfigsLeft(v)
      PROVE  LookedAt(v, u)' <=> LookedAt(v, u)
  <2>1. Listed' = Listed
    BY DEF Listed
  <2> QED
    BY <1>2, <2>1 DEF LookedAt
<1> QED
  BY <1>1, <1>2, <1>3

\* A configuration that survived is a unit of the member that reads.
LEMMA ConfigIsAUnit ==
  ASSUME IsMember(disk), NEW v \in Vdevs, NEW u \in ConfigsLeft(v)
  PROVE  /\ u \in 0 .. disk.size - 1 /\ u \notin disk.refused
         /\ disk.cells[u].vdev = v /\ disk.cells[u].config > 0
         /\ v.base \in Nat /\ v.size \in Nat /\ v.size >= LabelsPerVdev
         /\ disk.size \in Nat /\ v.base < disk.size
<1>1. DOMAIN disk.cells = 0 .. disk.size - 1 /\ disk.size \in Nat
  BY DEF IsMember
<1>2. /\ u \in 0 .. disk.size - 1 /\ u \notin disk.refused
      /\ disk.cells[u].vdev = v /\ disk.cells[u].config > 0
  BY <1>1 DEF ConfigsLeft
<1>3. v.base \in Nat /\ v.size \in Nat /\ v.size >= LabelsPerVdev
  BY ScanAssumption
<1>4. u = v.base + disk.cells[u].at /\ disk.cells[u].at \in Nat
  BY <1>2, CellIsTyped DEF Sealed
<1> QED
  BY <1>1, <1>2, <1>3, <1>4

\* Where a vdev is known to begin without a search, and a label of it is known
\* to be
InAKnownPlace(v, u) ==
  \/ v.base = 0 /\ (u \in Front(v) \/ v.size = disk.size \/ (GeomThere(disk) /\ v.size = GeomSize(disk)))
  \/ \E p \in Listed : v.base = p.start /\ p.start # 0 /\ (u \in Front(v) \/ v.size = p.length)

\* The provider of a GEOM class is no longer than the member.
LEMMA GeomIsShorter ==
  ASSUME NEW d, IsMember(d), d.size > 0
  PROVE  GeomSize(d) \in Nat /\ GeomSize(d) <= d.size
<1>1. d.size \in Nat /\ d.geom.inner \in Nat /\ d.tail \in BOOLEAN
  BY DEF IsMember
<1>2. CASE d.geom.inner > 0 /\ (d.geom.inner < d.size \/ (d.geom.inner = d.size /\ d.tail))
  BY <1>1, <1>2 DEF GeomSize
<1>3. CASE ~ (d.geom.inner > 0 /\ (d.geom.inner < d.size \/ (d.geom.inner = d.size /\ d.tail)))
  BY <1>1, <1>3 DEF GeomSize
<1> QED
  BY <1>2, <1>3

\* When all places were tried and nothing verified, no label was left in one.
LEMMA KnownPlacesAreTried ==
  ASSUME ScanInv, phase = "parts", parts = {}, NEW v \in Vdevs, NEW u \in ConfigsLeft(v)
  PROVE  ~ InAKnownPlace(v, u)
<1> SUFFICES ASSUME InAKnownPlace(v, u) PROVE FALSE
  OBVIOUS
<1>1. IsMember(disk)
  BY DEF ScanInv, ScanTypes
<1>2. /\ scan = Begun(disk) /\ Fits(disk, 0, disk.size) /\ VerifiedLabels(scan) = 0
      /\ NothingUnderGeom(disk)
      /\ \A k \in Table(disk) : Skipped(disk.parts[k]) \/ NothingInside(disk, disk.parts[k])
  BY DEF ScanInv, AsItStands, NothingSoFar, NothingTried
<1>3. /\ u \in 0 .. disk.size - 1 /\ u \notin disk.refused
      /\ disk.cells[u].vdev = v /\ disk.cells[u].config > 0
      /\ v.base \in Nat /\ v.size \in Nat /\ v.size >= LabelsPerVdev
      /\ disk.size \in Nat /\ v.base < disk.size
  BY <1>1, ConfigIsAUnit
<1>4. CASE v.base = 0 /\ (u \in Front(v) \/ v.size = disk.size)
  <2>1. VerifiedLabels(Begun(disk)) > 0
    BY <1>1, <1>2, <1>3, <1>4, LabelIsSeen DEF Begun
  <2> QED
    BY <1>2, <2>1
<1>5. CASE v.base = 0 /\ GeomThere(disk) /\ v.size = GeomSize(disk)
  <2>1. GeomSize(disk) \in Nat /\ GeomSize(disk) <= disk.size
    BY <1>1, <1>3, GeomIsShorter
  <2>2. Fits(disk, 0, GeomSize(disk))
    <3>1. Psize(disk, 0, GeomSize(disk)) = GeomSize(disk)
      BY <1>3, <2>1 DEF Psize, Smaller
    <3> QED
      BY <1>3, <1>5, <3>1 DEF Fits
  <2>3. VerifiedLabels(OverGeom(disk)) > 0
    BY <1>1, <1>3, <1>5, <2>1, <2>2, LabelIsSeen DEF OverGeom
  <2> QED
    BY <1>2, <1>5, <2>2, <2>3 DEF NothingUnderGeom
<1>6. CASE \E p \in Listed : v.base = p.start /\ p.start # 0 /\ (u \in Front(v) \/ v.size = p.length)
  <2>1. PICK p \in Listed : v.base = p.start /\ p.start # 0 /\ (u \in Front(v) \/ v.size = p.length)
    BY <1>6
  <2>2. PICK k \in DOMAIN disk.parts : p = disk.parts[k] /\ k \in Table(disk)
    BY DEF Listed, Table
  <2>3. p.length \in Nat
    <3>1. disk.parts \in Seq([start : Nat, length : Nat, zfs : BOOLEAN])
      BY <1>1 DEF IsMember, PartitionTables
    <3> DEFINE Partitions == [start : Nat, length : Nat, zfs : BOOLEAN]
    <3> HIDE DEF Partitions
    <3>3. \A table \in Seq(Partitions) : \A i \in DOMAIN table : table[i] \in Partitions
      OBVIOUS
    <3>2. p \in [start : Nat, length : Nat, zfs : BOOLEAN]
      BY <2>2, <3>1, <3>3 DEF Partitions
    <3> QED
      BY <3>2
  <2>4. ~ Skipped(p)
    BY <1>3, <2>1 DEF Skipped
  <2>5. Fits(disk, p.start, p.length) /\ VerifiedLabels(Inside(disk, p)) = 0
    BY <1>2, <2>2, <2>4 DEF NothingInside
  <2>6. VerifiedLabels(Inside(disk, p)) > 0
    BY <1>1, <1>3, <2>1, <2>3, <2>5, LabelIsSeen DEF Inside
  <2> QED
    BY <2>5, <2>6
<1> QED
  BY <1>4, <1>5, <1>6 DEF InAKnownPlace

-----------------------------------------------------------------------------
(* Each step                                                               *)

\* A scan that ends with a label that verifies ends as it should.
LEMMA EndsWithALabel ==
  ASSUME phase' = "done", VerifiedLabels(answer') > 0, Proven(answer')
  PROVE  BaseIsProven' /\ AConfigurationIsFound' /\ RingsStandIn'
<1>1. VerifiedLabels(answer') # 0
  BY SMT
<1>2. BaseIsProven'
  BY DEF BaseIsProven, Proven
<1>3. AConfigurationIsFound'
  BY DEF AConfigurationIsFound
<1>4. RingsStandIn'
  BY <1>1 DEF RingsStandIn
<1> QED
  BY <1>2, <1>3, <1>4

\* Before a scan has ended nothing is asked of its answer.
LEMMA NotEnded ==
  ASSUME phase' \notin {"done", "failed"}
  PROVE  OnlyHalts' /\ BaseIsProven' /\ AConfigurationIsFound' /\ RingsStandIn'
BY DEF OnlyHalts, BaseIsProven, AConfigurationIsFound, RingsStandIn

\* A scan that fails does so because the member's shape, a refusal where no
\* other place is tried, or its table ends it.
LEMMA FailsWell ==
  ASSUME ScanInv, Fails, Halts
  PROVE  ScanInv'
<1>1. UNCHANGED <<disk, damage, search, scan, parts>> /\ phase' = "failed"
  BY DEF Fails
<1>2. Halts'
  BY <1>1, WorldStays
<1>3. ScanTypes' /\ AsItStands' /\ NothingSoFar' /\ NothingTried'
  BY <1>1 DEF ScanInv, ScanTypes, AsItStands, NothingSoFar, NothingTried, Phases
<1>4. OnlyHalts' /\ BaseIsProven' /\ AConfigurationIsFound' /\ RingsStandIn'
  BY <1>1, <1>2 DEF OnlyHalts, BaseIsProven, AConfigurationIsFound, RingsStandIn
<1> QED
  BY <1>3, <1>4 DEF ScanInv

\* A scan that answers keeps the rest of the invariant.
LEMMA AnswersKeeps ==
  ASSUME ScanInv, NEW s, Answers(s)
  PROVE  /\ ScanTypes' /\ AsItStands' /\ NothingSoFar' /\ NothingTried' /\ OnlyHalts'
         /\ phase' = "done" /\ answer' = s /\ UNCHANGED <<disk, search>>
BY DEF Answers, ScanInv, ScanTypes, AsItStands, NothingSoFar, NothingTried, OnlyHalts, Phases

LEMMA AnswersWithALabel ==
  ASSUME ScanInv, NEW s, Answers(s), VerifiedLabels(s) > 0, Proven(s)
  PROVE  ScanInv'
BY AnswersKeeps, EndsWithALabel DEF ScanInv

\* What happens to a member before it is read leaves its labels sealed: what is
\* overwritten holds nothing, and the rest is as it was.
LEMMA DamageKeeps ==
  ASSUME ScanInv, NEW d, IsMember(d), Damaged(d)
  PROVE  ScanInv'
<1>1. /\ phase = "evidence" /\ disk' = d /\ damage' = damage + 1
      /\ UNCHANGED <<search, phase, scan, parts, answer>>
  BY DEF Damaged
<1>2. ScanTypes' /\ AsItStands' /\ NothingSoFar' /\ NothingTried'
  BY <1>1 DEF ScanInv, ScanTypes, AsItStands, NothingSoFar, NothingTried, Phases
<1>3. OnlyHalts' /\ BaseIsProven' /\ AConfigurationIsFound' /\ RingsStandIn'
  BY <1>1, NotEnded
<1> QED
  BY <1>2, <1>3 DEF ScanInv

Cells(size) ==
  [0 .. size - 1 -> [vdev : Vdevs \cup {Unwritten.vdev}, at : Nat, config : Nat, ring : SUBSET Nat]]

\* A unit that lost what it held of a label is sealed still.
LEMMA CellLoses ==
  ASSUME IsMember(disk), NEW u \in DOMAIN disk.cells, NEW c,
         \/ c = [disk.cells[u] EXCEPT !.config = 0]
         \/ c = [disk.cells[u] EXCEPT !.ring = {}]
  PROVE  /\ c \in [vdev : Vdevs \cup {Unwritten.vdev}, at : Nat, config : Nat, ring : SUBSET Nat]
         /\ Sealed(c, u)
<1>1. u \in 0 .. disk.size - 1
  BY DEF IsMember
<1>2. /\ disk.cells[u] \in [vdev : Vdevs \cup {Unwritten.vdev}, at : Nat, config : Nat, ring : SUBSET Nat]
      /\ Sealed(disk.cells[u], u)
  BY <1>1, CellIsTyped
<1>3. /\ c \in [vdev : Vdevs \cup {Unwritten.vdev}, at : Nat, config : Nat, ring : SUBSET Nat]
      /\ c.vdev = disk.cells[u].vdev /\ c.at = disk.cells[u].at
      /\ c.config > 0 => disk.cells[u].config > 0
      /\ c.ring # {} => disk.cells[u].ring # {}
  BY <1>2
<1> QED
  BY <1>2, <1>3 DEF Sealed

LEMMA MemberLoses ==
  ASSUME IsMember(disk), NEW u \in DOMAIN disk.cells, NEW c,
         c \in [vdev : Vdevs \cup {Unwritten.vdev}, at : Nat, config : Nat, ring : SUBSET Nat], Sealed(c, u)
  PROVE  IsMember([disk EXCEPT !.cells = [disk.cells EXCEPT ![u] = c]])
<1> DEFINE cells == [disk.cells EXCEPT ![u] = c]
           d == [disk EXCEPT !.cells = cells]
<1>1. disk.cells \in Cells(disk.size) /\ \A w \in DOMAIN disk.cells : Sealed(disk.cells[w], w)
  BY DEF IsMember, Cells
<1>2. cells \in Cells(disk.size) /\ \A w \in DOMAIN cells : Sealed(cells[w], w)
  BY <1>1 DEF Cells
<1> HIDE DEF cells
<1>3. /\ d.cells = cells /\ d.size = disk.size
      /\ d \in [kind : {"image", "device"}, size : Nat, tail : BOOLEAN, cells : Cells(disk.size),
                geom : [there : BOOLEAN, inner : Nat], gpt : BOOLEAN, backup : BOOLEAN, mbr : BOOLEAN,
                parts : PartitionTables, refused : SUBSET (0 .. disk.size)]
  BY <1>2 DEF IsMember, Cells
<1> HIDE DEF d
<1>4. IsMember(d)
  BY <1>2, <1>3 DEF IsMember, Cells
<1> QED
  BY <1>4 DEF d, cells

LEMMA LoseConfigKeeps ==
  ASSUME ScanInv, LoseConfig
  PROVE  ScanInv'
<1>1. IsMember(disk)
  BY DEF ScanInv, ScanTypes
<1>2. PICK u \in DOMAIN disk.cells : Damaged([disk EXCEPT !.cells[u].config = 0])
  BY DEF LoseConfig
<1> DEFINE c == [disk.cells[u] EXCEPT !.config = 0]
<1>3. [disk EXCEPT !.cells[u].config = 0] = [disk EXCEPT !.cells = [disk.cells EXCEPT ![u] = c]]
  BY Zenon
<1>4. /\ c \in [vdev : Vdevs \cup {Unwritten.vdev}, at : Nat, config : Nat, ring : SUBSET Nat]
      /\ Sealed(c, u)
  BY <1>1, CellLoses
<1> HIDE DEF c
<1>5. IsMember([disk EXCEPT !.cells = [disk.cells EXCEPT ![u] = c]])
  BY <1>1, <1>4, MemberLoses
<1> QED
  BY <1>2, <1>3, <1>5, DamageKeeps

LEMMA LoseRingKeeps ==
  ASSUME ScanInv, LoseRing
  PROVE  ScanInv'
<1>1. IsMember(disk)
  BY DEF ScanInv, ScanTypes
<1>2. PICK u \in DOMAIN disk.cells : Damaged([disk EXCEPT !.cells[u].ring = {}])
  BY DEF LoseRing
<1> DEFINE c == [disk.cells[u] EXCEPT !.ring = {}]
<1>3. [disk EXCEPT !.cells[u].ring = {}] = [disk EXCEPT !.cells = [disk.cells EXCEPT ![u] = c]]
  BY Zenon
<1>4. /\ c \in [vdev : Vdevs \cup {Unwritten.vdev}, at : Nat, config : Nat, ring : SUBSET Nat]
      /\ Sealed(c, u)
  BY <1>1, CellLoses
<1> HIDE DEF c
<1>5. IsMember([disk EXCEPT !.cells = [disk.cells EXCEPT ![u] = c]])
  BY <1>1, <1>4, MemberLoses
<1> QED
  BY <1>2, <1>3, <1>5, DamageKeeps

LEMMA RefuseKeeps ==
  ASSUME ScanInv, Refuse
  PROVE  ScanInv'
<1>1. IsMember(disk)
  BY DEF ScanInv, ScanTypes
<1>2. PICK u \in (0 .. Last(disk)) \ disk.refused : Damaged([disk EXCEPT !.refused = @ \cup {u}])
  BY DEF Refuse
<1>3. disk.size \in Nat /\ disk.tail \in BOOLEAN /\ disk.refused \subseteq 0 .. disk.size
  BY <1>1 DEF IsMember
<1>4. u \in 0 .. disk.size
  BY <1>2, <1>3 DEF Last
<1>5. IsMember([disk EXCEPT !.refused = @ \cup {u}])
  BY <1>1, <1>3, <1>4 DEF IsMember
<1> QED
  BY <1>2, <1>5, DamageKeeps

LEMMA LoseTableKeeps ==
  ASSUME ScanInv, LoseTable
  PROVE  ScanInv'
<1>1. IsMember(disk)
  BY DEF ScanInv, ScanTypes
<1>2. IsMember([disk EXCEPT !.gpt = FALSE]) /\ IsMember([disk EXCEPT !.backup = FALSE])
  BY <1>1 DEF IsMember
<1>3. Damaged([disk EXCEPT !.gpt = FALSE]) \/ Damaged([disk EXCEPT !.backup = FALSE])
  BY DEF LoseTable
<1> QED
  BY <1>2, <1>3, DamageKeeps

LEMMA RepartitionKeeps ==
  ASSUME ScanInv, Repartition
  PROVE  ScanInv'
<1>1. IsMember(disk)
  BY DEF ScanInv, ScanTypes
<1>2. PICK t \in Tables : Damaged([disk EXCEPT !.parts = t])
  BY DEF Repartition
<1>3. t \in PartitionTables
  BY ScanAssumption
<1>4. IsMember([disk EXCEPT !.parts = t])
  BY <1>1, <1>3 DEF IsMember
<1> QED
  BY <1>2, <1>4, DamageKeeps

LEMMA ScanLabelsKeeps ==
  ASSUME ScanInv, ScanLabels
  PROVE  ScanInv'
<1>1. phase = "evidence"
  BY DEF ScanLabels
<1>2. disk.size \in Nat
  BY DEF ScanInv, ScanTypes, IsMember
<1>3. CASE Fits(disk, 0, disk.size)
  <2>1. /\ phase' = "geom" /\ scan' = Begun(disk)
        /\ UNCHANGED <<disk, damage, search, parts, answer>>
    BY <1>3 DEF ScanLabels, Goes, Begun
  <2>2. ScanTypes' /\ AsItStands' /\ NothingSoFar' /\ NothingTried'
    BY <1>3, <2>1 DEF ScanInv, ScanTypes, AsItStands, NothingSoFar, NothingTried, Phases
  <2>3. OnlyHalts' /\ BaseIsProven' /\ AConfigurationIsFound' /\ RingsStandIn'
    BY <2>1, NotEnded
  <2> QED
    BY <2>2, <2>3 DEF ScanInv
<1>4. CASE ~ Fits(disk, 0, disk.size)
  <2>1. disk.size < LabelsPerVdev
    BY <1>2, <1>4 DEF Fits, Psize, Smaller, LabelsPerVdev
  <2>2. Fails /\ Halts
    BY <1>4, <2>1 DEF ScanLabels, Halts
  <2> QED
    BY <2>2, FailsWell
<1> QED
  BY <1>3, <1>4

LEMMA TryGeomKeeps ==
  ASSUME ScanInv, TryGeom
  PROVE  ScanInv'
<1> DEFINE shorter == OverGeom(disk)
           Taken == /\ GeomThere(disk) /\ Fits(disk, 0, GeomSize(disk))
                    /\ VerifiedLabels(shorter) > VerifiedLabels(scan)
<1>1. /\ phase = "geom" /\ IsMember(disk) /\ scan = Begun(disk) /\ Fits(disk, 0, disk.size)
  BY DEF TryGeom, ScanInv, ScanTypes, AsItStands
<1>2. disk.size \in Nat /\ disk.size > 0
  BY <1>1 DEF IsMember, Fits, Psize, Smaller, LabelsPerVdev
<1>3. GeomSize(disk) \in Nat
  BY <1>1, <1>2, GeomIsShorter
<1>4. VerifiedLabels(scan) \in Nat /\ VerifiedLabels(shorter) \in Nat
  <2>1. VerifiedLabels(Begun(disk)) \in Nat
    BY ScanCounts DEF Begun
  <2>2. VerifiedLabels(OverGeom(disk)) \in Nat
    BY ScanCounts DEF OverGeom
  <2> QED
    BY <1>1, <2>1, <2>2
<1>5. CASE ~ GeomReads(disk)
  <2>1. Fails /\ Halts
    BY <1>5 DEF TryGeom, Halts
  <2> QED
    BY <2>1, FailsWell
<1>6. CASE GeomReads(disk) /\ Taken
  <2>1. Answers(shorter)
    BY <1>6 DEF TryGeom, OverGeom
  <2>2. VerifiedLabels(shorter) > 0
    BY <1>4, <1>6
  <2>3. Proven(shorter)
    BY <1>1, <1>3, <1>6, <2>2, ScanIsProven DEF OverGeom
  <2> QED
    BY <2>1, <2>2, <2>3, AnswersWithALabel
<1>7. CASE GeomReads(disk) /\ ~ Taken /\ VerifiedLabels(scan) > 0
  <2>1. Answers(scan)
    BY <1>7 DEF TryGeom, OverGeom
  <2>2. Proven(scan)
    BY <1>1, <1>2, <1>7, ScanIsProven DEF Begun
  <2> QED
    BY <1>7, <2>1, <2>2, AnswersWithALabel
<1>8. CASE GeomReads(disk) /\ ~ Taken /\ ~ (VerifiedLabels(scan) > 0)
  <2>1. Goes("table", scan)
    BY <1>8 DEF TryGeom, OverGeom
  <2>2. phase' = "table" /\ UNCHANGED <<disk, damage, search, scan, parts, answer>>
    BY <2>1 DEF Goes
  <2>3. VerifiedLabels(scan) = 0 /\ NothingUnderGeom(disk)
    BY <1>4, <1>8 DEF NothingUnderGeom
  <2>4. ScanTypes' /\ AsItStands' /\ NothingSoFar' /\ NothingTried'
    BY <1>1, <2>2, <2>3 DEF ScanInv, ScanTypes, AsItStands, NothingSoFar, NothingTried, Phases
  <2>5. OnlyHalts' /\ BaseIsProven' /\ AConfigurationIsFound' /\ RingsStandIn'
    BY <2>2, NotEnded
  <2> QED
    BY <2>4, <2>5 DEF ScanInv
<1> QED
  BY <1>5, <1>6, <1>7, <1>8

LEMMA ReadTableKeeps ==
  ASSUME ScanInv, ReadTable
  PROVE  ScanInv'
<1>1. phase = "table" /\ IsMember(disk)
  BY DEF ReadTable, ScanInv, ScanTypes
<1>2. CASE TableReads(disk)
  <2>1. phase' = "parts" /\ parts' = Table(disk) /\ UNCHANGED <<disk, damage, search, scan, answer>>
    BY <1>2 DEF ReadTable
  <2>2. Table(disk) \subseteq Nat
    <3>1. disk.parts \in Seq([start : Nat, length : Nat, zfs : BOOLEAN])
      BY <1>1 DEF IsMember, PartitionTables
    <3>2. DOMAIN disk.parts \subseteq Nat
      BY <3>1
    <3> QED
      BY <3>2 DEF Table
  <2>3. ScanTypes' /\ AsItStands' /\ NothingSoFar' /\ NothingTried'
    BY <1>1, <2>1, <2>2 DEF ScanInv, ScanTypes, AsItStands, NothingSoFar, NothingTried, Phases
  <2>4. OnlyHalts' /\ BaseIsProven' /\ AConfigurationIsFound' /\ RingsStandIn'
    BY <2>1, NotEnded
  <2> QED
    BY <2>3, <2>4 DEF ScanInv
<1>3. CASE ~ TableReads(disk)
  <2>1. Fails /\ Halts
    BY <1>3 DEF ReadTable, Halts
  <2> QED
    BY <2>1, FailsWell
<1> QED
  BY <1>2, <1>3

LEMMA TryPartitionKeeps ==
  ASSUME ScanInv, TryPartition
  PROVE  ScanInv'
<1>1. phase = "parts" /\ IsMember(disk) /\ parts \subseteq Table(disk) /\ parts \subseteq Nat
  BY DEF TryPartition, ScanInv, ScanTypes, NothingTried
<1>2. PICK k \in parts :
        IF ~ Skipped(disk.parts[k]) /\ ~ Fits(disk, disk.parts[k].start, disk.parts[k].length) THEN Fails
        ELSE IF ~ Skipped(disk.parts[k]) /\ Accepts(Inside(disk, disk.parts[k])) THEN Answers(Inside(disk, disk.parts[k]))
        ELSE /\ parts' = parts \ {k}
             /\ UNCHANGED <<disk, damage, search, phase, scan, answer>>
  BY DEF TryPartition, Inside
<1> DEFINE p == disk.parts[k]
<1>3. k \in DOMAIN disk.parts /\ TableFound(disk) /\ p \in Listed
  BY <1>1, <1>2 DEF Table, Listed
<1>4. p.start \in Nat /\ p.length \in Nat
  <2>1. disk.parts \in Seq([start : Nat, length : Nat, zfs : BOOLEAN])
    BY <1>1 DEF IsMember, PartitionTables
  <2> DEFINE Partitions == [start : Nat, length : Nat, zfs : BOOLEAN]
  <2> HIDE DEF Partitions
  <2>2. \A table \in Seq(Partitions) : \A i \in DOMAIN table : table[i] \in Partitions
    OBVIOUS
  <2>3. p \in [start : Nat, length : Nat, zfs : BOOLEAN]
    BY <1>3, <2>1, <2>2 DEF Partitions
  <2> QED
    BY <2>3
<1>5. CASE ~ Skipped(p) /\ ~ Fits(disk, p.start, p.length)
  <2>1. Fails /\ Halts
    BY <1>2, <1>3, <1>5 DEF Halts
  <2> QED
    BY <2>1, FailsWell
<1>6. CASE ~ Skipped(p) /\ Fits(disk, p.start, p.length) /\ Accepts(Inside(disk, p))
  <2>1. Answers(Inside(disk, p)) /\ VerifiedLabels(Inside(disk, p)) > 0
    BY <1>2, <1>6 DEF Accepts
  <2>2. Proven(Inside(disk, p))
    BY <1>1, <1>4, <1>6, <2>1, ScanIsProven DEF Inside
  <2> QED
    BY <2>1, <2>2, AnswersWithALabel
<1>7. CASE Skipped(p) \/ (Fits(disk, p.start, p.length) /\ ~ Accepts(Inside(disk, p)))
  <2>1. parts' = parts \ {k} /\ UNCHANGED <<disk, damage, search, phase, scan, answer>>
    BY <1>2, <1>7
  <2>2. Skipped(p) \/ NothingInside(disk, p)
    <3>2. VerifiedLabels(Inside(disk, p)) \in Nat
      BY ScanCounts DEF Inside
    <3> QED
      BY <1>7, <3>2 DEF Accepts, NothingInside
  <2>3. \A j \in Table(disk) \ (parts \ {k}) : Skipped(disk.parts[j]) \/ NothingInside(disk, disk.parts[j])
    BY <1>1, <2>2 DEF ScanInv, NothingTried
  <2>4. \A q : Skipped(q)' <=> Skipped(q)
    BY <2>1 DEF Skipped
  <2>5. NothingTried'
    BY <1>1, <2>1, <2>3, <2>4 DEF NothingTried
  <2>6. ScanTypes' /\ AsItStands' /\ NothingSoFar'
    BY <1>1, <2>1 DEF ScanInv, ScanTypes, AsItStands, NothingSoFar
  <2>7. OnlyHalts' /\ BaseIsProven' /\ AConfigurationIsFound' /\ RingsStandIn'
    BY <1>1, <2>1, NotEnded
  <2> QED
    BY <2>5, <2>6, <2>7 DEF ScanInv
<1> QED
  BY <1>5, <1>6, <1>7

\* A label that is not looked for in a known place is looked for where a ring
\* in front gives the base.
LEMMA LookedAtByRings ==
  ASSUME ScanInv, phase = "parts", parts = {},
         NEW v \in Vdevs, NEW u \in ConfigsLeft(v), LookedAt(v, u)
  PROVE  /\ Anchored(v) /\ v.base # 0
         /\ u \in Front(v) \/ v.base + v.size = disk.size
<1>1. IsMember(disk)
  BY DEF ScanInv, ScanTypes
<1>2. ~ InAKnownPlace(v, u)
  BY KnownPlacesAreTried
<1>3. Anchored(v) /\ (u \in Front(v) \/ v.base + v.size = disk.size)
  BY <1>2 DEF LookedAt, InAKnownPlace
<1>4. v.base # 0
  <2>1. v.size \in Nat
    BY ScanAssumption
  <2> QED
    BY <1>2, <1>3, <2>1 DEF InAKnownPlace
<1> QED
  BY <1>3, <1>4

LEMMA NotSearchedKeeps ==
  ASSUME ScanInv, NotSearched
  PROVE  ScanInv'
<1> DEFINE s == [scan EXCEPT !.source = "surface scan refused"]
<1>1. phase = "parts" /\ parts = {} /\ ~ Searched /\ Answers(s)
  BY DEF NotSearched, Searched
<1>2. /\ ScanTypes' /\ AsItStands' /\ NothingSoFar' /\ NothingTried' /\ OnlyHalts'
      /\ phase' = "done" /\ answer' = s /\ UNCHANGED <<disk, search>>
  BY <1>1, AnswersKeeps
<1>3. VerifiedLabels(s) = 0 /\ s.source = "surface scan refused"
  <2>1. scan = Begun(disk) /\ VerifiedLabels(scan) = 0
    BY <1>1 DEF ScanInv, AsItStands, NothingSoFar
  <2>2. s.labels = scan.labels /\ s.source = "surface scan refused"
    BY <2>1 DEF Begun, DeviceScan
  <2> QED
    BY <2>1, <2>2 DEF VerifiedLabels
<1> HIDE DEF s
<1>4. BaseIsProven'
  <2>1. answer'.source = "surface scan refused"
    BY <1>2, <1>3
  <2>2. VerifiedLabels(answer') = 0
    BY <1>2, <1>3
  <2>3. ~ (VerifiedLabels(answer') > 0)
    BY <2>2
  <2> QED
    BY <2>1, <2>3 DEF BaseIsProven
<1>5. \A v \in Vdevs : ~ Anchored(v)
  BY <1>1 DEF Anchored
<1>6. AConfigurationIsFound'
  <2>1. \A v \in Vdevs : \A u \in ConfigsLeft(v) : ~ LookedAt(v, u)
    BY <1>1, <1>5, LookedAtByRings
  <2> QED
    BY <1>2, <2>1, WorldStays DEF AConfigurationIsFound
<1>7. RingsStandIn'
  BY <1>2, <1>5, WorldStays DEF RingsStandIn
<1> QED
  BY <1>2, <1>4, <1>6, <1>7 DEF ScanInv

\* A search that finds no base leaves the scan as it was: no vdev has a ring in
\* front that stands alone.
LEMMA SearchFindsNothing ==
  ASSUME ScanInv, SearchFinds, ZeroPoint(disk) = {}, Answers(scan)
  PROVE  ScanInv'
<1>1. phase = "parts" /\ parts = {} /\ IsMember(disk)
  BY DEF SearchFinds, ScanInv, ScanTypes
<1>2. /\ ScanTypes' /\ AsItStands' /\ NothingSoFar' /\ NothingTried' /\ OnlyHalts'
      /\ phase' = "done" /\ answer' = scan /\ UNCHANGED <<disk, search>>
  BY AnswersKeeps
<1>3. VerifiedLabels(scan) = 0 /\ scan.source = "none"
  <2>1. scan = Begun(disk) /\ VerifiedLabels(scan) = 0
    BY <1>1 DEF ScanInv, AsItStands, NothingSoFar
  <2>2. Begun(disk).source = "none"
    BY LabelsOfAScan DEF Begun
  <2> QED
    BY <2>1, <2>2
<1>4. BaseIsProven'
  BY <1>2, <1>3 DEF BaseIsProven
<1>5. \A v \in Vdevs : ~ Anchored(v)
  BY <1>1, AnchoredGivesTheBase
<1>6. AConfigurationIsFound'
  <2>1. \A v \in Vdevs : \A u \in ConfigsLeft(v) : ~ LookedAt(v, u)
    BY <1>1, <1>5, LookedAtByRings
  <2> QED
    BY <1>2, <2>1, WorldStays DEF AConfigurationIsFound
<1>7. RingsStandIn'
  BY <1>2, <1>5, WorldStays DEF RingsStandIn
<1> QED
  BY <1>2, <1>4, <1>6, <1>7 DEF ScanInv

\* A scan made of rings is read where they say, and has them all.
LEMMA RingsOfTheBase ==
  ASSUME NEW d, NEW zero
  PROVE  LET s == ScanFromAnchors(d, zero)
         IN  /\ s.base = zero /\ s.source = "uberblock checksum" /\ Config(s) = {}
             /\ VerifiedLabels(s) = 0 /\ Txgs(s) = Uberblocks(d, zero)
<1> DEFINE s == ScanFromAnchors(d, zero)
<1>1. /\ s.base = zero /\ s.source = "uberblock checksum" /\ s.best = {}
      /\ DOMAIN s.labels = {1} /\ s.labels[1].txg = 0 /\ s.labels[1].ring = Uberblocks(d, zero)
  BY DEF ScanFromAnchors
<1> HIDE DEF s
<1>2. Config(s) = {}
  BY <1>1 DEF Config
<1>3. VerifiedLabels(s) = 0
  <2>4. DOMAIN s.labels = {1} /\ s.labels[1].txg = 0
    BY <1>1
  <2>1. DOMAIN s.labels \subseteq 1 .. 4
    BY <2>4
  <2>2. ~ \E k \in DOMAIN s.labels : ConfigVerified(s.labels[k])
    <3>1. ~ ConfigVerified(s.labels[1])
      <4>1. ~ (s.labels[1].txg > 0)
        BY <2>4
      <4> QED
        BY <4>1 DEF ConfigVerified
    <3> QED
      BY <1>1, <3>1
  <2>3. VerifiedLabels(s) \in Nat /\ (VerifiedLabels(s) > 0 <=> \E k \in DOMAIN s.labels : ConfigVerified(s.labels[k]))
    BY <2>1, SomeVerifies
  <2> QED
    BY <2>2, <2>3
<1>4. Txgs(s) = Uberblocks(d, zero)
  BY <1>1 DEF Txgs
<1> QED
  BY <1>1, <1>2, <1>3, <1>4 DEF s

LEMMA SearchFindsKeeps ==
  ASSUME ScanInv, SearchFinds
  PROVE  ScanInv'
<1>1. phase = "parts" /\ parts = {} /\ IsMember(disk)
  BY DEF SearchFinds, ScanInv, ScanTypes
<1>2. CASE ZeroPoint(disk) = {} /\ Answers(scan)
  BY <1>2, SearchFindsNothing
<1>3. CASE ~ (ZeroPoint(disk) = {} /\ Answers(scan))
  <2>1. PICK zero \in ZeroPoint(disk) :
          IF zero # 0 /\ ~ Fits(disk, zero, disk.size - zero) THEN Fails
          ELSE IF zero # 0 /\ VerifiedLabels(Shifted(disk, zero)) > 0 THEN Answers(Shifted(disk, zero))
          ELSE Answers(ScanFromAnchors(disk, zero))
    BY <1>3 DEF SearchFinds, Shifted
  <2>2. PICK base \in Vdevs : base.base = zero /\ zero \in Nat
    BY <1>1, <2>1, ZeroIsABase
  <2>3. zero <= disk.size /\ disk.size - zero \in Nat /\ disk.size \in Nat
    <3>1. PICK f \in Anchors(disk) : zero = Base(disk, f)
      BY <2>1 DEF ZeroPoint
    <3>2. f \in Hits(disk)
      BY <3>1 DEF Anchors
    <3>3. f \in 0 .. disk.size - 1 /\ f = zero + disk.cells[f].at /\ disk.cells[f].at \in Nat
      BY <1>1, <3>1, <3>2, HitIsARing
    <3>4. disk.size \in Nat
      BY <1>1 DEF IsMember
    <3> QED
      BY <2>2, <3>3, <3>4
  <2>4. CASE zero # 0 /\ ~ Fits(disk, zero, disk.size - zero)
    <3>1. Psize(disk, zero, disk.size) = Psize(disk, zero, disk.size - zero)
      BY <2>2, <2>3 DEF Psize, Smaller
    <3>2. ~ Fits(disk, zero, disk.size)
      BY <2>4, <3>1 DEF Fits
    <3>3. Halts
      BY <2>1, <3>2 DEF Halts
    <3>4. Fails
      BY <2>1, <2>4
    <3> QED
      BY <3>3, <3>4, FailsWell
  <2>5. CASE zero # 0 /\ Fits(disk, zero, disk.size - zero) /\ VerifiedLabels(Shifted(disk, zero)) > 0
    <3>1. Answers(Shifted(disk, zero))
      BY <2>1, <2>5
    <3>2. Proven(Shifted(disk, zero))
      BY <1>1, <2>2, <2>3, <2>5, ScanIsProven DEF Shifted
    <3> QED
      BY <2>5, <3>1, <3>2, AnswersWithALabel
  <2>6. CASE /\ zero # 0 => Fits(disk, zero, disk.size - zero)
             /\ zero = 0 \/ ~ (VerifiedLabels(Shifted(disk, zero)) > 0)
    <3> DEFINE s == ScanFromAnchors(disk, zero)
    <3>1. Answers(s)
      BY <2>1, <2>6
    <3>2. /\ s.base = zero /\ Config(s) = {} /\ VerifiedLabels(s) = 0
          /\ Txgs(s) = Uberblocks(disk, zero)
      BY RingsOfTheBase
    <3> HIDE DEF s
    <3>3. /\ ScanTypes' /\ AsItStands' /\ NothingSoFar' /\ NothingTried' /\ OnlyHalts'
          /\ phase' = "done" /\ answer' = s /\ UNCHANGED <<disk, search>>
      BY <3>1, AnswersKeeps
    <3>4. BaseIsProven'
      BY <2>2, <3>2, <3>3 DEF BaseIsProven
    <3>5. AConfigurationIsFound'
      <4>1. ASSUME NEW v \in Vdevs, NEW u \in ConfigsLeft(v), LookedAt(v, u)
            PROVE  FALSE
        <5>1. /\ Anchored(v) /\ v.base # 0
              /\ u \in Front(v) \/ v.base + v.size = disk.size
          BY <1>1, <4>1, LookedAtByRings
        <5>2. v.base = zero
          BY <1>1, <2>1, <5>1, AnchoredGivesTheBase
        <5>3. v.size \in Nat
          BY ScanAssumption
        <5>4. u \in Front(v) \/ v.size = disk.size - zero
          BY <2>2, <2>3, <5>1, <5>2, <5>3
        <5>5. /\ u \in 0 .. disk.size - 1 /\ u \notin disk.refused
              /\ disk.cells[u].vdev = v /\ disk.cells[u].config > 0
          BY <1>1, ConfigIsAUnit
        <5>6. VerifiedLabels(Shifted(disk, zero)) > 0
          <6>1. Fits(disk, v.base, disk.size - zero) /\ disk.size - zero \in Nat
            BY <2>3, <2>6, <5>1, <5>2
          <6>2. VerifiedLabels(DeviceScan(disk, v.base, disk.size - zero, "uberblock checksum")) > 0
            BY <1>1, <5>4, <5>5, <6>1, LabelIsSeen
          <6> QED
            BY <5>2, <6>2 DEF Shifted
        <5> QED
          BY <2>6, <5>1, <5>2, <5>6
      <4>2. \A v \in Vdevs : \A u \in ConfigsLeft(v) : ~ LookedAt(v, u)
        BY <4>1
      <4> QED
        BY <3>3, <4>2, WorldStays DEF AConfigurationIsFound
    <3>6. RingsStandIn'
      <4>1. ASSUME NEW v \in Vdevs, Anchored(v)
            PROVE  /\ s.base = v.base
                   /\ \A u \in RingsLeft(v) \cap Windows(disk) : disk.cells[u].ring \subseteq Txgs(s)
        <5>1. v.base = zero /\ \A u \in RingsLeft(v) \cap Windows(disk) : u \in AnchorsOf(disk, zero)
          BY <1>1, <2>1, <4>1, AnchoredGivesTheBase
        <5> QED
          BY <3>2, <5>1 DEF Uberblocks
      <4>2. \A v \in Vdevs : /\ Anchored(v)' <=> Anchored(v)
                             /\ RingsLeft(v)' = RingsLeft(v)
        BY <3>3, WorldStays
      <4> QED
        BY <3>3, <4>1, <4>2 DEF RingsStandIn
    <3> QED
      BY <3>3, <3>4, <3>5, <3>6 DEF ScanInv
  <2> QED
    BY <2>4, <2>5, <2>6
<1> QED
  BY <1>2, <1>3

-----------------------------------------------------------------------------
(* The theorems                                                            *)

LEMMA ScanBegins ==
  ASSUME Init
  PROVE  ScanInv
<1>1. /\ disk \in Members /\ damage = 0 /\ search \in BOOLEAN
      /\ phase = "evidence" /\ parts = {}
  BY DEF Init
<1>2. IsMember(disk)
  BY <1>1, ScanAssumption
<1> QED
  BY <1>1, <1>2 DEF ScanInv, ScanTypes, AsItStands, NothingSoFar, NothingTried, OnlyHalts, Phases,
                    BaseIsProven, AConfigurationIsFound, RingsStandIn

LEMMA StandingStillKeeps ==
  ASSUME ScanInv, UNCHANGED vars
  PROVE  ScanInv'
<1>1. UNCHANGED <<disk, damage, search, phase, scan, parts, answer>>
  BY DEF vars
<1>2. ScanTypes' /\ AsItStands' /\ NothingSoFar'
  BY <1>1 DEF ScanInv, ScanTypes, AsItStands, NothingSoFar
<1>3. NothingTried'
  <2>1. \A q : Skipped(q)' <=> Skipped(q)
    BY <1>1 DEF Skipped
  <2> QED
    BY <1>1, <2>1 DEF ScanInv, NothingTried
<1>4. OnlyHalts'
  BY <1>1, WorldStays DEF ScanInv, OnlyHalts
<1>5. BaseIsProven'
  BY <1>1 DEF ScanInv, BaseIsProven
<1>6. AConfigurationIsFound'
  BY <1>1, WorldStays DEF ScanInv, AConfigurationIsFound
<1>7. RingsStandIn'
  BY <1>1, WorldStays DEF ScanInv, RingsStandIn
<1> QED
  BY <1>2, <1>3, <1>4, <1>5, <1>6, <1>7 DEF ScanInv

LEMMA ScanStep ==
  ASSUME ScanInv, [Next]_vars
  PROVE  ScanInv'
<1>1. CASE LoseConfig
  BY <1>1, LoseConfigKeeps
<1>2. CASE LoseRing
  BY <1>2, LoseRingKeeps
<1>3. CASE Refuse
  BY <1>3, RefuseKeeps
<1>4. CASE LoseTable
  BY <1>4, LoseTableKeeps
<1>5. CASE Repartition
  BY <1>5, RepartitionKeeps
<1>6. CASE ScanLabels
  BY <1>6, ScanLabelsKeeps
<1>7. CASE TryGeom
  BY <1>7, TryGeomKeeps
<1>8. CASE ReadTable
  BY <1>8, ReadTableKeeps
<1>9. CASE TryPartition
  BY <1>9, TryPartitionKeeps
<1>10. CASE NotSearched
  BY <1>10, NotSearchedKeeps
<1>11. CASE SearchFinds
  BY <1>11, SearchFindsKeeps
<1>12. CASE Ended \/ UNCHANGED vars
  BY <1>12, StandingStillKeeps DEF Ended
<1> QED
  BY <1>1, <1>2, <1>3, <1>4, <1>5, <1>6, <1>7, <1>8, <1>9, <1>10, <1>11, <1>12 DEF Next

\* What is known of a member at each phase of its scan
\* (scan_with_recovered_base_opts).
THEOREM ScanInvHolds == Spec => []ScanInv
<1>1. Init => ScanInv
  BY ScanBegins
<1>2. ScanInv /\ [Next]_vars => ScanInv'
  BY ScanStep
<1> QED
  BY <1>1, <1>2, PTL DEF Spec

\* "A base is only ever accepted when a checksum confirms it", whatever lies on
\* the member and whatever its table was rewritten to: a vdev began there, and
\* the configuration is of one that did (scan_with_recovered_base).
THEOREM BaseIsProvenHolds == Spec => []BaseIsProven
<1>1. ScanInv => BaseIsProven
  BY DEF ScanInv
<1> QED
  BY <1>1, ScanInvHolds, PTL

\* A configuration that survived in one label is found, in every member and
\* through any damage, if its place follows from the member, GEOM's sector, the
\* table or a ring (scan_device_range, scan_with_recovered_base_opts, find).
THEOREM AConfigurationIsFoundHolds == Spec => []AConfigurationIsFound
<1>1. ScanInv => AConfigurationIsFound
  BY DEF ScanInv
<1> QED
  BY <1>1, ScanInvHolds, PTL

\* Where no configuration is left, a ring in a front label gives the base of its
\* vdev and every uberblock that the search can see (find, confirm, ranked,
\* scan_from_anchors).
THEOREM RingsStandInHolds == Spec => []RingsStandIn
<1>1. ScanInv => RingsStandIn
  BY DEF ScanInv
<1> QED
  BY <1>1, ScanInvHolds, PTL
=============================================================================
