------------------------------ MODULE MemberScan ------------------------------
(***************************************************************************)
(* What one member is taken to be: `scan_with_recovered_base`, from the    *)
(* four labels where they should be, over GEOM's last sector and the       *)
(* partition table, to uberblocks anywhere on it.                          *)
(*                                                                         *)
(* A member is its units of 256 KiB, the size of a label.  A label is      *)
(* sealed with its offset in its vdev, and verifies where it is read as    *)
(* that offset and nowhere else: this is all that a checksum is here.      *)
(*                                                                         *)
(* Simplifications:                                                        *)
(*  - a configuration is whole or gone, and so is a ring; the slot size of *)
(*    a ring is known;                                                     *)
(*  - a vdev and a partition begin at a unit, a refused unit holds every   *)
(*    sector in it, and a table is read with one sector size;              *)
(*  - what is refused is skipped (an imager's map, or a device that may    *)
(*    fail): the stop of a run is in DumpRun.                              *)
(***************************************************************************)
EXTENDS Naturals, Sequences, FiniteSets, FiniteSetsExt

CONSTANTS
  Vdevs,       \* the vdevs that were ever on a member: [base, size], in units
  Members,     \* members as they were before anything happened to them
  Tables,      \* what a partition table may be rewritten to
  Edge,        \* units searched at each end (64 MiB in the code)
  MaxDamage    \* how many things happen to a member (bound)

Unwritten == [vdev |-> [base |-> 0, size |-> 0], at |-> 0, config |-> 0, ring |-> {}]

LabelsPerVdev == 4

\* label_offsets: two labels in front, two against the end
LabelOffsets(size) == <<0, 1, size - 2, size - 1>>

\* What a unit holds of a label was written with the offset it has in its vdev
Sealed(cell, u) ==
  cell.config > 0 \/ cell.ring # {} =>
    /\ cell.vdev \in Vdevs /\ u = cell.vdev.base + cell.at
    /\ \E k \in 1 .. LabelsPerVdev : cell.at = LabelOffsets(cell.vdev.size)[k]

PartitionTables == Seq([start : Nat, length : Nat, zfs : BOOLEAN])

\* tail: the member ends in part of a unit; geom.inner: the whole units of the
\* provider GEOM recorded, 0 when it recorded none; gpt, backup, mbr: where a
\* table can be read from
IsMember(d) ==
  /\ d \in [kind : {"image", "device"}, size : Nat, tail : BOOLEAN,
             cells : [0 .. d.size - 1 ->
               [vdev : Vdevs \cup {Unwritten.vdev}, at : Nat, config : Nat, ring : SUBSET Nat]],
             geom : [there : BOOLEAN, inner : Nat], gpt : BOOLEAN, backup : BOOLEAN, mbr : BOOLEAN,
             parts : PartitionTables, refused : SUBSET (0 .. d.size)]
  /\ \A u \in DOMAIN d.cells : Sealed(d.cells[u], u)

ASSUME ScanAssumption ==
  /\ \A v \in Vdevs : v.base \in Nat /\ v.size \in Nat /\ v.size >= LabelsPerVdev
  /\ \A d \in Members : IsMember(d) /\ d.refused = {}
  /\ Tables \subseteq PartitionTables
  /\ Edge \in Nat \ {0} /\ MaxDamage \in Nat

VARIABLES
  disk,      \* the member
  damage,    \* how much has happened to it
  search,    \* --surface-scan-on-device
  phase, scan,
  parts,     \* partitions that were not tried yet
  answer     \* what the member is taken to be

vars == <<disk, damage, search, phase, scan, parts, answer>>

-----------------------------------------------------------------------------
(* scan_device_range                                                       *)

Smaller(m, n) == IF m < n THEN m ELSE n
Psize(d, base, psize) == Smaller(psize, IF base > d.size THEN 0 ELSE d.size - base)
Fits(d, base, psize) == Psize(d, base, psize) >= LabelsPerVdev

\* Zeros where the member refuses
ReadSalvaging(d, u) == IF u \in d.refused THEN Unwritten ELSE d.cells[u]

LabelScan(d, base, at) ==
  LET cell == ReadSalvaging(d, base + at)
  IN  [vdev |-> cell.vdev, txg |-> cell.config, ok |-> cell.at = at,
       ring |-> IF cell.at = at THEN cell.ring ELSE {}]

ConfigVerified(label) == label.txg > 0 /\ label.ok
VerifiedLabels(s) == Cardinality({k \in DOMAIN s.labels : ConfigVerified(s.labels[k])})

\* pick_best_label: the newest that verifies, else the newest that parses; the
\* last of several
BestLabel(labels) ==
  LET parsed == {k \in DOMAIN labels : labels[k].txg > 0}
      verified == {k \in parsed : labels[k].ok}
      among == IF verified # {} THEN verified ELSE parsed
  IN  {k \in among : \A j \in among : labels[j].txg < labels[k].txg
                                        \/ (labels[j].txg = labels[k].txg /\ j <= k)}

DeviceScan(d, base, psize, source) ==
  LET offsets == LabelOffsets(Psize(d, base, psize))
      labels == [k \in 1 .. LabelsPerVdev |-> LabelScan(d, base, offsets[k])]
  IN  [base |-> base, source |-> source, labels |-> labels, best |-> BestLabel(labels)]

Config(s) == {[vdev |-> s.labels[k].vdev, txg |-> s.labels[k].txg] : k \in s.best}
Txgs(s) == UNION {s.labels[k].ring : k \in DOMAIN s.labels}

-----------------------------------------------------------------------------
(* GEOM metadata and the partition table                                   *)

\* Of the last label when that ends with the member, else a read of its own
GeomReads(d) == d.tail => d.size \notin d.refused
GeomThere(d) == d.geom.there /\ (~d.tail => d.size - 1 \notin d.refused)

\* The provider ZFS was given: as recorded, if that is shorter than the
\* member, else one sector less
GeomSize(d) ==
  LET shorter(n) == n > 0 /\ (n < d.size \/ (n = d.size /\ d.tail))
  IN  IF shorter(d.geom.inner) THEN d.geom.inner
      ELSE IF d.tail THEN d.size ELSE d.size - 1

\* partition_table: the primary, the backup, then an MBR; each is a plain read
Last(d) == IF d.tail THEN d.size ELSE d.size - 1
TableReads(d) == 0 \notin d.refused /\ (d.gpt \/ Last(d) \notin d.refused)
TableFound(d) == d.gpt \/ d.backup \/ d.mbr

TableOfZfs(d) ==   \* mutant: partitions of other types are not tried
  IF TableFound(d) THEN {k \in DOMAIN d.parts : d.parts[k].zfs} ELSE {}
Table(d) == IF TableFound(d) THEN DOMAIN d.parts ELSE {}

\* Those ZFS is normally found in come first
Before(d, j, k) ==
  IF d.parts[j].zfs = d.parts[k].zfs THEN j <= k ELSE d.parts[j].zfs

-----------------------------------------------------------------------------
(* find                                                                    *)

Windows(d) ==
  IF d.size <= 2 * Edge THEN 0 .. d.size - 1
  ELSE (0 .. Edge - 1) \cup (d.size - Edge .. d.size - 1)

Hits(d) == {u \in Windows(d) : ReadSalvaging(d, u).ring # {}}
Base(d, u) == u - d.cells[u].at

\* confirm_slot: a front label, or a rear one of a vdev as long as the member
ConfirmSlot(d, u) ==
  /\ d.cells[u].at \in {0, 1} \cup {n \in {d.size - 2, d.size - 1} : d.size >= LabelsPerVdev}
  /\ d.cells[u].at <= u

ConfirmAgainstBase(d, u, base) == base + d.cells[u].at = u

AnchorsAlone(d) == {u \in Hits(d) : ConfirmSlot(d, u)}   \* mutant: not against bases found

\* confirm: against the bases found so far first
Anchors(d) ==
  {u \in Hits(d) :
     \/ ConfirmSlot(d, u)
     \/ \E v \in Hits(d) : v < u /\ ConfirmSlot(d, v) /\ ConfirmAgainstBase(d, u, Base(d, v))}

AnchorsOf(d, base) == {u \in Anchors(d) : Base(d, u) = base}
Uberblocks(d, base) == UNION {d.cells[u].ring : u \in AnchorsOf(d, base)}
Slots(d, base) == MapThenSumSet(LAMBDA u : Cardinality(d.cells[u].ring), AnchorsOf(d, base))

\* ranked: most anchors, newest TXG, lowest base
Better(d, a, b) ==
  LET na == Slots(d, a)            nb == Slots(d, b)
      ta == Max(Uberblocks(d, a))  tb == Max(Uberblocks(d, b))
  IN  na > nb \/ (na = nb /\ (ta > tb \/ (ta = tb /\ a <= b)))
ZeroPoint(d) ==
  LET bases == {Base(d, u) : u \in Anchors(d)}
  IN  {a \in bases : \A b \in bases : Better(d, a, b)}

\* scan_from_anchors: no configuration, but the rings and the base
ScanFromAnchors(d, base) ==
  [base |-> base, source |-> "uberblock checksum",
   labels |-> [k \in {1} |-> [vdev |-> Unwritten.vdev, txg |-> 0, ok |-> TRUE,
                              ring |-> Uberblocks(d, base)]],
   best |-> {}]

-----------------------------------------------------------------------------
(* What happens to a member, and the scan                                  *)

NoScan == [base |-> 0, source |-> "none", labels |-> <<>>, best |-> {}]

Init ==
  /\ disk \in Members /\ damage = 0 /\ search \in BOOLEAN
  /\ phase = "evidence" /\ scan = NoScan /\ parts = {} /\ answer = NoScan

Damaged(d) ==
  /\ phase = "evidence" /\ damage < MaxDamage
  /\ disk' = d /\ damage' = damage + 1
  /\ UNCHANGED <<search, phase, scan, parts, answer>>

LoseConfig == \E u \in DOMAIN disk.cells :
  disk.cells[u].config > 0 /\ Damaged([disk EXCEPT !.cells[u].config = 0])
LoseRing == \E u \in DOMAIN disk.cells :
  disk.cells[u].ring # {} /\ Damaged([disk EXCEPT !.cells[u].ring = {}])
Refuse == \E u \in (0 .. Last(disk)) \ disk.refused :
  Damaged([disk EXCEPT !.refused = @ \cup {u}])
LoseTable ==
  \/ disk.gpt /\ Damaged([disk EXCEPT !.gpt = FALSE])
  \/ disk.backup /\ Damaged([disk EXCEPT !.backup = FALSE])
Repartition == \E t \in Tables :
  disk.gpt /\ disk.parts # t /\ Damaged([disk EXCEPT !.parts = t])

Goes(p, s) == /\ phase' = p /\ scan' = s
              /\ UNCHANGED <<disk, damage, search, parts, answer>>
Answers(s) == /\ phase' = "done" /\ answer' = s
              /\ UNCHANGED <<disk, damage, search, scan, parts>>
Fails == /\ phase' = "failed"
         /\ UNCHANGED <<disk, damage, search, scan, parts, answer>>

ScanLabels ==
  /\ phase = "evidence"
  /\ IF Fits(disk, 0, disk.size) THEN Goes("geom", DeviceScan(disk, 0, disk.size, "none"))
     ELSE Fails

\* The reading that verifies more labels
TryGeom ==
  /\ phase = "geom"
  /\ LET shorter == DeviceScan(disk, 0, GeomSize(disk), "GEOM metadata")
     IN  IF ~GeomReads(disk) THEN Fails
         ELSE IF /\ GeomThere(disk) /\ Fits(disk, 0, GeomSize(disk))
                 /\ VerifiedLabels(shorter) > VerifiedLabels(scan)
              THEN Answers(shorter)
         ELSE IF VerifiedLabels(scan) > 0 THEN Answers(scan)
         ELSE Goes("table", scan)

ReadTable ==
  /\ phase = "table"
  /\ IF TableReads(disk)
     THEN /\ phase' = "parts" /\ parts' = Table(disk)
          /\ UNCHANGED <<disk, damage, search, scan, answer>>
     ELSE Fails

Skipped(p) == p.start = 0 \/ p.start >= disk.size

AcceptsWhatParses(s) == s.best # {}   \* mutant: no checksum asked for

\* Whether the labels in a partition are taken for the member's
Accepts(s) == VerifiedLabels(s) > 0

TryPartition ==
  /\ phase = "parts"
  /\ \E k \in parts :
       LET p == disk.parts[k]
           inner == DeviceScan(disk, p.start, p.length, "partition table")
       IN  /\ \A j \in parts : Before(disk, k, j)
           /\ IF ~Skipped(p) /\ ~Fits(disk, p.start, p.length) THEN Fails
              ELSE IF ~Skipped(p) /\ Accepts(inner) THEN Answers(inner)
              ELSE /\ parts' = parts \ {k}
                   /\ UNCHANGED <<disk, damage, search, phase, scan, answer>>

\* N-10: the surface of a device is not searched unless asked for
NotSearched ==
  /\ phase = "parts" /\ parts = {} /\ disk.kind = "device" /\ ~search
  /\ Answers([scan EXCEPT !.source = "surface scan refused"])

SearchFinds ==
  /\ phase = "parts" /\ parts = {} /\ (disk.kind = "device" => search)
  /\ \/ ZeroPoint(disk) = {} /\ Answers(scan)
     \/ \E zero \in ZeroPoint(disk) :
          LET shifted == DeviceScan(disk, zero, disk.size - zero, "uberblock checksum")
          IN  IF zero # 0 /\ ~Fits(disk, zero, disk.size - zero) THEN Fails
              ELSE IF zero # 0 /\ VerifiedLabels(shifted) > 0 THEN Answers(shifted)
              ELSE Answers(ScanFromAnchors(disk, zero))

Ended == phase \in {"done", "failed"} /\ UNCHANGED vars

Next ==
  \/ LoseConfig \/ LoseRing \/ Refuse \/ LoseTable \/ Repartition
  \/ ScanLabels \/ TryGeom \/ ReadTable \/ TryPartition \/ NotSearched \/ SearchFinds
  \/ Ended

Spec == Init /\ [][Next]_vars

-----------------------------------------------------------------------------
(* Properties                                                              *)

\* What is left of a vdev's labels where the member can be read
ConfigsLeft(v) ==
  {u \in DOMAIN disk.cells \ disk.refused : disk.cells[u].vdev = v /\ disk.cells[u].config > 0}
RingsLeft(v) ==
  {u \in DOMAIN disk.cells \ disk.refused : disk.cells[u].vdev = v /\ disk.cells[u].ring # {}}
Front(v) == {v.base, v.base + 1}

\* "A base is only ever accepted when a checksum confirms it": where a member
\* is read anywhere but as it stands, or a label of it is believed, a vdev began
\* at that place, and the configuration is the one of that vdev - not of an
\* older one whose labels are still about, nor of one the table has since moved.
\* (scan_with_recovered_base)
BaseIsProven ==
  phase = "done" /\ (VerifiedLabels(answer) > 0
                      \/ answer.source \notin {"none", "surface scan refused"}) =>
    \E v \in Vdevs : /\ v.base = answer.base
                     /\ \A c \in Config(answer) : c.vdev.base = answer.base

\* Ways the scan of a member ends in an error, whatever its labels hold
Listed == IF TableFound(disk) THEN {disk.parts[k] : k \in DOMAIN disk.parts} ELSE {}
Halts ==
  \/ disk.size < LabelsPerVdev
  \/ ~GeomReads(disk) \/ ~TableReads(disk)
  \/ \E p \in Listed : ~Skipped(p) /\ ~Fits(disk, p.start, p.length)
  \/ \E zero \in ZeroPoint(disk) : ~Fits(disk, zero, disk.size)

Searched == disk.kind = "image" \/ search
OnlyRingsOf(v) == \A w \in Vdevs \ {v} : RingsLeft(w) = {}
Anchored(v) == Searched /\ OnlyRingsOf(v) /\ RingsLeft(v) \cap Front(v) \cap Windows(disk) # {}

\* Where a label of v is looked for: v is known to begin there, and the label
\* is a front one or the end of v is known as well
LookedAt(v, u) ==
  \/ v.base = 0 /\ (u \in Front(v) \/ v.size = disk.size \/ (GeomThere(disk) /\ v.size = GeomSize(disk)))
  \/ \E p \in Listed : v.base = p.start /\ p.start # 0 /\ (u \in Front(v) \/ v.size = p.length)
  \/ Anchored(v) /\ (u \in Front(v) \/ v.base + v.size = disk.size)

\* One configuration that survived in one label is found, wherever the vdev
\* begins, if its place follows from the member, GEOM's sector, the table or a
\* ring - through whatever else is damaged or refused.  (scan_device_range,
\* pick_best_label, scan_with_recovered_base_opts, find)
AConfigurationIsFound ==
  phase = "done" \/ (phase = "failed" /\ ~Halts) =>
    \A v \in Vdevs : (\E u \in ConfigsLeft(v) : LookedAt(v, u)) => VerifiedLabels(answer) > 0

\* Without any configuration, a ring in one front label still gives the base and
\* the newest uberblock the search can see, those of the rear labels included.
\* (find, confirm, ranked, scan_from_anchors)
RingsStandIn ==
  phase = "done" /\ VerifiedLabels(answer) = 0 =>
    \A v \in Vdevs : Anchored(v) =>
      /\ answer.base = v.base
      /\ \A u \in RingsLeft(v) \cap Windows(disk) : disk.cells[u].ring \subseteq Txgs(answer)

=============================================================================
