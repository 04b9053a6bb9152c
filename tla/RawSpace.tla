------------------------------- MODULE RawSpace -------------------------------
(***************************************************************************)
(* What can still be had from a member without following the pool from its *)
(* labels: `zvolcarve zeropoint` (where the vdev begins, from pointers     *)
(* that agree), `roots` (object-set headers of the MOS) and `scan` (dnodes *)
(* in raw space, ranked, with what the space maps say of their blocks).    *)
(*                                                                         *)
(* The pool is OpenZFS's (external): every TXG writes the changed blocks   *)
(* to free space, and what it leaves behind stays until its place is used  *)
(* again.  `truth` keeps what each TXG held, apart from the blocks.        *)
(*                                                                         *)
(* Simplifications:                                                        *)
(*  - one member, one disk vdev; every block takes one allocation unit, a  *)
(*    sector is 512 bytes and a shift counts from 9;                       *)
(*  - a volume's object set and its array of dnodes are one block; the MOS *)
(*    is its header and two blocks, one with what a walk begins with, one  *)
(*    for any part it can lose on the way;                                 *)
(*  - a pointer has one DVA, and its checksum is as good as the content;   *)
(*  - a unit that is lost reads, as something else: refusals, interrupts,  *)
(*    resuming and the files of a workspace are CarveScan's;               *)
(*  - the bytes of a guest (contents_of) are not told apart.               *)
(***************************************************************************)
EXTENDS Naturals, Sequences, FiniteSets, FiniteSetsExt, SequencesExt, Functions

CONSTANTS
  Guids,         \* datasets: the volumes the pool may hold
  Late,          \* datasets whose dnodes are in the second block of the MOS
  Guests,        \* volumes whose guest keeps a pool of its own on them
  NBlocks,       \* blocks of a volume
  NSlots,        \* allocation units of the vdev
  NMetaslabs,    \* metaslabs the vdev is divided into, of equal size
  MaxTxg,        \* bound on the pool's history
  MaxRot,        \* bound on the units that no longer hold what was written
  Bases,         \* sectors a partition may begin at
  Packings,      \* sets of kinds of metadata that were written compressed
  Labels,        \* sectors before the allocatable space (4 MiB)
  MaxShift,      \* the coarsest shift tried (17)
  DefaultShift,  \* the shift when no configuration states it (12)
  Window,        \* sectors that are tried as a base (64 MiB)
  Chunk,         \* sectors a scan reads at a time (4 MiB)
  Screen, Confirmations, Keep,  \* pointers.rs Options: 4, 64, 8
  MaxHits, MaxRoots             \* --max-hits, --max-roots

ASSUME RawAssumption ==
  /\ IsFiniteSet(Guids) /\ Guids \subseteq Nat \ {0} /\ Guests \cup Late \subseteq Guids
  /\ {NBlocks, NSlots, NMetaslabs, MaxTxg, Screen, Confirmations, Keep, Chunk} \subseteq Nat \ {0}
  /\ NSlots % NMetaslabs = 0
  /\ {MaxRot, Labels, MaxShift, DefaultShift, Window, MaxHits, MaxRoots} \subseteq Nat
  /\ Bases \subseteq Nat /\ \A p \in Packings : p \subseteq {"header", "mos", "objset"}

VARIABLES
  disk,     \* the block each unit of the vdev holds
  used,     \* units the pool has given out
  rotor,    \* the unit that was given out last
  volumes,  \* the volumes of the newest TXG
  maps,     \* the pointer to the log of each metaslab
  flushed,  \* the units each metaslab's log says are given out
  ring,     \* the uberblocks: a pointer to the header of each TXG
  truth,    \* what each TXG held: its datasets, where their volumes are, and the logs' state
  image,    \* the member that is read, <<>> while the pool is in use
  said      \* what a command reported, <<>> before

pool == <<disk, used, rotor, volumes, maps, flushed, ring, truth>>
vars == <<pool, image, said>>

Slots == 1..NSlots
Metaslabs == 1..NMetaslabs

-----------------------------------------------------------------------------
(* What is on the disk                                                     *)

\* the elements of a set in a strict order
InOrder(S, Less(_, _)) ==
  [i \in 1..Cardinality(S) |-> CHOOSE x \in S : Cardinality({y \in S : Less(y, x)}) = i - 1]

Ptr(slot, birth, sum) == [slot |-> slot, birth |-> birth, sum |-> sum]
Hole == Ptr(0, 0, <<0, 0>>)
Dnode(type, ptrs, bonus) == [type |-> type, ptrs |-> ptrs, bonus |-> bonus]
Block(kind, sum, dnodes, log) == [is |-> kind, sum |-> sum, dnodes |-> dnodes, log |-> log]

Never == Block("none", <<0, 0>>, <<>>, <<>>)
Header(sum, mos) == Block("header", sum, <<Dnode("dnode", mos, <<>>)>>, <<>>)
FreeDnode == Dnode("none", <<>>, <<>>)
\* a dataset's bonus: its GUID, the TXG it was created in, its object set
Dataset(guid, txg, bp) == Dnode("dataset", <<>>, <<guid, txg, bp>>)
\* a metaslab's space map: its log, and in the bonus what the log comes to
SpaceMap(log, units) == IF log = Hole THEN FreeDnode ELSE Dnode("spacemap", <<log>>, <<units>>)
\* what a volume's guest writes: bytes, or the header of a pool of its own
Guest(g) ==
  IF g \in Guests THEN Block("guest", <<0, 2>>, <<Dnode("dnode", <<Ptr(1, 1, <<0, 9>>)>>, <<>>)>>, <<>>)
                  ELSE Block("data", <<0, 1>>, <<>>, <<>>)

Kept(p) == p # Hole /\ disk[p.slot].sum = p.sum
Extent == NSlots \div NMetaslabs
Area(m) == {s \in Slots : (s - 1) \div Extent = m - 1}

-----------------------------------------------------------------------------
(* The pool in use (external)                                              *)

Now == Len(truth) + 1
\* free units, the next after the rotor first
Vacant == InOrder(Slots \ used, LAMBDA a, b : (a + NSlots - rotor - 1) % NSlots < (b + NSlots - rotor - 1) % NSlots)
SlotsOf(v) == UNION {{v[g].at.slot} \cup ({v[g].blocks[b].slot : b \in 1..NBlocks} \ {0}) : g \in DOMAIN v}
Held(v) == {<<g, v[g].txg>> : g \in DOMAIN v}

\* units of a metaslab as runs, counted from its start
Runs(kind, m, units) ==
  InOrder({<<kind, a - 1 - (m - 1) * Extent, b - a + 1>> : <<a, b>> \in
             {r \in units \X units : r[1] <= r[2] /\ r[1]..r[2] \subseteq units /\ {r[1] - 1, r[2] + 1} \cap units = {}}},
          LAMBDA x, y : x[2] < y[2])

\* the MOS's first block has the object directory, some datasets and the array that says which metaslabs
\* have a map; the second has the maps and the other datasets
FirstPart(v, logs) == [dnodes |-> [i \in 1..Cardinality(DOMAIN v \ Late) |-> LET g == InOrder(DOMAIN v \ Late, <)[i]
                                                                        IN  Dataset(g, v[g].txg, v[g].at)],
                       array |-> [m \in Metaslabs |-> logs[m] # Hole]]
SecondPart(v, logs, full) ==
  [m \in Metaslabs |-> SpaceMap(logs[m], Cardinality(full[m]))] \o
  LET late == InOrder(DOMAIN v \cap Late, <) IN [i \in 1..Len(late) |-> Dataset(late[i], v[late[i]].txg, v[late[i]].at)]

\* the MOS under a header: the pointers to its blocks
MosPtrs(s) == disk[s].dnodes[1].ptrs
Newly == IF ring = <<>> THEN Hole ELSE MosPtrs(Last(ring).slot)[1]

\* the end of a TXG: the log of one metaslab is flushed, then the blocks of the MOS that changed and
\* its header are written
Commit(v, wrote, s) ==
  LET t == Now
      m == 1 + (t % NMetaslabs)
      Id(i) == <<t, s[i]>>
      logs == [maps EXCEPT ![m] = Ptr(s[1], t, Id(1))]
      part == FirstPart(v, logs)
      same == Newly # Hole /\ disk[Newly.slot].dnodes = part.dnodes /\ disk[Newly.slot].log = part.array
      first == IF same THEN Newly ELSE Ptr(s[4], t, Id(4))
      inUse == SlotsOf(v) \cup ({maps[k].slot : k \in Metaslabs \ {m}} \ {0}) \cup {s[1], s[2], s[3], first.slot}
      old == IF maps[m] = Hole THEN <<>> ELSE disk[maps[m].slot].log
      net == <<<<"debug", t, 0>>>> \o Runs("free", m, flushed[m] \ inUse) \o
             Runs("alloc", m, (inUse \cap Area(m)) \ flushed[m])
      full == [flushed EXCEPT ![m] = inUse \cap Area(m)]
      top == Ptr(s[3], t, Id(3))
  IN  /\ volumes' = v /\ maps' = logs /\ flushed' = full /\ used' = inUse /\ rotor' = IF same THEN s[3] ELSE s[4]
      /\ disk' = s[1] :> Block("log", Id(1), <<>>, old \o net) @@
                 s[2] :> Block("mos", Id(2), SecondPart(v, logs, full), <<>>) @@
                 s[3] :> Header(Id(3), <<first, Ptr(s[2], t, Id(2))>>) @@
                 (IF same THEN <<>> ELSE s[4] :> Block("mos", Id(4), part.dnodes, part.array)) @@ wrote @@ disk
      /\ ring' = Append(ring, top)
      /\ truth' = Append(truth, [sets |-> Held(v), out |-> full, at |-> [g \in DOMAIN v |-> <<v[g].at.slot, v[g].at.sum>>]])
      /\ UNCHANGED <<image, said>>

Volume(id, blocks) == Block("objset", id, <<Dnode("zvol", blocks, <<>>)>>, <<>>)

\* a GUID is given to one dataset only
Unused == Guids \ {x[1] : x \in UNION {truth[t].sets : t \in DOMAIN truth}}

Create(g) ==
  /\ image = <<>> /\ Now <= MaxTxg /\ g \in Unused /\ \A h \in Unused : g <= h
  /\ \E s \in {Vacant} :
       LET id == <<Now, s[1]>>
           blocks == [b \in 1..NBlocks |-> Hole]
       IN  /\ Len(s) >= 5
           /\ Commit(g :> [txg |-> Now, blocks |-> blocks, at |-> Ptr(s[1], Now, id)] @@ volumes,
                     s[1] :> Volume(id, blocks), SubSeq(s, 2, 5))

Write(g, b) ==
  /\ image = <<>> /\ Now <= MaxTxg
  /\ \E s \in {Vacant} :
       LET id == <<Now, s[2]>>
           blocks == [volumes[g].blocks EXCEPT ![b] = Ptr(s[1], Now, Guest(g).sum)]
       IN  /\ Len(s) >= 6
           /\ Commit([volumes EXCEPT ![g].blocks = blocks, ![g].at = Ptr(s[2], Now, id)],
                     s[1] :> Guest(g) @@ s[2] :> Volume(id, blocks), SubSeq(s, 3, 6))

Destroy(g) ==
  /\ image = <<>> /\ Now <= MaxTxg
  /\ \E s \in {Vacant} : Len(s) >= 4 /\ Commit(Restrict(volumes, DOMAIN volumes \ {g}), <<>>, SubSeq(s, 1, 4))

\* a pool just made: no volume, no space map yet
Init ==
  /\ disk = [s \in Slots |-> Never]
  /\ used = {} /\ rotor = 0 /\ volumes = <<>>
  /\ maps = [m \in Metaslabs |-> Hole] /\ flushed = [m \in Metaslabs |-> {}]
  /\ ring = <<>> /\ truth = <<>> /\ image = <<>> /\ said = <<>>

Written == {s \in Slots : disk[s].is # "none"}

\* the member is imaged: a vdev of some ashift begins at some sector, and some units no longer hold
\* what was written
Imaged ==
  /\ image = <<>> /\ (Now > MaxTxg \/ Unused \cup DOMAIN volumes = {})
  /\ \E base \in Bases, shift \in 0..DefaultShift, packed \in Packings, rot \in UNION {kSubset(k, Written) : k \in 0..MaxRot} :
       image' = [base |-> base, shift |-> shift, packed |-> packed, rot |-> rot]
  /\ UNCHANGED <<pool, said>>

-----------------------------------------------------------------------------
(* The member as the tool reads it                                         *)

Unit == 2^image.shift
Sector(s) == image.base + Labels + (s - 1) * Unit
Size == Sector(NSlots + 1) + Labels \div 2
Sound(s) == s \notin image.rot
\* a block comes back through the layout: it is there, and its checksum agrees
Reads(p) == Kept(p) /\ Sound(p.slot)

\* kinds of blocks written at one of the sizes the compressed pass tries: a header is smaller
Sized(kind) == kind # "header"
\* could_start and decompress: only where a step begins, counted from the front of the device
Unpacks(s, step) == Sector(s) % 2^step = 0 /\ Sized(disk[s].is)

\* units whose dnodes are seen in a chunk: what is plain, then what unpacks, each front first
Visible(step, chunk) ==
  LET its == {s \in Slots : Sound(s) /\ disk[s].dnodes # <<>> /\ Sector(s) \div Chunk = chunk}
      packed == {s \in its : disk[s].is \in image.packed}
  IN  InOrder(its \ packed, <) \o InOrder({s \in packed : Unpacks(s, step)}, <)

Live(d) == SelectSeq(d.ptrs, LAMBDA p : p # Hole)
\* a dnode that has neither blocks nor a bonus is nothing to follow
Plausible(d) == Live(d) # <<>> \/ d.bonus # <<>>
Birth(d) == IF Live(d) = <<>> THEN 0 ELSE Max({Live(d)[i].birth : i \in DOMAIN Live(d)})
\* the size a dnode implies: one more block than the last that was ever written
Implied(d) == Max({0} \cup {i \in DOMAIN d.ptrs : d.ptrs[i] # Hole})

\* what a hit may be marked with, or rejected for when the profile is strict
Reasons == {"type", "txg", "size"}
Misses(profile, d) ==
  {f \in Reasons : \/ f = "type" /\ profile.type \notin {"any", d.type}
                   \/ f = "txg" /\ Birth(d) < profile.from
                   \/ f = "size" /\ profile.size \notin {0, Implied(d)}}

Hit(s, slot, d, misses) == [slot |-> s, index |-> slot, dnode |-> d, misses |-> misses]
NoScan == [hits |-> <<>>, datasets |-> <<>>, roots |-> <<>>, stopped |-> FALSE, rejected |-> 0]

\* one dnode of a block: a dataset is kept whatever was asked for, a hit up to MaxHits
Consider(options, scan, hit) ==
  LET with == IF hit.dnode.type = "dataset" /\ Len(scan.datasets) < MaxHits
              THEN [scan EXCEPT !.datasets = Append(@, hit)] ELSE scan
  IN  IF ~options.collect \/ ~Plausible(hit.dnode) THEN scan
      ELSE IF options.strict /\ hit.misses # {} THEN [with EXCEPT !.rejected = @ + 1]
      ELSE IF Len(scan.hits) >= MaxHits THEN [with EXCEPT !.stopped = TRUE]
      ELSE [with EXCEPT !.hits = Append(@, hit)]

\* as_meta_objset: the header of a MOS, with something under it
IsRoot(s) == disk[s].is \in {"header", "guest"} /\ Live(disk[s].dnodes[1]) # <<>>
\* of a chunk the plain pass has its own bytes only, and two sectors make a header
Cut(s) == Sector(s) % Chunk = Chunk - 1
ConsiderRoot(scan, s) == IF IsRoot(s) /\ ~Cut(s) THEN [scan EXCEPT !.roots = Append(@, s)] ELSE scan

Pass(options, scan, s) ==
  FoldLeft(LAMBDA acc, i : Consider(options, acc, Hit(s, i, disk[s].dnodes[i], Misses(options.profile, disk[s].dnodes[i]))),
           ConsiderRoot(scan, s), [i \in 1..Len(disk[s].dnodes) |-> i])

\* the cap ends the scan with the chunk that met it
ScanMember(step, options) ==
  FoldLeft(LAMBDA acc, k : IF acc.stopped THEN acc
                           ELSE FoldLeft(LAMBDA a, s : Pass(options, a, s), acc, Visible(step, k - 1)),
           NoScan, [k \in 1..(Size \div Chunk + 1) |-> k])

Everything == [type |-> "any", from |-> 0, size |-> 0]
Volumes(from, size) == [type |-> "zvol", from |-> from, size |-> size]
Options(collect, profile, strict) == [collect |-> collect, profile |-> profile, strict |-> strict]

\* a run that found nothing says so with its status
UNRECOVERABLE == 3
Exit(rows) == IF rows = <<>> THEN UNRECOVERABLE ELSE 0

-----------------------------------------------------------------------------
(* Where the vdev begins: pointers.rs, zeropoint.rs                        *)

Offset(p) == (p.slot - 1) * Unit
\* in the order of their offsets, those met first before others; equal neighbours once
Anchors(scan) ==
  LET from(seq) == FlattenSeq([i \in 1..Len(seq) |-> Live(seq[i].dnode)])
      all == from(scan.hits) \o from(scan.datasets) \o
             FlattenSeq([i \in 1..Len(scan.roots) |-> Live(disk[scan.roots[i]].dnodes[1])])
      order == InOrder(1..Len(all), LAMBDA i, j : all[i].slot < all[j].slot \/ (all[i].slot = all[j].slot /\ i < j))
      Same(p, q) == p.slot = q.slot /\ p.sum = q.sum
  IN  FoldLeft(LAMBDA acc, i : IF acc # <<>> /\ Same(Last(acc), all[i]) THEN acc ELSE Append(acc, all[i]),
               <<>>, order)

\* the coarsest shift every offset is a multiple of
Coarsest(anchors) ==
  Max({k \in 0..MaxShift : \A i \in DOMAIN anchors : Offset(anchors[i]) % 2^k = 0})

\* the checksum of what lies at a sector: a block only where one begins
At(sector) ==
  IF \E s \in Slots : Sector(s) = sector /\ Sound(s)
  THEN disk[CHOOSE s \in Slots : Sector(s) = sector].sum
  ELSE Never.sum

\* the first so many probes that lie inside the device: how many agreed, and of how many
Confirm(base, anchors, atMost) ==
  LET place(p) == base + Labels + Offset(p)
      inside == SelectSeq(anchors, LAMBDA p : place(p) + Unit <= Size)
      tried == SubSeq(inside, 1, Min({atMost, Len(inside)}))
  IN  [ok |-> Len(SelectSeq(tried, LAMBDA p : At(place(p)) = p.sum)), of |-> Len(tried)]

\* a screening that wants every probe to agree
AllAgree(base, anchors) == anchors # <<>> /\ Confirm(base, anchors, Screen).ok = Confirm(base, anchors, Screen).of

\* did even one of the first probes agree?
Survives(base, anchors) == Confirm(base, anchors, Screen).ok > 0

Candidates(anchors, shift) ==
  {b \in 0..(Min({Window, Size}) - 1) : b % 2^shift = 0 /\ Survives(b, anchors)}

\* the coarsest shift at which anything is found is the last
Search(anchors) ==
  LET hits == {k \in 0..Coarsest(anchors) : Candidates(anchors, k) # {}}
      found == Candidates(anchors, Max(hits))
      row(b) == [base |-> b, seen |-> Confirm(b, anchors, Confirmations)]
      rows == InOrder({row(b) : b \in found},
                LAMBDA a, b : a.seen.ok > b.seen.ok \/ (a.seen.ok = b.seen.ok /\ a.base < b.base))
  IN  IF anchors = <<>> \/ hits = {} THEN <<>> ELSE SubSeq(rows, 1, Min({Keep, Len(rows)}))

Zeropoint ==
  /\ image # <<>> /\ said = <<>>
  /\ \E scan \in {ScanMember(DefaultShift, Options(TRUE, Everything, FALSE))} :
     \E probes \in {Anchors(scan)} : \E bases \in {Search(probes)} :
       said' = [command |-> "zeropoint", probes |-> probes, bases |-> bases, early |-> scan.stopped, exit |-> Exit(bases)]
  /\ UNCHANGED <<pool, image>>

-----------------------------------------------------------------------------
(* Headers of the MOS: roots.rs                                            *)

WalksAlways(s) == TRUE  \* mutant: a walk that found no object directory is a walk of nothing

\* open_mos_objset takes any header; a walk asks for the object directory, and goes on past what it loses
Walks(s) == Reads(MosPtrs(s)[1])
MosDnodes(s) == UNION {ToSet(disk[p.slot].dnodes) : p \in {p \in ToSet(MosPtrs(s)) : Reads(p)}}
Under(s) == {<<d.bonus[1], d.bonus[2]>> : d \in {d \in MosDnodes(s) : d.type = "dataset"}}

\* what the walk lost (tree.errors) is no error of the row
Row(s, layout) ==
  LET ok == layout /\ Walks(s)
  IN  [slot |-> s, birth |-> Birth(disk[s].dnodes[1]), error |-> ~ok, datasets |-> IF ok THEN Under(s) ELSE {}]

\* what came out of the pool first, then how recent it is
Better(a, b) ==
  LET n(r) == Cardinality(r.datasets)
  IN  \/ n(a) > n(b)
      \/ n(a) = n(b) /\ (a.birth > b.birth \/ (a.birth = b.birth /\ a.slot < b.slot))

\* not one dnode is wanted, so the cap on them cannot end the scan
HeaderOptions == Options(FALSE, Everything, FALSE)

\* the layout gives the shift, and is what a header's pointers are read through
Roots(layout) ==
  /\ image # <<>> /\ said = <<>>
  /\ \E scan \in {ScanMember(IF layout THEN image.shift ELSE DefaultShift, HeaderOptions)} :
       LET rows == InOrder({Row(scan.roots[i], layout) : i \in DOMAIN scan.roots}, Better)
       IN  said' = [command |-> "roots", layout |-> layout, rows |-> SubSeq(rows, 1, Min({MaxRoots, Len(rows)})),
                    early |-> scan.stopped, exit |-> Exit(rows)]
  /\ UNCHANGED <<pool, image>>

-----------------------------------------------------------------------------
(* Candidates: scan.rs, and the space maps: spacemap.rs                    *)

\* TXGs whose MOS opens: its header reads; the newest of them, 0 if there is none
Opens == {t \in DOMAIN ring : Reads(ring[t])}
Newest == Max({0} \cup Opens)

\* --like: the newest TXG that lists the dataset says how large its volume is, and none before is asked
LikeIn(g) == Max({0} \cup {t \in Opens : Walks(ring[t].slot) /\ \E x \in Under(ring[t].slot) : x[1] = g})
VolumeOf(g, t) == CHOOSE d \in MosDnodes(ring[t].slot) : d.type = "dataset" /\ d.bonus[1] = g
LikeKnown(g) == LikeIn(g) # 0 /\ Reads(VolumeOf(g, LikeIn(g)).bonus[3])

\* a set of ranges, sorted and merged, to which one is added, or from which one is taken
Near(ranges, from, to) == {r \in ranges : r[1] <= to /\ from <= r[2]}
AddRange(ranges, from, to) ==
  LET near == Near(ranges, from, to)
  IN  (ranges \ near) \cup {<<Min({from} \cup {r[1] : r \in near}), Max({to} \cup {r[2] : r \in near})>>}
RemoveRange(ranges, from, to) ==
  LET near == Near(ranges, from, to)
  IN  (ranges \ near) \cup {<<r[1], from>> : r \in {x \in near : x[1] < from}}
                      \cup {<<to, r[2]>> : r \in {x \in near : x[2] > to}}
Intersects(ranges, from, to) == \E r \in ranges : r[1] < to /\ from < r[2]
Units(ranges) == MapThenSumSet(LAMBDA r : r[2] - r[1], ranges)

\* the marks of a log change no space
Entries(log) == SelectSeq(log, LAMBDA e : e[1] # "debug")
Replay(ranges, log, start) ==
  FoldLeft(LAMBDA acc, e : IF e[1] = "alloc" THEN AddRange(acc, start + e[2], start + e[2] + e[3])
                                             ELSE RemoveRange(acc, start + e[2], start + e[2] + e[3]),
           ranges, Entries(log))

NoSpace == [out |-> {}, unreadable |-> 0, declared |-> 0]

\* one whose map or log does not read is unaccounted for
AddMap(block, space, m) ==
  LET map == disk[block.slot].dnodes[m]
  IN  IF Reads(block) /\ Reads(map.ptrs[1])
      THEN [space EXCEPT !.out = Replay(@, disk[map.ptrs[1].slot].log, (m - 1) * Extent), !.declared = @ + map.bonus[1]]
      ELSE [space EXCEPT !.unreadable = @ + 1]

\* without the array nothing is known of the vdev; a metaslab without a map was never written
Space(t) ==
  LET block == MosPtrs(ring[t].slot)
  IN  IF ~Reads(block[1]) THEN [NoSpace EXCEPT !.unreadable = NMetaslabs]
      ELSE FoldLeft(LAMBDA acc, m : IF disk[block[1].slot].log[m] THEN AddMap(block[2], acc, m) ELSE acc,
                    NoSpace, [m \in Metaslabs |-> m])

\* read whole, and the logs come to what the maps declare
Consistent(space) == space.unreadable = 0 /\ Units(space.out) = space.declared

\* what is not in the maps read is free
OtherwiseFree(space, slot) == IF Intersects(space.out, slot - 1, slot) THEN "allocated" ELSE "free"

\* whether a unit is given out: not in the maps that were read is not the same as free
Allocated(space, slot) ==
  IF Intersects(space.out, slot - 1, slot) THEN "allocated" ELSE IF space.unreadable > 0 THEN "unknown" ELSE "free"

\* every block of the dnode: is it there, and what do the maps say of its place
Assess(d, space) ==
  LET blocks == IF d.ptrs = <<>> THEN <<Hole>> ELSE d.ptrs
      n(P(_)) == Len(SelectSeq(blocks, P))
  IN  [verified |-> n(LAMBDA p : Reads(p)), holes |-> n(LAMBDA p : p = Hole),
       failed |-> n(LAMBDA p : p # Hole /\ ~Reads(p)),
       space |-> IF space = <<>> THEN {} ELSE {<<p.slot, Allocated(space, p.slot)>> : p \in ToSet(Live(d))}]

\* of 100: half for a dnode with blocks, half for the share of them that is there; a match is never
\* below a miss
Rank(hit, a) ==
  LET base == (IF Live(hit.dnode) # <<>> THEN 50 ELSE 0) + (50 * (a.verified + a.holes)) \div (a.verified + a.holes + a.failed)
  IN  IF hit.misses = {} THEN 5500 + 45 * base ELSE 45 * base

\* datasets met along the way whose volume begins where this candidate does, the newest first
NameFrom(datasets, d) ==
  LET want == Live(d)[1]
      theirs(bp) == Live(disk[bp.slot].dnodes[1])
      found == {ds \in ToSet(datasets) : /\ Reads(ds.dnode.bonus[3])
                                         /\ theirs(ds.dnode.bonus[3]) # <<>>
                                         /\ theirs(ds.dnode.bonus[3])[1].slot = want.slot}
      newest == Max({ds.dnode.bonus[2] : ds \in found})
  IN  IF Live(d) = <<>> \/ found = {} THEN {}
      ELSE {ds.dnode.bonus[1] : ds \in {x \in found : x.dnode.bonus[2] = newest}}

Candidate(met, hit, datasets, space) ==
  LET a == Assess(hit.dnode, space)
  IN  [met |-> met, slot |-> hit.slot, index |-> hit.index, dnode |-> hit.dnode, misses |-> hit.misses, space |-> a.space,
       score |-> Rank(hit, a), names |-> NameFrom(datasets, hit.dnode)]

\* best first; where they tie, in the order they were met
Ranked(a, b) ==
  \/ a.score > b.score
  \/ a.score = b.score /\ a.met < b.met

Scan(profile, strict) ==
  /\ image # <<>> /\ said = <<>>
  /\ \E scan \in {ScanMember(image.shift, Options(TRUE, profile, strict))} :
     \E space \in {IF Newest = 0 THEN <<>> ELSE Space(Newest)} :
       said' = [command |-> "scan", profile |-> profile, strict |-> strict,
                candidates |-> InOrder({Candidate(i, scan.hits[i], scan.datasets, space) : i \in DOMAIN scan.hits}, Ranked),
                whole |-> space # <<>> /\ Consistent(space), rejected |-> scan.rejected, early |-> scan.stopped]
  /\ UNCHANGED <<pool, image>>

\* --like a dataset that is still known; its size is what it was made with, written to the end or not
ScanLike(g) == image # <<>> /\ LikeKnown(g) /\ Scan(Volumes(0, NBlocks), FALSE)

-----------------------------------------------------------------------------

Done == said # <<>> /\ UNCHANGED vars

Next ==
  \/ \E g \in Guids : Create(g)
  \/ \E g \in DOMAIN volumes, b \in 1..NBlocks : Write(g, b)
  \/ \E g \in DOMAIN volumes : Destroy(g)
  \/ Imaged
  \/ Zeropoint
  \/ \E layout \in BOOLEAN : Roots(layout)
  \/ \E profile \in {Everything, Volumes(3, 0)} : Scan(profile, FALSE)
  \/ Scan(Volumes(3, 0), TRUE)
  \/ \E g \in Guids : ScanLike(g)
  \/ Done

Spec == Init /\ [][Next]_vars

-----------------------------------------------------------------------------
(* Properties                                                              *)

\* The vdev's own beginning is among the bases zeropoint lists, when it lies in the window at a
\* multiple of what all the probes are multiples of, and one of the probes it is screened with is
\* still there: whatever a guest's pool or older blocks contribute, unless the list is full of bases
\* with as many probes (pointers.rs search, confirm; F-63).
TrueBaseIsListed ==
  said # <<>> /\ said.command = "zeropoint" =>
    LET probes == said.probes
        there == Cardinality({i \in 1..Min({Confirmations, Len(probes)}) : Reads(probes[i])})
    IN  (/\ image.base < Window
         /\ \A k \in 0..MaxShift : (\A i \in DOMAIN probes : Offset(probes[i]) % 2^k = 0) => image.base % 2^k = 0
         /\ \E i \in DOMAIN probes : i <= Screen /\ Reads(probes[i]))
        => \/ \E i \in DOMAIN said.bases : said.bases[i].base = image.base
           \/ Len(said.bases) = Keep /\ \A i \in DOMAIN said.bases : said.bases[i].seen.ok >= there

\* What a row of `roots` lists is the past. A row that carries no error is of one TXG, and lists its
\* datasets, as they were then, but for those in a part of the MOS that is lost: nothing tells a row
\* that is short of some (roots.rs run: tree.errors). And a TXG whose header and object directory are
\* still there has its row, unless the header was written compressed (it is smaller than any size
\* tried), or the end of a chunk cuts it (carve.rs as_meta_objset), or the rows kept list as many
\* datasets each (roots.rs run, carve.rs consider_root; F-64).
RootsAreThePast ==
  said # <<>> /\ said.command = "roots" =>
    LET walked == {t \in Opens : Walks(ring[t].slot)}
        left(t) == {x \in truth[t].sets : x[1] \in Late => Reads(MosPtrs(ring[t].slot)[2])}
    IN  /\ \A i \in DOMAIN said.rows :
             ~said.rows[i].error => \E t \in walked : ring[t].slot = said.rows[i].slot /\ left(t) = said.rows[i].datasets
        /\ said.layout /\ "header" \notin image.packed =>
             \A t \in {t \in walked : ~Cut(ring[t].slot)} :
               \/ \E i \in DOMAIN said.rows : said.rows[i].slot = ring[t].slot
               \/ Len(said.rows) = MaxRoots
                  /\ \A i \in DOMAIN said.rows : Cardinality(said.rows[i].datasets) >= Cardinality(left(t))

\* What a scan says of a candidate is so. Its blocks' places: what is called released was not given
\* out by the logs of the newest readable TXG, what is called given out was, and where a log is lost
\* neither is guessed (spacemap.rs allocated, replay; C-06), and the maps are called whole exactly
\* when every log reads. Its dataset: as long as its first block is there, the volume that block
\* belongs to (scan.rs name_from_datasets; C-11). And a profile that does not fit costs it its place
\* in the ranking, not the list: nothing that fails the profile is above what matches it (carve.rs
\* rank; C-18).
CandidatesAreToldRight ==
  said # <<>> /\ said.command = "scan" =>
    LET c == said.candidates
        all == ScanMember(image.shift, Options(TRUE, Everything, FALSE)).hits
        Out(p) == \E m \in Metaslabs : p \in truth[Newest].out[m]
        first(i) == Live(c[i].dnode)[1]
        owners(i) == {g \in Guids : \E t \in DOMAIN truth : g \in DOMAIN truth[t].at /\ truth[t].at[g] = <<c[i].slot, disk[c[i].slot].sum>>}
    IN  /\ said.whole <=> /\ Opens # {} /\ \A p \in ToSet(MosPtrs(ring[Newest].slot)) : Reads(p)
                          /\ \A d \in MosDnodes(ring[Newest].slot) : d.type = "spacemap" => Reads(d.ptrs[1])
        /\ \A i \in DOMAIN c : \A p \in c[i].space : (p[2] = "free" => ~Out(p[1])) /\ (p[2] = "allocated" => Out(p[1]))
        /\ \A i \in DOMAIN c : c[i].dnode.type = "zvol" /\ c[i].names # {} /\ Reads(first(i)) => c[i].names = owners(i)
        /\ ~said.strict => {<<c[i].slot, c[i].index>> : i \in DOMAIN c} = {<<all[i].slot, all[i].index>> : i \in DOMAIN all}
        /\ \A i, j \in DOMAIN c : i < j /\ c[j].misses = {} => c[i].misses = {}

=============================================================================
