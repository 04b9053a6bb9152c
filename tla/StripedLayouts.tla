--------------------------- MODULE StripedLayouts ---------------------------
(***************************************************************************)
(* Where the bytes of one block lie on the members of a pool, and how the  *)
(* program gets them back: raidz stripes, dRAID rows and distributed       *)
(* spares, and the mapping a removed vdev leaves behind                    *)
(* (zfs-ondisk raidz.rs, draid.rs, indirect.rs; the parts of zfs-read      *)
(* zio.rs and dsl.rs that use them).                                       *)
(*                                                                         *)
(* OpenZFS writes the block (external: placed sector by sector, by a       *)
(* numbering of the vdev's sectors and not by the columns the program      *)
(* computes), may remove top-level vdevs and move the block with them;     *)
(* then the members are damaged, the program opens the pool and reads.     *)
(*                                                                         *)
(* Simplifications: an offset and a size count sectors, and a sector is    *)
(* one byte of GF(2^8); the checksum is perfect (reconstruction is linear, *)
(* so which bytes a block holds makes no difference to what can be         *)
(* rebuilt); the permutation tables OpenZFS ships are a parameter of the   *)
(* layout; which error a failed read carries is PoolReader's subject.      *)
(***************************************************************************)
EXTENDS Integers, Sequences, FiniteSets, FiniteSetsExt, SequencesExt,
        Functions, Bitwise

CONSTANTS
  Pools,        \* the pools a behaviour may start with: functions from the
                \* ids of top-level vdevs to layouts
  Offsets,      \* Offsets[kind of layout]: where a block may be allocated
  Sizes,        \* Sizes[kind of layout]: how many sectors it may have
  RowHeight,    \* sectors of one column in a dRAID group (16 MiB there)
  SwapEvery,    \* raidz1 exchanges two columns every SwapEvery sectors (1 MiB)
  MaxNesting,   \* mappings followed through mappings (the code's 8)
  MaxRemoved,   \* bound: vdevs removed
  MaxLost,      \* bound: members that are gone
  MaxRotten     \* bound: sectors that read but hold something else

ASSUME BoundsAssumption ==
  /\ \A kind \in DOMAIN Sizes : Sizes[kind] \subseteq Nat \ {0}
  /\ {RowHeight, SwapEvery} \subseteq Nat \ {0}
  /\ {MaxNesting, MaxRemoved, MaxLost, MaxRotten} \subseteq Nat

VARIABLES
  pool,      \* the layout of every top-level vdev, as the labels tell it
  block,     \* the block pointer: [vdev, at, size], or NoBlock
  store,     \* what the members hold: cell <<device, sector>> -> byte
  mappings,  \* removed vdev -> its mapping: a sequence of entries, by source
  lost,      \* members that are gone
  rotten,    \* cells that do not hold what was written
  opened,    \* what the reader knows: [removed, tops], or Closed
  answer     \* what reading the block gave: "none", "ok" or "failed"

vars == <<pool, block, store, mappings, lost, rotten, opened, answer>>

NoBlock == [size |-> 0]
Closed  == [tops |-> {}]
Unread  == <<-1>>      \* no bytes: a column or a copy that could not be read
Unsolved == <<Unread>>  \* no columns: what could not be rebuilt
Unmapped == <<[len |-> 0]>>  \* no pieces: a range with a gap in its mapping

---------------------------------------------------------------------------
(* The layouts.  A kid of a vdev is the sequence of what stands in its     *)
(* slot: one disk, the two of a `replacing` or `spare` vdev, or a          *)
(* distributed spare.                                                      *)

Disk(d)   == [disk |-> d]
Dspare(n) == [spare |-> n]
IsDisk(h) == "disk" \in DOMAIN h

Width(t)  == Len(t.kids)
Kid(t, i) == t.kids[i + 1]                      \* children count from zero
Group(t)  == t.ndata + t.nparity                             \* groupwidth
Disks(t)  == Width(t) - t.nspares                            \* ndisks
SliceRows(t) == (Group(t) * t.ngroups) \div Disks(t)

\* Config::new: the dRAID geometries the program takes; with any other the
\* vdev is unsupported.
DraidFits(t) ==
  /\ t.nparity \in 1..3 /\ t.ndata >= 1 /\ t.ngroups >= 1
  /\ Width(t) >= Group(t) + t.nspares
  /\ (Group(t) * t.ngroups) % Disks(t) = 0
  /\ \A p \in Range(t.perms) : Len(p) = Width(t) /\ Range(p) = 0..(Width(t) - 1)

ASSUME LayoutsAssumption ==
  \A p \in Pools : \A v \in DOMAIN p : p[v].kind = "draid" => DraidFits(p[v])

DisksOf(t) == {h.disk : h \in {x \in UNION {Range(t.kids[i]) : i \in DOMAIN t.kids} : IsDisk(x)}}

\* permute: the child at a position of a permutation.
Permute(t, pindex, index) ==
  LET n    == Width(t)
      poff == pindex % (Len(t.perms) * n)
  IN  (t.perms[(poff \div n) + 1][index + 1] + (poff % n)) % n

---------------------------------------------------------------------------
(* GF(2^8) with polynomial 0x11d.                                          *)

Byte == 0..255
Add == [a \in Byte |-> [b \in Byte |-> a ^^ b]]

\* gf_mul's shift of `a`: times two, reduced by 0x1d when bit 7 falls out.
Twice(a) == IF a < 128 THEN 2 * a ELSE Add[2 * a - 256][29]

\* gf_mul(a, b), bit by bit of `b`.
GfMul[b \in Byte] == [a \in Byte |->
  IF b = 0 THEN 0
  ELSE Add[IF b % 2 = 1 THEN a ELSE 0][GfMul[b \div 2][Twice(a)]]]

Times(a, b) == GfMul[b][a]
GfInv(a)    == CHOOSE b \in Byte : Times(a, b) = 1

PowerOfTwo[e \in 0..32] == IF e = 0 THEN 1 ELSE Twice(PowerOfTwo[e - 1])

\* coefficient: of data column `i` in parity row P, Q or R (0, 1, 2).
Coefficient(row, i, ndata) == PowerOfTwo[row * (ndata - 1 - i)]

AddAll(f) == FoldFunction(LAMBDA x, y : Add[x][y], 0, f)

\* The determinant of a k by k matrix, which decides whether its rows can
\* be inverted; signs vanish in a field of characteristic two.
Det(A, k) ==
  AddAll([p \in {q \in [1..k -> 1..k] : IsInjective(q)} |->
            FoldFunction(Times, 1, [j \in 1..k |-> A[j][p[j]]])])

ByteAt(column, pos) == IF pos <= Len(column) THEN column[pos] ELSE 0

\* reconstruct: the data columns with those in `missing` solved for from the
\* first parity rows that can be inverted (Cramer's rule for the inverse the
\* code computes by elimination), or Unsolved where none can be.
Reconstruct(data, parity, missing) ==
  LET k     == Cardinality(missing)
      rows  == {r \in DOMAIN parity : parity[r] # Unread}
      gone  == SetToSortSeq(missing, <)
      coef(r, i) == Coefficient(r - 1, i - 1, Len(data))
      matrix(sel) == [j \in 1..k |-> [m \in 1..k |-> coef(sel[j], gone[m])]]
      picks == {s \in kSubset(k, rows) : Det(matrix(SetToSortSeq(s, <)), k) # 0}
      first == CHOOSE s \in picks : \A t \in picks \ {s} : Min(SymDiff(s, t)) \in s
      sel   == SetToSortSeq(first, <)
      A     == matrix(sel)
      inv   == GfInv(Det(A, k))
      syndrome(j, pos) ==
        Add[parity[sel[j]][pos]][AddAll([i \in (DOMAIN data) \ missing |->
                                   Times(coef(sel[j], i), ByteAt(data[i], pos))])]
      solved(m, pos) ==
        Times(inv, Det([j \in 1..k |-> [A[j] EXCEPT ![m] = syndrome(j, pos)]], k))
  IN  IF missing = {} THEN data
      ELSE IF Cardinality(rows) < k \/ picks = {} THEN Unsolved
      ELSE [i \in DOMAIN data |->
              IF i \in missing
              THEN [pos \in DOMAIN data[i] |-> solved(CHOOSE m \in 1..k : gone[m] = i, pos)]
              ELSE data[i]]

---------------------------------------------------------------------------
(* How the program lays a block out: rows of columns [dev, at, len], the   *)
(* parity columns first.                                                   *)

\* How many sectors the first `big` columns and the others of a row hold.
Share(size, ndata, nparity) ==
  [q |-> size \div ndata, big |-> IF size % ndata = 0 THEN 0 ELSE (size % ndata) + nparity]

\* raidz::map, with the exchange of the first two columns that raidz1
\* carries every other SwapEvery sectors.
RaidzMap(t, at, size) ==
  LET n == Width(t)
      share == Share(size, n - t.nparity, t.nparity)
      acols == IF share.q = 0 THEN share.big ELSE n
      place(c) == LET col == (at % n) + c
                  IN  [dev |-> col % n, at |-> (at \div n) + (col \div n)]
      swapped(c) == IF t.nparity = 1 /\ (at \div SwapEvery) % 2 = 1 /\ c < 2 THEN 1 - c ELSE c
  IN  <<[c \in 1..acols |->
          [len |-> IF c <= share.big THEN share.q + 1 ELSE share.q] @@ place(swapped(c - 1))]>>

\* Config::row, with logical_to_physical: one row of a dRAID group.
DraidRow(t, at, size) ==
  LET groupsz  == Group(t) * RowHeight
      group    == at \div groupsz
      start    == (group * Group(t)) % Disks(t)
      perm     == group \div t.ngroups
      row      == perm * SliceRows(t) + (((group % t.ngroups) * Group(t)) \div Disks(t))
      physical == RowHeight * row + ((at % groupsz) \div Group(t))
      share    == Share(size, t.ndata, t.nparity)
  IN  [i \in 1..Group(t) |->
        [dev |-> Permute(t, perm, (start + i - 1) % Disks(t)),
         at  |-> IF start + i > Disks(t) THEN physical + RowHeight ELSE physical,
         len |-> IF i <= share.big THEN share.q + 1 ELSE share.q]]

DraidAsize(t, size) == (((size - 1) \div t.ndata) + 1) * Group(t)

\* Config::map: a block that crosses a group boundary goes on in the next.
DraidMap(t, at, size) ==
  LET groupsz == Group(t) * RowHeight
      next    == ((at \div groupsz) + 1) * groupsz
      here    == IF at + DraidAsize(t, size) > next
                 THEN ((next - at) \div Group(t)) * t.ndata ELSE size
  IN  IF here < size
      THEN <<DraidRow(t, at, here), DraidRow(t, at + DraidAsize(t, here), size - here)>>
      ELSE <<DraidRow(t, at, size)>>

\* spare_child: the child a distributed spare stands for at an offset.
SpareChild(t, n, at) ==
  Permute(t, at \div (SliceRows(t) * RowHeight), (Width(t) - 1) - n)

---------------------------------------------------------------------------
(* Reading.                                                                *)

\* read_leaf: the bytes of a disk as they are now, or Unread.
ReadDisk(d, at, len) ==
  IF d \in lost THEN Unread
  ELSE [i \in 1..len |-> IF <<d, at + i - 1>> \in DOMAIN store THEN store[<<d, at + i - 1>>] ELSE 0]

\* read_candidates of a disk, a mirror or a slot: one reading for each that
\* stands there. A distributed spare is not read here.
Sides(kid, at, len) ==
  [i \in DOMAIN kid |-> IF IsDisk(kid[i]) THEN ReadDisk(kid[i].disk, at, len) ELSE Unread]

\* read_first: the first side that reads, whatever it holds.
FirstOf(sides) ==
  IF \A i \in DOMAIN sides : sides[i] = Unread THEN Unread
  ELSE sides[Min({i \in DOMAIN sides : sides[i] # Unread})]

\* read_column's walk from a spare to the child it stands for.
RECURSIVE Holder(_, _, _, _)
Holder(t, dev, at, steps) ==
  IF steps = 0 THEN Unread
  ELSE IF Len(Kid(t, dev)) = 1 /\ ~IsDisk(Kid(t, dev)[1])
       THEN Holder(t, SpareChild(t, Kid(t, dev)[1].spare, at), at, steps - 1)
       ELSE <<dev>>

ReadColumn(t, c) ==
  LET holder == Holder(t, c.dev, c.at, Width(t))
  IN  IF c.len = 0 THEN <<>>
      ELSE IF holder = Unread THEN Unread
      ELSE FirstOf(Sides(Kid(t, holder[1]), c.at, c.len))

\* read_row with read_parity: the columns as they read, lost data columns
\* filled with zeros.
ReadRow(t, m) ==
  LET parts == [c \in DOMAIN m |-> ReadColumn(t, m[c])]
      data  == SubSeq(parts, t.nparity + 1, Len(parts))
      gone  == {i \in DOMAIN data : data[i] = Unread}
  IN  [parity |-> SubSeq(parts, 1, t.nparity), lost |-> gone,
       data   |-> [i \in DOMAIN data |->
                     IF i \in gone THEN [p \in 1..m[i + t.nparity].len |-> 0] ELSE data[i]]]

Rebuild(row) == Reconstruct(row.data, row.parity, row.lost)

Assemble(rows) == FlattenSeq([r \in DOMAIN rows |-> FlattenSeq(rows[r].data)])

\* One row with some readable columns distrusted: the data rebuilt without
\* them, or Unsolved where that asks for more parity than is left.
Distrusting(row, bad_parity, bad_data) ==
  LET missing == row.lost \cup bad_data
  IN  IF missing = {} THEN Unsolved
      ELSE Reconstruct(row.data,
             [i \in DOMAIN row.parity |-> IF i \in bad_parity THEN Unread ELSE row.parity[i]],
             missing)

\* A search that takes every parity column at its word.
SearchDataOnly(rows, wanted) ==
  \E r \in DOMAIN rows :
    LET row    == rows[r]
        spare  == Cardinality({i \in DOMAIN row.parity : row.parity[i] # Unread}) - Cardinality(row.lost)
    IN  \E bad \in SUBSET ((DOMAIN row.data) \ row.lost) :
          /\ Cardinality(bad) \in 1..spare
          /\ LET data == Distrusting(row, {}, bad)
             IN  data # Unsolved /\ Assemble([rows EXCEPT ![r].data = data]) = wanted

\* read_striped's search: in one row at a time, every combination of readable
\* columns no larger than the parity left over.
SearchFinds(rows, wanted) ==
  \E r \in DOMAIN rows :
    LET row      == rows[r]
        readable == {i \in DOMAIN row.parity : row.parity[i] # Unread}
        intact   == (DOMAIN row.data) \ row.lost
    IN  \E bad_parity \in SUBSET readable, bad_data \in SUBSET intact :
          /\ Cardinality(bad_parity) + Cardinality(bad_data)
               \in 1..(Cardinality(readable) - Cardinality(row.lost))
          /\ LET data == Distrusting(row, bad_parity, bad_data)
             IN  data # Unsolved /\ Assemble([rows EXCEPT ![r].data = data]) = wanted

\* read_striped: rebuild what is lost, verify, search.
StripedReads(t, at, wanted) ==
  LET maps == IF t.kind = "draid" THEN DraidMap(t, at, Len(wanted)) ELSE RaidzMap(t, at, Len(wanted))
      read == [r \in DOMAIN maps |-> ReadRow(t, maps[r])]
      rows == [r \in DOMAIN read |-> [read[r] EXCEPT !.data = Rebuild(read[r])]]
  IN  /\ \A r \in DOMAIN rows : rows[r].data # Unsolved
      /\ Assemble(rows) = wanted \/ SearchFinds(rows, wanted)
---------------------------------------------------------------------------
(* Vdevs that were removed.                                                *)

\* entry_for: the entry of a mapping whose source range holds `at`.
EntryFor(mapping, at) ==
  SelectSeq(mapping, LAMBDA e : e.src <= at /\ at < e.src + e.len)

\* remap: where each piece of a range went, one per entry crossed; a gap is
\* an error, for bytes that are in no entry are nowhere.
RECURSIVE Remap(_, _, _)
Remap(mapping, at, left) ==
  LET e    == EntryFor(mapping, at)[1]
      take == Min({e.len - (at - e.src), left})
      rest == Remap(mapping, at + take, left - take)
  IN  IF left = 0 THEN <<>>
      ELSE IF EntryFor(mapping, at) = <<>> \/ rest = Unmapped THEN Unmapped
      ELSE <<[vdev |-> e.dst, at |-> e.to + (at - e.src), len |-> take]>> \o rest

\* locate_vdev: the mapping a removed vdev left is newer than any label that
\* still describes it.
LabelFirst(v) ==
  IF v \in opened.tops THEN "top" ELSE IF v \in DOMAIN opened.removed THEN "removed" ELSE "unknown"

Located(v) ==
  IF v \in DOMAIN opened.removed THEN "removed" ELSE IF v \in opened.tops THEN "top" ELSE "unknown"

\* candidates_on and remapped_candidates: every way to read a range of a
\* vdev, following the mapping of a removed one. Way k takes the k-th way of
\* each piece, or its last.
RECURSIVE Ways(_, _, _, _)
Ways(v, at, len, depth) ==
  IF Located(v) = "removed"
  THEN LET pieces == Remap(opened.removed[v], at, len)
           per    == [i \in DOMAIN pieces |->
                        Ways(pieces[i].vdev, pieces[i].at, pieces[i].len, depth + 1)]
           way(k) == [i \in DOMAIN per |-> per[i][Min({k, Len(per[i])})]]
       IN  IF depth > MaxNesting \/ pieces = Unmapped THEN <<Unread>>
           ELSE [k \in 1..Max({Len(per[i]) : i \in DOMAIN per}) |->
                   IF Unread \in Range(way(k)) THEN Unread ELSE FlattenSeq(way(k))]
  ELSE IF Located(v) = "top"
  THEN FlattenSeq([i \in DOMAIN pool[v].kids |-> Sides(pool[v].kids[i], at, len)])
  ELSE <<Unread>>

\* read_raw_verified for the one DVA of the block.
Reads(b, wanted) ==
  IF Located(b.vdev) = "top" /\ pool[b.vdev].kind # "mirror"
  THEN StripedReads(pool[b.vdev], b.at, wanted)
  ELSE wanted \in Range(Ways(b.vdev, b.at, Len(wanted), 0))

---------------------------------------------------------------------------
(* OpenZFS, external: what it writes where. The sectors of a raidz are     *)
(* numbered across its children, those of a dRAID by row, chunk and slice. *)

Content(size) == [i \in 1..size |-> (37 * i) % 251]

\* The columns of one row of `data`: parity by Horner's rule, then the data
\* column by column; with `all`, empty columns take part in the parity.
Horner(column_bytes, row) ==
  FoldLeft(LAMBDA acc, d : Add[Times(acc, PowerOfTwo[row])][d], 0, column_bytes)

Stripe(data, ndata, nparity, all) ==
  LET height(d) == (Len(data) + ndata - d) \div ndata      \* of data column d, from 1
      upto(d)   == FoldSet(LAMBDA e, n : n + height(e), 0, 1..d)
      column(d) == SubSeq(data, upto(d - 1) + 1, upto(d))
      used      == IF all THEN ndata ELSE Min({ndata, Len(data)})
      parity(r) == [i \in 1..height(1) |->
                      Horner([d \in 1..used |-> ByteAt(column(d), i)], r)]
  IN  [c \in 1..(nparity + used) |-> IF c <= nparity THEN parity(c - 1) ELSE column(c - nparity)]


\* The rows a block occupies: in each, the bytes of its columns and the cell
\* <<child, sector>> of each byte. The sectors of a raidz are numbered
\* across the children; raidz1 exchanges the columns of some stripes.
RaidzRows(t, at, data) ==
  LET cols == Stripe(data, Width(t) - t.nparity, t.nparity, FALSE)
      slot(c) == IF t.nparity = 1 /\ (at \div SwapEvery) % 2 = 1 /\ c < 3 THEN 3 - c ELSE c
      number(c, i) == at + (i - 1) * Width(t) + slot(c) - 1
  IN  <<[bytes |-> cols,
         cells |-> [c \in DOMAIN cols |-> [i \in DOMAIN cols[c] |->
                      <<number(c, i) % Width(t), number(c, i) \div Width(t)>>]]]>>

\* Those of a dRAID go by row and column: chunks of RowHeight sectors fill a
\* slice, disk after disk in the order of the slice's permutation; a block
\* that reaches the end of its group goes on in the first row of the next.
DraidCell(t, row, c) ==
  LET group == row \div RowHeight
      slice == group \div t.ngroups
      chunk == (group % t.ngroups) * Group(t) + c
  IN  <<Permute(t, slice, chunk % Disks(t)),
        (slice * SliceRows(t) + (chunk \div Disks(t))) * RowHeight + (row % RowHeight)>>

DraidRows(t, at, data) ==
  LET row  == at \div Group(t)
      left == RowHeight - (row % RowHeight)
      part(from, bytes) ==
        LET cols == Stripe(bytes, t.ndata, t.nparity, TRUE)
        IN  [bytes |-> cols,
             cells |-> [c \in DOMAIN cols |-> [i \in DOMAIN cols[c] |->
                          DraidCell(t, from + i - 1, c - 1)]]]
      here == left * t.ndata
  IN  IF Len(data) <= here THEN <<part(row, data)>>
      ELSE <<part(row, SubSeq(data, 1, here)), part(row + left, SubSeq(data, here + 1, Len(data)))>>

\* A mirror holds the block in every slot, at its own place.
MirrorRows(t, at, data) ==
  [k \in DOMAIN t.kids |->
     [bytes |-> <<data>>, cells |-> <<[i \in DOMAIN data |-> <<k - 1, at + i - 1>>]>>]]

RowsOf(t, at, data) ==
  CASE t.kind = "raidz"  -> RaidzRows(t, at, data)
    [] t.kind = "draid"  -> DraidRows(t, at, data)
    [] t.kind = "mirror" -> MirrorRows(t, at, data)

\* The disks that hold a cell: every disk in the child's slot, and for a
\* distributed spare the disk of the child whose turn it is there to be spare.
Holders(t, cell) ==
  LET kid     == Kid(t, cell[1])
      home(n) == Kid(t, Permute(t, cell[2] \div (SliceRows(t) * RowHeight), Width(t) - 1 - n))[1]
  IN  [i \in DOMAIN kid |-> IF IsDisk(kid[i]) THEN kid[i].disk ELSE home(kid[i].spare).disk]

Written(t, at, data) ==
  LET rows  == RowsOf(t, at, data)
      bytes == UNION {UNION {UNION {{<<d, rows[r].cells[c][i][2], rows[r].bytes[c][i]>> :
                                       d \in Range(Holders(t, rows[r].cells[c][i]))} :
                                       i \in DOMAIN rows[r].cells[c]} :
                               c \in DOMAIN rows[r].cells} : r \in DOMAIN rows}
  IN  [x \in {<<b[1], b[2]>> : b \in bytes} |->
         (CHOOSE b \in bytes : <<b[1], b[2]>> = x)[3]]

---------------------------------------------------------------------------
Init ==
  /\ pool \in Pools
  /\ block = NoBlock
  /\ store = <<>> /\ mappings = <<>>
  /\ lost = {} /\ rotten = {}
  /\ opened = Closed /\ answer = "none"

\* OpenZFS allocates a block, on a dRAID in whole rows, and writes it.
Write ==
  /\ block = NoBlock
  /\ \E v \in DOMAIN pool : \E at \in Offsets[pool[v].kind], size \in Sizes[pool[v].kind] :
       /\ pool[v].kind = "draid" => at % Group(pool[v]) = 0
       /\ block' = [vdev |-> v, at |-> at, size |-> size]
       /\ store' = Written(pool[v], at, Content(size))
  /\ UNCHANGED <<pool, mappings, lost, rotten, opened, answer>>

\* Where each sector of the block lives now.
RECURSIVE Home(_, _)
Home(v, at) ==
  IF v \notin DOMAIN mappings THEN <<v, at>>
  ELSE LET e == CHOOSE x \in Range(mappings[v]) : at \in x.src..(x.src + x.len - 1)
       IN  Home(e.dst, e.to + (at - e.src))

HomeOf(i) == Home(block.vdev, block.at + i - 1)

\* `zpool remove`: what lives on `v` is copied in one or two pieces to other
\* vdevs, and a mapping takes its place. Only pools of disks and mirrors.
RemoveVdev(v) ==
  LET left  == (DOMAIN pool \ DOMAIN mappings) \ {v}
      here  == SetToSortSeq({HomeOf(i)[2] : i \in {j \in 1..block.size : HomeOf(j)[1] = v}}, <)
      free(d) == 1 + Max({0} \cup {HomeOf(i)[2] : i \in {j \in 1..block.size : HomeOf(j)[1] = d}})
  IN  /\ opened = Closed /\ lost = {} /\ rotten = {}
      /\ block # NoBlock
      /\ \A w \in DOMAIN pool : pool[w].kind = "mirror"
      /\ v \notin DOMAIN mappings /\ Cardinality(DOMAIN mappings) < MaxRemoved
      /\ here # <<>>
      /\ \E cut \in 1..Len(here), d1 \in left, d2 \in left :
           LET dst(i) == IF i <= cut THEN d1 ELSE d2
               to(i)  == free(dst(i)) + (IF i <= cut \/ d1 # d2 THEN i ELSE i + 1)
               runs   == {i \in DOMAIN here : i = 1 \/ i = cut + 1 \/ here[i] # here[i - 1] + 1}
               upto(i) == Min({j \in runs : j > i} \cup {Len(here) + 1})
               entry(i) == [src |-> here[i], len |-> upto(i) - i, dst |-> dst(i), to |-> to(i)]
               run    == SetToSortSeq(runs, <)
               byte(at) == LET i == CHOOSE j \in 1..block.size : HomeOf(j) = <<v, at>>
                           IN  <<Content(block.size)[i]>>
           IN  /\ cut = Len(here) => d2 = d1
               /\ mappings' = mappings @@ (v :> [n \in DOMAIN run |-> entry(run[n])])
               /\ store' = FoldSet(LAMBDA i, f : Written(pool[dst(i)], to(i), byte(here[i])) @@ f,
                                   store, DOMAIN here)
  /\ UNCHANGED <<pool, block, lost, rotten, opened, answer>>

\* A member is not there any more; a sector of one no longer holds what it held.
Lose(d) ==
  /\ opened = Closed /\ block # NoBlock
  /\ rotten = {} /\ d \notin lost /\ Cardinality(lost) < MaxLost
  /\ lost' = lost \cup {d}
  /\ UNCHANGED <<pool, block, store, mappings, rotten, opened, answer>>

Rot(cell) ==
  /\ opened = Closed
  /\ cell[1] \notin lost /\ cell \notin rotten /\ Cardinality(rotten) < MaxRotten
  /\ store' = [store EXCEPT ![cell] = Add[@][85]]
  /\ rotten' = rotten \cup {cell}
  /\ UNCHANGED <<pool, block, mappings, lost, opened, answer>>

\* PoolReader::new and load_removed_vdevs: the vdevs the labels describe -- one
\* that was removed may still be on a stale label -- and the mappings the
\* pool's configuration names, each if it can be read.
Open ==
  /\ opened = Closed /\ block # NoBlock
  /\ \E known \in SUBSET DOMAIN mappings, stale \in SUBSET DOMAIN mappings :
       opened' = [removed |-> [v \in known |-> mappings[v]],
                  tops    |-> (DOMAIN pool \ DOMAIN mappings) \cup stale]
  /\ UNCHANGED <<pool, block, store, mappings, lost, rotten, answer>>

\* read_block.
Read ==
  /\ opened # Closed /\ answer = "none"
  /\ answer' = IF Reads(block, Content(block.size)) THEN "ok" ELSE "failed"
  /\ UNCHANGED <<pool, block, store, mappings, lost, rotten, opened>>

Next ==
  \/ Write
  \/ \E v \in DOMAIN pool : RemoveVdev(v)
  \/ \E d \in UNION {DisksOf(pool[v]) : v \in DOMAIN pool} : Lose(d)
  \/ \E cell \in DOMAIN store : Rot(cell)
  \/ Open
  \/ Read

Spec == Init /\ [][Next]_vars
---------------------------------------------------------------------------
(* What must hold.                                                         *)

\* How a column comes back as the code reads a slot: from the first disk of
\* it that is there; a distributed spare only where it has the slot alone.
Source(t, cell) ==
  LET kid     == Kid(t, cell[1])
      holders == Holders(t, cell)
      usable  == {i \in DOMAIN kid : (IsDisk(kid[i]) \/ Len(kid) = 1) /\ holders[i] \notin lost}
  IN  IF usable = {} THEN {} ELSE {<<holders[Min(usable)], cell[2]>>}

Gone(t, column)   == \E i \in DOMAIN column : Source(t, column[i]) = {}
Spoilt(t, column) == ~Gone(t, column) /\ \E i \in DOMAIN column : Source(t, column[i]) \subseteq rotten

Rows == RowsOf(pool[block.vdev], block.at, Content(block.size))

\* A block on a raidz or a dRAID is read as long as no row of it has more
\* bad columns, gone or spoilt, than it has parity, and spoilt ones are in
\* one row only (raidz::map, draid::Config::map, reconstruct and the
\* combinations of read_striped).
TolerableLossIsRead ==
  (answer # "none" /\ pool[block.vdev].kind # "mirror") =>
    LET t    == pool[block.vdev]
        bad(r)   == {c \in DOMAIN r.cells : Gone(t, r.cells[c]) \/ Spoilt(t, r.cells[c])}
        spoilt(r) == {c \in DOMAIN r.cells : Spoilt(t, r.cells[c])} # {}
    IN  (/\ \A n \in DOMAIN Rows : Cardinality(bad(Rows[n])) <= t.nparity
         /\ Cardinality({n \in DOMAIN Rows : spoilt(Rows[n])}) <= 1)
        => answer = "ok"

\* How many mappings lead from a sector of the block to where it lives.
RECURSIVE Hops(_, _)
Hops(v, at) ==
  IF v \notin DOMAIN mappings THEN 0
  ELSE LET e == CHOOSE x \in Range(mappings[v]) : at \in x.src..(x.src + x.len - 1)
       IN  1 + Hops(e.dst, e.to + (at - e.src))

Intact(d, at) == d \notin lost /\ <<d, at>> \notin rotten

\* A block that vdev removals have moved, in pieces and over each other, is
\* read through their mappings whatever stale labels say, as long as one
\* numbered side of every destination is whole -- the last where there are
\* fewer -- and the mappings are not nested beyond what the code follows
\* (Mapping::remap, remapped_candidates).
MovedBlocksAreRead ==
  (answer # "none" /\ pool[block.vdev].kind = "mirror" /\ DOMAIN opened.removed = DOMAIN mappings) =>
    LET sides(i) == pool[HomeOf(i)[1]].kids
        whole(i, k) == Intact(sides(i)[Min({k, Len(sides(i))})][1].disk, HomeOf(i)[2])
    IN  (/\ \A i \in 1..block.size : Hops(block.vdev, block.at + i - 1) <= MaxNesting + 1
         /\ \E k \in 1..2 : \A i \in 1..block.size : whole(i, k))
        => answer = "ok"

=============================================================================
