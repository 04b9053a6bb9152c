------------------------------ MODULE PoolMembers ------------------------------
(***************************************************************************)
(* Which device is which leaf: a pool changes while some of its disks are  *)
(* out, then some of them are given to `open_members`, which assembles     *)
(* what their labels say, asks the MOS which top-level vdevs were removed, *)
(* searches the order of a layout given by hand, and puts members without  *)
(* labels where the pool reads through them.                               *)
(*                                                                         *)
(* The history of the pool is ZFS's (external); `Recover` and all after it *)
(* is the program.  A disk holds a column of a top-level vdev, of the TXGs *)
(* it was there for; the metadata of a TXG is rows of such columns.        *)
(*                                                                         *)
(* Simplifications:                                                        *)
(*  - how a member's labels are found is MemberScan, refusals and the stop *)
(*    are PoolReader's and DumpRun's: here every read is answered;          *)
(*  - a disk is given once, and its leaf is told by one guid;              *)
(*  - the whole metadata is written anew at each TXG, each block once;     *)
(*  - mismatches are counted by block, not by attempt, and of several best *)
(*    orders any may be taken (the code takes the first it tried).         *)
(***************************************************************************)
EXTENDS Naturals, Sequences, FiniteSets, FiniteSetsExt, SequencesExt

CONSTANTS
  Disks,       \* numbered, in the order they are given
  Starts,      \* pools as created: [kind, first : Seq of disks; second, stranger
               \* and spare : a disk or 0; rows : the raidz rows of its metadata]
  Remembered,  \* orders the operator may give the members of a raidz in
  Bases,       \* where the vdev of a disk may begin that lost its labels and its
               \* rings; 0 is where it is looked for first
  MaxTxg,      \* bound on the pool's history
  MaxLost,     \* bound on the disks that lost their labels
  MaxAssumed   \* bound on --assume-member

ASSUME MembersAssumption ==
  /\ Disks \subseteq Nat \ {0} /\ IsFiniteSet(Disks)
  /\ \A s \in Starts : s.kind \in {"disk", "mirror", "raidz"} /\ {s.second, s.stranger, s.spare} \subseteq Disks \cup {0}
  /\ \A s \in Starts : \A r \in s.rows : r.parity \cap r.data = {} /\ r.data # {}
  /\ Bases \subseteq Nat /\ MaxTxg \in Nat \ {0} /\ MaxLost \in Nat /\ MaxAssumed \in Nat

VARIABLES
  pool,      \* the pool as it is
  disks,     \* what is on each disk
  phase,     \* "history", "layout", "removed", "bind", or how the opening ended
  given,     \* the members given
  pools,     \* the assemblies
  layout,    \* --hints: kinds and members of the top-level vdevs, or none
  bases,     \* where each member's vdev is taken to begin
  assumed,   \* how many --assume-member have been put in
  verdict    \* what the last of them was taken for

vars == <<pool, disks, phase, given, pools, layout, bases, assumed, verdict>>

-----------------------------------------------------------------------------
(* The pool                                                                *)

ThisPool == 1
OtherPool == 2

\* kids: the children of a top-level vdev in order, each its leaves - one, or
\* more where a replacement is under way
Tree(guid, id, kind, kids) == [guid |-> guid, id |-> id, kind |-> kind, kids |-> kids]
Nparity(tree) == IF tree.kind = "raidz" THEN 1 ELSE 0
Leaves(tree) == FlattenSeq(tree.kids)

\* The column of a child: the sides of a mirror hold the same
Column(tree, k) == IF tree.kind = "raidz" THEN k ELSE 1

LeafGuid(d) == 10 + d
Foreign == 900   \* a leaf of the other pool
FirstTop(s) ==
  IF s.kind = "disk" THEN Tree(LeafGuid(s.first[1]), 0, "disk", <<<<LeafGuid(s.first[1])>>>>)
  ELSE Tree(100, 0, s.kind, [k \in DOMAIN s.first |-> <<LeafGuid(s.first[k])>>])
StartTops(s) ==
  {FirstTop(s)} \cup IF s.second = 0 THEN {}
                     ELSE {Tree(LeafGuid(s.second), 1, "disk", <<<<LeafGuid(s.second)>>>>)}

MetadataOf(tops, rows) ==
  UNION {IF t.kind = "raidz" THEN {[top |-> t.id, parity |-> r.parity, data |-> r.data] : r \in rows}
         ELSE {[top |-> t.id, parity |-> {}, data |-> {1}]} : t \in tops}

Blank == [leaf |-> 0, label |-> {}, plugged |-> TRUE, top |-> 0, col |-> 0, from |-> 1, upto |-> 0,
          rings |-> TRUE, base |-> 0]
Unused == [Blank EXCEPT !.plugged = FALSE]
Label(p, t, guid) ==
  [pool |-> ThisPool, txg |-> p.txg, guid |-> guid, tree |-> t,
   children |-> p.children, features |-> p.features]

TopOf(p, g) == CHOOSE t \in p.tops : g \in ToSet(Leaves(t))
Holder(g) == CHOOSE d \in Disks : disks[d].leaf = g
IsMember(d) == disks[d].leaf \notin {0, Foreign}

\* A TXG is synced: the data of every disk that is there, and the labels of the
\* top-level vdevs whose configuration changed
Sync(p, ds, changed) ==
  LET q == [p EXCEPT !.meta = [t \in 1 .. p.txg |->
              IF t = p.txg THEN MetadataOf(p.tops, p.rows) ELSE @[t]],
                     !.written = [i \in DOMAIN @ |-> IF i \in changed THEN p.txg ELSE @[i]]]
      there(d) == ds[d].leaf \notin {0, Foreign} /\ ds[d].plugged
  IN  /\ pool' = q
      /\ disks' = [d \in Disks |->
           IF ~there(d) THEN ds[d]
           ELSE LET t == TopOf(p, ds[d].leaf)
                IN  [ds[d] EXCEPT !.upto = p.txg,
                       !.label = IF t.id \in changed THEN {Label(p, t, ds[d].leaf)} ELSE @]]

NewTxg == [pool EXCEPT !.txg = @ + 1]

Init ==
  \E s \in Starts :
    LET tops == StartTops(s)
        p == [txg |-> 1, tops |-> tops, children |-> Cardinality(tops), features |-> {},
              rows |-> s.rows, meta |-> <<MetadataOf(tops, s.rows)>>, written |-> [i \in {0, 1} |-> 1],
              next |-> 200]
        column(d) == IF d \in ToSet(s.first) THEN CHOOSE k \in DOMAIN s.first : s.first[k] = d ELSE 1
        top(d) == CHOOSE t \in tops : LeafGuid(d) \in ToSet(Leaves(t))
    IN  /\ pool = p
        /\ disks = [d \in Disks |->
             IF d = s.stranger
             THEN [Blank EXCEPT !.leaf = Foreign, !.label =
                    {[pool |-> OtherPool, txg |-> 9, guid |-> Foreign, children |-> 1, features |-> {"other"},
                      tree |-> Tree(Foreign + 1, 0, "mirror", <<<<Foreign>>, <<Foreign + 2>>>>)]}]
             ELSE IF d \in ToSet(s.first) \cup {s.second}
             THEN [Blank EXCEPT !.leaf = LeafGuid(d), !.label = {Label(p, top(d), LeafGuid(d))},
                    !.top = top(d).id, !.col = Column(top(d), column(d)), !.upto = 1]
             ELSE IF d = s.spare THEN Blank ELSE Unused]
        /\ phase = "history" /\ given = {} /\ pools = <<>> /\ layout = <<>>
        /\ bases = [d \in Disks |-> 0] /\ assumed = 0 /\ verdict = {}

-----------------------------------------------------------------------------
(* Reading through an assembly                                             *)

\* node_readable
NodeReadable(tree, present) ==
  LET readable == {k \in DOMAIN tree.kids : \E g \in ToSet(tree.kids[k]) : present[g] # 0}
      missing == Len(tree.kids) - Cardinality(readable)
  IN  IF tree.kind = "mirror" THEN readable # {} ELSE missing <= Nparity(tree)

MissingTopsAll(a) ==   \* mutant: what was removed counts as missing
  {i \in 0 .. a.children - 1 : \A t \in a.tops : t.id # i}
MissingTops(a) ==
  {i \in 0 .. a.children - 1 : \A t \in a.tops : t.id # i} \ a.removed
PoolReadable(a) == MissingTops(a) = {} /\ \A t \in a.tops : NodeReadable(t, a.present)

VacantLeaves(a) ==
  LET ordered == SetToSortSeq(a.tops, LAMBDA s, t : s.id < t.id)
      leaves == FlattenSeq([k \in DOMAIN ordered |-> Leaves(ordered[k])])
      vacant(g) == a.present[g] = 0
  IN  SelectSeq(leaves, vacant)

\* Where a single data column has its parity beside it, both hold the same
Same(row, k, col) == k = col \/ (Cardinality(row.data) = 1 /\ {k, col} \subseteq row.parity \cup row.data)

\* Child k of a vdev gives what the row has in that column: `dark` devices
\* answer nothing, or zeros
Gives(a, dark, base, tree, row, k, t) ==
  \E g \in ToSet(tree.kids[k]) :
    LET d == a.present[g]
    IN  /\ d # 0 /\ d \notin dark
        /\ disks[d].top = row.top /\ Same(row, Column(tree, k), disks[d].col)
        /\ t \in disks[d].from .. disks[d].upto /\ base[d] = disks[d].base

\* read_block: one right side, or no more wrong columns than parity rebuilds
Reads(a, dark, base, row, t) ==
  \E tree \in a.tops :
    /\ tree.id = row.top
    /\ IF tree.kind = "raidz"
       THEN Cardinality({k \in row.parity \cup row.data : ~Gives(a, dark, base, tree, row, k, t)})
              <= Nparity(tree)
       ELSE \E k \in DOMAIN tree.kids : Gives(a, dark, base, tree, row, k, t)

\* uberblock_candidates
Txgs(a) == UNION {disks[d].from .. disks[d].upto : d \in {e \in a.devices : disks[e].rings}}

WalksAt(a, dark, base, t) == \A row \in pool.meta[t] : Reads(a, dark, base, row, t)
Walks(a, dark, base) == \E t \in Txgs(a) : WalksAt(a, dark, base, t)

\* Nothing on the member confirms where its vdev begins
Unanchored(d) == disks[d].label = {} /\ ~disks[d].rings

-----------------------------------------------------------------------------
(* What happens to the pool (external)                                     *)

Present(among) ==
  [g \in UNION {ToSet(Leaves(t)) : t \in pool.tops} |->
     IF \E d \in among : disks[d].leaf = g THEN Holder(g) ELSE 0]
Plugged == {d \in Disks : IsMember(d) /\ disks[d].plugged}
History == phase = "history" /\ UNCHANGED <<phase, given, pools, layout, bases, assumed, verdict>>

Unplug(d) ==
  /\ History /\ d \in Plugged
  /\ \A t \in pool.tops : NodeReadable(t, Present(Plugged \ {d}))
  /\ disks' = [disks EXCEPT ![d].plugged = FALSE] /\ UNCHANGED pool

Write == History /\ pool.txg < MaxTxg /\ Sync(NewTxg, disks, {})

Retop(t, u, grow) == [NewTxg EXCEPT !.tops = (@ \ {t}) \cup {u}, !.next = @ + grow]

\* vdev_label_init erases the labels of a disk that is there
Out(d) == [disks[d] EXCEPT !.leaf = 0, !.label = IF disks[d].plugged THEN {} ELSE @,
                           !.rings = ~disks[d].plugged]

\* The last side of a mirror becomes the top-level vdev, and takes its guid
Detach(d) ==
  /\ History /\ pool.txg < MaxTxg /\ IsMember(d)
  /\ LET g == disks[d].leaf
         t == TopOf(pool, g)
         k == CHOOSE k \in DOMAIN t.kids : g \in ToSet(t.kids[k])
         rest == IF t.kind = "mirror" THEN RemoveAt(t.kids, k)
                 ELSE [t.kids EXCEPT ![k] = SelectSeq(@, LAMBDA h : h # g)]
         alone == t.kind = "mirror" /\ Len(rest) = 1
         u == IF alone THEN Tree(t.guid, t.id, "disk", <<<<t.guid>>>>) ELSE [t EXCEPT !.kids = rest]
     IN  /\ IF t.kind = "mirror" THEN Len(t.kids) > 1 ELSE Len(t.kids[k]) > 1
         /\ NodeReadable([t EXCEPT !.kids = rest], Present(Plugged \ {d}))
         /\ Sync(Retop(t, u, 0),
                 [e \in Disks |-> IF e = d THEN Out(d)
                    ELSE IF alone /\ disks[e].leaf = rest[1][1] THEN [disks[e] EXCEPT !.leaf = t.guid]
                    ELSE disks[e]], {t.id})

\* A disk is attached: its label has txg 0 until the TXG that commits it
JoinStarts(d) ==
  /\ History /\ disks[d] = Blank /\ pool.txg < MaxTxg
  /\ \E t \in pool.tops : disks' = [disks EXCEPT ![d].label = {[Label(pool, t, pool.next) EXCEPT !.txg = 0]}]
  /\ UNCHANGED pool

JoinCommits(d, e) ==
  /\ History /\ pool.txg < MaxTxg
  /\ disks[d].leaf = 0 /\ \E c \in disks[d].label : c.txg = 0
  /\ e \in Plugged
  /\ LET t == TopOf(pool, disks[e].leaf)
         k == CHOOSE k \in DOMAIN t.kids : disks[e].leaf \in ToSet(t.kids[k])
         new == pool.next
         u == IF t.kind = "disk" THEN Tree(new + 1, t.id, "mirror", <<t.kids[1], <<new>>>>)
              ELSE IF t.kind = "mirror" THEN [t EXCEPT !.kids = Append(@, <<new>>)]
              ELSE [t EXCEPT !.kids[k] = Append(@, new)]
     IN  /\ Len(t.kids[k]) = 1
         /\ Sync(Retop(t, u, 2),
                 [disks EXCEPT ![d].leaf = new, ![d].top = t.id, ![d].col = Column(t, k),
                               ![d].from = pool.txg + 1, ![d].upto = pool.txg + 1], {t.id})

RemoveTop(t) ==
  /\ History /\ pool.txg < MaxTxg /\ t.id = 1 /\ \A u \in pool.tops : u.kind # "raidz"
  /\ \A g \in ToSet(Leaves(t)) : Holder(g) \in Plugged
  /\ Sync([NewTxg EXCEPT !.tops = @ \ {t}, !.features = @ \cup {"device_removal"}],
          [d \in Disks |-> IF disks[d].leaf \in ToSet(Leaves(t)) THEN Out(d) ELSE disks[d]], {0})

Change ==
  \/ Write
  \/ \E d \in Disks : Unplug(d) \/ Detach(d) \/ JoinStarts(d) \/ \E e \in Disks : JoinCommits(d, e)
  \/ \E t \in pool.tops : RemoveTop(t)

-----------------------------------------------------------------------------
(* assemble                                                                *)

Entries == {d \in given : disks[d].label # {}}
ConfigOf(d) == CHOOSE c \in disks[d].label : TRUE
Newest(S) == CHOOSE d \in S : \A e \in S : ConfigOf(e).txg <= ConfigOf(d).txg

Described(entries) ==
  LET committed == {d \in entries : ConfigOf(d).txg # 0}
      guids == {ConfigOf(d).tree.guid : d \in committed}
      newest(g) == Newest({d \in committed : ConfigOf(d).tree.guid = g})
  IN  {[txg |-> ConfigOf(newest(g)).txg, tree |-> ConfigOf(newest(g)).tree] : g \in guids}

SupersededNever(top, tops) == FALSE   \* mutant: two vdevs of one id stay
Superseded(top, tops) ==
  \E o \in tops : /\ o.tree.id = top.tree.id
                 /\ \/ o.txg > top.txg
                    \/ o.txg = top.txg /\ o.tree.guid < top.tree.guid

StaleMembers(entries, tops) ==
  {d \in entries :
     LET c == ConfigOf(d)
     IN  \/ c.txg = 0
         \/ \E top \in tops : top.tree.guid = c.tree.guid /\ Superseded(top, tops)
         \/ \E top \in tops : top.tree.guid = c.tree.guid
                              /\ c.guid \notin ToSet(Leaves(top.tree)) \cup {top.tree.guid}}

Assembly(guid) ==
  LET entries == {d \in Entries : ConfigOf(d).pool = guid}
      described == Described(entries)
      tops == {top.tree : top \in {top \in described : ~Superseded(top, described)}}
      stale == StaleMembers(entries, described)
      owners(g) == {d \in entries \ stale : ConfigOf(d).guid = g}
      newest == ConfigOf(Newest(entries))
  IN  [guid |-> guid, tops |-> tops, children |-> newest.children, features |-> newest.features,
       present |-> [g \in UNION {ToSet(Leaves(t)) : t \in tops} |->
                      IF owners(g) = {} THEN 0 ELSE Min(owners(g))],
       removed |-> {}, devices |-> entries, stale |-> stale]

Assemble ==
  LET guids == {ConfigOf(d).pool : d \in Entries}
      ordered == SetToSortSeq(guids, <)
  IN  [k \in DOMAIN ordered |-> Assembly(ordered[k])]

-----------------------------------------------------------------------------
(* A layout given by hand                                                  *)

SyntheticGuid(top, k) == 1000 * (top + 1) + k

LayoutAssembly(l) ==
  LET id(i) == i - 1
      tree(i) == Tree(SyntheticGuid(id(i), 0), id(i), l[i].kind,
                      [k \in DOMAIN l[i].members |-> <<SyntheticGuid(id(i), k)>>])
      places == UNION {{<<i, k>> : k \in DOMAIN l[i].members} : i \in DOMAIN l}
      at(g) == CHOOSE p \in places : SyntheticGuid(id(p[1]), p[2]) = g
  IN  [guid |-> 0, tops |-> {tree(i) : i \in DOMAIN l}, children |-> Len(l), features |-> {},
       present |-> [g \in {SyntheticGuid(id(p[1]), p[2]) : p \in places} |-> l[at(g)[1]].members[at(g)[2]]],
       removed |-> {}, devices |-> UNION {ToSet(l[i].members) : i \in DOMAIN l} \ {0}, stale |-> {}]

Mismatched(a, base, row, t) ==
  \E tree \in a.tops :
    /\ tree.id = row.top
    /\ \A k \in row.data : \E g \in ToSet(tree.kids[k]) : a.present[g] # 0
    /\ \E k \in row.data : ~Gives(a, {}, base, tree, row, k, t)

\* try_layout: the TXGs it tried, down to the newest that reads
Tried(a, base) ==
  LET reads == {t \in Txgs(a) : WalksAt(a, {}, base, t)}
  IN  {t \in Txgs(a) : t >= Max(reads)}
Mismatches(a, base) ==
  Cardinality(UNION {{<<t, row>> : row \in {r \in pool.meta[t] : Mismatched(a, base, r, t)}} : t \in Tried(a, base)})

Orders(l, top) ==
  {[l EXCEPT ![top].members = [k \in DOMAIN @ |-> @[p[k]]]] : p \in Permutations(DOMAIN l[top].members)}

\* search_order: those that read, and among them the fewest mismatches
Fitting(l, top) == {o \in Orders(l, top) : Walks(LayoutAssembly(o), {}, bases)}
BestOfAny(l, top) == Fitting(l, top)   \* mutant: any order that reads
Best(l, top) ==
  LET wrong == [o \in Fitting(l, top) |-> Mismatches(LayoutAssembly(o), bases)]
  IN  {o \in DOMAIN wrong : \A q \in DOMAIN wrong : wrong[o] <= wrong[q]}

-----------------------------------------------------------------------------
(* open_members                                                            *)

Ends(how) == phase' = how /\ UNCHANGED <<pool, disks, given, pools, layout, bases, assumed, verdict>>

Lost(d, anchored, base) == [disks[d] EXCEPT !.label = {}, !.rings = anchored, !.base = base]

\* Some disks are given, and some of them have lost their labels
Recover(g, lost) ==
  /\ phase = "history" /\ phase' = "opened" /\ given' = g
  /\ \E anchored \in [lost -> BOOLEAN], base \in [lost -> Bases \cup {0}] :
       /\ \A d \in lost : anchored[d] => base[d] = 0
       /\ disks' = [d \in Disks |-> IF d \in lost THEN Lost(d, anchored[d], base[d]) ELSE disks[d]]
  /\ UNCHANGED <<pool, pools, layout, bases, assumed, verdict>>

NothingOpened == phase = "opened" /\ given = {} /\ Ends("evidence")

\* "other" stands for every feature this build cannot account for
Unaccounted == \E d \in Entries : "other" \in ConfigOf(d).features
RefuseUnaccounted == phase = "opened" /\ given # {} /\ Unaccounted /\ Ends("unrecoverable")

AssembleLabels ==
  /\ phase = "opened" /\ given # {}
  /\ phase' = "assembled" /\ pools' = Assemble
  /\ UNCHANGED <<pool, disks, given, layout, bases, assumed, verdict>>

\* What the operator remembers: the vdevs, with a raidz in any order
LayoutOf(tops, known) ==
  LET ordered == SetToSortSeq(tops, LAMBDA s, t : s.id < t.id)
      member(g) == IF Holder(g) \in known THEN Holder(g) ELSE 0
  IN  [i \in DOMAIN ordered |->
        [kind |-> ordered[i].kind,
         members |-> [k \in DOMAIN ordered[i].kids |-> member(ordered[i].kids[k][1])]]]

TakeLayout ==
  /\ phase = "opened" /\ given # {} /\ \A d \in given : IsMember(d)
  /\ Cardinality(pool.tops) = pool.children
  /\ \A t \in pool.tops : \A k \in DOMAIN t.kids : Len(t.kids[k]) = 1
  /\ \E b \in {bases, [d \in Disks |-> IF d \in given THEN disks[d].base ELSE 0]} :
       bases' = b
  /\ \E known \in {given, {d \in given : disks[d].label # {}}} :
     LET l == LayoutOf(pool.tops, known)
     IN  layout' \in IF l[1].kind = "raidz"
                     THEN {[l EXCEPT ![1].members = [k \in DOMAIN @ |-> @[o[k]]]] : o \in Remembered} ELSE {l}
  /\ phase' = "layout" /\ UNCHANGED <<pool, disks, given, pools, assumed, verdict>>

UseLayout ==
  /\ phase = "layout" /\ phase' = "assembled" /\ pools' = <<LayoutAssembly(layout)>>
  /\ UNCHANGED <<pool, disks, given, layout, bases, assumed, verdict>>

\* Every order is tried, so that the one it starts from does not matter
SearchLayout ==
  /\ phase = "layout" /\ layout[1].kind = "raidz"
  /\ \E known \in SUBSET given : layout = LayoutOf(pool.tops, known)
  /\ IF Fitting(layout, 1) = {} THEN Ends("unrecoverable")
     ELSE /\ layout' \in Best(layout, 1)
          /\ pools' = <<LayoutAssembly(layout')>> /\ phase' = "searched"
          /\ UNCHANGED <<pool, disks, given, bases, assumed, verdict>>

\* removed_tops_of: the MOS of the newest uberblock, if it opens
RemovedTops(a) ==
  IF \/ MissingTops(a) = {} \/ "device_removal" \notin a.features \/ Txgs(a) = {}
     \/ ~WalksAt(a, {}, bases, Max(Txgs(a)))
  THEN {}
  ELSE {i \in 0 .. a.children - 1 : \A row \in pool.meta[Max(Txgs(a))] : row.top # i}

NoteRemovedTops ==
  /\ phase \in {"assembled", "searched"} /\ phase' = "bind"
  /\ pools' = [k \in DOMAIN pools |->
       [pools[k] EXCEPT !.removed = RemovedTops(pools[k]) \ {t.id : t \in pools[k].tops}]]
  /\ UNCHANGED <<pool, disks, given, layout, bases, assumed, verdict>>

-----------------------------------------------------------------------------
(* bind_assumed                                                            *)

TreeOf(a, g) == CHOOSE t \in a.tops : g \in ToSet(Leaves(t))
Bound(a, d, g) == [a EXCEPT !.present[g] = d, !.devices = @ \cup {d}]

\* Bases worth trying where nothing on a member confirms one
BaseCandidates(d) == IF Unanchored(d) /\ bases[d] = 0 THEN <<0, 1>> ELSE <<bases[d]>>

\* As many of the others as redundancy allows are withheld
Withhold(a, g) ==
  LET tree == TreeOf(a, g)
      others == SelectSeq(Leaves(tree), LAMBDA h : h # g /\ a.present[h] # 0)
      without(present, h) == IF NodeReadable(tree, [present EXCEPT ![h] = 0])
                             THEN [present EXCEPT ![h] = 0] ELSE present
  IN  FoldLeft(without, a.present, others)

BindingUnproven(a, d, g) ==   \* mutant: that it reads is enough, wherever it begins
  LET reads == {b \in ToSet(BaseCandidates(d)) : Walks(Bound(a, d, g), {}, [bases EXCEPT ![d] = b])}
  IN  {[guid |-> g, base |-> bases[d], used |-> TRUE] : b \in reads}
\* candidates_for: does the pool read with the member in this leaf, and not
\* with zeros in its place
Binding(a, d, g) ==
  LET tried == Bound(a, d, g)
      trial == [tried EXCEPT !.present = Withhold(tried, g)]
      dark == {tried.present[h] : h \in {h \in DOMAIN trial.present : trial.present[h] # tried.present[h]}}
      at(b) == [bases EXCEPT ![d] = b]
      reads == SelectSeq(BaseCandidates(d), LAMBDA b : Walks(trial, dark, at(b)))
  IN  {[guid |-> g, base |-> reads[k], used |-> ~Walks(trial, dark \cup {d}, at(reads[k]))] :
         k \in {1} \cap DOMAIN reads}

ConsistentWith(a, d) ==
  LET vacant == VacantLeaves(a)
      all == [k \in DOMAIN vacant |-> Binding(a, d, vacant[k])]
  IN  FlattenSeq([k \in DOMAIN all |-> IF all[k] = {} THEN <<>> ELSE <<CHOOSE b \in all[k] : TRUE>>])

\* parent_kind: the leaves of a mirror, and of a replacement, hold the same
Interchangeable(a, g) ==
  LET t == TreeOf(a, g)
  IN  t.kind = "mirror" \/ \E k \in DOMAIN t.kids : g \in ToSet(t.kids[k]) /\ Len(t.kids[k]) > 1

FittingLeaves(consistent) ==
  LET decisive == SelectSeq(consistent, LAMBDA b : b.used)
  IN  IF decisive = <<>> THEN consistent ELSE decisive

Takers == {k \in DOMAIN pools : VacantLeaves(pools[k]) # <<>>}
Taken(k, d, b, how) ==
  /\ pools' = [pools EXCEPT ![k] = Bound(@, d, b.guid)]
  /\ bases' = [bases EXCEPT ![d] = b.base]
  /\ verdict' = {[how |-> how, pool |-> k, device |-> d, guid |-> b.guid, used |-> b.used, base |-> b.base,
                  was |-> {g \in DOMAIN pools[k].present : pools[k].present[g] = d}]}
  /\ assumed' = assumed + 1
  /\ UNCHANGED <<pool, disks, phase, given, layout>>

NoTaker ==
  /\ phase = "bind" /\ assumed < MaxAssumed /\ Cardinality(Takers) # 1
  /\ Ends(IF Takers = {} /\ (pools = <<>> \/ \E k \in DOMAIN pools : MissingTops(pools[k]) # {})
          THEN "evidence" ELSE "usage")

\* --assume-member PATH=GUID
BindNamed(d) ==
  /\ phase = "bind" /\ assumed < MaxAssumed /\ d \in given
  /\ \E k \in DOMAIN pools : Takers = {k} /\
       \E g \in ToSet(VacantLeaves(pools[k])) :
         Taken(k, d, [guid |-> g, used |-> FALSE, base |-> bases[d]], "named")

\* --assume-member PATH
BindByReading(d) ==
  /\ phase = "bind" /\ assumed < MaxAssumed /\ d \in given
  /\ \E k \in DOMAIN pools : Takers = {k} /\
       LET fitting == FittingLeaves(ConsistentWith(pools[k], d))
           settled == Len(fitting) = 1 \/ \A j \in DOMAIN fitting : Interchangeable(pools[k], fitting[j].guid)
       IN  IF fitting = <<>> THEN Ends("usage")
           ELSE Taken(k, d, fitting[1], IF settled THEN "bound" ELSE "guessed")

ChoosePool ==
  /\ phase = "bind"
  /\ Ends(IF pools = <<>> THEN "evidence" ELSE IF Len(pools) > 1 THEN "usage" ELSE "read")

Over == phase \in {"evidence", "usage", "unrecoverable", "read"} /\ UNCHANGED vars

Next ==
  \/ Change
  \/ \E g \in SUBSET {d \in Disks : disks[d] \notin {Blank, Unused}} :
     \E lost \in SUBSET {d \in g : disks[d].from <= disks[d].upto} :
       Cardinality(lost) <= MaxLost /\ Recover(g, lost)
  \/ NothingOpened \/ RefuseUnaccounted \/ AssembleLabels
  \/ TakeLayout \/ UseLayout \/ SearchLayout
  \/ NoteRemovedTops \/ NoTaker
  \/ \E d \in Disks : BindNamed(d) \/ BindByReading(d)
  \/ ChoosePool \/ Over

Spec == Init /\ [][Next]_vars

-----------------------------------------------------------------------------
(* Properties                                                              *)

ByLabels == phase = "bind" /\ assumed = 0 /\ layout = <<>>
ItsPools == {pools[k] : k \in {k \in DOMAIN pools : pools[k].guid = ThisPool}}

Ours == {d \in Entries : ConfigOf(d).pool = ThisPool}

\* Of every top-level vdev of the pool one given member has the labels last written
NewestGiven ==
  \A t \in pool.tops : \E d \in Entries :
    IsMember(d) /\ ConfigOf(d).tree = t /\ ConfigOf(d).txg = pool.written[t.id]

\* Disks that were detached, replaced or attached while others were out are told
\* from the members of the pool as it is now: each leaf is the disk it is, each
\* other disk is set aside, however old its label and whatever it describes.
\* (assemble)
AssemblyIsThePool ==
  ByLabels /\ NewestGiven =>
    \E a \in ItsPools :
      /\ a.tops = pool.tops
      /\ a.present = Present(Ours)
      /\ a.stale = {d \in Ours : disks[d].leaf = 0}

\* What `readable` says of a pool is so: where it says no, some vdev really lacks
\* the members it needs, and is not one that was removed; where it says yes, and
\* no member has missed a write, all its metadata reads.  (PoolAssembly.readable,
\* removed_tops_of, note_removed_tops)
ReadableTells ==
  ByLabels /\ NewestGiven =>
    \A a \in ItsPools :
      LET fresh == {d \in Entries : IsMember(d) /\ disks[d].upto = pool.txg}
      IN  /\ (\A t \in pool.tops : NodeReadable(t, Present(fresh))) => PoolReadable(a)
          /\ PoolReadable(a) /\ fresh = {d \in Entries : IsMember(d)} => WalksAt(a, {}, bases, pool.txg)

HoldsLeaf(a, d, g) ==
  \E t \in a.tops : \E k \in DOMAIN t.kids :
    g \in ToSet(t.kids[k]) /\ t.id = disks[d].top /\ Column(t, k) = disks[d].col

\* Metadata in which every column of a raidz tells on its own
TellsColumnsApart ==
  \A t \in DOMAIN pool.meta : \A row \in pool.meta[t] : row.parity # {} =>
    \E full \in pool.meta[t] : full.top = row.top /\ Cardinality(full.data) > 1

\* A member bound because its contents made the walk work holds that leaf's data,
\* where it is said to begin, though siblings are missing, stale, replaced, bound
\* before or misplaced in a layout.  Not so where each block has one data column,
\* which its parity repeats, nor of a member that was bound already.
\* (candidates_for, bind_by_reading)
BoundIsProven ==
  \A v \in verdict :
    v.how = "bound" /\ v.used /\ v.was = {} /\ TellsColumnsApart =>
      v.base = disks[v.device].base /\ HoldsLeaf(pools[v.pool], v.device, v.guid)

\* An order found by searching reads every block of the newest TXG without repair,
\* and is the right one if the metadata tells the columns apart, where the members
\* of the raidz are all there, whole and read where they begin.  (search_order,
\* search_layout)
OrderIsFound ==
  LET here == layout[1].members
      a == LayoutAssembly(layout)
  IN  /\ phase = "searched"
      /\ \A k \in DOMAIN here :
           here[k] # 0 /\ disks[here[k]].upto = pool.txg /\ bases[here[k]] = disks[here[k]].base
      => /\ \A row \in pool.meta[pool.txg], t \in a.tops : \A k \in row.data :
              Gives(a, {}, bases, t, row, k, pool.txg)
         /\ TellsColumnsApart => \A k \in DOMAIN here : disks[here[k]].col = k

=============================================================================
