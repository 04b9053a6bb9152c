------------------------------ MODULE PoolHistory ------------------------------
(***************************************************************************)
(* What happened to a pool: the dataset tree of every TXG whose uberblock  *)
(* verifies is walked (dsl.rs), and the trees are compared (zvoltimeline,  *)
(* `list --diff`).                                                         *)
(*                                                                         *)
(* The pool is OpenZFS's (external): a command per TXG changes the objects *)
(* of the MOS, and the MOS of each TXG stays on disk until its blocks are  *)
(* used again.  `truth` is what the user of the pool saw, kept apart from  *)
(* the objects, so that what is walked can be compared with it.            *)
(*                                                                         *)
(* Simplifications:                                                        *)
(*  - each object has its blocks to itself (in a pool 32 dnodes share one: *)
(*    any set of parts may be lost, so also those of one block);           *)
(*  - a ZAP is one part, a property is one value, a block is 1 byte long;  *)
(*  - what a walk gives is a set: the order in which a ZAP is read and in  *)
(*    which a tree is shown is left out (walk_dir is called for a deepest  *)
(*    directory first, which is one of the orders), so a name is looked up *)
(*    among all that have it, not only the first;                          *)
(*  - refusals and the stop of a medium are PoolReader's and DumpRun's;    *)
(*  - the filter --dataset, hosts and the formatting are left out.         *)
(***************************************************************************)
EXTENDS Naturals, Sequences, FiniteSets, FiniteSetsExt, SequencesExt

CONSTANTS
  Names,      \* names of child datasets
  Snaps,      \* names of snapshots
  Kinds,      \* what may be created: subset of {"zfs", "zvol"}
  MaxTxg,     \* bound on the pool's history
  MaxObject,  \* bound on its object numbers
  MaxGone     \* bound on the parts whose blocks were used again or rotted

ASSUME HistoryAssumption ==
  /\ IsFiniteSet(Names) /\ "$ORIGIN" \notin Names /\ IsFiniteSet(Snaps)
  /\ Kinds \subseteq {"zfs", "zvol"} /\ {MaxTxg, MaxObject, MaxGone} \subseteq Nat

VARIABLES
  history,    \* the MOS of each TXG: objects by number
  truth,      \* the datasets of each TXG by guid, as `zfs list` would show them
  gone,       \* parts that do not read: <<object, part, TXG it was written at>>
  at,         \* the TXG the timeline is at, 0 before it starts
  previous,   \* the last TXG that was walked, and its datasets
  events,     \* the timeline
  pended,     \* --pending: what was told of the last TXG walked
  listed      \* what `list` printed

vars == <<history, truth, gone, at, previous, events, pended, listed>>

-----------------------------------------------------------------------------
(* The objects of a MOS (external)                                         *)

NoObject == 0
Root == 1
OriginDir == 3
OriginSnap == 5
FreeList == 8
EmptyList == 9

Dir(head, origin, kids, root) == [is |-> "dir", head |-> head, origin |-> origin, kids |-> kids, root |-> root]
Set(dir, prev, next, snaps, guid, txg, shape, dead) ==
  [is |-> "set", dir |-> dir, prev |-> prev, next |-> next, snaps |-> snaps, guid |-> guid, txg |-> txg,
   shape |-> shape, dead |-> dead]
Dead(used, lists) == [is |-> "dead", used |-> used, lists |-> lists]
Bpobj(bytes) == [is |-> "bpobj", bytes |-> bytes]
Shape(kind, size, data) == [kind |-> kind, size |-> size, data |-> data]
Nothing == <<>>

Put(f, x, y) == [z \in DOMAIN f \cup {x} |-> IF z = x THEN y ELSE f[z]]
Without(f, S) == [z \in DOMAIN f \ S |-> f[z]]
Merged(f, g) == [z \in DOMAIN f \cup DOMAIN g |-> IF z \in DOMAIN f THEN f[z] ELSE g[z]]

\* `zpool create` makes the root dataset, the hidden $ORIGIN and its snapshot;
\* an encrypted volume, perhaps a snapshot of it, perhaps a clone of that
UsedPool(snapped, cloned) ==
  LET volume == Shape("zvol", 1, 1)
      objects == {Root, 2, OriginDir, 4, OriginSnap, 6, FreeList, EmptyList, 10, 11, 12} \cup
                 (IF snapped THEN {13, 14} ELSE {}) \cup (IF cloned THEN {15, 16, 17} ELSE {})
      kids == [n \in {"$ORIGIN", "a"} \cup (IF cloned THEN {"b"} ELSE {}) |->
                CASE n = "$ORIGIN" -> OriginDir [] n = "a" -> 10 [] OTHER -> 15]
      snaps == IF snapped THEN [s \in {"s"} |-> 13] ELSE Nothing
      since == IF snapped THEN [k \in {1} |-> EmptyList] ELSE Nothing
  IN  [o \in objects |->
        CASE o = Root -> Dir(2, OriginSnap, kids, NoObject)
          [] o = 2 -> Set(Root, OriginSnap, NoObject, Nothing, 100, 1, Shape("zfs", 0, 1), 6)
          [] o = OriginDir -> Dir(4, NoObject, Nothing, NoObject)
          [] o = 4 -> Set(OriginDir, OriginSnap, NoObject, Nothing, 101, 1, Shape("zfs", 0, 1), NoObject)
          [] o = OriginSnap -> Set(OriginDir, NoObject, 4, Nothing, 102, 1, Shape("zfs", 0, 1), NoObject)
          [] o = 6 -> Dead(0, Nothing)
          [] o \in {FreeList, EmptyList} -> Bpobj(0)
          [] o = 10 -> Dir(11, OriginSnap, Nothing, 10)
          [] o = 11 -> Set(10, IF snapped THEN 13 ELSE OriginSnap, NoObject, snaps, 103, 1, volume, 12)
          [] o = 12 -> Dead(0, since)
          [] o = 13 -> Set(10, OriginSnap, 11, Nothing, 104, 1, volume, 14)
          [] o = 14 -> Dead(0, Nothing)
          [] o = 15 -> Dir(16, 13, Nothing, 10)
          [] o = 16 -> Set(15, 13, NoObject, Nothing, 105, 1, volume, 17)
          [] OTHER -> Dead(0, since)]

Now == Len(history) + 1
NewGuid == 105 + Now
Mos == Last(history)
Live == Last(truth)

Dirs(mos) == {o \in DOMAIN mos : mos[o].is = "dir" /\ o # OriginDir}
HeadOf(mos, d) == mos[mos[d].head]
Unused(mos) == 1..MaxObject \ DOMAIN mos
\* bytes of the lists of a deadlist, each object once
SumOf(mos, lists) == MapThenSumSet(LAMBDA o : mos[o].bytes, {lists[k] : k \in DOMAIN lists})
Kid(mos, d, n) == mos[d].kids[n]

\* a snapshot's name is that of its dataset with one more part
NoSnap == {}
Named(path, snap) == [path |-> path, snap |-> snap]
Seen(path, snap, shape, clone, locked) ==
  [path |-> path, snap |-> snap, kind |-> shape.kind, size |-> shape.size, clone |-> clone, locked |-> locked]
Path(d) == Live[HeadOf(Mos, d).guid].path

SeenFirst(snapped, cloned) ==
  LET volume == Shape("zvol", 1, 1)
  IN  [g \in {100, 103} \cup (IF snapped THEN {104} ELSE {}) \cup (IF cloned THEN {105} ELSE {}) |->
        CASE g = 100 -> Seen(<<>>, NoSnap, Shape("zfs", 0, 1), FALSE, FALSE)
          [] g = 103 -> Seen(<<"a">>, NoSnap, volume, FALSE, TRUE)
          [] g = 104 -> Seen(<<"a">>, {"s"}, volume, FALSE, TRUE)
          [] OTHER -> Seen(<<"b">>, NoSnap, volume, TRUE, TRUE)]

Init ==
  /\ \E snapped \in BOOLEAN, cloned \in BOOLEAN :
       /\ cloned => snapped
       /\ history = <<UsedPool(snapped, cloned)>>
       /\ truth = <<SeenFirst(snapped, cloned)>>
  /\ gone = {} /\ at = 0 /\ previous = [txg |-> 0, sets |-> {}] /\ events = {}
  /\ pended = [txg |-> 0] /\ listed = [txg |-> 0]

Sync(mos, live) ==
  /\ at = 0 /\ gone = {} /\ Len(history) < MaxTxg
  /\ history' = Append(history, mos)
  /\ truth' = Append(truth, live)
  /\ UNCHANGED <<gone, at, previous, events, pended, listed>>

\* objects are numbered from the lowest free number on
Room(n) == Cardinality(Unused(Mos)) >= n
Next1 == Min(Unused(Mos))
Next2 == Min(Unused(Mos) \ {Next1})
Next3 == Min(Unused(Mos) \ {Next1, Next2})

\* a dataset below d, of that origin, and with that deadlist
Grow(d, n, origin, root, shape, lists, clone) ==
  /\ HeadOf(Mos, d).shape.kind = "zfs" /\ n \notin DOMAIN Mos[d].kids /\ Room(3)
  /\ LET dir == Put(Mos, Next1, Dir(Next2, origin, Nothing, root))
         head == Put(dir, Next2, Set(Next1, origin, NoObject, Nothing, NewGuid, Now, shape, Next3))
         dead == Put(head, Next3, Dead(0, lists))
     IN  Sync([dead EXCEPT ![d].kids = Put(@, n, Next1)],
              Put(Live, NewGuid, Seen(Append(Path(d), n), NoSnap, shape, clone, root # NoObject)))

\* zfs create, under the parent's key if it has one
Create(d, n, kind) ==
  Grow(d, n, OriginSnap, Mos[d].root, Shape(kind, IF kind = "zvol" THEN 1 ELSE 0, Now), Nothing, FALSE)

\* zfs clone
Clone(snap, d, n) ==
  LET keys == DOMAIN Mos[Mos[snap].dead].lists \cup {Mos[Mos[snap].prev].txg}
  IN  Grow(d, n, snap, Mos[Mos[snap].dir].root, [Mos[snap].shape EXCEPT !.data = Now],
           [k \in keys |-> EmptyList], TRUE)

\* zfs snapshot: the deadlist so far is the snapshot's, the head starts a new one
Snapshot(d, s) ==
  LET h == Mos[d].head
      was == Mos[h].prev
      keys == DOMAIN Mos[Mos[h].dead].lists \cup {Mos[was].txg}
      linked == IF was = OriginSnap \/ Mos[was].next # h THEN Mos ELSE [Mos EXCEPT ![was].next = Next1]
      snap == Put(linked, Next1, Set(d, was, h, Nothing, NewGuid, Now, Mos[h].shape, Mos[h].dead))
      dead == Put(snap, Next2, Dead(0, [k \in keys |-> EmptyList]))
  IN  /\ s \notin DOMAIN Mos[h].snaps /\ Room(2)
      /\ Sync([dead EXCEPT ![h].prev = Next1, ![h].dead = Next2, ![h].snaps = Put(@, s, Next1)],
              Put(Live, NewGuid, [Live[Mos[h].guid] EXCEPT !.snap = {s}]))

\* zfs rename, of a dataset with all below it
Rename(d, n, to, m) ==
  LET from == Append(Path(d), n)
      onto == Append(Path(to), m)
      left == [Mos EXCEPT ![d].kids = Without(@, {n})]
  IN  /\ m \notin DOMAIN Mos[to].kids /\ ~IsPrefix(from, Path(to))
      /\ HeadOf(Mos, to).shape.kind = "zfs"
      /\ Sync([left EXCEPT ![to].kids = Put(@, m, Kid(Mos, d, n))],
              [g \in DOMAIN Live |->
                IF IsPrefix(from, Live[g].path)
                THEN [Live[g] EXCEPT !.path = onto \o SubSeq(@, Len(from) + 1, Len(@))] ELSE Live[g]])

\* zfs destroy of a dataset without snapshots or children
Destroy(d, n) ==
  LET o == Kid(Mos, d, n)
      h == Mos[o].head
      rest == Without(Mos, {o, h, Mos[h].dead})
  IN  /\ Mos[o].kids = Nothing /\ Mos[h].snaps = Nothing
      /\ Sync([rest EXCEPT ![d].kids = Without(@, {n}), ![FreeList].bytes = @ + 1],
              Without(Live, {Mos[h].guid}))

\* the snapshot after o of the head h, the head itself after the last
After(h, o) ==
  LET later == {x \in {Mos[h].snaps[k] : k \in DOMAIN Mos[h].snaps} : Mos[x].txg > Mos[o].txg}
  IN  IF later = {} THEN h ELSE CHOOSE x \in later : \A y \in later : Mos[x].txg <= Mos[y].txg

\* one deadlist of two: under a key of both, the list that is not empty, the one
\* kept when neither is; that one swallows the bytes of the other
Filed(theirs, kept) ==
  [k \in DOMAIN theirs \cup DOMAIN kept |->
    IF k \notin DOMAIN kept \/ (k \in DOMAIN theirs /\ EmptyList = kept[k] /\ EmptyList # theirs[k])
    THEN theirs[k] ELSE kept[k]]
Swallowing(theirs, kept) ==
  LET swallowed == {k \in DOMAIN theirs \cap DOMAIN kept : EmptyList \notin {theirs[k], kept[k]}}
  IN  [b \in DOMAIN Mos |->
        IF \E k \in swallowed : b = kept[k]
        THEN Bpobj(Mos[b].bytes + Mos[theirs[CHOOSE k \in swallowed : b = kept[k]]].bytes) ELSE Mos[b]]

\* zfs destroy of a snapshot: what only it held is freed, the rest of its
\* deadlist is filed under the next one's
DestroySnapshot(d, s) ==
  LET h == Mos[d].head
      o == Mos[h].snaps[s]
      nx == After(h, o)
      theirs == Mos[Mos[o].dead].lists
      kept == Without(Mos[Mos[nx].dead].lists, {k \in DOMAIN Mos[Mos[nx].dead].lists : k >= Mos[Mos[o].prev].txg})
      freed == Mos[Mos[nx].dead].used - SumOf(Mos, kept)
      filed == Swallowing(theirs, kept)
      linked == IF Mos[o].prev = OriginSnap \/ Mos[Mos[o].prev].next # o THEN filed
                ELSE [filed EXCEPT ![Mos[o].prev].next = nx]
      dead == Dead(SumOf(filed, Filed(theirs, kept)), Filed(theirs, kept))
      joined == [linked EXCEPT ![nx].prev = Mos[o].prev, ![h].snaps = Without(@, {s}),
                               ![Mos[nx].dead] = dead, ![FreeList].bytes = @ + freed]
  IN  /\ \A c \in Dirs(Mos) : Mos[c].origin # o
      /\ Sync(Without(joined, {o, Mos[o].dead}), Without(Live, {Mos[o].guid}))

\* zfs promote: the origin of a clone, and the snapshots before it, become its own
Promote(d, n) ==
  LET c == Kid(Mos, d, n)
      snap == Mos[c].origin
      od == Mos[snap].dir
      moved == {s \in DOMAIN HeadOf(Mos, od).snaps : Mos[HeadOf(Mos, od).snaps[s]].txg <= Mos[snap].txg}
      objects == {HeadOf(Mos, od).snaps[s] : s \in moved}
      ch == Mos[c].head
      first == CHOOSE o \in DOMAIN Mos : Mos[o].is = "set" /\ Mos[o].dir = c /\ Mos[o].prev = snap
      based == [o \in DOMAIN Mos |->
                 CASE o \in objects -> [Mos[o] EXCEPT !.dir = c]
                   [] Mos[o].is = "dir" /\ Mos[o].root = od -> [Mos[o] EXCEPT !.root = c]
                   [] OTHER -> Mos[o]]
      path == Live[Mos[ch].guid].path
  IN  /\ snap \notin {NoObject, OriginSnap}
      /\ moved \cap DOMAIN Mos[ch].snaps = {}
      /\ Sync([based EXCEPT ![c].origin = Mos[od].origin, ![od].origin = snap, ![snap].next = first,
                            ![ch].snaps = Merged([s \in moved |-> HeadOf(Mos, od).snaps[s]], @),
                            ![Mos[od].head].snaps = Without(@, moved)],
              [g \in DOMAIN Live |->
                CASE g \in {Mos[o].guid : o \in objects} -> [Live[g] EXCEPT !.path = path]
                  [] g = Mos[ch].guid -> [Live[g] EXCEPT !.clone = Mos[od].origin # OriginSnap]
                  [] g = HeadOf(Mos, od).guid -> [Live[g] EXCEPT !.clone = TRUE]
                  [] OTHER -> Live[g]])

\* zfs set volsize
Resize(d, n) ==
  LET h == Mos[Kid(Mos, d, n)].head
  IN  /\ Mos[h].shape = [Mos[h].shape EXCEPT !.kind = "zvol", !.size = 1]
      /\ Sync([Mos EXCEPT ![h].shape = Shape("zvol", 2, Now)], [Live EXCEPT ![Mos[h].guid].size = 2])

\* a block that the last snapshot still holds is written again
Overwrite(d, n) ==
  LET h == Mos[Kid(Mos, d, n)].head
      dead == Mos[h].dead
  IN  \E k \in DOMAIN Mos[dead].lists :
        LET list == Mos[dead].lists[k]
            into == IF list = EmptyList THEN Next1 ELSE list
            more == Put(Mos, into, Bpobj(Mos[list].bytes + 1))
        IN  /\ Mos[h].prev # OriginSnap /\ Room(1)
            /\ Sync([more EXCEPT ![h].shape.data = Now,
                                 ![dead] = Dead(@.used + 1, [@.lists EXCEPT ![k] = into])], Live)

\* a TXG in which the freed blocks are handed back
Free == Mos[FreeList].bytes > 0 /\ Sync([Mos EXCEPT ![FreeList].bytes = 0], Live)

Admin ==
  \E d \in Dirs(Mos) :
    \/ \E n \in Names, kind \in Kinds : Create(d, n, kind)
    \/ \E s \in Snaps : Snapshot(d, s)
    \/ \E s \in DOMAIN HeadOf(Mos, d).snaps :
         \/ DestroySnapshot(d, s)
         \/ \E to \in Dirs(Mos), n \in Names : Clone(HeadOf(Mos, d).snaps[s], to, n)
    \/ \E n \in DOMAIN Mos[d].kids \cap Names :
         \/ \E to \in Dirs(Mos), m \in Names : Rename(d, n, to, m)
         \/ Destroy(d, n)
         \/ Promote(d, n)
         \/ Resize(d, n)
         \/ Overwrite(d, n)

-----------------------------------------------------------------------------
(* What of a TXG still reads                                               *)

\* as deep as walk_dir goes
MaxDepth == 64

\* the blocks of an object: its dnode, its ZAPs, what its pointers lead to
PartsOf(r) ==
  CASE r.is = "dir" -> {"dnode", "children", "props"} \cup (IF r.root = NoObject THEN {} ELSE {"key"})
    [] r.is = "set" -> {"dnode", "snapnames", "objset"} \cup (IF r.shape.kind = "zvol" THEN {"volume", "size"} ELSE {})
    [] r.is = "dead" -> {"dnode", "entries"}
    [] OTHER -> {"dnode"}

\* what is in one of them: as long as it stays the same, so does the block
Content(r, part) ==
  CASE part = "dnode" /\ r.is = "dir" -> [r EXCEPT !.kids = Nothing]
    [] part = "dnode" /\ r.is = "set" -> [r EXCEPT !.snaps = Nothing]
    [] part = "dnode" /\ r.is = "dead" -> [r EXCEPT !.lists = Nothing]
    [] part = "dnode" /\ r.is = "bpobj" -> r
    [] part = "children" -> [kids |-> r.kids]
    [] part = "snapnames" -> [snaps |-> r.snaps, guid |-> r.guid]
    [] part = "objset" -> [data |-> r.shape.data]
    [] part = "size" -> [size |-> r.shape.size]
    [] part = "entries" -> [lists |-> r.lists]
    [] OTHER -> [is |-> r.is]

Written(t, o, part) ==
  LET Since[u \in 1..t] ==
        IF /\ u > 1 /\ o \in DOMAIN history[u - 1] /\ history[u - 1][o].is = history[t][o].is
           /\ part \in PartsOf(history[u - 1][o])
           /\ Content(history[u - 1][o], part) = Content(history[t][o], part)
        THEN Since[u - 1] ELSE u
  IN  Since[t]

Reads(t, o, part) ==
  /\ o \in DOMAIN history[t] /\ part \in PartsOf(history[t][o])
  /\ \A x \in gone : x[1] = o /\ x[2] = part => x[3] # Written(t, o, part)

Verifies(t) == <<NoObject, "uberblock", t>> \notin gone
MosReads(t) == <<NoObject, "objset", t>> \notin gone
DirectoryReads == <<NoObject, "directory", 1>> \notin gone

\* a TXG of which every part a walk needs still reads, and no path is deeper
\* than a walk goes (ZFS makes none: its own limit is 50)
Whole(t) ==
  /\ MosReads(t) /\ DirectoryReads
  /\ \A g \in DOMAIN truth[t] : Len(truth[t][g].path) <= MaxDepth
  /\ \A o \in DOMAIN history[t] : \A p \in PartsOf(history[t][o]) :
       history[t][o].is \in {"dir", "set"} => Reads(t, o, p)

AllParts ==
  {<<NoObject, p, t>> : p \in {"uberblock", "objset"}, t \in 1..Len(history)} \cup {<<NoObject, "directory", 1>>} \cup
  UNION {UNION {{<<o, p, Written(t, o, p)>> : p \in PartsOf(history[t][o])} : o \in DOMAIN history[t]} :
         t \in 1..Len(history)}

\* blocks are used again, or rot
Lose == /\ at = 0 /\ Cardinality(gone) < MaxGone
        /\ \E x \in AllParts \ gone : gone' = gone \cup {x}
        /\ UNCHANGED <<history, truth, at, previous, events, pended, listed>>

-----------------------------------------------------------------------------
(* The walk                                                                *)

\* a dnode of the array, or nothing
Get(t, o) == IF Reads(t, o, "dnode") THEN {history[t][o]} ELSE {}
\* all entries of a ZAP, or nothing
ReadZap(t, o, part, entries) == IF Reads(t, o, part) THEN {entries} ELSE {}

\* the snapshot every dataset descends from that is no clone
OriginSnapshot(t) ==
  LET found == {s.prev : s \in UNION {Get(t, d.head) : d \in
                UNION {Get(t, kids["$ORIGIN"]) : kids \in
                UNION {ReadZap(t, Root, "children", r.kids) : r \in Get(t, Root)}}}}
  IN  IF found = {} THEN NoObject ELSE CHOOSE o \in found : TRUE

\* whether a directory is known to be encrypted; a failure on the way is a warning
ReadEncryption(t, d) ==
  \E dir \in Get(t, d) :
    /\ dir.root # NoObject /\ Reads(t, d, "key")
    /\ Get(t, dir.root) # {} /\ Reads(t, dir.root, "props")

Describe(t, o, name, dir, origin) ==
  {LET kind == IF Reads(t, o, "objset") THEN s.shape.kind ELSE "unreadable"
   IN  [name |-> name, object |-> o, guid |-> s.guid, kind |-> kind, snapshot |-> s.next # NoObject, txg |-> s.txg,
        clone |-> dir.origin \notin {NoObject, origin}, dead |-> s.dead, snaps |-> s.snaps,
        size |-> IF kind = "zvol" /\ Reads(t, o, "size") THEN s.shape.size ELSE 0,
        block |-> IF kind = "zvol" /\ Reads(t, o, "volume") THEN 1 ELSE 0,
        locked |-> ReadEncryption(t, s.dir)] : s \in Get(t, o)}

\* those that read; what does not is left out
Snapshots(t, head, dir, origin) ==
  UNION {UNION {{[d EXCEPT !.snapshot = TRUE] :
                 d \in Describe(t, entries[s], Named(head.name.path, {s}), dir, origin)} : s \in DOMAIN entries} :
         entries \in ReadZap(t, head.object, "snapnames", head.snaps)}

\* the head of a directory, or nothing
HeadAt(t, o, path, origin) == Describe(t, history[t][o].head, Named(path, NoSnap), history[t][o], origin)
WithSnapshots(t, o, path, origin) ==
  UNION {{h} \cup Snapshots(t, h, history[t][o], origin) : h \in HeadAt(t, o, path, origin)}

\* Mutant: a head that does not read is passed over without an error.
HeadsOrNothing(t, o, path, origin, w) == [w EXCEPT !.sets = @ \cup HeadAt(t, o, path, origin)]

\* a head and its snapshots, or the error in their place
Heads(t, o, path, origin, w) ==
  [w EXCEPT !.sets = @ \cup WithSnapshots(t, o, path, origin),
            !.errors = IF HeadAt(t, o, path, origin) = {} THEN @ \cup {path} ELSE @]

\* the directories below one, none if its ZAP does not read
Below(t, o, path) ==
  UNION {{<<kids[n], Append(path, n)>> : n \in DOMAIN kids \ {"$ORIGIN"}} :
         kids \in ReadZap(t, o, "children", history[t][o].kids)}

\* the directory walk_dir is called for next: below the last one before beside it
NextDir(w) == CHOOSE x \in w.todo : \A y \in w.todo : Len(y[2]) <= Len(x[2])

\* one call of walk_dir, without those it makes
WalkDir(t, origin, w) ==
  LET o == NextDir(w)[1]
      path == NextDir(w)[2]
      past == [w EXCEPT !.todo = @ \ {NextDir(w)}]
      entered == [past EXCEPT !.seen = @ \cup {o}]
      failed(v) == [v EXCEPT !.errors = @ \cup {path}]
      described == Heads(t, o, path, origin, entered)
  IN  IF Len(path) > MaxDepth \/ o \in w.seen THEN failed(past)
      ELSE IF ~Reads(t, o, "dnode") THEN failed(entered)
      ELSE IF ~Reads(t, o, "children") THEN failed(described)
      ELSE [described EXCEPT !.todo = @ \cup Below(t, o, path)]

\* open_mos, then the walk: a tree, or none; a directory has one entry
Walks(t) == MosReads(t) /\ DirectoryReads
Begun == [todo |-> {<<Root, <<>>>>}, sets |-> {}, errors |-> {}, seen |-> {}]
Call(t, origin, w) == IF w.todo = {} THEN w ELSE WalkDir(t, origin, w)
Calls(t) ==
  LET origin == OriginSnapshot(t)
      W[n \in Nat] == IF n = 0 THEN Begun ELSE Call(t, origin, W[n - 1])
  IN  W
Walk(t) == Calls(t)[Cardinality(Dirs(history[t]))]
Find(sets, name) == {d \in sets : d.name = name}

-----------------------------------------------------------------------------
(* --pending                                                               *)

\* Mutant: a block-pointer object that does not read counts as empty.
BpobjOrZero(t, o) == {IF Reads(t, o, "dnode") THEN history[t][o].bytes ELSE 0}

\* the bytes of a block-pointer object, or nothing
BpobjBytes(t, o) == {b.bytes : b \in Get(t, o)}

Pending(t, sets) ==
  LET dead == {d.dead : d \in sets} \ {NoObject}
      told == {o \in dead : Get(t, o) # {}}
      lists(o) == {history[t][o].lists[k] : k \in DOMAIN history[t][o].lists}
      sums == {o \in told : /\ ReadZap(t, o, "entries", history[t][o].lists) # {}
                              /\ \A b \in lists(o) : BpobjBytes(t, b) # {}}
      sum(o) == MapThenSumSet(LAMBDA b : CHOOSE n \in BpobjBytes(t, b) : TRUE, lists(o))
  IN  [txg |-> t,
       free |-> MapThenSumSet(LAMBDA b : b.bytes, Get(t, FreeList)),
       held |-> MapThenSumSet(LAMBDA o : history[t][o].used, told),
       inconsistent |-> Cardinality({o \in sums : sum(o) # history[t][o].used}),
       unverified |-> Cardinality(told \ sums),
       unreadable |-> Cardinality(dead \ told)]

-----------------------------------------------------------------------------
(* The timeline                                                            *)

Event(txg, kind, d, last) == [txg |-> txg, kind |-> kind, name |-> d.name, guid |-> d.guid, last |-> last]
Nobody == [name |-> Named(<<>>, NoSnap), guid |-> 0]

AppearedAs(d) == IF d.snapshot THEN "snapshot" ELSE IF d.clone THEN "clone" ELSE "created"
Facts(d) == <<d.size, d.block, d.locked>>
\* Mutant: datasets are told apart by their names.
ByName(sets) == [n \in {d.name : d \in sets} |-> CHOOSE d \in sets : d.name = n]
ByGuid(sets) == [g \in {d.guid : d \in sets} |-> CHOOSE d \in sets : d.guid = g]

Diff(before, after, txg, last) ==
  LET old == ByGuid(before)
      new == ByGuid(after)
      both == DOMAIN old \cap DOMAIN new
  IN  {Event(txg, AppearedAs(new[g]), new[g], 0) : g \in DOMAIN new \ DOMAIN old} \cup
      {Event(txg, "renamed", new[g], 0) : g \in {g \in both : old[g].name # new[g].name}} \cup
      {Event(txg, "property", new[g], 0) : g \in {g \in both : Facts(old[g]) # Facts(new[g])}} \cup
      {Event(txg, IF old[g].snapshot THEN "snapshot-destroyed" ELSE "destroyed", old[g], last) :
         g \in DOMAIN old \ DOMAIN new}

Baseline(sets, txg) == {Event(Min({d.txg, txg}), AppearedAs(d), d, 0) : d \in sets}

Candidates == {t \in 1..Len(history) : Verifies(t)}

\* Mutant: a TXG that does not read counts as the last one seen.
StillAt(t) == [previous EXCEPT !.txg = t]
\* what the next TXG is compared with when this one does not read
Still(t) == previous

\* the next TXG of the ring, oldest first
ReadTxg ==
  \E t \in Candidates :
    /\ listed.txg = 0 /\ t > at /\ \A u \in Candidates : u > at => u >= t
    /\ at' = t
    /\ IF Walks(t)
       THEN \E tree \in {Walk(t)} :
              /\ pended' = Pending(t, tree.sets)
              /\ events' = events \cup IF previous.txg = 0 THEN Baseline(tree.sets, t)
                                        ELSE Diff(previous.sets, tree.sets, t, previous.txg)
              /\ previous' = [txg |-> t, sets |-> tree.sets]
       ELSE /\ events' = events \cup {Event(t, "unreadable", Nobody, 0)}
            /\ previous' = Still(t)
            /\ UNCHANGED pended
    /\ UNCHANGED <<history, truth, gone, listed>>

-----------------------------------------------------------------------------
(* `list`                                                                  *)

Ok == 0
UNRECOVERABLE == 3

NoDiff == 0

Keep(sets, recursive) == {d \in sets : recursive \/ ~d.snapshot}

\* those of a listing that another has not, by guid
Lacking(here, there) == {d \in here : \A e \in there : e.guid # d.guid}

\* `list`, of one TXG or of the newest that reads, and against another
List(pick, diff, recursive) ==
  LET walked == {t \in pick : Walks(t)}
      txg == IF walked = {} THEN Max(pick) ELSE Max(walked)
      out == [txg |-> txg, unreadable |-> IF walked = {} THEN pick ELSE {t \in pick : t > txg}, sets |-> {}, errors |-> {},
              code |-> IF walked # {} /\ diff \in {NoDiff} \cup {t \in Candidates : Walks(t)} THEN Ok ELSE UNRECOVERABLE,
              diff |-> NoDiff, created |-> {}, destroyed |-> {}]
      shown == {Keep(w.sets, recursive) : w \in {Walk(diff)}}
  IN  /\ at = 0 /\ listed.txg = 0 /\ pick \subseteq Candidates /\ pick # {}
      /\ IF walked = {} THEN listed' = out
         ELSE \E tree \in {Walk(txg)} :
                LET here == [out EXCEPT !.sets = Keep(tree.sets, recursive), !.errors = tree.errors]
                IN  IF diff = NoDiff \/ out.code # Ok THEN listed' = here
                    ELSE \E there \in shown :
                           listed' = [here EXCEPT !.diff = diff, !.created = Lacking(here.sets, there),
                                                  !.destroyed = Lacking(there, here.sets)]
      /\ UNCHANGED <<history, truth, gone, at, previous, events, pended>>

ListNewest == \E diff \in NoDiff..Len(history) : List(Candidates, diff, TRUE)
ListExact == \E t \in Candidates : List({t}, NoDiff, FALSE)

Next == Admin \/ Free \/ Lose \/ ReadTxg \/ ListNewest \/ ListExact

Spec == Init /\ [][Next]_vars

-----------------------------------------------------------------------------
(* Properties                                                              *)

\* What the commands of the TXGs after p up to t did, as their user saw it.
Script(p, t) ==
  LET old == truth[p]
      new == truth[t]
      both == DOMAIN old \cap DOMAIN new
      name(d) == Named(d.path, d.snap)
      kind(d) == IF d.snap # NoSnap THEN "snapshot" ELSE IF d.clone THEN "clone" ELSE "created"
      event(k, g, d, last) == [txg |-> t, kind |-> k, name |-> name(d), guid |-> g, last |-> last]
  IN  {event(kind(new[g]), g, new[g], 0) : g \in DOMAIN new \ DOMAIN old} \cup
      {event("renamed", g, new[g], 0) : g \in {g \in both : name(old[g]) # name(new[g])}} \cup
      {event("property", g, new[g], 0) : g \in {g \in both : old[g].size # new[g].size}} \cup
      {event(IF old[g].snap # NoSnap THEN "snapshot-destroyed" ELSE "destroyed", g, old[g], p) :
         g \in DOMAIN old \ DOMAIN new}

\* COMPANIONS T-03: between two TXGs that read whole, next to each other or
\* with others between that do not read at all, the events are what the user
\* of the pool did, no more and no less: created, cloned, snapshotted, renamed
\* with all below, resized, destroyed (events.rs diff, report.rs run).
HistoryIsTheScript ==
  [][previous.txg > 0 /\ previous'.txg > previous.txg /\ Whole(previous.txg) /\ Whole(previous'.txg) =>
       events' \ events = Script(previous.txg, previous'.txg)]_vars

\* COMPANIONS T-05: whatever of the pool is lost, the command printed for a
\* destroyed dataset leads to it: at that TXG a dataset of that name is found,
\* and it is the one that was destroyed, though others had the name since.
RecoverFindsIt ==
  \A e \in events : e.kind \in {"destroyed", "snapshot-destroyed"} =>
    /\ e.last < e.txg /\ Walks(e.last)
    /\ {d.guid : d \in Find(Walk(e.last).sets, e.name)} = {e.guid}

\* COMPANIONS T-07: no deadlist is said to disagree with its own objects,
\* whatever of it is lost, and the space said to be held is held: all of it
\* when nothing is lost (dsl.rs pending).
PendingIsHeld ==
  pended.txg > 0 =>
    LET mos == history[pended.txg]
        all == mos[FreeList].bytes +
               MapThenSumSet(LAMBDA o : mos[o].used, {o \in DOMAIN mos : mos[o].is = "dead"})
    IN  /\ pended.inconsistent = 0
        /\ pended.free + pended.held <= all
        /\ gone = {} => pended.free + pended.held = all /\ pended.unverified + pended.unreadable = 0

\* SPEC F-11, F-12: a filesystem or volume of the TXG listed that is not in the
\* list has an error in its place or above it (dsl.rs walk_dir).
MissingIsTold ==
  listed.txg > 0 /\ listed.code = Ok =>
    \A g \in DOMAIN truth[listed.txg] :
      LET d == truth[listed.txg][g]
      IN  \/ d.snap # NoSnap
          \/ \E e \in listed.sets : e.guid = g /\ e.name = Named(d.path, NoSnap)
          \/ \E path \in listed.errors : IsPrefix(path, d.path)

=============================================================================
