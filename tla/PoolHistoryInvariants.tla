------------------------ MODULE PoolHistoryInvariants ------------------------
(***************************************************************************)
(* The invariants of PoolHistory that its theorems rest on, and the words  *)
(* they are stated with.                                                   *)
(*                                                                         *)
(* Sound says of one TXG that its objects are a tree of directories, each  *)
(* with a head, snapshots and deadlists of its own, and that the user sees *)
(* them under the paths of that tree.  Exact says that there is nothing    *)
(* else and that each dataset is what its user saw.  CoverInv says of a    *)
(* walk, with the directories that were walked so far, what it has found.  *)
(* The last section has what every step keeps.                             *)
(***************************************************************************)
EXTENDS PoolHistory

-----------------------------------------------------------------------------
(* A TXG is sound                                                          *)

AllowedNames == Names \cup {"a", "b"}
Kept == {OriginDir, OriginSnap, FreeList, EmptyList}

IsFcn(f) == f = [x \in DOMAIN f |-> f[x]]
IsDir(r) ==
  r.is = "dir" /\ r = Dir(r.head, r.origin, r.kids, r.root) /\ IsFcn(r.kids)
IsSet(r) ==
  /\ r.is = "set" /\ r = Set(r.dir, r.prev, r.next, r.snaps, r.guid, r.txg, r.shape, r.dead)
  /\ IsFcn(r.snaps)
IsDead(r) == r.is = "dead" /\ r = Dead(r.used, r.lists)
IsBpobj(r) == r.is = "bpobj" /\ r = Bpobj(r.bytes)

\* Every object is of one of the four kinds; what the pool began with stays.
Objects(mos) ==
  /\ IsFcn(mos) /\ IsFiniteSet(DOMAIN mos) /\ NoObject \notin DOMAIN mos
  /\ \A o \in DOMAIN mos : IsDir(mos[o]) \/ IsSet(mos[o]) \/ IsDead(mos[o]) \/ IsBpobj(mos[o])
  /\ Kept \subseteq DOMAIN mos /\ mos[OriginDir].is = "dir"
  /\ mos[OriginSnap].is = "set" /\ mos[OriginSnap].dir = OriginDir
  /\ mos[FreeList].is = "bpobj" /\ mos[EmptyList].is = "bpobj"
  /\ \A o \in DOMAIN mos : mos[o].is = "dead" =>
       \A k \in DOMAIN mos[o].lists : mos[o].lists[k] \in DOMAIN mos /\ mos[mos[o].lists[k]].is = "bpobj"

\* A directory has a head of its own, which the user sees at the directory's path.
IsSetOf(mos, d, o) == o \in DOMAIN mos /\ mos[o].is = "set" /\ mos[o].dir = d
PathIn(mos, live, d) == live[HeadOf(mos, d).guid].path
HeadsKnown(mos, live) ==
  \A d \in Dirs(mos) :
    /\ IsSetOf(mos, d, mos[d].head) /\ HeadOf(mos, d).next = NoObject
    /\ HeadOf(mos, d).guid \in DOMAIN live /\ live[HeadOf(mos, d).guid].snap = NoSnap

\* Its snapshots are seen under their names at the same path.
SnapsOf(mos, d) == DOMAIN HeadOf(mos, d).snaps
Snap(mos, d, s) == HeadOf(mos, d).snaps[s]
SnapsKnown(mos, live) ==
  \A d \in Dirs(mos) : \A s \in SnapsOf(mos, d) :
    /\ IsSetOf(mos, d, Snap(mos, d, s)) /\ mos[Snap(mos, d, s)].guid \in DOMAIN live
    /\ live[mos[Snap(mos, d, s)].guid].snap = {s}
    /\ live[mos[Snap(mos, d, s)].guid].path = PathIn(mos, live, d)

\* The directories are a tree, and the paths are its paths.
Kids(mos, d) == DOMAIN mos[d].kids \ {"$ORIGIN"}
Tree(mos, live) ==
  /\ Root \in Dirs(mos) /\ PathIn(mos, live, Root) = <<>>
  /\ \A d \in Dirs(mos) : \A n \in Kids(mos, d) :
       /\ n \in AllowedNames /\ Kid(mos, d, n) \in Dirs(mos) \ {Root}
       /\ PathIn(mos, live, Kid(mos, d, n)) = Append(PathIn(mos, live, d), n)
  /\ \A d \in Dirs(mos) \ {Root} : \E p \in Dirs(mos) : \E n \in Kids(mos, p) : Kid(mos, p, n) = d

\* A clone's origin is a snapshot, older than the clone's own.
Origins(mos) ==
  \A d \in Dirs(mos) : mos[d].origin \notin {NoObject, OriginSnap} =>
    /\ \E p \in Dirs(mos) : \E s \in SnapsOf(mos, p) : mos[d].origin = Snap(mos, p, s)
    /\ \A s \in SnapsOf(mos, d) : mos[Snap(mos, d, s)].txg > mos[mos[d].origin].txg

\* Each dataset has a deadlist of its own.
IsKnown(mos, o) ==
  \E d \in Dirs(mos) : o = mos[d].head \/ \E s \in SnapsOf(mos, d) : o = Snap(mos, d, s)
Deads(mos) ==
  /\ \A x : IsKnown(mos, x) => mos[x].dead \in DOMAIN mos /\ mos[mos[x].dead].is = "dead"
  /\ \A x, y : IsKnown(mos, x) /\ IsKnown(mos, y) /\ mos[x].dead = mos[y].dead => x = y

\* What the user sees that is no snapshot is the head of a directory; nothing
\* is newer than the TXG.
Users(mos, live, t) ==
  /\ IsFcn(live)
  /\ \A g \in DOMAIN live :
       /\ g \in Nat /\ g <= 105 + t /\ live[g].path \in Seq(AllowedNames)
       /\ live[g] = [path |-> live[g].path, snap |-> live[g].snap, kind |-> live[g].kind, size |-> live[g].size,
                     clone |-> live[g].clone, locked |-> live[g].locked]
       /\ live[g].snap = NoSnap => \E d \in Dirs(mos) : HeadOf(mos, d).guid = g
  /\ \A o \in DOMAIN mos : mos[o].is = "set" => mos[o].txg \in Nat /\ mos[o].txg <= t

\* All of it.
Sound(mos, live, t) ==
  /\ Objects(mos) /\ HeadsKnown(mos, live) /\ SnapsKnown(mos, live) /\ Tree(mos, live)
  /\ Origins(mos) /\ Deads(mos) /\ Users(mos, live, t)

-----------------------------------------------------------------------------
(* A TXG is what its user saw                                              *)

\* The datasets of the directories, heads and snapshots.
IsIn(mos, x) == x \in DOMAIN mos /\ mos[x].is = "set" /\ mos[x].dir \in Dirs(mos)
IsShape(s) == s = Shape(s.kind, s.size, s.data) /\ s.kind \in {"zfs", "zvol"} /\ (s.kind = "zfs" => s.size = 0)

\* A clone has the key of its origin, another dataset its own or none.
Roots(mos) ==
  \A d \in Dirs(mos) :
    /\ mos[d].root # NoObject => mos[d].root \in Dirs(mos)
    /\ mos[d].origin # NoObject
    /\ mos[d].origin = OriginSnap /\ mos[d].root # NoObject => mos[d].root = d
    /\ mos[d].origin # OriginSnap => mos[d].root = mos[mos[mos[d].origin].dir].root

\* The hidden directory leads to the snapshot every dataset descends from
\* that is no clone.
OriginKnown(mos) ==
  /\ "$ORIGIN" \in DOMAIN mos[Root].kids /\ mos[Root].kids["$ORIGIN"] = OriginDir
  /\ mos[OriginDir].head \in DOMAIN mos /\ HeadOf(mos, OriginDir).is = "set"
  /\ HeadOf(mos, OriginDir).dir = OriginDir /\ HeadOf(mos, OriginDir).prev = OriginSnap

\* A dataset is the head of its directory or one of the head's snapshots.
SetsKnown(mos) ==
  \A x : IsIn(mos, x) => LET d == mos[x].dir IN x = mos[d].head \/ \E s \in SnapsOf(mos, d) : x = Snap(mos, d, s)

\* Every dataset is of a directory that there is.
SetsHaveDirs(mos) == \A x \in DOMAIN mos : mos[x].is = "set" => mos[x].dir \in Dirs(mos) \cup {OriginDir}

\* The user sees its kind, its size, its key, and of a head whether it is a clone.
Portrayed(mos, live, x) ==
  LET r == mos[x]
      d == mos[r.dir]
      u == live[r.guid]
  IN  /\ r.guid \in DOMAIN live /\ IsShape(r.shape) /\ u.kind = r.shape.kind /\ u.size = r.shape.size
      /\ u.locked = (d.root # NoObject) /\ (d.root # NoObject => r.shape.kind = "zvol")
      /\ x = d.head => u.clone = (d.origin # OriginSnap)

\* All of it: each dataset is portrayed, and each portrait is of one.
Exact(mos, live) ==
  /\ Roots(mos) /\ OriginKnown(mos) /\ SetsKnown(mos) /\ SetsHaveDirs(mos)
  /\ \A x : IsIn(mos, x) => Portrayed(mos, live, x)
  /\ \A x, y : IsIn(mos, x) /\ IsIn(mos, y) /\ mos[x].guid = mos[y].guid => x = y
  /\ \A g \in DOMAIN live : \E x : IsIn(mos, x) /\ mos[x].guid = g

\* What a dataset is stays; a new one has a new guid.
UsersStay(live, now, t) ==
  \A g \in DOMAIN now : IF g \in DOMAIN live THEN now[g].kind = live[g].kind /\ now[g].locked = live[g].locked
                                             ELSE g = 105 + (t + 1)

\* What is told of a dataset is what the user sees of it, and all are told.
IsAs(e, u) ==
  /\ e.name = Named(u.path, u.snap) /\ e.snapshot = (u.snap # NoSnap) /\ (u.snap = NoSnap => e.clone = u.clone)
  /\ e.size = u.size /\ e.block = (IF u.kind = "zvol" THEN 1 ELSE 0) /\ e.locked = u.locked
IsWholeTree(sets, live) ==
  /\ \A e \in sets : e.guid \in DOMAIN live /\ IsAs(e, live[e.guid])
  /\ \A g \in DOMAIN live : \E e \in sets : e.guid = g

-----------------------------------------------------------------------------
(* What a command makes of the objects                                     *)

\* What the user sees of a dataset, as a record.
IsUser(e) ==
  e = [path |-> e.path, snap |-> e.snap, kind |-> e.kind, size |-> e.size, clone |-> e.clone, locked |-> e.locked]
IsOrigin(mos, o) == \E p \in Dirs(mos) : \E s \in SnapsOf(mos, p) : o = Snap(mos, p, s)

\* A dataset more below d: its directory a, head b and deadlist c.
Grown(mos, d, n, a, b, c, origin, root, shape, lists, guid, txg) ==
  [Put(Put(Put(mos, a, Dir(b, origin, Nothing, root)),
           b, Set(a, origin, NoObject, Nothing, guid, txg, shape, c)),
       c, Dead(0, lists))
   EXCEPT ![d].kids = Put(@, n, a)]

\* What it adds and what it leaves.
IsGrown(new, mos, d, n, a, b, c, origin, root, shape, lists, guid, txg) ==
  /\ DOMAIN new = DOMAIN mos \cup {a, b, c} /\ IsFcn(new)
  /\ new[a] = Dir(b, origin, Nothing, root)
  /\ new[b] = Set(a, origin, NoObject, Nothing, guid, txg, shape, c)
  /\ new[c] = Dead(0, lists)
  /\ new[d] = Dir(mos[d].head, mos[d].origin, Put(mos[d].kids, n, a), mos[d].root)
  /\ \A o \in DOMAIN mos : o # d => new[o] = mos[o]

\* A snapshot more: a with the deadlist so far, and a new deadlist b.
Snapped(mos, d, s, a, b, was, shape, lists, guid, txg) ==
  [Put(Put(mos, a, Set(d, was, mos[d].head, Nothing, guid, txg, shape, HeadOf(mos, d).dead)), b, Dead(0, lists))
   EXCEPT ![mos[d].head].prev = a, ![mos[d].head].dead = b, ![mos[d].head].snaps = Put(@, s, a)]

IsSnapped(new, mos, d, s, a, b, was, shape, lists, guid, txg) ==
  LET h == HeadOf(mos, d)
  IN  /\ DOMAIN new = DOMAIN mos \cup {a, b} /\ IsFcn(new)
      /\ new[a] = Set(d, was, mos[d].head, Nothing, guid, txg, shape, h.dead)
      /\ new[b] = Dead(0, lists)
      /\ new[mos[d].head] = Set(h.dir, a, h.next, Put(h.snaps, s, a), h.guid, h.txg, h.shape, b)
      /\ \A o \in DOMAIN mos : o # mos[d].head => new[o] = mos[o]

\* Without a directory, its head and its deadlist.
Destroyed(mos, d, n, o, h, dead) ==
  [Without(mos, {o, h, dead}) EXCEPT ![d].kids = Without(@, {n})]
IsDestroyed(new, mos, d, n, o, h, dead) ==
  /\ DOMAIN new = DOMAIN mos \ {o, h, dead} /\ IsFcn(new)
  /\ new[d] = Dir(mos[d].head, mos[d].origin, Without(mos[d].kids, {n}), mos[d].root)
  /\ \A z \in DOMAIN mos \ {o, h, dead, d} : new[z] = mos[z]

\* A snapshot's name is taken off the list of its head.
Unsnapped(mos, h, s) == [mos EXCEPT ![h].snaps = Without(@, {s})]

\* What only the snapshot held is freed, the rest is filed with the next one.
Joined(mos, h, s, nx, prev, dead, used, lists, freed) ==
  [mos EXCEPT ![nx].prev = prev, ![h].snaps = Without(@, {s}), ![dead] = Dead(used, lists), ![FreeList].bytes = @ + freed]

\* What it changes: the place of the snapshots that move, their names, the
\* two origins; what kind of object each is, and the rest, stays.
SameDir(r, q) == IsDir(r) /\ r.is = "dir" /\ r.head = q.head /\ r.kids = q.kids
SameSet(r, q) ==
  /\ IsSet(r) /\ r.is = "set" /\ r.guid = q.guid /\ r.txg = q.txg /\ r.dead = q.dead
  /\ r.shape = q.shape /\ r.prev = q.prev
Rooted(root, od, c) == IF root = od THEN c ELSE root
IsPromoted(new, mos, c, od, snap, moved, objects) ==
  /\ DOMAIN new = DOMAIN mos /\ IsFcn(new)
  /\ \A z \in DOMAIN mos :
       CASE mos[z].is = "dir" ->
              /\ SameDir(new[z], mos[z]) /\ new[z].root = Rooted(mos[z].root, od, c)
              /\ new[z].origin = IF z = c THEN mos[od].origin ELSE IF z = od THEN snap ELSE mos[z].origin
         [] mos[z].is = "set" ->
              /\ SameSet(new[z], mos[z]) /\ (z # snap => new[z].next = mos[z].next)
              /\ new[z].dir = IF z \in objects THEN c ELSE mos[z].dir
              /\ new[z].snaps = IF z = mos[c].head
                                THEN Merged([s \in moved |-> mos[mos[od].head].snaps[s]], mos[z].snaps)
                                ELSE IF z = mos[od].head THEN Without(mos[z].snaps, moved) ELSE mos[z].snaps
         [] OTHER -> new[z] = mos[z]

\* The snapshots, and the key, go over to the clone.
Promoted(mos, c, od, snap, moved, objects, first) ==
  [[o \in DOMAIN mos |->
      CASE o \in objects -> [mos[o] EXCEPT !.dir = c]
        [] mos[o].is = "dir" /\ mos[o].root = od -> [mos[o] EXCEPT !.root = c]
        [] OTHER -> mos[o]]
   EXCEPT ![c].origin = mos[od].origin, ![od].origin = snap, ![snap].next = first,
          ![mos[c].head].snaps = Merged([s \in moved |-> mos[mos[od].head].snaps[s]], @),
          ![mos[od].head].snaps = Without(@, moved)]

\* What moves is seen at the new path.
MovedUsers(now, live, guids, path) ==
  /\ DOMAIN now = DOMAIN live /\ IsFcn(now)
  /\ \A g \in DOMAIN live :
       /\ IsUser(now[g]) /\ now[g].snap = live[g].snap
       /\ now[g].path = IF g \in guids THEN path ELSE live[g].path

\* What the user sees of a promotion: who is a clone of whom.
LooksPromoted(mos, live, now, c, od) ==
  /\ DOMAIN now = DOMAIN live
  /\ \A g \in DOMAIN live : now[g].kind = live[g].kind /\ now[g].size = live[g].size /\ now[g].locked = live[g].locked
  /\ \A d \in Dirs(mos) :
       LET g == HeadOf(mos, d).guid
       IN  now[g].clone = IF d = c THEN mos[od].origin # OriginSnap ELSE IF d = od THEN TRUE ELSE live[g].clone

\* Where the rename takes a path.
Onto(from, onto, path) == IF IsPrefix(from, path) THEN onto \o SubSeq(path, Len(from) + 1, Len(path)) ELSE path

GoesDown(S, from, onto) ==
  /\ \A p \in Seq(S) : Onto(from, onto, p) \in Seq(S)
  /\ Onto(from, onto, from) = onto
  /\ \A p \in Seq(S) : \A y \in S : from # Append(p, y) =>
       Onto(from, onto, Append(p, y)) = Append(Onto(from, onto, p), y)

\* A directory under another name, of another.
Moved(mos, d, n, to, m) ==
  [[mos EXCEPT ![d].kids = Without(@, {n})] EXCEPT ![to].kids = Put(@, m, Kid(mos, d, n))]

\* Only the names of directories change.
IsMoved(new, mos, d, n, to, m) ==
  /\ DOMAIN new = DOMAIN mos /\ IsFcn(new)
  /\ \A z \in DOMAIN mos : z \notin {d, to} => new[z] = mos[z]
  /\ \A z \in {d, to} :
       /\ IsDir(new[z]) /\ new[z].is = "dir" /\ new[z].head = mos[z].head
       /\ new[z].origin = mos[z].origin /\ new[z].root = mos[z].root
       /\ DOMAIN new[z].kids = (DOMAIN mos[z].kids \ {y \in {n} : z = d}) \cup {y \in {m} : z = to}
       /\ \A y \in DOMAIN new[z].kids :
            new[z].kids[y] = IF z = to /\ y = m THEN Kid(mos, d, n) ELSE mos[z].kids[y]

\* All below it is seen there too.
IsRenamed(now, live, from, onto) ==
  /\ DOMAIN now = DOMAIN live /\ IsFcn(now)
  /\ \A g \in DOMAIN live :
       IsUser(now[g]) /\ now[g].snap = live[g].snap /\ now[g].path = Onto(from, onto, live[g].path)

\* Directories stay; a head or snapshot keeps its place, name and deadlist;
\* what is new is a list of blocks.
KeepsNext(mos, new) ==
  \A d \in Dirs(mos) : IsSetOf(mos, d, mos[d].head) => new[mos[d].head].next = mos[mos[d].head].next
KeepsSets(mos, new) ==
  /\ DOMAIN mos \subseteq DOMAIN new
  /\ \A o \in DOMAIN mos :
       /\ new[o].is = mos[o].is
       /\ mos[o].is = "dir" => new[o].head = mos[o].head /\ new[o].kids = mos[o].kids /\ new[o].origin = mos[o].origin
       /\ mos[o].is = "set" => /\ new[o].dir = mos[o].dir /\ new[o].snaps = mos[o].snaps
                               /\ new[o].guid = mos[o].guid /\ new[o].txg = mos[o].txg /\ new[o].dead = mos[o].dead
  /\ KeepsNext(mos, new)
  /\ \A o \in DOMAIN new \ DOMAIN mos : new[o].is = "bpobj"
KeepsUsers(live, now) ==
  /\ DOMAIN now = DOMAIN live /\ IsFcn(now)
  /\ \A g \in DOMAIN live : IsUser(now[g]) /\ now[g].path = live[g].path /\ now[g].snap = live[g].snap

\* No dataset is new, each keeps its deadlist.
KnownStay(mos, new) == \A x : IsKnown(new, x) => IsKnown(mos, x) /\ new[x].dead = mos[x].dead

\* Lists of blocks grow.
BytesOnly(mos, new) ==
  /\ DOMAIN new = DOMAIN mos /\ IsFcn(new)
  /\ \A b \in DOMAIN mos : new[b] = mos[b] \/ (mos[b].is = "bpobj" /\ new[b].is = "bpobj" /\ IsBpobj(new[b]))

\* One object in the place of another, with the same meaning but for its size
\* and its snapshots.
Kin(r, q) ==
  /\ q.is = r.is
  /\ r.is = "dir" => /\ q.head = r.head /\ q.origin = r.origin /\ q.root = r.root
                     /\ "$ORIGIN" \in DOMAIN r.kids =>
                          "$ORIGIN" \in DOMAIN q.kids /\ q.kids["$ORIGIN"] = r.kids["$ORIGIN"]
  /\ r.is = "set" => /\ q.dir = r.dir /\ q.guid = r.guid /\ (r.dir = OriginDir => q.prev = r.prev)
                     /\ IsShape(r.shape) => IsShape(q.shape) /\ q.shape.kind = r.shape.kind
SameSize(r, q) == r.is = "set" /\ IsShape(r.shape) => q.shape.size = r.shape.size
Alike(r, q) == Kin(r, q) /\ SameSize(r, q) /\ (r.is = "set" => q.snaps = r.snaps)
IsList(r) == r.is \notin {"dir", "set"}
AllAlike(mos, new) ==
  \A x \in DOMAIN new : IF x \in DOMAIN mos THEN Alike(mos[x], new[x]) ELSE IsList(new[x])

\* The user sees the same but for names.
SameLooks(live, now) ==
  /\ DOMAIN now = DOMAIN live
  /\ \A g \in DOMAIN live : /\ now[g].kind = live[g].kind /\ now[g].size = live[g].size
                            /\ now[g].locked = live[g].locked /\ now[g].clone = live[g].clone

-----------------------------------------------------------------------------
(* The pool the history begins with                                        *)

\* Perhaps a snapshot, perhaps a deadlist since it.
FirstSnaps(snapped) == IF snapped THEN [s \in {"s"} |-> 13] ELSE Nothing
FirstLists(snapped) == IF snapped THEN [k \in {1} |-> EmptyList] ELSE Nothing

\* Its directories, datasets, deadlists and block-pointer objects.
IsUsedPool(mos, snapped, cloned) ==
  /\ DOMAIN mos = {1, 2, 3, 4, 5, 6, 8, 9, 10, 11, 12} \cup {o \in {13, 14} : snapped} \cup {o \in {15, 16, 17} : cloned}
  /\ IsFcn(mos)
  /\ IsDir(mos[1]) /\ mos[1].is = "dir" /\ mos[1].head = 2 /\ mos[1].origin = OriginSnap
  /\ DOMAIN mos[1].kids \ {"$ORIGIN"} = {"a"} \cup {n \in {"b"} : cloned}
  /\ mos[1].kids["a"] = 10 /\ (cloned => mos[1].kids["b"] = 15)
  /\ IsSet(mos[2]) /\ mos[2].is = "set" /\ mos[2].dir = 1 /\ mos[2].next = NoObject /\ DOMAIN mos[2].snaps = {}
  /\ mos[2].guid = 100 /\ mos[2].txg = 1 /\ mos[2].dead = 6
  /\ IsDir(mos[3]) /\ mos[3].is = "dir"
  /\ IsSet(mos[4]) /\ mos[4].is = "set" /\ mos[4].txg = 1
  /\ IsSet(mos[5]) /\ mos[5].is = "set" /\ mos[5].txg = 1 /\ mos[5].dir = OriginDir
  /\ IsDir(mos[10]) /\ mos[10].is = "dir" /\ mos[10].head = 11 /\ mos[10].origin = OriginSnap
  /\ DOMAIN mos[10].kids = {}
  /\ IsSet(mos[11]) /\ mos[11].is = "set" /\ mos[11].dir = 10 /\ mos[11].next = NoObject
  /\ DOMAIN mos[11].snaps = {s \in {"s"} : snapped} /\ (snapped => mos[11].snaps["s"] = 13)
  /\ mos[11].guid = 103 /\ mos[11].txg = 1 /\ mos[11].dead = 12
  /\ \A o \in {8, 9} : IsBpobj(mos[o]) /\ mos[o].is = "bpobj"
  /\ \A o \in {6, 12, 14, 17} \cap DOMAIN mos :
       IsDead(mos[o]) /\ mos[o].is = "dead" /\ \A k \in DOMAIN mos[o].lists : mos[o].lists[k] = EmptyList
  /\ snapped => /\ IsSet(mos[13]) /\ mos[13].is = "set" /\ mos[13].dir = 10 /\ mos[13].guid = 104
                /\ mos[13].txg = 1 /\ mos[13].dead = 14
  /\ cloned => /\ IsDir(mos[15]) /\ mos[15].is = "dir" /\ mos[15].head = 16 /\ mos[15].origin = 13
               /\ DOMAIN mos[15].kids = {}
               /\ IsSet(mos[16]) /\ mos[16].is = "set" /\ mos[16].dir = 15 /\ mos[16].next = NoObject
               /\ DOMAIN mos[16].snaps = {} /\ mos[16].guid = 105 /\ mos[16].txg = 1 /\ mos[16].dead = 17

\* What they are: the volumes are encrypted under the key of the first.
LooksUsed(mos, snapped, cloned) ==
  /\ "$ORIGIN" \in DOMAIN mos[1].kids /\ mos[1].kids["$ORIGIN"] = OriginDir
  /\ mos[3].head = 4 /\ mos[4].dir = 3 /\ mos[4].prev = OriginSnap
  /\ mos[1].root = NoObject /\ mos[2].shape = Shape("zfs", 0, 1)
  /\ mos[10].root = 10 /\ mos[11].shape = Shape("zvol", 1, 1)
  /\ snapped => mos[13].shape = Shape("zvol", 1, 1)
  /\ cloned => mos[15].root = 10 /\ mos[16].shape = Shape("zvol", 1, 1)

\* What its user sees.
IsSeenFirst(live, snapped, cloned) ==
  /\ DOMAIN live = {100, 103} \cup {g \in {104} : snapped} \cup {g \in {105} : cloned} /\ IsFcn(live)
  /\ \A g \in DOMAIN live : IsUser(live[g])
  /\ live[100].path = <<>> /\ live[100].snap = NoSnap
  /\ live[103].path = <<"a">> /\ live[103].snap = NoSnap
  /\ snapped => live[104].path = <<"a">> /\ live[104].snap = {"s"}
  /\ cloned => live[105].path = <<"b">> /\ live[105].snap = NoSnap

\* Kind, size, clone, key.
LooksSeen(e, shape, clone, locked) == e.kind = shape.kind /\ e.size = shape.size /\ e.clone = clone /\ e.locked = locked
LooksFirst(live, snapped, cloned) ==
  /\ LooksSeen(live[100], Shape("zfs", 0, 1), FALSE, FALSE)
  /\ LooksSeen(live[103], Shape("zvol", 1, 1), FALSE, TRUE)
  /\ snapped => LooksSeen(live[104], Shape("zvol", 1, 1), FALSE, TRUE)
  /\ cloned => LooksSeen(live[105], Shape("zvol", 1, 1), TRUE, TRUE)

-----------------------------------------------------------------------------
(* A walk and what it has found                                            *)

\* What a walk is made of: names, objects, paths and datasets of the TXG.
AllNames(t) == UNION {DOMAIN history[t][o].kids : o \in DOMAIN history[t]}
AllKids(t) ==
  {Root} \cup UNION {{history[t][o].kids[n] : n \in DOMAIN history[t][o].kids} : o \in DOMAIN history[t]}
Paths(t) == {p \in Seq(AllNames(t)) : Len(p) <= MaxDepth + 1}
AllSets(t, origin) == UNION {WithSnapshots(t, x[1], x[2], origin) : x \in AllKids(t) \X Paths(t)}
WalkStates(t, origin) ==
  [todo : SUBSET (AllKids(t) \X Paths(t)), sets : SUBSET AllSets(t, origin),
   errors : SUBSET Paths(t), seen : SUBSET AllKids(t)]

\* Whatever is lost, each name that a walk finds is of one dataset.
NamesAreUnique(sets) == \A d, e \in sets : d.name = e.name => d.guid = e.guid

\* One call: what it refuses, opens and tells without an error.
Refused(w) == Len(NextDir(w)[2]) > MaxDepth \/ NextDir(w)[1] \in w.seen
Opens(t, w) == ~Refused(w) /\ Reads(t, NextDir(w)[1], "dnode")

Told(t, origin, w) ==
  /\ Opens(t, w) /\ Reads(t, NextDir(w)[1], "children")
  /\ HeadAt(t, NextDir(w)[1], NextDir(w)[2], origin) # {}
Made(t, origin, w, o, path) ==
  [todo |-> (w.todo \ {NextDir(w)}) \cup (IF Opens(t, w) THEN Below(t, o, path) ELSE {}),
   sets |-> w.sets \cup (IF Opens(t, w) THEN WithSnapshots(t, o, path, origin) ELSE {}),
   errors |-> w.errors \cup (IF Told(t, origin, w) THEN {} ELSE {path}),
   seen |-> w.seen \cup (IF Refused(w) THEN {} ELSE {o})]

\* Every path was reached from one that has been walked, and none of those
\* still to be walked has been; so each is walked once, and every dataset that
\* was found has a name of its own.
Above(t, p, done) == p = <<>> \/ \E q \in done, n \in AllNames(t) : p = Append(q, n)
WalkInv(t, origin, w, done) ==
  /\ w \in WalkStates(t, origin) /\ done \in SUBSET Paths(t)
  /\ \A x \in w.todo : x[2] \notin done /\ Above(t, x[2], done)
  /\ \A x, y \in w.todo : x[2] = y[2] => x = y
  /\ \A p \in done : Above(t, p, done)
  /\ \A d \in w.sets : d.name.path \in done
  /\ \A d, e \in w.sets : d.name = e.name => d.guid = e.guid

\* A directory whose walk is over is in the result under its path, or its path
\* is among the errors.
IsHeadOf(t, live, d, e) ==
  e.guid = HeadOf(history[t], d).guid /\ e.name = Named(PathIn(history[t], live, d), NoSnap) /\ e.snapshot = FALSE
Headed(t, live, w, d) ==
  PathIn(history[t], live, d) \in w.errors \/ \E e \in w.sets : IsHeadOf(t, live, d, e)

\* It is the root or was reached from one; its own children were walked or are
\* still to be, unless it is an error.
Reached(t, d, done) == d = Root \/ \E p \in done : \E n \in Kids(history[t], p) : Kid(history[t], p, n) = d
Entered(t, live, w, d, done) ==
  \/ PathIn(history[t], live, d) \in w.errors
  \/ \A n \in Kids(history[t], d) :
       LET k == Kid(history[t], d, n)
       IN  k \in done \/ <<k, PathIn(history[t], live, k)>> \in w.todo

\* What is told is of the directories whose walk is over, all of it but where
\* there is an error, and an error has a reason.
FoundAt(t, origin, live, d) == WithSnapshots(t, d, PathIn(history[t], live, d), origin)
Readable(t, origin, live, d) ==
  LET path == PathIn(history[t], live, d)
  IN  Len(path) <= MaxDepth /\ Reads(t, d, "dnode") /\ Reads(t, d, "children") /\ HeadAt(t, d, path, origin) # {}
IsFound(t, origin, live, w, done) ==
  /\ \A e \in w.sets : \E d \in done : e \in FoundAt(t, origin, live, d)
  /\ \A d \in done : PathIn(history[t], live, d) \in w.errors \/ FoundAt(t, origin, live, d) \subseteq w.sets
  /\ \A p \in w.errors : \E d \in done : ~Readable(t, origin, live, d)
CoverInv(t, origin, live, w, done) ==
  /\ IsFound(t, origin, live, w, done)
  /\ w \in WalkStates(t, origin) /\ done \in SUBSET Dirs(history[t]) /\ w.seen \subseteq done
  /\ \A x \in w.todo : /\ x = <<x[1], x[2]>> /\ x[1] \in Dirs(history[t]) \ done
                       /\ x[2] = PathIn(history[t], live, x[1]) /\ Reached(t, x[1], done)
  /\ \A d \in done : Reached(t, d, done) /\ Headed(t, live, w, d) /\ Entered(t, live, w, d, done)
  /\ Root \in done \/ <<Root, <<>>>> \in w.todo

\* Every directory of the pool is in the result or has an error in its place or
\* above it.
Missed(t, live, w, d) ==
  \E q \in Dirs(history[t]) :
    PathIn(history[t], live, q) \in w.errors /\ IsPrefix(PathIn(history[t], live, q), PathIn(history[t], live, d))

-----------------------------------------------------------------------------
(* What every step keeps                                                   *)

\* The commands begin from the last TXG, and make the next.
PoolIsSound == Len(history) \in Nat /\ Sound(Mos, Live, Len(history))

\* If this TXG is what its user sees, so is the next.
Follows(mos, live) == Exact(Mos, Live) => Exact(mos, live) /\ UsersStay(Live, live, Len(history))
NextIsSound == \E mos, live : Sync(mos, live) /\ Sound(mos, live, Len(history) + 1) /\ Follows(mos, live)

\* Every TXG is sound.
PastIsSound ==
  /\ Len(history) \in Nat \ {0} /\ Len(truth) = Len(history)
  /\ \A t \in 1 .. Len(history) : Sound(history[t], truth[t], t)
PoolInv == PastIsSound /\ \E S : history \in Seq(S) /\ truth \in Seq(S)

\* In each TXG the objects hold what its user saw, neither more nor less; what
\* a dataset is and whether it is locked no command changes.
PastIsExact == \A t \in 1 .. Len(history) : Exact(history[t], truth[t])
SameKind(was, now) ==
  \A g \in DOMAIN was \cap DOMAIN now : was[g].kind = now[g].kind /\ was[g].locked = now[g].locked
KindsStay == \A p, t \in 1 .. Len(history) : SameKind(truth[p], truth[t])
ExactInv == PoolInv /\ PastIsExact /\ KindsStay

\* What is told to be destroyed was there at an earlier TXG; the last TXG
\* walked is what the next is compared with.
Destructions == {"destroyed", "snapshot-destroyed"}
Shown(e, sets) == \E d \in sets : d.name = e.name /\ d.guid = e.guid
LeadsTo(e) ==
  /\ e.last \in 1 .. Len(history) /\ e.last < e.txg /\ Walks(e.last)
  /\ Shown(e, Walk(e.last).sets)
TimelineInv ==
  /\ at \in Nat /\ (at = 0 => events = {} /\ previous.txg = 0)
  /\ previous.txg \in Nat /\ previous.txg <= at
  /\ previous.txg > 0 =>
       previous.txg \in 1 .. Len(history) /\ Walks(previous.txg) /\ previous.sets = Walk(previous.txg).sets
  /\ \A e \in events : e.kind \in Destructions => LeadsTo(e)
RecoverInv == PoolInv /\ TimelineInv

\* No event is told of before the timeline is there.
EventsPast == \A e \in events : e.txg \in Nat /\ e.txg <= at
ScriptInv == RecoverInv /\ ExactInv /\ EventsPast

\* What `list` says of one dataset.
IsTold(out, g, d) ==
  \/ d.snap # NoSnap
  \/ \E e \in out.sets : e.guid = g /\ e.name = Named(d.path, NoSnap)
  \/ \E path \in out.errors : IsPrefix(path, d.path)
Tells(out, live) == \A g \in DOMAIN live : IsTold(out, g, live[g])
ListInv ==
  listed.txg > 0 /\ listed.code = Ok => listed.txg \in 1 .. Len(history) /\ Tells(listed, truth[listed.txg])
MissingInv == PoolInv /\ ListInv
=============================================================================
