-------------------------- MODULE FilesExtractProofs --------------------------
(***************************************************************************)
(* What FilesExtract promises for every dataset and every command line:    *)
(* each digest in a manifest is of the file under that name, however many  *)
(* names share it; an extraction nothing interrupted has a line for every  *)
(* name it reached, and one that exits 0 read all of it; `objects` writes  *)
(* the objects there are.                                                  *)
(***************************************************************************)
EXTENDS FilesExtract, WellFoundedInduction, FiniteSetTheorems, SequenceTheorems, TLAPS

-----------------------------------------------------------------------------
(* Numbers                                                                 *)

\* A set of numbers that has a member has a least one.
LEMMA HasLeast ==
  ASSUME NEW S \in SUBSET Nat, S # {}
  PROVE  \E x \in S : \A y \in S : x <= y
<1>1. PICK x \in S : \A y \in S : ~ (<<y, x>> \in OpToRel(<, Nat))
  BY NatLessThanWellFounded, WFMin
<1>2. \A y \in S : ~ (y < x)
  BY <1>1 DEF OpToRel
<1> QED
  BY <1>2

\* Where it has a bound, it has a greatest one too.
LEMMA HasGreatest ==
  ASSUME NEW S \in SUBSET Nat, S # {}, NEW m \in Nat, \A x \in S : x <= m
  PROVE  \E x \in S : \A y \in S : y <= x
<1> DEFINE T == {m - x : x \in S}
<1>1. \A x \in S : m - x \in Nat
  OBVIOUS
<1>2. T \in SUBSET Nat /\ T # {}
  BY <1>1
<1> HIDE DEF T
<1>3. PICK z \in T : \A y \in T : z <= y
  BY <1>2, HasLeast
<1>4. PICK x \in S : z = m - x
  BY <1>3 DEF T
<1>5. \A y \in S : m - x <= m - y
  BY <1>3, <1>4 DEF T
<1> QED
  BY <1>5

\* A set of numbers with 0 in it, and the number after each of its members, is
\* all of them.
LEMMA SetInduction ==
  ASSUME NEW S \in SUBSET Nat, 0 \in S, \A n \in S : n + 1 \in S
  PROVE  S = Nat
<1> SUFFICES ASSUME Nat \ S # {} PROVE FALSE
  OBVIOUS
<1>1. PICK x \in Nat \ S : \A y \in Nat \ S : x <= y
  <2>1. Nat \ S \in SUBSET Nat
    OBVIOUS
  <2> QED
    BY <2>1, HasLeast
<1>2. x - 1 \in Nat /\ x - 1 + 1 = x
  BY <1>1
<1>3. x - 1 \in S
  BY <1>1, <1>2
<1> QED
  BY <1>1, <1>2, <1>3

\* The first n + 1 values of the function that begins with a and goes on as
\* step says.
IsStart(g, n, S, a, step) ==
  /\ g \in [0 .. n -> S] /\ g[0] = a
  /\ \A i \in 0 .. n - 1 : g[i + 1] = step[<<i, g[i]>>]

\* There are such starts of every length (a recursive function of the model is
\* one value after the other).
LEMMA StartExists ==
  ASSUME NEW S, NEW a \in S, NEW step \in [Nat \X S -> S], NEW n \in Nat
  PROVE  \E g : IsStart(g, n, S, a, step)
<1> DEFINE Good == {m \in Nat : \E g : IsStart(g, m, S, a, step)}
<1>1. 0 \in Good
  <2>1. IsStart([i \in 0 .. 0 |-> a], 0, S, a, step)
    BY DEF IsStart
  <2> QED
    BY <2>1
<1>2. ASSUME NEW m \in Good
      PROVE  m + 1 \in Good
  <2>1. PICK g : IsStart(g, m, S, a, step)
    OBVIOUS
  <2> DEFINE h == [i \in 0 .. m + 1 |-> IF i <= m THEN g[i] ELSE step[<<m, g[m]>>]]
  <2>2. g \in [0 .. m -> S] /\ g[m] \in S /\ step[<<m, g[m]>>] \in S
    BY <2>1 DEF IsStart
  <2>3. h \in [0 .. m + 1 -> S] /\ h[0] = a
    BY <2>1, <2>2 DEF IsStart
  <2>4. ASSUME NEW i \in 0 .. m + 1 - 1
        PROVE  h[i + 1] = step[<<i, h[i]>>]
    <3>1. i \in 0 .. m /\ h[i] = g[i] /\ i + 1 \in 0 .. m + 1
      OBVIOUS
    <3>2. CASE i = m
      <4>1. ~ (i + 1 <= m) /\ h[i + 1] = step[<<m, g[m]>>]
        BY <3>1, <3>2
      <4> HIDE DEF h
      <4> QED
        BY <3>1, <3>2, <4>1
    <3>3. CASE i # m
      <4>1. i \in 0 .. m - 1 /\ i + 1 <= m
        BY <3>1, <3>3
      <4>2. h[i + 1] = g[i + 1]
        BY <3>1, <4>1
      <4> QED
        BY <2>1, <3>1, <4>1, <4>2 DEF IsStart
    <3> QED
      BY <3>2, <3>3
  <2> HIDE DEF h
  <2>5. IsStart(h, m + 1, S, a, step)
    BY <2>3, <2>4 DEF IsStart
  <2> QED
    BY <2>5
<1>3. Good \in SUBSET Nat
  OBVIOUS
<1> HIDE DEF Good
<1>4. n \in Good
  BY <1>1, <1>2, <1>3, SetInduction
<1> QED
  BY <1>4 DEF Good

\* Two of them agree as far as both go.
LEMMA StartsAgree ==
  ASSUME NEW S, NEW a \in S, NEW step \in [Nat \X S -> S],
         NEW n \in Nat, NEW g, IsStart(g, n, S, a, step),
         NEW m \in Nat, NEW h, IsStart(h, m, S, a, step)
  PROVE  \A i \in Nat : i <= n /\ i <= m => g[i] = h[i]
<1> SUFFICES ASSUME NEW i \in Nat, i <= n, i <= m PROVE g[i] = h[i]
  OBVIOUS
<1> DEFINE Good == {j \in Nat : j <= n /\ j <= m => g[j] = h[j]}
<1>1. 0 \in Good
  BY DEF IsStart
<1>2. ASSUME NEW j \in Good
      PROVE  j + 1 \in Good
  <2> SUFFICES ASSUME j + 1 <= n, j + 1 <= m PROVE g[j + 1] = h[j + 1]
    OBVIOUS
  <2>1. j \in 0 .. n - 1 /\ j \in 0 .. m - 1 /\ g[j] = h[j]
    OBVIOUS
  <2> QED
    BY <2>1 DEF IsStart
<1>3. Good \in SUBSET Nat
  OBVIOUS
<1> HIDE DEF Good
<1>4. i \in Nat /\ i <= n /\ i <= m
  OBVIOUS
<1>5. i \in Good
  BY <1>1, <1>2, <1>3, <1>4, SetInduction
<1> QED
  BY <1>4, <1>5 DEF Good

\* So those of one length end alike.
LEMMA EndsAgree ==
  ASSUME NEW S, NEW a \in S, NEW step \in [Nat \X S -> S], NEW n \in Nat,
         NEW g, IsStart(g, n, S, a, step), NEW h, IsStart(h, n, S, a, step)
  PROVE  g[n] = h[n]
<1>1. \A m \in Nat : IsStart(h, m, S, a, step) =>
        \A i \in Nat : i <= n /\ i <= m => g[i] = h[i]
  BY StartsAgree
<1> QED
  BY <1>1

-----------------------------------------------------------------------------
\* The inductive invariant.

EntryType == [path : Paths, object : Objects, known : BOOLEAN]
RecordType ==
  [path : Paths, object : Objects, digest : SUBSET Contents, errors : Nat, failed : BOOLEAN]
FrameType == [path : Paths, rest : Seq(DirEntries), depth : Nat]
CopyType == [entry : EntryType, at : Nat, ino : Nat, errors : Nat]
InodeType == [dir : BOOLEAN, locked : BOOLEAN, cells : Contents]

DatasetOK == disk \in Datasets

\* Every name of the host is a path and has an inode, the output directory too.
HostOK(h) ==
  /\ h = [tree |-> h.tree, inodes |-> h.inodes] /\ h.inodes \in Seq(InodeType)
  /\ DOMAIN h.tree \subseteq Paths /\ <<>> \in DOMAIN h.tree
  /\ h.tree \in [DOMAIN h.tree -> 1 .. Len(h.inodes)]

WrittenOK(w) ==
  DOMAIN w \subseteq Objects /\ w \in [DOMAIN w -> [path : Paths, cells : Contents]]

TypeOK ==
  /\ DatasetOK /\ opt \in CommandLines /\ flag \in BOOLEAN
  /\ phase \in {"open", "roots", "walk", "entries", "entry", "copy", "manifest", "objects", "ended"}
  /\ roots \in Seq(EntryType) /\ stack \in Seq(FrameType) /\ walked \subseteq Objects
  /\ listing \in Seq(EntryType) /\ HostOK(out) /\ copy \in CopyType /\ WrittenOK(written)
  /\ files \in Seq(RecordType) /\ slot \in Nat \ {0} /\ cut \in BOOLEAN /\ exit \in Exits

\* Which command a phase belongs to, and what it has not begun.
PhasesFollow ==
  /\ phase \in {"entries", "entry", "copy"} => opt.command = "extract"
  /\ phase \in {"roots", "walk", "manifest"} => opt.command # "objects"
  /\ phase = "objects" => opt.command = "objects"
  /\ phase # "copy" => copy = NoCopy
  /\ phase = "entry" => listing # <<>>
  /\ phase \in {"walk", "entries", "entry", "copy"} => roots # <<>>
  /\ phase = "open" => files = <<>> /\ slot = 1
  /\ exit = "running" <=> phase # "ended"

\* An entry has the object its path leads to; a directory being walked lists,
\* and what is left of it are entries of its own.
Placed(e) == e.object = Lookup(e.path)
Opened(f) ==
  /\ Lookup(f.path) # Nowhere /\ Lists(Lookup(f.path))
  /\ \A k \in DOMAIN f.rest : \E j \in DOMAIN disk.dirs[Lookup(f.path)] :
       f.rest[k] = disk.dirs[Lookup(f.path)][j]
EntriesArePlaced ==
  /\ \A i \in DOMAIN roots : Placed(roots[i])
  /\ \A i \in DOMAIN listing :
       Placed(listing[i]) /\ (listing[i].known => Reads(listing[i].object))
  /\ \A i \in DOMAIN stack : Opened(stack[i])

\* The file being copied is a first name, and holds the blocks so far.
CopyOK(c, h, w) ==
  LET e == c.entry
      cells == At(h, e.path).cells
      good == disk.good[e.object]
  IN  /\ Placed(e) /\ Reads(e.object) /\ disk.kind[e.object] = "file" /\ e.object \notin DOMAIN w
      /\ e.path # <<>> /\ e.path \in DOMAIN h.tree /\ h.tree[e.path] = c.ino
      /\ c.at <= Len(good) /\ Len(cells) = c.at
      /\ \A i \in 1 .. c.at : cells[i] = Blocks(e.object)[i]
      /\ c.errors = 0 => \A i \in 1 .. c.at : good[i]
CopyIsPlaced == phase = "copy" => CopyOK(copy, out, written)

\* Two names share an inode only where both lead to one object written before.
NamesApart(h, w) ==
  \A p, q \in DOMAIN h.tree :
    p # q /\ h.tree[p] = h.tree[q] => Lookup(p) = Lookup(q) /\ Lookup(p) \in DOMAIN w

\* The first name of an object still holds what was written under it.
FirstsStand(h, w) ==
  \A o \in DOMAIN w :
    /\ disk.kind[o] = "file" /\ Lookup(w[o].path) = o
    /\ w[o].path \in DOMAIN h.tree /\ At(h, w[o].path).cells = w[o].cells

OnlyOnce(fs, i) == \A j \in DOMAIN fs : j # i => fs[j].path # fs[i].path

\* A digest is of the file under that name, but for this path.
DigestsStand(h, fs, but) ==
  \A i \in DOMAIN fs :
    fs[i].digest # {} =>
      /\ fs[i].path # <<>> /\ fs[i].path \in DOMAIN h.tree
      /\ fs[i].path # but /\ OnlyOnce(fs, i) => At(h, fs[i].path).cells \in fs[i].digest

TreeStands(h, w, fs, but) == NamesApart(h, w) /\ FirstsStand(h, w) /\ DigestsStand(h, fs, but)

HostStands ==
  opt.command = "extract" /\ phase # "ended" => TreeStands(out, written, files, copy.entry.path)

\* A line without a failure is of an object that reads; and while no line
\* has errors, what was copied is the whole file.
Whole(o, digest) == Lost(o) = 0 /\ digest = {Blocks(o)}
Clean(fs) == \A i \in DOMAIN fs : fs[i].errors = 0
Tells(r) == Placed(r) /\ (~r.failed => Reads(r.object))
LinesTell(fs, w) ==
  /\ \A i \in DOMAIN fs : Tells(fs[i])
  /\ Clean(fs) =>
       /\ \A i \in DOMAIN fs : ~fs[i].failed /\ disk.kind[fs[i].object] = "file" =>
            Whole(fs[i].object, fs[i].digest)
       /\ \A o \in DOMAIN w : Whole(o, {w[o].cells})
RecordsTell == opt.command = "extract" => LinesTell(files, written)

ZeroIsWhole == Extracted({"0"}) => FilesAreWhole

\* `objects` is at the start of an object, or at a slot that does not read, and
\* has a line for every object before it.
There == {o \in Objects : Gets(o) /\ disk.kind[o] \notin {"free", "inside"}}
ObjectsSoFar ==
  opt.command = "objects" =>
    /\ \A i \in DOMAIN files : files[i].object \in There
    /\ phase = "objects" =>
         /\ slot \in Objects /\ Gets(slot) => disk.kind[slot] # "inside"
         /\ \A o \in There : o < slot => HasRecord(<<>>, o)
    /\ exit \in {"0", "PARTIAL"} => \A o \in There : HasRecord(<<>>, o)

IInv ==
  /\ TypeOK /\ PhasesFollow /\ EntriesArePlaced /\ CopyIsPlaced
  /\ HostStands /\ ManifestTells /\ RecordsTell /\ ZeroIsWhole /\ ObjectsSoFar

-----------------------------------------------------------------------------
\* What a path leads to.

Places == Objects \cup {Nowhere}

\* One component further, from a place that may be nowhere.
Below(o, n) == IF o = Nowhere THEN Nowhere ELSE Child(o, n)

\* The lookup as a recursion over the components.
StepOf(path) == [x \in Nat \X Places |->
  IF x[1] + 1 \in 1 .. Len(path) THEN Below(x[2], path[x[1] + 1]) ELSE Nowhere]

LEMMA ChildIsAPlace ==
  ASSUME DatasetOK, NEW o \in Objects, NEW n
  PROVE  Child(o, n) \in Places
<1> DEFINE of == disk.dirs[o]
           exact == {i \in DOMAIN of : of[i].name = n}
           alike == {i \in DOMAIN of : Folded[of[i].name] = Folded[n]}
           first(S) == CHOOSE i \in S : \A j \in S : i <= j
<1>1. of \in Seq(DirEntries) /\ DOMAIN of \subseteq Nat
  BY DatasetsAssumption DEF DatasetOK, DatasetType
<1>2. ASSUME NEW S \in SUBSET DOMAIN of, S # {}
      PROVE  of[first(S)].object \in Objects
  <2>1. first(S) \in S
    <3> HIDE DEF of
    <3> QED
      BY <1>1, <1>2, HasLeast
  <2>2. \A i \in DOMAIN of : of[i] \in DirEntries
    BY <1>1
  <2> HIDE DEF of, first
  <2> QED
    BY <1>1, <1>2, <2>1, <2>2 DEF DirEntries
<1>3. exact \in SUBSET DOMAIN of /\ alike \in SUBSET DOMAIN of
  OBVIOUS
<1>4. Child(o, n) \in {Nowhere} \cup {of[first(S)].object : S \in {T \in SUBSET DOMAIN of : T # {}}}
  <2>1. CASE ~Lists(o) \/ (exact = {} /\ ~(disk.folds /\ alike # {}))
    BY <2>1 DEF Child
  <2>2. CASE Lists(o) /\ exact # {}
    <3>1. Child(o, n) = of[first(exact)].object
      BY <2>2 DEF Child, Nowhere, Objects
    <3> HIDE DEF of, exact, first
    <3> QED
      BY <1>3, <2>2, <3>1
  <2>3. CASE Lists(o) /\ exact = {} /\ disk.folds /\ alike # {}
    <3>1. Child(o, n) = of[first(alike)].object
      BY <2>3 DEF Child, Nowhere, Objects
    <3> HIDE DEF of, alike, first
    <3> QED
      BY <1>3, <2>3, <3>1
  <2> QED
    BY <2>1, <2>2, <2>3
<1> HIDE DEF of, first
<1> QED
  BY <1>2, <1>4 DEF Places

LEMMA StepIsDefined ==
  ASSUME DatasetOK, NEW path \in Paths
  PROVE  disk.root \in Places /\ StepOf(path) \in [Nat \X Places -> Places]
<1>1. disk.root \in Places
  BY DatasetsAssumption DEF DatasetOK, DatasetType, Places
<1>2. ASSUME NEW x \in Nat \X Places, x[1] + 1 \in 1 .. Len(path)
      PROVE  Below(x[2], path[x[1] + 1]) \in Places
  <2>1. x[2] \in Objects \/ x[2] = Nowhere
    BY DEF Places
  <2> QED
    BY <2>1, ChildIsAPlace DEF Below, Places
<1> QED
  BY <1>1, <1>2 DEF StepOf, Places

LEMMA LookupIsARecursion ==
  ASSUME DatasetOK, NEW path \in Paths
  PROVE  \E g : /\ IsStart(g, Len(path), Places, disk.root, StepOf(path))
                /\ Lookup(path) = g[Len(path)]
<1> DEFINE n == Len(path)
           Is(f) == f = [i \in 0 .. n |->
                           IF i = 0 THEN disk.root
                           ELSE IF f[i - 1] = Nowhere THEN Nowhere ELSE Child(f[i - 1], path[i])]
           at == CHOOSE f : Is(f)
<1>0. n \in Nat
  BY DEF Paths
<1>1. disk.root \in Places /\ StepOf(path) \in [Nat \X Places -> Places]
  BY StepIsDefined
<1>2. PICK g : IsStart(g, n, Places, disk.root, StepOf(path))
  BY <1>0, <1>1, StartExists
<1>3. \A i \in 0 .. n - 1 : g[i + 1] = Below(g[i], path[i + 1])
  <2>1. ASSUME NEW i \in 0 .. n - 1
        PROVE  g[i + 1] = Below(g[i], path[i + 1])
    <3>1. g[i + 1] = StepOf(path)[<<i, g[i]>>] /\ g[i] \in Places
      BY <1>0, <1>2 DEF IsStart
    <3>2. i + 1 \in 1 .. n /\ <<i, g[i]>> \in Nat \X Places
      BY <1>0, <3>1
    <3> QED
      BY <3>1, <3>2 DEF StepOf
  <2> QED
    BY <2>1
<1>4. Is(g)
  <2>1. \A i \in 1 .. n : i - 1 \in 0 .. n - 1 /\ (i - 1) + 1 = i
    BY <1>0
  <2>2. \A i \in 1 .. n : g[i] = Below(g[i - 1], path[i])
    BY <1>3, <2>1
  <2> QED
    BY <1>0, <1>2, <2>2 DEF IsStart, Below
<1>5. Is(at)
  <2> HIDE DEF Is
  <2> QED
    BY <1>4
<1>6. Lookup(path) = at[n]
  BY DEF Lookup
<1>7. at[n] = g[n]
  <2> HIDE DEF at
  <2> DEFINE Same == {j \in Nat : j <= n => at[j] = g[j]}
  <2>1. 0 \in Same
    BY <1>0, <1>4, <1>5
  <2>2. ASSUME NEW j \in Same
        PROVE  j + 1 \in Same
    <3> SUFFICES ASSUME j + 1 <= n PROVE at[j + 1] = g[j + 1]
      OBVIOUS
    <3>1. j + 1 \in 0 .. n /\ j + 1 # 0 /\ (j + 1) - 1 = j /\ at[j] = g[j]
      BY <1>0
    <3> QED
      BY <1>4, <1>5, <3>1
  <2>3. Same \in SUBSET Nat
    OBVIOUS
  <2> HIDE DEF Same
  <2>4. n \in Same
    BY <1>0, <2>1, <2>2, <2>3, SetInduction
  <2> QED
    BY <1>0, <2>4 DEF Same
<1> QED
  BY <1>2, <1>6, <1>7

LEMMA LookupOfRoot ==
  ASSUME DatasetOK
  PROVE  Lookup(<<>>) = disk.root
<1>1. <<>> \in Paths /\ Len(<<>>) = 0
  BY DEF Paths
<1> QED
  BY <1>1, LookupIsARecursion DEF IsStart

LEMMA LookupOfEntry ==
  ASSUME DatasetOK, NEW path \in Paths, NEW n \in Names
  PROVE  Lookup(Append(path, n)) = Below(Lookup(path), n)
<1> DEFINE more == Append(path, n)
           l == Len(path)
<1>1. /\ more \in Paths /\ l \in Nat /\ Len(more) = l + 1 /\ more[l + 1] = n
      /\ \A i \in 1 .. l : more[i] = path[i]
  BY DEF Paths
<1> HIDE DEF more
<1>2. PICK g : IsStart(g, l, Places, disk.root, StepOf(path)) /\ Lookup(path) = g[l]
  BY LookupIsARecursion
<1>3. PICK h : IsStart(h, l + 1, Places, disk.root, StepOf(more)) /\ Lookup(more) = h[l + 1]
  BY <1>1, LookupIsARecursion
<1>4. disk.root \in Places /\ StepOf(path) \in [Nat \X Places -> Places]
  BY StepIsDefined
<1>5. \A i \in 0 .. l : h[i] \in Places
  BY <1>1, <1>3 DEF IsStart
<1>6. \A i \in 0 .. l : h[i + 1] = StepOf(more)[<<i, h[i]>>]
  BY <1>1, <1>3 DEF IsStart
<1>7. IsStart([i \in 0 .. l |-> h[i]], l, Places, disk.root, StepOf(path))
  <2>1. ASSUME NEW i \in 0 .. l - 1
        PROVE  h[i + 1] = StepOf(path)[<<i, h[i]>>]
    <3>1. i \in 0 .. l /\ i + 1 \in 1 .. l /\ i + 1 \in 1 .. Len(more) /\ <<i, h[i]>> \in Nat \X Places
      BY <1>1, <1>5
    <3>2. StepOf(path)[<<i, h[i]>>] = StepOf(more)[<<i, h[i]>>]
      BY <1>1, <3>1 DEF StepOf
    <3> QED
      BY <1>6, <3>1, <3>2
  <2>2. \A i \in 0 .. l - 1 : i \in 0 .. l /\ i + 1 \in 0 .. l
    BY <1>1
  <2>3. h[0] = disk.root /\ 0 \in 0 .. l
    BY <1>1, <1>3 DEF IsStart
  <2> QED
    BY <1>5, <2>1, <2>2, <2>3 DEF IsStart
<1>8. h[l] = g[l]
  <2> DEFINE k == [i \in 0 .. l |-> h[i]]
  <2>1. l \in 0 .. l /\ k[l] = h[l]
    BY <1>1
  <2> HIDE DEF k
  <2>2. IsStart(k, l, Places, disk.root, StepOf(path))
    BY <1>7 DEF k
  <2>3. k[l] = g[l]
    <3> HIDE DEF l
    <3> QED
      BY <1>1, <1>2, <1>4, <2>2, EndsAgree
  <2> QED
    BY <2>1, <2>3
<1>9. h[l + 1] = Below(h[l], n)
  <2>1. l \in 0 .. l /\ l + 1 \in 1 .. Len(more) /\ <<l, h[l]>> \in Nat \X Places
    BY <1>1, <1>5
  <2> QED
    BY <1>1, <1>6, <2>1 DEF StepOf
<1> QED
  BY <1>2, <1>3, <1>8, <1>9 DEF more

-----------------------------------------------------------------------------
\* What the host is left with.

\* Names and inodes were added: each new name has an inode of its own.
Grows(h, g) ==
  /\ HostOK(g) /\ DOMAIN h.tree \subseteq DOMAIN g.tree
  /\ \A p \in DOMAIN h.tree : g.tree[p] = h.tree[p]
  /\ Len(h.inodes) <= Len(g.inodes)
  /\ \A i \in 1 .. Len(h.inodes) : g.inodes[i] = h.inodes[i]
  /\ \A p \in DOMAIN g.tree \ DOMAIN h.tree : g.tree[p] > Len(h.inodes)
  /\ \A p, q \in DOMAIN g.tree \ DOMAIN h.tree : g.tree[p] = g.tree[q] => p = q

\* The file under a path was written, under a name it had or a new one.
Writes(h, g, path, cells) ==
  /\ HostOK(g) /\ DOMAIN g.tree = DOMAIN h.tree \cup {path}
  /\ \A p \in DOMAIN h.tree : g.tree[p] = h.tree[p]
  /\ path \notin DOMAIN h.tree => \A p \in DOMAIN h.tree : g.tree[p] # g.tree[path]
  /\ At(g, path).cells = cells
  /\ \A p \in DOMAIN h.tree : g.tree[p] # g.tree[path] => At(g, p).cells = At(h, p).cells

\* Only modes were changed.
SameCells(h, g) ==
  HostOK(g) /\ g.tree = h.tree /\ \A p \in DOMAIN h.tree : At(g, p).cells = At(h, p).cells

LEMMA PrefixesOf ==
  ASSUME NEW path \in Paths, NEW n \in 0 .. Len(path)
  PROVE  Upto(path, n) \in Paths /\ Len(Upto(path, n)) = n
<1>1. path \in Seq(Names) /\ n \in Int /\ 1 \in Int /\ \A i \in 1 .. n : path[i] \in Names
  BY DEF Paths
<1>2. SubSeq(path, 1, n) \in Seq(Names)
      /\ Len(SubSeq(path, 1, n)) = IF 1 <= n THEN n - 1 + 1 ELSE 0
  BY <1>1, SubSeqProperties
<1> QED
  BY <1>1, <1>2 DEF Upto, Paths

LEMMA DeepestStands ==
  ASSUME NEW h, HostOK(h), NEW path \in Paths
  PROVE  /\ Deepest(h, path) \in 0 .. Len(path)
         /\ Upto(path, Deepest(h, path)) \in DOMAIN h.tree
         /\ \A m \in Deepest(h, path) + 1 .. Len(path) : Upto(path, m) \notin DOMAIN h.tree
<1> DEFINE S == {n \in 0 .. Len(path) : Upto(path, n) \in DOMAIN h.tree}
<1>1. Len(path) \in Nat /\ Upto(path, 0) = <<>>
  BY SubSeqEmpty DEF Paths, Upto
<1>2. S \in SUBSET Nat /\ 0 \in S /\ \A n \in S : n <= Len(path)
  BY <1>1 DEF HostOK
<1>3. PICK n \in S : \A m \in S : m <= n
  <2> HIDE DEF S
  <2> QED
    BY <1>1, <1>2, HasGreatest
<1>4. \A m \in n + 1 .. Len(path) : Upto(path, m) \notin DOMAIN h.tree
  <2>1. \A m \in n + 1 .. Len(path) : m \in 0 .. Len(path) /\ ~ (m <= n)
    BY <1>1, <1>2
  <2> QED
    BY <1>3, <2>1
<1> QED
  BY <1>3, <1>4 DEF Deepest

LEMMA MakeDirsGrows ==
  ASSUME NEW h, HostOK(h), NEW path \in Paths
  PROVE  Grows(h, MakeDirs(h, path))
<1> DEFINE n == Deepest(h, path)
           new == {Upto(path, m) : m \in n + 1 .. Len(path)}
           tree == [x \in DOMAIN h.tree \cup new |->
                      IF x \in DOMAIN h.tree THEN h.tree[x] ELSE Len(h.inodes) + Len(x) - n]
           dirs == [m \in 1 .. Len(path) - n |-> Dir]
           inodes == h.inodes \o dirs
<1>1. CASE ~MakesDirs(h, path)
  BY <1>1 DEF MakeDirs, Grows, HostOK
<1>2. CASE MakesDirs(h, path)
  <2>1. MakeDirs(h, path) = [tree |-> tree, inodes |-> inodes]
    BY <1>2 DEF MakeDirs
  <2>2. /\ n \in 0 .. Len(path) /\ Len(path) \in Nat /\ Len(path) - n \in Nat
        /\ \A m \in n + 1 .. Len(path) : Upto(path, m) \notin DOMAIN h.tree
    BY DeepestStands DEF Paths
  <2> HIDE DEF n
  <2>3. /\ h.inodes \in Seq(InodeType) /\ Len(h.inodes) \in Nat
        /\ h.tree \in [DOMAIN h.tree -> 1 .. Len(h.inodes)]
    BY DEF HostOK
  <2>4. dirs \in Seq(InodeType) /\ Len(dirs) = Len(path) - n
    <3>1. Dir \in InodeType
      BY DEF Dir, InodeType, Contents
    <3> QED
      BY <2>2, <3>1
  <2>5. /\ inodes \in Seq(InodeType) /\ Len(inodes) = Len(h.inodes) + (Len(path) - n)
        /\ \A i \in 1 .. Len(h.inodes) : inodes[i] = h.inodes[i]
    <3> HIDE DEF dirs
    <3>1. inodes \in Seq(InodeType) /\ Len(inodes) = Len(h.inodes) + Len(dirs)
      BY <2>3, <2>4, ConcatProperties
    <3>2. \A i \in 1 .. Len(h.inodes) + Len(dirs) :
            inodes[i] = IF i <= Len(h.inodes) THEN h.inodes[i] ELSE dirs[i - Len(h.inodes)]
      BY <2>3, <2>4, ConcatProperties
    <3>3. \A i \in 1 .. Len(h.inodes) : i \in 1 .. Len(h.inodes) + Len(dirs) /\ i <= Len(h.inodes)
      BY <2>2, <2>3, <2>4
    <3> QED
      BY <2>4, <3>1, <3>2, <3>3
  <2>6. \A x \in new : /\ x \in Paths /\ x \notin DOMAIN h.tree /\ Len(x) \in n + 1 .. Len(path)
                        /\ x = Upto(path, Len(x))
    <3> SUFFICES ASSUME NEW m \in n + 1 .. Len(path)
                 PROVE  /\ Upto(path, m) \in Paths /\ Upto(path, m) \notin DOMAIN h.tree
                        /\ Len(Upto(path, m)) = m
      OBVIOUS
    <3>1. m \in 0 .. Len(path)
      BY <2>2
    <3> QED
      BY <2>2, <3>1, PrefixesOf
  <2> HIDE DEF new
  <2>7. \A x \in new : /\ tree[x] = Len(h.inodes) + Len(x) - n
                        /\ tree[x] \in Len(h.inodes) + 1 .. Len(inodes)
    <3> HIDE DEF inodes
    <3> QED
      BY <2>2, <2>3, <2>5, <2>6
  <2>8. \A x \in DOMAIN h.tree : tree[x] = h.tree[x]
    OBVIOUS
  <2>9. DOMAIN tree = DOMAIN h.tree \cup new
    OBVIOUS
  <2> HIDE DEF tree, inodes
  <2>10. \A x \in DOMAIN tree : tree[x] \in 1 .. Len(inodes)
    BY <2>2, <2>3, <2>5, <2>7, <2>8, <2>9
  <2>11. tree = [x \in DOMAIN tree |-> tree[x]]
    BY DEF tree
  <2>12. tree \in [DOMAIN tree -> 1 .. Len(inodes)]
    BY <2>10, <2>11
  <2>13. HostOK([tree |-> tree, inodes |-> inodes])
    BY <2>5, <2>6, <2>9, <2>12 DEF HostOK
  <2>14. \A x, y \in new : tree[x] = tree[y] => x = y
    <3> SUFFICES ASSUME NEW x \in new, NEW y \in new, tree[x] = tree[y] PROVE x = y
      OBVIOUS
    <3>1. Len(x) = Len(y)
      BY <2>2, <2>3, <2>6, <2>7
    <3> QED
      BY <2>6, <3>1
  <2>15. Len(h.inodes) <= Len(inodes)
    BY <2>2, <2>3, <2>5
  <2>16. \A x \in new : tree[x] > Len(h.inodes)
    BY <2>2, <2>3, <2>5, <2>7
  <2> QED
    BY <2>1, <2>5, <2>8, <2>9, <2>13, <2>14, <2>15, <2>16 DEF Grows
<1> QED
  BY <1>1, <1>2

LEMMA WriteToWrites ==
  ASSUME NEW h, HostOK(h), NEW path \in Paths, NEW cells \in Contents
  PROVE  Writes(h, WriteTo(h, path, cells), path, cells)
<1>0. /\ h = [tree |-> h.tree, inodes |-> h.inodes]
      /\ h.inodes \in Seq(InodeType) /\ Len(h.inodes) \in Nat
      /\ h.tree \in [DOMAIN h.tree -> 1 .. Len(h.inodes)]
      /\ DOMAIN h.tree \subseteq Paths /\ <<>> \in DOMAIN h.tree
  BY DEF HostOK
<1>1. CASE path \in DOMAIN h.tree
  <2> DEFINE n == h.tree[path]
             old == h.inodes[n]
             file == [old EXCEPT !.cells = cells]
             inodes == [h.inodes EXCEPT ![n] = file]
  <2>1. WriteTo(h, path, cells) = [h EXCEPT !.inodes = inodes]
    BY <1>1 DEF WriteTo
  <2>2. WriteTo(h, path, cells) = [tree |-> h.tree, inodes |-> inodes]
    <3> HIDE DEF inodes
    <3> QED
      BY <1>0, <2>1
  <2>3. n \in 1 .. Len(h.inodes) /\ old \in InodeType
    BY <1>0, <1>1
  <2>4. file \in InodeType /\ file.cells = cells
    BY <2>3 DEF InodeType
  <2> HIDE DEF file, n
  <2>5. /\ inodes \in Seq(InodeType) /\ Len(inodes) = Len(h.inodes) /\ inodes[n] = file
        /\ \A i \in 1 .. Len(h.inodes) : i # n => inodes[i] = h.inodes[i]
    BY <1>0, <2>3, <2>4
  <2> HIDE DEF inodes
  <2>6. PICK g : g = WriteTo(h, path, cells)
    OBVIOUS
  <2>7. g.tree = h.tree /\ g.inodes = inodes /\ g = [tree |-> g.tree, inodes |-> g.inodes]
    BY <2>2, <2>6
  <2>8. HostOK(g)
    BY <1>0, <2>5, <2>7 DEF HostOK
  <2>9. DOMAIN g.tree = DOMAIN h.tree \cup {path}
    BY <1>1, <2>7
  <2>10. At(g, path).cells = cells
    BY <2>4, <2>5, <2>7 DEF At, n
  <2>11. \A p \in DOMAIN h.tree : g.tree[p] # g.tree[path] => At(g, p).cells = At(h, p).cells
    BY <1>0, <2>5, <2>7 DEF At, n
  <2> QED
    BY <1>1, <2>6, <2>7, <2>8, <2>9, <2>10, <2>11 DEF Writes
<1>2. CASE path \notin DOMAIN h.tree
  <2> DEFINE n == Len(h.inodes) + 1
             tree == Put(h.tree, path, n)
             inodes == Append(h.inodes, File(cells))
  <2>1. WriteTo(h, path, cells) = [tree |-> tree, inodes |-> inodes]
    BY <1>2 DEF WriteTo
  <2>2. File(cells) \in InodeType /\ File(cells).cells = cells
    BY DEF File, InodeType
  <2>3. /\ inodes \in Seq(InodeType) /\ Len(inodes) = n /\ inodes[n] = File(cells)
        /\ \A i \in 1 .. Len(h.inodes) : inodes[i] = h.inodes[i]
    <3> HIDE DEF tree
    <3> QED
      BY <1>0, <2>2, AppendProperties
  <2>4. /\ DOMAIN tree = DOMAIN h.tree \cup {path} /\ tree[path] = n
        /\ \A p \in DOMAIN h.tree : tree[p] = h.tree[p]
        /\ tree = [p \in DOMAIN tree |-> tree[p]]
    BY <1>2 DEF Put
  <2> HIDE DEF tree, inodes
  <2>5. n \in Nat /\ \A p \in DOMAIN h.tree : h.tree[p] \in 1 .. n /\ h.tree[p] # n
    BY <1>0
  <2>6. tree \in [DOMAIN tree -> 1 .. n]
    <3>1. \A p \in DOMAIN tree : tree[p] \in 1 .. n
      BY <1>0, <2>4, <2>5
    <3> QED
      BY <2>4, <3>1
  <2>7. PICK g : g = WriteTo(h, path, cells)
    OBVIOUS
  <2>8. g.tree = tree /\ g.inodes = inodes /\ g = [tree |-> g.tree, inodes |-> g.inodes]
    BY <2>1, <2>7
  <2>9. HostOK(g)
    BY <1>0, <2>3, <2>4, <2>6, <2>8 DEF HostOK
  <2>10. At(g, path).cells = cells
    BY <2>2, <2>3, <2>4, <2>8 DEF At
  <2>11. \A p \in DOMAIN h.tree : g.tree[p] # g.tree[path] /\ At(g, p).cells = At(h, p).cells
    BY <1>0, <2>3, <2>4, <2>5, <2>8 DEF At
  <2> QED
    BY <2>4, <2>7, <2>8, <2>9, <2>10, <2>11 DEF Writes
<1> QED
  BY <1>1, <1>2

LEMMA SetModeKeepsCells ==
  ASSUME NEW h, HostOK(h), NEW path \in DOMAIN h.tree, NEW o
  PROVE  SameCells(h, SetMode(h, path, o))
<1>0. /\ h = [tree |-> h.tree, inodes |-> h.inodes]
      /\ h.inodes \in Seq(InodeType) /\ Len(h.inodes) \in Nat
      /\ h.tree \in [DOMAIN h.tree -> 1 .. Len(h.inodes)]
      /\ DOMAIN h.tree \subseteq Paths /\ <<>> \in DOMAIN h.tree
  BY DEF HostOK
<1>1. CASE ~opt.mode
  BY <1>1 DEF SetMode, SameCells
<1>2. CASE opt.mode
  <2>0. PICK b \in BOOLEAN : b = (o \in disk.locked)
    <3>1. (o \in disk.locked) \in BOOLEAN
      OBVIOUS
    <3> WITNESS (o \in disk.locked) \in BOOLEAN
    <3> QED
      OBVIOUS
  <2> DEFINE n == h.tree[path]
             old == h.inodes[n]
             file == [old EXCEPT !.locked = b]
             inodes == [h.inodes EXCEPT ![n] = file]
  <2>1. SetMode(h, path, o) = [h EXCEPT !.inodes = inodes]
    BY <1>2, <2>0 DEF SetMode
  <2>2. SetMode(h, path, o) = [tree |-> h.tree, inodes |-> inodes]
    <3> HIDE DEF inodes
    <3> QED
      BY <1>0, <2>1
  <2>3. n \in 1 .. Len(h.inodes) /\ old \in InodeType
    BY <1>0
  <2>4. file \in InodeType /\ file.cells = old.cells
    BY <2>3 DEF InodeType
  <2> HIDE DEF file, n
  <2>5. /\ inodes \in Seq(InodeType) /\ Len(inodes) = Len(h.inodes)
        /\ \A i \in 1 .. Len(h.inodes) : inodes[i].cells = h.inodes[i].cells
    BY <1>0, <2>3, <2>4
  <2> HIDE DEF inodes
  <2>6. PICK g : g = SetMode(h, path, o)
    OBVIOUS
  <2>7. g.tree = h.tree /\ g.inodes = inodes /\ g = [tree |-> g.tree, inodes |-> g.inodes]
    BY <2>2, <2>6
  <2>8. HostOK(g)
    BY <1>0, <2>5, <2>7 DEF HostOK
  <2>9. \A p \in DOMAIN h.tree : At(g, p).cells = At(h, p).cells
    BY <1>0, <2>5, <2>7 DEF At
  <2> QED
    BY <2>6, <2>7, <2>8, <2>9 DEF SameCells
<1> QED
  BY <1>1, <1>2, CommandLinesAssumption

-----------------------------------------------------------------------------
\* What stands when the host grows or a file is written.

LEMMA GrowthStands ==
  ASSUME NEW h, NEW g, NEW w, NEW fs, NEW but, HostOK(h), Grows(h, g), TreeStands(h, w, fs, but)
  PROVE  TreeStands(g, w, fs, but)
<1>0. /\ \A p \in DOMAIN h.tree : h.tree[p] \in 1 .. Len(h.inodes)
      /\ \A p \in DOMAIN h.tree : p \in DOMAIN g.tree /\ At(g, p) = At(h, p)
  BY DEF HostOK, Grows, At
<1>1. NamesApart(g, w)
  <2> SUFFICES ASSUME NEW p \in DOMAIN g.tree, NEW q \in DOMAIN g.tree, p # q, g.tree[p] = g.tree[q]
               PROVE  Lookup(p) = Lookup(q) /\ Lookup(p) \in DOMAIN w
    BY DEF NamesApart
  <2>1. p \in DOMAIN h.tree <=> q \in DOMAIN h.tree
    <3>1. Len(h.inodes) \in Nat /\ g.tree[p] \in Nat
      BY DEF HostOK, Grows
    <3>2. \A x \in DOMAIN h.tree, y \in DOMAIN g.tree \ DOMAIN h.tree : g.tree[x] # g.tree[y]
      BY <1>0, <3>1 DEF Grows, HostOK
    <3> QED
      BY <3>2
  <2>2. p \in DOMAIN h.tree /\ q \in DOMAIN h.tree /\ h.tree[p] = h.tree[q]
    BY <2>1 DEF Grows
  <2> QED
    BY <2>2 DEF TreeStands, NamesApart
<1>2. FirstsStand(g, w)
  BY <1>0 DEF TreeStands, FirstsStand
<1>3. DigestsStand(g, fs, but)
  BY <1>0 DEF TreeStands, DigestsStand
<1> QED
  BY <1>1, <1>2, <1>3 DEF TreeStands

\* Writing a file leaves every other name alone, unless it is a name of an
\* object written before.
LEMMA WritingStands ==
  ASSUME NEW h, NEW g, NEW w, NEW fs, NEW path, NEW cells, HostOK(h), Writes(h, g, path, cells),
         TreeStands(h, w, fs, path),
         Lookup(path) \in DOMAIN w => disk.kind[Lookup(path)] # "file"
  PROVE  TreeStands(g, w, fs, path)
<1>1. Lookup(path) \notin DOMAIN w
  BY DEF TreeStands, FirstsStand
<1>2. \A p \in DOMAIN h.tree : p # path => g.tree[p] # g.tree[path]
  <2> SUFFICES ASSUME NEW p \in DOMAIN h.tree, p # path, g.tree[p] = g.tree[path] PROVE FALSE
    OBVIOUS
  <2>1. path \in DOMAIN h.tree /\ h.tree[p] = h.tree[path]
    BY DEF Writes
  <2> QED
    BY <1>1, <2>1 DEF TreeStands, NamesApart
<1>3. \A p \in DOMAIN h.tree : p # path => p \in DOMAIN g.tree /\ At(g, p).cells = At(h, p).cells
  BY <1>2 DEF Writes
<1>4. NamesApart(g, w)
  <2> SUFFICES ASSUME NEW p \in DOMAIN g.tree, NEW q \in DOMAIN g.tree, p # q, g.tree[p] = g.tree[q]
               PROVE  Lookup(p) = Lookup(q) /\ Lookup(p) \in DOMAIN w
    BY DEF NamesApart
  <2>1. p # path /\ q # path
    BY <1>2 DEF Writes
  <2>2. p \in DOMAIN h.tree /\ q \in DOMAIN h.tree /\ h.tree[p] = h.tree[q]
    BY <2>1 DEF Writes
  <2> QED
    BY <2>2 DEF TreeStands, NamesApart
<1>5. FirstsStand(g, w)
  <2> SUFFICES ASSUME NEW o \in DOMAIN w
               PROVE  /\ disk.kind[o] = "file" /\ Lookup(w[o].path) = o
                      /\ w[o].path \in DOMAIN g.tree /\ At(g, w[o].path).cells = w[o].cells
    BY DEF FirstsStand
  <2>1. /\ disk.kind[o] = "file" /\ Lookup(w[o].path) = o
        /\ w[o].path \in DOMAIN h.tree /\ At(h, w[o].path).cells = w[o].cells
    BY DEF TreeStands, FirstsStand
  <2>2. w[o].path # path
    BY <1>1, <2>1
  <2> QED
    BY <1>3, <2>1, <2>2
<1>6. DigestsStand(g, fs, path)
  <2> SUFFICES ASSUME NEW i \in DOMAIN fs, fs[i].digest # {}
               PROVE  /\ fs[i].path # <<>> /\ fs[i].path \in DOMAIN g.tree
                      /\ fs[i].path # path /\ OnlyOnce(fs, i) => At(g, fs[i].path).cells \in fs[i].digest
    BY DEF DigestsStand
  <2>1. /\ fs[i].path # <<>> /\ fs[i].path \in DOMAIN h.tree
        /\ fs[i].path # path /\ OnlyOnce(fs, i) => At(h, fs[i].path).cells \in fs[i].digest
    BY DEF TreeStands, DigestsStand
  <2>2. fs[i].path \in DOMAIN g.tree
    BY <2>1 DEF Writes
  <2> QED
    BY <1>3, <2>1, <2>2
<1> QED
  BY <1>4, <1>5, <1>6 DEF TreeStands

LEMMA ModesStand ==
  ASSUME NEW h, NEW g, NEW w, NEW fs, NEW but, SameCells(h, g), TreeStands(h, w, fs, but)
  PROVE  TreeStands(g, w, fs, but)
BY DEF SameCells, TreeStands, NamesApart, FirstsStand, DigestsStand

\* A new line: of a path nothing is said about yet, or of what is under it.
LEMMA LineStands ==
  ASSUME NEW h, NEW w, NEW fs \in Seq(RecordType), NEW r \in RecordType,
         TreeStands(h, w, fs, r.path),
         r.digest # {} => /\ r.path # <<>> /\ r.path \in DOMAIN h.tree
                          /\ At(h, r.path).cells \in r.digest
  PROVE  TreeStands(h, w, Append(fs, r), <<>>)
<1> DEFINE more == Append(fs, r)
           n == Len(fs) + 1
<1>1. /\ n \in Nat /\ DOMAIN fs = 1 .. Len(fs) /\ Len(fs) \in Nat
      /\ DOMAIN more = 1 .. n /\ more[n] = r /\ \A i \in 1 .. Len(fs) : more[i] = fs[i]
  OBVIOUS
<1> HIDE DEF more
<1>2. ASSUME NEW i \in DOMAIN more, more[i].digest # {}
      PROVE  /\ more[i].path # <<>> /\ more[i].path \in DOMAIN h.tree
             /\ OnlyOnce(more, i) => At(h, more[i].path).cells \in more[i].digest
  <2>1. CASE i = n
    BY <1>1, <1>2, <2>1
  <2>2. CASE i # n
    <3>1. i \in DOMAIN fs /\ more[i] = fs[i] /\ n \in DOMAIN more /\ n # i
      BY <1>1, <1>2, <2>2
    <3>2. OnlyOnce(more, i) => fs[i].path # r.path /\ OnlyOnce(fs, i)
      <4>1. \A j \in DOMAIN fs : j \in DOMAIN more /\ more[j] = fs[j]
        BY <1>1
      <4> QED
        BY <1>1, <3>1, <4>1 DEF OnlyOnce
    <3>3. fs[i].digest # {}
      BY <1>2, <3>1
    <3> QED
      BY <3>1, <3>2, <3>3 DEF TreeStands, DigestsStand
  <2> QED
    BY <2>1, <2>2
<1>3. DigestsStand(h, more, <<>>)
  BY <1>2 DEF DigestsStand
<1> QED
  BY <1>3 DEF TreeStands, more

LEMMA LineTells ==
  ASSUME NEW w, NEW fs \in Seq(RecordType), NEW r \in RecordType, LinesTell(fs, w), Tells(r),
         Clean(fs) /\ r.errors = 0 /\ ~r.failed /\ disk.kind[r.object] = "file" =>
           Whole(r.object, r.digest)
  PROVE  LinesTell(Append(fs, r), w)
<1> DEFINE more == Append(fs, r)
           n == Len(fs) + 1
<1>1. /\ n \in Nat /\ DOMAIN fs = 1 .. Len(fs) /\ Len(fs) \in Nat
      /\ DOMAIN more = 1 .. n /\ more[n] = r /\ \A i \in 1 .. Len(fs) : more[i] = fs[i]
  OBVIOUS
<1> HIDE DEF more
<1>2. \A i \in DOMAIN more : i = n \/ (i \in DOMAIN fs /\ more[i] = fs[i])
  BY <1>1
<1>3. \A i \in DOMAIN more : Tells(more[i])
  BY <1>1, <1>2 DEF LinesTell
<1>4. Clean(more) => Clean(fs) /\ r.errors = 0
  <2>1. n \in DOMAIN more /\ \A i \in DOMAIN fs : i \in DOMAIN more /\ more[i] = fs[i]
    BY <1>1
  <2> QED
    BY <1>1, <2>1 DEF Clean
<1>5. ASSUME Clean(more), NEW i \in DOMAIN more, ~more[i].failed, disk.kind[more[i].object] = "file"
      PROVE  Whole(more[i].object, more[i].digest)
  <2>1. CASE i = n
    BY <1>1, <1>4, <1>5, <2>1
  <2>2. CASE i # n
    BY <1>2, <1>4, <1>5, <2>2 DEF LinesTell
  <2> QED
    BY <2>1, <2>2
<1>6. LinesTell(more, w)
  BY <1>3, <1>4, <1>5 DEF LinesTell
<1> QED
  BY <1>6 DEF more

-----------------------------------------------------------------------------
\* The dataset does not change.

LEMMA FactsStay ==
  ASSUME UNCHANGED source
  PROVE  /\ \A p : Lookup(p)' = Lookup(p)
         /\ \A o : (Reads(o)' <=> Reads(o)) /\ (Lists(o)' <=> Lists(o)) /\ (Gets(o)' <=> Gets(o))
         /\ \A o : Blocks(o)' = Blocks(o) /\ Lost(o)' = Lost(o)
<1>1. disk' = disk
  BY DEF source
<1>2. \A o, n : Child(o, n)' = Child(o, n)
  BY <1>1 DEF Child, Lists, Gets
<1>3. \A p : Lookup(p)' = Lookup(p)
  BY <1>1, <1>2 DEF Lookup
<1> QED
  BY <1>1, <1>3 DEF Reads, Lists, Gets, Spill, Blocks, Lost

LEMMA StandsNext ==
  ASSUME UNCHANGED source,
         opt.command = "extract" /\ phase' # "ended" =>
           TreeStands(out', written', files', copy'.entry.path)
  PROVE  HostStands'
<1>1. disk' = disk /\ opt' = opt
  BY DEF source
<1> QED
  BY <1>1, FactsStay DEF HostStands, TreeStands, NamesApart, FirstsStand, DigestsStand, At, OnlyOnce

LEMMA TellsNext ==
  ASSUME UNCHANGED source, opt.command = "extract" => LinesTell(files', written')
  PROVE  RecordsTell'
<1>1. disk' = disk /\ opt' = opt
  BY DEF source
<1> QED
  BY <1>1, FactsStay DEF RecordsTell, LinesTell, Clean, Tells, Placed, Whole

LEMMA ManifestNext ==
  ASSUME UNCHANGED source,
         opt.command = "extract" => DigestsStand(out', files', copy'.entry.path)
  PROVE  ManifestTells'
<1>1. opt' = opt
  BY DEF source
<1> QED
  BY <1>1 DEF ManifestTells, DigestsStand, OnlyOnce, At, Overwritten

LEMMA CopyNext ==
  ASSUME UNCHANGED source, phase' = "copy" => CopyOK(copy', out', written')
  PROVE  CopyIsPlaced'
<1>1. disk' = disk
  BY DEF source
<1>2. ASSUME NEW c, NEW h, NEW w
      PROVE  CopyOK(c, h, w)' <=> CopyOK(c, h, w)
  <2>1. /\ (Lookup(c.entry.path)' = Lookup(c.entry.path)) /\ (Blocks(c.entry.object)' = Blocks(c.entry.object))
        /\ (Reads(c.entry.object)' <=> Reads(c.entry.object))
    BY FactsStay
  <2> QED
    BY <1>1, <2>1 DEF CopyOK, Placed
<1> QED
  BY <1>2 DEF CopyIsPlaced

LEMMA EntriesNext ==
  ASSUME UNCHANGED source,
         \A i \in DOMAIN roots' : Placed(roots'[i]),
         \A i \in DOMAIN listing' :
           Placed(listing'[i]) /\ (listing'[i].known => Reads(listing'[i].object)),
         \A i \in DOMAIN stack' : Opened(stack'[i])
  PROVE  EntriesArePlaced'
<1>1. disk' = disk
  BY DEF source
<1> QED
  BY <1>1, FactsStay DEF EntriesArePlaced, Placed, Opened

\* A step that writes nothing.
LEMMA QuietStep ==
  ASSUME IInv, UNCHANGED <<source, out, copy, ledger>>, phase \notin {"ended", "copy"}, phase' # "copy"
  PROVE  HostStands' /\ ManifestTells' /\ RecordsTell' /\ CopyIsPlaced'
<1>1. out' = out /\ copy' = copy /\ written' = written /\ files' = files /\ UNCHANGED source
  BY DEF ledger
<1>2. opt.command = "extract" => TreeStands(out', written', files', copy'.entry.path)
  BY <1>1 DEF IInv, HostStands
<1>3. opt.command = "extract" => LinesTell(files', written')
  BY <1>1 DEF IInv, RecordsTell
<1>4. HostStands'
  BY <1>1, <1>2, StandsNext
<1>5. ManifestTells'
  BY <1>1, <1>2, ManifestNext DEF TreeStands
<1>6. RecordsTell'
  BY <1>1, <1>3, TellsNext
<1> QED
  BY <1>4, <1>5, <1>6 DEF CopyIsPlaced

LEMMA LookupIsAPlace ==
  ASSUME DatasetOK, NEW path \in Paths
  PROVE  Lookup(path) \in Places
<1>1. Len(path) \in 0 .. Len(path)
  BY DEF Paths
<1> QED
  BY <1>1, LookupIsARecursion DEF IsStart

\* An entry of a directory is what its name leads to.
LEMMA ChildOfEntry ==
  ASSUME DatasetOK, NEW d \in Objects, Lists(d), NEW j \in DOMAIN disk.dirs[d]
  PROVE  Child(d, disk.dirs[d][j].name) = disk.dirs[d][j].object
<1> DEFINE of == disk.dirs[d]
           n == of[j].name
           exact == {i \in DOMAIN of : of[i].name = n}
<1>1. of \in Seq(DirEntries) /\ DOMAIN of \subseteq Nat
  BY DatasetsAssumption DEF DatasetOK, DatasetType
<1>2. exact = {j}
  BY DatasetsAssumption DEF DatasetOK, NamesOnce
<1>3. d # Nowhere
  BY DEF Objects, Nowhere
<1>4. (CHOOSE i \in exact : \A k \in exact : i <= k) = j
  <2>1. j <= j
    BY <1>1
  <2> HIDE DEF exact
  <2> QED
    BY <1>2, <2>1
<1>5. Child(d, n) = of[CHOOSE i \in exact : \A k \in exact : i <= k].object
  BY <1>2, <1>3 DEF Child
<1> QED
  BY <1>4, <1>5

LEMMA NotZero ==
  ASSUME UNCHANGED source, opt.command # "extract" \/ exit' # "0"
  PROVE  ZeroIsWhole'
BY DEF source, ZeroIsWhole, Extracted

LEMMA NotObjects ==
  ASSUME UNCHANGED source, opt.command # "objects"
  PROVE  ObjectsSoFar'
BY DEF source, ObjectsSoFar

-----------------------------------------------------------------------------
\* The steps that write nothing.

LEMMA InterruptKeepsInv ==
  ASSUME IInv, Interrupt
  PROVE  IInv'
<1>1. /\ phase # "ended" /\ opt.command = "extract" /\ flag' = TRUE
      /\ UNCHANGED <<source, phase, roots, walk, listing, out, copy, ledger, slot, cut, exit>>
  BY DEF Interrupt
<1>2. /\ disk' = disk /\ opt' = opt /\ UNCHANGED source /\ stack' = stack /\ walked' = walked
      /\ written' = written /\ files' = files /\ phase' = phase /\ out' = out /\ copy' = copy
      /\ roots' = roots /\ listing' = listing /\ slot' = slot /\ cut' = cut /\ exit' = exit
  BY <1>1 DEF walk, ledger, source
<1>3. TypeOK' /\ PhasesFollow'
  BY <1>1, <1>2 DEF IInv, TypeOK, PhasesFollow, DatasetOK
<1>4. EntriesArePlaced'
  BY <1>2, EntriesNext DEF IInv, EntriesArePlaced
<1>5. CopyIsPlaced'
  BY <1>2, CopyNext DEF IInv, CopyIsPlaced
<1>6. TreeStands(out', written', files', copy'.entry.path) /\ LinesTell(files', written')
  BY <1>1, <1>2 DEF IInv, HostStands, RecordsTell
<1>7. HostStands' /\ ManifestTells' /\ RecordsTell'
  BY <1>2, <1>6, StandsNext, ManifestNext, TellsNext DEF TreeStands
<1>8. ZeroIsWhole' /\ ObjectsSoFar'
  <2>1. exit' # "0"
    BY <1>1, <1>2 DEF IInv, PhasesFollow
  <2> QED
    BY <1>1, <1>2, <2>1, NotZero, NotObjects
<1> QED
  BY <1>3, <1>4, <1>5, <1>7, <1>8 DEF IInv

LEMMA OpenFailsKeepsInv ==
  ASSUME IInv, OpenFails
  PROVE  IInv'
<1>1. /\ phase = "open" /\ phase' = "ended" /\ exit' \in {"USAGE", "UNRECOVERABLE", "MEDIUM", "REFUSED"}
      /\ UNCHANGED <<source, flag, roots, walk, listing, out, copy, ledger, slot, cut>>
  BY DEF OpenFails, Ends
<1>2. /\ disk' = disk /\ opt' = opt /\ UNCHANGED source /\ stack' = stack /\ walked' = walked
      /\ written' = written /\ files' = files /\ out' = out /\ copy' = copy
      /\ roots' = roots /\ listing' = listing /\ slot' = slot /\ cut' = cut /\ flag' = flag
  BY <1>1 DEF walk, ledger, source
<1>3. TypeOK' /\ PhasesFollow'
  BY <1>1, <1>2 DEF IInv, TypeOK, PhasesFollow, DatasetOK, Exits
<1>4. EntriesArePlaced'
  BY <1>2, EntriesNext DEF IInv, EntriesArePlaced
<1>5. HostStands' /\ ManifestTells' /\ RecordsTell' /\ CopyIsPlaced'
  BY <1>1, <1>2, QuietStep
<1>6. ZeroIsWhole'
  BY <1>1, <1>2, NotZero
<1>7. ObjectsSoFar'
  BY <1>1, <1>2 DEF ObjectsSoFar, IInv, PhasesFollow
<1> QED
  BY <1>3, <1>4, <1>5, <1>6, <1>7 DEF IInv

LEMMA OpenKeepsInv ==
  ASSUME IInv, Open
  PROVE  IInv'
<1>1. /\ phase = "open" /\ \A i \in DOMAIN opt.paths : Lookup(opt.paths[i]) # Nowhere
      /\ UNCHANGED <<source, flag, walk, listing, out, copy, ledger, slot, cut, exit>>
  BY DEF Open
<1>2. /\ disk' = disk /\ opt' = opt /\ UNCHANGED source /\ stack' = stack /\ walked' = walked
      /\ written' = written /\ files' = files /\ out' = out /\ copy' = copy /\ exit' = exit
      /\ listing' = listing /\ slot' = slot /\ cut' = cut /\ flag' = flag
  BY <1>1 DEF walk, ledger, source
<1>3. /\ phase' = IF opt.command = "objects" THEN "objects" ELSE "roots"
      /\ opt \in OptionsType /\ DatasetOK /\ slot = 1 /\ files = <<>> /\ exit = "running"
  BY <1>1, CommandLinesAssumption DEF Open, IInv, TypeOK, PhasesFollow
<1>4. roots' \in Seq(EntryType) /\ \A i \in DOMAIN roots' : Placed(roots'[i])
  <2>1. CASE roots' = roots
    BY <2>1 DEF IInv, TypeOK, EntriesArePlaced
  <2>2. CASE roots' = <<Entry(<<>>, disk.root, TRUE)>>
    <3>1. Entry(<<>>, disk.root, TRUE) \in EntryType /\ Placed(Entry(<<>>, disk.root, TRUE))
      <4>1. disk.root \in Objects /\ <<>> \in Paths
        BY <1>3, DatasetsAssumption DEF DatasetOK, DatasetType, Paths
      <4> QED
        BY <1>3, <4>1, LookupOfRoot DEF Entry, EntryType, Placed
    <3>2. PICK e : e = Entry(<<>>, disk.root, TRUE)
      OBVIOUS
    <3>3. roots' = <<e>> /\ e \in EntryType /\ Placed(e)
      BY <2>2, <3>1, <3>2
    <3>4. roots' \in Seq(EntryType) /\ DOMAIN roots' = 1 .. 1 /\ roots'[1] = e
      BY <3>3
    <3>5. \A i \in 1 .. 1 : i = 1
      OBVIOUS
    <3> QED
      BY <3>3, <3>4, <3>5
  <2>3. CASE roots' = [i \in DOMAIN opt.paths |-> Entry(opt.paths[i], Lookup(opt.paths[i]), TRUE)]
    <3>1. opt.paths \in Seq(Paths)
      BY <1>3 DEF OptionsType
    <3>2. \A i \in DOMAIN opt.paths :
            /\ Entry(opt.paths[i], Lookup(opt.paths[i]), TRUE) \in EntryType
            /\ Placed(Entry(opt.paths[i], Lookup(opt.paths[i]), TRUE))
      <4> SUFFICES ASSUME NEW i \in DOMAIN opt.paths
                   PROVE  /\ Entry(opt.paths[i], Lookup(opt.paths[i]), TRUE) \in EntryType
                          /\ Placed(Entry(opt.paths[i], Lookup(opt.paths[i]), TRUE))
        OBVIOUS
      <4>1. PICK q : q = opt.paths[i]
        OBVIOUS
      <4>2. q \in Paths /\ Lookup(q) # Nowhere
        BY <1>1, <3>1, <4>1
      <4>3. Lookup(q) \in Objects
        BY <1>3, <4>2, LookupIsAPlace DEF Places
      <4> QED
        BY <4>1, <4>2, <4>3 DEF Entry, EntryType, Placed
    <3>3. DOMAIN opt.paths = 1 .. Len(opt.paths) /\ Len(opt.paths) \in Nat
      BY <3>1
    <3>4. DOMAIN roots' = DOMAIN opt.paths /\ \A i \in DOMAIN roots' : roots'[i] = Entry(opt.paths[i], Lookup(opt.paths[i]), TRUE)
      BY <2>3
    <3>5. roots' \in [1 .. Len(opt.paths) -> EntryType]
      BY <2>3, <3>2, <3>3
    <3>6. roots' \in Seq(EntryType)
      BY <3>3, <3>5
    <3> QED
      BY <3>2, <3>4, <3>6
  <2> QED
    BY <2>1, <2>2, <2>3 DEF Open
<1>5. TypeOK'
  BY <1>2, <1>3, <1>4 DEF IInv, TypeOK, DatasetOK
<1>6. PhasesFollow'
  BY <1>1, <1>2, <1>3 DEF IInv, PhasesFollow
<1>7. EntriesArePlaced'
  BY <1>2, <1>4, EntriesNext DEF IInv, EntriesArePlaced
<1>8. HostStands' /\ ManifestTells' /\ RecordsTell' /\ CopyIsPlaced'
  BY <1>1, <1>2, <1>3, QuietStep
<1>9. ZeroIsWhole'
  BY <1>2, <1>3, NotZero
<1>10. ObjectsSoFar'
  <2>1. 1 \in Objects /\ NObjects \in Nat /\ \A o \in Objects : ~ (o < 1)
    BY NamesAssumption DEF Objects
  <2>2. disk.kind[1] # "inside"
    <3>1. ~ \E o \in Objects : Owns(disk, o, 1)
      BY <1>3, DatasetsAssumption DEF DatasetOK, DatasetType, Owns, Objects
    <3> QED
      BY <1>3, <2>1, <3>1, DatasetsAssumption DEF DatasetOK, SlotsOwned
  <2> QED
    BY <1>2, <1>3, <2>1, <2>2 DEF ObjectsSoFar, There
<1> QED
  BY <1>5, <1>6, <1>7, <1>8, <1>9, <1>10 DEF IInv

\* What a directory that is walked adds.
LEMMA EnteredIsPlaced ==
  ASSUME DatasetOK, NEW path \in Paths, NEW o \in Objects, Lookup(path) = o, NEW depth \in Nat
  PROVE  /\ Entered(path, o, depth) \in Seq(FrameType)
         /\ \A i \in DOMAIN Entered(path, o, depth) : Opened(Entered(path, o, depth)[i])
         /\ NotRead(path, o) \in Seq(EntryType)
         /\ \A i \in DOMAIN NotRead(path, o) :
              Placed(NotRead(path, o)[i]) /\ ~NotRead(path, o)[i].known
<1>1. PICK f : f = Frame(path, o, depth)
  OBVIOUS
<1>2. f \in FrameType
  BY <1>1, DatasetsAssumption DEF Frame, FrameType, DatasetOK, DatasetType
<1>3. o # Nowhere
  BY DEF Objects, Nowhere
<1>4. Lists(o) => Opened(f)
  BY <1>1, <1>3 DEF Frame, Opened
<1>5. PICK e : e = Entry(path, o, FALSE)
  OBVIOUS
<1>6. e \in EntryType /\ Placed(e) /\ ~e.known
  BY <1>5 DEF Entry, EntryType, Placed
<1>7. CASE Lists(o)
  <2>1. Entered(path, o, depth) = <<f>> /\ NotRead(path, o) = <<>>
    BY <1>1, <1>7 DEF Entered, NotRead
  <2> QED
    BY <1>2, <1>4, <1>7, <2>1
<1>8. CASE ~Lists(o)
  <2>1. Entered(path, o, depth) = <<>> /\ NotRead(path, o) = <<e>>
    BY <1>5, <1>8 DEF Entered, NotRead
  <2> QED
    BY <1>6, <2>1
<1> QED
  BY <1>7, <1>8

LEMMA TakeRootKeepsInv ==
  ASSUME IInv, TakeRoot
  PROVE  IInv'
<1>1. /\ phase = "roots" /\ roots # <<>> /\ phase' \in {"walk", "entry"}
      /\ UNCHANGED <<source, flag, roots, out, copy, ledger, slot, cut, exit>>
  BY DEF TakeRoot
<1>2. /\ disk' = disk /\ opt' = opt /\ UNCHANGED source /\ flag' = flag /\ roots' = roots
      /\ written' = written /\ files' = files /\ out' = out /\ copy' = copy /\ exit' = exit
      /\ slot' = slot /\ cut' = cut
  BY <1>1 DEF ledger, source
<1>3. /\ DatasetOK /\ opt.command \in {"list", "extract"} /\ exit = "running"
  <2>1. opt \in OptionsType
    BY CommandLinesAssumption DEF IInv, TypeOK
  <2> QED
    BY <1>1, <2>1 DEF IInv, TypeOK, PhasesFollow, OptionsType, Commands
<1>4. PICK r : r = Head(roots)
  OBVIOUS
<1>5. r \in EntryType /\ Placed(r)
  <2>1. r = roots[1] /\ 1 \in DOMAIN roots
    BY <1>1, <1>4 DEF IInv, TypeOK
  <2> QED
    BY <2>1 DEF IInv, TypeOK, EntriesArePlaced
<1>6. r.path \in Paths /\ r.object \in Objects /\ Lookup(r.path) = r.object
  BY <1>5 DEF EntryType, Placed
<1>7. /\ stack' \in Seq(FrameType) /\ walked' \subseteq Objects /\ listing' \in Seq(EntryType)
      /\ \A i \in DOMAIN listing' : Placed(listing'[i]) /\ (listing'[i].known => Reads(listing'[i].object))
      /\ \A i \in DOMAIN stack' : Opened(stack'[i])
      /\ phase' = "entry" => listing' # <<>> /\ opt.command = "extract"
  <2>1. CASE /\ stack' = Entered(r.path, r.object, 0) /\ listing' = NotRead(r.path, r.object)
             /\ walked' = {r.object} /\ phase' = "walk"
    <3>1. 0 \in Nat
      OBVIOUS
    <3> QED
      BY <1>3, <1>6, <2>1, <3>1, EnteredIsPlaced
  <2>2. CASE /\ listing' = <<Entry(r.path, r.object, Reads(r.object))>>
             /\ phase' = "entry" /\ UNCHANGED walk /\ opt.command # "list"
    <3>1. PICK b \in BOOLEAN : b = Reads(r.object)
      <4>1. Reads(r.object) \in BOOLEAN
        BY DEF Reads
      <4> WITNESS Reads(r.object) \in BOOLEAN
      <4> QED
        OBVIOUS
    <3>2. PICK e : e = Entry(r.path, r.object, b)
      OBVIOUS
    <3>3. e \in EntryType /\ Placed(e) /\ (e.known => Reads(e.object))
      BY <1>6, <3>1, <3>2 DEF Entry, EntryType, Placed
    <3>4. listing' = <<e>>
      BY <2>2, <3>1, <3>2
    <3> QED
      BY <1>3, <2>2, <3>3, <3>4 DEF walk, IInv, TypeOK, EntriesArePlaced
  <2> QED
    BY <1>4, <2>1, <2>2 DEF TakeRoot
<1>8. TypeOK' /\ PhasesFollow'
  BY <1>1, <1>2, <1>3, <1>7 DEF IInv, TypeOK, PhasesFollow, DatasetOK
<1>9. EntriesArePlaced'
  BY <1>2, <1>7, EntriesNext DEF IInv, EntriesArePlaced
<1>10. HostStands' /\ ManifestTells' /\ RecordsTell' /\ CopyIsPlaced'
  BY <1>1, <1>2, QuietStep
<1>11. ZeroIsWhole' /\ ObjectsSoFar'
  BY <1>2, <1>3, NotZero, NotObjects
<1> QED
  BY <1>8, <1>9, <1>10, <1>11 DEF IInv

LEMMA WalkEntryKeepsInv ==
  ASSUME IInv, WalkEntry
  PROVE  IInv'
<1>1. /\ phase = "walk" /\ phase' = "walk" /\ stack # <<>> /\ stack[Len(stack)].rest # <<>>
      /\ UNCHANGED <<source, flag, phase, roots, out, copy, ledger, slot, cut, exit>>
  BY DEF WalkEntry
<1>2. /\ disk' = disk /\ opt' = opt /\ UNCHANGED source /\ flag' = flag /\ roots' = roots
      /\ written' = written /\ files' = files /\ out' = out /\ copy' = copy /\ exit' = exit
      /\ slot' = slot /\ cut' = cut
  BY <1>1 DEF ledger, source
<1>3. /\ DatasetOK /\ opt.command # "objects" /\ exit = "running"
  BY <1>1 DEF IInv, TypeOK, PhasesFollow
<1>4. PICK n, top, e, path :
        /\ n = Len(stack) /\ top = stack[n] /\ e = Head(top.rest) /\ path = Append(top.path, e.name)
  OBVIOUS
<1>5. PICK below, met :
        /\ below = [stack EXCEPT ![n].rest = Tail(@)]
        /\ met = Append(listing, Entry(path, e.object, Reads(e.object)))
  OBVIOUS
<1>6. \/ /\ stack' = below \o Entered(path, e.object, top.depth + 1)
         /\ listing' = met \o NotRead(path, e.object)
         /\ walked' = walked \cup {e.object}
      \/ stack' = below /\ listing' = met /\ UNCHANGED walked
  BY <1>4, <1>5 DEF WalkEntry
<1>7. /\ n \in DOMAIN stack /\ top \in FrameType /\ Opened(top) /\ top.rest # <<>>
      /\ stack \in Seq(FrameType) /\ listing \in Seq(EntryType)
  BY <1>1, <1>4 DEF IInv, TypeOK, EntriesArePlaced
<1>8. /\ top.path \in Paths /\ top.rest \in Seq(DirEntries) /\ top.depth + 1 \in Nat
      /\ e = top.rest[1] /\ 1 \in DOMAIN top.rest
  BY <1>4, <1>7 DEF FrameType
<1>9. e \in DirEntries /\ e.name \in Names /\ e.object \in Objects /\ path \in Paths
  <2>1. e \in DirEntries
    BY <1>8
  <2> QED
    BY <1>4, <1>8, <2>1 DEF DirEntries, Paths
<1>10. Lookup(path) = e.object
  <2>1. PICK d : d = Lookup(top.path)
    OBVIOUS
  <2>2. d \in Objects /\ d # Nowhere /\ Lists(d)
    BY <1>3, <1>7, <1>8, <2>1, LookupIsAPlace DEF Opened, Places
  <2>3. PICK j \in DOMAIN disk.dirs[d] : e = disk.dirs[d][j]
    BY <1>7, <1>8, <2>1 DEF Opened
  <2>4. Child(d, e.name) = e.object
    BY <1>3, <2>2, <2>3, ChildOfEntry
  <2>5. Lookup(path) = Below(d, e.name)
    BY <1>3, <1>4, <1>8, <1>9, <2>1, LookupOfEntry
  <2> QED
    BY <2>2, <2>4, <2>5 DEF Below
<1>11. below \in Seq(FrameType) /\ \A i \in DOMAIN below : Opened(below[i])
  <2>1. PICK f : f = [top EXCEPT !.rest = Tail(top.rest)]
    OBVIOUS
  <2>2. f \in FrameType /\ f.path = top.path /\ f.rest = Tail(top.rest)
    <3>1. PICK t : t = Tail(top.rest)
      OBVIOUS
    <3>2. t \in Seq(DirEntries)
      BY <1>7, <1>8, <3>1
    <3>3. f = [top EXCEPT !.rest = t]
      BY <2>1, <3>1
    <3> QED
      BY <1>7, <3>1, <3>2, <3>3 DEF FrameType
  <2>3. Opened(f)
    <3>1. \A k \in DOMAIN Tail(top.rest) : k + 1 \in DOMAIN top.rest /\ Tail(top.rest)[k] = top.rest[k + 1]
      BY <1>7, <1>8
    <3> QED
      BY <1>7, <2>2, <3>1 DEF Opened
  <2>4. below = [stack EXCEPT ![n] = f]
    BY <1>4, <1>5, <1>7, <2>1
  <2> QED
    BY <1>7, <2>2, <2>3, <2>4 DEF IInv, EntriesArePlaced
<1>12. met \in Seq(EntryType)
       /\ \A i \in DOMAIN met : Placed(met[i]) /\ (met[i].known => Reads(met[i].object))
  <2>1. PICK b \in BOOLEAN : b = Reads(e.object)
    <3>1. Reads(e.object) \in BOOLEAN
      BY DEF Reads
    <3> WITNESS Reads(e.object) \in BOOLEAN
    <3> QED
      OBVIOUS
  <2>2. PICK x : x = Entry(path, e.object, b)
    OBVIOUS
  <2>3. x \in EntryType /\ Placed(x) /\ (x.known => Reads(x.object))
    BY <1>9, <1>10, <2>1, <2>2 DEF Entry, EntryType, Placed
  <2>4. met = Append(listing, x)
    BY <1>5, <2>1, <2>2
  <2>5. \A i \in DOMAIN met : (i \in DOMAIN listing /\ met[i] = listing[i]) \/ met[i] = x
    BY <1>7, <2>4
  <2> QED
    BY <1>7, <2>3, <2>4, <2>5 DEF IInv, EntriesArePlaced
<1>13. /\ stack' \in Seq(FrameType) /\ walked' \subseteq Objects /\ listing' \in Seq(EntryType)
       /\ \A i \in DOMAIN listing' : Placed(listing'[i]) /\ (listing'[i].known => Reads(listing'[i].object))
       /\ \A i \in DOMAIN stack' : Opened(stack'[i])
  <2>1. walked \subseteq Objects
    BY DEF IInv, TypeOK
  <2>2. CASE stack' = below /\ listing' = met /\ UNCHANGED walked
    BY <1>11, <1>12, <2>1, <2>2
  <2>3. CASE /\ stack' = below \o Entered(path, e.object, top.depth + 1)
             /\ listing' = met \o NotRead(path, e.object)
             /\ walked' = walked \cup {e.object}
    <3>1. PICK more, lost : more = Entered(path, e.object, top.depth + 1) /\ lost = NotRead(path, e.object)
      OBVIOUS
    <3>2. /\ more \in Seq(FrameType) /\ \A i \in DOMAIN more : Opened(more[i])
          /\ lost \in Seq(EntryType) /\ \A i \in DOMAIN lost : Placed(lost[i]) /\ ~lost[i].known
      BY <1>3, <1>8, <1>9, <1>10, <3>1, EnteredIsPlaced
    <3>3. /\ stack' = below \o more /\ listing' = met \o lost
      BY <2>3, <3>1
    <3>4. stack' \in Seq(FrameType) /\ listing' \in Seq(EntryType)
      BY <1>11, <1>12, <3>2, <3>3
    <3>5. \A i \in DOMAIN stack' : \/ i \in DOMAIN below /\ stack'[i] = below[i]
                                  \/ \E k \in DOMAIN more : stack'[i] = more[k]
      BY <1>11, <3>2, <3>3
    <3>6. \A i \in DOMAIN listing' : \/ i \in DOMAIN met /\ listing'[i] = met[i]
                                    \/ \E k \in DOMAIN lost : listing'[i] = lost[k]
      BY <1>12, <3>2, <3>3
    <3> QED
      BY <1>9, <1>11, <1>12, <2>1, <2>3, <3>2, <3>4, <3>5, <3>6
  <2> QED
    BY <1>6, <2>2, <2>3
<1>14. TypeOK' /\ PhasesFollow'
  BY <1>1, <1>2, <1>3, <1>13 DEF IInv, TypeOK, PhasesFollow, DatasetOK
<1>15. EntriesArePlaced'
  BY <1>2, <1>13, EntriesNext DEF IInv, EntriesArePlaced
<1>16. HostStands' /\ ManifestTells' /\ RecordsTell' /\ CopyIsPlaced'
  BY <1>1, <1>2, QuietStep
<1>17. ZeroIsWhole' /\ ObjectsSoFar'
  BY <1>2, <1>3, NotZero, NotObjects
<1> QED
  BY <1>14, <1>15, <1>16, <1>17 DEF IInv

LEMMA WalkReturnKeepsInv ==
  ASSUME IInv, WalkReturn
  PROVE  IInv'
<1>1. /\ phase = "walk" /\ phase' = "walk" /\ stack # <<>>
      /\ stack' = SubSeq(stack, 1, Len(stack) - 1)
      /\ UNCHANGED <<source, flag, phase, roots, walked, listing, out, copy, ledger, slot, cut, exit>>
  BY DEF WalkReturn
<1>2. /\ disk' = disk /\ opt' = opt /\ UNCHANGED source /\ flag' = flag /\ roots' = roots
      /\ written' = written /\ files' = files /\ out' = out /\ copy' = copy /\ exit' = exit
      /\ slot' = slot /\ cut' = cut /\ walked' = walked /\ listing' = listing
  BY <1>1 DEF ledger, source
<1>3. opt.command # "objects" /\ exit = "running"
  BY <1>1 DEF IInv, TypeOK, PhasesFollow
<1>4. stack' \in Seq(FrameType) /\ \A i \in DOMAIN stack' : i \in DOMAIN stack /\ stack'[i] = stack[i]
  BY <1>1 DEF IInv, TypeOK
<1>5. TypeOK' /\ PhasesFollow'
  BY <1>1, <1>2, <1>3, <1>4 DEF IInv, TypeOK, PhasesFollow, DatasetOK
<1>6. EntriesArePlaced'
  BY <1>2, <1>4, EntriesNext DEF IInv, EntriesArePlaced
<1>7. HostStands' /\ ManifestTells' /\ RecordsTell' /\ CopyIsPlaced'
  BY <1>1, <1>2, QuietStep
<1>8. ZeroIsWhole' /\ ObjectsSoFar'
  BY <1>2, <1>3, NotZero, NotObjects
<1> QED
  BY <1>5, <1>6, <1>7, <1>8 DEF IInv

LEMMA WalkEndsKeepsInv ==
  ASSUME IInv, WalkEnds
  PROVE  IInv'
<1>1. /\ phase = "walk"
      /\ UNCHANGED <<source, flag, roots, walk, listing, out, copy, ledger, slot, cut>>
  BY DEF WalkEnds
<1>2. /\ disk' = disk /\ opt' = opt /\ UNCHANGED source /\ flag' = flag /\ roots' = roots
      /\ written' = written /\ files' = files /\ out' = out /\ copy' = copy /\ stack' = stack
      /\ slot' = slot /\ cut' = cut /\ walked' = walked /\ listing' = listing
  BY <1>1 DEF ledger, source, walk
<1>3. opt.command # "objects" /\ exit = "running"
  BY <1>1 DEF IInv, TypeOK, PhasesFollow
<1>4. \/ opt.command = "extract" /\ phase' = "entries" /\ exit' = exit
      \/ opt.command # "extract" /\ phase' = "ended" /\ exit' \in {"MEDIUM", "PARTIAL", "0"}
  BY DEF WalkEnds, Ends
<1>5. TypeOK' /\ PhasesFollow'
  BY <1>1, <1>2, <1>3, <1>4 DEF IInv, TypeOK, PhasesFollow, DatasetOK, Exits
<1>6. EntriesArePlaced'
  BY <1>2, EntriesNext DEF IInv, EntriesArePlaced
<1>7. HostStands' /\ ManifestTells' /\ RecordsTell' /\ CopyIsPlaced'
  BY <1>1, <1>2, <1>4, QuietStep
<1>8. ZeroIsWhole' /\ ObjectsSoFar'
  BY <1>2, <1>3, <1>4, NotZero, NotObjects
<1> QED
  BY <1>5, <1>6, <1>7, <1>8 DEF IInv

LEMMA EntriesLoopKeepsInv ==
  ASSUME IInv, NextEntry \/ EndEntries
  PROVE  IInv'
<1>1. /\ phase = "entries" /\ phase' \in {"entry", "roots"}
      /\ phase' = "entry" => listing' # <<>> /\ roots' = roots
      /\ (roots' = roots /\ listing' = listing) \/ (roots' = Tail(roots) /\ listing' = <<>>)
      /\ UNCHANGED <<source, flag, walk, out, copy, ledger, slot, cut, exit>>
  BY DEF NextEntry, EndEntries
<1>2. /\ disk' = disk /\ opt' = opt /\ UNCHANGED source /\ flag' = flag /\ exit' = exit
      /\ written' = written /\ files' = files /\ out' = out /\ copy' = copy /\ stack' = stack
      /\ slot' = slot  /\ cut' = cut /\ walked' = walked
  BY <1>1 DEF ledger, source, walk
<1>3. opt.command = "extract" /\ exit = "running"
  BY <1>1 DEF IInv, TypeOK, PhasesFollow
<1>4. /\ roots' \in Seq(EntryType) /\ \A i \in DOMAIN roots' : Placed(roots'[i])
      /\ listing' \in Seq(EntryType)
      /\ \A i \in DOMAIN listing' : Placed(listing'[i]) /\ (listing'[i].known => Reads(listing'[i].object))
  <2>0. IInv
    OBVIOUS
  <2>1. CASE roots' = roots /\ listing' = listing
    BY <2>1 DEF IInv, TypeOK, EntriesArePlaced
  <2>2. CASE roots' = Tail(roots) /\ listing' = <<>>
    <3>1. roots # <<>>
      BY <1>1, <2>0 DEF IInv, PhasesFollow
    <3>2. roots \in Seq(EntryType) /\ \A i \in DOMAIN roots : Placed(roots[i])
      BY DEF IInv, TypeOK, EntriesArePlaced
    <3>3. \A i \in DOMAIN Tail(roots) : i + 1 \in DOMAIN roots /\ Tail(roots)[i] = roots[i + 1]
      BY <3>1, <3>2
    <3> QED
      BY <2>2, <3>1, <3>2, <3>3
  <2> QED
    BY <1>1, <2>1, <2>2
<1>5. TypeOK' /\ PhasesFollow'
  BY <1>1, <1>2, <1>3, <1>4 DEF IInv, TypeOK, PhasesFollow, DatasetOK
<1>6. EntriesArePlaced'
  BY <1>2, <1>4, EntriesNext DEF IInv, EntriesArePlaced
<1>7. HostStands' /\ ManifestTells' /\ RecordsTell' /\ CopyIsPlaced'
  BY <1>1, <1>2, QuietStep
<1>8. ZeroIsWhole' /\ ObjectsSoFar'
  BY <1>2, <1>3, NotZero, NotObjects
<1> QED
  BY <1>5, <1>6, <1>7, <1>8 DEF IInv

LEMMA LastRootKeepsInv ==
  ASSUME IInv, LastRoot
  PROVE  IInv'
<1>1. /\ phase = "roots" /\ phase' = "manifest" /\ cut' = flag
      /\ UNCHANGED <<source, flag, roots, walk, listing, out, copy, ledger, slot, exit>>
  BY DEF LastRoot
<1>2. /\ disk' = disk /\ opt' = opt /\ UNCHANGED source /\ flag' = flag /\ exit' = exit
      /\ written' = written /\ files' = files /\ out' = out /\ copy' = copy /\ stack' = stack
      /\ slot' = slot /\ walked' = walked /\ roots' = roots /\ listing' = listing
  BY <1>1 DEF ledger, source, walk
<1>3. opt.command # "objects" /\ exit = "running"
  BY <1>1 DEF IInv, TypeOK, PhasesFollow
<1>4. TypeOK' /\ PhasesFollow'
  BY <1>1, <1>2, <1>3 DEF IInv, TypeOK, PhasesFollow, DatasetOK
<1>5. EntriesArePlaced'
  BY <1>2, EntriesNext DEF IInv, EntriesArePlaced
<1>6. HostStands' /\ ManifestTells' /\ RecordsTell' /\ CopyIsPlaced'
  BY <1>1, <1>2, QuietStep
<1>7. ZeroIsWhole' /\ ObjectsSoFar'
  BY <1>2, <1>3, NotZero, NotObjects
<1> QED
  BY <1>4, <1>5, <1>6, <1>7 DEF IInv

-----------------------------------------------------------------------------
\* The steps that handle an entry.

LEMMA StandsButFor ==
  ASSUME NEW h, NEW w, NEW fs, NEW but, TreeStands(h, w, fs, <<>>)
  PROVE  TreeStands(h, w, fs, but)
BY DEF TreeStands, DigestsStand

LEMMA NowIsPlaced ==
  ASSUME IInv, phase = "entry"
  PROVE  /\ Now \in EntryType /\ Placed(Now) /\ (Now.known => Reads(Now.object))
         /\ Now.path \in Paths /\ Now.object \in Objects /\ Lookup(Now.path) = Now.object
         /\ Now.known \in BOOLEAN
         /\ listing # <<>> /\ opt.command = "extract" /\ copy.entry.path = <<>>
         /\ TreeStands(out, written, files, <<>>) /\ LinesTell(files, written)
         /\ HostOK(out) /\ files \in Seq(RecordType) /\ DatasetOK
<1>1. /\ listing # <<>> /\ opt.command = "extract" /\ copy = NoCopy /\ listing \in Seq(EntryType)
      /\ HostOK(out) /\ files \in Seq(RecordType) /\ DatasetOK
  BY DEF IInv, TypeOK, PhasesFollow
<1>2. 1 \in DOMAIN listing /\ Now = listing[1]
  BY <1>1 DEF Now
<1>3. Now \in EntryType /\ Placed(Now) /\ (Now.known => Reads(Now.object))
  BY <1>1, <1>2 DEF IInv, EntriesArePlaced
<1>4. copy.entry.path = <<>>
  BY <1>1 DEF NoCopy, Entry
<1>5. TreeStands(out, written, files, <<>>) /\ LinesTell(files, written)
  BY <1>1, <1>4 DEF IInv, HostStands, RecordsTell
<1> QED
  BY <1>1, <1>3, <1>4, <1>5 DEF EntryType, Placed

\* A line for the entry, of a host on which everything else stands.
LEMMA HandledKeepsInv ==
  ASSUME IInv, phase = "entry", NEW r \in RecordType, Handled(r), UNCHANGED written,
         Tells(r), NEW h, HostOK(h), out' = h, TreeStands(h, written, files, r.path),
         r.digest # {} => /\ r.path # <<>> /\ r.path \in DOMAIN h.tree
                          /\ At(h, r.path).cells \in r.digest,
         Clean(files) /\ r.errors = 0 /\ ~r.failed /\ disk.kind[r.object] = "file" =>
           Whole(r.object, r.digest)
  PROVE  IInv'
<1>1. /\ files' = Append(files, r) /\ listing' = Tail(listing) /\ phase' = "entries"
      /\ UNCHANGED <<source, flag, roots, walk, copy, slot, cut, exit>>
  BY DEF Handled
<1>2. /\ disk' = disk /\ opt' = opt /\ UNCHANGED source /\ flag' = flag /\ exit' = exit
      /\ written' = written /\ copy' = copy /\ stack' = stack
      /\ slot' = slot /\ cut' = cut /\ walked' = walked /\ roots' = roots
  BY <1>1 DEF source, walk
<1>3. /\ listing # <<>> /\ opt.command = "extract" /\ exit = "running" /\ copy'.entry.path = <<>>
      /\ listing \in Seq(EntryType) /\ files \in Seq(RecordType) /\ LinesTell(files, written)
  BY <1>2, NowIsPlaced DEF IInv, TypeOK, PhasesFollow
<1>4. TypeOK'
  <2>1. files' \in Seq(RecordType) /\ listing' \in Seq(EntryType) /\ HostOK(out')
    BY <1>1, <1>3
  <2> QED
    BY <1>1, <1>2, <2>1 DEF IInv, TypeOK, DatasetOK
<1>5. PhasesFollow'
  BY <1>1, <1>2, <1>3 DEF IInv, PhasesFollow
<1>6. EntriesArePlaced'
  <2>1. \A i \in DOMAIN listing' : i + 1 \in DOMAIN listing /\ listing'[i] = listing[i + 1]
    BY <1>1, <1>3
  <2>2. \A i \in DOMAIN listing' :
          Placed(listing'[i]) /\ (listing'[i].known => Reads(listing'[i].object))
    BY <2>1 DEF IInv, EntriesArePlaced
  <2> QED
    BY <1>2, <2>2, EntriesNext DEF IInv, EntriesArePlaced
<1>7. CopyIsPlaced'
  BY <1>1 DEF CopyIsPlaced
<1>8. TreeStands(h, written, Append(files, r), <<>>)
  BY <1>3, LineStands
<1>9. LinesTell(Append(files, r), written)
  BY <1>3, LineTells
<1>10. TreeStands(out', written', files', copy'.entry.path) /\ LinesTell(files', written')
  BY <1>1, <1>2, <1>3, <1>8, <1>9
<1>11. HostStands' /\ ManifestTells' /\ RecordsTell'
  BY <1>2, <1>10, StandsNext, ManifestNext, TellsNext DEF TreeStands
<1>12. ZeroIsWhole' /\ ObjectsSoFar'
  BY <1>2, <1>3, NotZero, NotObjects
<1> QED
  BY <1>4, <1>5, <1>6, <1>7, <1>11, <1>12 DEF IInv

\* A line of a failure.
LEMMA FailureKeepsInv ==
  ASSUME IInv, phase = "entry", Handled(Failed(Now)), UNCHANGED written,
         NEW h, HostOK(h), out' = h, TreeStands(h, written, files, Now.path)
  PROVE  IInv'
<1>1. PICK r : r = Failed(Now)
  OBVIOUS
<1>2. r = [path |-> Now.path, object |-> Now.object, digest |-> {}, errors |-> 0, failed |-> TRUE]
  BY <1>1 DEF Failed, Record
<1>3. /\ Now.path \in Paths /\ Now.object \in Objects /\ Lookup(Now.path) = Now.object
  BY NowIsPlaced
<1>4. r \in RecordType /\ Tells(r) /\ r.digest = {} /\ r.failed /\ r.path = Now.path
  BY <1>2, <1>3 DEF RecordType, Tells, Placed
<1> QED
  BY <1>1, <1>4, HandledKeepsInv

\* A line of a directory or a link's target.
LEMMA MakingKeepsInv ==
  ASSUME IInv, phase = "entry", Now.known, Handled(Made(Now)), UNCHANGED written,
         disk.kind[Now.object] # "file",
         NEW h, HostOK(h), out' = h, TreeStands(h, written, files, Now.path)
  PROVE  IInv'
<1>1. PICK r : r = Made(Now)
  OBVIOUS
<1>2. r = [path |-> Now.path, object |-> Now.object, digest |-> {}, errors |-> 0, failed |-> FALSE]
  BY <1>1 DEF Made, Record
<1>3. /\ Now.path \in Paths /\ Now.object \in Objects /\ Lookup(Now.path) = Now.object
      /\ Reads(Now.object)
  BY NowIsPlaced
<1>4. r \in RecordType /\ Tells(r) /\ r.digest = {} /\ r.path = Now.path /\ r.object = Now.object
  BY <1>2, <1>3 DEF RecordType, Tells, Placed
<1> QED
  BY <1>1, <1>4, HandledKeepsInv

LEMMA EntryRefusedKeepsInv ==
  ASSUME IInv, EntryRefused
  PROVE  IInv'
<1>1. phase = "entry" /\ Handled(Failed(Now)) /\ out' = out /\ UNCHANGED written
  BY DEF EntryRefused
<1>2. HostOK(out) /\ TreeStands(out, written, files, Now.path)
  BY <1>1, NowIsPlaced, StandsButFor
<1> QED
  BY <1>1, <1>2, FailureKeepsInv

LEMMA MakeDirsMakes ==
  ASSUME NEW h, HostOK(h), NEW path \in Paths, MakesDirs(h, path)
  PROVE  path \in DOMAIN MakeDirs(h, path).tree
<1>1. Upto(path, Len(path)) = path /\ Len(path) \in Nat
  BY SubSeqFull DEF Upto, Paths
<1>2. CASE Deepest(h, path) = Len(path)
  <2>1. path \in DOMAIN h.tree
    BY <1>1, <1>2, DeepestStands
  <2> QED
    BY <2>1 DEF MakeDirs
<1>3. CASE Deepest(h, path) # Len(path)
  <2>1. Len(path) \in Deepest(h, path) + 1 .. Len(path)
    BY <1>1, <1>3, DeepestStands
  <2>2. path \in {Upto(path, m) : m \in Deepest(h, path) + 1 .. Len(path)}
    BY <1>1, <2>1
  <2> QED
    BY <2>2 DEF MakeDirs
<1> QED
  BY <1>2, <1>3

LEMMA EntryDirKeepsInv ==
  ASSUME IInv, EntryDir
  PROVE  IInv'
<1>1. phase = "entry" /\ Now.known /\ disk.kind[Now.object] = "dir" /\ UNCHANGED written
  BY DEF EntryDir, Writable, Kind
<1>2. HostOK(out) /\ TreeStands(out, written, files, Now.path) /\ Now.path \in Paths
  BY <1>1, NowIsPlaced, StandsButFor
<1>3. CASE MakesDirs(out, Now.path)
  <2>1. PICK g, h : g = MakeDirs(out, Now.path) /\ h = SetMode(g, Now.path, Now.object)
    OBVIOUS
  <2>2. out' = h /\ Handled(Made(Now))
    BY <1>3, <2>1 DEF EntryDir
  <2>3. Grows(out, g) /\ Now.path \in DOMAIN g.tree
    BY <1>2, <1>3, <2>1, MakeDirsGrows, MakeDirsMakes
  <2>4. HostOK(g) /\ TreeStands(g, written, files, Now.path)
    BY <1>2, <2>3, GrowthStands DEF Grows
  <2>5. SameCells(g, h)
    BY <2>1, <2>3, <2>4, SetModeKeepsCells
  <2>6. HostOK(h) /\ TreeStands(h, written, files, Now.path)
    BY <2>4, <2>5, ModesStand DEF SameCells
  <2> QED
    BY <1>1, <2>2, <2>6, MakingKeepsInv
<1>4. CASE ~MakesDirs(out, Now.path)
  <2>1. out' = out /\ Handled(Failed(Now))
    BY <1>4 DEF EntryDir
  <2> QED
    BY <1>1, <1>2, <2>1, FailureKeepsInv
<1> QED
  BY <1>3, <1>4

LEMMA EntrySymlinkKeepsInv ==
  ASSUME IInv, EntrySymlink
  PROVE  IInv'
<1>1. phase = "entry" /\ Now.known /\ disk.kind[Now.object] = "symlink" /\ UNCHANGED written
  BY DEF EntrySymlink, Writable, Kind
<1>2. /\ HostOK(out) /\ TreeStands(out, written, files, <<>>) /\ Now.path \in Paths
      /\ Lookup(Now.path) = Now.object /\ Now.object \in Objects
  BY <1>1, NowIsPlaced
<1>3. ASSUME NEW cells \in Contents, NEW g, g = WriteTo(out, Now.path, cells)
      PROVE  HostOK(g) /\ TreeStands(g, written, files, Now.path) /\ Now.path \in DOMAIN g.tree
  <2>1. Writes(out, g, Now.path, cells)
    BY <1>2, <1>3, WriteToWrites
  <2>2. disk.kind[Lookup(Now.path)] # "file"
    BY <1>1, <1>2
  <2>3. TreeStands(g, written, files, Now.path)
    BY <1>2, <2>1, <2>2, StandsButFor, WritingStands
  <2> QED
    BY <2>1, <2>3 DEF Writes
<1>4. CASE /\ out' = SetMode(WriteTo(out, Now.path, <<TargetOf(Now.object)>>), Now.path, Now.object)
           /\ Handled(Made(Now))
  <2>1. <<TargetOf(Now.object)>> \in Contents
    BY <1>2 DEF TargetOf, Contents, Objects
  <2>2. PICK g, h : /\ g = WriteTo(out, Now.path, <<TargetOf(Now.object)>>)
                    /\ h = SetMode(g, Now.path, Now.object)
    OBVIOUS
  <2>3. HostOK(g) /\ TreeStands(g, written, files, Now.path) /\ Now.path \in DOMAIN g.tree
    BY <1>3, <2>1, <2>2
  <2>4. SameCells(g, h)
    BY <2>2, <2>3, SetModeKeepsCells
  <2>5. HostOK(h) /\ TreeStands(h, written, files, Now.path)
    BY <2>3, <2>4, ModesStand DEF SameCells
  <2>6. out' = h
    BY <1>4, <2>2
  <2> QED
    BY <1>1, <1>4, <2>5, <2>6, MakingKeepsInv
<1>5. CASE out' = WriteTo(out, Now.path, <<>>) /\ Handled(Failed(Now))
  <2>1. <<>> \in Contents
    BY DEF Contents
  <2>2. PICK g : g = WriteTo(out, Now.path, <<>>)
    OBVIOUS
  <2>3. HostOK(g) /\ TreeStands(g, written, files, Now.path)
    BY <1>3, <2>1, <2>2
  <2>4. out' = g
    BY <1>5, <2>2
  <2> QED
    BY <1>1, <1>5, <2>3, <2>4, FailureKeepsInv
<1>6. CASE out' = out /\ Handled(Failed(Now))
  <2>1. TreeStands(out, written, files, Now.path)
    BY <1>2, StandsButFor
  <2> QED
    BY <1>1, <1>2, <1>6, <2>1, FailureKeepsInv
<1> QED
  BY <1>4, <1>5, <1>6 DEF EntrySymlink

\* A second name for the first one's inode.
LEMMA LinkStands ==
  ASSUME NEW h, HostOK(h), NEW w, NEW fs, NEW but, TreeStands(h, w, fs, but),
         NEW o \in DOMAIN w, NEW path \in Paths, path \notin DOMAIN h.tree, Lookup(path) = o
  PROVE  /\ HostOK(LinkTo(h, w[o].path, path)) /\ TreeStands(LinkTo(h, w[o].path, path), w, fs, but)
         /\ path \in DOMAIN LinkTo(h, w[o].path, path).tree
         /\ At(LinkTo(h, w[o].path, path), path).cells = w[o].cells
<1> DEFINE from == w[o].path
           tree == Put(h.tree, path, h.tree[from])
<1>1. PICK g : g = LinkTo(h, from, path)
  OBVIOUS
<1>2. /\ h = [tree |-> h.tree, inodes |-> h.inodes] /\ h.inodes \in Seq(InodeType)
      /\ h.tree \in [DOMAIN h.tree -> 1 .. Len(h.inodes)]
      /\ DOMAIN h.tree \subseteq Paths /\ <<>> \in DOMAIN h.tree
  BY DEF HostOK
<1>3. /\ from \in DOMAIN h.tree /\ Lookup(from) = o /\ At(h, from).cells = w[o].cells
  BY DEF TreeStands, FirstsStand
<1>4. /\ DOMAIN tree = DOMAIN h.tree \cup {path} /\ tree[path] = h.tree[from]
      /\ \A p \in DOMAIN h.tree : tree[p] = h.tree[p]
      /\ tree = [p \in DOMAIN tree |-> tree[p]]
  BY DEF Put
<1> HIDE DEF tree, from
<1>5. g.tree = tree /\ g.inodes = h.inodes /\ g = [tree |-> g.tree, inodes |-> g.inodes]
  BY <1>1, <1>2 DEF LinkTo, tree
<1>6. HostOK(g)
  <2>1. \A p \in DOMAIN tree : tree[p] \in 1 .. Len(h.inodes)
    BY <1>2, <1>3, <1>4
  <2>2. tree \in [DOMAIN tree -> 1 .. Len(h.inodes)]
    BY <1>4, <2>1
  <2> QED
    BY <1>2, <1>4, <1>5, <2>2 DEF HostOK
<1>7. \A p \in DOMAIN h.tree : p \in DOMAIN g.tree /\ At(g, p) = At(h, p)
  BY <1>4, <1>5 DEF At
<1>8. At(g, path).cells = w[o].cells /\ path \in DOMAIN g.tree
  BY <1>3, <1>4, <1>5 DEF At
<1>9. NamesApart(g, w)
  <2> SUFFICES ASSUME NEW p \in DOMAIN g.tree, NEW q \in DOMAIN g.tree, p # q, g.tree[p] = g.tree[q]
               PROVE  Lookup(p) = Lookup(q) /\ Lookup(p) \in DOMAIN w
    BY DEF NamesApart
  <2>1. \A x \in DOMAIN h.tree : h.tree[x] = h.tree[from] => Lookup(x) = o
    BY <1>3 DEF TreeStands, NamesApart
  <2>2. CASE p = path \/ q = path
    BY <1>4, <1>5, <2>1, <2>2
  <2>3. CASE p # path /\ q # path
    <3>1. p \in DOMAIN h.tree /\ q \in DOMAIN h.tree /\ h.tree[p] = h.tree[q]
      BY <1>4, <1>5, <2>3
    <3> QED
      BY <3>1 DEF TreeStands, NamesApart
  <2> QED
    BY <2>2, <2>3
<1>10. FirstsStand(g, w)
  BY <1>7 DEF TreeStands, FirstsStand
<1>11. DigestsStand(g, fs, but)
  BY <1>7 DEF TreeStands, DigestsStand
<1> QED
  BY <1>1, <1>6, <1>8, <1>9, <1>10, <1>11 DEF TreeStands, from

\* The directories above a file.
LEMMA AboveStands ==
  ASSUME IInv, Writable("file")
  PROVE  /\ HostOK(Above) /\ TreeStands(Above, written, files, <<>>) /\ Now.path # <<>>
         /\ disk.kind[Now.object] = "file" /\ Now.known
<1>1. phase = "entry" /\ Now.known /\ Now.path # <<>> /\ disk.kind[Now.object] = "file"
  BY DEF Writable, Safe, Kind
<1>2. HostOK(out) /\ TreeStands(out, written, files, <<>>) /\ Now.path \in Paths
  BY <1>1, NowIsPlaced
<1>3. Parent(Now.path) \in Paths
  <2>1. Len(Now.path) - 1 \in 0 .. Len(Now.path)
    BY <1>1, <1>2 DEF Paths
  <2>2. Upto(Now.path, Len(Now.path) - 1) \in Paths
    BY <1>2, <2>1, PrefixesOf
  <2> QED
    BY <2>2 DEF Parent, Upto
<1>4. Grows(out, Above)
  BY <1>2, <1>3, MakeDirsGrows DEF Above
<1>5. HostOK(Above) /\ TreeStands(Above, written, files, <<>>)
  <2>1. PICK g : g = Above
    OBVIOUS
  <2> QED
    BY <1>2, <1>4, <2>1, GrowthStands DEF Grows
<1> QED
  BY <1>1, <1>5

LEMMA EntryLinkKeepsInv ==
  ASSUME IInv, EntryLink
  PROVE  IInv'
<1>1. Writable("file") /\ phase = "entry" /\ Now.object \in DOMAIN written /\ UNCHANGED written
  BY DEF EntryLink, Writable
<1>2. PICK g : g = Above
  OBVIOUS
<1>3. /\ HostOK(g) /\ TreeStands(g, written, files, <<>>) /\ TreeStands(g, written, files, Now.path)
      /\ Now.path # <<>> /\ disk.kind[Now.object] = "file" /\ Now.known
  BY <1>1, <1>2, AboveStands, StandsButFor
<1>4. /\ Now.path \in Paths /\ Now.object \in Objects /\ Lookup(Now.path) = Now.object
      /\ Reads(Now.object) /\ LinesTell(files, written)
  BY <1>1, <1>3, NowIsPlaced
<1>5. CASE Makes(Above, Now.path)
  <2>1. PICK first, h, r : /\ first = written[Now.object] /\ h = LinkTo(g, first.path, Now.path)
                           /\ r = Linked(Now, first.cells)
    OBVIOUS
  <2>2. out' = h /\ Handled(r)
    BY <1>2, <1>5, <2>1 DEF EntryLink
  <2>3. Now.path \notin DOMAIN g.tree
    BY <1>2, <1>5 DEF Makes
  <2>4. /\ HostOK(h) /\ TreeStands(h, written, files, Now.path)
        /\ Now.path \in DOMAIN h.tree /\ At(h, Now.path).cells = first.cells
    BY <1>1, <1>3, <1>4, <2>1, <2>3, LinkStands
  <2>5. r = [path |-> Now.path, object |-> Now.object, digest |-> {first.cells}, errors |-> 0, failed |-> FALSE]
    BY <2>1 DEF Linked, Record
  <2>6. first.cells \in Contents
    BY <1>1, <2>1 DEF IInv, TypeOK, WrittenOK
  <2>7. r \in RecordType /\ Tells(r)
    BY <1>4, <2>5, <2>6 DEF RecordType, Tells, Placed
  <2>8. Clean(files) => Whole(Now.object, {first.cells})
    BY <1>1, <1>4, <2>1 DEF LinesTell
  <2>9. /\ r.path = Now.path /\ r.object = Now.object /\ r.digest = {first.cells}
    BY <2>5
  <2>10. /\ r.path # <<>> /\ r.path \in DOMAIN h.tree /\ At(h, r.path).cells \in r.digest
         /\ TreeStands(h, written, files, r.path)
         /\ Clean(files) => Whole(r.object, r.digest)
    BY <1>3, <2>4, <2>8, <2>9
  <2> QED
    BY <1>1, <2>2, <2>4, <2>7, <2>10, HandledKeepsInv
<1>6. CASE ~Makes(Above, Now.path)
  <2>1. out' = g /\ Handled(Failed(Now))
    BY <1>2, <1>6 DEF EntryLink
  <2> QED
    BY <1>1, <1>3, <2>1, FailureKeepsInv
<1> QED
  BY <1>5, <1>6

LEMMA EntryFileKeepsInv ==
  ASSUME IInv, EntryFile
  PROVE  IInv'
<1>1. Writable("file") /\ phase = "entry" /\ Now.object \notin DOMAIN written /\ UNCHANGED written
  BY DEF EntryFile, Writable
<1>2. PICK g : g = Above
  OBVIOUS
<1>3. /\ HostOK(g) /\ TreeStands(g, written, files, Now.path)
      /\ Now.path # <<>> /\ disk.kind[Now.object] = "file" /\ Now.known
  BY <1>1, <1>2, AboveStands, StandsButFor
<1>4. /\ Now \in EntryType /\ Now.path \in Paths /\ Now.object \in Objects
      /\ Lookup(Now.path) = Now.object
      /\ Reads(Now.object) /\ LinesTell(files, written) /\ DatasetOK
      /\ opt.command = "extract" /\ listing # <<>>
  BY <1>1, <1>3, NowIsPlaced
<1>5. CASE ~Opens(Above, Now.path)
  <2>1. out' = g /\ Handled(Failed(Now))
    BY <1>2, <1>5 DEF EntryFile
  <2> QED
    BY <1>1, <1>3, <2>1, FailureKeepsInv
<1>6. CASE Opens(Above, Now.path)
  <2>1. PICK e, h, c : /\ e = Now /\ h = WriteTo(g, e.path, <<>>)
                       /\ c = [entry |-> e, at |-> 0, ino |-> h.tree[e.path], errors |-> 0]
    OBVIOUS
  <2>2. /\ out' = h /\ copy' = c /\ listing' = Tail(listing) /\ phase' = "copy"
        /\ UNCHANGED <<source, flag, roots, walk, files, slot, cut, exit>>
    BY <1>2, <1>6, <2>1 DEF EntryFile
  <2>3. /\ disk' = disk /\ opt' = opt /\ UNCHANGED source /\ flag' = flag /\ exit' = exit
        /\ written' = written /\ stack' = stack /\ files' = files
        /\ slot' = slot /\ cut' = cut /\ walked' = walked /\ roots' = roots
    BY <1>1, <2>2 DEF source, walk
  <2>4. <<>> \in Contents
    BY DEF Contents
  <2>5. Writes(g, h, e.path, <<>>)
    BY <1>3, <1>4, <2>1, <2>4, WriteToWrites
  <2>6. HostOK(h) /\ e.path \in DOMAIN h.tree /\ At(h, e.path).cells = <<>>
    BY <2>5 DEF Writes
  <2>7. TreeStands(h, written, files, e.path)
    BY <1>1, <1>3, <1>4, <2>1, <2>5, WritingStands
  <2>8. /\ c.entry = e /\ c.at = 0 /\ c.ino = h.tree[e.path] /\ c.errors = 0
    BY <2>1
  <2>9. c \in CopyType
    <3>1. h.tree[e.path] \in Nat
      BY <2>6 DEF HostOK
    <3> QED
      BY <1>4, <2>1, <3>1 DEF CopyType
  <2>10. CopyOK(c, h, written)
    <3>1. disk.good[e.object] \in Seq(BOOLEAN)
      BY <1>4, <2>1, DatasetsAssumption DEF DatasetOK, DatasetType
    <3>2. Len(disk.good[e.object]) \in Nat
      BY <3>1
    <3> QED
      BY <1>1, <1>3, <1>4, <2>1, <2>6, <2>8, <3>2 DEF CopyOK, Placed
  <2>11. listing \in Seq(EntryType) /\ exit = "running" /\ roots # <<>>
    BY <1>1 DEF IInv, TypeOK, PhasesFollow
  <2>12. TypeOK'
    <3>1. listing' \in Seq(EntryType)
      BY <1>4, <2>2, <2>11
    <3> QED
      BY <2>2, <2>3, <2>6, <2>9, <3>1 DEF IInv, TypeOK, DatasetOK
  <2>13. PhasesFollow'
    BY <1>4, <2>2, <2>3, <2>11 DEF PhasesFollow
  <2>14. EntriesArePlaced'
    <3>1. \A i \in DOMAIN listing' : i + 1 \in DOMAIN listing /\ listing'[i] = listing[i + 1]
      BY <1>4, <2>2, <2>11
    <3>2. \A i \in DOMAIN listing' :
            Placed(listing'[i]) /\ (listing'[i].known => Reads(listing'[i].object))
      BY <3>1 DEF IInv, EntriesArePlaced
    <3> QED
      BY <2>3, <3>2, EntriesNext DEF IInv, EntriesArePlaced
  <2>15. CopyIsPlaced'
    BY <2>2, <2>3, <2>10, CopyNext
  <2>16. TreeStands(out', written', files', copy'.entry.path) /\ LinesTell(files', written')
    BY <1>4, <2>2, <2>3, <2>7, <2>8
  <2>17. HostStands' /\ ManifestTells' /\ RecordsTell'
    BY <2>3, <2>16, StandsNext, ManifestNext, TellsNext DEF TreeStands
  <2>18. ZeroIsWhole' /\ ObjectsSoFar'
    BY <1>4, <2>3, <2>11, NotZero, NotObjects
  <2> QED
    BY <2>12, <2>13, <2>14, <2>15, <2>17, <2>18 DEF IInv
<1> QED
  BY <1>5, <1>6

-----------------------------------------------------------------------------
\* The steps of copy_file.

LEMMA CopyFacts ==
  ASSUME IInv, phase = "copy", NEW e, e = copy.entry
  PROVE  /\ opt.command = "extract" /\ exit = "running" /\ roots # <<>> /\ DatasetOK
         /\ copy \in CopyType /\ e \in EntryType /\ e.path \in Paths /\ e.object \in Objects
         /\ copy.at \in Nat /\ copy.errors \in Nat
         /\ HostOK(out) /\ files \in Seq(RecordType) /\ WrittenOK(written)
         /\ TreeStands(out, written, files, e.path) /\ LinesTell(files, written)
         /\ Lookup(e.path) = e.object /\ Reads(e.object) /\ disk.kind[e.object] = "file"
         /\ e.object \notin DOMAIN written /\ e.path # <<>> /\ e.path \in DOMAIN out.tree
         /\ out.tree[e.path] = copy.ino
         /\ disk.good[e.object] \in Seq(BOOLEAN) /\ copy.at <= Len(disk.good[e.object])
         /\ At(out, e.path).cells \in Contents /\ Len(At(out, e.path).cells) = copy.at
         /\ \A i \in 1 .. copy.at : At(out, e.path).cells[i] = Blocks(e.object)[i]
         /\ copy.errors = 0 => \A i \in 1 .. copy.at : disk.good[e.object][i]
<1>1. /\ opt.command = "extract" /\ exit = "running" /\ roots # <<>> /\ DatasetOK
      /\ copy \in CopyType /\ HostOK(out) /\ files \in Seq(RecordType) /\ WrittenOK(written)
  BY DEF IInv, TypeOK, PhasesFollow
<1>2. e \in EntryType /\ copy.at \in Nat /\ copy.errors \in Nat
  BY <1>1 DEF CopyType
<1>3. e.path \in Paths /\ e.object \in Objects
  BY <1>2 DEF EntryType
<1>4. CopyOK(copy, out, written)
  BY DEF IInv, CopyIsPlaced
<1>5. TreeStands(out, written, files, e.path) /\ LinesTell(files, written)
  BY <1>1 DEF IInv, HostStands, RecordsTell
<1>6. disk.good[e.object] \in Seq(BOOLEAN)
  BY <1>1, <1>3, DatasetsAssumption DEF DatasetOK, DatasetType
<1>7. e.path \in DOMAIN out.tree
  BY <1>4 DEF CopyOK
<1>8. At(out, e.path).cells \in Contents
  <2>1. PICK n : n = out.tree[e.path]
    OBVIOUS
  <2>2. n \in 1 .. Len(out.inodes) /\ out.inodes \in Seq(InodeType)
    BY <1>1, <1>7, <2>1 DEF HostOK
  <2>3. out.inodes[n] \in InodeType
    BY <2>2
  <2> QED
    BY <2>1, <2>3 DEF At, InodeType
<1> QED
  BY <1>1, <1>2, <1>3, <1>4, <1>5, <1>6, <1>8 DEF CopyOK, Placed

LEMMA CopyBlockKeepsInv ==
  ASSUME IInv, CopyBlock
  PROVE  IInv'
<1>1. /\ phase = "copy" /\ copy.at < Len(Copying)
      /\ UNCHANGED <<source, flag, phase, roots, walk, listing, ledger, slot, cut, exit>>
  BY DEF CopyBlock
<1>2. PICK e, cells, good, reads :
        /\ e = copy.entry /\ cells = At(out, e.path).cells /\ good = disk.good[e.object]
        /\ reads = good[copy.at + 1]
  OBVIOUS
<1>3. PICK cell : cell = IF reads THEN Block(e.object, copy.at + 1) ELSE Zeros
  OBVIOUS
<1>4. /\ out' = [out EXCEPT !.inodes[copy.ino].cells = Append(@, cell)]
      /\ copy' = [copy EXCEPT !.at = @ + 1, !.errors = IF reads THEN @ ELSE @ + 1]
  BY <1>2, <1>3 DEF CopyBlock, Copying
<1>5. /\ opt.command = "extract" /\ exit = "running" /\ DatasetOK
      /\ copy \in CopyType /\ e \in EntryType /\ e.path \in Paths /\ e.object \in Objects
      /\ copy.at \in Nat /\ copy.errors \in Nat
      /\ HostOK(out) /\ files \in Seq(RecordType)
      /\ TreeStands(out, written, files, e.path) /\ LinesTell(files, written)
      /\ Lookup(e.path) = e.object /\ Reads(e.object) /\ disk.kind[e.object] = "file"
      /\ e.object \notin DOMAIN written /\ e.path # <<>> /\ e.path \in DOMAIN out.tree
      /\ out.tree[e.path] = copy.ino
      /\ good \in Seq(BOOLEAN) /\ copy.at <= Len(good)
      /\ cells \in Contents /\ Len(cells) = copy.at
      /\ \A i \in 1 .. copy.at : cells[i] = Blocks(e.object)[i]
      /\ copy.errors = 0 => \A i \in 1 .. copy.at : good[i]
  BY <1>1, <1>2, CopyFacts
<1>6. /\ disk' = disk /\ opt' = opt /\ UNCHANGED source /\ flag' = flag /\ exit' = exit
      /\ written' = written /\ stack' = stack /\ files' = files /\ listing' = listing
      /\ slot' = slot /\ cut' = cut /\ walked' = walked /\ roots' = roots /\ phase' = "copy"
  BY <1>1 DEF source, walk, ledger
<1>7. copy.at + 1 \in 1 .. Len(good) /\ DOMAIN good = 1 .. Len(good) /\ reads \in BOOLEAN
  BY <1>1, <1>2, <1>5 DEF Copying
<1>8. cell = Blocks(e.object)[copy.at + 1] /\ cell \in Nat \X Nat
  BY <1>2, <1>3, <1>5, <1>7 DEF Blocks, Block, Zeros, Objects
<1>9. Append(cells, cell) \in Contents
  BY <1>5, <1>8 DEF Contents
<1>10. PICK h : h = WriteTo(out, e.path, Append(cells, cell))
  OBVIOUS
<1>11. out' = h
  BY <1>2, <1>4, <1>5, <1>10 DEF WriteTo, At
<1>12. Writes(out, h, e.path, Append(cells, cell))
  BY <1>5, <1>9, <1>10, WriteToWrites
<1>13. /\ HostOK(h) /\ e.path \in DOMAIN h.tree /\ At(h, e.path).cells = Append(cells, cell)
       /\ h.tree[e.path] = copy.ino
  BY <1>5, <1>12 DEF Writes
<1>14. TreeStands(h, written, files, e.path)
  BY <1>5, <1>12, WritingStands
<1>15. PICK n : n = IF reads THEN copy.errors ELSE copy.errors + 1
  OBVIOUS
<1>16. n \in Nat /\ (n = 0 => reads /\ copy.errors = 0)
  BY <1>5, <1>15
<1>17. PICK c : c = [entry |-> e, at |-> copy.at + 1, ino |-> copy.ino, errors |-> n]
  OBVIOUS
<1>18. copy' = c
  <2>1. copy = [entry |-> e, at |-> copy.at, ino |-> copy.ino, errors |-> copy.errors]
    BY <1>2, <1>5 DEF CopyType
  <2>2. copy' = [copy EXCEPT !.at = copy.at + 1, !.errors = n]
    BY <1>4, <1>15
  <2>3. PICK x : x = [copy EXCEPT !.at = copy.at + 1]
    OBVIOUS
  <2>4. x = [entry |-> e, at |-> copy.at + 1, ino |-> copy.ino, errors |-> copy.errors]
    BY <2>1, <2>3
  <2>5. copy' = [x EXCEPT !.errors = n]
    BY <2>2, <2>3
  <2> QED
    BY <1>17, <2>4, <2>5
<1>19. c.entry = e /\ c.at = copy.at + 1 /\ c.ino = copy.ino /\ c.errors = n
  BY <1>17
<1>20. c \in CopyType
  <2>1. copy.ino \in Nat
    BY <1>5 DEF CopyType
  <2> QED
    BY <1>5, <1>16, <1>17, <2>1 DEF CopyType
<1>21. CopyOK(c, h, written)
  <2>1. /\ Len(Append(cells, cell)) = copy.at + 1 /\ Append(cells, cell)[copy.at + 1] = cell
        /\ \A i \in 1 .. copy.at : Append(cells, cell)[i] = cells[i]
    BY <1>5 DEF Contents
  <2>2. \A i \in 1 .. copy.at + 1 : i = copy.at + 1 \/ i \in 1 .. copy.at
    BY <1>5
  <2>3. \A i \in 1 .. copy.at + 1 : Append(cells, cell)[i] = Blocks(e.object)[i]
    BY <1>5, <1>8, <2>1, <2>2
  <2>4. n = 0 => \A i \in 1 .. copy.at + 1 : good[i]
    BY <1>2, <1>5, <1>16, <2>2
  <2>5. copy.at + 1 <= Len(good)
    BY <1>5, <1>7
  <2>6. At(h, c.entry.path).cells = Append(cells, cell) /\ disk.good[c.entry.object] = good
    BY <1>2, <1>13, <1>19
  <2>7. /\ Placed(e) /\ Reads(e.object) /\ disk.kind[e.object] = "file"
        /\ e.object \notin DOMAIN written /\ e.path # <<>>
        /\ e.path \in DOMAIN h.tree /\ h.tree[e.path] = copy.ino
    BY <1>5, <1>13 DEF Placed
  <2> QED
    BY <1>19, <2>1, <2>3, <2>4, <2>5, <2>6, <2>7 DEF CopyOK
<1>22. TypeOK' /\ PhasesFollow'
  BY <1>1, <1>5, <1>6, <1>11, <1>13, <1>18, <1>20 DEF IInv, TypeOK, PhasesFollow, DatasetOK
<1>23. EntriesArePlaced'
  BY <1>6, EntriesNext DEF IInv, EntriesArePlaced
<1>24. CopyIsPlaced'
  BY <1>6, <1>11, <1>18, <1>21, CopyNext
<1>25. TreeStands(out', written', files', copy'.entry.path) /\ LinesTell(files', written')
  BY <1>5, <1>6, <1>11, <1>14, <1>18, <1>19
<1>26. HostStands' /\ ManifestTells' /\ RecordsTell'
  BY <1>6, <1>25, StandsNext, ManifestNext, TellsNext DEF TreeStands
<1>27. ZeroIsWhole' /\ ObjectsSoFar'
  BY <1>5, <1>6, NotZero, NotObjects
<1> QED
  BY <1>22, <1>23, <1>24, <1>26, <1>27 DEF IInv

\* The copy is over, with this line: of a host on which everything else stands.
LEMMA CopyOverKeepsInv ==
  ASSUME IInv, phase = "copy", phase' = "entries", copy' = NoCopy,
         UNCHANGED <<source, flag, roots, walk, listing, slot, cut, exit>>,
         NEW r \in RecordType, files' = Append(files, r),
         NEW h, HostOK(h), out' = h, NEW w, WrittenOK(w), written' = w,
         TreeStands(h, w, files, r.path), LinesTell(Append(files, r), w),
         r.digest # {} => /\ r.path # <<>> /\ r.path \in DOMAIN h.tree
                          /\ At(h, r.path).cells \in r.digest
  PROVE  IInv'
<1>1. /\ disk' = disk /\ opt' = opt /\ UNCHANGED source /\ flag' = flag /\ exit' = exit
      /\ stack' = stack /\ slot' = slot /\ cut' = cut /\ walked' = walked /\ roots' = roots
      /\ listing' = listing
  BY DEF source, walk
<1>2. /\ opt.command = "extract" /\ exit = "running" /\ roots # <<>> /\ files \in Seq(RecordType)
      /\ copy'.entry.path = <<>>
  BY DEF IInv, TypeOK, PhasesFollow, NoCopy, Entry
<1>3. copy' \in CopyType
  <2>1. 1 \in Objects /\ <<>> \in Paths
    BY NamesAssumption DEF Objects, Paths
  <2> QED
    BY <2>1 DEF NoCopy, Entry, CopyType, EntryType
<1>4. TypeOK'
  <2>1. files' \in Seq(RecordType) /\ HostOK(out') /\ WrittenOK(written')
    BY <1>2
  <2> QED
    BY <1>1, <1>3, <2>1 DEF IInv, TypeOK, DatasetOK
<1>5. PhasesFollow'
  BY <1>1, <1>2 DEF IInv, PhasesFollow
<1>6. EntriesArePlaced'
  BY <1>1, EntriesNext DEF IInv, EntriesArePlaced
<1>7. CopyIsPlaced'
  BY DEF CopyIsPlaced
<1>8. TreeStands(h, w, Append(files, r), <<>>)
  BY <1>2, LineStands
<1>9. TreeStands(out', written', files', copy'.entry.path) /\ LinesTell(files', written')
  BY <1>2, <1>8
<1>10. HostStands' /\ ManifestTells' /\ RecordsTell'
  BY <1>1, <1>9, StandsNext, ManifestNext, TellsNext DEF TreeStands
<1>11. ZeroIsWhole' /\ ObjectsSoFar'
  BY <1>1, <1>2, NotZero, NotObjects
<1> QED
  BY <1>4, <1>5, <1>6, <1>7, <1>10, <1>11 DEF IInv

LEMMA CopyStopsKeepsInv ==
  ASSUME IInv, CopyStops
  PROVE  IInv'
<1>1. /\ phase = "copy" /\ phase' = "entries" /\ copy' = NoCopy
      /\ files' = Append(files, Failed(copy.entry))
      /\ UNCHANGED <<source, flag, roots, walk, listing, out, written, slot, cut, exit>>
  BY DEF CopyStops
<1>2. PICK e : e = copy.entry
  OBVIOUS
<1>3. /\ e.path \in Paths /\ e.object \in Objects /\ Lookup(e.path) = e.object
      /\ HostOK(out) /\ files \in Seq(RecordType) /\ WrittenOK(written)
      /\ TreeStands(out, written, files, e.path) /\ LinesTell(files, written)
  BY <1>1, <1>2, CopyFacts
<1>4. PICK r : r = [path |-> e.path, object |-> e.object, digest |-> {}, errors |-> 0, failed |-> TRUE]
  OBVIOUS
<1>5. files' = Append(files, r)
  BY <1>1, <1>2, <1>4 DEF Failed, Record
<1>6. r \in RecordType /\ Tells(r) /\ r.digest = {} /\ r.failed /\ r.path = e.path
  BY <1>3, <1>4 DEF RecordType, Tells, Placed
<1>7. LinesTell(Append(files, r), written)
  BY <1>3, <1>6, LineTells
<1>8. out' = out /\ written' = written
      /\ UNCHANGED <<source, flag, roots, walk, listing, slot, cut, exit>>
  BY <1>1
<1> QED
  BY <1>1, <1>3, <1>5, <1>6, <1>7, <1>8, CopyOverKeepsInv

\* A file without an error is whole.
LEMMA CopyIsWhole ==
  ASSUME DatasetOK, NEW o \in Objects, NEW cells \in Contents, Len(cells) = Len(disk.good[o]),
         \A i \in 1 .. Len(disk.good[o]) : cells[i] = Blocks(o)[i],
         \A i \in 1 .. Len(disk.good[o]) : disk.good[o][i]
  PROVE  Whole(o, {cells})
<1>1. disk.good[o] \in Seq(BOOLEAN)
  BY DatasetsAssumption DEF DatasetOK, DatasetType
<1>2. DOMAIN disk.good[o] = 1 .. Len(disk.good[o])
  BY <1>1
<1>3. {i \in DOMAIN disk.good[o] : ~disk.good[o][i]} = {}
  BY <1>2
<1>4. Lost(o) = 0
  BY <1>3, FS_EmptySet DEF Lost
<1>5. PICK b : b = Blocks(o)
  OBVIOUS
<1>6. DOMAIN b = 1 .. Len(disk.good[o]) /\ b = [i \in DOMAIN b |-> b[i]]
  BY <1>2, <1>5 DEF Blocks
<1>7. DOMAIN cells = 1 .. Len(disk.good[o]) /\ cells = [i \in DOMAIN cells |-> cells[i]]
  BY DEF Contents
<1>8. cells = b
  BY <1>5, <1>6, <1>7
<1> QED
  BY <1>4, <1>5, <1>8 DEF Whole

\* An object that has other names is remembered under its first.
FirstName == [path : Paths, cells : Contents]

LEMMA FirstNameIsKept ==
  ASSUME NEW w, WrittenOK(w), NEW o \in Objects, NEW first \in FirstName
  PROVE  /\ WrittenOK(Put(w, o, first))
         /\ DOMAIN Put(w, o, first) = DOMAIN w \cup {o} /\ Put(w, o, first)[o] = first
         /\ \A x \in DOMAIN w : x # o => Put(w, o, first)[x] = w[x]
BY DEF Put, WrittenOK, FirstName

LEMMA FirstNameStands ==
  ASSUME NEW h, NEW w, WrittenOK(w), NEW fs, NEW but, TreeStands(h, w, fs, but),
         NEW o \in Objects, o \notin DOMAIN w, disk.kind[o] = "file",
         NEW first \in FirstName, Lookup(first.path) = o,
         first.path \in DOMAIN h.tree, At(h, first.path).cells = first.cells
  PROVE  TreeStands(h, Put(w, o, first), fs, but)
<1>1. PICK v : v = Put(w, o, first)
  OBVIOUS
<1>2. DOMAIN v = DOMAIN w \cup {o} /\ v[o] = first /\ \A x \in DOMAIN w : v[x] = w[x]
  BY <1>1 DEF Put
<1>3. NamesApart(h, v)
  BY <1>2 DEF TreeStands, NamesApart
<1>4. FirstsStand(h, v)
  <2> SUFFICES ASSUME NEW x \in DOMAIN v
               PROVE  /\ disk.kind[x] = "file" /\ Lookup(v[x].path) = x
                      /\ v[x].path \in DOMAIN h.tree /\ At(h, v[x].path).cells = v[x].cells
    BY DEF FirstsStand
  <2>1. CASE x = o
    BY <1>2, <2>1
  <2>2. CASE x # o
    BY <1>2, <2>2 DEF TreeStands, FirstsStand
  <2> QED
    BY <2>1, <2>2
<1> QED
  BY <1>1, <1>3, <1>4 DEF TreeStands

LEMMA FirstNameTells ==
  ASSUME NEW w, WrittenOK(w), NEW fs, LinesTell(fs, w), NEW o \in Objects, o \notin DOMAIN w,
         NEW first \in FirstName, Clean(fs) => Whole(o, {first.cells})
  PROVE  LinesTell(fs, Put(w, o, first))
<1>1. PICK v : v = Put(w, o, first)
  OBVIOUS
<1>2. DOMAIN v = DOMAIN w \cup {o} /\ v[o] = first /\ \A x \in DOMAIN w : v[x] = w[x]
  BY <1>1, FirstNameIsKept
<1>3. ASSUME Clean(fs), NEW x \in DOMAIN v
      PROVE  Whole(x, {v[x].cells})
  <2>1. CASE x = o
    BY <1>2, <1>3, <2>1
  <2>2. CASE x # o
    BY <1>2, <1>3, <2>2 DEF LinesTell
  <2> QED
    BY <2>1, <2>2
<1> QED
  BY <1>1, <1>3 DEF LinesTell

LEMMA CopyEndsKeepsInv ==
  ASSUME IInv, CopyEnds
  PROVE  IInv'
<1>1. /\ phase = "copy" /\ copy.at = Len(Copying) /\ phase' = "entries" /\ copy' = NoCopy
      /\ UNCHANGED <<source, flag, roots, walk, listing, slot, cut, exit>>
  BY DEF CopyEnds
<1>2. PICK e, o, cells, good :
        /\ e = copy.entry /\ o = e.object /\ cells = At(out, e.path).cells /\ good = disk.good[o]
  OBVIOUS
<1>3. /\ DatasetOK /\ e.path \in Paths /\ o \in Objects /\ copy.errors \in Nat
      /\ HostOK(out) /\ files \in Seq(RecordType) /\ WrittenOK(written)
      /\ TreeStands(out, written, files, e.path) /\ LinesTell(files, written)
      /\ Lookup(e.path) = o /\ Reads(o) /\ disk.kind[o] = "file"
      /\ o \notin DOMAIN written /\ e.path # <<>> /\ e.path \in DOMAIN out.tree
      /\ out.tree[e.path] = copy.ino
      /\ good \in Seq(BOOLEAN) /\ cells \in Contents /\ Len(cells) = copy.at
      /\ \A i \in 1 .. copy.at : cells[i] = Blocks(o)[i]
      /\ copy.errors = 0 => \A i \in 1 .. copy.at : good[i]
  BY <1>1, <1>2, CopyFacts
<1>4. Digest = cells
  BY <1>2, <1>3 DEF Digest, At
<1>5. PICK r : r = [path |-> e.path, object |-> o, digest |-> {cells}, errors |-> copy.errors, failed |-> FALSE]
  OBVIOUS
<1>6. PICK h : h = SetMode(out, e.path, o)
  OBVIOUS
<1>7. /\ files' = Append(files, r) /\ out' = h
      /\ \/ written' = written
         \/ written' = Put(written, o, [path |-> e.path, cells |-> cells])
  BY <1>2, <1>4, <1>5, <1>6 DEF CopyEnds, Copied, Record
<1>8. /\ r \in RecordType /\ Tells(r) /\ r.path = e.path /\ r.object = o
      /\ r.errors = copy.errors /\ r.digest = {cells}
  <2>1. {cells} \in SUBSET Contents
    BY <1>3
  <2> QED
    BY <1>3, <1>5, <2>1 DEF RecordType, Tells, Placed
<1>9. SameCells(out, h)
  BY <1>3, <1>6, SetModeKeepsCells
<1>10. /\ HostOK(h) /\ e.path \in DOMAIN h.tree /\ At(h, e.path).cells = cells
       /\ TreeStands(h, written, files, e.path)
  <2>1. TreeStands(h, written, files, e.path)
    BY <1>3, <1>9, ModesStand
  <2> QED
    BY <1>2, <1>3, <1>9, <2>1 DEF SameCells
<1>11. copy.errors = 0 => Whole(o, {cells})
  <2>1. Copying = good /\ copy.at = Len(good)
    BY <1>1, <1>2 DEF Copying
  <2> QED
    BY <1>2, <1>3, <2>1, CopyIsWhole
<1>12. LinesTell(Append(files, r), written)
  BY <1>3, <1>8, <1>11, LineTells
<1>13. Clean(Append(files, r)) => Whole(o, {cells})
  <2>1. /\ Len(files) + 1 \in DOMAIN Append(files, r)
        /\ Append(files, r)[Len(files) + 1] = r
    BY <1>3
  <2> QED
    BY <1>8, <1>11, <2>1 DEF Clean
<1>14. /\ WrittenOK(written') /\ TreeStands(h, written', files, e.path)
       /\ LinesTell(Append(files, r), written')
  <2>1. CASE written' = written
    BY <1>3, <1>10, <1>12, <2>1
  <2>2. CASE written' = Put(written, o, [path |-> e.path, cells |-> cells])
    <3>1. PICK first : first = [path |-> e.path, cells |-> cells]
      OBVIOUS
    <3>2. first \in FirstName /\ first.path = e.path /\ first.cells = cells
      BY <1>3, <3>1 DEF FirstName
    <3>3. WrittenOK(Put(written, o, first)) /\ TreeStands(h, Put(written, o, first), files, e.path)
      BY <1>3, <1>10, <3>2, FirstNameIsKept, FirstNameStands
    <3>4. LinesTell(Append(files, r), Put(written, o, first))
      BY <1>3, <1>12, <1>13, <3>2, FirstNameTells
    <3> QED
      BY <2>2, <3>1, <3>3, <3>4
  <2> QED
    BY <1>7, <2>1, <2>2
<1> QED
  BY <1>1, <1>3, <1>7, <1>8, <1>10, <1>14, CopyOverKeepsInv

-----------------------------------------------------------------------------
\* The manifest.

LEMMA CodeIsAnExit ==
  Code \in {"INTERRUPTED", "PARTIAL", "0"}
BY DEF Code

LEMMA ZeroIsClean ==
  ASSUME IInv, opt.command = "extract", Code = "0"
  PROVE  FilesAreWhole
<1>1. files \in Seq(RecordType) /\ LinesTell(files, written)
  BY DEF IInv, TypeOK, RecordsTell
<1>2. \A i \in DOMAIN files : ~files[i].failed /\ ~(files[i].errors > 0)
  BY DEF Code
<1>3. \A i \in DOMAIN files : files[i].errors \in Nat
  <2>1. \A i \in DOMAIN files : files[i] \in RecordType
    BY <1>1
  <2> QED
    BY <2>1 DEF RecordType
<1>4. Clean(files)
  BY <1>2, <1>3 DEF Clean
<1> QED
  BY <1>1, <1>2, <1>4 DEF LinesTell, Tells, Whole, FilesAreWhole

LEMMA ZeroNext ==
  ASSUME UNCHANGED source, files' = files, opt.command = "extract" /\ exit' = "0" => FilesAreWhole
  PROVE  ZeroIsWhole'
<1>1. disk' = disk /\ opt' = opt
  BY DEF source
<1>2. ASSUME FilesAreWhole
      PROVE  FilesAreWhole'
  BY <1>1, <1>2, FactsStay DEF FilesAreWhole
<1> QED
  BY <1>1, <1>2 DEF ZeroIsWhole, Extracted

LEMMA WriteManifestKeepsInv ==
  ASSUME IInv, WriteManifest
  PROVE  IInv'
<1>1. /\ phase = "manifest" /\ phase' = "ended" /\ exit' \in {Code, "MEDIUM", "USAGE"}
      /\ UNCHANGED <<source, flag, roots, walk, listing, copy, ledger, slot, cut>>
  BY DEF WriteManifest, Ends
<1>2. /\ disk' = disk /\ opt' = opt /\ UNCHANGED source /\ flag' = flag /\ copy' = copy
      /\ stack' = stack /\ walked' = walked /\ written' = written /\ files' = files
      /\ roots' = roots /\ listing' = listing /\ slot' = slot /\ cut' = cut
  BY <1>1 DEF source, walk, ledger
<1>3. /\ opt.command # "objects" /\ copy = NoCopy /\ copy.entry.path = <<>> /\ HostOK(out)
      /\ files \in Seq(RecordType)
  BY <1>1 DEF IInv, TypeOK, PhasesFollow, NoCopy, Entry
<1>4. opt.command = "extract" => DigestsStand(out, files, <<>>)
  BY <1>1, <1>3 DEF IInv, HostStands, TreeStands
<1>5. \/ out' = out
      \/ \E cells \in Contents : Writes(out, out', <<Manifest>>, cells)
  <2>1. <<Manifest>> \in Paths /\ <<Listed>> \in Contents /\ <<>> \in Contents
    BY NamesAssumption DEF Paths, Contents, Listed
  <2>2. out' = out \/ \E cells \in Contents : out' = WriteTo(out, <<Manifest>>, cells)
    BY <2>1 DEF WriteManifest
  <2> QED
    BY <1>3, <2>1, <2>2, WriteToWrites
<1>6. TypeOK' /\ PhasesFollow'
  <2>1. HostOK(out')
    BY <1>3, <1>5 DEF Writes
  <2>2. exit' \in Exits /\ exit' # "running"
    BY <1>1, CodeIsAnExit DEF Exits
  <2> QED
    BY <1>1, <1>2, <2>1, <2>2 DEF IInv, TypeOK, PhasesFollow, DatasetOK
<1>7. ManifestTells'
  <2> SUFFICES ASSUME opt.command = "extract", NEW i \in DOMAIN files, files[i].digest # {},
                      files[i].path # <<>>, ~Overwritten(files[i].path)', OnlyOnce(files, i)
               PROVE  /\ files[i].path \in DOMAIN out'.tree
                      /\ At(out', files[i].path).cells \in files[i].digest
    BY <1>2, <1>3 DEF ManifestTells, OnlyOnce, At
  <2>1. /\ files[i].path \in DOMAIN out.tree
        /\ At(out, files[i].path).cells \in files[i].digest
    BY <1>4 DEF DigestsStand
  <2>2. CASE out' = out
    BY <2>1, <2>2
  <2>3. CASE \E cells \in Contents : Writes(out, out', <<Manifest>>, cells)
    <3>1. PICK cells : Writes(out, out', <<Manifest>>, cells)
      BY <2>3
    <3>2. files[i].path \in DOMAIN out'.tree /\ <<Manifest>> \in DOMAIN out'.tree
      BY <2>1, <3>1 DEF Writes
    <3>3. out'.tree[files[i].path] # out'.tree[<<Manifest>>]
      BY <1>1, <1>2, <3>2 DEF Overwritten
    <3>4. At(out', files[i].path).cells = At(out, files[i].path).cells
      BY <2>1, <3>1, <3>3 DEF Writes
    <3> QED
      BY <2>1, <3>2, <3>4
  <2> QED
    BY <1>5, <2>2, <2>3
<1>8. EntriesArePlaced'
  BY <1>2, EntriesNext DEF IInv, EntriesArePlaced
<1>9. CopyIsPlaced' /\ HostStands'
  BY <1>1 DEF CopyIsPlaced, HostStands
<1>10. RecordsTell'
  <2>1. opt.command = "extract" => LinesTell(files', written')
    BY <1>2 DEF IInv, RecordsTell
  <2> QED
    BY <1>2, <2>1, TellsNext
<1>11. ZeroIsWhole'
  BY <1>1, <1>2, ZeroIsClean, ZeroNext
<1>12. ObjectsSoFar'
  BY <1>2, <1>3, NotObjects
<1> QED
  BY <1>6, <1>7, <1>8, <1>9, <1>10, <1>11, <1>12 DEF IInv

-----------------------------------------------------------------------------
\* `objects`.

LEMMA DatasetFacts ==
  ASSUME DatasetOK
  PROVE  disk \in DatasetType /\ NamesOnce(disk) /\ SlotsOwned(disk) /\ NObjects \in Nat \ {0}
BY DatasetsAssumption, NamesAssumption DEF DatasetOK

\* Past an object and the slots it owns there is the start of another.
LEMMA NextObjectStarts ==
  ASSUME DatasetOK, NEW s \in Objects, Gets(s) => disk.kind[s] # "inside",
         NEW t \in Nat, t = IF Gets(s) THEN NextObject(s) ELSE s + 1
  PROVE  /\ t > s /\ (t \in Objects /\ Gets(t) => disk.kind[t] # "inside")
         /\ \A o \in There : o < t => o <= s
<1>1. /\ disk.extra \in [Objects -> Nat] /\ SlotsOwned(disk)
  BY DatasetFacts DEF DatasetType
<1>2. /\ \A o \in Objects : o \in Nat /\ disk.extra[o] \in Nat
      /\ t = IF Gets(s) THEN s + 1 + disk.extra[s] ELSE s + 1
  BY <1>1, NamesAssumption DEF Objects, NextObject
<1>3. ASSUME NEW o \in Objects, o > s, o < t
      PROVE  Gets(s) /\ Owns(disk, s, o) /\ disk.kind[o] = "inside"
  <2>1. Gets(s) /\ o \in s + 1 .. s + disk.extra[s]
    BY <1>2, <1>3
  <2> QED
    BY <1>1, <2>1 DEF Owns, SlotsOwned
<1>4. t > s
  BY <1>2
<1>5. ASSUME t \in Objects, Gets(t), disk.kind[t] = "inside"
      PROVE  FALSE
  <2>1. PICK o \in Objects : Owns(disk, o, t)
    BY <1>1, <1>5 DEF SlotsOwned
  <2>2. disk.kind[o] # "inside" /\ o < t /\ t <= o + disk.extra[o]
    BY <1>2, <1>5, <2>1 DEF Owns
  <2>3. Gets(o)
    BY <1>1, <1>5, <2>1 DEF SlotsOwned, Gets
  <2>4. CASE o = s
    BY <1>2, <2>2, <2>3, <2>4
  <2>5. CASE o > s
    BY <1>3, <2>2, <2>5
  <2>6. CASE o < s
    <3>1. Owns(disk, o, s)
      BY <1>2, <1>4, <2>2, <2>6 DEF Owns
    <3> QED
      BY <1>1, <2>3, <3>1 DEF SlotsOwned, Gets
  <2> QED
    BY <1>2, <2>4, <2>5, <2>6
<1>6. \A o \in There : o < t => o <= s
  BY <1>2, <1>3 DEF There
<1> QED
  BY <1>4, <1>5, <1>6

\* A step of `objects`, with these lines added.
LEMMA ObjectsStep ==
  ASSUME IInv, phase = "objects", slot <= NObjects, NEW t \in Nat, slot' = t,
         t = IF Gets(slot) THEN NextObject(slot) ELSE slot + 1,
         UNCHANGED <<source, flag, phase, roots, walk, listing, out, copy, written, cut, exit>>,
         files' \in Seq(RecordType),
         \A i \in DOMAIN files' : files'[i].object \in There,
         \A o \in There : HasRecord(<<>>, o) \/ o = slot =>
           \E i \in DOMAIN files' : files'[i].path = <<>> /\ files'[i].object = o
  PROVE  IInv'
<1>1. /\ disk' = disk /\ opt' = opt /\ UNCHANGED source /\ flag' = flag /\ copy' = copy
      /\ stack' = stack /\ walked' = walked /\ written' = written /\ out' = out
      /\ roots' = roots /\ listing' = listing /\ cut' = cut /\ exit' = exit /\ phase' = phase
  BY DEF source, walk
<1>2. /\ DatasetOK /\ opt.command = "objects" /\ slot \in Objects /\ exit = "running"
      /\ Gets(slot) => disk.kind[slot] # "inside"
      /\ \A o \in There : o < slot => HasRecord(<<>>, o)
  <2>1. slot \in Objects
    BY NamesAssumption DEF IInv, TypeOK, Objects
  <2> QED
    BY <2>1 DEF IInv, TypeOK, PhasesFollow, ObjectsSoFar
<1>3. /\ t > slot /\ (t \in Objects /\ Gets(t) => disk.kind[t] # "inside")
      /\ \A o \in There : o < t => o <= slot
  BY <1>2, NextObjectStarts
<1>4. TypeOK' /\ PhasesFollow'
  <2>1. slot' \in Nat \ {0}
    BY <1>2, <1>3 DEF Objects
  <2> QED
    BY <1>1, <2>1 DEF IInv, TypeOK, PhasesFollow, DatasetOK
<1>5. EntriesArePlaced'
  BY <1>1, EntriesNext DEF IInv, EntriesArePlaced
<1>6. CopyIsPlaced' /\ HostStands' /\ ManifestTells' /\ RecordsTell'
  BY <1>1, <1>2 DEF CopyIsPlaced, HostStands, ManifestTells, RecordsTell
<1>7. ZeroIsWhole'
  BY <1>1, <1>2, NotZero
<1>8. ObjectsSoFar'
  <2>1. There' = There /\ (Gets(t)' <=> Gets(t))
    BY <1>1 DEF There, Gets
  <2>2. \A o \in There : o < t => o < slot \/ o = slot
    BY <1>2, <1>3 DEF There, Objects
  <2>3. \A o \in There : o < t => HasRecord(<<>>, o)'
    BY <1>2, <2>2 DEF HasRecord
  <2> QED
    BY <1>1, <1>2, <1>3, <2>1, <2>3 DEF ObjectsSoFar, Gets
<1> QED
  BY <1>4, <1>5, <1>6, <1>7, <1>8 DEF IInv

LEMMA ObjectSkippedKeepsInv ==
  ASSUME IInv, ObjectSkipped
  PROVE  IInv'
<1>1. /\ phase = "objects" /\ slot <= NObjects /\ (~Gets(slot) \/ disk.kind[slot] = "free")
      /\ UNCHANGED <<source, flag, phase, roots, walk, listing, out, copy, ledger, cut, exit>>
  BY DEF ObjectSkipped
<1>2. slot \in Objects /\ DatasetOK /\ files \in Seq(RecordType) /\ opt.command = "objects"
  BY <1>1, NamesAssumption DEF IInv, TypeOK, PhasesFollow, Objects
<1>3. PICK t : t = IF Gets(slot) THEN NextObject(slot) ELSE slot + 1
  OBVIOUS
<1>4. t \in Nat
  <2>1. disk.extra[slot] \in Nat /\ slot \in Nat
    BY <1>2, DatasetFacts, NamesAssumption DEF DatasetType, Objects
  <2> QED
    BY <1>3, <2>1 DEF NextObject
<1>5. slot' = t /\ files' = files /\ written' = written
  BY <1>3 DEF ObjectSkipped, ledger
<1>6. slot \notin There
  BY <1>1 DEF There
<1>7. \A i \in DOMAIN files : files[i].object \in There
  BY <1>2 DEF IInv, ObjectsSoFar
<1> QED
  BY <1>1, <1>2, <1>3, <1>4, <1>5, <1>6, <1>7, ObjectsStep DEF HasRecord

LEMMA ContentsOfObject ==
  ASSUME DatasetOK, NEW o \in Objects
  PROVE  Blocks(o) \in Contents /\ Lost(o) \in Nat
<1>1. PICK good : good = disk.good[o]
  OBVIOUS
<1>2. good \in Seq(BOOLEAN) /\ Len(good) \in Nat /\ DOMAIN good = 1 .. Len(good)
  BY <1>1, DatasetFacts DEF DatasetType
<1>3. Blocks(o) \in Contents
  <2>1. o \in Nat /\ \A i \in 1 .. Len(good) : i \in Nat
    BY <1>2, NamesAssumption DEF Objects
  <2>2. \A i \in 1 .. Len(good) : (IF good[i] THEN Block(o, i) ELSE Zeros) \in Nat \X Nat
    BY <2>1 DEF Block, Zeros
  <2>3. Blocks(o) = [i \in 1 .. Len(good) |-> IF good[i] THEN Block(o, i) ELSE Zeros]
    BY <1>1, <1>2 DEF Blocks
  <2> QED
    BY <1>2, <2>2, <2>3 DEF Contents
<1>4. Lost(o) \in Nat
  <2>1. IsFiniteSet(1 .. Len(good))
    BY <1>2, FS_Interval
  <2>2. IsFiniteSet({i \in 1 .. Len(good) : ~good[i]})
    BY <2>1, FS_Subset
  <2> QED
    BY <1>1, <1>2, <2>2, FS_CardinalityType DEF Lost
<1> QED
  BY <1>3, <1>4

LEMMA ObjectWrittenKeepsInv ==
  ASSUME IInv, ObjectWritten
  PROVE  IInv'
<1>1. /\ phase = "objects" /\ slot <= NObjects /\ Gets(slot) /\ disk.kind[slot] # "free"
      /\ slot' = NextObject(slot)
      /\ UNCHANGED <<source, flag, phase, roots, walk, listing, out, copy, written, cut, exit>>
  BY DEF ObjectWritten
<1>2. slot \in Objects /\ DatasetOK /\ files \in Seq(RecordType) /\ opt.command = "objects"
  BY <1>1, NamesAssumption DEF IInv, TypeOK, PhasesFollow, Objects
<1>3. slot \in There /\ \A i \in DOMAIN files : files[i].object \in There
  BY <1>1, <1>2 DEF IInv, ObjectsSoFar, There
<1>4. NextObject(slot) \in Nat
  <2>1. disk.extra[slot] \in Nat /\ slot \in Nat
    BY <1>2, DatasetFacts, NamesAssumption DEF DatasetType, Objects
  <2> QED
    BY <2>1 DEF NextObject
<1>5. PICK r \in RecordType : files' = Append(files, r) /\ r.path = <<>> /\ r.object = slot
  <2>1. CASE files' = Append(files, Copied(Entry(<<>>, slot, TRUE), Blocks(slot), Lost(slot)))
    <3>1. PICK b, n : b = Blocks(slot) /\ n = Lost(slot)
      OBVIOUS
    <3>2. b \in Contents /\ n \in Nat
      BY <1>2, <3>1, ContentsOfObject
    <3>3. PICK r : r = [path |-> <<>>, object |-> slot, digest |-> {b}, errors |-> n, failed |-> FALSE]
      OBVIOUS
    <3>4. files' = Append(files, r)
      BY <2>1, <3>1, <3>3 DEF Copied, Record, Entry
    <3>5. r \in RecordType
      BY <1>2, <3>2, <3>3 DEF RecordType, Paths
    <3> QED
      BY <3>3, <3>4, <3>5
  <2>2. CASE files' = Append(files, Failed(Entry(<<>>, slot, TRUE)))
    <3>1. PICK r : r = [path |-> <<>>, object |-> slot, digest |-> {}, errors |-> 0, failed |-> TRUE]
      OBVIOUS
    <3>2. files' = Append(files, r)
      BY <2>2, <3>1 DEF Failed, Record, Entry
    <3>3. r \in RecordType
      BY <1>2, <3>1 DEF RecordType, Paths
    <3> QED
      BY <3>1, <3>2, <3>3
  <2> QED
    BY <2>1, <2>2 DEF ObjectWritten
<1>6. /\ files' \in Seq(RecordType) /\ DOMAIN files' = 1 .. Len(files) + 1 /\ Len(files) \in Nat
      /\ files'[Len(files) + 1] = r /\ DOMAIN files = 1 .. Len(files)
      /\ \A i \in 1 .. Len(files) : files'[i] = files[i]
  BY <1>2, <1>5
<1>7. \A i \in DOMAIN files' : files'[i].object \in There
  <2>1. \A i \in DOMAIN files' : i \in DOMAIN files \/ i = Len(files) + 1
    BY <1>6
  <2> QED
    BY <1>3, <1>5, <1>6, <2>1
<1>8. \A o \in There : HasRecord(<<>>, o) \/ o = slot =>
        \E i \in DOMAIN files' : files'[i].path = <<>> /\ files'[i].object = o
  <2>1. Len(files) + 1 \in DOMAIN files' /\ \A i \in DOMAIN files : i \in DOMAIN files'
    BY <1>6
  <2> QED
    BY <1>5, <1>6, <2>1 DEF HasRecord
<1>9. PICK t \in Nat : t = NextObject(slot)
  BY <1>4
<1> QED
  BY <1>1, <1>6, <1>7, <1>8, <1>9, ObjectsStep

LEMMA ObjectsEndKeepsInv ==
  ASSUME IInv, ObjectsEnd
  PROVE  IInv'
<1>1. /\ phase = "objects" /\ slot > NObjects /\ phase' = "ended"
      /\ exit' \in {"INTERRUPTED", "PARTIAL", "0", "MEDIUM", "USAGE"}
      /\ UNCHANGED <<source, flag, roots, walk, listing, out, copy, ledger, slot, cut>>
  BY CodeIsAnExit DEF ObjectsEnd, Ends
<1>2. /\ disk' = disk /\ opt' = opt /\ UNCHANGED source /\ flag' = flag /\ copy' = copy
      /\ stack' = stack /\ walked' = walked /\ written' = written /\ files' = files
      /\ roots' = roots /\ listing' = listing /\ slot' = slot /\ cut' = cut /\ out' = out
  BY <1>1 DEF source, walk, ledger
<1>3. opt.command = "objects"
  BY <1>1 DEF IInv, PhasesFollow
<1>4. TypeOK' /\ PhasesFollow'
  BY <1>1, <1>2 DEF IInv, TypeOK, PhasesFollow, DatasetOK, Exits
<1>5. EntriesArePlaced'
  BY <1>2, EntriesNext DEF IInv, EntriesArePlaced
<1>6. CopyIsPlaced' /\ HostStands' /\ ManifestTells' /\ RecordsTell' /\ ZeroIsWhole'
  BY <1>1, <1>2, <1>3, NotZero DEF CopyIsPlaced, HostStands, ManifestTells, RecordsTell
<1>7. ObjectsSoFar'
  <2>1. There' = There
    BY <1>2 DEF There, Gets
  <2>2. \A o \in There : o < slot
    BY <1>1, NamesAssumption DEF There, Objects, IInv, TypeOK
  <2>3. \A o \in There : HasRecord(<<>>, o)'
    BY <1>1, <1>2, <1>3, <2>2 DEF IInv, ObjectsSoFar, HasRecord
  <2> QED
    BY <1>1, <1>2, <1>3, <2>1, <2>3 DEF ObjectsSoFar, IInv
<1> QED
  BY <1>4, <1>5, <1>6, <1>7 DEF IInv

-----------------------------------------------------------------------------
\* The theorems.

LEMMA InitIsOK ==
  ASSUME Init
  PROVE  IInv
<1>1. DatasetOK /\ opt \in CommandLines /\ 1 \in Objects /\ <<>> \in Paths /\ Dir \in InodeType
  BY NamesAssumption DEF Init, DatasetOK, Objects, Paths, Dir, InodeType, Contents
<1>2. HostOK(out)
  <2>1. PICK d : d = Dir
    OBVIOUS
  <2>2. /\ out.inodes = <<d>> /\ out.tree = [x \in {<<>>} |-> 1]
        /\ out = [tree |-> out.tree, inodes |-> out.inodes]
    BY <2>1 DEF Init
  <2>3. out.inodes \in Seq(InodeType) /\ Len(out.inodes) = 1
    BY <1>1, <2>1, <2>2
  <2> QED
    BY <1>1, <2>2, <2>3 DEF HostOK
<1>3. copy \in CopyType
  BY <1>1 DEF Init, NoCopy, Entry, CopyType, EntryType
<1>4. WrittenOK(written)
  BY DEF Init, WrittenOK
<1>5. TypeOK
  <2>1. /\ roots \in Seq(EntryType) /\ stack \in Seq(FrameType) /\ listing \in Seq(EntryType)
        /\ files \in Seq(RecordType) /\ walked \subseteq Objects
    BY DEF Init
  <2>2. flag \in BOOLEAN /\ cut \in BOOLEAN
    BY DEF Init
  <2>3. slot \in Nat \ {0}
    BY DEF Init
  <2>4. exit = "running"
    BY DEF Init
  <2>5. phase = "open"
    BY DEF Init
  <2> QED
    BY <1>1, <1>2, <1>3, <1>4, <2>1, <2>2, <2>3, <2>4, <2>5 DEF TypeOK, Exits
<1>6. PhasesFollow /\ EntriesArePlaced /\ CopyIsPlaced
  BY DEF Init, PhasesFollow, EntriesArePlaced, CopyIsPlaced
<1>7. HostStands
  BY DEF Init, HostStands, TreeStands, NamesApart, FirstsStand, DigestsStand
<1>8. ManifestTells /\ RecordsTell /\ ZeroIsWhole /\ ObjectsSoFar
  BY DEF Init, ManifestTells, RecordsTell, LinesTell, ZeroIsWhole, Extracted, ObjectsSoFar
<1> QED
  BY <1>5, <1>6, <1>7, <1>8 DEF IInv

LEMMA StutterKeepsInv ==
  ASSUME IInv, UNCHANGED vars
  PROVE  IInv'
<1>1. /\ disk' = disk /\ opt' = opt /\ UNCHANGED source /\ flag' = flag /\ copy' = copy
      /\ stack' = stack /\ walked' = walked /\ written' = written /\ files' = files
      /\ roots' = roots /\ listing' = listing /\ slot' = slot /\ cut' = cut /\ out' = out
      /\ exit' = exit /\ phase' = phase
  BY DEF vars, source
<1>2. TypeOK' /\ PhasesFollow'
  BY <1>1 DEF IInv, TypeOK, PhasesFollow, DatasetOK
<1>3. EntriesArePlaced'
  BY <1>1, EntriesNext DEF IInv, EntriesArePlaced
<1>4. CopyIsPlaced' /\ HostStands' /\ RecordsTell'
  BY <1>1, CopyNext, StandsNext, TellsNext DEF IInv, CopyIsPlaced, HostStands, RecordsTell
<1>5. ManifestTells'
  BY <1>1 DEF IInv, ManifestTells, Overwritten, At
<1>6. ZeroIsWhole'
  BY <1>1, ZeroNext DEF IInv, ZeroIsWhole, Extracted
<1>7. ObjectsSoFar'
  BY <1>1 DEF IInv, ObjectsSoFar, There, Gets, HasRecord
<1> QED
  BY <1>2, <1>3, <1>4, <1>5, <1>6, <1>7 DEF IInv

LEMMA StepKeepsInv ==
  ASSUME IInv, [Next]_vars
  PROVE  IInv'
<1>1. CASE Interrupt \/ OpenFails \/ Open
  BY <1>1, InterruptKeepsInv, OpenFailsKeepsInv, OpenKeepsInv
<1>2. CASE TakeRoot \/ WalkEntry \/ WalkReturn \/ WalkEnds
  BY <1>2, TakeRootKeepsInv, WalkEntryKeepsInv, WalkReturnKeepsInv, WalkEndsKeepsInv
<1>3. CASE NextEntry \/ EndEntries
  BY <1>3, EntriesLoopKeepsInv
<1>4. CASE EntryRefused \/ EntryDir \/ EntrySymlink \/ EntryLink \/ EntryFile
  BY <1>4, EntryRefusedKeepsInv, EntryDirKeepsInv, EntrySymlinkKeepsInv, EntryLinkKeepsInv,
     EntryFileKeepsInv
<1>5. CASE CopyBlock \/ CopyStops \/ CopyEnds
  BY <1>5, CopyBlockKeepsInv, CopyStopsKeepsInv, CopyEndsKeepsInv
<1>6. CASE LastRoot \/ WriteManifest
  BY <1>6, LastRootKeepsInv, WriteManifestKeepsInv
<1>7. CASE ObjectSkipped \/ ObjectWritten \/ ObjectsEnd
  BY <1>7, ObjectSkippedKeepsInv, ObjectWrittenKeepsInv, ObjectsEndKeepsInv
<1>8. CASE UNCHANGED vars
  BY <1>8, StutterKeepsInv
<1> QED
  BY <1>1, <1>2, <1>3, <1>4, <1>5, <1>6, <1>7, <1>8 DEF Next

\* Everything the rest stands on is so in every state of a run.
THEOREM InvariantHolds == Spec => []IInv
<1>1. Init => IInv
  BY InitIsOK
<1>2. IInv /\ [Next]_vars => IInv'
  BY StepKeepsInv
<1> QED
  BY <1>1, <1>2, PTL DEF Spec

\* The state of an extraction: an output tree whose names are the host's
\* inodes, a walk, a copy and a manifest.
THEOREM ExtractTypes == Spec => []TypeOK
<1>1. IInv => TypeOK
  BY DEF IInv
<1> QED
  BY <1>1, InvariantHolds, PTL

\* extract_entry and copy_file: a digest in the manifest is of the file under
\* that name, whatever was written or linked after it.
THEOREM ManifestTellsHolds == Spec => []ManifestTells
<1>1. IInv => ManifestTells
  BY DEF IInv
<1> QED
  BY <1>1, InvariantHolds, PTL

\* run(): a run that exits 0 recorded no failure and no error, and then every
\* line is of an object that reads, every digest of the whole of a file.
THEOREM ZeroIsWholeHolds == Spec => []ZeroIsWhole
<1>1. IInv => ZeroIsWhole
  BY DEF IInv
<1> QED
  BY <1>1, InvariantHolds, PTL

\* next_object: `objects` steps over the slots a large dnode owns, and
\* over nothing else that reads.
THEOREM ObjectsAreTheDatasetHolds == Spec => []ObjectsAreTheDataset
<1>1. IInv => ObjectsAreTheDataset
  BY DEF IInv, ObjectsSoFar, ObjectsAreTheDataset, There
<1> QED
  BY <1>1, InvariantHolds, PTL

-----------------------------------------------------------------------------
\* What a walk has reached and what it still has to do, in an extraction.

\* The names there are lines of, or will be: what was handled, what is listed,
\* what is being copied.
PathsOf(s) == {s[i].path : i \in DOMAIN s}
Lines ==
  PathsOf(files) \cup PathsOf(listing) \cup (IF phase = "copy" THEN {copy.entry.path} ELSE {})

\* The first k components of p lead to a directory that lists, and the next is
\* the name of a directory in it.
Leads(p, k) ==
  LET o == Lookup(Upto(p, k))
  IN  /\ o # Nowhere /\ Lists(o)
      /\ \E j \in DOMAIN disk.dirs[o] : disk.dirs[o][j].name = p[k + 1] /\ IsDir(disk.dirs[o][j])

\* From q to p a walk goes down through directories.
Way(q, p) ==
  /\ Len(q) <= Len(p) /\ Upto(p, Len(q)) = q
  /\ \A k \in Len(q) .. Len(p) - 1 : Leads(p, k)

\* p is a place asked for, or an entry of a directory on the way from one.
EntryOf(d, p) ==
  /\ Lookup(d) # Nowhere /\ Lists(Lookup(d))
  /\ \E j \in DOMAIN disk.dirs[Lookup(d)] : p = Append(d, disk.dirs[Lookup(d)][j].name)
Reached(p) ==
  \E q \in Asked : p = q \/ (Reads(Lookup(q)) /\ \E d \in Paths : Way(q, d) /\ EntryOf(d, p))

LinesAreReached == \A p \in Lines : Reached(p)
PlacesAsked ==
  /\ \A i \in DOMAIN roots : roots[i].path \in Asked
  /\ phase # "open" /\ exit \in {"running", "0", "PARTIAL"} =>
       \A q \in Asked : Lookup(q) # Nowhere
ListingIsDone == phase \in {"open", "roots", "manifest", "ended"} => listing = <<>>

\* The rest of a directory is the end of it.
Remaining(f) ==
  LET all == disk.dirs[Lookup(f.path)]
  IN  /\ Len(f.rest) <= Len(all)
      /\ \A m \in DOMAIN f.rest : f.rest[m] = all[Len(all) - Len(f.rest) + m]
FramesOK(st, q) ==
  \A i \in DOMAIN st :
    /\ Reads(Lookup(q)) /\ Way(q, st[i].path) /\ Remaining(st[i])
    /\ Len(st[i].path) = Len(q) + st[i].depth
FramesStand == phase = "walk" => FramesOK(stack, roots[1].path)

\* Where every directory has one name, each is walked once, before anything
\* that is still to come from it.
WalkedOnce(ws, st, q) ==
  /\ \A i, j \in DOMAIN st : i # j => Lookup(st[i].path) # Lookup(st[j].path)
  /\ \A i \in DOMAIN st : Lookup(st[i].path) \in ws
  /\ \A i \in DOMAIN st : \A m \in DOMAIN st[i].rest :
       disk.kind[st[i].rest[m].object] = "dir" => st[i].rest[m].object \notin ws
  /\ \A o \in ws : o = Lookup(q) \/ \E d \in ws : \E j \in DOMAIN disk.dirs[d] : disk.dirs[d][j].object = o
WalksOnce == TreeShaped /\ phase = "walk" => WalkedOnce(walked, stack, roots[1].path)

\* p is, or is below, an entry a directory has left.
Pending(st, p) ==
  \E i \in DOMAIN st : \E m \in DOMAIN st[i].rest :
    /\ Len(st[i].path) < Len(p)
    /\ Upto(p, Len(st[i].path) + 1) = Append(st[i].path, st[i].rest[m].name)

\* There is a line for every name within MaxDepth of q, or it is to come.
Covered(q, ls, st) ==
  Reads(Lookup(q)) =>
    \A d \in Paths :
      Way(q, d) /\ Len(d) <= Len(q) + MaxDepth /\ Lookup(d) # Nowhere /\ Lists(Lookup(d)) =>
        \A j \in DOMAIN disk.dirs[Lookup(d)] :
          LET p == Append(d, disk.dirs[Lookup(d)][j].name) IN p \in ls \/ Pending(st, p)

\* The places asked for are covered, but for those still to do.
SoFar(ls, st, rs, ph) ==
  \A q \in Asked :
    \/ Covered(q, ls, <<>>)
    \/ ph = "walk" /\ q = rs[1].path /\ Covered(q, ls, st)
    \/ \E i \in DOMAIN rs : rs[i].path = q /\ (ph # "roots" => i # 1)
AllCovered ==
  TreeShaped =>
    /\ ~flag /\ phase \in {"roots", "walk", "entries", "entry", "copy"} =>
         SoFar(Lines, stack, roots, phase)
    /\ (phase = "manifest" /\ ~cut) \/ exit \in {"0", "PARTIAL"} =>
         \A q \in Asked : Covered(q, Lines, <<>>)

WalkInv ==
  opt.command = "extract" =>
    /\ LinesAreReached /\ PlacesAsked /\ ListingIsDone /\ FramesStand /\ WalksOnce /\ AllCovered

-----------------------------------------------------------------------------
\* Prefixes.

LEMMA SamePath ==
  ASSUME NEW p \in Paths, NEW q \in Paths, Len(p) = Len(q), \A i \in 1 .. Len(p) : p[i] = q[i]
  PROVE  p = q
BY SeqEqual DEF Paths

LEMMA UptoAt ==
  ASSUME NEW p \in Paths, NEW n \in 0 .. Len(p)
  PROVE  /\ Upto(p, n) \in Paths /\ Len(Upto(p, n)) = n
         /\ \A i \in 1 .. n : Upto(p, n)[i] = p[i]
<1>1. p \in Seq(Names) /\ n \in Int /\ 1 \in Int /\ \A i \in 1 .. n : p[i] \in Names
  BY DEF Paths
<1>2. \A i \in 1 .. n : SubSeq(p, 1, n)[i] = p[i]
  BY <1>1
<1> QED
  BY <1>2, PrefixesOf DEF Upto

LEMMA UptoAll ==
  ASSUME NEW p \in Paths
  PROVE  Len(p) \in Nat /\ Upto(p, Len(p)) = p
BY SubSeqFull DEF Paths, Upto

LEMMA PathAppend ==
  ASSUME NEW p \in Paths, NEW n \in Names
  PROVE  /\ Append(p, n) \in Paths /\ Len(Append(p, n)) = Len(p) + 1 /\ Len(p) \in Nat
         /\ Append(p, n)[Len(p) + 1] = n /\ \A i \in 1 .. Len(p) : Append(p, n)[i] = p[i]
BY DEF Paths

LEMMA UptoOfAppend ==
  ASSUME NEW p \in Paths, NEW n \in Names, NEW k \in 0 .. Len(p)
  PROVE  Upto(Append(p, n), k) = Upto(p, k)
<1>1. PICK q : q = Append(p, n)
  OBVIOUS
<1>2. /\ q \in Paths /\ Len(q) = Len(p) + 1 /\ Len(p) \in Nat
      /\ \A i \in 1 .. Len(p) : q[i] = p[i]
  BY <1>1, PathAppend
<1>3. k \in 0 .. Len(q) /\ \A i \in 1 .. k : i \in 1 .. Len(p)
  BY <1>2
<1>4. /\ Upto(q, k) \in Paths /\ Len(Upto(q, k)) = k /\ \A i \in 1 .. k : Upto(q, k)[i] = q[i]
      /\ Upto(p, k) \in Paths /\ Len(Upto(p, k)) = k /\ \A i \in 1 .. k : Upto(p, k)[i] = p[i]
  BY <1>2, <1>3, UptoAt
<1>5. Upto(q, k) = Upto(p, k)
  BY <1>2, <1>3, <1>4, SamePath
<1> QED
  BY <1>1, <1>5

LEMMA UptoNext ==
  ASSUME NEW p \in Paths, NEW k \in 0 .. Len(p) - 1
  PROVE  p[k + 1] \in Names /\ Upto(p, k + 1) = Append(Upto(p, k), p[k + 1])
<1>1. /\ Len(p) \in Nat /\ k \in 0 .. Len(p) /\ k + 1 \in 0 .. Len(p) /\ p[k + 1] \in Names
      /\ \A i \in 1 .. k + 1 : i \in 1 .. k \/ i = k + 1
  BY DEF Paths
<1>2. PICK u, v, n : u = Upto(p, k) /\ v = Upto(p, k + 1) /\ n = p[k + 1]
  OBVIOUS
<1>3. /\ u \in Paths /\ Len(u) = k /\ \A i \in 1 .. k : u[i] = p[i]
      /\ v \in Paths /\ Len(v) = k + 1 /\ \A i \in 1 .. k + 1 : v[i] = p[i]
  BY <1>1, <1>2, UptoAt
<1>4. /\ Append(u, n) \in Paths /\ Len(Append(u, n)) = k + 1 /\ Append(u, n)[k + 1] = n
      /\ \A i \in 1 .. k : Append(u, n)[i] = u[i]
  BY <1>1, <1>2, <1>3, PathAppend
<1>5. \A i \in 1 .. k + 1 : v[i] = Append(u, n)[i]
  BY <1>1, <1>2, <1>3, <1>4
<1>6. v = Append(u, n)
  BY <1>3, <1>4, <1>5, SamePath
<1> QED
  BY <1>1, <1>2, <1>6

-----------------------------------------------------------------------------
\* In a tree every path to a directory has one length.

LEMMA ChildIsAnEntry ==
  ASSUME DatasetOK, NEW o \in Objects, NEW n, Child(o, n) # Nowhere
  PROVE  Lists(o) /\ \E j \in DOMAIN disk.dirs[o] : disk.dirs[o][j].object = Child(o, n)
<1> DEFINE of == disk.dirs[o]
           exact == {i \in DOMAIN of : of[i].name = n}
           alike == {i \in DOMAIN of : Folded[of[i].name] = Folded[n]}
           first(S) == CHOOSE i \in S : \A j \in S : i <= j
<1>1. of \in Seq(DirEntries) /\ DOMAIN of \subseteq Nat
  BY DatasetsAssumption DEF DatasetOK, DatasetType
<1>2. ASSUME NEW S \in SUBSET DOMAIN of, S # {}
      PROVE  first(S) \in DOMAIN of
  <2> HIDE DEF of
  <2> QED
    BY <1>1, <1>2, HasLeast
<1>3. exact \in SUBSET DOMAIN of /\ alike \in SUBSET DOMAIN of
  OBVIOUS
<1>4. CASE ~Lists(o)
  BY <1>4 DEF Child
<1>5. CASE Lists(o) /\ exact # {}
  <2>1. Child(o, n) = of[first(exact)].object
    BY <1>5 DEF Child, Nowhere, Objects
  <2> HIDE DEF of, exact, first
  <2>2. first(exact) \in DOMAIN of
    BY <1>2, <1>3, <1>5
  <2> QED
    BY <1>5, <2>1, <2>2 DEF of
<1>6. CASE Lists(o) /\ exact = {} /\ alike # {}
  <2>1. Child(o, n) = of[first(alike)].object
    BY <1>6 DEF Child, Nowhere, Objects
  <2> HIDE DEF of, alike, first
  <2>2. first(alike) \in DOMAIN of
    BY <1>2, <1>3, <1>6
  <2> QED
    BY <1>6, <2>1, <2>2 DEF of
<1>7. CASE exact = {} /\ alike = {}
  BY <1>7 DEF Child
<1> QED
  BY <1>4, <1>5, <1>6, <1>7

\* What a path leads to is an entry of what the path without its last name
\* leads to.
LEMMA AboveIsADirectory ==
  ASSUME DatasetOK, NEW p \in Paths, NEW n \in Nat, Len(p) = n + 1, Lookup(p) # Nowhere
  PROVE  /\ Upto(p, n) \in Paths /\ Len(Upto(p, n)) = n
         /\ Lookup(Upto(p, n)) \in Objects /\ Lists(Lookup(Upto(p, n)))
         /\ \E j \in DOMAIN disk.dirs[Lookup(Upto(p, n))] :
              disk.dirs[Lookup(Upto(p, n))][j].object = Lookup(p)
<1>1. n \in 0 .. Len(p) /\ n \in 0 .. Len(p) - 1
  OBVIOUS
<1>2. PICK u, m : u = Upto(p, n) /\ m = p[n + 1]
  OBVIOUS
<1>3. u \in Paths /\ Len(u) = n
  BY <1>1, <1>2, UptoAt
<1>4. m \in Names /\ p = Append(u, m)
  <2>1. p[n + 1] \in Names /\ Upto(p, n + 1) = Append(Upto(p, n), p[n + 1])
    BY <1>1, UptoNext
  <2>2. Upto(p, n + 1) = p
    BY UptoAll
  <2> QED
    BY <1>2, <2>1, <2>2
<1>5. Lookup(p) = Below(Lookup(u), m)
  BY <1>3, <1>4, LookupOfEntry
<1>6. Lookup(u) \in Objects /\ Child(Lookup(u), m) = Lookup(p)
  BY <1>3, <1>5, LookupIsAPlace DEF Below, Places
<1> QED
  BY <1>2, <1>3, <1>6, ChildIsAnEntry

LEMMA OneDepth ==
  ASSUME DatasetOK, TreeShaped, NEW p \in Paths, NEW q \in Paths,
         Lookup(p) = Lookup(q), Lookup(p) \in Objects, disk.kind[Lookup(p)] = "dir"
  PROVE  Len(p) = Len(q)
<1> DEFINE Same(n) == \A x, y \in Paths :
             /\ Len(x) = n /\ Lookup(x) = Lookup(y) /\ Lookup(x) \in Objects
             /\ disk.kind[Lookup(x)] = "dir"
             => Len(y) = n
           S == {n \in Nat : Same(n)}
<1>1. \A x \in Paths : Len(x) \in Nat
  BY DEF Paths
<1>2. ASSUME NEW o \in Objects, NEW j \in DOMAIN disk.dirs[o],
             disk.kind[disk.dirs[o][j].object] = "dir"
      PROVE  /\ disk.dirs[o][j].object # disk.root
             /\ \A d \in Objects : \A i \in DOMAIN disk.dirs[d] :
                  disk.dirs[d][i].object = disk.dirs[o][j].object => d = o
  BY <1>2 DEF TreeShaped
<1>3. \A o \in Objects : o # Nowhere
  BY DEF Objects, Nowhere
<1>4. \A x \in Paths : Len(x) = 0 => Lookup(x) = disk.root
  BY LookupOfRoot DEF Paths
<1>5. Same(0)
  <2> SUFFICES ASSUME NEW x \in Paths, NEW y \in Paths, Len(x) = 0, Lookup(x) = Lookup(y),
                      Lookup(x) \in Objects, disk.kind[Lookup(x)] = "dir", Len(y) # 0
               PROVE  FALSE
    OBVIOUS
  <2>1. PICK m \in Nat : Len(y) = m + 1
    <3>1. Len(y) - 1 \in Nat /\ Len(y) = Len(y) - 1 + 1
      BY <1>1
    <3> QED
      BY <3>1
  <2>2. PICK d \in Objects : \E j \in DOMAIN disk.dirs[d] : disk.dirs[d][j].object = Lookup(y)
    BY <1>3, <2>1, AboveIsADirectory
  <2> QED
    BY <1>2, <1>4, <2>2
<1>6. ASSUME NEW n \in S
      PROVE  n + 1 \in S
  <2> SUFFICES ASSUME NEW x \in Paths, NEW y \in Paths, Len(x) = n + 1, Lookup(x) = Lookup(y),
                      Lookup(x) \in Objects, disk.kind[Lookup(x)] = "dir"
               PROVE  Len(y) = n + 1
    OBVIOUS
  <2>1. PICK u \in Paths : /\ Len(u) = n /\ Lookup(u) \in Objects /\ Lists(Lookup(u))
                           /\ \E j \in DOMAIN disk.dirs[Lookup(u)] : disk.dirs[Lookup(u)][j].object = Lookup(x)
    BY <1>3, AboveIsADirectory
  <2>2. Len(y) # 0
    BY <1>2, <1>4, <2>1
  <2>3. PICK m \in Nat : Len(y) = m + 1
    <3>1. Len(y) - 1 \in Nat /\ Len(y) = Len(y) - 1 + 1
      BY <1>1, <2>2
    <3> QED
      BY <3>1
  <2>4. PICK v \in Paths : /\ Len(v) = m /\ Lookup(v) \in Objects /\ Lists(Lookup(v))
                           /\ \E j \in DOMAIN disk.dirs[Lookup(v)] : disk.dirs[Lookup(v)][j].object = Lookup(y)
    BY <1>3, <2>3, AboveIsADirectory
  <2>5. Lookup(u) = Lookup(v)
    BY <1>2, <2>1, <2>4
  <2>6. disk.kind[Lookup(u)] = "dir"
    BY <2>1 DEF Lists
  <2>7. Len(v) = n
    BY <2>1, <2>4, <2>5, <2>6
  <2> QED
    BY <2>3, <2>4, <2>7
<1>7. S \in SUBSET Nat /\ 0 \in S
  BY <1>5
<1> HIDE DEF S
<1>8. Len(p) \in S
  BY <1>1, <1>6, <1>7, SetInduction
<1> QED
  BY <1>8 DEF S

-----------------------------------------------------------------------------
\* The way of a walk.

LEMMA WayStarts ==
  ASSUME NEW q \in Paths
  PROVE  Way(q, q)
BY UptoAll DEF Way

LEMMA WayGoesOn ==
  ASSUME NEW q \in Paths, NEW d \in Paths, Way(q, d), Lookup(d) # Nowhere, Lists(Lookup(d)),
         NEW j \in DOMAIN disk.dirs[Lookup(d)], IsDir(disk.dirs[Lookup(d)][j]),
         NEW n \in Names, n = disk.dirs[Lookup(d)][j].name
  PROVE  Way(q, Append(d, n))
<1>1. PICK p : p = Append(d, n)
  OBVIOUS
<1>2. /\ p \in Paths /\ Len(p) = Len(d) + 1 /\ Len(d) \in Nat /\ Len(q) \in Nat /\ p[Len(d) + 1] = n
      /\ \A i \in 1 .. Len(d) : p[i] = d[i]
  BY <1>1, PathAppend DEF Paths
<1>3. Len(q) <= Len(d) /\ Upto(d, Len(q)) = q
  BY DEF Way
<1>4. \A k \in 0 .. Len(d) : Upto(p, k) = Upto(d, k)
  BY <1>1, UptoOfAppend
<1>5. Upto(p, Len(q)) = q
  BY <1>2, <1>3, <1>4
<1>6. Upto(p, Len(d)) = d
  BY <1>2, <1>4, UptoAll
<1>7. Leads(p, Len(d))
  BY <1>2, <1>6 DEF Leads
<1>8. ASSUME NEW k \in Len(q) .. Len(d) - 1
      PROVE  Leads(p, k)
  <2>1. k \in 0 .. Len(d) /\ k + 1 \in 1 .. Len(d)
    BY <1>2
  <2>2. Leads(d, k)
    BY DEF Way
  <2> QED
    BY <1>2, <1>4, <2>1, <2>2 DEF Leads
<1>9. \A k \in Len(q) .. Len(p) - 1 : k = Len(d) \/ k \in Len(q) .. Len(d) - 1
  BY <1>2, <1>3
<1> QED
  BY <1>1, <1>2, <1>3, <1>5, <1>7, <1>8, <1>9 DEF Way

LEMMA WayFrom ==
  ASSUME NEW o \in Paths, NEW q \in Paths, NEW p \in Paths, Way(o, p),
         Len(o) <= Len(q), Len(q) <= Len(p), Upto(p, Len(q)) = q
  PROVE  Way(q, p)
<1>1. Len(o) \in Nat /\ Len(q) \in Nat /\ Len(p) \in Nat
  BY DEF Paths
<1>2. \A k \in Len(q) .. Len(p) - 1 : k \in Len(o) .. Len(p) - 1
  BY <1>1
<1> QED
  BY <1>2 DEF Way

LEMMA EntryLeads ==
  ASSUME DatasetOK, NEW p \in Paths, Lookup(p) # Nowhere, Lists(Lookup(p)),
         NEW j \in DOMAIN disk.dirs[Lookup(p)]
  PROVE  /\ disk.dirs[Lookup(p)][j] \in DirEntries
         /\ disk.dirs[Lookup(p)][j].name \in Names /\ disk.dirs[Lookup(p)][j].object \in Objects
         /\ Lookup(Append(p, disk.dirs[Lookup(p)][j].name)) = disk.dirs[Lookup(p)][j].object
<1>1. PICK o, e : o = Lookup(p) /\ e = disk.dirs[o][j]
  OBVIOUS
<1>2. o \in Objects
  BY <1>1, LookupIsAPlace DEF Places
<1>3. e \in DirEntries
  BY <1>1, <1>2, DatasetsAssumption DEF DatasetOK, DatasetType
<1>4. e.name \in Names /\ e.object \in Objects
  BY <1>3 DEF DirEntries
<1>5. Lookup(Append(p, e.name)) = Below(o, e.name)
  BY <1>1, <1>4, LookupOfEntry
<1>6. Below(o, e.name) = e.object
  BY <1>1, <1>2, ChildOfEntry DEF Below
<1> QED
  BY <1>1, <1>3, <1>4, <1>5, <1>6

\* A directory f on the way to an entry has the name that goes on.
LEMMA NextOnTheWay ==
  ASSUME DatasetOK, NEW q \in Paths, NEW d \in Paths, NEW f \in Paths, Way(q, d),
         Len(q) <= Len(f), Len(f) <= Len(d), Upto(d, Len(f)) = f,
         Lookup(d) # Nowhere, Lists(Lookup(d))
  PROVE  /\ Lookup(f) # Nowhere /\ Lists(Lookup(f))
         /\ \A j \in DOMAIN disk.dirs[Lookup(d)] :
              LET p == Append(d, disk.dirs[Lookup(d)][j].name)
              IN  /\ Len(f) < Len(p)
                  /\ \E m \in DOMAIN disk.dirs[Lookup(f)] :
                       /\ Upto(p, Len(f) + 1) = Append(f, disk.dirs[Lookup(f)][m].name)
                       /\ Len(f) < Len(d) => IsDir(disk.dirs[Lookup(f)][m])
<1> SUFFICES ASSUME NEW j \in DOMAIN disk.dirs[Lookup(d)]
             PROVE  LET p == Append(d, disk.dirs[Lookup(d)][j].name)
                    IN  /\ Len(f) < Len(p)
                        /\ \E m \in DOMAIN disk.dirs[Lookup(f)] :
                             /\ Upto(p, Len(f) + 1) = Append(f, disk.dirs[Lookup(f)][m].name)
                             /\ Len(f) < Len(d) => IsDir(disk.dirs[Lookup(f)][m])
  <2>1. Len(q) \in Nat /\ Len(d) \in Nat /\ Len(f) \in Nat
    BY DEF Paths
  <2>2. CASE Len(f) = Len(d)
    BY <2>2, UptoAll
  <2>3. CASE Len(f) < Len(d)
    <3>1. Len(f) \in Len(q) .. Len(d) - 1
      BY <2>1, <2>3
    <3>2. Leads(d, Len(f))
      BY <3>1 DEF Way
    <3> QED
      BY <3>2 DEF Leads
  <2> QED
    BY <2>1, <2>2, <2>3
<1> PICK n, p : n = disk.dirs[Lookup(d)][j].name /\ p = Append(d, n)
  OBVIOUS
<1>1. /\ p \in Paths /\ Len(p) = Len(d) + 1 /\ Len(d) \in Nat /\ Len(q) \in Nat /\ Len(f) \in Nat
      /\ n \in Names /\ p[Len(d) + 1] = n /\ \A i \in 1 .. Len(d) : p[i] = d[i]
  <2>1. n \in Names
    BY EntryLeads
  <2> QED
    BY <2>1, PathAppend DEF Paths
<1>2. Upto(p, Len(f)) = f
  BY <1>1, UptoOfAppend
<1>3. Upto(p, Len(f) + 1) = Append(f, p[Len(f) + 1])
  <2>1. Len(f) \in 0 .. Len(p) - 1
    BY <1>1
  <2>2. Upto(p, Len(f) + 1) = Append(Upto(p, Len(f)), p[Len(f) + 1])
    BY <1>1, <2>1, UptoNext
  <2> QED
    BY <1>2, <2>2
<1>4. CASE Len(f) = Len(d)
  <2>1. f = d
    BY <1>4, UptoAll
  <2> QED
    BY <1>1, <1>3, <2>1
<1>5. CASE Len(f) < Len(d)
  <2>1. Len(f) \in Len(q) .. Len(d) - 1 /\ p[Len(f) + 1] = d[Len(f) + 1]
    BY <1>1, <1>5
  <2>2. Leads(d, Len(f))
    BY <2>1 DEF Way
  <2> QED
    BY <1>1, <1>3, <2>1, <2>2 DEF Leads
<1> QED
  BY <1>1, <1>4, <1>5

\* Where nothing lists there is nothing below.
LEMMA NothingBelow ==
  ASSUME NEW q \in Paths, ~Lists(Lookup(q)), NEW ls, NEW st
  PROVE  Covered(q, ls, st)
<1> SUFFICES ASSUME NEW d \in Paths, Way(q, d), Lists(Lookup(d)) PROVE FALSE
  BY DEF Covered
<1>1. Len(q) \in Nat /\ Len(d) \in Nat /\ Len(q) <= Len(d) /\ Upto(d, Len(q)) = q
  BY DEF Way, Paths
<1>2. CASE Len(q) = Len(d)
  BY <1>1, <1>2, UptoAll
<1>3. CASE Len(q) < Len(d)
  <2>1. Leads(d, Len(q))
    BY <1>1, <1>3 DEF Way
  <2> QED
    BY <1>1, <2>1 DEF Leads
<1> QED
  BY <1>1, <1>2, <1>3

LEMMA MoreLines ==
  ASSUME NEW q, NEW ls, NEW more, NEW st, ls \subseteq more, Covered(q, ls, st)
  PROVE  Covered(q, more, st)
BY DEF Covered

-----------------------------------------------------------------------------
\* Lines.

LEMMA PathsOfAppend ==
  ASSUME NEW S, NEW s \in Seq(S), NEW e
  PROVE  PathsOf(Append(s, e)) = PathsOf(s) \cup {e.path}
<1>1. PICK t : t = Append(s, e)
  OBVIOUS
<1>2. /\ DOMAIN t = 1 .. Len(s) + 1 /\ t[Len(s) + 1] = e /\ DOMAIN s = 1 .. Len(s) /\ Len(s) \in Nat
      /\ \A i \in 1 .. Len(s) : t[i] = s[i]
  BY <1>1
<1>3. PathsOf(t) = PathsOf(s) \cup {e.path}
  <2>1. \A i \in DOMAIN t : i = Len(s) + 1 \/ i \in DOMAIN s
    BY <1>2
  <2>2. Len(s) + 1 \in DOMAIN t /\ \A i \in DOMAIN s : i \in DOMAIN t
    BY <1>2
  <2> QED
    BY <1>2, <2>1, <2>2 DEF PathsOf
<1> QED
  BY <1>1, <1>3

LEMMA PathsOfTail ==
  ASSUME NEW S, NEW s \in Seq(S), s # <<>>
  PROVE  PathsOf(s) = {Head(s).path} \cup PathsOf(Tail(s))
<1>1. PICK t : t = Tail(s)
  OBVIOUS
<1>2. /\ DOMAIN s = 1 .. Len(s) /\ Len(s) \in Nat \ {0} /\ DOMAIN t = 1 .. Len(s) - 1
      /\ Head(s) = s[1] /\ \A i \in 1 .. Len(s) - 1 : t[i] = s[i + 1]
  BY <1>1
<1>3. PathsOf(s) = {s[1].path} \cup PathsOf(t)
  <2>1. \A i \in DOMAIN s : i = 1 \/ (i - 1 \in DOMAIN t /\ t[i - 1] = s[i])
    BY <1>2
  <2>2. 1 \in DOMAIN s /\ \A i \in DOMAIN t : i + 1 \in DOMAIN s /\ t[i] = s[i + 1]
    BY <1>2
  <2> QED
    BY <2>1, <2>2 DEF PathsOf
<1> QED
  BY <1>1, <1>2, <1>3

-----------------------------------------------------------------------------
\* The dataset and what was asked for do not change.

LEMMA WalkFactsStay ==
  ASSUME UNCHANGED source
  PROVE  /\ Asked' = Asked /\ (TreeShaped' <=> TreeShaped)
         /\ \A p : Reached(p)' <=> Reached(p)
         /\ \A q, ls, st : Covered(q, ls, st)' <=> Covered(q, ls, st)
         /\ \A q, p : Way(q, p)' <=> Way(q, p)
         /\ \A f : Remaining(f)' <=> Remaining(f)
         /\ \A ws, st, q : WalkedOnce(ws, st, q)' <=> WalkedOnce(ws, st, q)
         /\ \A st, q : FramesOK(st, q)' <=> FramesOK(st, q)
         /\ \A ls, st, rs, ph : SoFar(ls, st, rs, ph)' <=> SoFar(ls, st, rs, ph)
<1>1. disk' = disk /\ opt' = opt
  BY DEF source
<1>2. /\ \A p : Lookup(p)' = Lookup(p)
      /\ \A o : (Reads(o)' <=> Reads(o)) /\ (Lists(o)' <=> Lists(o))
  BY FactsStay
<1>3. Asked' = Asked /\ (TreeShaped' <=> TreeShaped)
  BY <1>1 DEF Asked, TreeShaped
<1>4. \A p, k : Leads(p, k)' <=> Leads(p, k)
  BY <1>1, <1>2 DEF Leads, IsDir
<1>5. \A q, p : Way(q, p)' <=> Way(q, p)
  BY <1>4 DEF Way
<1>6. \A d, p : EntryOf(d, p)' <=> EntryOf(d, p)
  BY <1>1, <1>2 DEF EntryOf
<1>7. \A p : Reached(p)' <=> Reached(p)
  BY <1>2, <1>3, <1>5, <1>6 DEF Reached
<1>8. \A q, ls, st : Covered(q, ls, st)' <=> Covered(q, ls, st)
  <2> SUFFICES ASSUME NEW q, NEW ls, NEW st PROVE Covered(q, ls, st)' <=> Covered(q, ls, st)
    OBVIOUS
  <2>1. \A p : Pending(st, p)' <=> Pending(st, p)
    BY DEF Pending
  <2>2. Reads(Lookup(q))' <=> Reads(Lookup(q))
    BY <1>1, FactsStay DEF Reads, Gets, Spill
  <2>3. \A d : Lists(Lookup(d))' <=> Lists(Lookup(d))
    BY <1>1, <1>2 DEF Lists, Gets
  <2> QED
    BY <1>1, <1>2, <1>5, <2>1, <2>2, <2>3 DEF Covered
<1>9. \A f : Remaining(f)' <=> Remaining(f)
  BY <1>1, <1>2 DEF Remaining
<1>10. \A ws, st, q : WalkedOnce(ws, st, q)' <=> WalkedOnce(ws, st, q)
  BY <1>1, <1>2 DEF WalkedOnce
<1>11. \A st, q : FramesOK(st, q)' <=> FramesOK(st, q)
  BY <1>2, <1>5, <1>9 DEF FramesOK
<1>12. \A ls, st, rs, ph : SoFar(ls, st, rs, ph)' <=> SoFar(ls, st, rs, ph)
  BY <1>3, <1>8 DEF SoFar
<1> QED
  BY <1>3, <1>5, <1>7, <1>8, <1>9, <1>10, <1>11, <1>12

LEMMA WalkNext ==
  ASSUME UNCHANGED source,
         opt.command = "extract" =>
           /\ \A p \in Lines' : Reached(p)
           /\ \A i \in DOMAIN roots' : roots'[i].path \in Asked
           /\ phase' # "open" /\ exit' \in {"running", "0", "PARTIAL"} =>
                \A q \in Asked : Lookup(q) # Nowhere
           /\ phase' \in {"open", "roots", "manifest", "ended"} => listing' = <<>>
           /\ phase' = "walk" => FramesOK(stack', roots'[1].path)
           /\ TreeShaped /\ phase' = "walk" => WalkedOnce(walked', stack', roots'[1].path)
           /\ TreeShaped /\ ~flag' /\ phase' \in {"roots", "walk", "entries", "entry", "copy"} =>
                SoFar(Lines', stack', roots', phase')
           /\ TreeShaped /\ ((phase' = "manifest" /\ ~cut') \/ exit' \in {"0", "PARTIAL"}) =>
                \A q \in Asked : Covered(q, Lines', <<>>)
  PROVE  WalkInv'
<1>1. opt' = opt
  BY DEF source
<1> SUFFICES ASSUME opt.command = "extract"
             PROVE  (LinesAreReached /\ PlacesAsked /\ ListingIsDone /\ FramesStand /\ WalksOnce /\ AllCovered)'
  BY <1>1 DEF WalkInv
<1>2. LinesAreReached' /\ PlacesAsked' /\ ListingIsDone'
  BY FactsStay, WalkFactsStay DEF LinesAreReached, PlacesAsked, ListingIsDone
<1>3. FramesStand' /\ WalksOnce'
  BY WalkFactsStay DEF FramesStand, WalksOnce
<1>4. AllCovered'
  BY WalkFactsStay DEF AllCovered
<1> QED
  BY <1>2, <1>3, <1>4

-----------------------------------------------------------------------------
\* The steps outside the walk.

LEMMA AskedArePaths ==
  ASSUME IInv
  PROVE  Asked \subseteq Paths /\ opt \in OptionsType
<1>1. opt \in OptionsType
  BY CommandLinesAssumption DEF IInv, TypeOK
<1>2. opt.paths \in Seq(Paths) /\ <<>> \in Paths
  BY <1>1 DEF OptionsType, Paths
<1> QED
  BY <1>1, <1>2 DEF Asked

LEMMA InterruptKeepsWalk ==
  ASSUME IInv, WalkInv, Interrupt
  PROVE  WalkInv'
<1>1. /\ phase # "ended" /\ flag' = TRUE
      /\ UNCHANGED <<source, phase, roots, walk, listing, out, copy, ledger, slot, cut, exit>>
  BY DEF Interrupt
<1>2. /\ UNCHANGED source /\ stack' = stack /\ walked' = walked /\ files' = files /\ phase' = phase
      /\ copy' = copy /\ roots' = roots /\ listing' = listing /\ cut' = cut /\ exit' = exit
  BY <1>1 DEF walk, ledger
<1>3. Lines' = Lines
  BY <1>2 DEF Lines, PathsOf
<1> QED
  BY <1>1, <1>2, <1>3, WalkNext DEF WalkInv, LinesAreReached, PlacesAsked, ListingIsDone,
     FramesStand, WalksOnce, AllCovered

LEMMA OpenFailsKeepsWalk ==
  ASSUME IInv, WalkInv, OpenFails
  PROVE  WalkInv'
<1>1. /\ phase = "open" /\ phase' = "ended" /\ exit' \in {"USAGE", "UNRECOVERABLE", "MEDIUM", "REFUSED"}
      /\ UNCHANGED <<source, flag, roots, walk, listing, out, copy, ledger, slot, cut>>
  BY DEF OpenFails, Ends
<1>2. UNCHANGED source /\ files' = files /\ roots' = roots /\ listing' = listing
  BY <1>1 DEF ledger
<1>3. Lines' = Lines
  BY <1>1, <1>2 DEF Lines, PathsOf
<1> QED
  BY <1>1, <1>2, <1>3, WalkNext DEF WalkInv, LinesAreReached, PlacesAsked, ListingIsDone

LEMMA OpenKeepsWalk ==
  ASSUME IInv, WalkInv, Open
  PROVE  WalkInv'
<1>1. /\ phase = "open" /\ \A i \in DOMAIN opt.paths : Lookup(opt.paths[i]) # Nowhere
      /\ UNCHANGED <<source, flag, walk, listing, out, copy, ledger, slot, cut, exit>>
  BY DEF Open
<1>2. UNCHANGED source /\ files' = files /\ listing' = listing /\ exit' = exit /\ exit = "running"
  BY <1>1 DEF ledger, IInv, PhasesFollow
<1> SUFFICES ASSUME opt.command = "extract" PROVE WalkInv'
  BY <1>2 DEF WalkInv, source
<1>3. /\ phase' = "roots"
      /\ roots' = IF opt.paths = <<>> THEN <<Entry(<<>>, disk.root, TRUE)>>
                  ELSE [i \in DOMAIN opt.paths |-> Entry(opt.paths[i], Lookup(opt.paths[i]), TRUE)]
  BY DEF Open
<1>4. Lines' = Lines
  BY <1>1, <1>2, <1>3 DEF Lines, PathsOf
<1>5. /\ \A q \in Asked : Lookup(q) # Nowhere /\ \E i \in DOMAIN roots' : roots'[i].path = q
      /\ \A i \in DOMAIN roots' : roots'[i].path \in Asked
  <2>1. CASE opt.paths = <<>>
    <3>1. Asked = {<<>>}
      BY <2>1 DEF Asked
    <3>2. Lookup(<<>>) # Nowhere
      <4>1. DatasetOK
        BY DEF IInv, TypeOK
      <4>2. disk.root \in Objects
        BY <4>1, DatasetFacts DEF DatasetType
      <4> QED
        BY <4>1, <4>2, LookupOfRoot DEF Objects, Nowhere
    <3>3. PICK e : e = Entry(<<>>, disk.root, TRUE)
      OBVIOUS
    <3>4. roots' = <<e>> /\ e.path = <<>>
      BY <1>3, <2>1, <3>3 DEF Entry
    <3>5. DOMAIN roots' = 1 .. 1 /\ roots'[1] = e /\ 1 \in 1 .. 1 /\ \A i \in 1 .. 1 : i = 1
      BY <3>4
    <3> QED
      BY <3>1, <3>2, <3>4, <3>5
  <2>2. CASE opt.paths # <<>>
    <3>1. Asked = {opt.paths[i] : i \in DOMAIN opt.paths}
      BY <2>2 DEF Asked
    <3>2. DOMAIN roots' = DOMAIN opt.paths /\ \A i \in DOMAIN opt.paths : roots'[i].path = opt.paths[i]
      BY <1>3, <2>2 DEF Entry
    <3> QED
      BY <1>1, <3>1, <3>2
  <2> QED
    BY <2>1, <2>2
<1>6. SoFar(Lines', stack', roots', phase')
  BY <1>3, <1>5 DEF SoFar
<1> QED
  BY <1>1, <1>2, <1>3, <1>4, <1>5, <1>6, WalkNext DEF WalkInv, LinesAreReached, ListingIsDone

\* A step that handles entries and leaves the names there are lines of.
LEMMA HandlingStep ==
  ASSUME IInv, WalkInv, UNCHANGED <<source, flag, roots, cut, exit>>, Lines' = Lines,
         phase \in {"entries", "entry", "copy"}, phase' \in {"entries", "entry", "copy"}
  PROVE  WalkInv'
<1>1. UNCHANGED source /\ flag' = flag /\ roots' = roots /\ cut' = cut /\ exit' = exit /\ exit = "running"
  BY DEF IInv, PhasesFollow
<1>2. opt.command = "extract" /\ TreeShaped /\ ~flag => SoFar(Lines', stack', roots', phase')
  BY <1>1 DEF WalkInv, AllCovered, SoFar
<1> QED
  BY <1>1, <1>2, WalkNext DEF WalkInv, LinesAreReached, PlacesAsked

LEMMA HandledKeepsWalk ==
  ASSUME IInv, WalkInv, phase = "entry", NEW r, Handled(r), r.path = Now.path
  PROVE  WalkInv'
<1>1. /\ files' = Append(files, r) /\ listing' = Tail(listing) /\ phase' = "entries"
      /\ UNCHANGED <<source, flag, roots, walk, copy, slot, cut, exit>>
  BY DEF Handled
<1>2. listing # <<>> /\ listing \in Seq(EntryType) /\ files \in Seq(RecordType)
  BY DEF IInv, TypeOK, PhasesFollow
<1>3. /\ PathsOf(files') = PathsOf(files) \cup {Now.path}
      /\ PathsOf(listing) = {Now.path} \cup PathsOf(listing')
  BY <1>1, <1>2, PathsOfAppend, PathsOfTail DEF Now
<1>4. Lines' = Lines
  <2>1. PathsOf(files)' = PathsOf(files') /\ PathsOf(listing)' = PathsOf(listing')
    BY DEF PathsOf
  <2> QED
    BY <1>1, <1>3, <2>1 DEF Lines
<1> QED
  BY <1>1, <1>4, HandlingStep

LEMMA RecordsAreOfNow ==
  /\ Failed(Now).path = Now.path /\ Made(Now).path = Now.path
  /\ \A cells : Linked(Now, cells).path = Now.path
BY DEF Failed, Made, Linked, Record

LEMMA EntriesKeepWalk ==
  ASSUME IInv, WalkInv, EntryRefused \/ EntryDir \/ EntrySymlink \/ EntryLink \/ EntryFile
  PROVE  WalkInv'
<1>1. phase = "entry"
  BY DEF EntryRefused, EntryDir, EntrySymlink, EntryLink, EntryFile, Writable
<1>2. CASE \E r : Handled(r) /\ r.path = Now.path
  BY <1>1, <1>2, HandledKeepsWalk
<1>3. CASE /\ copy' = [entry |-> Now, at |-> 0, ino |-> WriteTo(Above, Now.path, <<>>).tree[Now.path], errors |-> 0]
           /\ listing' = Tail(listing) /\ phase' = "copy"
           /\ UNCHANGED <<source, flag, roots, walk, files, slot, cut, exit>>
  <2>1. listing # <<>> /\ listing \in Seq(EntryType)
    BY <1>1 DEF IInv, TypeOK, PhasesFollow
  <2>2. PathsOf(listing) = {Now.path} \cup PathsOf(listing')
    BY <1>3, <2>1, PathsOfTail DEF Now
  <2>3. copy'.entry = Now
    BY <1>3
  <2>4. Lines' = Lines
    <3>1. PathsOf(files)' = PathsOf(files) /\ PathsOf(listing)' = PathsOf(listing')
      BY <1>3 DEF PathsOf
    <3> QED
      BY <1>1, <1>3, <2>2, <2>3, <3>1 DEF Lines
  <2> QED
    BY <1>1, <1>3, <2>4, HandlingStep
<1>4. \/ Handled(Failed(Now)) \/ Handled(Made(Now)) \/ (\E cells : Handled(Linked(Now, cells)))
      \/ /\ copy' = [entry |-> Now, at |-> 0, ino |-> WriteTo(Above, Now.path, <<>>).tree[Now.path], errors |-> 0]
         /\ listing' = Tail(listing) /\ phase' = "copy"
         /\ UNCHANGED <<source, flag, roots, walk, files, slot, cut, exit>>
  <2>1. CASE EntryRefused
    BY <2>1 DEF EntryRefused
  <2>2. CASE EntryDir
    BY <2>2 DEF EntryDir
  <2>3. CASE EntrySymlink
    BY <2>3 DEF EntrySymlink
  <2>4. CASE EntryLink
    BY <2>4 DEF EntryLink
  <2>5. CASE EntryFile
    BY <2>5 DEF EntryFile
  <2> QED
    BY <2>1, <2>2, <2>3, <2>4, <2>5
<1> QED
  BY <1>2, <1>3, <1>4, RecordsAreOfNow

LEMMA CopyKeepsWalk ==
  ASSUME IInv, WalkInv, CopyBlock \/ CopyStops \/ CopyEnds
  PROVE  WalkInv'
<1>1. phase = "copy" /\ files \in Seq(RecordType)
  BY DEF CopyBlock, CopyStops, CopyEnds, IInv, TypeOK
<1>2. CASE CopyBlock
  <2>1. copy'.entry = copy.entry
    <3>1. copy \in CopyType
      BY DEF IInv, TypeOK
    <3>2. \E n, x : copy' = [copy EXCEPT !.at = n, !.errors = x]
      BY <1>2 DEF CopyBlock
    <3> QED
      BY <3>1, <3>2 DEF CopyType
  <2>2. UNCHANGED <<source, flag, phase, roots, listing, files, cut, exit>>
    BY <1>2 DEF CopyBlock, ledger
  <2>3. Lines' = Lines
    BY <2>1, <2>2 DEF Lines, PathsOf
  <2> QED
    BY <1>1, <2>2, <2>3, HandlingStep
<1>3. CASE \E r : /\ files' = Append(files, r) /\ r.path = copy.entry.path /\ phase' = "entries"
                  /\ UNCHANGED <<source, flag, roots, listing, cut, exit>>
  <2>1. PICK r : /\ files' = Append(files, r) /\ r.path = copy.entry.path /\ phase' = "entries"
                 /\ UNCHANGED <<source, flag, roots, listing, cut, exit>>
    BY <1>3
  <2>2. PathsOf(files') = PathsOf(files) \cup {copy.entry.path}
    BY <1>1, <2>1, PathsOfAppend
  <2>3. PathsOf(files)' = PathsOf(files') /\ PathsOf(listing)' = PathsOf(listing)
    BY <2>1 DEF PathsOf
  <2>4. Lines' = Lines
    BY <1>1, <2>1, <2>2, <2>3 DEF Lines
  <2> QED
    BY <1>1, <2>1, <2>4, HandlingStep
<1>4. CASE CopyStops
  <2>1. Failed(copy.entry).path = copy.entry.path
    BY DEF Failed, Record
  <2> QED
    BY <1>3, <1>4, <2>1 DEF CopyStops
<1>5. CASE CopyEnds
  <2>1. Copied(copy.entry, Digest, copy.errors).path = copy.entry.path
    BY DEF Copied, Record
  <2> QED
    BY <1>3, <1>5, <2>1 DEF CopyEnds
<1> QED
  BY <1>2, <1>4, <1>5

LEMMA NextEntryKeepsWalk ==
  ASSUME IInv, WalkInv, NextEntry
  PROVE  WalkInv'
<1>1. /\ phase = "entries" /\ phase' = "entry"
      /\ UNCHANGED <<source, flag, roots, walk, listing, out, copy, ledger, slot, cut, exit>>
  BY DEF NextEntry
<1>2. Lines' = Lines
  BY <1>1 DEF Lines, PathsOf, ledger
<1> QED
  BY <1>1, <1>2, HandlingStep

LEMMA EndEntriesKeepsWalk ==
  ASSUME IInv, WalkInv, EndEntries
  PROVE  WalkInv'
<1>1. /\ phase = "entries" /\ (listing = <<>> \/ flag) /\ phase' = "roots"
      /\ roots' = Tail(roots) /\ listing' = <<>>
      /\ UNCHANGED <<source, flag, walk, out, copy, ledger, slot, cut, exit>>
  BY DEF EndEntries
<1>2. UNCHANGED source /\ flag' = flag /\ files' = files /\ stack' = stack /\ exit' = exit
  BY <1>1 DEF ledger, walk
<1>3. exit = "running" /\ roots # <<>> /\ roots \in Seq(EntryType) /\ opt.command = "extract"
  BY <1>1 DEF IInv, TypeOK, PhasesFollow
<1>4. PathsOf(listing') = {} /\ PathsOf(files') = PathsOf(files) /\ Lines' = PathsOf(files') \cup PathsOf(listing')
  <2>1. PathsOf(files)' = PathsOf(files') /\ PathsOf(listing)' = PathsOf(listing')
    BY DEF PathsOf
  <2> QED
    BY <1>1, <1>2, <2>1 DEF Lines, PathsOf
<1>5. Lines' \subseteq Lines /\ (~flag => Lines' = Lines)
  BY <1>1, <1>4 DEF Lines, PathsOf
<1>6. /\ \A i \in DOMAIN roots' : i + 1 \in DOMAIN roots /\ roots'[i] = roots[i + 1]
      /\ \A i \in DOMAIN roots : i # 1 => i - 1 \in DOMAIN roots' /\ roots'[i - 1] = roots[i]
  BY <1>1, <1>3
<1>7. TreeShaped /\ ~flag => SoFar(Lines', stack', roots', phase')
  <2> SUFFICES ASSUME TreeShaped, ~flag, NEW q \in Asked
               PROVE  Covered(q, Lines', <<>>) \/ \E i \in DOMAIN roots' : roots'[i].path = q
    BY <1>1 DEF SoFar
  <2>1. Covered(q, Lines, <<>>) \/ \E i \in DOMAIN roots : roots[i].path = q /\ i # 1
    BY <1>1, <1>3 DEF WalkInv, AllCovered, SoFar
  <2> QED
    BY <1>5, <1>6, <2>1
<1>8. \A i \in DOMAIN roots' : roots'[i].path \in Asked
  BY <1>3, <1>6 DEF WalkInv, PlacesAsked
<1>9. \A p \in Lines' : Reached(p)
  BY <1>3, <1>5 DEF WalkInv, LinesAreReached
<1> QED
  BY <1>1, <1>2, <1>3, <1>7, <1>8, <1>9, WalkNext DEF WalkInv, PlacesAsked

LEMMA LastRootKeepsWalk ==
  ASSUME IInv, WalkInv, LastRoot
  PROVE  WalkInv'
<1>1. /\ phase = "roots" /\ (roots = <<>> \/ flag) /\ phase' = "manifest" /\ cut' = flag
      /\ UNCHANGED <<source, flag, roots, walk, listing, out, copy, ledger, slot, exit>>
  BY DEF LastRoot
<1>2. UNCHANGED source /\ files' = files /\ listing' = listing /\ roots' = roots /\ exit' = exit
      /\ exit = "running"
  BY <1>1 DEF ledger, IInv, PhasesFollow
<1>3. Lines' = Lines
  BY <1>1, <1>2 DEF Lines, PathsOf
<1>4. opt.command = "extract" /\ TreeShaped /\ ~cut' => \A q \in Asked : Covered(q, Lines', <<>>)
  BY <1>1, <1>3 DEF WalkInv, AllCovered, SoFar
<1> QED
  BY <1>1, <1>2, <1>3, <1>4, WalkNext DEF WalkInv, LinesAreReached, PlacesAsked, ListingIsDone

LEMMA WriteManifestKeepsWalk ==
  ASSUME IInv, WalkInv, WriteManifest
  PROVE  WalkInv'
<1>1. /\ phase = "manifest" /\ phase' = "ended" /\ exit' \in {Code, "MEDIUM", "USAGE"}
      /\ UNCHANGED <<source, flag, roots, walk, listing, copy, ledger, slot, cut>>
  BY DEF WriteManifest, Ends
<1>2. /\ UNCHANGED source /\ files' = files /\ listing' = listing /\ roots' = roots
      /\ exit = "running"
  BY <1>1 DEF ledger, IInv, PhasesFollow
<1>3. Lines' = Lines
  BY <1>1, <1>2 DEF Lines, PathsOf
<1>4. exit' \in {"0", "PARTIAL"} => ~cut
  BY <1>1 DEF Code
<1>5. opt.command = "extract" /\ TreeShaped /\ exit' \in {"0", "PARTIAL"} =>
        \A q \in Asked : Covered(q, Lines', <<>>)
  BY <1>1, <1>3, <1>4 DEF WalkInv, AllCovered
<1> QED
  BY <1>1, <1>2, <1>3, <1>5, WalkNext DEF WalkInv, LinesAreReached, PlacesAsked, ListingIsDone

-----------------------------------------------------------------------------
\* A directory entered.

\* The one frame of a directory that lists.
LEMMA EnteredIsAFrame ==
  ASSUME NEW path, NEW o, NEW depth
  PROVE  /\ ~Lists(o) => Entered(path, o, depth) = <<>>
         /\ Lists(o) => /\ DOMAIN Entered(path, o, depth) = {1}
                        /\ Entered(path, o, depth)[1].path = path
                        /\ Entered(path, o, depth)[1].rest = disk.dirs[o]
                        /\ Entered(path, o, depth)[1].depth = depth
         /\ PathsOf(NotRead(path, o)) \subseteq {path}
<1>1. PICK f : f = Frame(path, o, depth)
  OBVIOUS
<1>2. f.path = path /\ f.rest = disk.dirs[o] /\ f.depth = depth
  BY <1>1 DEF Frame
<1>3. PICK s : s = <<f>>
  OBVIOUS
<1>4. DOMAIN s = {1} /\ s[1] = f
  BY <1>3
<1>5. Lists(o) => Entered(path, o, depth) = s
  BY <1>1, <1>3 DEF Entered
<1>6. PICK e : e = Entry(path, o, FALSE)
  OBVIOUS
<1>7. e.path = path
  BY <1>6 DEF Entry
<1>8. PICK t : t = <<e>>
  OBVIOUS
<1>9. DOMAIN t = {1} /\ t[1] = e
  BY <1>8
<1>10. NotRead(path, o) = <<>> \/ NotRead(path, o) = t
  BY <1>6, <1>8 DEF NotRead
<1>11. PathsOf(NotRead(path, o)) \subseteq {path}
  BY <1>7, <1>9, <1>10 DEF PathsOf
<1>12. ~Lists(o) => Entered(path, o, depth) = <<>>
  BY DEF Entered
<1> QED
  BY <1>2, <1>4, <1>5, <1>11, <1>12

LEMMA EnteredStands ==
  ASSUME DatasetOK, NEW q \in Paths, NEW path \in Paths, NEW o \in Objects, Lookup(path) = o,
         NEW depth \in Nat, Reads(Lookup(q)), Way(q, path), Len(path) = Len(q) + depth
  PROVE  FramesOK(Entered(path, o, depth), q)
<1>1. PICK st : st = Entered(path, o, depth)
  OBVIOUS
<1>2. CASE ~Lists(o)
  BY <1>2, EnteredIsAFrame DEF FramesOK
<1>3. CASE Lists(o)
  <2>1. DOMAIN st = {1} /\ st[1].path = path /\ st[1].rest = disk.dirs[o] /\ st[1].depth = depth
    BY <1>1, <1>3, EnteredIsAFrame
  <2>2. Remaining(st[1])
    <3>1. PICK all : all = disk.dirs[o]
      OBVIOUS
    <3>2. all \in Seq(DirEntries)
      BY <3>1, DatasetsAssumption DEF DatasetOK, DatasetType
    <3>3. Len(all) <= Len(all) /\ \A m \in DOMAIN all : all[m] = all[Len(all) - Len(all) + m]
      BY <3>2
    <3> QED
      BY <2>1, <3>1, <3>3 DEF Remaining
  <2> QED
    BY <1>1, <2>1, <2>2 DEF FramesOK
<1> QED
  BY <1>2, <1>3

\* Everything below a directory entered is to come.
LEMMA EnteredPends ==
  ASSUME DatasetOK, NEW q \in Paths, NEW path \in Paths, NEW o, Lookup(path) = o, NEW depth,
         NEW d \in Paths, Way(q, d), Len(q) <= Len(path), Len(path) <= Len(d),
         Upto(d, Len(path)) = path, Lookup(d) # Nowhere, Lists(Lookup(d)),
         NEW j \in DOMAIN disk.dirs[Lookup(d)]
  PROVE  Pending(Entered(path, o, depth), Append(d, disk.dirs[Lookup(d)][j].name))
<1>1. PICK st, n, p : st = Entered(path, o, depth) /\ n = disk.dirs[Lookup(d)][j].name /\ p = Append(d, n)
  OBVIOUS
<1>2. n \in Names
  BY <1>1, EntryLeads
<1>3. /\ Lists(o) /\ Len(path) < Len(p)
      /\ \E m \in DOMAIN disk.dirs[o] : Upto(p, Len(path) + 1) = Append(path, disk.dirs[o][m].name)
  BY <1>1, NextOnTheWay
<1>4. DOMAIN st = {1} /\ st[1].path = path /\ st[1].rest = disk.dirs[o]
  BY <1>1, <1>3, EnteredIsAFrame
<1> QED
  BY <1>1, <1>3, <1>4 DEF Pending

\* A directory entered at a place asked for is the only one, and everything
\* below the place is to come.
LEMMA WalkStarts ==
  ASSUME DatasetOK, NEW q \in Paths, NEW o \in Objects, Lookup(q) = o, NEW ls
  PROVE  /\ Covered(q, ls, Entered(q, o, 0))
         /\ TreeShaped => WalkedOnce({o}, Entered(q, o, 0), q)
<1>1. PICK st : st = Entered(q, o, 0)
  OBVIOUS
<1>2. CASE ~Lists(o)
  <2>1. st = <<>>
    BY <1>1, <1>2, EnteredIsAFrame
  <2>2. Covered(q, ls, st)
    BY <1>2, NothingBelow
  <2>3. WalkedOnce({o}, st, q)
    BY <2>1 DEF WalkedOnce
  <2> QED
    BY <1>1, <2>2, <2>3
<1>3. CASE Lists(o)
  <2>1. DOMAIN st = {1} /\ st[1].path = q /\ st[1].rest = disk.dirs[o]
    BY <1>1, <1>3, EnteredIsAFrame
  <2>2. Covered(q, ls, st)
    <3> SUFFICES ASSUME NEW d \in Paths, Way(q, d), Lookup(d) # Nowhere, Lists(Lookup(d)),
                        NEW j \in DOMAIN disk.dirs[Lookup(d)]
                 PROVE  Pending(st, Append(d, disk.dirs[Lookup(d)][j].name))
      BY DEF Covered
    <3>1. Len(q) <= Len(q) /\ Len(q) <= Len(d) /\ Upto(d, Len(q)) = q
      BY DEF Way, Paths
    <3> QED
      BY <1>1, <3>1, EnteredPends
  <2>3. ASSUME TreeShaped
        PROVE  WalkedOnce({o}, st, q)
    <3>1. ASSUME NEW m \in DOMAIN disk.dirs[o], disk.kind[disk.dirs[o][m].object] = "dir"
          PROVE  disk.dirs[o][m].object # o
      <4>1. PICK n, p : n = disk.dirs[o][m].name /\ p = Append(q, n)
        OBVIOUS
      <4>2. o # Nowhere
        BY DEF Objects, Nowhere
      <4>3. n \in Names /\ Lookup(p) = disk.dirs[o][m].object
        BY <1>3, <4>1, <4>2, EntryLeads
      <4>4. p \in Paths /\ Len(p) = Len(q) + 1 /\ Len(q) \in Nat
        BY <4>1, <4>3, PathAppend
      <4> QED
        BY <2>3, <3>1, <4>3, <4>4, OneDepth
    <3> QED
      BY <2>1, <3>1 DEF WalkedOnce
  <2> QED
    BY <1>1, <2>2, <2>3
<1> QED
  BY <1>2, <1>3

LEMMA TakeRootKeepsWalk ==
  ASSUME IInv, WalkInv, TakeRoot
  PROVE  WalkInv'
<1>1. /\ phase = "roots" /\ roots # <<>> /\ ~flag /\ phase' \in {"walk", "entry"}
      /\ UNCHANGED <<source, flag, roots, out, copy, ledger, slot, cut, exit>>
  BY DEF TakeRoot
<1>2. /\ UNCHANGED source /\ roots' = roots /\ files' = files /\ exit' = exit /\ exit = "running"
      /\ flag' = flag /\ DatasetOK
  BY <1>1 DEF ledger, IInv, TypeOK, PhasesFollow
<1> SUFFICES ASSUME opt.command = "extract" PROVE WalkInv'
  BY <1>2 DEF WalkInv, source
<1>3. PICK q, o : q = roots[1].path /\ o = roots[1].object
  OBVIOUS
<1>4. /\ Head(roots) = roots[1] /\ 1 \in DOMAIN roots /\ q \in Paths /\ o \in Objects /\ Lookup(q) = o
      /\ q \in Asked
  <2>1. roots \in Seq(EntryType) /\ Head(roots) = roots[1] /\ 1 \in DOMAIN roots
    BY <1>1 DEF IInv, TypeOK
  <2>2. roots[1] \in EntryType /\ Placed(roots[1])
    BY <2>1 DEF IInv, EntriesArePlaced
  <2> QED
    BY <1>3, <2>1, <2>2 DEF EntryType, Placed, WalkInv, PlacesAsked
<1>5. Lines = PathsOf(files)
  BY <1>1 DEF Lines, WalkInv, ListingIsDone, PathsOf
<1>6. Lines' = PathsOf(files) \cup PathsOf(listing')
  <2>1. PathsOf(files)' = PathsOf(files) /\ PathsOf(listing)' = PathsOf(listing')
    BY <1>2 DEF PathsOf
  <2> QED
    BY <1>1, <2>1 DEF Lines
<1>7. /\ PathsOf(listing') \subseteq {q}
      /\ phase' = "walk" => Reads(o) /\ stack' = Entered(q, o, 0) /\ walked' = {o}
      /\ phase' = "entry" => ~Reads(o) \/ disk.kind[o] # "dir"
  <2>1. CASE /\ Reads(o) /\ stack' = Entered(q, o, 0) /\ listing' = NotRead(q, o)
             /\ walked' = {o} /\ phase' = "walk"
    BY <2>1, EnteredIsAFrame
  <2>2. CASE /\ listing' = <<Entry(q, o, Reads(o))>> /\ phase' = "entry"
             /\ (~Reads(o) \/ disk.kind[o] # "dir")
    <3>1. PICK e : e = Entry(q, o, Reads(o))
      OBVIOUS
    <3>2. e.path = q /\ listing' = <<e>>
      BY <2>2, <3>1 DEF Entry
    <3>3. DOMAIN listing' = {1} /\ listing'[1] = e
      BY <3>2
    <3> QED
      BY <2>2, <3>2, <3>3 DEF PathsOf
  <2> QED
    BY <1>3, <1>4, <2>1, <2>2 DEF TakeRoot
<1>8. Reached(q)
  BY <1>4 DEF Reached
<1>9. \A p \in Lines' : Reached(p)
  BY <1>5, <1>6, <1>7, <1>8 DEF WalkInv, LinesAreReached
<1>10. phase' = "walk" => FramesOK(stack', q)
  <2>1. Way(q, q) /\ 0 \in Nat /\ Len(q) = Len(q) + 0
    BY <1>4, WayStarts DEF Paths
  <2> QED
    BY <1>2, <1>4, <1>7, <2>1, EnteredStands
<1>11. TreeShaped /\ phase' = "walk" => WalkedOnce(walked', stack', q)
  BY <1>2, <1>4, <1>7, WalkStarts
<1>12. TreeShaped => SoFar(Lines', stack', roots', phase')
  <2> SUFFICES ASSUME TreeShaped, NEW k \in Asked
               PROVE  \/ Covered(k, Lines', <<>>)
                      \/ phase' = "walk" /\ k = q /\ Covered(k, Lines', stack')
                      \/ \E i \in DOMAIN roots : roots[i].path = k /\ i # 1
    BY <1>2, <1>3 DEF SoFar
  <2>1. Covered(k, Lines, <<>>) \/ \E i \in DOMAIN roots : roots[i].path = k
    BY <1>1 DEF WalkInv, AllCovered, SoFar
  <2>2. Lines \subseteq Lines'
    BY <1>5, <1>6
  <2>3. CASE Covered(k, Lines, <<>>)
    BY <2>2, <2>3, MoreLines
  <2>4. CASE k = q /\ phase' = "walk"
    <3>1. Covered(q, Lines', Entered(q, o, 0))
      BY <1>2, <1>4, WalkStarts
    <3> QED
      BY <1>7, <2>4, <3>1
  <2>5. CASE k = q /\ phase' = "entry"
    <3>1. CASE ~Reads(o)
      BY <1>4, <2>5, <3>1 DEF Covered
    <3>2. CASE disk.kind[o] # "dir"
      <4>1. ~Lists(o)
        BY <3>2 DEF Lists
      <4> QED
        BY <1>4, <2>5, <4>1, NothingBelow
    <3> QED
      BY <1>7, <2>5, <3>1, <3>2
  <2> QED
    BY <1>1, <1>3, <2>1, <2>3, <2>4, <2>5
<1>13. \A i \in DOMAIN roots : roots[i].path \in Asked
  BY DEF WalkInv, PlacesAsked
<1>14. \A k \in Asked : Lookup(k) # Nowhere
  BY <1>1, <1>2 DEF WalkInv, PlacesAsked
<1> QED
  BY <1>1, <1>2, <1>3, <1>9, <1>10, <1>11, <1>12, <1>13, <1>14, WalkNext

-----------------------------------------------------------------------------
\* The steps of the walk.

LEMMA WalkReturnKeepsWalk ==
  ASSUME IInv, WalkInv, WalkReturn
  PROVE  WalkInv'
<1>1. /\ phase = "walk" /\ phase' = "walk" /\ stack # <<>> /\ stack[Len(stack)].rest = <<>>
      /\ stack' = SubSeq(stack, 1, Len(stack) - 1)
      /\ UNCHANGED <<source, flag, phase, roots, walked, listing, out, copy, ledger, slot, cut, exit>>
  BY DEF WalkReturn
<1>2. /\ UNCHANGED source /\ roots' = roots /\ files' = files /\ exit' = exit /\ exit = "running"
      /\ flag' = flag /\ walked' = walked /\ listing' = listing /\ copy' = copy
  BY <1>1 DEF ledger, IInv, PhasesFollow
<1> SUFFICES ASSUME opt.command = "extract" PROVE WalkInv'
  BY <1>2 DEF WalkInv, source
<1>3. /\ stack \in Seq(FrameType) /\ DOMAIN stack = 1 .. Len(stack) /\ Len(stack) \in Nat \ {0}
      /\ DOMAIN stack' = 1 .. Len(stack) - 1 /\ \A i \in DOMAIN stack' : stack'[i] = stack[i]
  BY <1>1 DEF IInv, TypeOK
<1>4. /\ \A i \in DOMAIN stack' : i \in DOMAIN stack
      /\ \A i \in DOMAIN stack : i \in DOMAIN stack' \/ stack[i].rest = <<>>
  BY <1>1, <1>3
<1>5. Lines' = Lines
  BY <1>1, <1>2 DEF Lines, PathsOf
<1>6. FramesOK(stack', roots[1].path)
  BY <1>1, <1>3, <1>4 DEF WalkInv, FramesStand, FramesOK
<1>7. TreeShaped => WalkedOnce(walked, stack', roots[1].path)
  <2>1. TreeShaped => WalkedOnce(walked, stack, roots[1].path)
    BY <1>1 DEF WalkInv, WalksOnce
  <2> QED
    BY <1>3, <1>4, <2>1 DEF WalkedOnce
<1>8. ASSUME NEW p, Pending(stack, p)
      PROVE  Pending(stack', p)
  <2>1. PICK i \in DOMAIN stack : \E m \in DOMAIN stack[i].rest :
          /\ Len(stack[i].path) < Len(p)
          /\ Upto(p, Len(stack[i].path) + 1) = Append(stack[i].path, stack[i].rest[m].name)
    BY <1>8 DEF Pending
  <2>2. i \in DOMAIN stack' /\ stack'[i] = stack[i]
    BY <1>3, <1>4, <2>1
  <2> QED
    BY <2>1, <2>2 DEF Pending
<1>9. TreeShaped /\ ~flag => SoFar(Lines, stack', roots, "walk")
  <2> SUFFICES ASSUME TreeShaped, ~flag PROVE SoFar(Lines, stack', roots, "walk")
    OBVIOUS
  <2>1. SoFar(Lines, stack, roots, "walk")
    BY <1>1 DEF WalkInv, AllCovered
  <2>2. \A q \in Asked : Covered(q, Lines, stack) => Covered(q, Lines, stack')
    BY <1>8 DEF Covered
  <2> QED
    BY <2>1, <2>2 DEF SoFar
<1> QED
  BY <1>1, <1>2, <1>5, <1>6, <1>7, <1>9, WalkNext DEF WalkInv, LinesAreReached, PlacesAsked

LEMMA WalkEndsKeepsWalk ==
  ASSUME IInv, WalkInv, WalkEnds
  PROVE  WalkInv'
<1>1. /\ phase = "walk" /\ stack = <<>>
      /\ UNCHANGED <<source, flag, roots, walk, listing, out, copy, ledger, slot, cut>>
  BY DEF WalkEnds
<1>2. /\ UNCHANGED source /\ roots' = roots /\ files' = files /\ exit = "running"
      /\ flag' = flag /\ listing' = listing /\ copy' = copy /\ stack' = stack
  BY <1>1 DEF walk, ledger, IInv, PhasesFollow
<1> SUFFICES ASSUME opt.command = "extract" PROVE WalkInv'
  BY <1>2 DEF WalkInv, source
<1>3. phase' = "entries" /\ exit' = exit
  BY DEF WalkEnds
<1>4. Lines' = Lines
  BY <1>1, <1>2, <1>3 DEF Lines, PathsOf
<1>5. TreeShaped /\ ~flag => SoFar(Lines, stack, roots, "entries")
  <2> SUFFICES ASSUME TreeShaped, ~flag PROVE SoFar(Lines, stack, roots, "entries")
    OBVIOUS
  <2>1. SoFar(Lines, stack, roots, "walk")
    BY <1>1 DEF WalkInv, AllCovered
  <2> QED
    BY <1>1, <2>1 DEF SoFar
<1> QED
  BY <1>1, <1>2, <1>3, <1>4, <1>5, WalkNext DEF WalkInv, LinesAreReached, PlacesAsked

LEMMA ObjectsKeepWalk ==
  ASSUME IInv, WalkInv, ObjectSkipped \/ ObjectWritten \/ ObjectsEnd
  PROVE  WalkInv'
<1>1. phase = "objects" /\ opt' = opt
  BY DEF ObjectSkipped, ObjectWritten, ObjectsEnd, source
<1> QED
  BY <1>1 DEF IInv, PhasesFollow, WalkInv

LEMMA Concatenation ==
  ASSUME NEW S, NEW a \in Seq(S), NEW b \in Seq(S)
  PROVE  /\ \A i \in DOMAIN a : i \in DOMAIN (a \o b) /\ (a \o b)[i] = a[i]
         /\ \A i \in DOMAIN b : Len(a) + i \in DOMAIN (a \o b) /\ (a \o b)[Len(a) + i] = b[i]
         /\ \A i \in DOMAIN (a \o b) :
              i \in DOMAIN a \/ \E j \in DOMAIN b : i = Len(a) + j
<1>1. PICK c : c = a \o b
  OBVIOUS
<1>2. /\ DOMAIN a = 1 .. Len(a) /\ DOMAIN b = 1 .. Len(b) /\ Len(a) \in Nat /\ Len(b) \in Nat
      /\ DOMAIN c = 1 .. Len(a) + Len(b)
  BY <1>1
<1>3. \A i \in DOMAIN c : i \in DOMAIN a \/ \E j \in DOMAIN b : i = Len(a) + j
  <2> SUFFICES ASSUME NEW i \in DOMAIN c, i \notin DOMAIN a PROVE \E j \in DOMAIN b : i = Len(a) + j
    OBVIOUS
  <2>1. i - Len(a) \in DOMAIN b /\ i = Len(a) + (i - Len(a))
    BY <1>2
  <2> QED
    BY <2>1
<1>4. \A i \in DOMAIN a : i \in DOMAIN c /\ c[i] = a[i]
  BY <1>1, <1>2
<1>5. \A i \in DOMAIN b : Len(a) + i \in DOMAIN c /\ c[Len(a) + i] = b[i]
  BY <1>1, <1>2
<1> QED
  BY <1>1, <1>3, <1>4, <1>5

LEMMA BothPend ==
  ASSUME NEW a \in Seq(FrameType), NEW b \in Seq(FrameType), NEW p, Pending(a, p) \/ Pending(b, p)
  PROVE  Pending(a \o b, p)
<1>1. PICK c : c = a \o b
  OBVIOUS
<1>2. /\ \A i \in DOMAIN a : i \in DOMAIN c /\ c[i] = a[i]
      /\ \A i \in DOMAIN b : Len(a) + i \in DOMAIN c /\ c[Len(a) + i] = b[i]
  BY <1>1, Concatenation
<1>3. CASE Pending(a, p)
  BY <1>1, <1>2, <1>3 DEF Pending
<1>4. CASE Pending(b, p)
  BY <1>1, <1>2, <1>4 DEF Pending
<1> QED
  BY <1>3, <1>4

LEMMA BothStand ==
  ASSUME NEW a \in Seq(FrameType), NEW b \in Seq(FrameType), NEW q, FramesOK(a, q), FramesOK(b, q)
  PROVE  FramesOK(a \o b, q)
<1>1. PICK c : c = a \o b
  OBVIOUS
<1>2. \A i \in DOMAIN c : \/ i \in DOMAIN a /\ c[i] = a[i]
                         \/ \E j \in DOMAIN b : c[i] = b[j]
  BY <1>1, Concatenation
<1> QED
  BY <1>1, <1>2 DEF FramesOK

\* A directory walked into, with the entry it was met at taken off: the entries
\* left in it have not been walked, and it is left nowhere else.
LEMMA EnterOnce ==
  ASSUME DatasetOK, TreeShaped, NEW q \in Paths, NEW ws \in SUBSET Objects,
         NEW st \in Seq(FrameType), WalkedOnce(ws, st, q),
         NEW path \in Paths, NEW x \in Objects, Lookup(path) = x, x \notin ws,
         Len(q) <= Len(path), NEW depth \in Nat,
         \E o \in ws : \E j \in DOMAIN disk.dirs[o] : disk.dirs[o][j].object = x,
         disk.kind[x] = "dir" =>
           \A i \in DOMAIN st : \A m \in DOMAIN st[i].rest : st[i].rest[m].object # x
  PROVE  WalkedOnce(ws \cup {x}, st \o Entered(path, x, depth), q)
<1>1. PICK more, all : more = Entered(path, x, depth) /\ all = st \o more
  OBVIOUS
<1>2. more \in Seq(FrameType)
  BY <1>1, EnteredIsPlaced
<1>3. \A i \in DOMAIN more : i = 1 /\ Lists(x) /\ more[i].path = path /\ more[i].rest = disk.dirs[x]
  BY <1>1, EnteredIsAFrame
<1>4. /\ DOMAIN st = 1 .. Len(st) /\ Len(st) \in Nat
      /\ \A i \in DOMAIN all :
           \/ i \in DOMAIN st /\ all[i] = st[i]
           \/ i = Len(st) + 1 /\ Lists(x) /\ all[i].path = path /\ all[i].rest = disk.dirs[x]
  BY <1>1, <1>2, <1>3, Concatenation
<1>5. \A i \in DOMAIN st : Lookup(st[i].path) \in ws
  BY DEF WalkedOnce
<1>6. \A i, j \in DOMAIN all : i # j => Lookup(all[i].path) # Lookup(all[j].path)
  <2>1. \A i, j \in DOMAIN st : i # j => Lookup(st[i].path) # Lookup(st[j].path)
    BY DEF WalkedOnce
  <2> QED
    BY <1>4, <1>5, <2>1
<1>7. \A i \in DOMAIN all : Lookup(all[i].path) \in ws \cup {x}
  BY <1>4, <1>5
<1>8. ASSUME Lists(x), NEW m \in DOMAIN disk.dirs[x], disk.kind[disk.dirs[x][m].object] = "dir"
      PROVE  disk.dirs[x][m].object \notin ws \cup {x}
  <2>1. PICK n, p, c : n = disk.dirs[x][m].name /\ p = Append(path, n) /\ c = disk.dirs[x][m].object
    OBVIOUS
  <2>2. x # Nowhere /\ disk.kind[x] = "dir"
    BY <1>8 DEF Objects, Nowhere, Lists
  <2>3. n \in Names /\ c \in Objects /\ Lookup(p) = c
    BY <1>8, <2>1, <2>2, EntryLeads
  <2>4. p \in Paths /\ Len(p) = Len(path) + 1 /\ Len(path) \in Nat /\ Len(q) \in Nat
    BY <2>1, <2>3, PathAppend DEF Paths
  <2>5. c # x
    <3> SUFFICES ASSUME c = x PROVE FALSE
      OBVIOUS
    <3>1. Lookup(p) = Lookup(path) /\ Lookup(p) \in Objects /\ disk.kind[Lookup(p)] = "dir"
      BY <2>2, <2>3
    <3>2. Len(p) = Len(path)
      BY <2>4, <3>1, OneDepth
    <3> QED
      BY <2>4, <3>2
  <2>6. c # Lookup(q)
    <3> SUFFICES ASSUME c = Lookup(q) PROVE FALSE
      OBVIOUS
    <3>1. Lookup(p) = Lookup(q) /\ Lookup(p) \in Objects /\ disk.kind[Lookup(p)] = "dir"
      BY <1>8, <2>1, <2>3
    <3>2. Len(p) = Len(q)
      BY <2>4, <3>1, OneDepth
    <3> QED
      BY <2>4, <3>2
  <2>7. ASSUME NEW d \in ws, NEW j \in DOMAIN disk.dirs[d], disk.dirs[d][j].object = c
        PROVE  FALSE
    <3>1. <<d, j>> = <<x, m>>
      BY <1>8, <2>1, <2>7 DEF TreeShaped
    <3> QED
      BY <3>1
  <2> QED
    BY <2>1, <2>5, <2>6, <2>7 DEF WalkedOnce
<1>9. ASSUME NEW i \in DOMAIN all, NEW m \in DOMAIN all[i].rest,
             disk.kind[all[i].rest[m].object] = "dir"
      PROVE  all[i].rest[m].object \notin ws \cup {x}
  <2>1. CASE i \in DOMAIN st /\ all[i] = st[i]
    BY <1>9, <2>1 DEF WalkedOnce
  <2>2. CASE Lists(x) /\ all[i].rest = disk.dirs[x]
    BY <1>8, <1>9, <2>2
  <2> QED
    BY <1>4, <2>1, <2>2
<1>10. \A o \in ws \cup {x} :
         o = Lookup(q) \/ \E d \in ws \cup {x} : \E j \in DOMAIN disk.dirs[d] : disk.dirs[d][j].object = o
  BY DEF WalkedOnce
<1> QED
  BY <1>1, <1>6, <1>7, <1>9, <1>10 DEF WalkedOnce

\* The first entry left in a directory, and what is left after it.
LEMMA RestGoesOn ==
  ASSUME NEW f \in FrameType, NEW g, Remaining(f), f.rest # <<>>,
         Lookup(f.path) \in Objects, DatasetOK,
         g.path = f.path, g.rest = Tail(f.rest)
  PROVE  LET all == disk.dirs[Lookup(f.path)]
             k == Len(all) - Len(f.rest) + 1
         IN  /\ Remaining(g) /\ k \in DOMAIN all /\ f.rest[1] = all[k] /\ 1 \in DOMAIN f.rest
             /\ \A m \in DOMAIN g.rest :
                  /\ m + 1 \in DOMAIN f.rest /\ g.rest[m] = f.rest[m + 1]
                  /\ k + m \in DOMAIN all /\ g.rest[m] = all[k + m] /\ k + m # k
<1> DEFINE all == disk.dirs[Lookup(f.path)]
           k == Len(all) - Len(f.rest) + 1
<1>1. PICK r, t : r = f.rest /\ t = g.rest
  OBVIOUS
<1>2. all \in Seq(DirEntries) /\ r \in Seq(DirEntries)
  BY <1>1, DatasetsAssumption DEF DatasetOK, DatasetType, FrameType
<1>3. Len(r) <= Len(all) /\ \A m \in DOMAIN r : r[m] = all[Len(all) - Len(r) + m]
  BY <1>1 DEF Remaining
<1> HIDE DEF all
<1>4. /\ DOMAIN all = 1 .. Len(all) /\ Len(all) \in Nat /\ DOMAIN r = 1 .. Len(r) /\ Len(r) \in Nat \ {0}
      /\ DOMAIN t = 1 .. Len(r) - 1 /\ Len(t) = Len(r) - 1 /\ \A m \in DOMAIN t : t[m] = r[m + 1]
  BY <1>1, <1>2
<1>5. k \in DOMAIN all /\ r[1] = all[k] /\ 1 \in DOMAIN r /\ k = Len(all) - Len(r) + 1
  <2>1. k = Len(all) - Len(r) + 1 /\ 1 \in DOMAIN r
    BY <1>1, <1>4
  <2>2. r[1] = all[k]
    BY <1>3, <2>1
  <2> HIDE DEF k
  <2>3. k \in DOMAIN all
    BY <1>3, <1>4, <2>1
  <2> QED
    BY <2>1, <2>2, <2>3
<1> HIDE DEF k
<1>6. ASSUME NEW m \in DOMAIN t
      PROVE  m + 1 \in DOMAIN r /\ t[m] = r[m + 1] /\ k + m \in DOMAIN all /\ t[m] = all[k + m] /\ k + m # k
             /\ k + m = Len(all) - Len(t) + m
  <2>1. m + 1 \in DOMAIN r /\ t[m] = r[m + 1]
    BY <1>4
  <2>2. Len(all) - Len(r) + (m + 1) = k + m
    BY <1>4, <1>5
  <2>3. r[m + 1] = all[k + m]
    BY <1>3, <2>1, <2>2
  <2>4. k + m \in DOMAIN all /\ k + m # k /\ k + m = Len(all) - Len(t) + m
    BY <1>3, <1>4, <1>5
  <2> QED
    BY <2>1, <2>3, <2>4
<1>7. Remaining(g)
  <2>1. Len(t) <= Len(all)
    BY <1>3, <1>4
  <2>2. \A m \in DOMAIN t : t[m] = all[Len(all) - Len(t) + m]
    BY <1>6
  <2> QED
    BY <1>1, <2>1, <2>2 DEF Remaining, all
<1> QED
  BY <1>1, <1>5, <1>6, <1>7 DEF all, k

LEMMA PathsOfBoth ==
  ASSUME NEW S, NEW a \in Seq(S), NEW b \in Seq(S)
  PROVE  PathsOf(a \o b) = PathsOf(a) \cup PathsOf(b)
<1>1. PICK c : c = a \o b
  OBVIOUS
<1>2. /\ \A i \in DOMAIN a : i \in DOMAIN c /\ c[i] = a[i]
      /\ \A i \in DOMAIN b : Len(a) + i \in DOMAIN c /\ c[Len(a) + i] = b[i]
      /\ \A i \in DOMAIN c : i \in DOMAIN a \/ \E j \in DOMAIN b : i = Len(a) + j
  BY <1>1, Concatenation
<1>3. PathsOf(c) = PathsOf(a) \cup PathsOf(b)
  BY <1>2 DEF PathsOf
<1> QED
  BY <1>1, <1>3

\* What the entry on top means: it is the next of its directory, on the way
\* from the place asked for.
EntryOnTop(q, n, e, path, k) ==
  LET top == stack[n]
      all == disk.dirs[Lookup(top.path)]
  IN  /\ n = Len(stack) /\ n \in DOMAIN stack /\ top \in FrameType
      /\ top.path \in Paths /\ top.rest # <<>> /\ top.depth + 1 \in Nat
      /\ q = roots[1].path /\ q \in Paths /\ q \in Asked /\ Reads(Lookup(q)) /\ Way(q, top.path)
      /\ Len(top.path) = Len(q) + top.depth /\ Remaining(top)
      /\ Lookup(top.path) \in Objects /\ Lookup(top.path) # Nowhere /\ Lists(Lookup(top.path))
      /\ k = Len(all) - Len(top.rest) + 1 /\ k \in DOMAIN all
      /\ e = top.rest[1] /\ e = all[k] /\ 1 \in DOMAIN top.rest
      /\ e \in DirEntries /\ e.name \in Names /\ e.object \in Objects
      /\ path = Append(top.path, e.name) /\ path \in Paths /\ Lookup(path) = e.object
      /\ Len(path) = Len(top.path) + 1 /\ Len(q) <= Len(path)

LEMMA TopIsPlaced ==
  ASSUME IInv, WalkInv, opt.command = "extract", phase = "walk", stack # <<>>,
         stack[Len(stack)].rest # <<>>
  PROVE  \E q, n, e, path, k : EntryOnTop(q, n, e, path, k)
<1>1. PICK n, top, q : n = Len(stack) /\ top = stack[n] /\ q = roots[1].path
  OBVIOUS
<1>2. n \in DOMAIN stack /\ top \in FrameType /\ Opened(top) /\ top.rest # <<>> /\ DatasetOK
  BY <1>1 DEF IInv, TypeOK, EntriesArePlaced
<1>3. top.path \in Paths /\ top.rest \in Seq(DirEntries) /\ top.depth \in Nat
  BY <1>2 DEF FrameType
<1>4. q \in Paths /\ q \in Asked
  <2>1. roots \in Seq(EntryType) /\ roots # <<>>
    BY DEF IInv, TypeOK, PhasesFollow
  <2>2. 1 \in DOMAIN roots /\ roots[1] \in EntryType
    BY <2>1
  <2>3. roots[1].path \in Asked
    BY <2>2 DEF WalkInv, PlacesAsked
  <2> QED
    BY <1>1, <2>2, <2>3 DEF EntryType
<1>5. /\ Reads(Lookup(q)) /\ Way(q, top.path) /\ Len(top.path) = Len(q) + top.depth
      /\ Remaining(top)
  BY <1>1, <1>2 DEF WalkInv, FramesStand, FramesOK
<1>6. Lookup(top.path) \in Objects /\ Lookup(top.path) # Nowhere /\ Lists(Lookup(top.path))
  BY <1>2, <1>3, LookupIsAPlace DEF Opened, Places
<1>7. PICK g : g = [top EXCEPT !.rest = Tail(top.rest)]
  OBVIOUS
<1>8. g.path = top.path /\ g.rest = Tail(top.rest)
  BY <1>2, <1>7 DEF FrameType
<1>9. PICK e, k, path : /\ e = top.rest[1] /\ k = Len(disk.dirs[Lookup(top.path)]) - Len(top.rest) + 1
                        /\ path = Append(top.path, e.name)
  OBVIOUS
<1>10. k \in DOMAIN disk.dirs[Lookup(top.path)] /\ e = disk.dirs[Lookup(top.path)][k] /\ 1 \in DOMAIN top.rest
  BY <1>2, <1>5, <1>6, <1>8, <1>9, RestGoesOn
<1>11. e \in DirEntries /\ e.name \in Names /\ e.object \in Objects /\ Lookup(path) = e.object
  BY <1>2, <1>3, <1>6, <1>9, <1>10, EntryLeads
<1>12. path \in Paths /\ Len(path) = Len(top.path) + 1 /\ Len(q) <= Len(path)
  <2>1. path \in Paths /\ Len(path) = Len(top.path) + 1
    BY <1>3, <1>9, <1>11, PathAppend
  <2>2. Len(q) \in Nat /\ Len(top.path) \in Nat /\ Len(q) <= Len(top.path)
    BY <1>3, <1>4, <1>5 DEF Paths, Way
  <2> QED
    BY <2>1, <2>2
<1>13. top.depth + 1 \in Nat
  BY <1>3
<1>14. EntryOnTop(q, n, e, path, k)
  BY <1>1, <1>2, <1>3, <1>4, <1>5, <1>6, <1>9, <1>10, <1>11, <1>12, <1>13, Zenon DEF EntryOnTop
<1> QED
  BY <1>14

\* The stack with that entry taken off.
Taken(st, below, n) ==
  /\ below \in Seq(FrameType) /\ DOMAIN below = DOMAIN st
  /\ \A i \in DOMAIN st :
       /\ below[i].path = st[i].path /\ below[i].depth = st[i].depth
       /\ i # n => below[i].rest = st[i].rest
  /\ below[n].rest = Tail(st[n].rest)

LEMMA OneReplaced ==
  ASSUME NEW S, NEW s \in Seq(S), NEW n \in DOMAIN s, NEW g \in S
  PROVE  [s EXCEPT ![n] = g] \in Seq(S)
OBVIOUS

LEMMA TopIsTaken ==
  ASSUME IInv, NEW n \in DOMAIN stack, stack[n].rest # <<>>,
         NEW below, below = [stack EXCEPT ![n].rest = Tail(@)]
  PROVE  Taken(stack, below, n)
<1>1. stack \in Seq(FrameType) /\ stack[n] \in FrameType
  BY DEF IInv, TypeOK
<1>2. PICK t : t = Tail(stack[n].rest)
  OBVIOUS
<1>3. t \in Seq(DirEntries)
  BY <1>1, <1>2 DEF FrameType
<1>4. PICK g : g = [stack[n] EXCEPT !.rest = t]
  OBVIOUS
<1>5. g \in FrameType /\ g.path = stack[n].path /\ g.depth = stack[n].depth /\ g.rest = t
  BY <1>1, <1>3, <1>4 DEF FrameType
<1>6. below = [stack EXCEPT ![n] = g]
  BY <1>2, <1>4
<1>7. below \in Seq(FrameType) /\ DOMAIN below = DOMAIN stack /\ below[n] = g
      /\ \A i \in DOMAIN stack : i # n => below[i] = stack[i]
  <2>1. below \in Seq(FrameType)
    BY <1>1, <1>5, <1>6, OneReplaced
  <2>2. DOMAIN below = DOMAIN stack /\ below[n] = g /\ \A i \in DOMAIN stack : i # n => below[i] = stack[i]
    BY <1>6, Zenon
  <2> QED
    BY <2>1, <2>2
<1>8. \A i \in DOMAIN stack :
        /\ below[i].path = stack[i].path /\ below[i].depth = stack[i].depth
        /\ i # n => below[i].rest = stack[i].rest
  BY <1>5, <1>7
<1> QED
  BY <1>2, <1>5, <1>7, <1>8 DEF Taken

LEMMA TakenStands ==
  ASSUME IInv, NEW q, NEW n, NEW e, NEW path, NEW k, EntryOnTop(q, n, e, path, k),
         NEW below, Taken(stack, below, n), FramesOK(stack, q)
  PROVE  FramesOK(below, q)
<1>1. /\ n \in DOMAIN stack /\ stack[n] \in FrameType /\ Remaining(stack[n]) /\ stack[n].rest # <<>>
      /\ Lookup(stack[n].path) \in Objects /\ DatasetOK
  BY DEF EntryOnTop, IInv, TypeOK
<1>2. PICK f, g : f = stack[n] /\ g = below[n]
  OBVIOUS
<1>3. g.path = f.path /\ g.rest = Tail(f.rest)
  BY <1>1, <1>2 DEF Taken
<1>4. Remaining(g)
  BY <1>1, <1>2, <1>3, RestGoesOn
<1> SUFFICES ASSUME NEW i \in DOMAIN below
             PROVE  /\ Reads(Lookup(q)) /\ Way(q, below[i].path) /\ Remaining(below[i])
                    /\ Len(below[i].path) = Len(q) + below[i].depth
  BY DEF FramesOK
<1>5. /\ i \in DOMAIN stack /\ below[i].path = stack[i].path /\ below[i].depth = stack[i].depth
      /\ i # n => below[i].rest = stack[i].rest
  BY DEF Taken
<1>6. Reads(Lookup(q)) /\ Way(q, stack[i].path) /\ Len(stack[i].path) = Len(q) + stack[i].depth
      /\ Remaining(stack[i])
  BY <1>5 DEF FramesOK
<1>7. Remaining(below[i])
  BY <1>2, <1>4, <1>5, <1>6 DEF Remaining
<1> QED
  BY <1>5, <1>6, <1>7

\* A directory has one name: the entry taken off is left nowhere.
LEMMA TakenOnce ==
  ASSUME IInv, TreeShaped, NEW q, NEW n, NEW e, NEW path, NEW k, EntryOnTop(q, n, e, path, k),
         NEW below, Taken(stack, below, n), FramesOK(stack, q), WalkedOnce(walked, stack, q)
  PROVE  /\ WalkedOnce(walked, below, q)
         /\ Lookup(stack[n].path) \in walked
         /\ disk.kind[e.object] = "dir" => e.object \notin walked
         /\ disk.kind[e.object] = "dir" =>
              \A i \in DOMAIN below : \A m \in DOMAIN below[i].rest : below[i].rest[m].object # e.object
<1>1. /\ n \in DOMAIN stack /\ stack[n] \in FrameType /\ Remaining(stack[n]) /\ stack[n].rest # <<>>
      /\ Lookup(stack[n].path) \in Objects /\ DatasetOK
      /\ e = stack[n].rest[1] /\ 1 \in DOMAIN stack[n].rest
      /\ k \in DOMAIN disk.dirs[Lookup(stack[n].path)] /\ e = disk.dirs[Lookup(stack[n].path)][k]
      /\ k = Len(disk.dirs[Lookup(stack[n].path)]) - Len(stack[n].rest) + 1
  BY DEF EntryOnTop, IInv, TypeOK
<1>0. \A a, b \in Objects : \A i \in DOMAIN disk.dirs[a], j \in DOMAIN disk.dirs[b] :
        disk.kind[disk.dirs[a][i].object] = "dir" /\ disk.dirs[a][i].object = disk.dirs[b][j].object
        => a = b /\ i = j
  BY DEF TreeShaped
<1>2. PICK f, g, o : f = stack[n] /\ g = below[n] /\ o = Lookup(f.path)
  OBVIOUS
<1>3. g.path = f.path /\ g.rest = Tail(f.rest)
  BY <1>1, <1>2 DEF Taken
<1>4. \A m \in DOMAIN g.rest :
        /\ m + 1 \in DOMAIN f.rest /\ g.rest[m] = f.rest[m + 1]
        /\ k + m \in DOMAIN disk.dirs[o] /\ g.rest[m] = disk.dirs[o][k + m] /\ k + m # k
  <2>1. /\ f \in FrameType /\ Remaining(f) /\ f.rest # <<>> /\ Lookup(f.path) \in Objects
        /\ k = Len(disk.dirs[Lookup(f.path)]) - Len(f.rest) + 1 /\ DatasetOK
    BY <1>1, <1>2
  <2> HIDE <1>1
  <2>2. \A m \in DOMAIN g.rest :
          LET all == disk.dirs[Lookup(f.path)]
              l == Len(all) - Len(f.rest) + 1
          IN  /\ m + 1 \in DOMAIN f.rest /\ g.rest[m] = f.rest[m + 1]
              /\ l + m \in DOMAIN all /\ g.rest[m] = all[l + m] /\ l + m # l
    BY <1>3, <2>1, RestGoesOn
  <2> QED
    BY <1>2, <2>1, <2>2
<1>5. \A i \in DOMAIN below :
        /\ i \in DOMAIN stack /\ below[i].path = stack[i].path
        /\ i # n => below[i].rest = stack[i].rest
  BY DEF Taken
<1>6. \A i \in DOMAIN below : \A m \in DOMAIN below[i].rest : \E l \in DOMAIN stack[i].rest :
        below[i].rest[m] = stack[i].rest[l]
  <2> SUFFICES ASSUME NEW i \in DOMAIN below, NEW m \in DOMAIN below[i].rest
               PROVE  \E l \in DOMAIN stack[i].rest : below[i].rest[m] = stack[i].rest[l]
    OBVIOUS
  <2>1. CASE i = n
    BY <1>2, <1>4, <2>1
  <2>2. CASE i # n
    BY <1>5, <2>2
  <2> QED
    BY <2>1, <2>2
<1>7. WalkedOnce(walked, below, q)
  <2>1. \A i, j \in DOMAIN below : i # j => Lookup(below[i].path) # Lookup(below[j].path)
    BY <1>5 DEF WalkedOnce
  <2>2. \A i \in DOMAIN below : Lookup(below[i].path) \in walked
    BY <1>5 DEF WalkedOnce
  <2>3. \A i \in DOMAIN below : \A m \in DOMAIN below[i].rest :
          disk.kind[below[i].rest[m].object] = "dir" => below[i].rest[m].object \notin walked
    BY <1>5, <1>6 DEF WalkedOnce
  <2>4. \A x \in walked :
          x = Lookup(q) \/ \E d \in walked : \E j \in DOMAIN disk.dirs[d] : disk.dirs[d][j].object = x
    BY DEF WalkedOnce
  <2> QED
    BY <2>1, <2>2, <2>3, <2>4 DEF WalkedOnce
<1>8. Lookup(stack[n].path) \in walked /\ (disk.kind[e.object] = "dir" => e.object \notin walked)
  <2>1. /\ \A i \in DOMAIN stack : Lookup(stack[i].path) \in walked
        /\ \A i \in DOMAIN stack : \A m \in DOMAIN stack[i].rest :
             disk.kind[stack[i].rest[m].object] = "dir" => stack[i].rest[m].object \notin walked
    BY DEF WalkedOnce
  <2> QED
    BY <1>1, <2>1
<1>9. ASSUME disk.kind[e.object] = "dir", NEW i \in DOMAIN below, NEW m \in DOMAIN below[i].rest,
             below[i].rest[m].object = e.object
      PROVE  FALSE
  <2>1. CASE i = n
    <3>1. k + m \in DOMAIN disk.dirs[o] /\ disk.dirs[o][k + m].object = e.object /\ k + m # k
      BY <1>2, <1>4, <1>9, <2>1
    <3>2. k = k + m
      BY <1>1, <1>2, <1>9, <1>0, <3>1
    <3> QED
      BY <3>1, <3>2
  <2>2. CASE i # n
    <3>1. PICK r, d : r = stack[i] /\ d = Lookup(r.path)
      OBVIOUS
    <3>2. i \in DOMAIN stack /\ below[i].rest = r.rest /\ Remaining(r) /\ d # o
      BY <1>1, <1>2, <1>5, <2>2, <3>1 DEF FramesOK, WalkedOnce
    <3>3. d \in Objects
      <4>1. r \in FrameType /\ Opened(r)
        BY <3>1, <3>2 DEF IInv, TypeOK, EntriesArePlaced
      <4> QED
        BY <1>1, <3>1, <4>1, LookupIsAPlace DEF Opened, Places, FrameType
    <3>4. PICK l : l \in DOMAIN disk.dirs[d] /\ disk.dirs[d][l] = r.rest[m]
      <4>1. Opened(r) /\ m \in DOMAIN r.rest
        BY <1>9, <3>1, <3>2 DEF IInv, EntriesArePlaced
      <4> QED
        BY <3>1, <4>1 DEF Opened
    <3>5. disk.dirs[d][l].object = e.object /\ o \in Objects /\ e = disk.dirs[o][k] /\ k \in DOMAIN disk.dirs[o]
      BY <1>1, <1>2, <1>9, <3>2, <3>4
    <3>6. o = d
      BY <1>9, <1>0, <3>3, <3>4, <3>5
    <3> QED
      BY <3>2, <3>6
  <2> QED
    BY <2>1, <2>2
<1> QED
  BY <1>7, <1>8, <1>9

\* A name that was to come from the entry taken off, and is not of that entry,
\* comes from the directory it is of, which is walked into.
LEMMA BelowTheEntry ==
  ASSUME IInv, TreeShaped, opt.command = "extract",
         NEW q, NEW n, NEW e, NEW path, NEW k, EntryOnTop(q, n, e, path, k),
         WalkedOnce(walked, stack, q), NEW d \in Paths, Way(q, d), Len(d) <= Len(q) + MaxDepth,
         Lookup(d) # Nowhere, Lists(Lookup(d)), Len(path) <= Len(d), Upto(d, Len(path)) = path
  PROVE  Walks(e, stack[n].depth + 1)
<1>1. PICK P, o : P = stack[n].path /\ o = Lookup(P)
  OBVIOUS
<1>2. /\ n \in DOMAIN stack /\ e = stack[n].rest[1] /\ 1 \in DOMAIN stack[n].rest
      /\ P \in Paths /\ q \in Paths /\ path \in Paths /\ path = Append(P, e.name) /\ e.name \in Names
      /\ Len(path) = Len(P) + 1 /\ Len(q) <= Len(path) /\ Len(P) = Len(q) + stack[n].depth
      /\ Lookup(path) = e.object /\ o \in Objects /\ k \in DOMAIN disk.dirs[o] /\ e = disk.dirs[o][k]
      /\ stack[n] \in FrameType /\ Way(q, P)
  BY <1>1 DEF EntryOnTop
<1>3. /\ Len(P) \in Nat /\ Len(q) \in Nat /\ Len(d) \in Nat /\ stack[n].depth \in Nat
      /\ Len(q) <= Len(P) /\ MaxDepth \in Nat
  BY <1>2, NamesAssumption DEF Paths, FrameType, Way
<1>4. Upto(d, Len(P)) = P /\ d[Len(P) + 1] = e.name
  <2>1. Len(P) \in 0 .. Len(d) - 1 /\ Len(P) \in 0 .. Len(P) /\ Len(path) = Len(P) + 1
    BY <1>2, <1>3
  <2>2. Upto(d, Len(P) + 1) = Append(Upto(d, Len(P)), d[Len(P) + 1]) /\ d[Len(P) + 1] \in Names
    BY <2>1, UptoNext
  <2>3. Append(Upto(d, Len(P)), d[Len(P) + 1]) = Append(P, e.name)
    BY <1>2, <2>1, <2>2
  <2>4. Upto(d, Len(P)) \in Paths /\ Len(Upto(d, Len(P))) = Len(P)
    BY <1>3, <2>1, UptoAt
  <2>5. PICK u, x, y : u = Upto(d, Len(P)) /\ x = d[Len(P) + 1] /\ y = e.name
    OBVIOUS
  <2>6. u \in Paths /\ x \in Names /\ y \in Names /\ Len(u) = Len(P) /\ Append(u, x) = Append(P, y)
    BY <1>2, <2>2, <2>3, <2>4, <2>5
  <2>7. u = P /\ x = y
    <3>1. Append(u, x)[Len(u) + 1] = x /\ \A i \in 1 .. Len(u) : Append(u, x)[i] = u[i]
      BY <2>6, PathAppend
    <3>2. Append(P, y)[Len(P) + 1] = y /\ \A i \in 1 .. Len(P) : Append(P, y)[i] = P[i]
      BY <1>2, <2>6, PathAppend
    <3>3. x = y /\ \A i \in 1 .. Len(u) : u[i] = P[i]
      BY <2>6, <3>1, <3>2
    <3> QED
      BY <1>2, <2>6, <3>3, SamePath
  <2> QED
    BY <2>5, <2>7
<1>5. IsDir(e)
  <2>1. Len(P) \in Len(q) .. Len(d) - 1
    BY <1>2, <1>3
  <2>2. Leads(d, Len(P))
    BY <2>1 DEF Way
  <2>3. PICK j \in DOMAIN disk.dirs[o] : disk.dirs[o][j].name = e.name /\ IsDir(disk.dirs[o][j])
    BY <1>1, <1>4, <2>2 DEF Leads
  <2>4. j = k
    BY <1>2, <2>3, DatasetsAssumption DEF IInv, TypeOK, DatasetOK, NamesOnce
  <2> QED
    BY <1>2, <2>3, <2>4
<1>6. Lists(e.object)
  <2>1. DatasetOK
    BY DEF IInv, TypeOK
  <2>2. Lists(Lookup(path))
    BY <1>2, <2>1, NextOnTheWay
  <2> QED
    BY <1>2, <2>2
<1>7. e.object \notin walked
  <2>1. \A i \in DOMAIN stack : \A m \in DOMAIN stack[i].rest :
          disk.kind[stack[i].rest[m].object] = "dir" => stack[i].rest[m].object \notin walked
    BY DEF WalkedOnce
  <2> QED
    BY <1>2, <1>6, <2>1 DEF Lists
<1>8. stack[n].depth + 1 <= MaxDepth
  BY <1>2, <1>3
<1>9. opt.deep
  BY CommandLinesAssumption DEF IInv, TypeOK
<1> QED
  BY <1>5, <1>7, <1>8, <1>9 DEF Walks

\* What was to come still is, or has a line, or is below the directory entered.
LEMMA EntryCovers ==
  ASSUME IInv, TreeShaped, opt.command = "extract",
         NEW q, NEW n, NEW e, NEW path, NEW k, EntryOnTop(q, n, e, path, k),
         NEW below, Taken(stack, below, n), WalkedOnce(walked, stack, q),
         NEW ls, Covered(q, ls, stack), NEW more \in Seq(FrameType),
         Walks(e, stack[n].depth + 1) => more = Entered(path, e.object, stack[n].depth + 1)
  PROVE  Covered(q, ls \cup {path}, below \o more)
<1>1. PICK P, depth : P = stack[n].path /\ depth = stack[n].depth + 1
  OBVIOUS
<1>2. /\ n \in DOMAIN stack /\ e = stack[n].rest[1] /\ 1 \in DOMAIN stack[n].rest
      /\ P \in Paths /\ q \in Paths /\ path \in Paths /\ path = Append(P, e.name)
      /\ Len(path) = Len(P) + 1 /\ Len(q) <= Len(path)
      /\ Lookup(path) = e.object /\ Lookup(P) \in Objects /\ Remaining(stack[n])
      /\ stack[n] \in FrameType /\ stack[n].rest # <<>>
  BY <1>1 DEF EntryOnTop
<1>3. DatasetOK
  BY DEF IInv, TypeOK
<1>4. /\ below \in Seq(FrameType) /\ DOMAIN below = DOMAIN stack
      /\ \A i \in DOMAIN stack : below[i].path = stack[i].path /\ (i # n => below[i].rest = stack[i].rest)
      /\ below[n].rest = Tail(stack[n].rest)
  BY DEF Taken
<1>5. \A m \in DOMAIN stack[n].rest :
        m = 1 \/ (m - 1 \in DOMAIN below[n].rest /\ below[n].rest[m - 1] = stack[n].rest[m])
  <2>1. PICK r, t : r = stack[n].rest /\ t = below[n].rest
    OBVIOUS
  <2>2. r \in Seq(DirEntries) /\ r # <<>> /\ t = Tail(r)
    BY <1>2, <1>4, <2>1 DEF FrameType
  <2>3. \A m \in DOMAIN r : m = 1 \/ (m - 1 \in DOMAIN t /\ t[m - 1] = r[m])
    BY <2>2
  <2> QED
    BY <2>1, <2>3
<1> SUFFICES ASSUME Reads(Lookup(q)), NEW d \in Paths, Way(q, d), Len(d) <= Len(q) + MaxDepth,
                    Lookup(d) # Nowhere, Lists(Lookup(d)), NEW j \in DOMAIN disk.dirs[Lookup(d)],
                    NEW p, p = Append(d, disk.dirs[Lookup(d)][j].name)
             PROVE  p \in ls \/ p = path \/ Pending(below \o more, p)
  BY DEF Covered
<1>6. p \in ls \/ Pending(stack, p)
  BY DEF Covered
<1>7. CASE Pending(stack, p)
  <2>1. PICK i \in DOMAIN stack : \E m \in DOMAIN stack[i].rest :
          /\ Len(stack[i].path) < Len(p)
          /\ Upto(p, Len(stack[i].path) + 1) = Append(stack[i].path, stack[i].rest[m].name)
    BY <1>7 DEF Pending
  <2>2. PICK m \in DOMAIN stack[i].rest :
          /\ Len(stack[i].path) < Len(p)
          /\ Upto(p, Len(stack[i].path) + 1) = Append(stack[i].path, stack[i].rest[m].name)
    BY <2>1
  <2>3. CASE i # n \/ m # 1
    <3>1. Pending(below, p)
      <4>1. CASE i # n
        BY <1>4, <2>2, <4>1 DEF Pending
      <4>2. CASE i = n /\ m # 1
        <5>1. m - 1 \in DOMAIN below[n].rest /\ below[n].rest[m - 1] = stack[n].rest[m]
          BY <1>5, <4>2
        <5> QED
          BY <1>2, <1>4, <2>2, <4>2, <5>1 DEF Pending
      <4> QED
        BY <2>3, <4>1, <4>2
    <3> QED
      BY <1>4, <3>1, BothPend
  <2>4. CASE i = n /\ m = 1
    <3>1. Len(P) < Len(p) /\ Upto(p, Len(path)) = path
      BY <1>1, <1>2, <2>2, <2>4
    <3>2. /\ p \in Paths /\ Len(p) = Len(d) + 1 /\ Len(d) \in Nat /\ Len(P) \in Nat /\ Len(path) \in Nat
          /\ disk.dirs[Lookup(d)][j].name \in Names
      <4>1. disk.dirs[Lookup(d)][j].name \in Names
        BY <1>3, EntryLeads
      <4> QED
        BY <1>2, <4>1, PathAppend DEF Paths
    <3>3. CASE Len(path) = Len(p)
      <4>1. p = path
        BY <3>1, <3>2, <3>3, UptoAll
      <4> QED
        BY <4>1
    <3>4. CASE Len(path) # Len(p)
      <4>1. Len(path) <= Len(d) /\ Len(path) \in 0 .. Len(d)
        BY <1>2, <3>1, <3>2, <3>4
      <4>2. Upto(d, Len(path)) = path
        BY <3>1, <3>2, <4>1, UptoOfAppend
      <4>3. Walks(e, depth)
        BY <1>1, <4>1, <4>2, BelowTheEntry
      <4>4. more = Entered(path, e.object, depth)
        BY <1>1, <4>3
      <4>5. Pending(Entered(path, e.object, depth), p)
        BY <1>2, <1>3, <4>1, <4>2, EnteredPends
      <4> QED
        BY <1>4, <4>4, <4>5, BothPend
    <3> QED
      BY <3>3, <3>4
  <2> QED
    BY <2>3, <2>4
<1> QED
  BY <1>6, <1>7

LEMMA WalkEntryKeepsWalk ==
  ASSUME IInv, WalkInv, WalkEntry
  PROVE  WalkInv'
<1>1. /\ phase = "walk" /\ phase' = "walk" /\ stack # <<>> /\ stack[Len(stack)].rest # <<>>
      /\ UNCHANGED <<source, flag, phase, roots, out, copy, ledger, slot, cut, exit>>
  BY DEF WalkEntry
<1>2. /\ UNCHANGED source /\ roots' = roots /\ files' = files /\ exit' = exit /\ exit = "running"
      /\ flag' = flag /\ copy' = copy /\ DatasetOK
      /\ stack \in Seq(FrameType) /\ listing \in Seq(EntryType) /\ walked \subseteq Objects
  BY <1>1 DEF ledger, IInv, TypeOK, PhasesFollow
<1> SUFFICES ASSUME opt.command = "extract" PROVE WalkInv'
  BY <1>2 DEF WalkInv, source
<1>3. PICK q, n, e, path, k : EntryOnTop(q, n, e, path, k)
  BY <1>1, TopIsPlaced
<1>4. PICK P, depth : P = stack[n].path /\ depth = stack[n].depth + 1
  OBVIOUS
<1>5. /\ n = Len(stack) /\ n \in DOMAIN stack /\ q = roots[1].path /\ q \in Paths /\ q \in Asked
      /\ P \in Paths /\ Way(q, P) /\ Reads(Lookup(q)) /\ Len(P) = Len(q) + stack[n].depth
      /\ Lookup(P) \in Objects /\ Lookup(P) # Nowhere /\ Lists(Lookup(P))
      /\ k \in DOMAIN disk.dirs[Lookup(P)] /\ e = disk.dirs[Lookup(P)][k] /\ e = Head(stack[n].rest)
      /\ path = Append(P, e.name) /\ e.name \in Names /\ e.object \in Objects /\ path \in Paths
      /\ Lookup(path) = e.object /\ Len(path) = Len(P) + 1 /\ Len(q) <= Len(path)
      /\ depth \in Nat /\ stack[n].depth \in Nat
  <2>1. /\ n \in DOMAIN stack /\ stack[n] \in FrameType /\ stack[n].rest # <<>> /\ e = stack[n].rest[1]
        /\ depth \in Nat
    BY <1>3, <1>4 DEF EntryOnTop
  <2>2. stack[n].depth \in Nat /\ e = Head(stack[n].rest)
    BY <2>1 DEF FrameType
  <2> QED
    BY <1>3, <1>4, <2>1, <2>2, Zenon DEF EntryOnTop
<1>6. PICK below, x, more, lost :
        /\ below = [stack EXCEPT ![n].rest = Tail(@)]
        /\ x = Entry(path, e.object, Reads(e.object))
        /\ more = Entered(path, e.object, depth) /\ lost = NotRead(path, e.object)
  OBVIOUS
<1>7. \/ /\ Walks(e, depth) /\ stack' = below \o more
         /\ listing' = Append(listing, x) \o lost /\ walked' = walked \cup {e.object}
      \/ ~Walks(e, depth) /\ stack' = below /\ listing' = Append(listing, x) /\ walked' = walked
  BY <1>4, <1>5, <1>6 DEF WalkEntry
<1>8. Taken(stack, below, n)
  BY <1>1, <1>5, <1>6, TopIsTaken
<1>9. /\ below \in Seq(FrameType) /\ more \in Seq(FrameType) /\ lost \in Seq(EntryType)
      /\ x \in EntryType /\ x.path = path
  <2>1. more \in Seq(FrameType) /\ lost \in Seq(EntryType)
    BY <1>2, <1>5, <1>6, EnteredIsPlaced
  <2>2. PICK b \in BOOLEAN : b = Reads(e.object)
    <3>1. Reads(e.object) \in BOOLEAN
      BY DEF Reads
    <3> WITNESS Reads(e.object) \in BOOLEAN
    <3> QED
      OBVIOUS
  <2>3. x \in EntryType /\ x.path = path
    BY <1>5, <1>6, <2>2 DEF Entry, EntryType
  <2> QED
    BY <1>8, <2>1, <2>3 DEF Taken
<1>10. PathsOf(listing') = PathsOf(listing) \cup {path}
  <2>1. PICK met : met = Append(listing, x)
    OBVIOUS
  <2>2. met \in Seq(EntryType) /\ PathsOf(met) = PathsOf(listing) \cup {path}
    BY <1>2, <1>9, <2>1, PathsOfAppend
  <2>3. PathsOf(met \o lost) = PathsOf(met) \cup PathsOf(lost) /\ PathsOf(lost) \subseteq {path}
    BY <1>6, <1>9, <2>2, PathsOfBoth, EnteredIsAFrame
  <2>4. listing' = met \o lost \/ listing' = met
    BY <1>7, <2>1
  <2> QED
    BY <2>2, <2>3, <2>4
<1>11. Lines' = Lines \cup {path}
  <2>1. PathsOf(files)' = PathsOf(files) /\ PathsOf(listing)' = PathsOf(listing')
    BY <1>2 DEF PathsOf
  <2> QED
    BY <1>1, <1>10, <2>1 DEF Lines
<1>12. \A p \in Lines' : Reached(p)
  <2>1. EntryOf(P, path)
    BY <1>5 DEF EntryOf
  <2>2. Reached(path)
    BY <1>5, <2>1 DEF Reached
  <2> QED
    BY <1>11, <2>2 DEF WalkInv, LinesAreReached
<1>13. FramesOK(stack, q) /\ FramesOK(below, q)
  BY <1>1, <1>3, <1>5, <1>8, TakenStands DEF WalkInv, FramesStand
<1>14. FramesOK(stack', q)
  <2>1. CASE stack' = below
    BY <1>13, <2>1
  <2>2. CASE stack' = below \o more /\ Walks(e, depth)
    <3>1. Way(q, path)
      BY <1>5, <2>2, WayGoesOn DEF Walks
    <3>2. Len(path) = Len(q) + depth
      <4>1. Len(q) \in Nat /\ Len(P) \in Nat
        BY <1>5 DEF Paths
      <4>2. /\ Len(path) = Len(P) + 1 /\ Len(P) = Len(q) + stack[n].depth
            /\ stack[n].depth \in Nat /\ depth = stack[n].depth + 1
        BY <1>4, <1>5
      <4> QED
        BY <4>1, <4>2
    <3>3. FramesOK(more, q)
      BY <1>2, <1>5, <1>6, <3>1, <3>2, EnteredStands
    <3> QED
      BY <1>9, <1>13, <2>2, <3>3, BothStand
  <2> QED
    BY <1>7, <2>1, <2>2
<1>15. TreeShaped => WalkedOnce(walked, stack, q)
  BY <1>1, <1>5 DEF WalkInv, WalksOnce
<1>16. ASSUME TreeShaped
       PROVE  WalkedOnce(walked', stack', q)
  <2>1. /\ WalkedOnce(walked, below, q) /\ Lookup(P) \in walked
        /\ disk.kind[e.object] = "dir" =>
             \A i \in DOMAIN below : \A m \in DOMAIN below[i].rest : below[i].rest[m].object # e.object
    BY <1>3, <1>4, <1>8, <1>13, <1>15, <1>16, TakenOnce
  <2>2. CASE stack' = below /\ walked' = walked
    BY <2>1, <2>2
  <2>3. CASE stack' = below \o more /\ walked' = walked \cup {e.object} /\ Walks(e, depth)
    <3>1. e.object \notin walked
      BY <2>3 DEF Walks
    <3>2. \E o \in walked : \E j \in DOMAIN disk.dirs[o] : disk.dirs[o][j].object = e.object
      BY <1>5, <2>1
    <3>3. WalkedOnce(walked \cup {e.object}, below \o Entered(path, e.object, depth), q)
      BY <1>2, <1>5, <1>9, <1>16, <2>1, <3>1, <3>2, EnterOnce
    <3> QED
      BY <1>6, <2>3, <3>3
  <2> QED
    BY <1>7, <2>2, <2>3
<1>17. TreeShaped /\ ~flag => SoFar(Lines', stack', roots, "walk")
  <2> SUFFICES ASSUME TreeShaped, ~flag, NEW a \in Asked
               PROVE  \/ Covered(a, Lines', <<>>)
                      \/ a = q /\ Covered(a, Lines', stack')
                      \/ \E i \in DOMAIN roots : roots[i].path = a /\ i # 1
    BY <1>5 DEF SoFar
  <2>1. \/ Covered(a, Lines, <<>>)
        \/ a = q /\ Covered(a, Lines, stack)
        \/ \E i \in DOMAIN roots : roots[i].path = a /\ i # 1
    BY <1>1, <1>5 DEF WalkInv, AllCovered, SoFar
  <2>2. CASE Covered(a, Lines, <<>>)
    BY <1>11, <2>2, MoreLines
  <2>3. CASE a = q /\ Covered(q, Lines, stack)
    <3>1. CASE stack' = below \o more
      <4>1. Covered(q, Lines \cup {path}, below \o more)
        BY <1>3, <1>4, <1>6, <1>8, <1>9, <1>15, <2>3, EntryCovers
      <4> QED
        BY <1>11, <2>3, <3>1, <4>1
    <3>2. CASE ~Walks(e, depth) /\ stack' = below
      <4>1. PICK none : none = <<>>
        OBVIOUS
      <4>2. none \in Seq(FrameType) /\ below \o none = below
        BY <1>9, <4>1
      <4>3. Covered(q, Lines \cup {path}, below \o none)
        BY <1>3, <1>4, <1>8, <1>15, <2>3, <3>2, <4>2, EntryCovers
      <4> QED
        BY <1>11, <2>3, <3>2, <4>2, <4>3
    <3> QED
      BY <1>7, <3>1, <3>2
  <2> QED
    BY <2>1, <2>2, <2>3
<1>18. /\ \A i \in DOMAIN roots : roots[i].path \in Asked
       /\ \A a \in Asked : Lookup(a) # Nowhere
  BY <1>1, <1>2 DEF WalkInv, PlacesAsked
<1> QED
  BY <1>1, <1>2, <1>5, <1>12, <1>14, <1>16, <1>17, <1>18, WalkNext

-----------------------------------------------------------------------------
\* The lines of a run.

LEMMA WalkBegins ==
  ASSUME Init
  PROVE  WalkInv
<1>1. /\ phase = "open" /\ files = <<>> /\ listing = <<>> /\ roots = <<>> /\ exit = "running"
  BY DEF Init
<1>2. Lines = {}
  BY <1>1 DEF Lines, PathsOf
<1> QED
  BY <1>1, <1>2 DEF WalkInv, LinesAreReached, PlacesAsked, ListingIsDone, FramesStand,
     WalksOnce, AllCovered

LEMMA StutterKeepsWalk ==
  ASSUME IInv, WalkInv, UNCHANGED vars
  PROVE  WalkInv'
<1>1. /\ UNCHANGED source /\ flag' = flag /\ phase' = phase /\ roots' = roots /\ stack' = stack
      /\ walked' = walked /\ listing' = listing /\ copy' = copy /\ files' = files
      /\ cut' = cut /\ exit' = exit
  BY DEF vars, source, walk, ledger
<1>2. Lines' = Lines
  BY <1>1 DEF Lines, PathsOf
<1> QED
  BY <1>1, <1>2, WalkNext DEF WalkInv, LinesAreReached, PlacesAsked, ListingIsDone,
     FramesStand, WalksOnce, AllCovered

LEMMA StepKeepsWalk ==
  ASSUME IInv, WalkInv, [Next]_vars
  PROVE  WalkInv'
<1>1. CASE Interrupt \/ OpenFails \/ Open
  BY <1>1, InterruptKeepsWalk, OpenFailsKeepsWalk, OpenKeepsWalk
<1>2. CASE TakeRoot \/ WalkEntry \/ WalkReturn \/ WalkEnds
  BY <1>2, TakeRootKeepsWalk, WalkEntryKeepsWalk, WalkReturnKeepsWalk, WalkEndsKeepsWalk
<1>3. CASE NextEntry \/ EndEntries
  BY <1>3, NextEntryKeepsWalk, EndEntriesKeepsWalk
<1>4. CASE EntryRefused \/ EntryDir \/ EntrySymlink \/ EntryLink \/ EntryFile
  BY <1>4, EntriesKeepWalk
<1>5. CASE CopyBlock \/ CopyStops \/ CopyEnds
  BY <1>5, CopyKeepsWalk
<1>6. CASE LastRoot \/ WriteManifest
  BY <1>6, LastRootKeepsWalk, WriteManifestKeepsWalk
<1>7. CASE ObjectSkipped \/ ObjectWritten \/ ObjectsEnd
  BY <1>7, ObjectsKeepWalk
<1>8. CASE UNCHANGED vars
  BY <1>8, StutterKeepsWalk
<1> QED
  BY <1>1, <1>2, <1>3, <1>4, <1>5, <1>6, <1>7, <1>8 DEF Next

LEMMA NamesAreCovered ==
  ASSUME IInv, WalkInv, Extracted({"0", "PARTIAL"}), TreeShaped
  PROVE  NamesHaveLines
<1>1. opt.command = "extract" /\ exit \in {"0", "PARTIAL"} /\ phase = "ended" /\ DatasetOK
  BY DEF Extracted, IInv, PhasesFollow, TypeOK
<1>2. /\ \A a \in Asked : Covered(a, Lines, <<>>) /\ Lookup(a) # Nowhere
      /\ Asked \subseteq Paths
      /\ \A p \in Lines : Reached(p)
  BY <1>1, AskedArePaths DEF WalkInv, AllCovered, PlacesAsked, LinesAreReached
<1>3. Lines = PathsOf(files)
  BY <1>1 DEF Lines, WalkInv, ListingIsDone, PathsOf
<1>4. \A i \in DOMAIN files : /\ files[i].path \in Paths /\ files[i].object \in Objects
                             /\ files[i].object = Lookup(files[i].path)
  <2>1. files \in Seq(RecordType)
    BY DEF IInv, TypeOK
  <2>2. \A i \in DOMAIN files : Placed(files[i])
    BY <1>1 DEF IInv, RecordsTell, LinesTell, Tells
  <2>3. \A i \in DOMAIN files : files[i] \in RecordType
    BY <2>1
  <2>4. \A i \in DOMAIN files : files[i].object = Lookup(files[i].path)
    BY <2>2 DEF Placed
  <2> QED
    BY <2>3, <2>4 DEF RecordType
<1>5. ASSUME NEW q \in Asked, NEW p \in Paths, Reached(p), Lookup(p) # Nowhere,
             Reads(Lookup(q)), Reads(Lookup(p)), Lists(Lookup(p)),
             Len(q) <= Len(p), Len(p) <= Len(q) + MaxDepth, Upto(p, Len(q)) = q
      PROVE  \E a \in Asked : Reads(Lookup(a)) /\ Way(a, p) /\ Len(p) <= Len(a) + MaxDepth
  <2>1. PICK a \in Asked : p = a \/ (Reads(Lookup(a)) /\ \E d \in Paths : Way(a, d) /\ EntryOf(d, p))
    BY <1>5 DEF Reached
  <2>2. Reads(Lookup(a)) /\ Way(a, p)
    <3>1. CASE p = a
      BY <1>5, <3>1, WayStarts
    <3>2. CASE Reads(Lookup(a)) /\ \E d \in Paths : Way(a, d) /\ EntryOf(d, p)
      <4>1. PICK d \in Paths : Way(a, d) /\ EntryOf(d, p)
        BY <3>2
      <4>2. PICK j \in DOMAIN disk.dirs[Lookup(d)] : p = Append(d, disk.dirs[Lookup(d)][j].name)
        BY <4>1 DEF EntryOf
      <4>3. PICK n : n = disk.dirs[Lookup(d)][j].name
        OBVIOUS
      <4>4. Lookup(d) # Nowhere /\ Lists(Lookup(d))
        BY <4>1 DEF EntryOf
      <4>5. n \in Names /\ Lookup(p) = disk.dirs[Lookup(d)][j].object
        BY <1>1, <4>2, <4>3, <4>4, EntryLeads
      <4>6. IsDir(disk.dirs[Lookup(d)][j])
        BY <1>5, <4>5 DEF IsDir, Lists
      <4>7. Way(a, Append(d, n))
        BY <1>2, <4>1, <4>3, <4>4, <4>5, <4>6, WayGoesOn
      <4> QED
        BY <3>2, <4>2, <4>3, <4>7
    <3> QED
      BY <2>1, <3>1, <3>2
  <2>3. a \in Paths /\ q \in Paths /\ Len(a) \in Nat /\ Len(q) \in Nat /\ Len(p) \in Nat /\ MaxDepth \in Nat
    BY <1>2, NamesAssumption DEF Paths
  <2>4. CASE Len(q) <= Len(a)
    <3>1. Len(p) <= Len(a) + MaxDepth
      BY <1>5, <2>3, <2>4
    <3> QED
      BY <2>2, <3>1
  <2>5. CASE Len(a) < Len(q)
    <3>1. Len(a) <= Len(q)
      BY <2>3, <2>5
    <3>2. Way(q, p)
      BY <1>5, <2>2, <2>3, <3>1, WayFrom
    <3> QED
      BY <1>5, <3>2
  <2> QED
    BY <2>3, <2>4, <2>5
<1>6. ASSUME NEW q \in Asked, NEW p \in Paths, Reached(p), Lookup(p) # Nowhere,
             Reads(Lookup(q)), Reads(Lookup(p)), Lists(Lookup(p)),
             Len(q) <= Len(p), Len(p) <= Len(q) + MaxDepth, Upto(p, Len(q)) = q,
             NEW j \in DOMAIN disk.dirs[Lookup(p)]
      PROVE  HasRecord(Append(p, disk.dirs[Lookup(p)][j].name), disk.dirs[Lookup(p)][j].object)
  <2>1. PICK a \in Asked : Reads(Lookup(a)) /\ Way(a, p) /\ Len(p) <= Len(a) + MaxDepth
    BY <1>5, <1>6
  <2>2. PICK x : x = Append(p, disk.dirs[Lookup(p)][j].name)
    OBVIOUS
  <2>3. x \in Lines \/ Pending(<<>>, x)
    BY <1>2, <1>6, <2>1, <2>2 DEF Covered
  <2>4. ~Pending(<<>>, x)
    BY DEF Pending
  <2>5. PICK i \in DOMAIN files : files[i].path = x
    BY <1>3, <2>3, <2>4 DEF PathsOf
  <2>6. Lookup(x) = disk.dirs[Lookup(p)][j].object
    BY <1>1, <1>6, <2>2, EntryLeads
  <2> QED
    BY <1>4, <2>2, <2>5, <2>6 DEF HasRecord
<1> DEFINE reached == {<<p, Lookup(p)>> : p \in Asked} \cup
                      {<<files[i].path, files[i].object>> : i \in DOMAIN files}
<1>7. \A r \in reached : r[1] \in Paths /\ r[2] = Lookup(r[1]) /\ Lookup(r[1]) # Nowhere /\ Reached(r[1])
  <2>1. \A p \in Asked : p \in Paths /\ Lookup(p) # Nowhere /\ Reached(p)
    BY <1>2 DEF Reached
  <2>2. \A i \in DOMAIN files : /\ files[i].path \in Paths /\ files[i].object = Lookup(files[i].path)
                               /\ files[i].object # Nowhere /\ Reached(files[i].path)
    BY <1>2, <1>3, <1>4 DEF PathsOf, Objects, Nowhere
  <2> QED
    BY <2>1, <2>2
<1> HIDE DEF reached
<1>8. ASSUME NEW q \in Asked, NEW r \in reached, Reads(Lookup(q)), Reads(r[2]), Lists(r[2]),
             Len(r[1]) \in Len(q) .. Len(q) + MaxDepth, Upto(r[1], Len(q)) = q,
             NEW i \in DOMAIN disk.dirs[r[2]]
      PROVE  HasRecord(Append(r[1], disk.dirs[r[2]][i].name), disk.dirs[r[2]][i].object)
  <2>1. PICK p : p = r[1]
    OBVIOUS
  <2>2. p \in Paths /\ r[2] = Lookup(p) /\ Lookup(p) # Nowhere /\ Reached(p)
    BY <1>7, <2>1
  <2>3. Len(q) <= Len(p) /\ Len(p) <= Len(q) + MaxDepth
    BY <1>2, <1>8, <2>1, <2>2, NamesAssumption DEF Paths
  <2> QED
    BY <1>6, <1>8, <2>1, <2>2, <2>3
<1> QED
  BY <1>8 DEF NamesHaveLines, reached

\* The manifest of a run that nothing interrupted: extract in
\* zvolfiles/src/extract.rs, walk_into and walk_from in zfs-read/src/zpl.rs.
THEOREM StatusTellsHolds == Spec => []StatusTells
<1>1. Init => IInv /\ WalkInv
  BY InitIsOK, WalkBegins
<1>2. IInv /\ WalkInv /\ [Next]_vars => IInv' /\ WalkInv'
  BY StepKeepsInv, StepKeepsWalk
<1>3. IInv /\ WalkInv => StatusTells
  BY NamesAreCovered DEF StatusTells, IInv, ZeroIsWhole
<1> QED
  BY <1>1, <1>2, <1>3, PTL DEF Spec
=============================================================================
