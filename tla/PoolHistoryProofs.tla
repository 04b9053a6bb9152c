--------------------------- MODULE PoolHistoryProofs ---------------------------
(***************************************************************************)
(* What PoolHistory promises for every pool, whatever commands it was      *)
(* given and whatever of it was lost since: each TXG is a tree of          *)
(* directories whose paths are what its user saw, with nothing else in it; *)
(* a name of a walk is of one dataset; what the timeline calls destroyed   *)
(* is found again at the TXG it names; a dataset that `list` does not show *)
(* has an error in its place or above it; and between two TXGs that read   *)
(* whole the timeline is the user's script.                                *)
(*                                                                         *)
(* The inductive invariant is about the objects (PoolHistoryInvariants).   *)
(* Each command of the pool keeps it: first what the command changes of    *)
(* the objects, then that the result is sound, and that it is what its     *)
(* user sees, then the action itself. The walk is a recursive function:    *)
(* its calls are followed by an invariant of their own, with the set of    *)
(* the directories that were walked.                                       *)
(***************************************************************************)
EXTENDS PoolHistoryInvariants, WellFoundedInduction, FiniteSetTheorems, SequenceTheorems, TLAPS

-----------------------------------------------------------------------------
(* Numbers                                                                 *)

\* A set of numbers that has a member has a least one.
LEMMA HasLeast ==
  ASSUME NEW S \in SUBSET Nat, S # {}
  PROVE  \E x \in S : \A y \in S : x <= y
<1>1. PICK x \in S : \A y \in S : ~ (<<y, x>> \in OpToRel(<, Nat))
  BY NatLessThanWellFounded, WFMin
<1>2. \A y \in S : ~ (y < x)
  BY <1>1 DEF OpToRel
<1> QED
  BY <1>2

\* Where it has a bound, it has a greatest one too.
LEMMA HasGreatest ==
  ASSUME NEW S \in SUBSET Nat, S # {}, NEW m \in Nat, \A x \in S : x <= m
  PROVE  \E x \in S : \A y \in S : y <= x
<1> DEFINE T == {m - x : x \in S}
<1>1. \A x \in S : m - x \in Nat
  OBVIOUS
<1>2. T \in SUBSET Nat /\ T # {}
  BY <1>1
<1> HIDE DEF T
<1>3. PICK z \in T : \A y \in T : z <= y
  BY <1>2, HasLeast
<1>4. PICK x \in S : z = m - x
  BY <1>3 DEF T
<1>5. \A y \in S : m - x <= m - y
  BY <1>3, <1>4 DEF T
<1> QED
  BY <1>5

\* A set of numbers with 0 in it, and the number after each of its members, is
\* all of them.
LEMMA SetInduction ==
  ASSUME NEW S \in SUBSET Nat, 0 \in S, \A n \in S : n + 1 \in S
  PROVE  S = Nat
<1> SUFFICES ASSUME Nat \ S # {} PROVE FALSE
  OBVIOUS
<1>1. PICK x \in Nat \ S : \A y \in Nat \ S : x <= y
  <2>1. Nat \ S \in SUBSET Nat
    OBVIOUS
  <2> QED
    BY <2>1, HasLeast
<1>2. x - 1 \in Nat /\ x - 1 + 1 = x
  BY <1>1
<1>3. x - 1 \in S
  BY <1>1, <1>2
<1> QED
  BY <1>1, <1>2, <1>3

\* The first n + 1 values of the function that begins with a and goes on as
\* step says.
IsStart(g, n, S, a, step) ==
  /\ g \in [0 .. n -> S] /\ g[0] = a
  /\ \A i \in 0 .. n - 1 : g[i + 1] = step[<<i, g[i]>>]

\* There are such starts of every length (a recursive function of the model is
\* one value after the other).
LEMMA StartExists ==
  ASSUME NEW S, NEW a \in S, NEW step \in [Nat \X S -> S], NEW n \in Nat
  PROVE  \E g : IsStart(g, n, S, a, step)
<1> DEFINE Good == {m \in Nat : \E g : IsStart(g, m, S, a, step)}
<1>1. 0 \in Good
  <2>1. IsStart([i \in 0 .. 0 |-> a], 0, S, a, step)
    BY DEF IsStart
  <2> QED
    BY <2>1
<1>2. ASSUME NEW m \in Good
      PROVE  m + 1 \in Good
  <2>1. PICK g : IsStart(g, m, S, a, step)
    OBVIOUS
  <2> DEFINE h == [i \in 0 .. m + 1 |-> IF i <= m THEN g[i] ELSE step[<<m, g[m]>>]]
  <2>2. g \in [0 .. m -> S] /\ g[m] \in S /\ step[<<m, g[m]>>] \in S
    BY <2>1 DEF IsStart
  <2>3. h \in [0 .. m + 1 -> S] /\ h[0] = a
    BY <2>1, <2>2 DEF IsStart
  <2>4. ASSUME NEW i \in 0 .. m + 1 - 1
        PROVE  h[i + 1] = step[<<i, h[i]>>]
    <3>1. i \in 0 .. m /\ h[i] = g[i] /\ i + 1 \in 0 .. m + 1
      OBVIOUS
    <3>2. CASE i = m
      <4>1. ~ (i + 1 <= m) /\ h[i + 1] = step[<<m, g[m]>>]
        BY <3>1, <3>2
      <4> HIDE DEF h
      <4> QED
        BY <3>1, <3>2, <4>1
    <3>3. CASE i # m
      <4>1. i \in 0 .. m - 1 /\ i + 1 <= m
        BY <3>1, <3>3
      <4>2. h[i + 1] = g[i + 1]
        BY <3>1, <4>1
      <4> QED
        BY <2>1, <3>1, <4>1, <4>2 DEF IsStart
    <3> QED
      BY <3>2, <3>3
  <2> HIDE DEF h
  <2>5. IsStart(h, m + 1, S, a, step)
    BY <2>3, <2>4 DEF IsStart
  <2> QED
    BY <2>5
<1>3. Good \in SUBSET Nat
  OBVIOUS
<1> HIDE DEF Good
<1>4. n \in Good
  BY <1>1, <1>2, <1>3, SetInduction
<1> QED
  BY <1>4 DEF Good

\* Two of them agree as far as both go.
LEMMA StartsAgree ==
  ASSUME NEW S, NEW a \in S, NEW step \in [Nat \X S -> S],
         NEW n \in Nat, NEW g, IsStart(g, n, S, a, step),
         NEW m \in Nat, NEW h, IsStart(h, m, S, a, step)
  PROVE  \A i \in Nat : i <= n /\ i <= m => g[i] = h[i]
<1> SUFFICES ASSUME NEW i \in Nat, i <= n, i <= m PROVE g[i] = h[i]
  OBVIOUS
<1> DEFINE Good == {j \in Nat : j <= n /\ j <= m => g[j] = h[j]}
<1>1. 0 \in Good
  BY DEF IsStart
<1>2. ASSUME NEW j \in Good
      PROVE  j + 1 \in Good
  <2> SUFFICES ASSUME j + 1 <= n, j + 1 <= m PROVE g[j + 1] = h[j + 1]
    OBVIOUS
  <2>1. j \in 0 .. n - 1 /\ j \in 0 .. m - 1 /\ g[j] = h[j]
    OBVIOUS
  <2> QED
    BY <2>1 DEF IsStart
<1>3. Good \in SUBSET Nat
  OBVIOUS
<1> HIDE DEF Good
<1>4. i \in Nat /\ i <= n /\ i <= m
  OBVIOUS
<1>5. i \in Good
  BY <1>1, <1>2, <1>3, <1>4, SetInduction
<1> QED
  BY <1>4, <1>5 DEF Good

\* The function on all numbers that begins with a and goes on as step says.
IsRecursion(f, S, a, step) ==
  f \in [Nat -> S] /\ f[0] = a /\ \A n \in Nat : f[n + 1] = step[<<n, f[n]>>]

\* A function is defined by its first value and the step to the next.
THEOREM RecursionIsDefined ==
  ASSUME NEW S, NEW a \in S, NEW step \in [Nat \X S -> S]
  PROVE  \E f : IsRecursion(f, S, a, step)
<1> DEFINE G(n) == CHOOSE g : IsStart(g, n, S, a, step)
           f == [n \in Nat |-> G(n)[n]]
<1>1. ASSUME NEW n \in Nat
      PROVE  IsStart(G(n), n, S, a, step)
  BY StartExists
<1> HIDE DEF G
<1>2. f \in [Nat -> S]
  BY <1>1 DEF IsStart
<1>3. f[0] = a
  BY <1>1 DEF IsStart
<1>4. ASSUME NEW n \in Nat
      PROVE  f[n + 1] = step[<<n, f[n]>>]
  <2>1. IsStart(G(n + 1), n + 1, S, a, step) /\ IsStart(G(n), n, S, a, step)
    BY <1>1
  <2>2. G(n + 1)[n] = G(n)[n]
    <3>1. PICK g, h : g = G(n + 1) /\ h = G(n)
      OBVIOUS
    <3>2. n + 1 \in Nat /\ n <= n /\ n <= n + 1
      OBVIOUS
    <3>3. IsStart(g, n + 1, S, a, step) /\ IsStart(h, n, S, a, step)
      BY <2>1, <3>1
    <3>4. \A i \in Nat : i <= n + 1 /\ i <= n => g[i] = h[i]
      BY <3>2, <3>3, StartsAgree
    <3> QED
      BY <3>1, <3>2, <3>4
  <2>3. G(n + 1)[n + 1] = step[<<n, G(n + 1)[n]>>]
    BY <2>1 DEF IsStart
  <2> QED
    BY <2>2, <2>3
<1> QED
  BY <1>2, <1>3, <1>4 DEF IsRecursion

-----------------------------------------------------------------------------
(* What a walk is made of                                                  *)

\* What is read of one object is one thing.
LEMMA GetIsOne ==
  ASSUME NEW t, NEW o, NEW r \in Get(t, o)
  PROVE  r = history[t][o]
BY DEF Get

\* All entries of a ZAP are read, or none (dsl.rs children, snapshot names).
LEMMA ZapIsOne ==
  ASSUME NEW t, NEW o, NEW part, NEW entries, NEW r \in ReadZap(t, o, part, entries)
  PROVE  r = entries
BY DEF ReadZap

\* What describe tells of a dataset has the object's GUID and the name that
\* the walk came to it by.
LEMMA DescribesTheObject ==
  ASSUME NEW t, NEW o, NEW name, NEW dir, NEW origin, NEW d \in Describe(t, o, name, dir, origin)
  PROVE  /\ d.name = name /\ d.guid = history[t][o].guid /\ d.snaps = history[t][o].snaps
         /\ [d EXCEPT !.snapshot = TRUE].name = name
         /\ [d EXCEPT !.snapshot = TRUE].guid = history[t][o].guid
BY GetIsOne DEF Describe

IsSnapshotOf(t, head, d) ==
  \E s : d.name = Named(head.name.path, {s}) /\ d.guid = history[t][head.snaps[s]].guid

\* A snapshot is named after its head, and is the object that the head's ZAP
\* has under that name.
LEMMA SnapshotsAreNamed ==
  ASSUME NEW t, NEW head, NEW dir, NEW origin, NEW d \in Snapshots(t, head, dir, origin)
  PROVE  IsSnapshotOf(t, head, d)
<1>1. PICK entries \in ReadZap(t, head.object, "snapnames", head.snaps) :
        d \in UNION {{[e EXCEPT !.snapshot = TRUE] :
                 e \in Describe(t, entries[s], Named(head.name.path, {s}), dir, origin)} : s \in DOMAIN entries}
  BY DEF Snapshots
<1>2. PICK s \in DOMAIN entries :
        d \in {[e EXCEPT !.snapshot = TRUE] :
                 e \in Describe(t, entries[s], Named(head.name.path, {s}), dir, origin)}
  BY <1>1
<1>3. PICK e \in Describe(t, entries[s], Named(head.name.path, {s}), dir, origin) :
        d = [e EXCEPT !.snapshot = TRUE]
  BY <1>2
<1>4. entries = head.snaps
  BY ZapIsOne
<1>5. d.name = Named(head.name.path, {s}) /\ d.guid = history[t][entries[s]].guid
  BY <1>3, DescribesTheObject
<1> QED
  BY <1>4, <1>5 DEF IsSnapshotOf

\* What is found at one path bears that path, and has one name each.
LEMMA NamesAtAPath ==
  ASSUME NEW t, NEW o, NEW path, NEW origin,
         NEW d \in WithSnapshots(t, o, path, origin), NEW e \in WithSnapshots(t, o, path, origin)
  PROVE  d.name.path = path /\ (d.name = e.name => d.guid = e.guid)
<1> DEFINE h == history[t][history[t][o].head]
           Heads1 == HeadAt(t, o, path, origin)
<1>1. ASSUME NEW g \in WithSnapshots(t, o, path, origin)
      PROVE  \/ g.name = Named(path, NoSnap) /\ g.guid = h.guid
             \/ \E s : g.name = Named(path, {s}) /\ g.guid = history[t][h.snaps[s]].guid
  <2>1. PICK k \in Heads1 : g = k \/ g \in Snapshots(t, k, history[t][o], origin)
    BY DEF WithSnapshots
  <2>2. k.name = Named(path, NoSnap) /\ k.guid = h.guid /\ k.snaps = h.snaps
    BY DescribesTheObject DEF HeadAt
  <2>3. k.name.path = path
    BY <2>2 DEF Named
  <2> HIDE DEF h, Heads1
  <2>4. CASE g \in Snapshots(t, k, history[t][o], origin)
    <3>1. IsSnapshotOf(t, k, g)
      BY <2>4, SnapshotsAreNamed
    <3> QED
      BY <2>2, <2>3, <3>1 DEF IsSnapshotOf
  <2> QED
    BY <2>1, <2>2, <2>4
<1> HIDE DEF h, Heads1
<1>2. \A s, u : Named(path, {s}) = Named(path, {u}) => s = u
  <2> SUFFICES ASSUME NEW s, NEW u, Named(path, {s}) = Named(path, {u}) PROVE s = u
    OBVIOUS
  <2>1. {s} = {u}
    BY DEF Named
  <2> QED
    BY <2>1
<1>3. \A s : Named(path, {s}) # Named(path, NoSnap)
  <2> SUFFICES ASSUME NEW s, Named(path, {s}) = Named(path, NoSnap) PROVE FALSE
    OBVIOUS
  <2>1. {s} = {}
    BY DEF Named, NoSnap
  <2> QED
    BY <2>1
<1>4. \A s : Named(path, s).path = path
  BY DEF Named
<1>5. d.name.path = path
  BY <1>1, <1>4
<1>6. ASSUME d.name = e.name
      PROVE  d.guid = e.guid
  <2>1. CASE d.name = Named(path, NoSnap)
    BY <1>1, <1>3, <1>6, <2>1, ZenonT(30)
  <2>2. CASE d.name # Named(path, NoSnap)
    <3>1. PICK s : d.name = Named(path, {s}) /\ d.guid = history[t][h.snaps[s]].guid
      BY <1>1, <2>2
    <3>2. PICK u : e.name = Named(path, {u}) /\ e.guid = history[t][h.snaps[u]].guid
      BY <1>1, <1>6, <2>2
    <3>3. s = u
      BY <1>2, <1>6, <3>1, <3>2
    <3> QED
      BY <3>1, <3>2, <3>3
  <2> QED
    BY <2>1, <2>2
<1> QED
  BY <1>5, <1>6

-----------------------------------------------------------------------------
(* One call of walk_dir                                                    *)

\* The directory that is walked next is one of those still to be walked.
LEMMA NextIsDeepest ==
  ASSUME NEW t, NEW origin, NEW w \in WalkStates(t, origin), w.todo # {}
  PROVE  NextDir(w) \in w.todo
<1> DEFINE depths == {Len(x[2]) : x \in w.todo}
<1>1. \A x \in w.todo : Len(x[2]) \in Nat /\ Len(x[2]) <= MaxDepth + 1
  BY DEF WalkStates, Paths
<1>2. PICK bound \in Nat : bound = MaxDepth + 1
  BY DEF MaxDepth
<1>3. PICK n \in depths : \A m \in depths : m <= n
  <2>1. depths \in SUBSET Nat /\ depths # {}
    BY <1>1
  <2>2. \A n \in depths : n <= bound
    BY <1>1, <1>2
  <2> HIDE DEF depths
  <2> QED
    BY <2>1, <2>2, HasGreatest
<1> HIDE DEF depths
<1>4. PICK x \in w.todo : n = Len(x[2])
  BY <1>3 DEF depths
<1>5. \A y \in w.todo : Len(y[2]) <= Len(x[2])
  BY <1>3, <1>4 DEF depths
<1> QED
  BY <1>4, <1>5 DEF NextDir

\* What one call changes.
LEMMA CallChanges ==
  ASSUME NEW t, NEW origin, NEW w \in WalkStates(t, origin)
  PROVE  WalkDir(t, origin, w) = Made(t, origin, w, NextDir(w)[1], NextDir(w)[2])
<1> DEFINE x == NextDir(w)
           o == x[1]
           path == x[2]
           past == [w EXCEPT !.todo = @ \ {x}]
           entered == [past EXCEPT !.seen = @ \cup {o}]
           described == Heads(t, o, path, origin, entered)
<1> HIDE DEF x, o, path
<1>1. w = [todo |-> w.todo, sets |-> w.sets, errors |-> w.errors, seen |-> w.seen]
  BY DEF WalkStates
<1>2. past = [todo |-> w.todo \ {x}, sets |-> w.sets, errors |-> w.errors, seen |-> w.seen]
  BY <1>1
<1> HIDE DEF past
<1>3. entered = [todo |-> w.todo \ {x}, sets |-> w.sets, errors |-> w.errors, seen |-> w.seen \cup {o}]
  BY <1>2
<1> HIDE DEF entered
<1>4. described = [todo |-> w.todo \ {x}, sets |-> w.sets \cup WithSnapshots(t, o, path, origin),
                   errors |-> IF HeadAt(t, o, path, origin) = {} THEN w.errors \cup {path} ELSE w.errors,
                   seen |-> w.seen \cup {o}]
  <2>1. described = [entered EXCEPT !.sets = entered.sets \cup WithSnapshots(t, o, path, origin),
                                    !.errors = IF HeadAt(t, o, path, origin) = {} THEN entered.errors \cup {path}
                                               ELSE entered.errors]
    BY Zenon DEF Heads
  <2> HIDE DEF described
  <2> QED
    BY <1>3, <2>1
<1> HIDE DEF described
<1>5. ~Reads(t, o, "children") => Below(t, o, path) = {}
  BY DEF Below, ReadZap
<1>6. CASE Refused(w)
  <2>1. WalkDir(t, origin, w) = [past EXCEPT !.errors = @ \cup {path}]
    BY <1>6 DEF WalkDir, Refused, x, o, path, past, entered, described
  <2>2. WalkDir(t, origin, w) = [todo |-> w.todo \ {x}, sets |-> w.sets, errors |-> w.errors \cup {path}, seen |-> w.seen]
    BY <1>2, <2>1
  <2> QED
    BY <1>6, <2>2 DEF Opens, Made, Told, x, o, path
<1>7. CASE ~Refused(w) /\ ~Reads(t, o, "dnode")
  <2>1. WalkDir(t, origin, w) = [entered EXCEPT !.errors = @ \cup {path}]
    BY <1>7 DEF WalkDir, Refused, x, o, path, past, entered, described
  <2>2. WalkDir(t, origin, w) = [todo |-> w.todo \ {x}, sets |-> w.sets, errors |-> w.errors \cup {path}, seen |-> w.seen \cup {o}]
    BY <1>3, <2>1
  <2> QED
    BY <1>7, <2>2 DEF Opens, Made, Told, x, o, path
<1>8. CASE Opens(t, w) /\ ~Reads(t, o, "children")
  <2>1. WalkDir(t, origin, w) = [described EXCEPT !.errors = @ \cup {path}]
    BY <1>8 DEF WalkDir, Opens, Refused, x, o, path, past, entered, described
  <2>2. described.errors \cup {path} = w.errors \cup {path}
    BY <1>4
  <2>3. WalkDir(t, origin, w) =
          [todo |-> w.todo \ {x}, sets |-> w.sets \cup WithSnapshots(t, o, path, origin),
           errors |-> w.errors \cup {path}, seen |-> w.seen \cup {o}]
    BY <1>4, <2>1, <2>2
  <2> QED
    BY <1>5, <1>8, <2>3 DEF Opens, Made, Told, x, o, path
<1>9. CASE Opens(t, w) /\ Reads(t, o, "children")
  <2>1. WalkDir(t, origin, w) = [described EXCEPT !.todo = @ \cup Below(t, o, path)]
    BY <1>9 DEF WalkDir, Opens, Refused, x, o, path, past, entered, described
  <2>2. WalkDir(t, origin, w) =
          [todo |-> (w.todo \ {x}) \cup Below(t, o, path), sets |-> w.sets \cup WithSnapshots(t, o, path, origin),
           errors |-> IF HeadAt(t, o, path, origin) = {} THEN w.errors \cup {path} ELSE w.errors,
           seen |-> w.seen \cup {o}]
    BY <1>4, <2>1
  <2> QED
    BY <1>9, <2>2 DEF Opens, Made, Told, x, o, path
<1> QED
  BY <1>6, <1>7, <1>8, <1>9 DEF Opens, x, o

-----------------------------------------------------------------------------
(* A path is walked once                                                   *)

\* The children of a directory whose array reads are directories of the pool.
LEMMA BelowIsBelow ==
  ASSUME NEW t, NEW o, NEW path \in Seq(AllNames(t)), NEW y \in Below(t, o, path)
  PROVE  \E n \in AllNames(t) \ {"$ORIGIN"} :
           /\ n \in DOMAIN history[t][o].kids /\ y = <<history[t][o].kids[n], Append(path, n)>>
           /\ history[t][o].kids[n] \in AllKids(t) /\ Append(path, n) \in Seq(AllNames(t))
           /\ Len(Append(path, n)) = Len(path) + 1
<1>1. PICK kids \in ReadZap(t, o, "children", history[t][o].kids) :
        y \in {<<kids[n], Append(path, n)>> : n \in DOMAIN kids \ {"$ORIGIN"}}
  BY DEF Below
<1>2. kids = history[t][o].kids /\ o \in DOMAIN history[t]
  BY <1>1 DEF ReadZap, Reads
<1>3. PICK n \in DOMAIN kids \ {"$ORIGIN"} : y = <<kids[n], Append(path, n)>>
  BY <1>1
<1>4. n \in AllNames(t) /\ kids[n] \in AllKids(t)
  BY <1>2, <1>3 DEF AllNames, AllKids
<1>5. Append(path, n) \in Seq(AllNames(t)) /\ Len(Append(path, n)) = Len(path) + 1
  BY <1>4
<1> QED
  BY <1>2, <1>3, <1>4, <1>5

\* Two paths one part longer than two others are the same only where those
\* are, and the last parts.
LEMMA AppendTells ==
  ASSUME NEW S, NEW p \in Seq(S), NEW q \in Seq(S), NEW m \in S, NEW n \in S, Append(p, m) = Append(q, n)
  PROVE  p = q /\ m = n
<1>1. Len(p) = Len(q)
  <2>1. Len(Append(p, m)) = Len(p) + 1 /\ Len(Append(q, n)) = Len(q) + 1
    OBVIOUS
  <2>2. Len(p) \in Nat /\ Len(q) \in Nat
    OBVIOUS
  <2> QED
    BY <2>1, <2>2
<1>2. Append(p, m)[Len(p) + 1] = m /\ Append(q, n)[Len(q) + 1] = n
  OBVIOUS
<1>3. \A i \in 1 .. Len(p) : Append(p, m)[i] = p[i]
  OBVIOUS
<1>4. \A i \in 1 .. Len(q) : Append(q, n)[i] = q[i]
  OBVIOUS
<1>5. \A i \in 1 .. Len(p) : p[i] = q[i]
  BY <1>1, <1>3, <1>4
<1>6. p = q
  BY <1>1, <1>5, SeqEqual
<1> QED
  BY <1>1, <1>2

\* A call of walk_dir keeps that.
LEMMA CallKeepsWalk ==
  ASSUME NEW t, NEW origin, NEW w, NEW done, WalkInv(t, origin, w, done), w.todo # {}
  PROVE  WalkInv(t, origin, WalkDir(t, origin, w), done \cup {NextDir(w)[2]})
<1> DEFINE x == NextDir(w)
           o == x[1]
           path == x[2]
           v == WalkDir(t, origin, w)
           now == done \cup {path}
           found == IF Opens(t, w) THEN WithSnapshots(t, o, path, origin) ELSE {}
           more == IF Opens(t, w) THEN Below(t, o, path) ELSE {}
<1>1. w \in WalkStates(t, origin) /\ done \in SUBSET Paths(t)
  BY DEF WalkInv
<1>2. x \in w.todo
  BY <1>1, NextIsDeepest
<1>3. x = <<o, path>> /\ o \in AllKids(t) /\ path \in Paths(t) /\ path \in Seq(AllNames(t)) /\ Len(path) \in Nat
  BY <1>1, <1>2 DEF WalkStates, Paths
<1>4. /\ v.todo = (w.todo \ {x}) \cup more /\ v.sets = w.sets \cup found
      /\ \E a \in {{}, {path}} : v.errors = w.errors \cup a
      /\ \E a \in {{}, {o}} : v.seen = w.seen \cup a
      /\ v = [todo |-> v.todo, sets |-> v.sets, errors |-> v.errors, seen |-> v.seen]
  <2>1. v = Made(t, origin, w, o, path)
    BY <1>1, CallChanges
  <2>2. \E a \in {{}, {path}} : a = IF Told(t, origin, w) THEN {} ELSE {path}
    OBVIOUS
  <2>3. \E a \in {{}, {o}} : a = IF Refused(w) THEN {} ELSE {o}
    OBVIOUS
  <2> HIDE DEF x, o, path, v
  <2> QED
    BY <2>1, <2>2, <2>3 DEF Made, x
<1>5. ASSUME NEW y \in more
      PROVE  \E n \in AllNames(t) : /\ y[2] = Append(path, n) /\ y = <<history[t][o].kids[n], Append(path, n)>>
                                    /\ y \in AllKids(t) \X Paths(t)
  <2>1. Opens(t, w) /\ y \in Below(t, o, path)
    BY <1>5
  <2>2. Len(path) <= MaxDepth
    BY <1>3, <2>1 DEF Opens, Refused, MaxDepth
  <2>3. PICK n \in AllNames(t) :
          /\ y = <<history[t][o].kids[n], Append(path, n)>>
          /\ history[t][o].kids[n] \in AllKids(t) /\ Append(path, n) \in Seq(AllNames(t))
          /\ Len(Append(path, n)) = Len(path) + 1
    BY <1>3, <2>1, BelowIsBelow
  <2>4. Append(path, n) \in Paths(t)
    BY <1>3, <2>2, <2>3 DEF Paths, MaxDepth
  <2> QED
    BY <2>3, <2>4
<1>6. found \subseteq AllSets(t, origin)
  <2>1. <<o, path>> \in AllKids(t) \X Paths(t) /\ <<o, path>>[1] = o /\ <<o, path>>[2] = path
    BY <1>3
  <2> HIDE DEF o, path
  <2> QED
    BY <2>1 DEF AllSets
<1>7. \A d, e \in found : d.name.path = path /\ (d.name = e.name => d.guid = e.guid)
  BY NamesAtAPath
<1> HIDE DEF x, o, path, v, found, more
<1>8. v \in WalkStates(t, origin) /\ now \in SUBSET Paths(t)
  <2>1. v.todo \in SUBSET (AllKids(t) \X Paths(t))
    BY <1>1, <1>4, <1>5 DEF WalkStates
  <2>2. v.sets \in SUBSET AllSets(t, origin)
    BY <1>1, <1>4, <1>6 DEF WalkStates
  <2>3. v.errors \in SUBSET Paths(t) /\ v.seen \in SUBSET AllKids(t)
    BY <1>1, <1>3, <1>4 DEF WalkStates
  <2> QED
    BY <1>1, <1>3, <1>4, <2>1, <2>2, <2>3 DEF WalkStates
<1>9. \A p : Above(t, p, done) => Above(t, p, now)
  BY DEF Above
<1>10. path \notin done /\ Above(t, path, done) /\ \A y \in w.todo : y[2] = path => y = x
  BY <1>2 DEF WalkInv, path
<1>11. ASSUME NEW y \in more
       PROVE  y[2] \notin now /\ Above(t, y[2], now) /\ \A z \in w.todo : z[2] # y[2]
  <2>1. PICK n \in AllNames(t) : y[2] = Append(path, n)
    BY <1>5
  <2>2. Above(t, y[2], now)
    BY <2>1 DEF Above
  <2>3. ASSUME NEW p, Above(t, p, done)
        PROVE  p # y[2]
    <3>1. SUFFICES ASSUME p = y[2] PROVE FALSE
      OBVIOUS
    <3>2. y[2] # <<>>
      BY <1>3, <2>1, SMTT(30)
    <3>3. PICK q \in done, m \in AllNames(t) : Append(path, n) = Append(q, m)
      BY <2>1, <2>3, <3>1, <3>2 DEF Above
    <3>4. q \in Seq(AllNames(t))
      BY <1>1 DEF Paths
    <3>5. q = path
      BY <1>3, <3>3, <3>4, AppendTells
    <3> QED
      BY <1>10, <3>5
  <2>4. y[2] \notin done /\ \A z \in w.todo : z[2] # y[2]
    BY <2>3 DEF WalkInv
  <2>5. y[2] # path
    BY <1>10, <2>3
  <2> QED
    BY <2>2, <2>4, <2>5
<1>12. ASSUME NEW y \in v.todo
       PROVE  y[2] \notin now /\ Above(t, y[2], now)
  <2>1. CASE y \in w.todo \ {x}
    BY <1>9, <1>10, <2>1 DEF WalkInv
  <2>2. CASE y \in more
    BY <1>11, <2>2
  <2> QED
    BY <1>4, <2>1, <2>2
<1>13. ASSUME NEW y \in v.todo, NEW z \in v.todo, y[2] = z[2]
       PROVE  y = z
  <2>1. CASE y \in w.todo /\ z \in w.todo
    BY <1>13, <2>1 DEF WalkInv
  <2>2. CASE y \in more /\ z \in more
    <3>1. PICK m \in AllNames(t) : y[2] = Append(path, m) /\ y = <<history[t][o].kids[m], Append(path, m)>>
      BY <1>5, <2>2
    <3>2. PICK n \in AllNames(t) : z[2] = Append(path, n) /\ z = <<history[t][o].kids[n], Append(path, n)>>
      BY <1>5, <2>2
    <3>3. Append(path, m) = Append(path, n)
      BY <1>13, <3>1, <3>2
    <3>4. m = n
      BY <1>3, <3>3, AppendTells
    <3> QED
      BY <3>1, <3>2, <3>4
  <2>3. y \in w.todo \/ y \in more
    BY <1>4
  <2>4. z \in w.todo \/ z \in more
    BY <1>4
  <2> QED
    BY <1>11, <1>13, <2>1, <2>2, <2>3, <2>4
<1>14. \A p \in now : Above(t, p, now)
  BY <1>9, <1>10 DEF WalkInv
<1>15. ASSUME NEW d \in v.sets
       PROVE  d.name.path \in now
  BY <1>4, <1>7 DEF WalkInv
<1>16. ASSUME NEW d \in v.sets, NEW e \in v.sets, d.name = e.name
       PROVE  d.guid = e.guid
  <2>1. CASE d \in w.sets /\ e \in w.sets
    BY <1>16, <2>1 DEF WalkInv
  <2>2. CASE d \in found /\ e \in found
    BY <1>7, <1>16, <2>2
  <2>3. \A g \in w.sets : g.name.path \in done
    BY DEF WalkInv
  <2>4. d.name.path = e.name.path
    BY <1>16
  <2> QED
    BY <1>4, <1>7, <1>10, <2>1, <2>2, <2>3, <2>4
<1> HIDE DEF now
<1>17. WalkInv(t, origin, v, now)
  BY <1>8, <1>12, <1>13, <1>14, <1>15, <1>16 DEF WalkInv
<1> QED
  BY <1>17 DEF v, now, path, x

-----------------------------------------------------------------------------
(* The whole walk                                                          *)

\* A state of a walk has a next one of the same kind.
LEMMA CallIsTyped ==
  ASSUME NEW t, NEW origin, NEW w \in WalkStates(t, origin)
  PROVE  Call(t, origin, w) \in WalkStates(t, origin)
<1> DEFINE o == NextDir(w)[1]
           path == NextDir(w)[2]
           v == WalkDir(t, origin, w)
<1>1. CASE w.todo # {}
  <2>1. NextDir(w) \in w.todo
    BY <1>1, NextIsDeepest
  <2>2. o \in AllKids(t) /\ path \in Paths(t) /\ path \in Seq(AllNames(t)) /\ Len(path) \in Nat
    BY <2>1 DEF WalkStates, Paths
  <2>3. Opens(t, w) => Below(t, o, path) \subseteq AllKids(t) \X Paths(t)
    <3> SUFFICES ASSUME Opens(t, w), NEW y \in Below(t, o, path) PROVE y \in AllKids(t) \X Paths(t)
      OBVIOUS
    <3>1. Len(path) <= MaxDepth
      BY <2>2 DEF Opens, Refused, MaxDepth
    <3>2. PICK n \in AllNames(t) :
            /\ y = <<history[t][o].kids[n], Append(path, n)>>
            /\ history[t][o].kids[n] \in AllKids(t) /\ Append(path, n) \in Seq(AllNames(t))
            /\ Len(Append(path, n)) = Len(path) + 1
      BY <2>2, BelowIsBelow
    <3>3. Append(path, n) \in Paths(t)
      BY <2>2, <3>1, <3>2 DEF Paths, MaxDepth
    <3> QED
      BY <3>2, <3>3
  <2>4. WithSnapshots(t, o, path, origin) \subseteq AllSets(t, origin)
    <3>1. <<o, path>> \in AllKids(t) \X Paths(t) /\ <<o, path>>[1] = o /\ <<o, path>>[2] = path
      BY <2>2
    <3> HIDE DEF o, path
    <3> QED
      BY <3>1 DEF AllSets
  <2>5. v = Made(t, origin, w, o, path)
    BY CallChanges
  <2> HIDE DEF o, path, v
  <2>6. v \in WalkStates(t, origin)
    <3>1. w.todo \in SUBSET (AllKids(t) \X Paths(t)) /\ w.sets \in SUBSET AllSets(t, origin)
          /\ w.errors \in SUBSET Paths(t) /\ w.seen \in SUBSET AllKids(t)
      BY DEF WalkStates
    <3> QED
      BY <2>2, <2>3, <2>4, <2>5, <3>1 DEF WalkStates, Made
  <2> QED
    BY <1>1, <2>6 DEF Call, v
<1>2. CASE w.todo = {}
  BY <1>2 DEF Call
<1> QED
  BY <1>1, <1>2

\* The walk begins with the root at the empty path.
LEMMA BegunIsTyped ==
  ASSUME NEW t, NEW origin
  PROVE  Begun \in WalkStates(t, origin)
<1>1. <<>> \in Paths(t) /\ Root \in AllKids(t)
  BY DEF Paths, MaxDepth, AllKids
<1> QED
  BY <1>1 DEF Begun, WalkStates

\* The walk begins at the root and goes on call by call.
CallsFrom(t, f) ==
  /\ f[0] = Begun
  /\ \A n \in Nat : f[n + 1] = Call(t, OriginSnapshot(t), f[n])

\* The calls of a walk are defined by the first and the step to the next.
LEMMA WalkGoesOn ==
  ASSUME NEW t
  PROVE  CallsFrom(t, Calls(t))
<1> DEFINE origin == OriginSnapshot(t)
           S == WalkStates(t, origin)
           Is(f) == f = [n \in Nat |-> IF n = 0 THEN Begun ELSE Call(t, origin, f[n - 1])]
           step == [y \in Nat \X S |-> Call(t, origin, y[2])]
           W == CHOOSE f : Is(f)
<1>1. step \in [Nat \X S -> S] /\ Begun \in S
  BY CallIsTyped, BegunIsTyped
<1>2. PICK f : IsRecursion(f, S, Begun, step)
  <2> HIDE DEF S, step
  <2> QED
    BY <1>1, RecursionIsDefined
<1>3. f \in [Nat -> S] /\ f[0] = Begun /\ \A n \in Nat : f[n + 1] = Call(t, origin, f[n])
  <2>1. f \in [Nat -> S] /\ f[0] = Begun /\ \A n \in Nat : f[n + 1] = step[<<n, f[n]>>]
    BY <1>2 DEF IsRecursion
  <2>2. \A n \in Nat : <<n, f[n]>> \in Nat \X S
    <3> HIDE DEF S, step
    <3> QED
      BY <2>1
  <2>3. \A n \in Nat : step[<<n, f[n]>>] = Call(t, origin, f[n])
    <3> HIDE DEF S, origin
    <3> QED
      BY <2>2
  <2> HIDE DEF S, step, origin
  <2> QED
    BY <2>1, <2>3
<1>4. \A n \in Nat : f[n] = IF n = 0 THEN Begun ELSE Call(t, origin, f[n - 1])
  <2> SUFFICES ASSUME NEW n \in Nat PROVE f[n] = IF n = 0 THEN Begun ELSE Call(t, origin, f[n - 1])
    OBVIOUS
  <2> HIDE DEF S, step, origin
  <2>1. CASE n = 0
    BY <1>3, <2>1
  <2>2. CASE n # 0
    <3>1. n - 1 \in Nat /\ (n - 1) + 1 = n
      BY <2>2
    <3>2. f[(n - 1) + 1] = Call(t, origin, f[n - 1])
      BY <1>3, <3>1
    <3> QED
      BY <2>2, <3>1, <3>2
  <2> QED
    BY <2>1, <2>2
<1>5. Is(f)
  <2> HIDE DEF S, step, origin
  <2> QED
    BY <1>3, <1>4
<1>6. Is(W)
  <2> HIDE DEF Is
  <2> QED
    BY <1>5
<1>7. Calls(t) = W
  BY DEF Calls
<1>8. Is(Calls(t))
  BY <1>6, <1>7
<1>9. \A n \in Nat : Calls(t)[n] = IF n = 0 THEN Begun ELSE Call(t, origin, Calls(t)[n - 1])
  <2> DEFINE C == Calls(t)
  <2>1. C = [n \in Nat |-> IF n = 0 THEN Begun ELSE Call(t, origin, C[n - 1])]
    BY <1>8
  <2> HIDE DEF C, origin
  <2>2. \A n \in Nat : C[n] = IF n = 0 THEN Begun ELSE Call(t, origin, C[n - 1])
    BY <2>1
  <2> QED
    BY <2>2 DEF C
<1>10. Calls(t)[0] = Begun
  BY <1>9
<1>11. ASSUME NEW n \in Nat
       PROVE  Calls(t)[n + 1] = Call(t, origin, Calls(t)[n])
  <2>1. n + 1 \in Nat /\ n + 1 # 0 /\ (n + 1) - 1 = n
    OBVIOUS
  <2> HIDE DEF origin
  <2> QED
    BY <1>9, <2>1
<1> QED
  BY <1>10, <1>11 DEF CallsFrom

\* After any number of calls, no path has been walked twice.
LEMMA WalkFindsNamesOnce ==
  ASSUME NEW t, NEW n \in Nat
  PROVE  \E done : WalkInv(t, OriginSnapshot(t), Calls(t)[n], done)
<1> DEFINE origin == OriginSnapshot(t)
           C == Calls(t)
           Good == {m \in Nat : \E done : WalkInv(t, origin, C[m], done)}
<1> HIDE DEF origin, C
<1>1. C[0] = Begun /\ \A m \in Nat : C[m + 1] = Call(t, origin, C[m])
  BY WalkGoesOn DEF CallsFrom, origin, C
<1>2. 0 \in Good
  <2>1. Begun \in WalkStates(t, origin)
    BY BegunIsTyped
  <2>2. \A x \in Begun.todo : x = <<Root, <<>>>> /\ x[2] = <<>>
    BY DEF Begun
  <2>3. Begun.sets = {}
    BY DEF Begun
  <2>4. WalkInv(t, origin, Begun, {})
    BY <2>1, <2>2, <2>3 DEF WalkInv, Above
  <2> QED
    BY <1>1, <2>4
<1>3. ASSUME NEW m \in Good
      PROVE  m + 1 \in Good
  <2>1. PICK done : WalkInv(t, origin, C[m], done)
    OBVIOUS
  <2>2. \E now : WalkInv(t, origin, Call(t, origin, C[m]), now)
    <3>1. CASE C[m].todo = {}
      BY <2>1, <3>1 DEF Call
    <3>2. CASE C[m].todo # {}
      BY <2>1, <3>2, CallKeepsWalk DEF Call
    <3> QED
      BY <3>1, <3>2
  <2> QED
    BY <1>1, <2>2
<1>4. Good \in SUBSET Nat
  OBVIOUS
<1> HIDE DEF Good
<1>5. n \in Good
  BY <1>2, <1>3, <1>4, SetInduction
<1> QED
  BY <1>5 DEF Good, C, origin

\* So in the tree of a TXG a name is of one dataset, whatever of it reads.
LEMMA WalkNamesOnce ==
  ASSUME NEW t, IsFiniteSet(Dirs(history[t]))
  PROVE  NamesAreUnique(Walk(t).sets)
<1>1. Cardinality(Dirs(history[t])) \in Nat
  BY FS_CardinalityType
<1>2. PICK done : WalkInv(t, OriginSnapshot(t), Walk(t), done)
  BY <1>1, WalkFindsNamesOnce DEF Walk
<1> QED
  BY <1>2 DEF WalkInv, NamesAreUnique

-----------------------------------------------------------------------------
(* Functions that grow and shrink                                          *)

IsPut(g, f, x, y) ==
  /\ DOMAIN g = DOMAIN f \cup {x} /\ g[x] = y /\ IsFcn(g)
  /\ \A z \in DOMAIN f : z # x => g[z] = f[z]

\* A function with a value put at a place differs from it there.
LEMMA PutChanges ==
  ASSUME NEW f, NEW x, NEW y
  PROVE  IsPut(Put(f, x, y), f, x, y)
BY DEF Put, IsFcn, IsPut

IsWithout(g, f, S) ==
  DOMAIN g = DOMAIN f \ S /\ IsFcn(g) /\ \A z \in DOMAIN f \ S : g[z] = f[z]

\* A function without some of its places is the same at the others.
LEMMA WithoutChanges ==
  ASSUME NEW f, NEW S
  PROVE  IsWithout(Without(f, S), f, S)
BY DEF Without, IsFcn, IsWithout

\* The lowest numbers that are free are different from each other and from
\* those in use.
LEMMA NumbersAreFree ==
  ASSUME IsFiniteSet(DOMAIN Mos)
  PROVE  /\ Room(1) => Next1 \in Unused(Mos)
         /\ Room(2) => Next1 \in Unused(Mos) /\ Next2 \in Unused(Mos) /\ Next1 # Next2
         /\ Room(3) => /\ Next1 \in Unused(Mos) /\ Next2 \in Unused(Mos) /\ Next3 \in Unused(Mos)
                       /\ Next1 # Next2 /\ Next1 # Next3 /\ Next2 # Next3
<1> DEFINE U == Unused(Mos)
<1>1. U \in SUBSET Nat /\ IsFiniteSet(U)
  <2>1. MaxObject \in Nat /\ 1 \in Int /\ MaxObject \in Int
    BY HistoryAssumption
  <2>2. IsFiniteSet(1 .. MaxObject)
    BY <2>1, FS_Interval
  <2>3. U \subseteq 1 .. MaxObject
    BY DEF Unused
  <2> QED
    BY <2>1, <2>2, <2>3, FS_Subset
<1> HIDE DEF U
<1>2. \A S \in SUBSET Nat : S # {} => Min(S) \in S
  BY HasLeast DEF Min
<1>3. Cardinality(U) \in Nat /\ (U = {} => Cardinality(U) = 0)
  BY <1>1, FS_CardinalityType, FS_EmptySet
<1>4. \A x : IsFiniteSet(U \ {x}) /\ Cardinality(U \ {x}) \in Nat /\ Cardinality(U) <= Cardinality(U \ {x}) + 1
  <2> SUFFICES ASSUME NEW x
               PROVE  IsFiniteSet(U \ {x}) /\ Cardinality(U \ {x}) \in Nat /\ Cardinality(U) <= Cardinality(U \ {x}) + 1
    OBVIOUS
  <2> QED
    BY <1>1, <1>3, FS_RemoveElement, FS_CardinalityType, FS_Subset
<1>5. ASSUME NEW x, NEW y
      PROVE  U \ {x, y} = {} => Cardinality(U) <= 2
  <2> SUFFICES ASSUME U \ {x, y} = {} PROVE Cardinality(U) <= 2
    OBVIOUS
  <2>1. U \ {x} \subseteq {y} /\ IsFiniteSet({y}) /\ Cardinality({y}) = 1
    BY FS_Singleton
  <2>2. Cardinality(U \ {x}) <= 1
    BY <2>1, FS_Subset
  <2> QED
    BY <1>3, <1>4, <2>2
<1>6. \A x : U \ {x} = {} => Cardinality(U) <= 1
  <2> SUFFICES ASSUME NEW x, U \ {x} = {} PROVE Cardinality(U) <= 1
    OBVIOUS
  <2>1. U \subseteq {x} /\ IsFiniteSet({x}) /\ Cardinality({x}) = 1
    BY FS_Singleton
  <2> QED
    BY <2>1, FS_Subset
<1>7. Room(1) => Next1 \in U
  BY <1>1, <1>2, <1>3 DEF Room, Next1, U
<1>8. Room(2) => Next1 \in U /\ Next2 \in U \ {Next1}
  <2> SUFFICES ASSUME Room(2) PROVE Next1 \in U /\ Next2 \in U \ {Next1}
    OBVIOUS
  <2>1. Cardinality(U) >= 2
    BY DEF Room, U
  <2>2. U # {} /\ U \ {Next1} # {}
    BY <1>3, <1>6, <2>1
  <2> QED
    BY <1>1, <1>2, <2>2 DEF Next1, Next2, U
<1>9. Room(3) => Room(2) /\ Next3 \in U \ {Next1, Next2}
  <2> SUFFICES ASSUME Room(3) PROVE Room(2) /\ Next3 \in U \ {Next1, Next2}
    OBVIOUS
  <2>1. Cardinality(U) >= 3
    BY DEF Room, U
  <2>2. U \ {Next1, Next2} # {}
    BY <1>3, <1>5, <2>1
  <2>3. Room(2)
    BY <1>3, <2>1 DEF Room, U
  <2> QED
    BY <1>1, <1>2, <2>2, <2>3 DEF Next3, U
<1> QED
  BY <1>7, <1>8, <1>9 DEF U

\* An object that is made begins with no children and no snapshots.
LEMMA NothingIsEmpty == DOMAIN Nothing = {} /\ IsFcn(Nothing)
<1>1. <<>> \in [1 .. 0 -> {}]
  OBVIOUS
<1> QED
  BY <1>1 DEF Nothing, IsFcn

\* The fields of a directory.
LEMMA DirFields ==
  ASSUME NEW head, NEW origin, NEW kids, NEW root, IsFcn(kids)
  PROVE  LET d == Dir(head, origin, kids, root)
         IN  d.is = "dir" /\ d.head = head /\ d.origin = origin /\ d.kids = kids /\ d.root = root /\ IsDir(d)
BY DEF Dir, IsDir

\* The fields of a dataset.
LEMMA SetFields ==
  ASSUME NEW dir, NEW prev, NEW next, NEW snaps, NEW guid, NEW txg, NEW shape, NEW dead,
         IsFcn(snaps)
  PROVE  LET r == Set(dir, prev, next, snaps, guid, txg, shape, dead)
         IN  /\ r.is = "set" /\ r.dir = dir /\ r.prev = prev /\ r.next = next /\ r.snaps = snaps /\ r.guid = guid
             /\ r.txg = txg /\ r.shape = shape /\ r.dead = dead /\ IsSet(r)
BY DEF Set, IsSet

\* The fields of a deadlist.
LEMMA DeadFields ==
  ASSUME NEW used, NEW lists
  PROVE  LET r == Dead(used, lists) IN r.is = "dead" /\ r.used = used /\ r.lists = lists /\ IsDead(r)
BY DEF Dead, IsDead

\* The field of a list of block pointers.
LEMMA BpobjFields ==
  ASSUME NEW bytes
  PROVE  LET r == Bpobj(bytes) IN r.is = "bpobj" /\ r.bytes = bytes /\ IsBpobj(r)
BY DEF Bpobj, IsBpobj

-----------------------------------------------------------------------------
(* Paths tell directories apart                                            *)

\* Directories are at paths of names.
LEMMA PathTypes ==
  ASSUME NEW mos, NEW live, NEW t, Sound(mos, live, t)
  PROVE  \A d \in Dirs(mos) : PathIn(mos, live, d) \in Seq(AllowedNames)
BY DEF Sound, HeadsKnown, Users, PathIn

\* No two directories are at one path (the user of the pool sees each name
\* once).
LEMMA PathsTellDirs ==
  ASSUME NEW mos, NEW live, NEW t, Sound(mos, live, t)
  PROVE  \A d, e \in Dirs(mos) : PathIn(mos, live, d) = PathIn(mos, live, e) => d = e
<1> DEFINE P(d) == PathIn(mos, live, d)
           Good == {n \in Nat : \A d, e \in Dirs(mos) : Len(P(d)) <= n /\ P(d) = P(e) => d = e}
<1>1. \A d \in Dirs(mos) : P(d) \in Seq(AllowedNames) /\ Len(P(d)) \in Nat
  BY PathTypes
<1>2. \A d \in Dirs(mos) : d # Root =>
        \E p \in Dirs(mos) : \E n \in Kids(mos, p) : n \in AllowedNames /\ Kid(mos, p, n) = d /\ P(d) = Append(P(p), n)
  BY DEF Sound, Tree
<1>3. P(Root) = <<>> /\ Root \in Dirs(mos)
  BY DEF Sound, Tree
<1> HIDE DEF P
<1>4. \A d \in Dirs(mos) : P(d) = <<>> => d = Root
  <2> SUFFICES ASSUME NEW d \in Dirs(mos), P(d) = <<>>, d # Root PROVE FALSE
    OBVIOUS
  <2>1. PICK p \in Dirs(mos), n \in AllowedNames : P(d) = Append(P(p), n)
    BY <1>2
  <2>2. P(p) \in Seq(AllowedNames)
    BY <1>1
  <2>3. Append(P(p), n) # <<>>
    BY <2>2
  <2> QED
    BY <2>1, <2>3
<1>5. 0 \in Good
  <2> SUFFICES ASSUME NEW d \in Dirs(mos), NEW e \in Dirs(mos), Len(P(d)) <= 0, P(d) = P(e) PROVE d = e
    OBVIOUS
  <2>1. P(d) = <<>>
    BY <1>1
  <2> QED
    BY <1>4, <2>1
<1>6. ASSUME NEW m \in Good
      PROVE  m + 1 \in Good
  <2> SUFFICES ASSUME NEW d \in Dirs(mos), NEW e \in Dirs(mos), Len(P(d)) <= m + 1, P(d) = P(e) PROVE d = e
    OBVIOUS
  <2>1. CASE d = Root
    BY <1>3, <1>4, <2>1
  <2>2. CASE e = Root
    BY <1>3, <1>4, <2>2
  <2>3. CASE d # Root /\ e # Root
    <3>1. PICK p \in Dirs(mos) : \E n \in Kids(mos, p) : n \in AllowedNames /\ Kid(mos, p, n) = d /\ P(d) = Append(P(p), n)
      BY <1>2, <2>3
    <3>2. PICK n \in AllowedNames : Kid(mos, p, n) = d /\ P(d) = Append(P(p), n)
      BY <3>1
    <3>3. PICK q \in Dirs(mos) : \E k \in Kids(mos, q) : k \in AllowedNames /\ Kid(mos, q, k) = e /\ P(e) = Append(P(q), k)
      BY <1>2, <2>3
    <3>4. PICK k \in AllowedNames : Kid(mos, q, k) = e /\ P(e) = Append(P(q), k)
      BY <3>3
    <3>5. Append(P(p), n) = Append(P(q), k) /\ P(p) \in Seq(AllowedNames) /\ P(q) \in Seq(AllowedNames)
      BY <1>1, <3>2, <3>4
    <3>6. P(p) = P(q) /\ n = k
      BY <3>5, AppendTells
    <3>7. Len(P(p)) <= m
      <4>1. Len(P(d)) = Len(P(p)) + 1 /\ Len(P(p)) \in Nat
        BY <3>2, <3>5
      <4> QED
        BY <4>1
    <3>8. p = q
      BY <3>6, <3>7
    <3> QED
      BY <3>2, <3>4, <3>6, <3>8
  <2> QED
    BY <2>1, <2>2, <2>3
<1>7. Good \in SUBSET Nat
  OBVIOUS
<1> HIDE DEF Good
<1>8. Good = Nat
  BY <1>5, <1>6, <1>7, SetInduction
<1>9. ASSUME NEW d \in Dirs(mos), NEW e \in Dirs(mos), P(d) = P(e)
      PROVE  d = e
  <2>1. Len(P(d)) \in Good /\ Len(P(d)) <= Len(P(d))
    BY <1>1, <1>8
  <2> QED
    BY <1>9, <2>1 DEF Good
<1> QED
  BY <1>9 DEF P

\* So do the guids of what is seen at them.
LEMMA GuidsTell ==
  ASSUME NEW mos, NEW live, NEW t, Sound(mos, live, t)
  PROVE  /\ \A d, e \in Dirs(mos) : HeadOf(mos, d).guid = HeadOf(mos, e).guid => d = e
         /\ \A d, e \in Dirs(mos) : \A s \in SnapsOf(mos, d) : \A u \in SnapsOf(mos, e) :
              mos[Snap(mos, d, s)].guid = mos[Snap(mos, e, u)].guid => d = e /\ s = u
         /\ \A d, e \in Dirs(mos) : \A s \in SnapsOf(mos, d) : mos[Snap(mos, d, s)].guid # HeadOf(mos, e).guid
<1>1. ASSUME NEW d \in Dirs(mos), NEW e \in Dirs(mos), HeadOf(mos, d).guid = HeadOf(mos, e).guid
      PROVE  d = e
  BY <1>1, PathsTellDirs DEF PathIn
<1>2. ASSUME NEW d \in Dirs(mos), NEW e \in Dirs(mos), NEW s \in SnapsOf(mos, d), NEW u \in SnapsOf(mos, e),
             mos[Snap(mos, d, s)].guid = mos[Snap(mos, e, u)].guid
      PROVE  d = e /\ s = u
  <2>1. {s} = {u} /\ PathIn(mos, live, d) = PathIn(mos, live, e)
    BY <1>2 DEF Sound, SnapsKnown
  <2> QED
    BY <2>1, PathsTellDirs
<1>3. ASSUME NEW d \in Dirs(mos), NEW e \in Dirs(mos), NEW s \in SnapsOf(mos, d),
             mos[Snap(mos, d, s)].guid = HeadOf(mos, e).guid
      PROVE  FALSE
  <2>1. {s} = NoSnap
    BY <1>3 DEF Sound, SnapsKnown, HeadsKnown
  <2> QED
    BY <2>1 DEF NoSnap
<1> QED
  BY <1>1, <1>2, <1>3

\* A command that leaves the directories as they are leaves the tree.
SameDirs(mos, new) ==
  /\ Dirs(new) = Dirs(mos)
  /\ \A d \in Dirs(mos) :
       /\ new[d].head = mos[d].head /\ new[d].kids = mos[d].kids
       /\ IsSetOf(new, d, new[d].head) /\ HeadOf(new, d).next = NoObject /\ HeadOf(new, d).guid = HeadOf(mos, d).guid
SamePaths(mos, live, now) ==
  \A d \in Dirs(mos) :
    LET g == HeadOf(mos, d).guid IN g \in DOMAIN now /\ now[g].snap = NoSnap /\ now[g].path = live[g].path

\* Where the directories, their heads and what the user sees of them stay,
\* the tree does.
LEMMA TreeStays ==
  ASSUME NEW mos, NEW live, NEW t, Sound(mos, live, t), NEW new, NEW now,
         SameDirs(mos, new), SamePaths(mos, live, now)
  PROVE  /\ HeadsKnown(new, now) /\ Tree(new, now)
         /\ \A d \in Dirs(mos) : PathIn(new, now, d) = PathIn(mos, live, d)
<1>1. \A d \in Dirs(mos) : PathIn(new, now, d) = PathIn(mos, live, d)
  BY DEF SameDirs, SamePaths, PathIn
<1>2. HeadsKnown(new, now)
  BY DEF SameDirs, SamePaths, HeadsKnown, Sound
<1>3. \A d \in Dirs(mos) : Kids(new, d) = Kids(mos, d) /\ \A n : Kid(new, d, n) = Kid(mos, d, n)
  BY DEF SameDirs, Kids, Kid
<1>4. Dirs(new) = Dirs(mos)
  BY DEF SameDirs
<1>5. Tree(mos, live)
  BY DEF Sound
<1>6. Tree(new, now)
  BY <1>1, <1>3, <1>4, <1>5 DEF Tree
<1> QED
  BY <1>1, <1>2, <1>6

-----------------------------------------------------------------------------
(* A new dataset                                                           *)

\* What zfs create and zfs clone change: three objects more, and the
\* parent's children.
LEMMA GrownObjects ==
  ASSUME NEW mos, NEW d \in Dirs(mos), IsDir(mos[d]), NEW n, NEW a, NEW b, NEW c, NEW origin, NEW root,
         NEW shape, NEW lists, NEW guid, NEW txg,
         a \notin DOMAIN mos, b \notin DOMAIN mos, c \notin DOMAIN mos, a # b, a # c, b # c
  PROVE  IsGrown(Grown(mos, d, n, a, b, c, origin, root, shape, lists, guid, txg),
                 mos, d, n, a, b, c, origin, root, shape, lists, guid, txg)
<1> DEFINE ra == Dir(b, origin, Nothing, root)
           rb == Set(a, origin, NoObject, Nothing, guid, txg, shape, c)
           rc == Dead(0, lists)
           f == Put(mos, a, ra)
           g == Put(f, b, rb)
           h == Put(g, c, rc)
           new == Grown(mos, d, n, a, b, c, origin, root, shape, lists, guid, txg)
           r == Dir(mos[d].head, mos[d].origin, Put(mos[d].kids, n, a), mos[d].root)
<1>1. new = [h EXCEPT ![d] = [h[d] EXCEPT !.kids = Put(h[d].kids, n, a)]]
  BY Zenon DEF Grown, h, g, f, ra, rb, rc
<1> HIDE DEF ra, rb, rc, new
<1>2. d \in DOMAIN mos /\ d # a /\ d # b /\ d # c
  BY DEF Dirs
<1>3. IsPut(f, mos, a, ra) /\ IsPut(g, f, b, rb) /\ IsPut(h, g, c, rc)
  BY PutChanges
<1> HIDE DEF f, g, h
<1>4. DOMAIN f = DOMAIN mos \cup {a} /\ f[a] = ra /\ \A o \in DOMAIN mos : f[o] = mos[o]
  BY <1>3 DEF IsPut
<1>5. DOMAIN g = DOMAIN f \cup {b} /\ g[b] = rb /\ \A o \in DOMAIN f : g[o] = f[o]
  BY <1>3, <1>4 DEF IsPut
<1>6. DOMAIN h = DOMAIN g \cup {c} /\ h[c] = rc /\ (\A o \in DOMAIN g : h[o] = g[o]) /\ IsFcn(h)
  BY <1>3, <1>4, <1>5 DEF IsPut
<1>7. h[d] = mos[d]
  BY <1>2, <1>4, <1>5, <1>6
<1>8. [mos[d] EXCEPT !.kids = Put(mos[d].kids, n, a)] = r
  <2>1. mos[d] = Dir(mos[d].head, mos[d].origin, mos[d].kids, mos[d].root)
    BY DEF IsDir
  <2> QED
    BY <2>1 DEF Dir
<1> HIDE DEF r
<1>9. new = [h EXCEPT ![d] = r]
  BY <1>1, <1>7, <1>8
<1>10. DOMAIN new = DOMAIN mos \cup {a, b, c} /\ IsFcn(new)
  BY <1>4, <1>5, <1>6, <1>9 DEF IsFcn
<1>11. new[a] = ra /\ new[b] = rb /\ new[c] = rc
  BY <1>2, <1>4, <1>5, <1>6, <1>9
<1>12. new[d] = r
  BY <1>2, <1>4, <1>5, <1>6, <1>9
<1>13. \A o \in DOMAIN mos : o # d => new[o] = mos[o]
  BY <1>4, <1>5, <1>6, <1>9
<1> QED
  BY <1>10, <1>11, <1>12, <1>13 DEF IsGrown, new, r, ra, rb, rc

\* A dataset more leaves the pool sound.
LEMMA GrownIsSound ==
  ASSUME NEW t \in Nat, NEW mos, NEW live, Sound(mos, live, t), NEW d \in Dirs(mos), NEW n \in Names,
         n \notin DOMAIN mos[d].kids, NEW a, NEW b, NEW c, NEW origin, NEW root, NEW shape, NEW lists, NEW e,
         a \notin DOMAIN mos, b \notin DOMAIN mos, c \notin DOMAIN mos, a # b, a # c, b # c,
         NoObject \notin {a, b, c}, origin = OriginSnap \/ IsOrigin(mos, origin),
         \A k \in DOMAIN lists : lists[k] = EmptyList,
         IsUser(e), e.path = Append(PathIn(mos, live, d), n), e.snap = NoSnap
  PROVE  Sound(Grown(mos, d, n, a, b, c, origin, root, shape, lists, 105 + (t + 1), t + 1),
               Put(live, 105 + (t + 1), e), t + 1)
<1> DEFINE g == 105 + (t + 1)
           new == Grown(mos, d, n, a, b, c, origin, root, shape, lists, g, t + 1)
           now == Put(live, g, e)
<1>1. /\ Objects(mos) /\ HeadsKnown(mos, live) /\ SnapsKnown(mos, live) /\ Tree(mos, live)
      /\ Origins(mos) /\ Deads(mos) /\ Users(mos, live, t)
  BY DEF Sound
<1>2. IsDir(mos[d]) /\ d \in DOMAIN mos
  BY <1>1 DEF Objects, Dirs, IsDir, IsSet, IsDead, IsBpobj
<1>3. /\ DOMAIN new = DOMAIN mos \cup {a, b, c} /\ IsFcn(new)
      /\ new[a] = Dir(b, origin, Nothing, root)
      /\ new[b] = Set(a, origin, NoObject, Nothing, g, t + 1, shape, c)
      /\ new[c] = Dead(0, lists)
      /\ new[d] = Dir(mos[d].head, mos[d].origin, Put(mos[d].kids, n, a), mos[d].root)
      /\ \A o \in DOMAIN mos : o # d => new[o] = mos[o]
  <2>1. IsGrown(new, mos, d, n, a, b, c, origin, root, shape, lists, g, t + 1)
    BY <1>2, GrownObjects
  <2> HIDE DEF new, g
  <2> QED
    BY <2>1 DEF IsGrown
<1>4. g \notin DOMAIN live /\ g \in Nat /\ g <= 105 + (t + 1)
  BY <1>1 DEF Users
<1>5. IsPut(now, live, g, e) /\ IsPut(Put(mos[d].kids, n, a), mos[d].kids, n, a)
  BY PutChanges
<1>6. DOMAIN now = DOMAIN live \cup {g} /\ now[g] = e /\ IsFcn(now) /\ \A x \in DOMAIN live : now[x] = live[x]
  BY <1>4, <1>5 DEF IsPut
<1> HIDE DEF new, now, g
<1>7. /\ IsDir(new[a]) /\ new[a].is = "dir" /\ new[a].head = b /\ new[a].origin = origin /\ new[a].kids = Nothing
      /\ IsDir(new[d]) /\ new[d].is = "dir" /\ new[d].head = mos[d].head /\ new[d].origin = mos[d].origin
      /\ new[d].kids = Put(mos[d].kids, n, a)
  BY <1>3, <1>5, NothingIsEmpty, DirFields DEF IsPut
<1>8. /\ IsSet(new[b]) /\ new[b].is = "set" /\ new[b].dir = a /\ new[b].next = NoObject /\ new[b].snaps = Nothing
      /\ new[b].guid = g /\ new[b].txg = t + 1 /\ new[b].dead = c
      /\ IsDead(new[c]) /\ new[c].is = "dead" /\ new[c].lists = lists
  BY <1>3, NothingIsEmpty, SetFields, DeadFields
<1>9. \A o \in DOMAIN mos : new[o].is = mos[o].is /\ (mos[o].is # "dir" => new[o] = mos[o])
  BY <1>2, <1>3, <1>7 DEF IsDir
<1>10. Dirs(new) = Dirs(mos) \cup {a} /\ a # OriginDir
  <2>1. a # OriginDir
    BY <1>1 DEF Objects, Kept
  <2> QED
    BY <1>3, <1>7, <1>8, <1>9, <2>1 DEF Dirs
<1>11. ASSUME NEW x \in Dirs(mos)
       PROVE  /\ new[x].head = mos[x].head /\ new[x].origin = mos[x].origin
              /\ HeadOf(new, x) = HeadOf(mos, x) /\ PathIn(new, now, x) = PathIn(mos, live, x)
              /\ IsSetOf(new, x, new[x].head)
  <2>1. x \in DOMAIN mos /\ IsSetOf(mos, x, mos[x].head) /\ HeadOf(mos, x).guid \in DOMAIN live
    BY <1>1 DEF Dirs, HeadsKnown
  <2>2. new[x].head = mos[x].head /\ new[x].origin = mos[x].origin
    BY <1>3, <1>7, <2>1
  <2>3. HeadOf(new, x) = HeadOf(mos, x)
    BY <1>9, <2>1, <2>2 DEF HeadOf, IsSetOf
  <2>4. PathIn(new, now, x) = PathIn(mos, live, x)
    BY <1>6, <2>1, <2>3 DEF PathIn
  <2>5. IsSetOf(new, x, new[x].head)
    BY <1>3, <1>9, <2>1, <2>2 DEF IsSetOf
  <2> QED
    BY <2>2, <2>3, <2>4, <2>5
<1>12. HeadOf(new, a) = new[b] /\ PathIn(new, now, a) = e.path /\ SnapsOf(new, a) = {}
  BY <1>6, <1>7, <1>8, NothingIsEmpty, Zenon DEF HeadOf, PathIn, SnapsOf
<1>13. ASSUME NEW x \in Dirs(mos)
       PROVE  /\ SnapsOf(new, x) = SnapsOf(mos, x)
              /\ \A s \in SnapsOf(mos, x) :
                   /\ Snap(new, x, s) = Snap(mos, x, s) /\ new[Snap(mos, x, s)] = mos[Snap(mos, x, s)]
                   /\ Snap(mos, x, s) \in DOMAIN mos
  <2>1. SnapsOf(new, x) = SnapsOf(mos, x) /\ \A s : Snap(new, x, s) = Snap(mos, x, s)
    BY <1>11 DEF SnapsOf, Snap
  <2>2. \A s \in SnapsOf(mos, x) : Snap(mos, x, s) \in DOMAIN mos /\ mos[Snap(mos, x, s)].is = "set"
    BY <1>1 DEF SnapsKnown, IsSetOf
  <2> QED
    BY <1>9, <2>1, <2>2
<1>14. Objects(new)
  <2>1. IsFiniteSet(DOMAIN new)
    <3>1. DOMAIN new = ((DOMAIN mos \cup {a}) \cup {b}) \cup {c} /\ IsFiniteSet(DOMAIN mos)
      BY <1>1, <1>3 DEF Objects
    <3>2. IsFiniteSet(DOMAIN mos \cup {a})
      BY <3>1, FS_AddElement
    <3>3. IsFiniteSet((DOMAIN mos \cup {a}) \cup {b})
      BY <3>2, FS_AddElement
    <3> QED
      BY <3>1, <3>3, FS_AddElement
  <2>2. NoObject \notin DOMAIN new /\ Kept \subseteq DOMAIN new
    BY <1>1, <1>3 DEF Objects
  <2>3. ASSUME NEW o \in DOMAIN new
        PROVE  IsDir(new[o]) \/ IsSet(new[o]) \/ IsDead(new[o]) \/ IsBpobj(new[o])
    BY <1>1, <1>3, <1>7, <1>8 DEF Objects
  <2>4. /\ new[OriginDir].is = "dir" /\ new[OriginSnap].is = "set" /\ new[OriginSnap].dir = OriginDir
        /\ new[FreeList].is = "bpobj" /\ new[EmptyList].is = "bpobj"
    BY <1>1, <1>9 DEF Objects, Kept
  <2>5. ASSUME NEW o \in DOMAIN new, new[o].is = "dead", NEW k \in DOMAIN new[o].lists
        PROVE  new[o].lists[k] \in DOMAIN new /\ new[new[o].lists[k]].is = "bpobj"
    <3>1. CASE o = c
      BY <1>8, <2>2, <2>4, <2>5, <3>1 DEF Kept
    <3>2. CASE o # c
      <4>1. o \in DOMAIN mos /\ mos[o].is = "dead"
        BY <1>3, <1>7, <1>8, <1>9, <2>5, <3>2
      <4>2. new[o] = mos[o]
        BY <1>9, <4>1
      <4>3. mos[o].lists[k] \in DOMAIN mos /\ mos[mos[o].lists[k]].is = "bpobj"
        BY <1>1, <2>5, <4>1, <4>2 DEF Objects
      <4> QED
        BY <1>3, <1>9, <4>2, <4>3
    <3> QED
      BY <3>1, <3>2
  <2> QED
    BY <1>3, <2>1, <2>2, <2>3, <2>4, <2>5 DEF Objects
<1>15. HeadsKnown(new, now)
  <2>1. ASSUME NEW x \in Dirs(mos)
        PROVE  HeadOf(new, x).next = NoObject /\ HeadOf(new, x).guid \in DOMAIN now /\ now[HeadOf(new, x).guid].snap = NoSnap
    BY <1>1, <1>6, <1>11 DEF HeadsKnown
  <2>2. IsSetOf(new, a, new[a].head) /\ HeadOf(new, a).next = NoObject /\ HeadOf(new, a).guid \in DOMAIN now
        /\ now[HeadOf(new, a).guid].snap = NoSnap
    BY <1>3, <1>6, <1>7, <1>8, <1>12 DEF IsSetOf
  <2> QED
    BY <1>10, <1>11, <2>1, <2>2 DEF HeadsKnown
<1>16. SnapsKnown(new, now)
  <2> SUFFICES ASSUME NEW x \in Dirs(new), NEW s \in SnapsOf(new, x)
               PROVE  /\ IsSetOf(new, x, Snap(new, x, s)) /\ new[Snap(new, x, s)].guid \in DOMAIN now
                      /\ now[new[Snap(new, x, s)].guid].snap = {s}
                      /\ now[new[Snap(new, x, s)].guid].path = PathIn(new, now, x)
    BY DEF SnapsKnown
  <2>1. x \in Dirs(mos)
    BY <1>10, <1>12
  <2>2. s \in SnapsOf(mos, x) /\ Snap(new, x, s) = Snap(mos, x, s) /\ new[Snap(mos, x, s)] = mos[Snap(mos, x, s)]
    BY <1>13, <2>1
  <2>3. /\ IsSetOf(mos, x, Snap(mos, x, s)) /\ mos[Snap(mos, x, s)].guid \in DOMAIN live
        /\ live[mos[Snap(mos, x, s)].guid].snap = {s}
        /\ live[mos[Snap(mos, x, s)].guid].path = PathIn(mos, live, x)
    BY <1>1, <2>1, <2>2 DEF SnapsKnown
  <2> QED
    BY <1>3, <1>6, <1>11, <2>1, <2>2, <2>3 DEF IsSetOf
<1>17. Tree(new, now)
  <2>1. Root \in Dirs(new) /\ PathIn(new, now, Root) = <<>> /\ a # Root
    BY <1>1, <1>10, <1>11 DEF Tree, Dirs
  <2>2. \A x \in Dirs(mos) : x # d => Kids(new, x) = Kids(mos, x) /\ \A k : Kid(new, x, k) = Kid(mos, x, k)
    BY <1>3 DEF Kids, Kid, Dirs
  <2>3. Kids(new, d) = Kids(mos, d) \cup {n} /\ Kid(new, d, n) = a /\ \A k \in Kids(mos, d) : Kid(new, d, k) = Kid(mos, d, k)
    <3>1. n # "$ORIGIN"
      BY HistoryAssumption
    <3> QED
      BY <1>5, <1>7, <3>1 DEF Kids, Kid, IsPut
  <2>4. Kids(new, a) = {}
    BY <1>7, NothingIsEmpty DEF Kids
  <2>5. ASSUME NEW x \in Dirs(new), NEW k \in Kids(new, x)
        PROVE  /\ k \in AllowedNames /\ Kid(new, x, k) \in Dirs(new) \ {Root}
               /\ PathIn(new, now, Kid(new, x, k)) = Append(PathIn(new, now, x), k)
    <3>1. x \in Dirs(mos)
      BY <1>10, <2>4, <2>5
    <3>2. CASE x = d /\ k = n
      BY <1>10, <1>11, <1>12, <2>1, <2>3, <3>2 DEF AllowedNames
    <3>3. CASE ~(x = d /\ k = n)
      <4>1. k \in Kids(mos, x) /\ Kid(new, x, k) = Kid(mos, x, k)
        BY <2>2, <2>3, <3>1, <3>3
      <4>2. /\ k \in AllowedNames /\ Kid(mos, x, k) \in Dirs(mos) \ {Root}
            /\ PathIn(mos, live, Kid(mos, x, k)) = Append(PathIn(mos, live, x), k)
        BY <1>1, <3>1, <4>1 DEF Tree
      <4> QED
        BY <1>10, <1>11, <3>1, <4>1, <4>2
    <3> QED
      BY <3>2, <3>3
  <2>6. ASSUME NEW x \in Dirs(new) \ {Root}
        PROVE  \E p \in Dirs(new) : \E k \in Kids(new, p) : Kid(new, p, k) = x
    <3>1. CASE x = a
      BY <1>10, <2>3, <3>1
    <3>2. CASE x # a
      <4>1. PICK p \in Dirs(mos) : \E k \in Kids(mos, p) : Kid(mos, p, k) = x
        BY <1>1, <1>10, <3>2 DEF Tree
      <4>2. PICK k \in Kids(mos, p) : Kid(mos, p, k) = x
        BY <4>1
      <4>3. k \in Kids(new, p) /\ Kid(new, p, k) = x
        BY <2>2, <2>3, <4>2
      <4> QED
        BY <1>10, <4>3
    <3> QED
      BY <3>1, <3>2
  <2> QED
    BY <2>1, <2>5, <2>6 DEF Tree
<1>18. Origins(new)
  <2>1. ASSUME NEW o, IsOrigin(mos, o)
        PROVE  \E p \in Dirs(new) : \E s \in SnapsOf(new, p) : o = Snap(new, p, s)
    <3>1. PICK p \in Dirs(mos) : \E s \in SnapsOf(mos, p) : o = Snap(mos, p, s)
      BY <2>1 DEF IsOrigin
    <3> QED
      BY <1>10, <1>13, <3>1
  <2>2. ASSUME NEW x \in Dirs(mos), mos[x].origin \notin {NoObject, OriginSnap}
        PROVE  /\ IsOrigin(mos, mos[x].origin)
               /\ \A s \in SnapsOf(new, x) : new[Snap(new, x, s)].txg > new[new[x].origin].txg
    <3>1. PICK p \in Dirs(mos) : \E s \in SnapsOf(mos, p) : mos[x].origin = Snap(mos, p, s)
      BY <1>1, <2>2 DEF Origins
    <3>2. PICK s \in SnapsOf(mos, p) : mos[x].origin = Snap(mos, p, s)
      BY <3>1
    <3>3. new[mos[x].origin] = mos[mos[x].origin]
      BY <1>13, <3>2
    <3>4. \A u \in SnapsOf(mos, x) : mos[Snap(mos, x, u)].txg > mos[mos[x].origin].txg
      BY <1>1, <2>2 DEF Origins
    <3> QED
      BY <1>11, <1>13, <3>1, <3>3, <3>4 DEF IsOrigin
  <2> SUFFICES ASSUME NEW x \in Dirs(new), new[x].origin \notin {NoObject, OriginSnap}
               PROVE  /\ \E p \in Dirs(new) : \E s \in SnapsOf(new, p) : new[x].origin = Snap(new, p, s)
                      /\ \A s \in SnapsOf(new, x) : new[Snap(new, x, s)].txg > new[new[x].origin].txg
    BY DEF Origins
  <2>3. CASE x = a
    BY <1>7, <1>12, <2>1, <2>3
  <2>4. CASE x # a
    BY <1>10, <1>11, <2>1, <2>2, <2>4
  <2> QED
    BY <2>3, <2>4
<1>19. Deads(new)
  <2>1. ASSUME NEW x, IsKnown(new, x)
        PROVE  x = b \/ (IsKnown(mos, x) /\ new[x] = mos[x])
    <3>1. PICK p \in Dirs(new) : x = new[p].head \/ \E s \in SnapsOf(new, p) : x = Snap(new, p, s)
      BY <2>1 DEF IsKnown
    <3>2. CASE p = a
      BY <1>7, <1>12, <3>1, <3>2
    <3>3. CASE p # a
      <4>1. p \in Dirs(mos)
        BY <1>10, <3>3
      <4>2. x = mos[p].head \/ \E s \in SnapsOf(mos, p) : x = Snap(mos, p, s)
        BY <1>11, <1>13, <3>1, <4>1
      <4>3. new[x] = mos[x]
        BY <1>11, <1>13, <4>1, <4>2 DEF HeadOf
      <4> QED
        BY <4>1, <4>2, <4>3 DEF IsKnown
    <3> QED
      BY <3>2, <3>3
  <2>2. \A x : IsKnown(mos, x) => mos[x].dead \in DOMAIN mos /\ mos[mos[x].dead].is = "dead"
    BY <1>1 DEF Deads
  <2>3. \A x, y : IsKnown(mos, x) /\ IsKnown(mos, y) /\ mos[x].dead = mos[y].dead => x = y
    BY <1>1 DEF Deads
  <2>4. ASSUME NEW x, IsKnown(new, x)
        PROVE  new[x].dead \in DOMAIN new /\ new[new[x].dead].is = "dead"
    BY <1>3, <1>8, <1>9, <2>1, <2>2, <2>4
  <2>5. ASSUME NEW x, NEW y, IsKnown(new, x), IsKnown(new, y), new[x].dead = new[y].dead
        PROVE  x = y
    <3>1. \A z : IsKnown(mos, z) => mos[z].dead # c
      BY <2>2
    <3> QED
      BY <1>8, <2>1, <2>3, <2>5, <3>1
  <2> QED
    BY <2>4, <2>5 DEF Deads
<1>20. Users(new, now, t + 1)
  <2>1. ASSUME NEW x \in DOMAIN now
        PROVE  /\ x \in Nat /\ x <= 105 + (t + 1) /\ now[x].path \in Seq(AllowedNames)
               /\ IsUser(now[x]) /\ (now[x].snap = NoSnap => \E p \in Dirs(new) : HeadOf(new, p).guid = x)
    <3>1. CASE x = g
      <4>1. PathIn(mos, live, d) \in Seq(AllowedNames) /\ n \in AllowedNames
        BY PathTypes DEF AllowedNames
      <4>2. e.path \in Seq(AllowedNames)
        BY <4>1
      <4> QED
        BY <1>4, <1>6, <1>8, <1>10, <1>12, <3>1, <4>2
    <3>2. CASE x # g
      <4>1. x \in DOMAIN live /\ now[x] = live[x]
        BY <1>6, <3>2
      <4>2. x \in Nat /\ x <= 105 + t /\ live[x].path \in Seq(AllowedNames) /\ IsUser(live[x])
            /\ (live[x].snap = NoSnap => \E p \in Dirs(mos) : HeadOf(mos, p).guid = x)
        BY <1>1, <4>1 DEF Users, IsUser
      <4>3. x <= 105 + (t + 1)
        BY <4>2
      <4> QED
        BY <1>10, <1>11, <4>1, <4>2, <4>3
    <3> QED
      BY <3>1, <3>2
  <2>2. ASSUME NEW o \in DOMAIN new, new[o].is = "set"
        PROVE  new[o].txg \in Nat /\ new[o].txg <= t + 1
    <3>1. CASE o = b
      BY <1>8, <3>1
    <3>2. CASE o # b
      <4>1. o \in DOMAIN mos /\ mos[o].is = "set" /\ new[o] = mos[o]
        BY <1>3, <1>7, <1>8, <1>9, <2>2, <3>2
      <4>2. mos[o].txg \in Nat /\ mos[o].txg <= t
        BY <1>1, <4>1 DEF Users
      <4> QED
        BY <4>1, <4>2
    <3> QED
      BY <3>1, <3>2
  <2> QED
    BY <1>6, <2>1, <2>2 DEF Users, IsUser
<1>21. Sound(new, now, t + 1)
  BY <1>14, <1>15, <1>16, <1>17, <1>18, <1>19, <1>20 DEF Sound
<1> QED
  BY <1>21 DEF new, now, g

-----------------------------------------------------------------------------
(* Commands that leave the datasets as they are                            *)

\* A command that changes neither directories nor what a dataset is known by
\* leaves the pool sound.
LEMMA QuietIsSound ==
  ASSUME NEW t \in Nat, NEW mos, NEW live, Sound(mos, live, t), NEW new, NEW now,
         Objects(new), KeepsSets(mos, new), KeepsUsers(live, now), NEW u \in Nat, t <= u
  PROVE  Sound(new, now, u) /\ KnownStay(mos, new)
<1>1. /\ Objects(mos) /\ HeadsKnown(mos, live) /\ SnapsKnown(mos, live) /\ Tree(mos, live)
      /\ Origins(mos) /\ Deads(mos) /\ Users(mos, live, t)
  BY DEF Sound
<1>2. /\ Dirs(new) = Dirs(mos)
      /\ \A d \in Dirs(mos) : /\ new[d].head = mos[d].head /\ new[d].kids = mos[d].kids
                               /\ new[d].origin = mos[d].origin /\ d \in DOMAIN mos
  BY DEF KeepsSets, Dirs
<1>3. ASSUME NEW d \in Dirs(mos)
      PROVE  /\ IsSetOf(new, d, new[d].head) /\ HeadOf(new, d).next = NoObject
             /\ HeadOf(new, d).guid = HeadOf(mos, d).guid /\ HeadOf(new, d).snaps = HeadOf(mos, d).snaps
             /\ HeadOf(new, d).dead = HeadOf(mos, d).dead
  BY <1>1, <1>2 DEF KeepsSets, KeepsNext, HeadsKnown, IsSetOf, HeadOf
<1>4. SameDirs(mos, new)
  BY <1>2, <1>3 DEF SameDirs
<1>5. SamePaths(mos, live, now)
  BY <1>1 DEF SamePaths, KeepsUsers, HeadsKnown
<1>6. HeadsKnown(new, now) /\ Tree(new, now) /\ \A d \in Dirs(mos) : PathIn(new, now, d) = PathIn(mos, live, d)
  BY <1>4, <1>5, TreeStays
<1>7. ASSUME NEW d \in Dirs(mos)
      PROVE  /\ SnapsOf(new, d) = SnapsOf(mos, d)
             /\ \A s \in SnapsOf(mos, d) :
                  /\ Snap(new, d, s) = Snap(mos, d, s) /\ IsSetOf(mos, d, Snap(mos, d, s))
                  /\ IsSetOf(new, d, Snap(mos, d, s))
                  /\ new[Snap(mos, d, s)].guid = mos[Snap(mos, d, s)].guid
                  /\ new[Snap(mos, d, s)].txg = mos[Snap(mos, d, s)].txg
                  /\ new[Snap(mos, d, s)].dead = mos[Snap(mos, d, s)].dead
  <2>1. SnapsOf(new, d) = SnapsOf(mos, d) /\ \A s : Snap(new, d, s) = Snap(mos, d, s)
    BY <1>3 DEF SnapsOf, Snap
  <2>2. \A s \in SnapsOf(mos, d) : IsSetOf(mos, d, Snap(mos, d, s))
    BY <1>1 DEF SnapsKnown
  <2> QED
    BY <2>1, <2>2 DEF KeepsSets, IsSetOf
<1>8. SnapsKnown(new, now)
  <2> SUFFICES ASSUME NEW d \in Dirs(mos), NEW s \in SnapsOf(mos, d)
               PROVE  /\ IsSetOf(new, d, Snap(new, d, s)) /\ new[Snap(new, d, s)].guid \in DOMAIN now
                      /\ now[new[Snap(new, d, s)].guid].snap = {s}
                      /\ now[new[Snap(new, d, s)].guid].path = PathIn(new, now, d)
    BY <1>2, <1>7 DEF SnapsKnown
  <2>1. /\ mos[Snap(mos, d, s)].guid \in DOMAIN live /\ live[mos[Snap(mos, d, s)].guid].snap = {s}
        /\ live[mos[Snap(mos, d, s)].guid].path = PathIn(mos, live, d)
    BY <1>1 DEF SnapsKnown
  <2> QED
    BY <1>6, <1>7, <2>1 DEF KeepsUsers
<1>9. Origins(new)
  <2> SUFFICES ASSUME NEW d \in Dirs(mos), mos[d].origin \notin {NoObject, OriginSnap}
               PROVE  /\ \E p \in Dirs(mos) : \E s \in SnapsOf(new, p) : mos[d].origin = Snap(new, p, s)
                      /\ \A s \in SnapsOf(new, d) : new[Snap(new, d, s)].txg > new[mos[d].origin].txg
    BY <1>2 DEF Origins
  <2>1. PICK p \in Dirs(mos) : \E s \in SnapsOf(mos, p) : mos[d].origin = Snap(mos, p, s)
    BY <1>1 DEF Origins
  <2>2. PICK s \in SnapsOf(mos, p) : mos[d].origin = Snap(mos, p, s)
    BY <2>1
  <2>3. new[mos[d].origin].txg = mos[mos[d].origin].txg
    BY <1>7, <2>2
  <2>4. \A s1 \in SnapsOf(mos, d) : mos[Snap(mos, d, s1)].txg > mos[mos[d].origin].txg
    BY <1>1 DEF Origins
  <2> QED
    BY <1>7, <2>2, <2>3, <2>4
<1>10. ASSUME NEW x
       PROVE  IsKnown(new, x) => IsKnown(mos, x) /\ new[x].dead = mos[x].dead
  <2> SUFFICES ASSUME IsKnown(new, x) PROVE IsKnown(mos, x) /\ new[x].dead = mos[x].dead
    OBVIOUS
  <2>1. PICK d \in Dirs(mos) : x = new[d].head \/ \E s \in SnapsOf(new, d) : x = Snap(new, d, s)
    BY <1>2 DEF IsKnown
  <2>2. x = mos[d].head \/ \E s \in SnapsOf(mos, d) : x = Snap(mos, d, s)
    BY <1>2, <1>7, <2>1
  <2>3. IsSetOf(mos, d, x)
    BY <1>1, <1>7, <2>2 DEF HeadsKnown
  <2> QED
    BY <2>2, <2>3 DEF IsKnown, IsSetOf, KeepsSets
<1>11. Deads(new)
  <2>1. \A x : IsKnown(mos, x) => mos[x].dead \in DOMAIN mos /\ mos[mos[x].dead].is = "dead"
    BY <1>1 DEF Deads
  <2>2. \A x, y : IsKnown(mos, x) /\ IsKnown(mos, y) /\ mos[x].dead = mos[y].dead => x = y
    BY <1>1 DEF Deads
  <2> QED
    BY <1>10, <2>1, <2>2 DEF Deads, KeepsSets
<1>12. Users(new, now, u)
  <2>1. ASSUME NEW g \in DOMAIN now
        PROVE  /\ g \in Nat /\ g <= 105 + u /\ now[g].path \in Seq(AllowedNames) /\ IsUser(now[g])
               /\ now[g].snap = NoSnap => \E d \in Dirs(new) : HeadOf(new, d).guid = g
    <3>1. g \in DOMAIN live /\ IsUser(now[g]) /\ now[g].path = live[g].path /\ now[g].snap = live[g].snap
      BY DEF KeepsUsers
    <3>2. /\ g \in Nat /\ g <= 105 + t /\ live[g].path \in Seq(AllowedNames)
          /\ live[g].snap = NoSnap => \E d \in Dirs(mos) : HeadOf(mos, d).guid = g
      BY <1>1, <3>1 DEF Users
    <3>3. g <= 105 + u
      BY <3>2
    <3> QED
      BY <1>2, <1>3, <3>1, <3>2, <3>3
  <2>2. ASSUME NEW o \in DOMAIN new, new[o].is = "set"
        PROVE  new[o].txg \in Nat /\ new[o].txg <= u
    <3>1. o \in DOMAIN mos /\ mos[o].is = "set" /\ new[o].txg = mos[o].txg
      BY <2>2 DEF KeepsSets
    <3>2. mos[o].txg \in Nat /\ mos[o].txg <= t
      BY <1>1, <3>1 DEF Users
    <3> QED
      BY <3>1, <3>2
  <2> QED
    BY <2>1, <2>2 DEF Users, IsUser, KeepsUsers
<1> QED
  BY <1>6, <1>8, <1>9, <1>10, <1>11, <1>12 DEF Sound, KnownStay

IsObject(mos, r) ==
  /\ IsDir(r) \/ IsSet(r) \/ IsDead(r) \/ IsBpobj(r)
  /\ r.is = "dead" => \A k \in DOMAIN r.lists : r.lists[k] \in DOMAIN mos /\ mos[r.lists[k]].is = "bpobj"

\* To change the value at a place is to put it there.
LEMMA ExceptIsPut ==
  ASSUME NEW f, NEW x \in DOMAIN f, NEW y
  PROVE  [f EXCEPT ![x] = y] = Put(f, x, y)
BY DEF Put

\* An object put in the place of one of its kind, or at a free number,
\* leaves objects.
LEMMA PutIsObjects ==
  ASSUME NEW mos, Objects(mos), NEW o, o # NoObject, NEW r, IsObject(mos, r),
         o \in DOMAIN mos => r.is = mos[o].is, o = OriginSnap => r.dir = OriginDir
  PROVE  Objects(Put(mos, o, r))
<1> DEFINE new == Put(mos, o, r)
<1>1. /\ DOMAIN new = DOMAIN mos \cup {o} /\ new[o] = r /\ IsFcn(new)
      /\ \A z \in DOMAIN mos : z # o => new[z] = mos[z]
  <2>1. IsPut(new, mos, o, r)
    BY PutChanges
  <2> HIDE DEF new
  <2> QED
    BY <2>1 DEF IsPut
<1> HIDE DEF new
<1>2. \A z \in DOMAIN mos : new[z].is = mos[z].is
  BY <1>1
<1>3. IsFiniteSet(DOMAIN new)
  BY <1>1, FS_AddElement DEF Objects
<1>4. \A z \in DOMAIN new : IsDir(new[z]) \/ IsSet(new[z]) \/ IsDead(new[z]) \/ IsBpobj(new[z])
  BY <1>1 DEF Objects, IsObject
<1>5. /\ Kept \subseteq DOMAIN new /\ new[OriginDir].is = "dir"
      /\ new[OriginSnap].is = "set" /\ new[OriginSnap].dir = OriginDir
      /\ new[FreeList].is = "bpobj" /\ new[EmptyList].is = "bpobj"
  BY <1>1, <1>2 DEF Objects, Kept
<1>6. ASSUME NEW z \in DOMAIN new, new[z].is = "dead", NEW k \in DOMAIN new[z].lists
      PROVE  new[z].lists[k] \in DOMAIN new /\ new[new[z].lists[k]].is = "bpobj"
  <2>1. new[z].lists[k] \in DOMAIN mos /\ mos[new[z].lists[k]].is = "bpobj"
    <3>1. CASE z = o
      BY <1>1, <1>6, <3>1 DEF IsObject
    <3>2. CASE z # o
      <4>1. z \in DOMAIN mos /\ new[z] = mos[z]
        BY <1>1, <3>2
      <4> QED
        BY <1>6, <4>1 DEF Objects
    <3> QED
      BY <3>1, <3>2
  <2> QED
    BY <1>1, <1>2, <2>1
<1>7. NoObject \notin DOMAIN new
  BY <1>1 DEF Objects
<1>8. Objects(new)
  BY <1>1, <1>3, <1>4, <1>5, <1>6, <1>7 DEF Objects
<1> QED
  BY <1>8 DEF new

\* A list of blocks, a deadlist, or the links, the size and the data of a
\* dataset may change without a change of the tree.
LEMMA PutKeeps ==
  ASSUME NEW mos, NEW o, NEW r,
         \/ o \notin DOMAIN mos /\ r.is = "bpobj"
         \/ o \in DOMAIN mos /\ r.is = mos[o].is /\ r.is \in {"dead", "bpobj"}
         \/ /\ o \in DOMAIN mos /\ r.is = mos[o].is /\ r.is = "set"
            /\ r.dir = mos[o].dir /\ r.snaps = mos[o].snaps
            /\ \A d \in Dirs(mos) : mos[d].head = o => r.next = mos[o].next
            /\ r.guid = mos[o].guid /\ r.txg = mos[o].txg /\ r.dead = mos[o].dead
  PROVE  KeepsSets(mos, Put(mos, o, r))
<1> DEFINE new == Put(mos, o, r)
<1>1. /\ DOMAIN new = DOMAIN mos \cup {o} /\ new[o] = r
      /\ \A z \in DOMAIN mos : z # o => new[z] = mos[z]
  <2>1. IsPut(new, mos, o, r)
    BY PutChanges
  <2> HIDE DEF new
  <2> QED
    BY <2>1 DEF IsPut
<1> HIDE DEF new
<1>2. KeepsNext(mos, new)
  BY <1>1 DEF KeepsNext, IsSetOf
<1>3. KeepsSets(mos, new)
  BY <1>1, <1>2 DEF KeepsSets
<1> QED
  BY <1>3 DEF new

\* Two such changes, one after the other, are one.
LEMMA KeepsOn ==
  ASSUME NEW mos, NEW mid, NEW new, KeepsSets(mos, mid), KeepsSets(mid, new)
  PROVE  KeepsSets(mos, new)
<1>1. Dirs(mid) = Dirs(mos) /\ \A d \in Dirs(mos) : mid[d].head = mos[d].head
  BY DEF KeepsSets, Dirs
<1>2. KeepsNext(mos, new)
  BY <1>1 DEF KeepsSets, KeepsNext, IsSetOf
<1> QED
  BY <1>2 DEF KeepsSets

\* Lists of blocks that grow or shrink are such a change.
LEMMA BytesOnlyKeeps ==
  ASSUME NEW mos, Objects(mos), NEW new, BytesOnly(mos, new)
  PROVE  Objects(new) /\ KeepsSets(mos, new)
<1>1. \A b \in DOMAIN mos : new[b].is = mos[b].is /\ (mos[b].is # "bpobj" => new[b] = mos[b])
  BY DEF BytesOnly
<1>2. DOMAIN new = DOMAIN mos
  BY DEF BytesOnly
<1>3. KeepsNext(mos, new)
  BY <1>1 DEF KeepsNext, IsSetOf
<1>4. KeepsSets(mos, new)
  BY <1>1, <1>2, <1>3 DEF KeepsSets
<1>5. \A z \in DOMAIN new : IsDir(new[z]) \/ IsSet(new[z]) \/ IsDead(new[z]) \/ IsBpobj(new[z])
  BY <1>2 DEF Objects, BytesOnly
<1>6. ASSUME NEW z \in DOMAIN new, new[z].is = "dead", NEW i \in DOMAIN new[z].lists
      PROVE  new[z].lists[i] \in DOMAIN new /\ new[new[z].lists[i]].is = "bpobj"
  <2>1. z \in DOMAIN mos /\ new[z] = mos[z] /\ mos[z].is = "dead"
    BY <1>1, <1>2, <1>6
  <2>2. mos[z].lists[i] \in DOMAIN mos /\ mos[mos[z].lists[i]].is = "bpobj"
    BY <1>6, <2>1 DEF Objects
  <2> QED
    BY <1>1, <1>2, <2>1, <2>2
<1>7. /\ new[OriginDir].is = "dir" /\ new[OriginSnap].is = "set" /\ new[OriginSnap].dir = OriginDir
      /\ new[FreeList].is = "bpobj" /\ new[EmptyList].is = "bpobj"
  BY <1>1 DEF Objects, Kept
<1>8. Objects(new)
  BY <1>2, <1>5, <1>6, <1>7 DEF Objects, BytesOnly
<1> QED
  BY <1>4, <1>8

\* So are the blocks handed to the list of those to free, and taken off it.
LEMMA FreedKeeps ==
  ASSUME NEW mos, Objects(mos), NEW bytes
  PROVE  LET new == [mos EXCEPT ![FreeList].bytes = bytes] IN Objects(new) /\ KeepsSets(mos, new)
<1> DEFINE r == [mos[FreeList] EXCEPT !.bytes = bytes]
           new == [mos EXCEPT ![FreeList].bytes = bytes]
<1>1. FreeList \in DOMAIN mos /\ IsBpobj(mos[FreeList])
  BY DEF Objects, Kept, IsDir, IsSet, IsDead, IsBpobj
<1>2. r = Bpobj(bytes)
  BY <1>1 DEF IsBpobj, Bpobj
<1>3. IsBpobj(r) /\ r.is = "bpobj" /\ mos[FreeList].is = "bpobj"
  BY <1>1, <1>2, BpobjFields DEF IsBpobj
<1>4. new = [z \in DOMAIN mos |-> IF z = FreeList THEN r ELSE mos[z]]
  OBVIOUS
<1> HIDE DEF new, r
<1>5. BytesOnly(mos, new)
  BY <1>1, <1>3, <1>4 DEF BytesOnly, IsFcn
<1>6. Objects(new) /\ KeepsSets(mos, new)
  BY <1>5, BytesOnlyKeeps
<1> QED
  BY <1>6 DEF new

\* The freed blocks are handed back.
LEMMA FreedIsSound ==
  ASSUME NEW t \in Nat, NEW mos, NEW live, Sound(mos, live, t), NEW bytes
  PROVE  Sound([mos EXCEPT ![FreeList].bytes = bytes], live, t + 1)
<1> DEFINE new == [mos EXCEPT ![FreeList].bytes = bytes]
<1>1. Objects(mos) /\ KeepsUsers(live, live)
  BY DEF Sound, Users, KeepsUsers, IsUser
<1>2. Objects(new) /\ KeepsSets(mos, new)
  BY <1>1, FreedKeeps
<1> HIDE DEF new
<1>3. Sound(new, live, t + 1)
  BY <1>1, <1>2, t + 1 \in Nat, t <= t + 1, QuietIsSound
<1> QED
  BY <1>3 DEF new

\* A head has another shape.
LEMMA ReshapedKeeps ==
  ASSUME NEW mos, Objects(mos), NEW h \in DOMAIN mos, mos[h].is = "set", NEW shape
  PROVE  LET new == [mos EXCEPT ![h].shape = shape] IN Objects(new) /\ KeepsSets(mos, new)
<1> DEFINE r == [mos[h] EXCEPT !.shape = shape]
<1>1. IsSet(mos[h])
  BY DEF Objects, IsDir, IsDead, IsBpobj
<1>2. r = Set(mos[h].dir, mos[h].prev, mos[h].next, mos[h].snaps, mos[h].guid, mos[h].txg, shape, mos[h].dead)
  BY <1>1 DEF IsSet, Set
<1>3. [mos EXCEPT ![h].shape = shape] = Put(mos, h, r)
  <2>1. [mos EXCEPT ![h].shape = shape] = [mos EXCEPT ![h] = r]
    OBVIOUS
  <2> QED
    BY <2>1, ExceptIsPut
<1> HIDE DEF r
<1>4. /\ IsSet(r) /\ r.is = "set" /\ r.dir = mos[h].dir /\ r.next = mos[h].next /\ r.snaps = mos[h].snaps
      /\ r.guid = mos[h].guid /\ r.txg = mos[h].txg /\ r.dead = mos[h].dead
  BY <1>1, <1>2, SetFields DEF IsSet
<1>5. Objects(Put(mos, h, r))
  <2>1. IsObject(mos, r) /\ h # NoObject /\ (h = OriginSnap => r.dir = OriginDir)
    BY <1>4 DEF IsObject, Objects
  <2> QED
    BY <1>4, <2>1, PutIsObjects
<1>6. KeepsSets(mos, Put(mos, h, r))
  BY <1>4, PutKeeps
<1> QED
  BY <1>3, <1>5, <1>6

\* zfs set volsize leaves the pool sound.
LEMMA ResizedIsSound ==
  ASSUME NEW t \in Nat, NEW mos, NEW live, Sound(mos, live, t), NEW h \in DOMAIN mos, mos[h].is = "set",
         NEW shape, NEW g, NEW size
  PROVE  Sound([mos EXCEPT ![h].shape = shape], [live EXCEPT ![g].size = size], t + 1)
<1> DEFINE now == [live EXCEPT ![g].size = size]
           new == [mos EXCEPT ![h].shape = shape]
<1>1. Objects(new) /\ KeepsSets(mos, new)
  <2>1. Objects(mos)
    BY DEF Sound
  <2> QED
    BY <2>1, ReshapedKeeps
<1>2. KeepsUsers(live, now)
  <2>1. now = [x \in DOMAIN live |-> IF x = g THEN [live[x] EXCEPT !.size = size] ELSE live[x]]
    OBVIOUS
  <2> HIDE DEF now
  <2>2. ASSUME NEW x \in DOMAIN live
        PROVE  IsUser(now[x]) /\ now[x].path = live[x].path /\ now[x].snap = live[x].snap
    <3> DEFINE e == live[x]
    <3>1. e = [path |-> e.path, snap |-> e.snap, kind |-> e.kind, size |-> e.size, clone |-> e.clone, locked |-> e.locked]
      BY DEF Sound, Users
    <3> HIDE DEF e
    <3>2. [e EXCEPT !.size = size] =
            [path |-> e.path, snap |-> e.snap, kind |-> e.kind, size |-> size, clone |-> e.clone, locked |-> e.locked]
      BY <3>1
    <3>3. CASE x = g
      <4>1. now[x] = [path |-> e.path, snap |-> e.snap, kind |-> e.kind, size |-> size, clone |-> e.clone, locked |-> e.locked]
        BY <2>1, <3>2, <3>3 DEF e
      <4> QED
        BY <4>1 DEF IsUser, e
    <3>4. CASE x # g
      BY <2>1, <3>1, <3>4 DEF IsUser, e
    <3> QED
      BY <3>3, <3>4
  <2>3. DOMAIN now = DOMAIN live /\ IsFcn(now)
    BY <2>1 DEF IsFcn
  <2> QED
    BY <2>2, <2>3 DEF KeepsUsers
<1> HIDE DEF new, now
<1>3. Sound(new, now, t + 1)
  BY <1>1, <1>2, t + 1 \in Nat, t <= t + 1, QuietIsSound
<1> QED
  BY <1>3 DEF new, now

\* A block is written again: its old one goes to a list of the head's deadlist.
LEMMA OverwrittenIsSound ==
  ASSUME NEW t \in Nat, NEW mos, NEW live, Sound(mos, live, t),
         NEW h \in DOMAIN mos, mos[h].is = "set", NEW dead \in DOMAIN mos, mos[dead].is = "dead",
         NEW k \in DOMAIN mos[dead].lists, NEW into, into # NoObject, NEW bytes, NEW data,
         into \in DOMAIN mos => mos[into].is = "bpobj"
  PROVE  Sound([Put(mos, into, Bpobj(bytes)) EXCEPT
                  ![h].shape.data = data,
                  ![dead] = Dead(@.used + 1, [@.lists EXCEPT ![k] = into])], live, t + 1)
<1> DEFINE more == Put(mos, into, Bpobj(bytes))
           shape == [more[h].shape EXCEPT !.data = data]
           mid == [more EXCEPT ![h].shape = shape]
           r == Dead(mid[dead].used + 1, [mid[dead].lists EXCEPT ![k] = into])
           new == [more EXCEPT ![h].shape.data = data,
                               ![dead] = Dead(@.used + 1, [@.lists EXCEPT ![k] = into])]
<1>1. Objects(mos)
  BY DEF Sound
<1>2. Objects(more) /\ KeepsSets(mos, more)
  <2> DEFINE q == Bpobj(bytes)
  <2>1. q.is = "bpobj" /\ IsBpobj(q)
    BY BpobjFields
  <2> HIDE DEF q
  <2>2. IsObject(mos, q)
    BY <2>1 DEF IsObject
  <2>3. into # OriginSnap
    BY <1>1 DEF Objects, Kept
  <2>4. Objects(Put(mos, into, q))
    BY <1>1, <2>1, <2>2, <2>3, PutIsObjects
  <2>5. KeepsSets(mos, Put(mos, into, q))
    BY <2>1, PutKeeps
  <2> QED
    BY <2>4, <2>5 DEF q
<1>3. DOMAIN more = DOMAIN mos \cup {into} /\ more[into].is = "bpobj" /\ more[dead] = mos[dead]
  <2>1. IsPut(more, mos, into, Bpobj(bytes))
    BY PutChanges
  <2>2. Bpobj(bytes).is = "bpobj"
    BY BpobjFields
  <2> HIDE DEF more
  <2>3. dead # into
    OBVIOUS
  <2> QED
    BY <2>1, <2>2, <2>3 DEF IsPut
<1>4. h \in DOMAIN more /\ more[h].is = "set" /\ h # dead /\ h # into
  BY <1>2, <1>3 DEF KeepsSets
<1>5. Objects(mid) /\ KeepsSets(more, mid)
  BY <1>2, <1>4, ReshapedKeeps
<1>6. mid = [x \in DOMAIN more |-> IF x = h THEN [more[h] EXCEPT !.shape = shape] ELSE more[x]]
  OBVIOUS
<1>7. new = [mid EXCEPT ![dead] = Dead(@.used + 1, [@.lists EXCEPT ![k] = into])]
  BY Zenon
<1>8. new = [mid EXCEPT ![dead] = r]
  BY <1>7
<1> HIDE DEF new, mid, more, shape
<1>9. DOMAIN mid = DOMAIN more /\ mid[dead] = mos[dead] /\ mid[into] = more[into]
  BY <1>3, <1>4, <1>6
<1>10. r.is = "dead" /\ IsDead(r) /\ r.lists = [mos[dead].lists EXCEPT ![k] = into]
  BY <1>9, DeadFields
<1> HIDE DEF r
<1>11. ASSUME NEW i \in DOMAIN r.lists
       PROVE  r.lists[i] \in DOMAIN mid /\ mid[r.lists[i]].is = "bpobj"
  <2>1. i \in DOMAIN mos[dead].lists
    BY <1>10
  <2>2. CASE i = k
    BY <1>3, <1>9, <1>10, <2>1, <2>2
  <2>3. CASE i # k
    <3>1. r.lists[i] = mos[dead].lists[i]
      BY <1>10, <2>1, <2>3
    <3>2. mos[dead].lists[i] \in DOMAIN mos /\ mos[mos[dead].lists[i]].is = "bpobj"
      BY <1>1, <2>1 DEF Objects
    <3> QED
      BY <1>2, <1>5, <3>1, <3>2 DEF KeepsSets
  <2> QED
    BY <2>2, <2>3
<1>12. dead \in DOMAIN mid /\ mid[dead].is = "dead" /\ dead # NoObject /\ dead # OriginSnap
  BY <1>1, <1>3, <1>9 DEF Objects
<1>13. Objects(Put(mid, dead, r)) /\ KeepsSets(mid, Put(mid, dead, r))
  <2>1. IsObject(mid, r)
    BY <1>10, <1>11 DEF IsObject
  <2>2. Objects(Put(mid, dead, r))
    BY <1>5, <1>10, <1>12, <2>1, PutIsObjects
  <2>3. KeepsSets(mid, Put(mid, dead, r))
    BY <1>10, <1>12, PutKeeps
  <2> QED
    BY <2>2, <2>3
<1>14. new = Put(mid, dead, r)
  BY <1>8, <1>12, ExceptIsPut
<1>15. KeepsSets(mos, new)
  BY <1>2, <1>5, <1>13, <1>14, KeepsOn
<1>16. KeepsUsers(live, live)
  BY DEF Sound, Users, KeepsUsers, IsUser
<1>17. Sound(new, live, t + 1)
  BY <1>13, <1>14, <1>15, <1>16, t + 1 \in Nat, t <= t + 1, QuietIsSound
<1> QED
  BY <1>17 DEF new, more

\* A snapshot is linked to another next one.
LEMMA RelinkedKeeps ==
  ASSUME NEW mos, Objects(mos), NEW was, NEW x, \A d \in Dirs(mos) : mos[d].head # was
  PROVE  LET new == [mos EXCEPT ![was].next = x] IN Objects(new) /\ KeepsSets(mos, new)
<1> DEFINE new == [mos EXCEPT ![was].next = x]
           r == [mos[was] EXCEPT !.next = x]
<1>1. Objects(mos) /\ KeepsSets(mos, mos)
  BY DEF KeepsSets, KeepsNext
<1>2. new = [o \in DOMAIN mos |-> IF o = was THEN r ELSE mos[o]]
  OBVIOUS
<1>3. mos = [o \in DOMAIN mos |-> mos[o]]
  BY <1>1 DEF Objects, IsFcn
<1>4. CASE was \in DOMAIN mos /\ mos[was].is = "set"
  <2>1. IsSet(mos[was])
    BY <1>1, <1>4 DEF Objects, IsDir, IsDead, IsBpobj
  <2>2. r = Set(mos[was].dir, mos[was].prev, x, mos[was].snaps, mos[was].guid, mos[was].txg, mos[was].shape, mos[was].dead)
    BY <2>1 DEF IsSet, Set
  <2> HIDE DEF r
  <2>3. /\ IsSet(r) /\ r.is = "set" /\ r.dir = mos[was].dir /\ r.snaps = mos[was].snaps
        /\ r.guid = mos[was].guid /\ r.txg = mos[was].txg /\ r.dead = mos[was].dead
    BY <2>1, <2>2, SetFields DEF IsSet
  <2>4. IsObject(mos, r) /\ was # NoObject /\ (was = OriginSnap => r.dir = OriginDir)
    BY <1>1, <1>4, <2>3 DEF IsObject, Objects
  <2>5. Objects(Put(mos, was, r))
    BY <1>1, <1>4, <2>3, <2>4, PutIsObjects
  <2>6. KeepsSets(mos, Put(mos, was, r))
    BY <1>4, <2>3, PutKeeps
  <2>7. new = Put(mos, was, r)
    BY <1>2, <1>4 DEF Put
  <2> QED
    BY <2>5, <2>6, <2>7
<1>5. CASE was \in DOMAIN mos /\ mos[was].is # "set"
  <2>1. IsDir(mos[was]) \/ IsDead(mos[was]) \/ IsBpobj(mos[was])
    BY <1>1, <1>5 DEF Objects, IsSet
  <2>2. r = mos[was]
    <3>1. CASE IsDir(mos[was])
      BY <3>1 DEF IsDir, Dir
    <3>2. CASE IsDead(mos[was])
      BY <3>2 DEF IsDead, Dead
    <3>3. CASE IsBpobj(mos[was])
      BY <3>3 DEF IsBpobj, Bpobj
    <3> QED
      BY <2>1, <3>1, <3>2, <3>3
  <2>3. new = mos
    BY <1>2, <1>3, <2>2
  <2> QED
    BY <1>1, <2>3
<1>6. CASE was \notin DOMAIN mos
  <2>1. new = mos
    BY <1>2, <1>3, <1>6
  <2> QED
    BY <1>1, <2>1
<1> QED
  BY <1>4, <1>5, <1>6

-----------------------------------------------------------------------------
(* A new snapshot                                                          *)

\* What zfs snapshot changes: two objects more, and the head.
LEMMA SnappedObjects ==
  ASSUME NEW mos, NEW d, mos[d].head \in DOMAIN mos, IsSet(HeadOf(mos, d)), NEW s, NEW a, NEW b, NEW was,
         NEW shape, NEW lists, NEW guid, NEW txg, a \notin DOMAIN mos, b \notin DOMAIN mos, a # b
  PROVE  IsSnapped(Snapped(mos, d, s, a, b, was, shape, lists, guid, txg),
                   mos, d, s, a, b, was, shape, lists, guid, txg)
<1> DEFINE o == mos[d].head
           h == HeadOf(mos, d)
           ra == Set(d, was, o, Nothing, guid, txg, shape, h.dead)
           rb == Dead(0, lists)
           f == Put(mos, a, ra)
           g == Put(f, b, rb)
           new == Snapped(mos, d, s, a, b, was, shape, lists, guid, txg)
           r == Set(h.dir, a, h.next, Put(h.snaps, s, a), h.guid, h.txg, h.shape, b)
<1>1. new = [g EXCEPT ![o].prev = a, ![o].dead = b, ![o].snaps = Put(@, s, a)]
  BY Zenon DEF Snapped
<1>2. mos[o] = h
  BY DEF HeadOf
<1> HIDE DEF ra, rb, new, o, h
<1>3. o \in DOMAIN mos /\ o # a /\ o # b
  BY DEF o
<1>4. IsPut(f, mos, a, ra) /\ IsPut(g, f, b, rb)
  BY PutChanges
<1> HIDE DEF f, g
<1>5. DOMAIN f = DOMAIN mos \cup {a} /\ f[a] = ra /\ \A z \in DOMAIN mos : f[z] = mos[z]
  BY <1>4 DEF IsPut
<1>6. DOMAIN g = DOMAIN f \cup {b} /\ g[b] = rb /\ \A z \in DOMAIN f : g[z] = f[z]
  BY <1>4, <1>5 DEF IsPut
<1>7. g[o] = h /\ o \in DOMAIN g
  BY <1>2, <1>3, <1>5, <1>6
<1>8. new = [g EXCEPT ![o] = [g[o] EXCEPT !.prev = a, !.dead = b, !.snaps = Put(g[o].snaps, s, a)]]
  BY <1>1, <1>7
<1>9. [h EXCEPT !.prev = a, !.dead = b, !.snaps = Put(h.snaps, s, a)] = r
  <2>1. h = Set(h.dir, h.prev, h.next, h.snaps, h.guid, h.txg, h.shape, h.dead)
    BY DEF IsSet, h
  <2> DEFINE k == Put(h.snaps, s, a)
             h1 == [h EXCEPT !.prev = a]
             h2 == [h1 EXCEPT !.dead = b]
             h3 == [h2 EXCEPT !.snaps = k]
  <2>2. [h EXCEPT !.prev = a, !.dead = b, !.snaps = k] = h3
    BY Zenon
  <2> HIDE DEF k
  <2>3. h1 = Set(h.dir, a, h.next, h.snaps, h.guid, h.txg, h.shape, h.dead)
    BY <2>1 DEF Set
  <2> HIDE DEF h1
  <2>4. h2 = Set(h.dir, a, h.next, h.snaps, h.guid, h.txg, h.shape, b)
    BY <2>3 DEF Set
  <2> HIDE DEF h2
  <2>5. h3 = Set(h.dir, a, h.next, k, h.guid, h.txg, h.shape, b)
    BY <2>4 DEF Set
  <2> QED
    BY <2>2, <2>5 DEF k
<1> HIDE DEF r
<1>10. new = [g EXCEPT ![o] = r]
  BY <1>7, <1>8, <1>9
<1>11. DOMAIN new = DOMAIN mos \cup {a, b} /\ IsFcn(new)
  BY <1>5, <1>6, <1>10 DEF IsFcn
<1>12. new[a] = ra /\ new[b] = rb /\ new[o] = r
  BY <1>3, <1>5, <1>6, <1>10
<1>13. \A z \in DOMAIN mos : z # o => new[z] = mos[z]
  BY <1>5, <1>6, <1>10
<1> QED
  BY <1>11, <1>12, <1>13 DEF IsSnapped, new, r, ra, rb, o, h

\* A snapshot more leaves the pool sound.
LEMMA SnappedIsSound ==
  ASSUME NEW t \in Nat, NEW mos, NEW live, Sound(mos, live, t), NEW d \in Dirs(mos), NEW s,
         s \notin SnapsOf(mos, d), NEW a, NEW b, NEW was, NEW shape, NEW lists,
         a \notin DOMAIN mos, b \notin DOMAIN mos, a # b, NoObject \notin {a, b},
         \A k \in DOMAIN lists : lists[k] = EmptyList
  PROVE  Sound(Snapped(mos, d, s, a, b, was, shape, lists, 105 + (t + 1), t + 1),
               Put(live, 105 + (t + 1), [live[HeadOf(mos, d).guid] EXCEPT !.snap = {s}]), t + 1)
<1> DEFINE g == 105 + (t + 1)
           o == mos[d].head
           h == HeadOf(mos, d)
           e == [live[h.guid] EXCEPT !.snap = {s}]
           new == Snapped(mos, d, s, a, b, was, shape, lists, g, t + 1)
           now == Put(live, g, e)
<1>1. /\ Objects(mos) /\ HeadsKnown(mos, live) /\ SnapsKnown(mos, live) /\ Tree(mos, live)
      /\ Origins(mos) /\ Deads(mos) /\ Users(mos, live, t)
  BY DEF Sound
<1>2. /\ o \in DOMAIN mos /\ mos[o] = h /\ h.is = "set" /\ h.dir = d /\ h.next = NoObject /\ IsSet(h)
      /\ h.guid \in DOMAIN live /\ live[h.guid].snap = NoSnap
  <2>1. o \in DOMAIN mos /\ mos[o] = h /\ h.is = "set" /\ h.dir = d /\ h.next = NoObject
        /\ h.guid \in DOMAIN live /\ live[h.guid].snap = NoSnap
    BY <1>1 DEF HeadsKnown, IsSetOf, HeadOf
  <2> HIDE DEF h, o
  <2>2. IsSet(h)
    BY <1>1, <2>1 DEF Objects, IsDir, IsDead, IsBpobj
  <2> QED
    BY <2>1, <2>2
<1>3. /\ DOMAIN new = DOMAIN mos \cup {a, b} /\ IsFcn(new)
      /\ new[a] = Set(d, was, o, Nothing, g, t + 1, shape, h.dead)
      /\ new[b] = Dead(0, lists)
      /\ new[o] = Set(h.dir, a, h.next, Put(h.snaps, s, a), h.guid, h.txg, h.shape, b)
      /\ \A z \in DOMAIN mos : z # o => new[z] = mos[z]
  <2>1. IsSnapped(new, mos, d, s, a, b, was, shape, lists, g, t + 1)
    BY <1>2, SnappedObjects
  <2> HIDE DEF new, g
  <2> QED
    BY <2>1 DEF IsSnapped
<1>4. g \notin DOMAIN live /\ g \in Nat /\ g <= 105 + (t + 1)
  BY <1>1 DEF Users
<1>5. IsPut(now, live, g, e) /\ IsPut(Put(h.snaps, s, a), h.snaps, s, a)
  BY PutChanges
<1>6. DOMAIN now = DOMAIN live \cup {g} /\ now[g] = e /\ IsFcn(now) /\ \A x \in DOMAIN live : now[x] = live[x]
  <2> HIDE DEF now, e
  <2> QED
    BY <1>4, <1>5 DEF IsPut
<1>7. IsUser(e) /\ e.path = live[h.guid].path /\ e.snap = {s}
  <2> DEFINE u == live[h.guid]
  <2>1. u = [path |-> u.path, snap |-> u.snap, kind |-> u.kind, size |-> u.size, clone |-> u.clone, locked |-> u.locked]
    BY <1>1, <1>2 DEF Users
  <2> HIDE DEF u, h
  <2>2. [u EXCEPT !.snap = {s}] =
          [path |-> u.path, snap |-> {s}, kind |-> u.kind, size |-> u.size, clone |-> u.clone, locked |-> u.locked]
    BY <2>1
  <2>3. e = [path |-> u.path, snap |-> {s}, kind |-> u.kind, size |-> u.size, clone |-> u.clone, locked |-> u.locked]
    BY <2>2 DEF u
  <2> HIDE DEF e
  <2> QED
    BY <2>3 DEF IsUser, u
<1> DEFINE k == Put(h.snaps, s, a)
<1>8. /\ IsSet(new[a]) /\ new[a].is = "set" /\ new[a].dir = d /\ new[a].guid = g /\ new[a].txg = t + 1
      /\ new[a].dead = h.dead
      /\ IsDead(new[b]) /\ new[b].is = "dead" /\ new[b].lists = lists
  BY <1>3, NothingIsEmpty, SetFields, DeadFields
<1>9. /\ IsSet(new[o]) /\ new[o].is = "set" /\ new[o].dir = d /\ new[o].next = NoObject /\ new[o].guid = h.guid
      /\ new[o].txg = h.txg /\ new[o].dead = b /\ new[o].snaps = k
  <2>1. IsFcn(k)
    BY <1>5 DEF IsPut
  <2> HIDE DEF k
  <2> QED
    BY <1>2, <1>3, <2>1, SetFields DEF k
<1>10. DOMAIN k = DOMAIN h.snaps \cup {s} /\ k[s] = a /\ \A u \in DOMAIN h.snaps : u # s => k[u] = h.snaps[u]
  BY <1>5 DEF IsPut
<1>11. s \notin DOMAIN h.snaps
  BY DEF SnapsOf
<1> HIDE DEF new, now, g, e, h, o, k
<1>12. \A z \in DOMAIN mos : new[z].is = mos[z].is /\ (z # o => new[z] = mos[z])
  BY <1>2, <1>3, <1>9
<1>13. Dirs(new) = Dirs(mos) /\ \A x \in Dirs(mos) : x \in DOMAIN mos /\ new[x] = mos[x]
  <2>1. \A x \in Dirs(mos) : x \in DOMAIN mos /\ x # o
    BY <1>2 DEF Dirs
  <2> QED
    BY <1>3, <1>8, <1>12, <2>1 DEF Dirs
<1>14. ASSUME NEW x \in Dirs(mos)
       PROVE  /\ IsSetOf(new, x, new[x].head) /\ HeadOf(new, x).next = NoObject
              /\ HeadOf(new, x).guid = HeadOf(mos, x).guid
              /\ x # d => mos[x].head # o /\ HeadOf(new, x) = HeadOf(mos, x)
  <2>1. IsSetOf(mos, x, mos[x].head) /\ HeadOf(mos, x).next = NoObject
    BY <1>1 DEF HeadsKnown
  <2>2. CASE x = d
    BY <1>2, <1>3, <1>9, <1>13, <2>2 DEF IsSetOf, HeadOf, o
  <2>3. CASE x # d
    <3>1. mos[x].head # o /\ mos[x].head \in DOMAIN mos /\ new[x] = mos[x]
      BY <1>2, <1>13, <2>1, <2>3 DEF IsSetOf
    <3> QED
      BY <1>3, <2>1, <3>1 DEF IsSetOf, HeadOf
  <2> QED
    BY <2>2, <2>3
<1>15. HeadOf(new, d) = new[o] /\ SnapsOf(new, d) = SnapsOf(mos, d) \cup {s} /\ Snap(new, d, s) = a
  BY <1>9, <1>10, <1>13 DEF HeadOf, SnapsOf, Snap, o, h
<1>16. ASSUME NEW x \in Dirs(mos), NEW u \in SnapsOf(mos, x)
       PROVE  /\ u \in SnapsOf(new, x) /\ Snap(new, x, u) = Snap(mos, x, u)
              /\ IsSetOf(mos, x, Snap(mos, x, u)) /\ Snap(mos, x, u) # o
              /\ new[Snap(mos, x, u)] = mos[Snap(mos, x, u)]
  <2>1. IsSetOf(mos, x, Snap(mos, x, u))
    BY <1>1 DEF SnapsKnown
  <2>2. mos[Snap(mos, x, u)].guid # h.guid
    BY GuidsTell DEF h
  <2>3. Snap(mos, x, u) # o
    BY <1>2, <2>2
  <2>4. u \in SnapsOf(new, x) /\ Snap(new, x, u) = Snap(mos, x, u)
    <3>1. CASE x = d
      BY <1>9, <1>10, <1>11, <1>15, <3>1 DEF SnapsOf, Snap, h
    <3>2. CASE x # d
      BY <1>14, <3>2 DEF SnapsOf, Snap
    <3> QED
      BY <3>1, <3>2
  <2> QED
    BY <1>12, <2>1, <2>3, <2>4 DEF IsSetOf
<1>17. ASSUME NEW x \in Dirs(mos), NEW u \in SnapsOf(new, x)
       PROVE  (x = d /\ u = s) \/ u \in SnapsOf(mos, x)
  <2>1. CASE x = d
    BY <1>15, <1>17, <2>1
  <2>2. CASE x # d
    BY <1>14, <1>17, <2>2 DEF SnapsOf
  <2> QED
    BY <2>1, <2>2
<1>18. SameDirs(mos, new)
  BY <1>13, <1>14 DEF SameDirs
<1>19. SamePaths(mos, live, now)
  BY <1>1, <1>6 DEF SamePaths, HeadsKnown
<1>20. HeadsKnown(new, now) /\ Tree(new, now) /\ \A x \in Dirs(mos) : PathIn(new, now, x) = PathIn(mos, live, x)
  BY <1>18, <1>19, TreeStays
<1>21. Objects(new)
  <2>1. IsFiniteSet(DOMAIN new)
    <3>1. DOMAIN new = (DOMAIN mos \cup {a}) \cup {b} /\ IsFiniteSet(DOMAIN mos)
      BY <1>1, <1>3 DEF Objects
    <3> DEFINE one == DOMAIN mos \cup {a}
    <3>2. IsFiniteSet(one)
      BY <3>1, FS_AddElement
    <3>3. DOMAIN new = one \cup {b}
      BY <3>1
    <3> HIDE DEF one, new
    <3> QED
      BY <3>2, <3>3, FS_AddElement
  <2>2. NoObject \notin DOMAIN new /\ Kept \subseteq DOMAIN new
    BY <1>1, <1>3 DEF Objects
  <2>3. ASSUME NEW z \in DOMAIN new
        PROVE  IsDir(new[z]) \/ IsSet(new[z]) \/ IsDead(new[z]) \/ IsBpobj(new[z])
    BY <1>1, <1>3, <1>8, <1>9 DEF Objects
  <2>4. /\ new[OriginDir].is = "dir" /\ new[OriginSnap].is = "set"
        /\ new[FreeList].is = "bpobj" /\ new[EmptyList].is = "bpobj"
    BY <1>1, <1>12 DEF Objects, Kept
  <2>5. new[OriginSnap].dir = OriginDir
    <3>1. OriginSnap # o
      BY <1>1, <1>2 DEF Objects, Dirs
    <3> QED
      BY <1>1, <1>12, <3>1 DEF Objects, Kept
  <2>6. ASSUME NEW z \in DOMAIN new, new[z].is = "dead", NEW i \in DOMAIN new[z].lists
        PROVE  new[z].lists[i] \in DOMAIN new /\ new[new[z].lists[i]].is = "bpobj"
    <3>1. CASE z = b
      BY <1>8, <2>2, <2>4, <2>6, <3>1 DEF Kept
    <3>2. CASE z # b
      <4>1. z \in DOMAIN mos /\ new[z] = mos[z]
        BY <1>3, <1>8, <1>9, <1>12, <2>6, <3>2
      <4>2. mos[z].lists[i] \in DOMAIN mos /\ mos[mos[z].lists[i]].is = "bpobj"
        BY <1>1, <2>6, <4>1 DEF Objects
      <4> QED
        BY <1>3, <1>12, <4>1, <4>2
    <3> QED
      BY <3>1, <3>2
  <2> QED
    BY <1>3, <2>1, <2>2, <2>3, <2>4, <2>5, <2>6 DEF Objects
<1>22. SnapsKnown(new, now)
  <2> SUFFICES ASSUME NEW x \in Dirs(mos), NEW u \in SnapsOf(new, x)
               PROVE  /\ IsSetOf(new, x, Snap(new, x, u)) /\ new[Snap(new, x, u)].guid \in DOMAIN now
                      /\ now[new[Snap(new, x, u)].guid].snap = {u}
                      /\ now[new[Snap(new, x, u)].guid].path = PathIn(new, now, x)
    BY <1>13 DEF SnapsKnown
  <2>1. CASE x = d /\ u = s
    <3>1. PathIn(new, now, d) = e.path
      BY <1>7, <1>20 DEF PathIn, h
    <3> QED
      BY <1>3, <1>6, <1>7, <1>8, <1>15, <2>1, <3>1 DEF IsSetOf
  <2>2. CASE u \in SnapsOf(mos, x)
    <3>1. /\ mos[Snap(mos, x, u)].guid \in DOMAIN live
          /\ live[mos[Snap(mos, x, u)].guid].snap = {u}
          /\ live[mos[Snap(mos, x, u)].guid].path = PathIn(mos, live, x)
      BY <1>1, <2>2 DEF SnapsKnown
    <3>2. /\ Snap(new, x, u) = Snap(mos, x, u) /\ IsSetOf(mos, x, Snap(mos, x, u))
          /\ new[Snap(mos, x, u)] = mos[Snap(mos, x, u)]
      BY <1>16, <2>2
    <3> QED
      BY <1>3, <1>6, <1>20, <3>1, <3>2 DEF IsSetOf
  <2> QED
    BY <1>17, <2>1, <2>2
<1>23. Origins(new)
  <2> SUFFICES ASSUME NEW x \in Dirs(mos), mos[x].origin \notin {NoObject, OriginSnap}
               PROVE  /\ \E p \in Dirs(mos) : \E u \in SnapsOf(new, p) : mos[x].origin = Snap(new, p, u)
                      /\ \A u \in SnapsOf(new, x) : new[Snap(new, x, u)].txg > new[mos[x].origin].txg
    BY <1>13 DEF Origins
  <2>1. PICK p \in Dirs(mos) : \E u \in SnapsOf(mos, p) : mos[x].origin = Snap(mos, p, u)
    BY <1>1 DEF Origins
  <2>2. PICK u \in SnapsOf(mos, p) : mos[x].origin = Snap(mos, p, u)
    BY <2>1
  <2>3. new[mos[x].origin] = mos[mos[x].origin] /\ IsSetOf(mos, p, mos[x].origin)
    BY <1>16, <2>2
  <2>4. mos[mos[x].origin].txg \in Nat /\ mos[mos[x].origin].txg <= t
    BY <1>1, <2>3 DEF Users, IsSetOf
  <2>5. ASSUME NEW v \in SnapsOf(new, x)
        PROVE  new[Snap(new, x, v)].txg > mos[mos[x].origin].txg
    <3>1. CASE x = d /\ v = s
      BY <1>8, <1>15, <2>4, <3>1
    <3>2. CASE v \in SnapsOf(mos, x)
      <4>1. mos[Snap(mos, x, v)].txg > mos[mos[x].origin].txg
        BY <1>1, <3>2 DEF Origins
      <4> QED
        BY <1>16, <3>2, <4>1
    <3> QED
      BY <1>17, <3>1, <3>2
  <2> QED
    BY <1>16, <2>2, <2>3, <2>5
<1>24. Deads(new)
  <2>1. ASSUME NEW x, IsKnown(new, x)
        PROVE  x = o \/ x = a \/ (IsKnown(mos, x) /\ x # o /\ new[x] = mos[x])
    <3>1. PICK p \in Dirs(mos) : x = new[p].head \/ \E u \in SnapsOf(new, p) : x = Snap(new, p, u)
      BY <1>13, <2>1 DEF IsKnown
    <3>2. CASE x = new[p].head
      <4>1. x = mos[p].head /\ (p = d => x = o)
        BY <1>13, <3>2 DEF o
      <4>2. p # d => x # o /\ new[x] = mos[x]
        BY <1>13, <1>14, <4>1 DEF HeadOf
      <4> QED
        BY <4>1, <4>2 DEF IsKnown
    <3>3. CASE \E u \in SnapsOf(new, p) : x = Snap(new, p, u)
      <4>1. PICK u \in SnapsOf(new, p) : x = Snap(new, p, u)
        BY <3>3
      <4>2. CASE p = d /\ u = s
        BY <1>15, <4>1, <4>2
      <4>3. CASE u \in SnapsOf(mos, p)
        BY <1>16, <4>1, <4>3 DEF IsKnown
      <4> QED
        BY <1>17, <4>2, <4>3
    <3> QED
      BY <3>1, <3>2, <3>3
  <2>2. IsKnown(mos, o)
    BY DEF IsKnown, o
  <2>3. \A x : IsKnown(mos, x) => mos[x].dead \in DOMAIN mos /\ mos[mos[x].dead].is = "dead"
    BY <1>1 DEF Deads
  <2>4. \A x, y : IsKnown(mos, x) /\ IsKnown(mos, y) /\ mos[x].dead = mos[y].dead => x = y
    BY <1>1 DEF Deads
  <2>5. h.dead \in DOMAIN mos /\ mos[h.dead].is = "dead" /\ h.dead # b
    BY <1>2, <2>2, <2>3
  <2>6. ASSUME NEW x, IsKnown(new, x)
        PROVE  new[x].dead \in DOMAIN new /\ new[new[x].dead].is = "dead"
    <3>1. CASE x = o
      BY <1>3, <1>8, <1>9, <3>1
    <3>2. CASE x = a
      BY <1>3, <1>8, <1>12, <2>5, <3>2
    <3>3. CASE IsKnown(mos, x) /\ new[x] = mos[x]
      BY <1>3, <1>12, <2>3, <3>3
    <3> QED
      BY <2>1, <2>6, <3>1, <3>2, <3>3
  <2>7. \A x : IsKnown(mos, x) => mos[x].dead # b
    BY <2>3
  <2>8. \A x : IsKnown(mos, x) /\ x # o => mos[x].dead # h.dead
    BY <1>2, <2>2, <2>4
  <2>9. ASSUME NEW x, NEW y, IsKnown(new, x), IsKnown(new, y), new[x].dead = new[y].dead
        PROVE  x = y
    <3>1. CASE x = o
      BY <1>8, <1>9, <2>1, <2>5, <2>7, <2>9, <3>1
    <3>2. CASE x = a
      BY <1>8, <1>9, <2>1, <2>5, <2>8, <2>9, <3>2
    <3>3. CASE IsKnown(mos, x) /\ x # o /\ new[x] = mos[x]
      BY <1>8, <1>9, <2>1, <2>4, <2>7, <2>8, <2>9, <3>3
    <3> QED
      BY <2>1, <2>9, <3>1, <3>2, <3>3
  <2> QED
    BY <2>6, <2>9 DEF Deads
<1>25. Users(new, now, t + 1)
  <2>1. ASSUME NEW x \in DOMAIN now
        PROVE  /\ x \in Nat /\ x <= 105 + (t + 1) /\ now[x].path \in Seq(AllowedNames)
               /\ IsUser(now[x]) /\ (now[x].snap = NoSnap => \E p \in Dirs(new) : HeadOf(new, p).guid = x)
    <3>1. CASE x = g
      <4>1. e.path \in Seq(AllowedNames) /\ e.snap # NoSnap
        BY <1>1, <1>2, <1>7 DEF Users, NoSnap
      <4> QED
        BY <1>4, <1>6, <1>7, <3>1, <4>1
    <3>2. CASE x # g
      <4>1. x \in DOMAIN live /\ now[x] = live[x]
        BY <1>6, <3>2
      <4>2. x \in Nat /\ x <= 105 + t /\ live[x].path \in Seq(AllowedNames) /\ IsUser(live[x])
            /\ (live[x].snap = NoSnap => \E p \in Dirs(mos) : HeadOf(mos, p).guid = x)
        BY <1>1, <4>1 DEF Users, IsUser
      <4>3. x <= 105 + (t + 1)
        BY <4>2
      <4> QED
        BY <1>13, <1>14, <4>1, <4>2, <4>3
    <3> QED
      BY <3>1, <3>2
  <2>2. ASSUME NEW z \in DOMAIN new, new[z].is = "set"
        PROVE  new[z].txg \in Nat /\ new[z].txg <= t + 1
    <3>1. CASE z = a
      BY <1>8, <3>1
    <3>2. CASE z # a
      <4>1. z \in DOMAIN mos /\ mos[z].is = "set" /\ new[z].txg = mos[z].txg
        BY <1>2, <1>3, <1>8, <1>9, <1>12, <2>2, <3>2
      <4>2. mos[z].txg \in Nat /\ mos[z].txg <= t
        BY <1>1, <4>1 DEF Users
      <4> QED
        BY <4>1, <4>2
    <3> QED
      BY <3>1, <3>2
  <2> QED
    BY <1>6, <2>1, <2>2 DEF Users, IsUser
<1>26. Sound(new, now, t + 1)
  BY <1>20, <1>21, <1>22, <1>23, <1>24, <1>25 DEF Sound
<1> QED
  BY <1>26 DEF new, now, g, e, h

-----------------------------------------------------------------------------
(* A dataset that is no more                                               *)

\* What zfs destroy changes: three objects fewer, and the parent's children.
LEMMA DestroyedObjects ==
  ASSUME NEW mos, NEW d \in DOMAIN mos, IsDir(mos[d]), NEW n, NEW o, NEW h, NEW dead, d \notin {o, h, dead}
  PROVE  IsDestroyed(Destroyed(mos, d, n, o, h, dead), mos, d, n, o, h, dead)
<1> DEFINE f == Without(mos, {o, h, dead})
           new == Destroyed(mos, d, n, o, h, dead)
           r == Dir(mos[d].head, mos[d].origin, Without(mos[d].kids, {n}), mos[d].root)
<1>1. new = [f EXCEPT ![d] = [f[d] EXCEPT !.kids = Without(f[d].kids, {n})]]
  BY Zenon DEF Destroyed
<1>2. IsWithout(f, mos, {o, h, dead})
  BY WithoutChanges
<1> HIDE DEF new, f
<1>3. DOMAIN f = DOMAIN mos \ {o, h, dead} /\ IsFcn(f) /\ \A z \in DOMAIN mos \ {o, h, dead} : f[z] = mos[z]
  BY <1>2 DEF IsWithout
<1>4. f[d] = mos[d]
  BY <1>3
<1>5. [mos[d] EXCEPT !.kids = Without(mos[d].kids, {n})] = r
  <2> DEFINE k == Without(mos[d].kids, {n})
  <2>1. mos[d] = Dir(mos[d].head, mos[d].origin, mos[d].kids, mos[d].root)
    BY DEF IsDir
  <2> HIDE DEF k
  <2>2. [mos[d] EXCEPT !.kids = k] = Dir(mos[d].head, mos[d].origin, k, mos[d].root)
    BY <2>1 DEF Dir
  <2> QED
    BY <2>2 DEF k
<1> HIDE DEF r
<1>6. new = [f EXCEPT ![d] = r]
  BY <1>1, <1>4, <1>5
<1>7. DOMAIN new = DOMAIN mos \ {o, h, dead} /\ IsFcn(new) /\ new[d] = r
  BY <1>3, <1>6 DEF IsFcn
<1>8. \A z \in DOMAIN mos \ {o, h, dead, d} : new[z] = mos[z]
  BY <1>3, <1>6
<1> QED
  BY <1>7, <1>8 DEF IsDestroyed, new, r

\* A directory is named once.
LEMMA KidsTell ==
  ASSUME NEW mos, NEW live, NEW t, Sound(mos, live, t), NEW p \in Dirs(mos), NEW q \in Dirs(mos),
         NEW k \in Kids(mos, p), NEW n \in Kids(mos, q), Kid(mos, p, k) = Kid(mos, q, n)
  PROVE  p = q /\ k = n
<1>1. /\ k \in AllowedNames /\ n \in AllowedNames
      /\ Append(PathIn(mos, live, p), k) = Append(PathIn(mos, live, q), n)
  BY DEF Sound, Tree
<1>2. PathIn(mos, live, p) \in Seq(AllowedNames) /\ PathIn(mos, live, q) \in Seq(AllowedNames)
  BY PathTypes
<1>3. PathIn(mos, live, p) = PathIn(mos, live, q) /\ k = n
  BY <1>1, <1>2, AppendTells
<1> QED
  BY <1>3, PathsTellDirs

\* A dataset fewer, one without snapshots and children, leaves the pool
\* sound.
LEMMA DestroyedIsSound ==
  ASSUME NEW t \in Nat, NEW mos, NEW live, Sound(mos, live, t), NEW d \in Dirs(mos), NEW n \in Kids(mos, d),
         NEW o, NEW h, NEW dead, o = Kid(mos, d, n), h = mos[o].head, dead = mos[h].dead,
         mos[o].kids = Nothing, mos[h].snaps = Nothing
  PROVE  Sound(Destroyed(mos, d, n, o, h, dead), Without(live, {mos[h].guid}), t + 1)
<1> DEFINE new == Destroyed(mos, d, n, o, h, dead)
           now == Without(live, {mos[h].guid})
           k == Without(mos[d].kids, {n})
<1>1. /\ Objects(mos) /\ HeadsKnown(mos, live) /\ SnapsKnown(mos, live) /\ Tree(mos, live)
      /\ Origins(mos) /\ Deads(mos) /\ Users(mos, live, t)
  BY DEF Sound
<1>2. o \in Dirs(mos) /\ o # Root /\ o # d
  <2>1. o \in Dirs(mos) /\ o # Root
    BY <1>1 DEF Tree
  <2>2. o # d
    BY NothingIsEmpty DEF Kids
  <2> QED
    BY <2>1, <2>2
<1>3. /\ o \in DOMAIN mos /\ mos[o].is = "dir" /\ h \in DOMAIN mos /\ mos[h].is = "set" /\ mos[h].dir = o
      /\ dead \in DOMAIN mos /\ mos[dead].is = "dead" /\ IsKnown(mos, h)
  <2>1. o \in DOMAIN mos /\ mos[o].is = "dir" /\ h \in DOMAIN mos /\ mos[h].is = "set" /\ mos[h].dir = o
    BY <1>1, <1>2 DEF HeadsKnown, IsSetOf, Dirs
  <2>2. IsKnown(mos, h)
    BY <1>2 DEF IsKnown
  <2> QED
    BY <1>1, <2>1, <2>2 DEF Deads
<1>4. d \in DOMAIN mos /\ mos[d].is = "dir" /\ IsDir(mos[d]) /\ d \notin {o, h, dead}
  <2>1. d \in DOMAIN mos /\ mos[d].is = "dir"
    BY DEF Dirs
  <2>2. IsDir(mos[d])
    BY <1>1, <2>1 DEF Objects, IsSet, IsDead, IsBpobj
  <2> QED
    BY <1>2, <1>3, <2>1, <2>2
<1>5. /\ DOMAIN new = DOMAIN mos \ {o, h, dead} /\ IsFcn(new)
      /\ new[d] = Dir(mos[d].head, mos[d].origin, k, mos[d].root)
      /\ \A z \in DOMAIN mos \ {o, h, dead, d} : new[z] = mos[z]
  <2>1. IsDestroyed(new, mos, d, n, o, h, dead)
    BY <1>4, DestroyedObjects
  <2> HIDE DEF new
  <2> QED
    BY <2>1 DEF IsDestroyed
<1>6. IsWithout(now, live, {mos[h].guid}) /\ IsWithout(k, mos[d].kids, {n})
  BY WithoutChanges
<1> HIDE DEF new, now, k
<1>7. /\ DOMAIN now = DOMAIN live \ {mos[h].guid} /\ IsFcn(now) /\ \A g \in DOMAIN now : now[g] = live[g]
      /\ DOMAIN k = DOMAIN mos[d].kids \ {n} /\ IsFcn(k) /\ \A m \in DOMAIN k : k[m] = mos[d].kids[m]
  BY <1>6 DEF IsWithout
<1>8. /\ IsDir(new[d]) /\ new[d].is = "dir" /\ new[d].head = mos[d].head /\ new[d].origin = mos[d].origin
      /\ new[d].kids = k
  BY <1>5, <1>7, DirFields
<1>9. \A z \in DOMAIN new : z \in DOMAIN mos /\ new[z].is = mos[z].is /\ (z # d => new[z] = mos[z])
  BY <1>4, <1>5, <1>8
<1>10. Dirs(new) = Dirs(mos) \ {o}
  BY <1>3, <1>5, <1>9 DEF Dirs
<1>11. ASSUME NEW x \in Dirs(mos), x # o
       PROVE  /\ new[x].head = mos[x].head /\ new[x].origin = mos[x].origin
              /\ IsSetOf(new, x, mos[x].head) /\ new[mos[x].head] = mos[mos[x].head] /\ mos[x].head # h
              /\ HeadOf(new, x) = HeadOf(mos, x) /\ HeadOf(mos, x).guid \in DOMAIN now
              /\ PathIn(new, now, x) = PathIn(mos, live, x)
  <2>1. x \in DOMAIN new
    BY <1>10, <1>11 DEF Dirs
  <2>2. new[x].head = mos[x].head /\ new[x].origin = mos[x].origin
    BY <1>8, <1>9, <2>1
  <2>3. IsSetOf(mos, x, mos[x].head)
    BY <1>1 DEF HeadsKnown
  <2>4. mos[x].head \notin {o, h, dead, d}
    BY <1>3, <1>4, <1>11, <2>3 DEF IsSetOf
  <2>5. mos[x].head \in DOMAIN new /\ new[mos[x].head] = mos[mos[x].head]
    BY <1>5, <2>3, <2>4 DEF IsSetOf
  <2>6. HeadOf(mos, x).guid \in DOMAIN now
    <3>1. HeadOf(mos, x).guid # HeadOf(mos, o).guid
      BY <1>2, <1>11, GuidsTell
    <3> QED
      BY <1>1, <1>7, <3>1 DEF HeadsKnown, HeadOf
  <2> QED
    BY <1>7, <2>2, <2>3, <2>4, <2>5, <2>6 DEF IsSetOf, HeadOf, PathIn
<1>12. ASSUME NEW x \in Dirs(mos), NEW s \in SnapsOf(mos, x)
       PROVE  /\ x # o /\ s \in SnapsOf(new, x) /\ Snap(new, x, s) = Snap(mos, x, s)
              /\ IsSetOf(new, x, Snap(mos, x, s)) /\ new[Snap(mos, x, s)] = mos[Snap(mos, x, s)]
              /\ Snap(mos, x, s) # h /\ mos[Snap(mos, x, s)].guid \in DOMAIN now
  <2>1. x # o
    BY NothingIsEmpty DEF SnapsOf, HeadOf
  <2>2. s \in SnapsOf(new, x) /\ Snap(new, x, s) = Snap(mos, x, s)
    BY <1>11, <2>1 DEF SnapsOf, Snap
  <2>3. IsSetOf(mos, x, Snap(mos, x, s))
    BY <1>1 DEF SnapsKnown
  <2>4. Snap(mos, x, s) \notin {o, h, dead, d}
    BY <1>3, <1>4, <2>1, <2>3 DEF IsSetOf
  <2>5. Snap(mos, x, s) \in DOMAIN new /\ new[Snap(mos, x, s)] = mos[Snap(mos, x, s)]
    BY <1>5, <2>3, <2>4 DEF IsSetOf
  <2>6. mos[Snap(mos, x, s)].guid \in DOMAIN now
    <3>1. mos[Snap(mos, x, s)].guid # HeadOf(mos, o).guid
      BY <1>2, GuidsTell
    <3> QED
      BY <1>1, <1>7, <3>1 DEF SnapsKnown, HeadOf
  <2> QED
    BY <2>1, <2>2, <2>3, <2>4, <2>5, <2>6 DEF IsSetOf
<1>13. ASSUME NEW x \in Dirs(new), NEW s \in SnapsOf(new, x)
       PROVE  x \in Dirs(mos) /\ x # o /\ s \in SnapsOf(mos, x)
  BY <1>10, <1>11, <1>13 DEF SnapsOf
<1>14. Objects(new)
  <2>1. IsFiniteSet(DOMAIN new)
    BY <1>1, <1>5, FS_Subset DEF Objects
  <2>2. NoObject \notin DOMAIN new /\ Kept \subseteq DOMAIN new
    <3>1. OriginDir \notin {o, h, dead}
      BY <1>1, <1>2, <1>3 DEF Dirs, Objects
    <3>2. OriginSnap \notin {o, h, dead}
      BY <1>1, <1>2, <1>3 DEF Dirs, Objects
    <3>3. FreeList \notin {o, h, dead} /\ EmptyList \notin {o, h, dead}
      BY <1>1, <1>3 DEF Objects
    <3> QED
      BY <1>1, <1>5, <3>1, <3>2, <3>3 DEF Objects, Kept
  <2>3. \A z \in DOMAIN new : IsDir(new[z]) \/ IsSet(new[z]) \/ IsDead(new[z]) \/ IsBpobj(new[z])
    BY <1>1, <1>8, <1>9 DEF Objects
  <2>4. /\ new[OriginDir].is = "dir" /\ new[OriginSnap].is = "set" /\ new[OriginSnap].dir = OriginDir
        /\ new[FreeList].is = "bpobj" /\ new[EmptyList].is = "bpobj"
    BY <1>1, <1>4, <1>9, <2>2 DEF Objects, Kept
  <2>5. ASSUME NEW z \in DOMAIN new, new[z].is = "dead", NEW i \in DOMAIN new[z].lists
        PROVE  new[z].lists[i] \in DOMAIN new /\ new[new[z].lists[i]].is = "bpobj"
    <3>1. z \in DOMAIN mos /\ mos[z].is = "dead" /\ new[z] = mos[z]
      BY <1>4, <1>9, <2>5
    <3>2. mos[z].lists[i] \in DOMAIN mos /\ mos[mos[z].lists[i]].is = "bpobj"
      BY <1>1, <2>5, <3>1 DEF Objects
    <3>3. mos[z].lists[i] \in DOMAIN new
      BY <1>3, <1>5, <3>2
    <3> QED
      BY <1>9, <3>1, <3>2, <3>3
  <2> QED
    BY <1>5, <2>1, <2>2, <2>3, <2>4, <2>5, Zenon DEF Objects
<1>15. HeadsKnown(new, now)
  <2>1. \A x \in Dirs(mos) : HeadOf(mos, x).next = NoObject /\ live[HeadOf(mos, x).guid].snap = NoSnap
    BY <1>1 DEF HeadsKnown
  <2> QED
    BY <1>7, <1>10, <1>11, <2>1 DEF HeadsKnown
<1>16. SnapsKnown(new, now)
  <2> SUFFICES ASSUME NEW x \in Dirs(new), NEW s \in SnapsOf(new, x)
               PROVE  /\ IsSetOf(new, x, Snap(new, x, s)) /\ new[Snap(new, x, s)].guid \in DOMAIN now
                      /\ now[new[Snap(new, x, s)].guid].snap = {s}
                      /\ now[new[Snap(new, x, s)].guid].path = PathIn(new, now, x)
    BY DEF SnapsKnown
  <2>1. x \in Dirs(mos) /\ x # o /\ s \in SnapsOf(mos, x)
    BY <1>13
  <2>2. /\ live[mos[Snap(mos, x, s)].guid].snap = {s}
        /\ live[mos[Snap(mos, x, s)].guid].path = PathIn(mos, live, x)
    BY <1>1, <2>1 DEF SnapsKnown
  <2> QED
    BY <1>7, <1>11, <1>12, <2>1, <2>2, SMTT(30)
<1>17. Tree(new, now)
  <2>1. Root \in Dirs(new) /\ PathIn(new, now, Root) = <<>>
    BY <1>1, <1>2, <1>10, <1>11 DEF Tree
  <2>2. \A x \in Dirs(new) : x # d => Kids(new, x) = Kids(mos, x) /\ \A m : Kid(new, x, m) = Kid(mos, x, m)
    BY <1>9, <1>10 DEF Kids, Kid, Dirs
  <2>3. Kids(new, d) = Kids(mos, d) \ {n} /\ \A m \in Kids(mos, d) \ {n} : Kid(new, d, m) = Kid(mos, d, m)
    BY <1>7, <1>8, Zenon DEF Kids, Kid
  <2>4. Kids(mos, o) = {}
    BY NothingIsEmpty DEF Kids
  <2>5. ASSUME NEW x \in Dirs(new), NEW m \in Kids(new, x)
        PROVE  /\ m \in AllowedNames /\ Kid(new, x, m) \in Dirs(new) \ {Root}
               /\ PathIn(new, now, Kid(new, x, m)) = Append(PathIn(new, now, x), m)
    <3>1. x \in Dirs(mos) /\ x # o /\ m \in Kids(mos, x) /\ Kid(new, x, m) = Kid(mos, x, m) /\ ~(x = d /\ m = n)
      BY <1>10, <2>2, <2>3, <2>5
    <3>2. /\ m \in AllowedNames /\ Kid(mos, x, m) \in Dirs(mos) \ {Root}
          /\ PathIn(mos, live, Kid(mos, x, m)) = Append(PathIn(mos, live, x), m)
      BY <1>1, <3>1 DEF Tree
    <3>3. Kid(mos, x, m) # o
      BY <3>1, KidsTell
    <3> QED
      BY <1>10, <1>11, <3>1, <3>2, <3>3
  <2>6. ASSUME NEW x \in Dirs(new) \ {Root}
        PROVE  \E p \in Dirs(new) : \E m \in Kids(new, p) : Kid(new, p, m) = x
    <3>1. x \in Dirs(mos) /\ x # o
      BY <1>10
    <3>2. PICK p \in Dirs(mos) : \E m \in Kids(mos, p) : Kid(mos, p, m) = x
      BY <1>1, <3>1 DEF Tree
    <3>3. PICK m \in Kids(mos, p) : Kid(mos, p, m) = x
      BY <3>2
    <3>4. p \in Dirs(new) /\ ~(p = d /\ m = n)
      BY <1>10, <2>4, <3>1, <3>3
    <3> QED
      BY <2>2, <2>3, <3>3, <3>4
  <2> QED
    BY <2>1, <2>5, <2>6 DEF Tree
<1>18. Origins(new)
  <2> SUFFICES ASSUME NEW x \in Dirs(new), new[x].origin \notin {NoObject, OriginSnap}
               PROVE  /\ \E p \in Dirs(new) : \E s \in SnapsOf(new, p) : new[x].origin = Snap(new, p, s)
                      /\ \A s \in SnapsOf(new, x) : new[Snap(new, x, s)].txg > new[new[x].origin].txg
    BY DEF Origins
  <2>1. x \in Dirs(mos) /\ x # o /\ new[x].origin = mos[x].origin
    BY <1>10, <1>11
  <2>2. PICK p \in Dirs(mos) : \E s \in SnapsOf(mos, p) : mos[x].origin = Snap(mos, p, s)
    BY <1>1, <2>1 DEF Origins
  <2>3. PICK s \in SnapsOf(mos, p) : mos[x].origin = Snap(mos, p, s)
    BY <2>2
  <2>4. \A v \in SnapsOf(mos, x) : mos[Snap(mos, x, v)].txg > mos[mos[x].origin].txg
    BY <1>1, <2>1 DEF Origins
  <2>5. p \in Dirs(new) /\ s \in SnapsOf(new, p) /\ Snap(new, p, s) = mos[x].origin
        /\ new[mos[x].origin] = mos[mos[x].origin]
    BY <1>10, <1>12, <2>3
  <2> QED
    BY <1>12, <1>13, <2>1, <2>4, <2>5
<1>19. Deads(new)
  <2>1. ASSUME NEW x, IsKnown(new, x)
        PROVE  IsKnown(mos, x) /\ x # h /\ new[x] = mos[x]
    <3>1. PICK p \in Dirs(new) : x = new[p].head \/ \E s \in SnapsOf(new, p) : x = Snap(new, p, s)
      BY <2>1 DEF IsKnown
    <3>2. p \in Dirs(mos) /\ p # o
      BY <1>10
    <3>3. CASE x = new[p].head
      BY <1>11, <3>2, <3>3 DEF IsKnown
    <3>4. CASE \E s \in SnapsOf(new, p) : x = Snap(new, p, s)
      <4>1. PICK s \in SnapsOf(new, p) : x = Snap(new, p, s)
        BY <3>4
      <4> QED
        BY <1>12, <1>13, <3>2, <4>1 DEF IsKnown
    <3> QED
      BY <3>1, <3>3, <3>4
  <2>2. \A x : IsKnown(mos, x) => mos[x].dead \in DOMAIN mos /\ mos[mos[x].dead].is = "dead"
    BY <1>1 DEF Deads
  <2>3. \A x, y : IsKnown(mos, x) /\ IsKnown(mos, y) /\ mos[x].dead = mos[y].dead => x = y
    BY <1>1 DEF Deads
  <2>4. ASSUME NEW x, IsKnown(new, x)
        PROVE  new[x].dead \in DOMAIN new /\ new[new[x].dead].is = "dead"
    <3>1. mos[x].dead \in DOMAIN mos /\ mos[mos[x].dead].is = "dead" /\ mos[x].dead # dead /\ new[x] = mos[x]
      BY <1>3, <2>1, <2>2, <2>3, <2>4
    <3>2. mos[x].dead \notin {o, h, dead, d}
      BY <1>3, <1>4, <3>1
    <3> QED
      BY <1>5, <3>1, <3>2
  <2>5. ASSUME NEW x, NEW y, IsKnown(new, x), IsKnown(new, y), new[x].dead = new[y].dead
        PROVE  x = y
    BY <2>1, <2>3, <2>5
  <2> QED
    BY <2>4, <2>5 DEF Deads
<1>20. Users(new, now, t + 1)
  <2>1. ASSUME NEW g \in DOMAIN now
        PROVE  /\ g \in Nat /\ g <= 105 + (t + 1) /\ now[g].path \in Seq(AllowedNames)
               /\ IsUser(now[g]) /\ (now[g].snap = NoSnap => \E p \in Dirs(new) : HeadOf(new, p).guid = g)
    <3>1. g \in DOMAIN live /\ now[g] = live[g] /\ g # HeadOf(mos, o).guid
      BY <1>7 DEF HeadOf
    <3>2. g \in Nat /\ g <= 105 + t /\ live[g].path \in Seq(AllowedNames) /\ IsUser(live[g])
          /\ (live[g].snap = NoSnap => \E p \in Dirs(mos) : HeadOf(mos, p).guid = g)
      BY <1>1, <3>1 DEF Users, IsUser
    <3>3. g <= 105 + (t + 1)
      BY <3>2
    <3> QED
      BY <1>10, <1>11, <3>1, <3>2, <3>3
  <2>2. ASSUME NEW z \in DOMAIN new, new[z].is = "set"
        PROVE  new[z].txg \in Nat /\ new[z].txg <= t + 1
    <3>1. z \in DOMAIN mos /\ mos[z].is = "set" /\ new[z] = mos[z]
      BY <1>4, <1>9, <2>2
    <3>2. mos[z].txg \in Nat /\ mos[z].txg <= t
      BY <1>1, <3>1 DEF Users
    <3> QED
      BY <3>1, <3>2
  <2> QED
    BY <1>7, <2>1, <2>2 DEF Users, IsUser
<1>21. Sound(new, now, t + 1)
  BY <1>14, <1>15, <1>16, <1>17, <1>18, <1>19, <1>20 DEF Sound
<1> QED
  BY <1>21 DEF new, now

-----------------------------------------------------------------------------
(* A snapshot that is no more                                              *)

\* A head or snapshot follows another one.
LEMMA ReorderedKeeps ==
  ASSUME NEW mos, Objects(mos), NEW h \in DOMAIN mos, mos[h].is = "set", NEW prev
  PROVE  LET new == [mos EXCEPT ![h].prev = prev] IN Objects(new) /\ KeepsSets(mos, new)
<1> DEFINE r == [mos[h] EXCEPT !.prev = prev]
<1>1. IsSet(mos[h])
  BY DEF Objects, IsDir, IsDead, IsBpobj
<1>2. r = Set(mos[h].dir, prev, mos[h].next, mos[h].snaps, mos[h].guid, mos[h].txg, mos[h].shape, mos[h].dead)
  BY <1>1 DEF IsSet, Set
<1>3. [mos EXCEPT ![h].prev = prev] = Put(mos, h, r)
  <2>1. [mos EXCEPT ![h].prev = prev] = [mos EXCEPT ![h] = r]
    OBVIOUS
  <2> QED
    BY <2>1, ExceptIsPut
<1> HIDE DEF r
<1>4. /\ IsSet(r) /\ r.is = "set" /\ r.dir = mos[h].dir /\ r.next = mos[h].next /\ r.snaps = mos[h].snaps
      /\ r.guid = mos[h].guid /\ r.txg = mos[h].txg /\ r.dead = mos[h].dead
  BY <1>1, <1>2, SetFields DEF IsSet
<1>5. Objects(Put(mos, h, r))
  <2>1. IsObject(mos, r) /\ h # NoObject /\ (h = OriginSnap => r.dir = OriginDir)
    BY <1>4 DEF IsObject, Objects
  <2> QED
    BY <1>4, <2>1, PutIsObjects
<1>6. KeepsSets(mos, Put(mos, h, r))
  BY <1>4, PutKeeps
<1> QED
  BY <1>3, <1>5, <1>6

\* A deadlist has other lists.
LEMMA RefiledKeeps ==
  ASSUME NEW mos, Objects(mos), NEW x \in DOMAIN mos, mos[x].is = "dead", NEW used, NEW lists,
         \A k \in DOMAIN lists : lists[k] \in DOMAIN mos /\ mos[lists[k]].is = "bpobj"
  PROVE  LET new == [mos EXCEPT ![x] = Dead(used, lists)] IN Objects(new) /\ KeepsSets(mos, new)
<1> DEFINE r == Dead(used, lists)
<1>1. [mos EXCEPT ![x] = r] = Put(mos, x, r)
  BY ExceptIsPut
<1>2. r.is = "dead" /\ IsDead(r) /\ r.lists = lists
  BY DeadFields
<1> HIDE DEF r
<1>3. Objects(Put(mos, x, r))
  <2>1. IsObject(mos, r)
    BY <1>2 DEF IsObject
  <2>2. x # NoObject /\ x # OriginSnap
    BY DEF Objects
  <2> QED
    BY <1>2, <2>1, <2>2, PutIsObjects
<1>4. KeepsSets(mos, Put(mos, x, r))
  BY <1>2, PutKeeps
<1>5. Objects([mos EXCEPT ![x] = r]) /\ KeepsSets(mos, [mos EXCEPT ![x] = r])
  BY <1>1, <1>3, <1>4
<1> QED
  BY <1>5 DEF r

\* That leaves the pool sound, and the snapshot is known by nobody.
LEMMA UnsnappedIsSound ==
  ASSUME NEW t \in Nat, NEW mos, NEW live, Sound(mos, live, t), NEW d \in Dirs(mos), NEW s \in SnapsOf(mos, d),
         \A c \in Dirs(mos) : mos[c].origin # Snap(mos, d, s)
  PROVE  LET new == Unsnapped(mos, mos[d].head, s)
         IN  /\ Sound(new, Without(live, {mos[Snap(mos, d, s)].guid}), t)
             /\ KnownStay(mos, new) /\ ~IsKnown(new, Snap(mos, d, s))
             /\ DOMAIN new = DOMAIN mos /\ new[Snap(mos, d, s)] = mos[Snap(mos, d, s)]
             /\ \A z \in DOMAIN mos : new[z].is = mos[z].is /\ (mos[z].is # "set" => new[z] = mos[z])
<1> DEFINE h == mos[d].head
           o == Snap(mos, d, s)
           g == mos[o].guid
           k == Without(mos[h].snaps, {s})
           r == [mos[h] EXCEPT !.snaps = k]
           new == Unsnapped(mos, h, s)
           now == Without(live, {g})
<1>1. /\ Objects(mos) /\ HeadsKnown(mos, live) /\ SnapsKnown(mos, live) /\ Tree(mos, live)
      /\ Origins(mos) /\ Deads(mos) /\ Users(mos, live, t)
  BY DEF Sound
<1>2. h \in DOMAIN mos /\ mos[h].is = "set" /\ mos[h].dir = d /\ mos[h].next = NoObject /\ IsSet(mos[h])
  <2>1. h \in DOMAIN mos /\ mos[h].is = "set" /\ mos[h].dir = d /\ mos[h].next = NoObject
    BY <1>1 DEF HeadsKnown, IsSetOf, HeadOf
  <2> HIDE DEF h
  <2> QED
    BY <1>1, <2>1 DEF Objects, IsDir, IsDead, IsBpobj
<1>3. o \in DOMAIN mos /\ mos[o].is = "set" /\ mos[o].dir = d /\ o # h /\ o = mos[h].snaps[s]
  <2>1. o \in DOMAIN mos /\ mos[o].is = "set" /\ mos[o].dir = d
    BY <1>1 DEF SnapsKnown, IsSetOf
  <2>2. o # h
    BY GuidsTell DEF HeadOf
  <2> QED
    BY <2>1, <2>2 DEF Snap, HeadOf
<1>4. new = [z \in DOMAIN mos |-> IF z = h THEN r ELSE mos[z]]
  <2>1. new = [mos EXCEPT ![h] = r]
    BY Zenon DEF Unsnapped
  <2> HIDE DEF new, r, h
  <2> QED
    BY <2>1
<1>5. IsWithout(now, live, {g}) /\ IsWithout(k, mos[h].snaps, {s})
  BY WithoutChanges
<1> HIDE DEF k, now, new, h, o, g
<1>6. /\ DOMAIN now = DOMAIN live \ {g} /\ IsFcn(now) /\ \A x \in DOMAIN now : now[x] = live[x]
      /\ DOMAIN k = DOMAIN mos[h].snaps \ {s} /\ IsFcn(k) /\ \A m \in DOMAIN k : k[m] = mos[h].snaps[m]
  BY <1>5 DEF IsWithout
<1>7. r = Set(mos[h].dir, mos[h].prev, mos[h].next, k, mos[h].guid, mos[h].txg, mos[h].shape, mos[h].dead)
  BY <1>2 DEF IsSet, Set
<1> HIDE DEF r
<1>8. /\ IsSet(r) /\ r.is = "set" /\ r.dir = d /\ r.next = NoObject /\ r.snaps = k
      /\ r.guid = mos[h].guid /\ r.txg = mos[h].txg /\ r.dead = mos[h].dead
  BY <1>2, <1>6, <1>7, SetFields
<1>9. /\ DOMAIN new = DOMAIN mos /\ IsFcn(new) /\ new[h] = r
      /\ \A z \in DOMAIN mos : new[z].is = mos[z].is /\ (z # h => new[z] = mos[z])
  BY <1>2, <1>4, <1>8 DEF IsFcn
<1>10. Dirs(new) = Dirs(mos) /\ \A x \in Dirs(mos) : x \in DOMAIN mos /\ new[x] = mos[x]
  BY <1>2, <1>9 DEF Dirs
<1>11. ASSUME NEW x \in Dirs(mos)
       PROVE  /\ IsSetOf(new, x, new[x].head) /\ HeadOf(new, x).next = NoObject
              /\ HeadOf(new, x).guid = HeadOf(mos, x).guid /\ HeadOf(new, x).dead = HeadOf(mos, x).dead
              /\ x # d => HeadOf(new, x) = HeadOf(mos, x)
  <2>1. IsSetOf(mos, x, mos[x].head) /\ HeadOf(mos, x).next = NoObject
    BY <1>1 DEF HeadsKnown
  <2>2. CASE x = d
    BY <1>2, <1>8, <1>9, <1>10, <2>2 DEF IsSetOf, HeadOf, h
  <2>3. CASE x # d
    <3>1. mos[x].head # h /\ mos[x].head \in DOMAIN mos /\ new[x] = mos[x]
      BY <1>2, <1>10, <2>1, <2>3 DEF IsSetOf
    <3> QED
      BY <1>9, <2>1, <3>1 DEF IsSetOf, HeadOf
  <2> QED
    BY <2>2, <2>3
<1>12. ASSUME NEW x \in Dirs(mos), NEW u \in SnapsOf(new, x)
       PROVE  u \in SnapsOf(mos, x) /\ ~(x = d /\ u = s) /\ Snap(new, x, u) = Snap(mos, x, u)
  <2>1. CASE x = d
    <3>1. HeadOf(new, d) = r /\ HeadOf(mos, d) = mos[h]
      BY <1>9, <1>10 DEF HeadOf, h
    <3> QED
      BY <1>6, <1>8, <1>12, <2>1, <3>1 DEF SnapsOf, Snap
  <2>2. CASE x # d
    BY <1>11, <1>12, <2>2 DEF SnapsOf, Snap
  <2> QED
    BY <2>1, <2>2
<1>13. ASSUME NEW x \in Dirs(mos), NEW u \in SnapsOf(mos, x), ~(x = d /\ u = s)
       PROVE  u \in SnapsOf(new, x) /\ Snap(new, x, u) = Snap(mos, x, u)
  <2>1. CASE x = d
    <3>1. HeadOf(new, d) = r /\ HeadOf(mos, d) = mos[h]
      BY <1>9, <1>10 DEF HeadOf, h
    <3> QED
      BY <1>6, <1>8, <1>13, <2>1, <3>1 DEF SnapsOf, Snap
  <2>2. CASE x # d
    BY <1>11, <1>13, <2>2 DEF SnapsOf, Snap
  <2> QED
    BY <2>1, <2>2
<1>14. ASSUME NEW x \in Dirs(mos), NEW u \in SnapsOf(mos, x)
       PROVE  /\ IsSetOf(new, x, Snap(mos, x, u)) /\ new[Snap(mos, x, u)] = mos[Snap(mos, x, u)]
              /\ (Snap(mos, x, u) = o => x = d /\ u = s)
              /\ (mos[Snap(mos, x, u)].guid = g => x = d /\ u = s)
  <2>1. IsSetOf(mos, x, Snap(mos, x, u))
    BY <1>1 DEF SnapsKnown
  <2>2. Snap(mos, x, u) # h
    BY GuidsTell DEF HeadOf, h
  <2>3. mos[Snap(mos, x, u)].guid = g => x = d /\ u = s
    BY GuidsTell DEF o, g
  <2> QED
    BY <1>9, <2>1, <2>2, <2>3 DEF IsSetOf, g
<1>15. \A x \in Dirs(mos) : HeadOf(mos, x).guid # g
  BY GuidsTell DEF g, o
<1>16. SameDirs(mos, new)
  BY <1>10, <1>11 DEF SameDirs
<1>17. SamePaths(mos, live, now)
  BY <1>1, <1>6, <1>15 DEF SamePaths, HeadsKnown
<1>18. HeadsKnown(new, now) /\ Tree(new, now) /\ \A x \in Dirs(mos) : PathIn(new, now, x) = PathIn(mos, live, x)
  BY <1>16, <1>17, TreeStays
<1>19. Objects(new)
  <2>1. \A z \in DOMAIN new : IsDir(new[z]) \/ IsSet(new[z]) \/ IsDead(new[z]) \/ IsBpobj(new[z])
    BY <1>1, <1>8, <1>9 DEF Objects
  <2>2. /\ new[OriginDir].is = "dir" /\ new[OriginSnap].is = "set" /\ new[OriginSnap].dir = OriginDir
        /\ new[FreeList].is = "bpobj" /\ new[EmptyList].is = "bpobj"
    <3>1. OriginSnap # h
      BY <1>1, <1>2 DEF Objects, Dirs
    <3> QED
      BY <1>1, <1>9, <3>1 DEF Objects, Kept
  <2>3. ASSUME NEW z \in DOMAIN new, new[z].is = "dead", NEW i \in DOMAIN new[z].lists
        PROVE  new[z].lists[i] \in DOMAIN new /\ new[new[z].lists[i]].is = "bpobj"
    <3>1. z \in DOMAIN mos /\ mos[z].is = "dead" /\ new[z] = mos[z]
      BY <1>2, <1>9, <2>3
    <3>2. mos[z].lists[i] \in DOMAIN mos /\ mos[mos[z].lists[i]].is = "bpobj"
      BY <1>1, <2>3, <3>1 DEF Objects
    <3> QED
      BY <1>9, <3>1, <3>2
  <2> QED
    BY <1>1, <1>9, <2>1, <2>2, <2>3 DEF Objects
<1>20. SnapsKnown(new, now)
  <2> SUFFICES ASSUME NEW x \in Dirs(mos), NEW u \in SnapsOf(new, x)
               PROVE  /\ IsSetOf(new, x, Snap(new, x, u)) /\ new[Snap(new, x, u)].guid \in DOMAIN now
                      /\ now[new[Snap(new, x, u)].guid].snap = {u}
                      /\ now[new[Snap(new, x, u)].guid].path = PathIn(new, now, x)
    BY <1>10 DEF SnapsKnown
  <2>1. u \in SnapsOf(mos, x) /\ ~(x = d /\ u = s) /\ Snap(new, x, u) = Snap(mos, x, u)
    BY <1>12
  <2>2. /\ mos[Snap(mos, x, u)].guid \in DOMAIN live
        /\ live[mos[Snap(mos, x, u)].guid].snap = {u}
        /\ live[mos[Snap(mos, x, u)].guid].path = PathIn(mos, live, x)
    BY <1>1, <2>1 DEF SnapsKnown
  <2>3. /\ IsSetOf(new, x, Snap(mos, x, u)) /\ new[Snap(mos, x, u)] = mos[Snap(mos, x, u)]
        /\ mos[Snap(mos, x, u)].guid # g
    BY <1>14, <2>1
  <2> QED
    BY <1>6, <1>18, <2>1, <2>2, <2>3
<1>21. Origins(new)
  <2> SUFFICES ASSUME NEW x \in Dirs(mos), mos[x].origin \notin {NoObject, OriginSnap}
               PROVE  /\ \E p \in Dirs(mos) : \E u \in SnapsOf(new, p) : mos[x].origin = Snap(new, p, u)
                      /\ \A u \in SnapsOf(new, x) : new[Snap(new, x, u)].txg > new[mos[x].origin].txg
    BY <1>10 DEF Origins
  <2>1. PICK p \in Dirs(mos) : \E u \in SnapsOf(mos, p) : mos[x].origin = Snap(mos, p, u)
    BY <1>1 DEF Origins
  <2>2. PICK u \in SnapsOf(mos, p) : mos[x].origin = Snap(mos, p, u)
    BY <2>1
  <2>3. ~(p = d /\ u = s)
    BY <2>2
  <2>4. \A v \in SnapsOf(mos, x) : mos[Snap(mos, x, v)].txg > mos[mos[x].origin].txg
    BY <1>1 DEF Origins
  <2>5. u \in SnapsOf(new, p) /\ Snap(new, p, u) = mos[x].origin /\ new[mos[x].origin] = mos[mos[x].origin]
    BY <1>13, <1>14, <2>2, <2>3
  <2> QED
    BY <1>12, <1>14, <2>4, <2>5
<1>22. ASSUME NEW x, IsKnown(new, x)
       PROVE  IsKnown(mos, x) /\ new[x].dead = mos[x].dead /\ x # o
  <2>1. PICK p \in Dirs(mos) : x = new[p].head \/ \E u \in SnapsOf(new, p) : x = Snap(new, p, u)
    BY <1>10, <1>22 DEF IsKnown
  <2>2. CASE x = new[p].head
    <3>1. x = mos[p].head /\ new[p] = mos[p]
      BY <1>10, <2>2
    <3>2. new[x].dead = mos[x].dead
      BY <1>11, <3>1 DEF HeadOf
    <3>3. mos[x].guid # g
      BY <1>15, <3>1 DEF HeadOf
    <3> QED
      BY <3>1, <3>2, <3>3 DEF IsKnown, g
  <2>3. CASE \E u \in SnapsOf(new, p) : x = Snap(new, p, u)
    <3>1. PICK u \in SnapsOf(new, p) : x = Snap(new, p, u)
      BY <2>3
    <3> QED
      BY <1>12, <1>14, <3>1 DEF IsKnown
  <2> QED
    BY <2>1, <2>2, <2>3
<1>23. Deads(new)
  <2>1. \A x : IsKnown(mos, x) => mos[x].dead \in DOMAIN mos /\ mos[mos[x].dead].is = "dead"
    BY <1>1 DEF Deads
  <2>2. \A x, y : IsKnown(mos, x) /\ IsKnown(mos, y) /\ mos[x].dead = mos[y].dead => x = y
    BY <1>1 DEF Deads
  <2> QED
    BY <1>9, <1>22, <2>1, <2>2 DEF Deads
<1>24. Users(new, now, t)
  <2>1. ASSUME NEW x \in DOMAIN now
        PROVE  /\ x \in Nat /\ x <= 105 + t /\ now[x].path \in Seq(AllowedNames)
               /\ IsUser(now[x]) /\ (now[x].snap = NoSnap => \E p \in Dirs(new) : HeadOf(new, p).guid = x)
    <3>1. x \in DOMAIN live /\ now[x] = live[x]
      BY <1>6
    <3>2. x \in Nat /\ x <= 105 + t /\ live[x].path \in Seq(AllowedNames) /\ IsUser(live[x])
          /\ (live[x].snap = NoSnap => \E p \in Dirs(mos) : HeadOf(mos, p).guid = x)
      BY <1>1, <3>1 DEF Users, IsUser
    <3> QED
      BY <1>10, <1>11, <3>1, <3>2
  <2>2. \A z \in DOMAIN new : new[z].is = "set" => new[z].txg \in Nat /\ new[z].txg <= t
    BY <1>1, <1>2, <1>8, <1>9 DEF Users
  <2> QED
    BY <1>6, <2>1, <2>2 DEF Users, IsUser
<1>25. Sound(new, now, t) /\ KnownStay(mos, new) /\ ~IsKnown(new, o)
  BY <1>18, <1>19, <1>20, <1>21, <1>22, <1>23, <1>24 DEF Sound, KnownStay
<1>26. new[o] = mos[o] /\ \A z \in DOMAIN mos : mos[z].is # "set" => new[z] = mos[z]
  BY <1>2, <1>3, <1>9
<1> QED
  BY <1>9, <1>25, <1>26 DEF new, now, g, h, o

\* What nothing leads to is taken away.
LEMMA DroppedIsSound ==
  ASSUME NEW t \in Nat, NEW mos, NEW live, Sound(mos, live, t), NEW o \in DOMAIN mos, mos[o].is = "set",
         mos[o].dir # OriginDir, ~IsKnown(mos, o), NEW dead \in DOMAIN mos, mos[dead].is = "dead",
         \A x : IsKnown(mos, x) => mos[x].dead # dead
  PROVE  Sound(Without(mos, {o, dead}), live, t)
<1> DEFINE new == Without(mos, {o, dead})
<1>1. /\ Objects(mos) /\ HeadsKnown(mos, live) /\ SnapsKnown(mos, live) /\ Tree(mos, live)
      /\ Origins(mos) /\ Deads(mos) /\ Users(mos, live, t)
  BY DEF Sound
<1>2. IsWithout(new, mos, {o, dead})
  BY WithoutChanges
<1> HIDE DEF new
<1>3. DOMAIN new = DOMAIN mos \ {o, dead} /\ IsFcn(new) /\ \A z \in DOMAIN new : new[z] = mos[z]
  BY <1>2 DEF IsWithout
<1>4. Dirs(new) = Dirs(mos) /\ \A x \in Dirs(mos) : new[x] = mos[x]
  BY <1>3 DEF Dirs
<1>5. ASSUME NEW x, IsKnown(mos, x)
      PROVE  x \in DOMAIN new /\ new[x] = mos[x] /\ mos[x].is = "set"
  <2>1. PICK p \in Dirs(mos) : x = mos[p].head \/ \E s \in SnapsOf(mos, p) : x = Snap(mos, p, s)
    BY <1>5 DEF IsKnown
  <2>2. IsSetOf(mos, p, x)
    BY <1>1, <2>1 DEF HeadsKnown, SnapsKnown
  <2>3. x # o /\ x # dead
    BY <1>5, <2>2 DEF IsSetOf
  <2> QED
    BY <1>3, <2>2, <2>3 DEF IsSetOf
<1>6. ASSUME NEW x \in Dirs(mos)
      PROVE  /\ IsSetOf(new, x, new[x].head) /\ HeadOf(new, x) = HeadOf(mos, x) /\ HeadOf(new, x).next = NoObject
             /\ SnapsOf(new, x) = SnapsOf(mos, x) /\ \A s : Snap(new, x, s) = Snap(mos, x, s)
  <2>1. IsKnown(mos, mos[x].head) /\ IsSetOf(mos, x, mos[x].head) /\ HeadOf(mos, x).next = NoObject
    BY <1>1 DEF IsKnown, HeadsKnown
  <2> QED
    BY <1>4, <1>5, <2>1 DEF IsSetOf, HeadOf, SnapsOf, Snap
<1>7. ASSUME NEW x \in Dirs(mos), NEW s \in SnapsOf(mos, x)
      PROVE  IsSetOf(new, x, Snap(mos, x, s)) /\ new[Snap(mos, x, s)] = mos[Snap(mos, x, s)]
  <2>1. IsKnown(mos, Snap(mos, x, s)) /\ IsSetOf(mos, x, Snap(mos, x, s))
    BY <1>1 DEF IsKnown, SnapsKnown
  <2> QED
    BY <1>5, <2>1 DEF IsSetOf
<1>8. SameDirs(mos, new) /\ SamePaths(mos, live, live)
  BY <1>1, <1>4, <1>6 DEF SameDirs, SamePaths, HeadsKnown
<1>9. HeadsKnown(new, live) /\ Tree(new, live) /\ \A x \in Dirs(mos) : PathIn(new, live, x) = PathIn(mos, live, x)
  BY <1>8, TreeStays
<1>10. Objects(new)
  <2>1. IsFiniteSet(DOMAIN new)
    BY <1>1, <1>3, FS_Subset DEF Objects
  <2>2. Kept \cap {o, dead} = {}
    BY <1>1 DEF Objects, Kept
  <2>3. /\ new[OriginDir].is = "dir" /\ new[OriginSnap].is = "set" /\ new[OriginSnap].dir = OriginDir
        /\ new[FreeList].is = "bpobj" /\ new[EmptyList].is = "bpobj"
    BY <1>1, <1>3, <2>2 DEF Objects, Kept
  <2>4. ASSUME NEW z \in DOMAIN new, new[z].is = "dead", NEW i \in DOMAIN new[z].lists
        PROVE  new[z].lists[i] \in DOMAIN new /\ new[new[z].lists[i]].is = "bpobj"
    <3>1. z \in DOMAIN mos /\ mos[z].is = "dead" /\ new[z] = mos[z]
      BY <1>3, <2>4
    <3>2. mos[z].lists[i] \in DOMAIN mos /\ mos[mos[z].lists[i]].is = "bpobj"
      BY <1>1, <2>4, <3>1 DEF Objects
    <3>3. mos[z].lists[i] \in DOMAIN new
      BY <1>3, <3>2
    <3> QED
      BY <1>3, <3>1, <3>2, <3>3
  <2> QED
    BY <1>1, <1>3, <2>1, <2>2, <2>3, <2>4 DEF Objects
<1>11. SnapsKnown(new, live)
  BY <1>1, <1>4, <1>6, <1>7, <1>9 DEF SnapsKnown
<1>12. Origins(new)
  <2> SUFFICES ASSUME NEW x \in Dirs(mos), mos[x].origin \notin {NoObject, OriginSnap}
               PROVE  /\ \E p \in Dirs(mos) : \E u \in SnapsOf(mos, p) : mos[x].origin = Snap(mos, p, u)
                      /\ \A u \in SnapsOf(mos, x) : new[Snap(mos, x, u)].txg > new[mos[x].origin].txg
    BY <1>4, <1>6 DEF Origins
  <2>1. PICK p \in Dirs(mos) : \E u \in SnapsOf(mos, p) : mos[x].origin = Snap(mos, p, u)
    BY <1>1 DEF Origins
  <2>2. new[mos[x].origin] = mos[mos[x].origin]
    BY <1>7, <2>1
  <2>3. \A v \in SnapsOf(mos, x) : mos[Snap(mos, x, v)].txg > mos[mos[x].origin].txg
    BY <1>1 DEF Origins
  <2> QED
    BY <1>7, <2>1, <2>2, <2>3
<1>13. Deads(new)
  <2>1. ASSUME NEW x, IsKnown(new, x)
        PROVE  IsKnown(mos, x) /\ new[x] = mos[x]
    <3>1. IsKnown(mos, x)
      BY <1>4, <1>6, <2>1 DEF IsKnown
    <3> QED
      BY <1>5, <3>1
  <2>2. \A x : IsKnown(mos, x) => mos[x].dead \in DOMAIN mos /\ mos[mos[x].dead].is = "dead"
    BY <1>1 DEF Deads
  <2>3. \A x, y : IsKnown(mos, x) /\ IsKnown(mos, y) /\ mos[x].dead = mos[y].dead => x = y
    BY <1>1 DEF Deads
  <2>4. \A x : IsKnown(mos, x) => mos[x].dead \in DOMAIN new
    BY <1>3, <2>2
  <2> QED
    BY <1>3, <2>1, <2>2, <2>3, <2>4 DEF Deads
<1>14. Users(new, live, t)
  BY <1>1, <1>3, <1>4, <1>6 DEF Users
<1>15. Sound(new, live, t)
  BY <1>9, <1>10, <1>11, <1>12, <1>13, <1>14 DEF Sound
<1> QED
  BY <1>15 DEF new

\* What such a change leaves of a dataset.
LEMMA KeepsSet ==
  ASSUME NEW mos, NEW new, KeepsSets(mos, new), NEW o \in DOMAIN mos, mos[o].is = "set"
  PROVE  /\ o \in DOMAIN new /\ new[o].is = "set" /\ new[o].dir = mos[o].dir /\ new[o].snaps = mos[o].snaps
         /\ new[o].guid = mos[o].guid /\ new[o].dead = mos[o].dead
BY DEF KeepsSets

\* A snapshot fewer, one that is no clone's origin, leaves the pool sound.
LEMMA JoinedIsSound ==
  ASSUME NEW t \in Nat, NEW mos, NEW live, Sound(mos, live, t), NEW d \in Dirs(mos), NEW s \in SnapsOf(mos, d),
         \A c \in Dirs(mos) : mos[c].origin # Snap(mos, d, s),
         NEW nx \in DOMAIN mos, mos[nx].is = "set", NEW dead \in DOMAIN mos, mos[dead].is = "dead",
         NEW prev, NEW used, NEW lists, NEW freed,
         \A k \in DOMAIN lists : lists[k] \in DOMAIN mos /\ mos[lists[k]].is = "bpobj"
  PROVE  LET o == Snap(mos, d, s)
         IN  Sound(Without(Joined(mos, mos[d].head, s, nx, prev, dead, used, lists, freed), {o, mos[o].dead}),
                   Without(live, {mos[o].guid}), t)
<1> DEFINE o == Snap(mos, d, s)
           h == mos[d].head
           now == Without(live, {mos[o].guid})
           m1 == [mos EXCEPT ![nx].prev = prev]
           m2 == [m1 EXCEPT ![h].snaps = Without(mos[h].snaps, {s})]
           m3 == [m2 EXCEPT ![dead] = Dead(used, lists)]
           m4 == [m3 EXCEPT ![FreeList].bytes = mos[FreeList].bytes + freed]
<1>1. Joined(mos, h, s, nx, prev, dead, used, lists, freed) = m4
  BY Zenon DEF Joined
<1>2. /\ Objects(mos) /\ KeepsUsers(live, live) /\ h \in DOMAIN mos /\ mos[h].is = "set"
      /\ o \in DOMAIN mos /\ mos[o].is = "set" /\ mos[o].dir # OriginDir /\ IsKnown(mos, o)
  BY DEF Sound, Users, KeepsUsers, IsUser, HeadsKnown, SnapsKnown, IsSetOf, Dirs, IsKnown
<1>3. Objects(m1) /\ KeepsSets(mos, m1)
  BY <1>2, ReorderedKeeps
<1> HIDE DEF m1
<1>4. Sound(m1, live, t) /\ KnownStay(mos, m1)
  BY <1>2, <1>3, t <= t, QuietIsSound
<1>5. /\ Dirs(m1) = Dirs(mos) /\ (\A c \in Dirs(mos) : m1[c].head = mos[c].head /\ m1[c].origin = mos[c].origin)
      /\ m1[h].snaps = mos[h].snaps
  BY <1>2, <1>3 DEF KeepsSets, Dirs
<1>6. s \in SnapsOf(m1, d) /\ Snap(m1, d, s) = o /\ m1[d].head = h
  BY <1>5 DEF SnapsOf, Snap, HeadOf
<1>7. /\ o \in DOMAIN m1 /\ m1[o].is = "set" /\ m1[o].dir = mos[o].dir /\ m1[o].guid = mos[o].guid
      /\ m1[o].dead = mos[o].dead
  BY <1>2, <1>3, KeepsSet
<1>8. \A z \in DOMAIN mos : z \in DOMAIN m1 /\ m1[z].is = mos[z].is
  BY <1>3 DEF KeepsSets
<1>9. /\ Sound(m2, now, t) /\ KnownStay(m1, m2) /\ ~IsKnown(m2, o)
      /\ DOMAIN m2 = DOMAIN m1 /\ m2[o] = m1[o] /\ \A z \in DOMAIN m1 : m2[z].is = m1[z].is
  <2> HIDE DEF m2, o, h, now
  <2>1. d \in Dirs(m1) /\ s \in SnapsOf(m1, d) /\ \A c \in Dirs(m1) : m1[c].origin # Snap(m1, d, s)
    BY <1>5, <1>6 DEF o
  <2> DEFINE v == Unsnapped(m1, m1[d].head, s)
  <2>2. /\ Sound(v, Without(live, {m1[Snap(m1, d, s)].guid}), t)
        /\ KnownStay(m1, v) /\ ~IsKnown(v, Snap(m1, d, s))
        /\ DOMAIN v = DOMAIN m1 /\ v[Snap(m1, d, s)] = m1[Snap(m1, d, s)]
        /\ \A z \in DOMAIN m1 : v[z].is = m1[z].is
    BY <1>4, <2>1, UnsnappedIsSound, SMTT(30)
  <2>3. v = m2
    BY <1>5, <1>6 DEF Unsnapped, m2, h
  <2> HIDE DEF v
  <2> QED
    BY <1>6, <1>7, <2>2, <2>3 DEF now
<1> HIDE DEF m2, o, h, now
<1>10. Objects(m3) /\ KeepsSets(m2, m3)
  <2>1. dead \in DOMAIN m2 /\ m2[dead].is = "dead" /\ Objects(m2)
    BY <1>8, <1>9 DEF Sound
  <2>2. \A k \in DOMAIN lists : lists[k] \in DOMAIN m2 /\ m2[lists[k]].is = "bpobj"
    BY <1>8, <1>9
  <2> QED
    BY <2>1, <2>2, RefiledKeeps
<1> HIDE DEF m3
<1>11. Objects(m4) /\ KeepsSets(m3, m4)
  BY <1>10, FreedKeeps
<1> HIDE DEF m4
<1>12. KeepsSets(m2, m4)
  BY <1>10, <1>11, KeepsOn
<1>13. KeepsUsers(now, now)
  BY <1>9 DEF Sound, Users, KeepsUsers, IsUser
<1>14. Sound(m4, now, t) /\ KnownStay(m2, m4)
  BY <1>9, <1>11, <1>12, <1>13, t <= t, QuietIsSound
<1>15. /\ o \in DOMAIN m4 /\ m4[o].is = "set" /\ m4[o].dir = mos[o].dir /\ m4[o].dead = mos[o].dead
  BY <1>7, <1>9, <1>12, KeepsSet
<1>16. mos[o].dead \in DOMAIN m4 /\ m4[mos[o].dead].is = "dead"
  <2>1. mos[o].dead \in DOMAIN mos /\ mos[mos[o].dead].is = "dead"
    BY <1>2 DEF Sound, Deads
  <2> QED
    BY <1>8, <1>9, <1>12, <2>1 DEF KeepsSets
<1>17. ~IsKnown(m4, o)
  BY <1>9, <1>14 DEF KnownStay
<1>18. ASSUME NEW x, IsKnown(m4, x)
       PROVE  m4[x].dead # mos[o].dead
  <2>1. IsKnown(m2, x) /\ m4[x].dead = m2[x].dead
    BY <1>14, <1>18 DEF KnownStay
  <2>2. IsKnown(m1, x) /\ m2[x].dead = m1[x].dead
    BY <1>9, <2>1 DEF KnownStay
  <2>3. IsKnown(mos, x) /\ m1[x].dead = mos[x].dead
    BY <1>4, <2>2 DEF KnownStay
  <2>4. x # o
    BY <1>9, <2>1
  <2> QED
    BY <1>2, <2>1, <2>2, <2>3, <2>4 DEF Sound, Deads
<1>19. Sound(Without(m4, {o, mos[o].dead}), now, t)
  BY <1>2, <1>14, <1>15, <1>16, <1>17, <1>18, DroppedIsSound
<1> QED
  BY <1>1, <1>19 DEF o, h, now

-----------------------------------------------------------------------------
(* A clone that takes its origin's place                                   *)

\* A dataset with one field changed.
LEMMA SetChanges ==
  ASSUME NEW r, IsSet(r), NEW x
  PROVE  /\ [r EXCEPT !.dir = x] = Set(x, r.prev, r.next, r.snaps, r.guid, r.txg, r.shape, r.dead)
         /\ [r EXCEPT !.next = x] = Set(r.dir, r.prev, x, r.snaps, r.guid, r.txg, r.shape, r.dead)
         /\ [r EXCEPT !.snaps = x] = Set(r.dir, r.prev, r.next, x, r.guid, r.txg, r.shape, r.dead)
BY DEF IsSet, Set

\* A directory with one field changed.
LEMMA DirChanges ==
  ASSUME NEW r, IsDir(r), NEW x
  PROVE  /\ [r EXCEPT !.origin = x] = Dir(r.head, x, r.kids, r.root)
         /\ [r EXCEPT !.kids = x] = Dir(r.head, r.origin, x, r.root)
         /\ [r EXCEPT !.root = x] = Dir(r.head, r.origin, r.kids, x)
BY DEF IsDir, Dir

\* zfs promote changes no more than that.
LEMMA PromotedObjects ==
  ASSUME NEW mos, Objects(mos), NEW c \in Dirs(mos), NEW od \in Dirs(mos), c # od,
         IsSetOf(mos, c, mos[c].head), IsSetOf(mos, od, mos[od].head), NEW moved, NEW objects, NEW snap \in objects,
         \A o \in objects : IsSetOf(mos, od, o) /\ o \notin {mos[c].head, mos[od].head}, NEW first
  PROVE  IsPromoted(Promoted(mos, c, od, snap, moved, objects, first), mos, c, od, snap, moved, objects)
<1> DEFINE based == [o \in DOMAIN mos |->
                      CASE o \in objects -> [mos[o] EXCEPT !.dir = c]
                        [] mos[o].is = "dir" /\ mos[o].root = od -> [mos[o] EXCEPT !.root = c]
                        [] OTHER -> mos[o]]
           ch == mos[c].head
           oh == mos[od].head
           k == Merged([s \in moved |-> mos[oh].snaps[s]], based[ch].snaps)
           l == Without(based[oh].snaps, moved)
           m1 == [based EXCEPT ![c].origin = mos[od].origin]
           m2 == [m1 EXCEPT ![od].origin = snap]
           m3 == [m2 EXCEPT ![snap].next = first]
           m4 == [m3 EXCEPT ![ch].snaps = k]
           m5 == [m4 EXCEPT ![oh].snaps = l]
           new == Promoted(mos, c, od, snap, moved, objects, first)
<1>1. new = m5
  BY Zenon DEF Promoted
<1>2. /\ c \in DOMAIN mos /\ mos[c].is = "dir" /\ od \in DOMAIN mos /\ mos[od].is = "dir"
      /\ ch \in DOMAIN mos /\ mos[ch].is = "set" /\ oh \in DOMAIN mos /\ mos[oh].is = "set" /\ ch # oh
      /\ snap \in DOMAIN mos /\ mos[snap].is = "set" /\ snap # ch /\ snap # oh /\ ch \notin objects /\ oh \notin objects
  BY DEF Dirs, IsSetOf
<1>3. \A z \in objects : z \in DOMAIN mos /\ mos[z].is = "set"
  BY DEF IsSetOf
<1>4. ASSUME NEW z \in DOMAIN mos
      PROVE  CASE mos[z].is = "dir" -> /\ SameDir(based[z], mos[z]) /\ based[z].origin = mos[z].origin
                                       /\ based[z].root = Rooted(mos[z].root, od, c)
               [] mos[z].is = "set" -> /\ SameSet(based[z], mos[z]) /\ based[z].next = mos[z].next
                                       /\ based[z].snaps = mos[z].snaps
                                       /\ based[z].dir = IF z \in objects THEN c ELSE mos[z].dir
               [] OTHER -> based[z] = mos[z]
  <2> DEFINE r == mos[z]
  <2>1. IsDir(r) \/ IsSet(r) \/ IsDead(r) \/ IsBpobj(r)
    BY DEF Objects
  <2>2. CASE z \in objects
    <3>1. based[z] = [r EXCEPT !.dir = c] /\ r.is = "set"
      BY <1>3, <2>2
    <3> HIDE DEF r, based
    <3>2. IsSet(r)
      BY <2>1, <3>1 DEF IsDir, IsDead, IsBpobj
    <3>3. based[z] = Set(c, r.prev, r.next, r.snaps, r.guid, r.txg, r.shape, r.dead) /\ IsFcn(r.snaps)
      BY <3>1, <3>2, SetChanges DEF IsSet
    <3>4. SameSet(based[z], r) /\ based[z].next = r.next /\ based[z].snaps = r.snaps /\ based[z].dir = c
      BY <3>3, SetFields DEF SameSet
    <3> QED
      BY <2>2, <3>1, <3>4 DEF r
  <2>3. CASE z \notin objects /\ r.is = "dir" /\ r.root = od
    <3>1. based[z] = [r EXCEPT !.root = c]
      BY <2>3
    <3> HIDE DEF r, based
    <3>2. IsDir(r)
      BY <2>1, <2>3 DEF IsSet, IsDead, IsBpobj
    <3>3. based[z] = Dir(r.head, r.origin, r.kids, c) /\ IsFcn(r.kids)
      BY <3>1, <3>2, DirChanges DEF IsDir
    <3>4. SameDir(based[z], r) /\ based[z].origin = r.origin /\ based[z].root = c
      BY <3>3, DirFields DEF SameDir
    <3> QED
      BY <2>3, <3>4 DEF r, Rooted
  <2>4. CASE z \notin objects /\ ~(r.is = "dir" /\ r.root = od)
    <3>1. based[z] = r
      BY <2>4
    <3> HIDE DEF r, based
    <3>2. r.is = "dir" => IsDir(r)
      BY <2>1 DEF IsSet, IsDead, IsBpobj
    <3>3. r.is = "set" => IsSet(r)
      BY <2>1 DEF IsDir, IsDead, IsBpobj
    <3> QED
      BY <2>4, <3>1, <3>2, <3>3 DEF r, SameDir, SameSet, Rooted
  <2> QED
    BY <2>2, <2>3, <2>4
<1>5. DOMAIN based = DOMAIN mos
  OBVIOUS
<1> HIDE DEF based, new, ch, oh
<1>6. based[ch].snaps = mos[ch].snaps /\ based[oh].snaps = mos[oh].snaps
  BY <1>2, <1>4
<1> HIDE DEF k, l
<1>7. /\ IsDir(based[c]) /\ IsDir(based[od]) /\ IsSet(based[snap]) /\ IsSet(based[ch]) /\ IsSet(based[oh])
      /\ IsFcn(based[c].kids) /\ IsFcn(based[od].kids) /\ IsFcn(based[snap].snaps)
  BY <1>2, <1>4 DEF SameDir, SameSet, IsDir, IsSet
<1>8. /\ m5[c] = [based[c] EXCEPT !.origin = mos[od].origin]
      /\ m5[od] = [based[od] EXCEPT !.origin = snap]
      /\ m5[snap] = [based[snap] EXCEPT !.next = first]
      /\ m5[ch] = [based[ch] EXCEPT !.snaps = k]
      /\ m5[oh] = [based[oh] EXCEPT !.snaps = l]
      /\ \A z \in DOMAIN mos \ {c, od, snap, ch, oh} : m5[z] = based[z]
      /\ DOMAIN m5 = DOMAIN mos /\ IsFcn(m5)
  <2>1. /\ DOMAIN m1 = DOMAIN mos /\ m1[c] = [based[c] EXCEPT !.origin = mos[od].origin]
        /\ \A z \in DOMAIN mos \ {c} : m1[z] = based[z]
    BY <1>2, <1>5
  <2> HIDE DEF m1
  <2>2. DOMAIN m2 = DOMAIN mos /\ m2[od] = [m1[od] EXCEPT !.origin = snap] /\ \A z \in DOMAIN mos \ {od} : m2[z] = m1[z]
    BY <1>2, <2>1
  <2> HIDE DEF m2
  <2>3. DOMAIN m3 = DOMAIN mos /\ m3[snap] = [m2[snap] EXCEPT !.next = first] /\ \A z \in DOMAIN mos \ {snap} : m3[z] = m2[z]
    BY <1>2, <2>2
  <2> HIDE DEF m3
  <2>4. DOMAIN m4 = DOMAIN mos /\ m4[ch] = [m3[ch] EXCEPT !.snaps = k] /\ \A z \in DOMAIN mos \ {ch} : m4[z] = m3[z]
    BY <1>2, <2>3
  <2> HIDE DEF m4
  <2>5. DOMAIN m5 = DOMAIN mos /\ m5[oh] = [m4[oh] EXCEPT !.snaps = l] /\ \A z \in DOMAIN mos \ {oh} : m5[z] = m4[z]
    BY <1>2, <2>4
  <2>6. IsFcn(m5)
    BY <2>5 DEF IsFcn
  <2> HIDE DEF m5
  <2>7. c \notin {od, snap, ch, oh} /\ od \notin {snap, ch, oh}
    BY <1>2
  <2> QED
    BY <1>2, <2>1, <2>2, <2>3, <2>4, <2>5, <2>6, <2>7
<1> HIDE DEF m1, m2, m3, m4, m5
<1>9. /\ SameDir(m5[c], based[c]) /\ m5[c].origin = mos[od].origin /\ m5[c].root = based[c].root
      /\ SameDir(m5[od], based[od]) /\ m5[od].origin = snap /\ m5[od].root = based[od].root
  <2>1. m5[c] = Dir(based[c].head, mos[od].origin, based[c].kids, based[c].root)
    BY <1>7, <1>8, DirChanges
  <2>2. m5[od] = Dir(based[od].head, snap, based[od].kids, based[od].root)
    BY <1>7, <1>8, DirChanges
  <2> QED
    BY <1>7, <2>1, <2>2, DirFields DEF SameDir
<1>10. SameSet(m5[snap], based[snap]) /\ m5[snap].dir = based[snap].dir /\ m5[snap].snaps = based[snap].snaps
  <2>1. m5[snap] = Set(based[snap].dir, based[snap].prev, first, based[snap].snaps, based[snap].guid, based[snap].txg,
                       based[snap].shape, based[snap].dead)
    BY <1>7, <1>8, SetChanges
  <2> QED
    BY <1>7, <2>1, SetFields DEF SameSet
<1>11. IsFcn(k) /\ IsFcn(l)
  <2>1. IsFcn(k)
    BY DEF k, Merged, IsFcn
  <2>2. IsWithout(l, based[oh].snaps, moved)
    BY WithoutChanges DEF l
  <2> QED
    BY <2>1, <2>2 DEF IsWithout
<1>12. SameSet(m5[ch], based[ch]) /\ m5[ch].dir = based[ch].dir /\ m5[ch].next = based[ch].next /\ m5[ch].snaps = k
  <2>1. m5[ch] = Set(based[ch].dir, based[ch].prev, based[ch].next, k, based[ch].guid, based[ch].txg,
                     based[ch].shape, based[ch].dead)
    BY <1>7, <1>8, SetChanges
  <2> QED
    BY <1>11, <2>1, SetFields DEF SameSet
<1>13. SameSet(m5[oh], based[oh]) /\ m5[oh].dir = based[oh].dir /\ m5[oh].next = based[oh].next /\ m5[oh].snaps = l
  <2>1. m5[oh] = Set(based[oh].dir, based[oh].prev, based[oh].next, l, based[oh].guid, based[oh].txg,
                     based[oh].shape, based[oh].dead)
    BY <1>7, <1>8, SetChanges
  <2> QED
    BY <1>11, <2>1, SetFields DEF SameSet
<1>14. k = Merged([s \in moved |-> mos[oh].snaps[s]], mos[ch].snaps) /\ l = Without(mos[oh].snaps, moved)
  BY <1>6 DEF k, l
<1>15. ASSUME NEW z \in DOMAIN mos
       PROVE  CASE mos[z].is = "dir" ->
                     /\ SameDir(m5[z], mos[z]) /\ m5[z].root = Rooted(mos[z].root, od, c)
                     /\ m5[z].origin = IF z = c THEN mos[od].origin ELSE IF z = od THEN snap ELSE mos[z].origin
                [] mos[z].is = "set" ->
                     /\ SameSet(m5[z], mos[z]) /\ (z # snap => m5[z].next = mos[z].next)
                     /\ m5[z].dir = IF z \in objects THEN c ELSE mos[z].dir
                     /\ m5[z].snaps = IF z = ch THEN k ELSE IF z = oh THEN l ELSE mos[z].snaps
                [] OTHER -> m5[z] = mos[z]
  <2>1. CASE mos[z].is = "dir"
    <3>1. SameDir(based[z], mos[z]) /\ based[z].origin = mos[z].origin /\ based[z].root = Rooted(mos[z].root, od, c)
      BY <1>4, <2>1
    <3>2. /\ SameDir(m5[z], based[z]) /\ m5[z].root = based[z].root
          /\ m5[z].origin = IF z = c THEN mos[od].origin ELSE IF z = od THEN snap ELSE based[z].origin
      <4>1. CASE z \in {c, od}
        BY <1>9, <4>1
      <4>2. CASE z \notin {c, od}
        <5>1. m5[z] = based[z]
          BY <1>2, <1>8, <2>1, <4>2
        <5> QED
          BY <3>1, <4>2, <5>1 DEF SameDir
      <4> QED
        BY <4>1, <4>2
    <3> QED
      BY <2>1, <3>1, <3>2 DEF SameDir
  <2>2. CASE mos[z].is = "set"
    <3>1. /\ SameSet(based[z], mos[z]) /\ based[z].next = mos[z].next /\ based[z].snaps = mos[z].snaps
          /\ based[z].dir = IF z \in objects THEN c ELSE mos[z].dir
      BY <1>4, <2>2
    <3>2. /\ SameSet(m5[z], based[z]) /\ (z # snap => m5[z].next = based[z].next) /\ m5[z].dir = based[z].dir
          /\ m5[z].snaps = IF z = ch THEN k ELSE IF z = oh THEN l ELSE based[z].snaps
      <4>1. CASE z \in {snap, ch, oh}
        BY <1>2, <1>10, <1>12, <1>13, <4>1
      <4>2. CASE z \notin {snap, ch, oh}
        <5>1. m5[z] = based[z]
          BY <1>2, <1>8, <2>2, <4>2
        <5> QED
          BY <3>1, <4>2, <5>1 DEF SameSet
      <4> QED
        BY <4>1, <4>2
    <3> QED
      BY <2>2, <3>1, <3>2 DEF SameSet
  <2>3. CASE mos[z].is # "dir" /\ mos[z].is # "set"
    <3>1. z \notin {c, od, snap, ch, oh}
      BY <1>2, <2>3
    <3>2. m5[z] = based[z] /\ based[z] = mos[z]
      BY <1>4, <1>8, <2>3, <3>1
    <3> QED
      BY <2>3, <3>2
  <2> QED
    BY <2>1, <2>2, <2>3
<1>16. IsPromoted(m5, mos, c, od, snap, moved, objects)
  BY <1>8, <1>14, <1>15 DEF IsPromoted, ch, oh
<1> QED
  BY <1>1, <1>16 DEF new

\* A clone that takes over its origin leaves the pool sound.
LEMMA PromotedIsSound ==
  ASSUME NEW t \in Nat, NEW mos, NEW live, Sound(mos, live, t), NEW c \in Dirs(mos), NEW od \in Dirs(mos),
         NEW a \in SnapsOf(mos, od), mos[c].origin = Snap(mos, od, a), mos[c].origin \notin {NoObject, OriginSnap},
         NEW moved, moved = {s \in SnapsOf(mos, od) : mos[Snap(mos, od, s)].txg <= mos[mos[c].origin].txg},
         moved \cap SnapsOf(mos, c) = {},
         NEW objects, objects = {Snap(mos, od, s) : s \in moved},
         NEW new, IsPromoted(new, mos, c, od, mos[c].origin, moved, objects),
         NEW now, MovedUsers(now, live, {mos[o].guid : o \in objects}, PathIn(mos, live, c))
  PROVE  Sound(new, now, t + 1)
<1> DEFINE snap == mos[c].origin
           guids == {mos[o].guid : o \in objects}
           ch == mos[c].head
           oh == mos[od].head
           k == Merged([s \in moved |-> mos[oh].snaps[s]], mos[ch].snaps)
           l == Without(mos[oh].snaps, moved)
<1>1. /\ Objects(mos) /\ HeadsKnown(mos, live) /\ SnapsKnown(mos, live) /\ Tree(mos, live)
      /\ Origins(mos) /\ Deads(mos) /\ Users(mos, live, t)
  BY DEF Sound
<1>2. \A x \in Dirs(mos) : \A s \in SnapsOf(mos, x) :
        IsSetOf(mos, x, Snap(mos, x, s)) /\ mos[Snap(mos, x, s)].txg \in Nat /\ mos[Snap(mos, x, s)].txg <= t
  BY <1>1 DEF SnapsKnown, Users, IsSetOf
<1>3. a \in moved /\ snap \in objects /\ mos[snap].txg \in Nat /\ snap \in DOMAIN mos
  BY <1>2 DEF IsSetOf
<1>4. c # od
  <2>1. \A s \in SnapsOf(mos, c) : mos[Snap(mos, c, s)].txg > mos[snap].txg
    BY <1>1 DEF Origins
  <2> QED
    BY <1>3, <2>1
<1>5. /\ ch \in DOMAIN mos /\ mos[ch].is = "set" /\ mos[ch].dir = c
      /\ oh \in DOMAIN mos /\ mos[oh].is = "set" /\ mos[oh].dir = od /\ ch # oh
  BY <1>1, <1>4 DEF HeadsKnown, IsSetOf
<1>6. /\ DOMAIN new = DOMAIN mos /\ IsFcn(new)
      /\ \A z \in DOMAIN mos : new[z].is = mos[z].is
      /\ \A z \in DOMAIN mos : mos[z].is = "dir" =>
           /\ SameDir(new[z], mos[z])
           /\ new[z].origin = IF z = c THEN mos[od].origin ELSE IF z = od THEN snap ELSE mos[z].origin
      /\ \A z \in DOMAIN mos : mos[z].is = "set" =>
           /\ SameSet(new[z], mos[z]) /\ (z # snap => new[z].next = mos[z].next)
           /\ new[z].dir = IF z \in objects THEN c ELSE mos[z].dir
           /\ new[z].snaps = IF z = ch THEN k ELSE IF z = oh THEN l ELSE mos[z].snaps
      /\ \A z \in DOMAIN mos : mos[z].is \notin {"dir", "set"} => new[z] = mos[z]
  <2> HIDE DEF snap, k, l
  <2>1. /\ DOMAIN new = DOMAIN mos /\ IsFcn(new)
        /\ \A z \in DOMAIN mos :
             CASE mos[z].is = "dir" ->
                    /\ SameDir(new[z], mos[z])
                    /\ new[z].origin = IF z = c THEN mos[od].origin ELSE IF z = od THEN snap ELSE mos[z].origin
               [] mos[z].is = "set" ->
                    /\ SameSet(new[z], mos[z]) /\ (z # snap => new[z].next = mos[z].next)
                    /\ new[z].dir = IF z \in objects THEN c ELSE mos[z].dir
                    /\ new[z].snaps = IF z = ch THEN k ELSE IF z = oh THEN l ELSE mos[z].snaps
               [] OTHER -> new[z] = mos[z]
    BY DEF IsPromoted, snap, k, l
  <2>2. ASSUME NEW z \in DOMAIN mos
        PROVE  /\ new[z].is = mos[z].is
               /\ mos[z].is = "dir" =>
                    /\ SameDir(new[z], mos[z])
                    /\ new[z].origin = IF z = c THEN mos[od].origin ELSE IF z = od THEN snap ELSE mos[z].origin
               /\ mos[z].is = "set" =>
                    /\ SameSet(new[z], mos[z]) /\ (z # snap => new[z].next = mos[z].next)
                    /\ new[z].dir = IF z \in objects THEN c ELSE mos[z].dir
                    /\ new[z].snaps = IF z = ch THEN k ELSE IF z = oh THEN l ELSE mos[z].snaps
               /\ mos[z].is \notin {"dir", "set"} => new[z] = mos[z]
    BY <2>1 DEF SameDir, SameSet
  <2> QED
    BY <2>1, <2>2
<1>7. /\ DOMAIN k = moved \cup SnapsOf(mos, c) /\ (\A s \in moved : k[s] = Snap(mos, od, s))
      /\ \A s \in SnapsOf(mos, c) : k[s] = Snap(mos, c, s)
  BY Zenon DEF Merged, SnapsOf, Snap, HeadOf
<1>8. DOMAIN l = SnapsOf(mos, od) \ moved /\ \A s \in SnapsOf(mos, od) \ moved : l[s] = Snap(mos, od, s)
  <2>1. IsWithout(l, mos[oh].snaps, moved)
    BY WithoutChanges
  <2> HIDE DEF l
  <2> QED
    BY <2>1, Zenon DEF IsWithout, SnapsOf, Snap, HeadOf
<1> HIDE DEF k, l, ch, oh, snap, guids
<1>9. Dirs(new) = Dirs(mos) /\ \A x \in Dirs(mos) : /\ x \in DOMAIN mos /\ mos[x].is = "dir"
                                                    /\ new[x].head = mos[x].head /\ new[x].kids = mos[x].kids
  BY <1>6 DEF Dirs, SameDir
<1>10. ASSUME NEW x \in Dirs(mos), NEW s \in SnapsOf(mos, x)
       PROVE  /\ Snap(mos, x, s) \in DOMAIN mos /\ mos[Snap(mos, x, s)].is = "set"
              /\ new[Snap(mos, x, s)].guid = mos[Snap(mos, x, s)].guid
              /\ new[Snap(mos, x, s)].txg = mos[Snap(mos, x, s)].txg
              /\ new[Snap(mos, x, s)].dead = mos[Snap(mos, x, s)].dead
              /\ (Snap(mos, x, s) \in objects <=> x = od /\ s \in moved)
              /\ (mos[Snap(mos, x, s)].guid \in guids <=> x = od /\ s \in moved)
              /\ new[Snap(mos, x, s)].dir = IF x = od /\ s \in moved THEN c ELSE x
  <2>1. Snap(mos, x, s) \in DOMAIN mos /\ mos[Snap(mos, x, s)].is = "set" /\ mos[Snap(mos, x, s)].dir = x
    BY <1>2 DEF IsSetOf
  <2>2. mos[Snap(mos, x, s)].guid \in guids => x = od /\ s \in moved
    <3> SUFFICES ASSUME mos[Snap(mos, x, s)].guid \in guids PROVE x = od /\ s \in moved
      OBVIOUS
    <3>1. PICK u \in moved : mos[Snap(mos, x, s)].guid = mos[Snap(mos, od, u)].guid
      BY DEF guids
    <3>2. u \in SnapsOf(mos, od)
      OBVIOUS
    <3> QED
      BY <3>1, <3>2, GuidsTell
  <2>3. Snap(mos, x, s) \in objects => mos[Snap(mos, x, s)].guid \in guids
    BY DEF guids
  <2>4. x = od /\ s \in moved => Snap(mos, x, s) \in objects
    OBVIOUS
  <2>5. Snap(mos, x, s) \in objects <=> x = od /\ s \in moved
    BY <2>2, <2>3, <2>4
  <2>6. mos[Snap(mos, x, s)].guid \in guids <=> x = od /\ s \in moved
    BY <2>2, <2>3, <2>4
  <2> QED
    BY <1>6, <2>1, <2>5, <2>6 DEF SameSet
<1>11. ASSUME NEW x \in Dirs(mos)
       PROVE  /\ mos[x].head \in DOMAIN mos /\ mos[mos[x].head].is = "set" /\ mos[x].head \notin objects
              /\ IsSetOf(new, x, new[x].head) /\ HeadOf(new, x).next = NoObject
              /\ HeadOf(new, x).guid = HeadOf(mos, x).guid /\ HeadOf(mos, x).guid \notin guids
              /\ HeadOf(new, x).dead = HeadOf(mos, x).dead
              /\ (x \notin {c, od} => HeadOf(new, x).snaps = HeadOf(mos, x).snaps)
  <2>1. IsSetOf(mos, x, mos[x].head) /\ HeadOf(mos, x).next = NoObject
    BY <1>1 DEF HeadsKnown
  <2>2. HeadOf(mos, x).guid \notin guids
    <3> SUFFICES ASSUME HeadOf(mos, x).guid \in guids PROVE FALSE
      OBVIOUS
    <3>1. PICK u \in moved : HeadOf(mos, x).guid = mos[Snap(mos, od, u)].guid
      BY DEF guids
    <3>2. u \in SnapsOf(mos, od)
      OBVIOUS
    <3> QED
      BY <3>1, <3>2, GuidsTell
  <2>3. mos[x].head \notin objects
    BY <2>2 DEF guids, HeadOf
  <2>4. x \notin {c, od} => mos[x].head # ch /\ mos[x].head # oh
    BY <1>5, <2>1 DEF IsSetOf
  <2> QED
    BY <1>3, <1>6, <1>9, <2>1, <2>2, <2>3, <2>4 DEF SameSet, IsSetOf, HeadOf
<1>12. /\ SnapsOf(new, c) = moved \cup SnapsOf(mos, c)
       /\ \A s \in moved : Snap(new, c, s) = Snap(mos, od, s)
       /\ \A s \in SnapsOf(mos, c) : Snap(new, c, s) = Snap(mos, c, s)
  <2>1. HeadOf(new, c).snaps = k
    BY <1>5, <1>6, <1>9 DEF HeadOf, ch
  <2> QED
    BY <1>7, <2>1 DEF SnapsOf, Snap
<1>13. /\ SnapsOf(new, od) = SnapsOf(mos, od) \ moved
       /\ \A s \in SnapsOf(mos, od) \ moved : Snap(new, od, s) = Snap(mos, od, s)
  <2>1. HeadOf(new, od).snaps = l
    BY <1>5, <1>6, <1>9 DEF HeadOf, oh
  <2> QED
    BY <1>8, <2>1 DEF SnapsOf, Snap
<1>14. ASSUME NEW x \in Dirs(mos), x \notin {c, od}
       PROVE  SnapsOf(new, x) = SnapsOf(mos, x) /\ \A s : Snap(new, x, s) = Snap(mos, x, s)
  BY <1>11, <1>14 DEF SnapsOf, Snap
<1>15. ASSUME NEW x \in Dirs(mos), NEW s \in SnapsOf(new, x)
       PROVE  \/ x = c /\ s \in moved /\ s \in SnapsOf(mos, od) /\ Snap(new, x, s) = Snap(mos, od, s)
              \/ /\ s \in SnapsOf(mos, x) /\ Snap(new, x, s) = Snap(mos, x, s) /\ ~(x = od /\ s \in moved)
  <2>1. CASE x = c
    BY <1>4, <1>12, <1>15, <2>1
  <2>2. CASE x = od
    BY <1>13, <1>15, <2>2
  <2>3. CASE x \notin {c, od}
    BY <1>14, <1>15, <2>3
  <2> QED
    BY <2>1, <2>2, <2>3
<1>16. SameDirs(mos, new)
  BY <1>9, <1>11 DEF SameDirs
<1>17. SamePaths(mos, live, now)
  BY <1>1, <1>11 DEF SamePaths, HeadsKnown, MovedUsers, guids
<1>18. HeadsKnown(new, now) /\ Tree(new, now) /\ \A x \in Dirs(mos) : PathIn(new, now, x) = PathIn(mos, live, x)
  BY <1>16, <1>17, TreeStays
<1>19. Objects(new)
  <2>1. \A z \in DOMAIN new : IsDir(new[z]) \/ IsSet(new[z]) \/ IsDead(new[z]) \/ IsBpobj(new[z])
    BY <1>1, <1>6 DEF Objects, SameDir, SameSet
  <2>2. new[OriginSnap].dir = OriginDir
    <3>1. OriginSnap \notin objects
      <4> SUFFICES ASSUME OriginSnap \in objects PROVE FALSE
        OBVIOUS
      <4>1. PICK u \in SnapsOf(mos, od) : OriginSnap = Snap(mos, od, u)
        OBVIOUS
      <4>2. mos[OriginSnap].dir = od
        BY <1>2, <4>1 DEF IsSetOf
      <4> QED
        BY <1>1, <4>2 DEF Objects, Dirs
    <3> QED
      BY <1>1, <1>6, <3>1 DEF Objects, Kept
  <2>3. /\ new[OriginDir].is = "dir" /\ new[OriginSnap].is = "set"
        /\ new[FreeList].is = "bpobj" /\ new[EmptyList].is = "bpobj"
    BY <1>1, <1>6 DEF Objects, Kept
  <2>4. ASSUME NEW z \in DOMAIN new, new[z].is = "dead", NEW i \in DOMAIN new[z].lists
        PROVE  new[z].lists[i] \in DOMAIN new /\ new[new[z].lists[i]].is = "bpobj"
    <3>1. z \in DOMAIN mos /\ mos[z].is = "dead" /\ new[z] = mos[z]
      BY <1>6, <2>4
    <3>2. mos[z].lists[i] \in DOMAIN mos /\ mos[mos[z].lists[i]].is = "bpobj"
      BY <1>1, <2>4, <3>1 DEF Objects
    <3> QED
      BY <1>6, <3>1, <3>2
  <2> QED
    BY <1>1, <1>6, <2>1, <2>2, <2>3, <2>4 DEF Objects
<1>20. SnapsKnown(new, now)
  <2> SUFFICES ASSUME NEW x \in Dirs(mos), NEW s \in SnapsOf(new, x)
               PROVE  /\ IsSetOf(new, x, Snap(new, x, s)) /\ new[Snap(new, x, s)].guid \in DOMAIN now
                      /\ now[new[Snap(new, x, s)].guid].snap = {s}
                      /\ now[new[Snap(new, x, s)].guid].path = PathIn(new, now, x)
    BY <1>9 DEF SnapsKnown
  <2>1. \A y \in Dirs(mos) : \A u \in SnapsOf(mos, y) :
          /\ mos[Snap(mos, y, u)].guid \in DOMAIN live /\ live[mos[Snap(mos, y, u)].guid].snap = {u}
          /\ live[mos[Snap(mos, y, u)].guid].path = PathIn(mos, live, y)
    BY <1>1 DEF SnapsKnown
  <2>2. CASE x = c /\ s \in moved /\ s \in SnapsOf(mos, od) /\ Snap(new, x, s) = Snap(mos, od, s)
    <3>1. /\ Snap(mos, od, s) \in DOMAIN mos /\ mos[Snap(mos, od, s)].is = "set"
          /\ new[Snap(mos, od, s)].guid = mos[Snap(mos, od, s)].guid /\ mos[Snap(mos, od, s)].guid \in guids
          /\ new[Snap(mos, od, s)].dir = c
      BY <1>10, <2>2
    <3>2. mos[Snap(mos, od, s)].guid \in DOMAIN live /\ live[mos[Snap(mos, od, s)].guid].snap = {s}
      BY <2>1, <2>2
    <3>3. /\ mos[Snap(mos, od, s)].guid \in DOMAIN now
          /\ now[mos[Snap(mos, od, s)].guid].snap = {s}
          /\ now[mos[Snap(mos, od, s)].guid].path = PathIn(mos, live, c)
      BY <3>1, <3>2 DEF MovedUsers, guids
    <3>4. PathIn(new, now, x) = PathIn(mos, live, c)
      BY <1>18, <2>2
    <3>5. IsSetOf(new, x, Snap(mos, od, s))
      BY <1>6, <2>2, <3>1 DEF IsSetOf
    <3> QED
      BY <2>2, <3>1, <3>3, <3>4, <3>5
  <2>3. CASE s \in SnapsOf(mos, x) /\ Snap(new, x, s) = Snap(mos, x, s) /\ ~(x = od /\ s \in moved)
    BY <1>6, <1>10, <1>18, <2>1, <2>3 DEF IsSetOf, MovedUsers, guids
  <2> QED
    BY <1>15, <2>2, <2>3
<1>21. Origins(new)
  <2>1. ASSUME NEW p \in Dirs(mos), NEW u \in SnapsOf(mos, p)
        PROVE  \E q \in Dirs(mos) : \E v \in SnapsOf(new, q) : Snap(mos, p, u) = Snap(new, q, v)
    <3>1. CASE p = od /\ u \in moved
      BY <1>12, <3>1
    <3>2. CASE p = od /\ u \notin moved
      BY <1>13, <3>2
    <3>3. CASE p = c
      BY <1>12, <3>3
    <3>4. CASE p \notin {c, od}
      BY <1>14, <3>4
    <3> QED
      BY <3>1, <3>2, <3>3, <3>4
  <2>2. ASSUME NEW x \in Dirs(mos), mos[x].origin \notin {NoObject, OriginSnap}
        PROVE  /\ \E q \in Dirs(mos) : \E v \in SnapsOf(new, q) : mos[x].origin = Snap(new, q, v)
               /\ new[mos[x].origin].txg = mos[mos[x].origin].txg /\ mos[mos[x].origin].txg \in Nat
               /\ \A s \in SnapsOf(mos, x) : mos[Snap(mos, x, s)].txg > mos[mos[x].origin].txg
    <3>1. PICK p \in Dirs(mos) : \E u \in SnapsOf(mos, p) : mos[x].origin = Snap(mos, p, u)
      BY <1>1, <2>2 DEF Origins
    <3>2. PICK u \in SnapsOf(mos, p) : mos[x].origin = Snap(mos, p, u)
      BY <3>1
    <3>3. \A s \in SnapsOf(mos, x) : mos[Snap(mos, x, s)].txg > mos[mos[x].origin].txg
      BY <1>1, <2>2 DEF Origins
    <3> QED
      BY <1>2, <1>10, <2>1, <3>2, <3>3
  <2> SUFFICES ASSUME NEW x \in Dirs(mos), new[x].origin \notin {NoObject, OriginSnap}
               PROVE  /\ \E q \in Dirs(mos) : \E v \in SnapsOf(new, q) : new[x].origin = Snap(new, q, v)
                      /\ \A s \in SnapsOf(new, x) : new[Snap(new, x, s)].txg > new[new[x].origin].txg
    BY <1>9 DEF Origins
  <2>3. CASE x = c
    <3>1. new[x].origin = mos[od].origin
      BY <1>6, <1>9, <2>3
    <3>2. ASSUME NEW s \in SnapsOf(new, c)
          PROVE  new[Snap(new, c, s)].txg > mos[mos[od].origin].txg
      <4>1. \A u \in SnapsOf(mos, od) : mos[Snap(mos, od, u)].txg > mos[mos[od].origin].txg
        BY <2>2, <2>3, <3>1
      <4>2. CASE s \in moved
        BY <1>10, <1>12, <4>1, <4>2
      <4>3. CASE s \in SnapsOf(mos, c)
        <5>1. mos[Snap(mos, c, s)].txg > mos[snap].txg /\ mos[snap].txg > mos[mos[od].origin].txg
          BY <1>1, <4>1, <4>3 DEF Origins, snap
        <5>2. mos[Snap(mos, c, s)].txg \in Nat /\ mos[mos[od].origin].txg \in Nat
          BY <1>2, <2>2, <2>3, <3>1, <4>3
        <5>3. mos[Snap(mos, c, s)].txg > mos[mos[od].origin].txg
          BY <1>3, <5>1, <5>2
        <5> QED
          BY <1>10, <1>12, <4>3, <5>3
      <4> QED
        BY <1>12, <4>2, <4>3
    <3> QED
      BY <2>2, <2>3, <3>1, <3>2
  <2>4. CASE x = od
    <3>1. new[x].origin = snap
      BY <1>4, <1>6, <1>9, <2>4
    <3>2. /\ \E q \in Dirs(mos) : \E v \in SnapsOf(new, q) : snap = Snap(new, q, v)
          /\ new[snap].txg = mos[snap].txg
      BY <2>2 DEF snap
    <3>3. ASSUME NEW s \in SnapsOf(new, od)
          PROVE  new[Snap(new, od, s)].txg > mos[snap].txg
      <4>1. s \in SnapsOf(mos, od) /\ s \notin moved /\ Snap(new, od, s) = Snap(mos, od, s)
        BY <1>13
      <4>2. ~(mos[Snap(mos, od, s)].txg <= mos[snap].txg)
        BY <4>1 DEF snap
      <4>3. mos[Snap(mos, od, s)].txg \in Nat /\ new[Snap(mos, od, s)].txg = mos[Snap(mos, od, s)].txg
        BY <1>2, <1>10, <4>1
      <4> QED
        BY <1>3, <4>1, <4>2, <4>3
    <3> QED
      BY <2>4, <3>1, <3>2, <3>3
  <2>5. CASE x \notin {c, od}
    <3>1. new[x].origin = mos[x].origin
      BY <1>6, <1>9, <2>5
    <3> QED
      BY <1>10, <1>14, <2>2, <2>5, <3>1
  <2> QED
    BY <2>3, <2>4, <2>5
<1>22. ASSUME NEW x, IsKnown(new, x)
       PROVE  IsKnown(mos, x) /\ new[x].dead = mos[x].dead
  <2>1. PICK p \in Dirs(mos) : x = new[p].head \/ \E s \in SnapsOf(new, p) : x = Snap(new, p, s)
    BY <1>9, <1>22 DEF IsKnown
  <2>2. CASE x = new[p].head
    BY <1>9, <1>11, <2>2 DEF IsKnown, HeadOf
  <2>3. CASE \E s \in SnapsOf(new, p) : x = Snap(new, p, s)
    <3>1. PICK s \in SnapsOf(new, p) : x = Snap(new, p, s)
      BY <2>3
    <3>2. \E q \in Dirs(mos) : \E u \in SnapsOf(mos, q) : x = Snap(mos, q, u)
      BY <1>15, <3>1
    <3> QED
      BY <1>10, <3>2 DEF IsKnown
  <2> QED
    BY <2>1, <2>2, <2>3
<1>23. Deads(new)
  <2>1. \A x : IsKnown(mos, x) => mos[x].dead \in DOMAIN mos /\ mos[mos[x].dead].is = "dead"
    BY <1>1 DEF Deads
  <2>2. \A x, y : IsKnown(mos, x) /\ IsKnown(mos, y) /\ mos[x].dead = mos[y].dead => x = y
    BY <1>1 DEF Deads
  <2>3. ASSUME NEW x, IsKnown(new, x)
        PROVE  new[x].dead \in DOMAIN new /\ new[new[x].dead].is = "dead"
    <3>1. mos[x].dead \in DOMAIN mos /\ mos[mos[x].dead].is = "dead" /\ new[x].dead = mos[x].dead
      BY <1>22, <2>1, <2>3
    <3> QED
      BY <1>6, <3>1
  <2>4. ASSUME NEW x, NEW y, IsKnown(new, x), IsKnown(new, y), new[x].dead = new[y].dead
        PROVE  x = y
    BY <1>22, <2>2, <2>4
  <2> QED
    BY <2>3, <2>4 DEF Deads
<1>24. Users(new, now, t + 1)
  <2>1. ASSUME NEW g \in DOMAIN now
        PROVE  /\ g \in Nat /\ g <= 105 + (t + 1) /\ now[g].path \in Seq(AllowedNames)
               /\ IsUser(now[g]) /\ (now[g].snap = NoSnap => \E p \in Dirs(new) : HeadOf(new, p).guid = g)
    <3>1. /\ g \in DOMAIN live /\ IsUser(now[g]) /\ now[g].snap = live[g].snap
          /\ now[g].path \in {live[g].path, PathIn(mos, live, c)}
      BY DEF MovedUsers
    <3>2. g \in Nat /\ g <= 105 + t /\ live[g].path \in Seq(AllowedNames)
          /\ (live[g].snap = NoSnap => \E p \in Dirs(mos) : HeadOf(mos, p).guid = g)
      BY <1>1, <3>1 DEF Users
    <3>3. g <= 105 + (t + 1)
      BY <3>2
    <3>4. PathIn(mos, live, c) \in Seq(AllowedNames)
      BY PathTypes
    <3>5. now[g].path \in Seq(AllowedNames)
      BY <3>1, <3>2, <3>4
    <3>6. now[g].snap = NoSnap => \E p \in Dirs(new) : HeadOf(new, p).guid = g
      BY <1>9, <1>11, <3>1, <3>2
    <3> QED
      BY <3>1, <3>2, <3>3, <3>5, <3>6
  <2>2. ASSUME NEW z \in DOMAIN new, new[z].is = "set"
        PROVE  new[z].txg \in Nat /\ new[z].txg <= t + 1
    <3>1. z \in DOMAIN mos /\ mos[z].is = "set" /\ new[z].txg = mos[z].txg
      BY <1>6, <2>2 DEF SameSet
    <3>2. mos[z].txg \in Nat /\ mos[z].txg <= t
      BY <1>1, <3>1 DEF Users
    <3> QED
      BY <3>1, <3>2
  <2> QED
    BY <2>1, <2>2 DEF Users, IsUser, MovedUsers
<1> QED
  BY <1>18, <1>19, <1>20, <1>21, <1>23, <1>24 DEF Sound

-----------------------------------------------------------------------------
(* A dataset moved with all below it                                       *)

\* What starts with a path and one part more starts with the path, or is it.
LEMMA PrefixOfAppend ==
  ASSUME NEW S, NEW from \in Seq(S), NEW p \in Seq(S), NEW y \in S
  PROVE  IsPrefix(from, Append(p, y)) <=> IsPrefix(from, p) \/ from = Append(p, y)
<1> DEFINE q == Append(p, y)
<1>1. /\ q \in Seq(S) /\ Len(q) = Len(p) + 1 /\ q[Len(p) + 1] = y
      /\ Len(p) \in Nat /\ Len(from) \in Nat /\ Len(q) \in Nat
      /\ \A i \in 1 .. Len(p) : q[i] = p[i]
  OBVIOUS
<1> HIDE DEF q
<1>2. ASSUME NEW x \in Seq(S)
      PROVE  IsPrefix(from, x) <=> Len(from) <= Len(x) /\ \A i \in 1 .. Len(from) : from[i] = x[i]
  <2>1. SubSeq(from, 1, Len(from)) = from
    BY SubSeqFull
  <2>2. CASE Len(from) <= Len(x)
    <3>1. \A i \in 1 .. Len(from) : x[i] \in S
      BY <1>1, <2>2
    <3>2. 1 \in Int /\ Len(from) \in Int
      BY <1>1
    <3>3. /\ SubSeq(x, 1, Len(from)) \in Seq(S)
          /\ Len(SubSeq(x, 1, Len(from))) = IF 1 <= Len(from) THEN Len(from) - 1 + 1 ELSE 0
          /\ \A i \in 1 .. Len(from) - 1 + 1 : SubSeq(x, 1, Len(from))[i] = x[1 + i - 1]
      BY <3>1, <3>2, SubSeqProperties
    <3>4. Len(SubSeq(x, 1, Len(from))) = Len(from) /\ \A i \in 1 .. Len(from) : SubSeq(x, 1, Len(from))[i] = x[i]
      BY <1>1, <3>3
    <3>5. (\A i \in 1 .. Len(from) : from[i] = x[i]) => from = SubSeq(x, 1, Len(from))
      BY <3>3, <3>4, SeqEqual
    <3>6. from = SubSeq(x, 1, Len(from)) => \A i \in 1 .. Len(from) : from[i] = x[i]
      BY <3>4
    <3> QED
      BY <2>1, <2>2, <3>5, <3>6 DEF IsPrefix
  <2>3. CASE ~(Len(from) <= Len(x))
    BY <2>3 DEF IsPrefix
  <2> QED
    BY <2>2, <2>3
<1>3. CASE Len(from) <= Len(p)
  <2>1. Len(from) <= Len(q) /\ \A i \in 1 .. Len(from) : q[i] = p[i]
    BY <1>1, <1>3
  <2>2. from # q
    BY <1>1, <1>3
  <2> QED
    BY <1>1, <1>2, <1>3, <2>1, <2>2 DEF q
<1>4. CASE Len(from) = Len(p) + 1
  <2>1. (\A i \in 1 .. Len(from) : from[i] = q[i]) <=> from = q
    BY <1>1, <1>4, SeqEqual
  <2>2. ~(Len(from) <= Len(p)) /\ Len(from) <= Len(q)
    BY <1>1, <1>4
  <2> QED
    BY <1>1, <1>2, <2>1, <2>2 DEF q
<1>5. CASE ~(Len(from) <= Len(p) + 1)
  <2>1. ~(Len(from) <= Len(p)) /\ ~(Len(from) <= Len(q)) /\ from # q
    BY <1>1, <1>5
  <2> QED
    BY <1>1, <1>2, <2>1 DEF q
<1> QED
  BY <1>1, <1>3, <1>4, <1>5

\* What is below a path is moved with it, the path itself to the new one.
LEMMA OntoGoesDown ==
  ASSUME NEW S, NEW from \in Seq(S), NEW onto \in Seq(S)
  PROVE  GoesDown(S, from, onto)
<1>1. ASSUME NEW p \in Seq(S), IsPrefix(from, p)
      PROVE  /\ SubSeq(p, Len(from) + 1, Len(p)) \in Seq(S)
             /\ Len(SubSeq(p, Len(from) + 1, Len(p))) = Len(p) - Len(from)
             /\ \A i \in 1 .. Len(p) - Len(from) : SubSeq(p, Len(from) + 1, Len(p))[i] = p[Len(from) + i]
             /\ Len(from) <= Len(p) /\ Len(from) \in Nat /\ Len(p) \in Nat
  <2>1. Len(from) \in Nat /\ Len(p) \in Nat /\ Len(from) <= Len(p)
    BY <1>1 DEF IsPrefix
  <2>2. Len(from) + 1 \in Int /\ Len(p) \in Int /\ \A i \in Len(from) + 1 .. Len(p) : p[i] \in S
    BY <2>1
  <2>3. /\ SubSeq(p, Len(from) + 1, Len(p)) \in Seq(S)
        /\ Len(SubSeq(p, Len(from) + 1, Len(p))) = IF Len(from) + 1 <= Len(p) THEN Len(p) - (Len(from) + 1) + 1 ELSE 0
        /\ \A i \in 1 .. Len(p) - (Len(from) + 1) + 1 : SubSeq(p, Len(from) + 1, Len(p))[i] = p[Len(from) + 1 + i - 1]
    BY <2>2, SubSeqProperties
  <2> QED
    BY <2>1, <2>3
<1>2. \A p \in Seq(S) : Onto(from, onto, p) \in Seq(S)
  BY <1>1, ConcatProperties DEF Onto
<1>3. Onto(from, onto, from) = onto
  <2>1. IsPrefix(from, from)
    BY DEF IsPrefix
  <2>2. Len(from) + 1 \in Int /\ Len(from) \in Int /\ Len(from) < Len(from) + 1
    OBVIOUS
  <2>3. SubSeq(from, Len(from) + 1, Len(from)) = <<>>
    BY <2>2, SubSeqEmpty
  <2> QED
    BY <2>1, <2>3, ConcatEmptySeq DEF Onto
<1>4. ASSUME NEW p \in Seq(S), NEW y \in S, from # Append(p, y)
      PROVE  Onto(from, onto, Append(p, y)) = Append(Onto(from, onto, p), y)
  <2> DEFINE q == Append(p, y)
             a == SubSeq(p, Len(from) + 1, Len(p))
             b == SubSeq(q, Len(from) + 1, Len(q))
             u == onto \o b
             v == Append(onto \o a, y)
  <2>1. IsPrefix(from, q) <=> IsPrefix(from, p)
    BY <1>4, PrefixOfAppend
  <2>2. CASE ~IsPrefix(from, p)
    BY <2>1, <2>2 DEF Onto
  <2>3. CASE IsPrefix(from, p)
    <3>1. /\ q \in Seq(S) /\ Len(q) = Len(p) + 1 /\ q[Len(p) + 1] = y
          /\ \A i \in 1 .. Len(p) : q[i] = p[i]
      OBVIOUS
    <3> HIDE DEF q
    <3>2. /\ a \in Seq(S) /\ Len(a) = Len(p) - Len(from) /\ Len(from) <= Len(p) /\ Len(from) \in Nat /\ Len(p) \in Nat
          /\ \A i \in 1 .. Len(p) - Len(from) : a[i] = p[Len(from) + i]
      BY <1>1, <2>3
    <3>3. /\ b \in Seq(S) /\ Len(b) = Len(q) - Len(from)
          /\ \A i \in 1 .. Len(q) - Len(from) : b[i] = q[Len(from) + i]
      BY <1>1, <2>1, <2>3, <3>1
    <3> HIDE DEF a, b
    <3>4. /\ onto \o a \in Seq(S) /\ Len(onto \o a) = Len(onto) + Len(a) /\ Len(onto) \in Nat
          /\ \A i \in 1 .. Len(onto) + Len(a) : (onto \o a)[i] = IF i <= Len(onto) THEN onto[i] ELSE a[i - Len(onto)]
      <4>1. a \in Seq(S) /\ Len(onto) \in Nat
        BY <3>2
      <4> QED
        BY <4>1, ConcatProperties
    <3>5. /\ u \in Seq(S) /\ Len(u) = Len(onto) + Len(b)
          /\ \A i \in 1 .. Len(onto) + Len(b) : u[i] = IF i <= Len(onto) THEN onto[i] ELSE b[i - Len(onto)]
      BY <3>3, ConcatProperties
    <3>6. /\ v \in Seq(S) /\ Len(v) = Len(onto) + Len(a) + 1 /\ v[Len(onto) + Len(a) + 1] = y
          /\ \A i \in 1 .. Len(onto) + Len(a) : v[i] = (onto \o a)[i]
      BY <3>4
    <3> HIDE DEF u, v
    <3>7. Len(u) = Len(v) /\ Len(b) = Len(a) + 1
      BY <3>1, <3>2, <3>3, <3>5, <3>6
    <3>8. ASSUME NEW i \in 1 .. Len(u)
          PROVE  u[i] = v[i]
      <4>1. CASE i <= Len(onto)
        <5>1. i \in 1 .. Len(onto) + Len(b) /\ i \in 1 .. Len(onto) + Len(a)
          BY <3>2, <3>4, <3>5, <3>7, <4>1
        <5> QED
          BY <3>4, <3>5, <3>6, <4>1, <5>1
      <4>2. CASE i > Len(onto) /\ i <= Len(onto) + Len(a)
        <5>1. v[i] = a[i - Len(onto)] /\ u[i] = b[i - Len(onto)]
          <6>1. i \in 1 .. Len(onto) + Len(b) /\ i \in 1 .. Len(onto) + Len(a) /\ ~(i <= Len(onto))
            BY <3>2, <3>4, <3>5, <3>7, <4>2
          <6> QED
            BY <3>4, <3>5, <3>6, <6>1
        <5>2. i - Len(onto) \in 1 .. Len(p) - Len(from) /\ i - Len(onto) \in 1 .. Len(q) - Len(from)
          BY <3>1, <3>2, <3>4, <4>2
        <5>3. a[i - Len(onto)] = p[Len(from) + (i - Len(onto))] /\ b[i - Len(onto)] = q[Len(from) + (i - Len(onto))]
          BY <3>2, <3>3, <5>2
        <5>4. Len(from) + (i - Len(onto)) \in 1 .. Len(p)
          BY <3>2, <3>4, <5>2
        <5> QED
          BY <3>1, <5>1, <5>3, <5>4
      <4>3. CASE i = Len(onto) + Len(a) + 1
        <5>1. u[i] = b[i - Len(onto)] /\ i - Len(onto) = Len(a) + 1
          BY <3>2, <3>4, <3>5, <3>7, <4>3
        <5>2. Len(a) + 1 \in 1 .. Len(q) - Len(from) /\ Len(from) + (Len(a) + 1) = Len(p) + 1
          BY <3>1, <3>2
        <5> QED
          BY <3>1, <3>3, <3>6, <4>3, <5>1, <5>2
      <4> QED
        BY <3>2, <3>4, <3>6, <3>7, <4>1, <4>2, <4>3
    <3>9. u = v
      BY <3>5, <3>6, <3>7, <3>8, SeqEqual
    <3>10. Onto(from, onto, q) = u /\ Append(Onto(from, onto, p), y) = v
      BY <2>1, <2>3 DEF Onto, u, v, a, b
    <3> QED
      BY <3>9, <3>10 DEF q
  <2> QED
    BY <2>2, <2>3
<1> QED
  BY <1>2, <1>3, <1>4 DEF GoesDown

\* What zfs rename changes of the objects: the children of two directories,
\* or of one.
LEMMA MovedObjects ==
  ASSUME NEW mos, IsFcn(mos), NEW d \in DOMAIN mos, NEW to \in DOMAIN mos, IsDir(mos[d]), IsDir(mos[to]),
         NEW n, NEW m
  PROVE  IsMoved(Moved(mos, d, n, to, m), mos, d, n, to, m)
<1> DEFINE kid == Kid(mos, d, n)
           k == Without(mos[d].kids, {n})
           r == Dir(mos[d].head, mos[d].origin, k, mos[d].root)
           left == Put(mos, d, r)
           l == Put(left[to].kids, m, kid)
           q == Dir(left[to].head, left[to].origin, l, left[to].root)
           new == Put(left, to, q)
<1>1. IsWithout(k, mos[d].kids, {n})
  BY WithoutChanges
<1>2. IsFcn(k) /\ DOMAIN k = DOMAIN mos[d].kids \ {n} /\ \A y \in DOMAIN k : k[y] = mos[d].kids[y]
  BY <1>1 DEF IsWithout
<1>3. [mos EXCEPT ![d].kids = Without(@, {n})] = left
  <2>1. [mos EXCEPT ![d].kids = Without(@, {n})] = [mos EXCEPT ![d] = [mos[d] EXCEPT !.kids = k]]
    BY Zenon DEF k
  <2>2. [mos[d] EXCEPT !.kids = k] = r
    BY DirChanges
  <2> HIDE DEF r
  <2>3. [mos EXCEPT ![d] = r] = left
    BY ExceptIsPut
  <2> HIDE DEF left
  <2> QED
    BY <2>1, <2>2, <2>3
<1> HIDE DEF k
<1>4. /\ r.is = "dir" /\ r.head = mos[d].head /\ r.origin = mos[d].origin /\ r.kids = k /\ IsDir(r)
      /\ r.root = mos[d].root
  BY <1>2, DirFields
<1> HIDE DEF r
<1>5. IsPut(left, mos, d, r)
  BY PutChanges
<1> HIDE DEF left
<1>6. /\ DOMAIN left = DOMAIN mos /\ left[d] = r /\ (\A z \in DOMAIN mos : z # d => left[z] = mos[z])
      /\ IsDir(left[to]) /\ left[to].is = "dir" /\ left[to].head = mos[to].head /\ left[to].origin = mos[to].origin
      /\ left[to].root = mos[to].root /\ left[to].kids = IF to = d THEN k ELSE mos[to].kids
  BY <1>4, <1>5 DEF IsPut, IsDir
<1>7. IsPut(l, left[to].kids, m, kid)
  BY PutChanges
<1>8. Moved(mos, d, n, to, m) = new
  <2>1. Moved(mos, d, n, to, m) = [left EXCEPT ![to].kids = Put(@, m, Kid(mos, d, n))]
    BY <1>3 DEF Moved
  <2>2. [left EXCEPT ![to].kids = Put(@, m, Kid(mos, d, n))] = [left EXCEPT ![to] = [left[to] EXCEPT !.kids = l]]
    BY Zenon DEF l, kid
  <2>3. [left[to] EXCEPT !.kids = l] = q
    BY <1>6, DirChanges
  <2> HIDE DEF q
  <2>4. [left EXCEPT ![to] = q] = new
    BY <1>6, ExceptIsPut
  <2> HIDE DEF new
  <2> QED
    BY <2>1, <2>2, <2>3, <2>4
<1> HIDE DEF l, kid
<1>9. IsFcn(l) /\ DOMAIN l = DOMAIN left[to].kids \cup {m} /\ l[m] = kid
      /\ \A y \in DOMAIN left[to].kids : y # m => l[y] = left[to].kids[y]
  BY <1>7 DEF IsPut
<1>10. /\ q.is = "dir" /\ q.head = mos[to].head /\ q.origin = mos[to].origin /\ q.kids = l /\ IsDir(q)
       /\ q.root = mos[to].root
  BY <1>6, <1>9, DirFields
<1> HIDE DEF q
<1>11. IsPut(new, left, to, q)
  BY PutChanges
<1> HIDE DEF new
<1>12. DOMAIN new = DOMAIN mos /\ IsFcn(new) /\ new[to] = q /\ (\A z \in DOMAIN mos : z # to => new[z] = left[z])
  BY <1>6, <1>11 DEF IsPut
<1>13. CASE to = d
  <2>1. \A z \in DOMAIN mos : z \notin {d, to} => new[z] = mos[z]
    BY <1>6, <1>12
  <2>2. DOMAIN l = (DOMAIN mos[d].kids \ {n}) \cup {m} /\ \A y \in DOMAIN l : l[y] = IF y = m THEN kid ELSE mos[d].kids[y]
    BY <1>2, <1>6, <1>9, <1>13
  <2> QED
    BY <1>8, <1>10, <1>12, <1>13, <2>1, <2>2 DEF IsMoved, kid
<1>14. CASE to # d
  <2>1. \A z \in DOMAIN mos : z \notin {d, to} => new[z] = mos[z]
    BY <1>6, <1>12
  <2>2. DOMAIN l = DOMAIN mos[to].kids \cup {m} /\ \A y \in DOMAIN l : l[y] = IF y = m THEN kid ELSE mos[to].kids[y]
    BY <1>6, <1>9, <1>14
  <2>3. new[d] = r
    BY <1>6, <1>12, <1>14
  <2> QED
    BY <1>2, <1>4, <1>8, <1>10, <1>12, <1>14, <2>1, <2>2, <2>3 DEF IsMoved, kid
<1> QED
  BY <1>13, <1>14

\* zfs rename keeps the tree: what was below the old place is below the new.
LEMMA MovedIsSound ==
  ASSUME NEW t \in Nat, NEW mos, NEW live, Sound(mos, live, t), NEW d \in Dirs(mos), NEW n \in Kids(mos, d),
         NEW to \in Dirs(mos), NEW m \in AllowedNames \ {"$ORIGIN"}, m \notin DOMAIN mos[to].kids,
         NEW from, from = Append(PathIn(mos, live, d), n), NEW onto, onto = Append(PathIn(mos, live, to), m),
         ~IsPrefix(from, PathIn(mos, live, to)),
         NEW new, IsMoved(new, mos, d, n, to, m), NEW now, IsRenamed(now, live, from, onto)
  PROVE  Sound(new, now, t + 1)
<1> DEFINE P(x) == PathIn(mos, live, x)
           kid == Kid(mos, d, n)
<1>1. /\ Objects(mos) /\ HeadsKnown(mos, live) /\ SnapsKnown(mos, live) /\ Tree(mos, live)
      /\ Origins(mos) /\ Deads(mos) /\ Users(mos, live, t)
  BY DEF Sound
<1>2. /\ \A x \in Dirs(mos) : P(x) \in Seq(AllowedNames)
      /\ n \in AllowedNames /\ kid \in Dirs(mos) \ {Root} /\ P(kid) = from
      /\ from \in Seq(AllowedNames) /\ onto \in Seq(AllowedNames) /\ from # <<>>
  <2>1. \A x \in Dirs(mos) : P(x) \in Seq(AllowedNames)
    BY PathTypes
  <2>2. n \in AllowedNames /\ kid \in Dirs(mos) \ {Root} /\ P(kid) = from
    BY <1>1 DEF Tree
  <2>3. P(d) \in Seq(AllowedNames) /\ P(to) \in Seq(AllowedNames)
    BY <2>1
  <2> HIDE DEF P
  <2> DEFINE p == P(d)
             q == P(to)
  <2> HIDE DEF p, q
  <2>4. p \in Seq(AllowedNames) /\ q \in Seq(AllowedNames) /\ n \in AllowedNames /\ m \in AllowedNames
    BY <2>2, <2>3 DEF p, q
  <2>5. Append(p, n) \in Seq(AllowedNames) /\ Append(q, m) \in Seq(AllowedNames)
    BY <2>4
  <2>6. Append(p, n) # <<>>
    BY <2>4
  <2> QED
    BY <2>1, <2>2, <2>5, <2>6 DEF P, p, q
<1>3. GoesDown(AllowedNames, from, onto)
  <2>1. from \in Seq(AllowedNames) /\ onto \in Seq(AllowedNames)
    BY <1>2
  <2> QED
    BY <2>1, OntoGoesDown
<1>4. /\ \A x \in DOMAIN mos : mos[x].is # "dir" => new[x] = mos[x]
      /\ \A x \in DOMAIN mos : mos[x].is = "dir" =>
           IsDir(new[x]) /\ new[x].is = "dir" /\ new[x].head = mos[x].head /\ new[x].origin = mos[x].origin
      /\ DOMAIN new = DOMAIN mos /\ IsFcn(new)
  <2>1. d \in DOMAIN mos /\ mos[d].is = "dir" /\ to \in DOMAIN mos /\ mos[to].is = "dir"
    BY DEF Dirs
  <2>2. \A x \in DOMAIN mos : mos[x].is = "dir" => IsDir(mos[x])
    BY <1>1 DEF Objects, IsSet, IsDead, IsBpobj
  <2> QED
    BY <2>1, <2>2 DEF IsMoved
<1>5. /\ Dirs(new) = Dirs(mos)
      /\ \A x \in Dirs(mos) :
           /\ x \in DOMAIN mos /\ mos[x].is = "dir" /\ new[x].head = mos[x].head /\ new[x].origin = mos[x].origin
           /\ IsSetOf(mos, x, mos[x].head) /\ new[mos[x].head] = mos[mos[x].head] /\ HeadOf(new, x) = HeadOf(mos, x)
  BY <1>1, <1>4 DEF Dirs, HeadsKnown, IsSetOf, HeadOf
<1>6. ASSUME NEW x \in Dirs(mos)
      PROVE  SnapsOf(new, x) = SnapsOf(mos, x) /\ \A s : Snap(new, x, s) = Snap(mos, x, s)
  BY <1>5 DEF SnapsOf, Snap
<1>7. \A x \in Dirs(mos) : \A s \in SnapsOf(mos, x) :
        IsSetOf(mos, x, Snap(mos, x, s)) /\ new[Snap(mos, x, s)] = mos[Snap(mos, x, s)]
  BY <1>1, <1>4 DEF SnapsKnown, IsSetOf
<1>8. ASSUME NEW x \in Dirs(mos)
      PROVE  /\ Kids(new, x) = (Kids(mos, x) \ {y \in {n} : x = d}) \cup {y \in {m} : x = to}
             /\ \A y \in Kids(new, x) : Kid(new, x, y) = IF x = to /\ y = m THEN kid ELSE Kid(mos, x, y)
  <2>1. CASE x \in {d, to}
    <3>1. /\ DOMAIN new[x].kids = (DOMAIN mos[x].kids \ {y \in {n} : x = d}) \cup {y \in {m} : x = to}
          /\ \A y \in DOMAIN new[x].kids : new[x].kids[y] = IF x = to /\ y = m THEN kid ELSE mos[x].kids[y]
      BY <2>1 DEF IsMoved
    <3> QED
      BY <3>1 DEF Kids, Kid
  <2>2. CASE x \notin {d, to}
    <3>1. new[x] = mos[x]
      BY <1>5, <2>2 DEF IsMoved
    <3> QED
      BY <2>2, <3>1 DEF Kids, Kid
  <2> QED
    BY <2>1, <2>2
<1> HIDE DEF kid
<1>9. \A x \in Dirs(mos) : PathIn(new, now, x) = Onto(from, onto, P(x))
  BY <1>1, <1>5 DEF PathIn, IsRenamed, HeadsKnown
<1> DEFINE Q(x) == PathIn(new, now, x)
<1> HIDE DEF P, Q
<1>10. HeadsKnown(new, now)
  <2> SUFFICES ASSUME NEW x \in Dirs(mos)
               PROVE  /\ IsSetOf(new, x, new[x].head) /\ HeadOf(new, x).next = NoObject
                      /\ HeadOf(new, x).guid \in DOMAIN now /\ now[HeadOf(new, x).guid].snap = NoSnap
    BY <1>5 DEF HeadsKnown
  <2> QED
    BY <1>1, <1>4, <1>5 DEF HeadsKnown, IsSetOf, IsRenamed
<1>11. SnapsKnown(new, now)
  <2> SUFFICES ASSUME NEW x \in Dirs(mos), NEW s \in SnapsOf(mos, x)
               PROVE  /\ IsSetOf(new, x, Snap(new, x, s)) /\ new[Snap(new, x, s)].guid \in DOMAIN now
                      /\ now[new[Snap(new, x, s)].guid].snap = {s}
                      /\ now[new[Snap(new, x, s)].guid].path = Q(x)
    BY <1>5, <1>6 DEF SnapsKnown, Q
  <2>1. /\ mos[Snap(mos, x, s)].guid \in DOMAIN live /\ live[mos[Snap(mos, x, s)].guid].snap = {s}
        /\ live[mos[Snap(mos, x, s)].guid].path = P(x)
    BY <1>1 DEF SnapsKnown, P
  <2>2. Q(x) = Onto(from, onto, P(x))
    BY <1>9 DEF Q
  <2>3. /\ mos[Snap(mos, x, s)].guid \in DOMAIN now /\ now[mos[Snap(mos, x, s)].guid].snap = {s}
        /\ now[mos[Snap(mos, x, s)].guid].path = Q(x)
    BY <2>1, <2>2 DEF IsRenamed
  <2>4. Snap(new, x, s) = Snap(mos, x, s) /\ new[Snap(mos, x, s)] = mos[Snap(mos, x, s)]
    BY <1>6, <1>7
  <2>5. IsSetOf(new, x, Snap(mos, x, s))
    BY <1>4, <1>7, <2>4 DEF IsSetOf
  <2> QED
    BY <2>3, <2>4, <2>5
<1>12. Tree(new, now)
  <2>1. Root \in Dirs(mos) /\ P(Root) = <<>>
    BY <1>1 DEF Tree, P
  <2>2. Q(Root) = <<>>
    <3>1. ~IsPrefix(from, <<>>)
      <4>1. Len(from) > 0 /\ Len(<<>>) = 0
        BY <1>2, EmptySeq
      <4> QED
        BY <4>1 DEF IsPrefix
    <3> QED
      BY <1>9, <2>1, <3>1 DEF Onto, Q
  <2>3. \A p \in Seq(AllowedNames) : \A y \in AllowedNames : from # Append(p, y) =>
          Onto(from, onto, Append(p, y)) = Append(Onto(from, onto, p), y)
    BY <1>3 DEF GoesDown
  <2>4. Onto(from, onto, from) = onto
    BY <1>3 DEF GoesDown
  <2>5. ASSUME NEW x \in Dirs(mos), NEW y \in Kids(new, x)
        PROVE  y \in AllowedNames /\ Kid(new, x, y) \in Dirs(mos) \ {Root} /\ Q(Kid(new, x, y)) = Append(Q(x), y)
    <3>1. CASE x = to /\ y = m
      <4>1. Q(x) = P(x) /\ P(x) = PathIn(mos, live, to)
        BY <1>9, <3>1 DEF Onto, P, Q
      <4>2. Q(kid) = onto
        BY <1>2, <1>9, <2>4 DEF Q
      <4>3. Kid(new, x, y) = kid
        BY <1>8, <3>1
      <4> QED
        BY <1>2, <3>1, <4>1, <4>2, <4>3
    <3>2. CASE ~(x = to /\ y = m)
      <4>1. y \in Kids(mos, x) /\ ~(x = d /\ y = n) /\ Kid(new, x, y) = Kid(mos, x, y)
        BY <1>8, <3>2
      <4>2. y \in AllowedNames /\ Kid(mos, x, y) \in Dirs(mos) \ {Root} /\ P(Kid(mos, x, y)) = Append(P(x), y)
        BY <1>1, <4>1 DEF Tree, P
      <4>3. P(x) \in Seq(AllowedNames) /\ P(d) \in Seq(AllowedNames) /\ from = Append(P(d), n)
        BY <1>2 DEF P
      <4>4. from # Append(P(x), y)
        <5> SUFFICES ASSUME from = Append(P(x), y) PROVE FALSE
          OBVIOUS
        <5>1. Append(P(d), n) = Append(P(x), y)
          BY <4>3
        <5>2. P(d) = P(x) /\ n = y
          <6> DEFINE p == P(d)
                     q == P(x)
          <6>1. p \in Seq(AllowedNames) /\ q \in Seq(AllowedNames) /\ Append(p, n) = Append(q, y)
            BY <4>3, <5>1
          <6>2. n \in AllowedNames /\ y \in AllowedNames
            BY <1>2, <4>2
          <6> HIDE DEF p, q
          <6>3. p = q /\ n = y
            BY <6>1, <6>2, AppendTells
          <6> QED
            BY <6>3 DEF p, q
        <5>3. d = x
          BY <5>2, PathsTellDirs DEF P
        <5> QED
          BY <4>1, <5>2, <5>3
      <4>5. Onto(from, onto, Append(P(x), y)) = Append(Onto(from, onto, P(x)), y)
        BY <2>3, <4>2, <4>3, <4>4
      <4>6. Q(Kid(mos, x, y)) = Append(Q(x), y)
        BY <1>9, <4>2, <4>5 DEF Q
      <4> QED
        BY <4>1, <4>2, <4>6
    <3> QED
      BY <3>1, <3>2
  <2>6. ASSUME NEW x \in Dirs(mos) \ {Root}
        PROVE  \E p \in Dirs(mos) : \E y \in Kids(new, p) : Kid(new, p, y) = x
    <3>1. PICK p \in Dirs(mos) : \E y \in Kids(mos, p) : Kid(mos, p, y) = x
      BY <1>1 DEF Tree
    <3>2. PICK y \in Kids(mos, p) : Kid(mos, p, y) = x
      BY <3>1
    <3>3. CASE p = d /\ y = n
      <4>1. m \in Kids(new, to) /\ Kid(new, to, m) = kid
        BY <1>8
      <4> QED
        BY <3>2, <3>3, <4>1 DEF kid
    <3>4. CASE ~(p = d /\ y = n)
      <4>1. y \in Kids(new, p) /\ ~(p = to /\ y = m)
        BY <1>8, <3>4 DEF Kids
      <4>2. Kid(new, p, y) = Kid(mos, p, y)
        BY <1>8, <4>1
      <4> QED
        BY <3>2, <4>1, <4>2
    <3> QED
      BY <3>3, <3>4
  <2> QED
    BY <1>5, <2>1, <2>2, <2>5, <2>6 DEF Tree, Q
<1>13. Objects(new)
  <2>1. \A z \in DOMAIN new : IsDir(new[z]) \/ IsSet(new[z]) \/ IsDead(new[z]) \/ IsBpobj(new[z])
    BY <1>1, <1>4 DEF Objects
  <2>2. /\ new[OriginDir].is = "dir" /\ new[OriginSnap].is = "set" /\ new[OriginSnap].dir = OriginDir
        /\ new[FreeList].is = "bpobj" /\ new[EmptyList].is = "bpobj"
    BY <1>1, <1>4 DEF Objects, Kept
  <2>3. ASSUME NEW z \in DOMAIN new, new[z].is = "dead", NEW i \in DOMAIN new[z].lists
        PROVE  new[z].lists[i] \in DOMAIN new /\ new[new[z].lists[i]].is = "bpobj"
    <3>1. z \in DOMAIN mos /\ mos[z].is = "dead" /\ new[z] = mos[z]
      BY <1>4, <2>3
    <3>2. mos[z].lists[i] \in DOMAIN mos /\ mos[mos[z].lists[i]].is = "bpobj"
      BY <1>1, <2>3, <3>1 DEF Objects
    <3> QED
      BY <1>4, <3>1, <3>2
  <2> QED
    BY <1>1, <1>4, <2>1, <2>2, <2>3 DEF Objects
<1>14. Origins(new)
  <2> SUFFICES ASSUME NEW x \in Dirs(mos), mos[x].origin \notin {NoObject, OriginSnap}
               PROVE  /\ \E p \in Dirs(mos) : \E s \in SnapsOf(new, p) : mos[x].origin = Snap(new, p, s)
                      /\ \A s \in SnapsOf(new, x) : new[Snap(new, x, s)].txg > new[mos[x].origin].txg
    BY <1>5 DEF Origins
  <2>1. PICK p \in Dirs(mos) : \E s \in SnapsOf(mos, p) : mos[x].origin = Snap(mos, p, s)
    BY <1>1 DEF Origins
  <2>2. PICK s \in SnapsOf(mos, p) : mos[x].origin = Snap(mos, p, s)
    BY <2>1
  <2>3. new[mos[x].origin] = mos[mos[x].origin]
    BY <1>7, <2>2
  <2>4. \A u \in SnapsOf(mos, x) : mos[Snap(mos, x, u)].txg > mos[mos[x].origin].txg
    BY <1>1 DEF Origins
  <2> QED
    BY <1>6, <1>7, <2>2, <2>3, <2>4
<1>15. ASSUME NEW x, IsKnown(new, x)
       PROVE  IsKnown(mos, x) /\ new[x] = mos[x]
  <2>1. PICK p \in Dirs(mos) : x = mos[p].head \/ \E s \in SnapsOf(mos, p) : x = Snap(mos, p, s)
    BY <1>5, <1>6, <1>15 DEF IsKnown
  <2> QED
    BY <1>5, <1>7, <2>1 DEF IsKnown
<1>16. Deads(new)
  <2>1. \A x : IsKnown(mos, x) => mos[x].dead \in DOMAIN mos /\ mos[mos[x].dead].is = "dead"
    BY <1>1 DEF Deads
  <2>2. \A x, y : IsKnown(mos, x) /\ IsKnown(mos, y) /\ mos[x].dead = mos[y].dead => x = y
    BY <1>1 DEF Deads
  <2>3. ASSUME NEW x, IsKnown(new, x)
        PROVE  new[x].dead \in DOMAIN new /\ new[new[x].dead].is = "dead"
    <3>1. mos[x].dead \in DOMAIN mos /\ mos[mos[x].dead].is = "dead" /\ new[x] = mos[x]
      BY <1>15, <2>1, <2>3
    <3> QED
      BY <1>4, <3>1
  <2>4. ASSUME NEW x, NEW y, IsKnown(new, x), IsKnown(new, y), new[x].dead = new[y].dead
        PROVE  x = y
    BY <1>15, <2>2, <2>4
  <2> QED
    BY <2>3, <2>4 DEF Deads
<1>17. Users(new, now, t + 1)
  <2>1. ASSUME NEW g \in DOMAIN now
        PROVE  /\ g \in Nat /\ g <= 105 + (t + 1) /\ now[g].path \in Seq(AllowedNames)
               /\ IsUser(now[g]) /\ (now[g].snap = NoSnap => \E p \in Dirs(new) : HeadOf(new, p).guid = g)
    <3>1. /\ g \in DOMAIN live /\ IsUser(now[g]) /\ now[g].snap = live[g].snap
          /\ now[g].path = Onto(from, onto, live[g].path)
      BY DEF IsRenamed
    <3>2. g \in Nat /\ g <= 105 + t /\ live[g].path \in Seq(AllowedNames)
          /\ (live[g].snap = NoSnap => \E p \in Dirs(mos) : HeadOf(mos, p).guid = g)
      BY <1>1, <3>1 DEF Users
    <3>3. g <= 105 + (t + 1)
      BY <3>2
    <3>4. \A p \in Seq(AllowedNames) : Onto(from, onto, p) \in Seq(AllowedNames)
      BY <1>3 DEF GoesDown
    <3>5. now[g].path \in Seq(AllowedNames)
      BY <3>1, <3>2, <3>4
    <3>6. now[g].snap = NoSnap => \E p \in Dirs(new) : HeadOf(new, p).guid = g
      BY <1>5, <3>1, <3>2
    <3> QED
      BY <3>1, <3>2, <3>3, <3>5, <3>6
  <2>2. ASSUME NEW z \in DOMAIN new, new[z].is = "set"
        PROVE  new[z].txg \in Nat /\ new[z].txg <= t + 1
    <3>1. z \in DOMAIN mos /\ mos[z].is = "set" /\ new[z] = mos[z]
      BY <1>4, <2>2
    <3>2. mos[z].txg \in Nat /\ mos[z].txg <= t
      BY <1>1, <3>1 DEF Users
    <3> QED
      BY <3>1, <3>2
  <2> QED
    BY <2>1, <2>2 DEF Users, IsUser, IsRenamed
<1> QED
  BY <1>10, <1>11, <1>12, <1>13, <1>14, <1>16, <1>17 DEF Sound

-----------------------------------------------------------------------------
(* The pool the history begins with                                        *)

\* The pool begins with these objects.
LEMMA UsedPoolObjects ==
  ASSUME NEW snapped \in BOOLEAN, NEW cloned \in BOOLEAN
  PROVE  /\ IsUsedPool(UsedPool(snapped, cloned), snapped, cloned)
         /\ LooksUsed(UsedPool(snapped, cloned), snapped, cloned)
<1> DEFINE volume == Shape("zvol", 1, 1)
           kids == [n \in {"$ORIGIN", "a"} \cup (IF cloned THEN {"b"} ELSE {}) |->
                     CASE n = "$ORIGIN" -> OriginDir [] n = "a" -> 10 [] OTHER -> 15]
           snaps == FirstSnaps(snapped)
           since == FirstLists(snapped)
           mos == UsedPool(snapped, cloned)
           filesystem == Shape("zfs", 0, 1)
           last == IF snapped THEN 13 ELSE OriginSnap
           objects == {1, 2, 3, 4, 5, 6, 8, 9, 10, 11, 12} \cup {o \in {13, 14} : snapped} \cup {o \in {15, 16, 17} : cloned}
<1>1. IsFcn(kids) /\ DOMAIN kids \ {"$ORIGIN"} = {"a"} \cup {n \in {"b"} : cloned}
      /\ kids["a"] = 10 /\ (cloned => kids["b"] = 15) /\ "$ORIGIN" \in DOMAIN kids /\ kids["$ORIGIN"] = OriginDir
  BY DEF IsFcn
<1>2. IsFcn(snaps) /\ DOMAIN snaps = {s \in {"s"} : snapped} /\ (snapped => snaps["s"] = 13)
  BY NothingIsEmpty DEF IsFcn, FirstSnaps
<1>3. \A k \in DOMAIN since : since[k] = EmptyList
  BY NothingIsEmpty DEF FirstLists
<1>4. DOMAIN Nothing = {} /\ IsFcn(Nothing)
  BY NothingIsEmpty
<1>5. mos = [o \in objects |->
        CASE o = 1 -> Dir(2, OriginSnap, kids, NoObject)
          [] o = 2 -> Set(1, OriginSnap, NoObject, Nothing, 100, 1, filesystem, 6)
          [] o = 3 -> Dir(4, NoObject, Nothing, NoObject)
          [] o = 4 -> Set(3, OriginSnap, NoObject, Nothing, 101, 1, filesystem, NoObject)
          [] o = 5 -> Set(3, NoObject, 4, Nothing, 102, 1, filesystem, NoObject)
          [] o = 6 -> Dead(0, Nothing)
          [] o \in {8, 9} -> Bpobj(0)
          [] o = 10 -> Dir(11, OriginSnap, Nothing, 10)
          [] o = 11 -> Set(10, last, NoObject, snaps, 103, 1, volume, 12)
          [] o = 12 -> Dead(0, since)
          [] o = 13 -> Set(10, OriginSnap, 11, Nothing, 104, 1, volume, 14)
          [] o = 14 -> Dead(0, Nothing)
          [] o = 15 -> Dir(16, 13, Nothing, 10)
          [] o = 16 -> Set(15, 13, NoObject, Nothing, 105, 1, volume, 17)
          [] OTHER -> Dead(0, since)]
  <2> HIDE DEF kids, volume, filesystem
  <2>1. {Root, 2, OriginDir, 4, OriginSnap, 6, FreeList, EmptyList, 10, 11, 12} \cup
        (IF snapped THEN {13, 14} ELSE {}) \cup (IF cloned THEN {15, 16, 17} ELSE {}) = objects
    BY DEF Root, OriginDir, OriginSnap, FreeList, EmptyList
  <2> HIDE DEF objects
  <2> QED
    BY <2>1 DEF UsedPool, FirstSnaps, FirstLists, Root, OriginDir, OriginSnap, FreeList, EmptyList, kids, volume, filesystem
<1> HIDE DEF kids, snaps, since, volume, filesystem, mos, last
<1>6. DOMAIN mos = objects /\ IsFcn(mos)
  BY <1>5 DEF IsFcn
<1>7. /\ mos[1] = Dir(2, OriginSnap, kids, NoObject) /\ mos[2] = Set(1, OriginSnap, NoObject, Nothing, 100, 1, filesystem, 6)
      /\ mos[3] = Dir(4, NoObject, Nothing, NoObject)
      /\ mos[4] = Set(3, OriginSnap, NoObject, Nothing, 101, 1, filesystem, NoObject)
      /\ mos[5] = Set(3, NoObject, 4, Nothing, 102, 1, filesystem, NoObject)
      /\ mos[10] = Dir(11, OriginSnap, Nothing, 10)
      /\ mos[11] = Set(10, last, NoObject, snaps, 103, 1, volume, 12)
  BY <1>5
<1>8. /\ mos[6] = Dead(0, Nothing) /\ mos[12] = Dead(0, since) /\ mos[8] = Bpobj(0) /\ mos[9] = Bpobj(0)
      /\ snapped => mos[14] = Dead(0, Nothing) /\ mos[13] = Set(10, OriginSnap, 11, Nothing, 104, 1, volume, 14)
      /\ cloned => /\ mos[15] = Dir(16, 13, Nothing, 10) /\ mos[17] = Dead(0, since)
                   /\ mos[16] = Set(15, 13, NoObject, Nothing, 105, 1, volume, 17)
  BY <1>5
<1> HIDE DEF objects
<1>9. /\ IsDir(mos[1]) /\ mos[1].is = "dir" /\ mos[1].head = 2 /\ mos[1].origin = OriginSnap /\ mos[1].kids = kids
      /\ mos[1].root = NoObject /\ IsDir(mos[3]) /\ mos[3].is = "dir" /\ mos[3].head = 4
      /\ IsDir(mos[10]) /\ mos[10].is = "dir" /\ mos[10].head = 11 /\ mos[10].origin = OriginSnap
      /\ mos[10].kids = Nothing /\ mos[10].root = 10
  BY <1>1, <1>4, <1>7, DirFields
<1>10. /\ IsSet(mos[2]) /\ mos[2].is = "set" /\ mos[2].dir = 1 /\ mos[2].next = NoObject /\ mos[2].snaps = Nothing
       /\ mos[2].guid = 100 /\ mos[2].txg = 1 /\ mos[2].dead = 6 /\ mos[2].shape = filesystem
  BY <1>4, <1>7, SetFields
<1>11. IsSet(mos[4]) /\ mos[4].is = "set" /\ mos[4].txg = 1 /\ mos[4].dir = 3 /\ mos[4].prev = OriginSnap
  BY <1>4, <1>7, SetFields
<1>12. IsSet(mos[5]) /\ mos[5].is = "set" /\ mos[5].txg = 1 /\ mos[5].dir = OriginDir
  BY <1>4, <1>7, SetFields DEF OriginDir
<1>13. /\ IsSet(mos[11]) /\ mos[11].is = "set" /\ mos[11].dir = 10 /\ mos[11].next = NoObject /\ mos[11].snaps = snaps
       /\ mos[11].guid = 103 /\ mos[11].txg = 1 /\ mos[11].dead = 12 /\ mos[11].shape = volume
  BY <1>2, <1>7, SetFields
<1>14. \A o \in {8, 9} : IsBpobj(mos[o]) /\ mos[o].is = "bpobj"
  BY <1>8, BpobjFields
<1>15. /\ IsDead(mos[6]) /\ mos[6].is = "dead" /\ mos[6].lists = Nothing
       /\ IsDead(mos[12]) /\ mos[12].is = "dead" /\ mos[12].lists = since
       /\ snapped => IsDead(mos[14]) /\ mos[14].is = "dead" /\ mos[14].lists = Nothing
       /\ cloned => IsDead(mos[17]) /\ mos[17].is = "dead" /\ mos[17].lists = since
  BY <1>8, DeadFields
<1>16. \A o \in {6, 12, 14, 17} \cap DOMAIN mos :
         IsDead(mos[o]) /\ mos[o].is = "dead" /\ \A k \in DOMAIN mos[o].lists : mos[o].lists[k] = EmptyList
  BY <1>3, <1>4, <1>6, <1>15 DEF objects
<1>17. ASSUME snapped
       PROVE  /\ IsSet(mos[13]) /\ mos[13].is = "set" /\ mos[13].dir = 10 /\ mos[13].guid = 104
              /\ mos[13].txg = 1 /\ mos[13].dead = 14 /\ mos[13].shape = volume
  BY <1>4, <1>8, <1>17, SetFields
<1>18. ASSUME cloned
       PROVE  /\ IsDir(mos[15]) /\ mos[15].is = "dir" /\ mos[15].head = 16 /\ mos[15].origin = 13 /\ mos[15].kids = Nothing
              /\ mos[15].root = 10 /\ mos[16].shape = volume
              /\ IsSet(mos[16]) /\ mos[16].is = "set" /\ mos[16].dir = 15 /\ mos[16].next = NoObject
              /\ mos[16].snaps = Nothing /\ mos[16].guid = 105 /\ mos[16].txg = 1 /\ mos[16].dead = 17
  <2>1. /\ IsDir(mos[15]) /\ mos[15].is = "dir" /\ mos[15].head = 16 /\ mos[15].origin = 13 /\ mos[15].kids = Nothing
        /\ mos[15].root = 10
    BY <1>4, <1>8, <1>18, DirFields
  <2>2. /\ IsSet(mos[16]) /\ mos[16].is = "set" /\ mos[16].dir = 15 /\ mos[16].next = NoObject
        /\ mos[16].snaps = Nothing /\ mos[16].guid = 105 /\ mos[16].txg = 1 /\ mos[16].dead = 17 /\ mos[16].shape = volume
    BY <1>4, <1>8, <1>18, SetFields
  <2> QED
    BY <2>1, <2>2
<1>19. IsUsedPool(mos, snapped, cloned)
  BY <1>1, <1>2, <1>4, <1>6, <1>9, <1>10, <1>11, <1>12, <1>13, <1>14, <1>16, <1>17, <1>18 DEF IsUsedPool, objects
<1>20. LooksUsed(mos, snapped, cloned)
  BY <1>1, <1>9, <1>10, <1>11, <1>13, <1>17, <1>18 DEF LooksUsed, filesystem, volume
<1> QED
  BY <1>19, <1>20 DEF mos

\* A line of `zfs list`.
LEMMA SeenFields ==
  ASSUME NEW path, NEW snap, NEW shape, NEW clone, NEW locked
  PROVE  LET e == Seen(path, snap, shape, clone, locked) IN e.path = path /\ e.snap = snap /\ IsUser(e)
BY DEF Seen, IsUser

\* And the rest of it.
LEMMA SeenLooks ==
  ASSUME NEW path, NEW snap, NEW shape, NEW clone, NEW locked
  PROVE  LooksSeen(Seen(path, snap, shape, clone, locked), shape, clone, locked)
BY DEF Seen, LooksSeen

\* And the user sees these datasets.
LEMMA FirstIsSeen ==
  ASSUME NEW snapped \in BOOLEAN, NEW cloned \in BOOLEAN
  PROVE  IsSeenFirst(SeenFirst(snapped, cloned), snapped, cloned) /\ LooksFirst(SeenFirst(snapped, cloned), snapped, cloned)
<1> DEFINE volume == Shape("zvol", 1, 1)
           filesystem == Shape("zfs", 0, 1)
           live == SeenFirst(snapped, cloned)
           seen == {100, 103} \cup {g \in {104} : snapped} \cup {g \in {105} : cloned}
           r100 == Seen(<<>>, NoSnap, filesystem, FALSE, FALSE)
           r103 == Seen(<<"a">>, NoSnap, volume, FALSE, TRUE)
           r104 == Seen(<<"a">>, {"s"}, volume, FALSE, TRUE)
           r105 == Seen(<<"b">>, NoSnap, volume, TRUE, TRUE)
<1> HIDE DEF volume, filesystem
<1>1. /\ r100.path = <<>> /\ r100.snap = NoSnap /\ IsUser(r100)
      /\ r103.path = <<"a">> /\ r103.snap = NoSnap /\ IsUser(r103)
      /\ r104.path = <<"a">> /\ r104.snap = {"s"} /\ IsUser(r104)
      /\ r105.path = <<"b">> /\ r105.snap = NoSnap /\ IsUser(r105)
  <2>1. r100.path = <<>> /\ r100.snap = NoSnap /\ IsUser(r100)
    BY SeenFields
  <2>2. r103.path = <<"a">> /\ r103.snap = NoSnap /\ IsUser(r103)
    BY SeenFields
  <2>3. r104.path = <<"a">> /\ r104.snap = {"s"} /\ IsUser(r104)
    BY SeenFields
  <2>4. r105.path = <<"b">> /\ r105.snap = NoSnap /\ IsUser(r105)
    BY SeenFields
  <2> HIDE DEF r100, r103, r104, r105
  <2> QED
    BY <2>1, <2>2, <2>3, <2>4
<1>2. live = [g \in seen |-> CASE g = 100 -> r100 [] g = 103 -> r103 [] g = 104 -> r104 [] OTHER -> r105]
  <2> HIDE DEF r100, r103, r104, r105
  <2>1. {100, 103} \cup (IF snapped THEN {104} ELSE {}) \cup (IF cloned THEN {105} ELSE {}) = seen
    OBVIOUS
  <2> HIDE DEF seen
  <2> QED
    BY <2>1 DEF SeenFirst, r100, r103, r104, r105, volume, filesystem
<1> HIDE DEF live, r100, r103, r104, r105
<1>3. /\ DOMAIN live = seen /\ IsFcn(live) /\ live[100] = r100 /\ live[103] = r103
      /\ (snapped => live[104] = r104) /\ (cloned => live[105] = r105)
  BY <1>2 DEF IsFcn
<1>4. IsSeenFirst(live, snapped, cloned)
  BY <1>1, <1>3 DEF IsSeenFirst
<1>5. /\ LooksSeen(r100, filesystem, FALSE, FALSE) /\ LooksSeen(r103, volume, FALSE, TRUE)
      /\ LooksSeen(r104, volume, FALSE, TRUE) /\ LooksSeen(r105, volume, TRUE, TRUE)
  BY SeenLooks DEF r100, r103, r104, r105
<1>6. LooksFirst(live, snapped, cloned)
  BY <1>3, <1>5 DEF LooksFirst, filesystem, volume
<1> QED
  BY <1>4, <1>6 DEF live

\* `zpool create` and what follows it make a tree whose user sees it.
LEMMA FirstIsSound ==
  ASSUME NEW snapped \in BOOLEAN, NEW cloned \in BOOLEAN, cloned => snapped
  PROVE  Sound(UsedPool(snapped, cloned), SeenFirst(snapped, cloned), 1)
<1> DEFINE mos == UsedPool(snapped, cloned)
           live == SeenFirst(snapped, cloned)
<1>1. IsUsedPool(mos, snapped, cloned) /\ IsSeenFirst(live, snapped, cloned)
  BY UsedPoolObjects, FirstIsSeen
<1> HIDE DEF mos, live
<1>2. DOMAIN mos = {1, 2, 3, 4, 5, 6, 8, 9, 10, 11, 12} \cup {o \in {13, 14} : snapped} \cup {o \in {15, 16, 17} : cloned}
  BY <1>1 DEF IsUsedPool
<1>3. Dirs(mos) = {1, 10} \cup {o \in {15} : cloned}
  <2>1. \A o \in DOMAIN mos : mos[o].is = "dir" <=> o \in {1, 3, 10, 15}
    <3>1. {1, 3, 10, 15} \cap DOMAIN mos \subseteq {o \in DOMAIN mos : mos[o].is = "dir"}
      BY <1>1, <1>2 DEF IsUsedPool
    <3>2. \A o \in DOMAIN mos : o \notin {1, 3, 10, 15} => mos[o].is \in {"set", "dead", "bpobj"}
      BY <1>1, <1>2 DEF IsUsedPool
    <3> QED
      BY <3>1, <3>2
  <2> QED
    BY <1>2, <2>1 DEF Dirs, OriginDir
<1>4. /\ HeadOf(mos, 1) = mos[2] /\ HeadOf(mos, 10) = mos[11] /\ (cloned => HeadOf(mos, 15) = mos[16])
      /\ SnapsOf(mos, 1) = {} /\ SnapsOf(mos, 10) = {s \in {"s"} : snapped} /\ (cloned => SnapsOf(mos, 15) = {})
      /\ (snapped => Snap(mos, 10, "s") = 13)
  BY <1>1 DEF IsUsedPool, HeadOf, SnapsOf, Snap
<1>5. /\ PathIn(mos, live, 1) = <<>> /\ PathIn(mos, live, 10) = <<"a">> /\ (cloned => PathIn(mos, live, 15) = <<"b">>)
  BY <1>1, <1>4 DEF IsUsedPool, IsSeenFirst, PathIn
<1>6. Objects(mos)
  <2>1. IsFiniteSet(DOMAIN mos)
    <3> DEFINE S == {1, 2, 3, 4, 5, 6, 8, 9, 10, 11, 12, 13, 14, 15, 16, 17}
    <3>1. S \subseteq 1 .. 17 /\ 1 \in Int /\ 17 \in Int
      OBVIOUS
    <3>2. IsFiniteSet(1 .. 17)
      BY <3>1, FS_Interval
    <3>3. DOMAIN mos \subseteq 1 .. 17
      BY <1>2, <3>1
    <3> QED
      BY <3>2, <3>3, FS_Subset
  <2>2. \A o \in DOMAIN mos : IsDir(mos[o]) \/ IsSet(mos[o]) \/ IsDead(mos[o]) \/ IsBpobj(mos[o])
    BY <1>1, <1>2 DEF IsUsedPool
  <2>3. NoObject \notin DOMAIN mos /\ Kept \subseteq DOMAIN mos
    BY <1>2 DEF NoObject, Kept, OriginDir, OriginSnap, FreeList, EmptyList
  <2>4. /\ mos[OriginDir].is = "dir" /\ mos[OriginSnap].is = "set" /\ mos[OriginSnap].dir = OriginDir
        /\ mos[FreeList].is = "bpobj" /\ mos[EmptyList].is = "bpobj"
    BY <1>1 DEF IsUsedPool, OriginDir, OriginSnap, FreeList, EmptyList
  <2>5. ASSUME NEW o \in DOMAIN mos, mos[o].is = "dead", NEW k \in DOMAIN mos[o].lists
        PROVE  mos[o].lists[k] \in DOMAIN mos /\ mos[mos[o].lists[k]].is = "bpobj"
    <3>1. o \in {6, 12, 14, 17}
      BY <1>1, <1>2, <2>5 DEF IsUsedPool
    <3>2. mos[o].lists[k] = EmptyList
      BY <1>1, <2>5, <3>1 DEF IsUsedPool
    <3> QED
      BY <2>3, <2>4, <3>2 DEF Kept
  <2> QED
    BY <1>1, <2>1, <2>2, <2>3, <2>4, <2>5 DEF Objects, IsUsedPool
<1>7. HeadsKnown(mos, live)
  <2> SUFFICES ASSUME NEW d \in Dirs(mos)
               PROVE  /\ IsSetOf(mos, d, mos[d].head) /\ HeadOf(mos, d).next = NoObject
                      /\ HeadOf(mos, d).guid \in DOMAIN live /\ live[HeadOf(mos, d).guid].snap = NoSnap
    BY DEF HeadsKnown
  <2>1. CASE d = 1
    BY <1>1, <1>2, <1>4, <2>1 DEF IsUsedPool, IsSeenFirst, IsSetOf
  <2>2. CASE d = 10
    BY <1>1, <1>2, <1>4, <2>2 DEF IsUsedPool, IsSeenFirst, IsSetOf
  <2>3. CASE d = 15 /\ cloned
    BY <1>1, <1>2, <1>4, <2>3 DEF IsUsedPool, IsSeenFirst, IsSetOf
  <2> QED
    BY <1>3, <2>1, <2>2, <2>3
<1>8. \A d \in Dirs(mos) : \A s \in SnapsOf(mos, d) : d = 10 /\ s = "s" /\ snapped /\ Snap(mos, d, s) = 13
  BY <1>3, <1>4
<1>9. SnapsKnown(mos, live)
  <2>1. snapped => /\ IsSetOf(mos, 10, 13) /\ mos[13].guid \in DOMAIN live
                   /\ live[mos[13].guid].snap = {"s"} /\ live[mos[13].guid].path = <<"a">>
    BY <1>1, <1>2 DEF IsUsedPool, IsSeenFirst, IsSetOf
  <2> QED
    BY <1>5, <1>8, <2>1 DEF SnapsKnown
<1>10. Tree(mos, live)
  <2>1. Root \in Dirs(mos) /\ PathIn(mos, live, Root) = <<>>
    BY <1>3, <1>5 DEF Root
  <2>2. Kids(mos, 1) = {"a"} \cup {n \in {"b"} : cloned} /\ Kids(mos, 10) = {} /\ (cloned => Kids(mos, 15) = {})
    BY <1>1 DEF IsUsedPool, Kids
  <2>3. Kid(mos, 1, "a") = 10 /\ (cloned => Kid(mos, 1, "b") = 15)
    BY <1>1 DEF IsUsedPool, Kid
  <2>4. Append(<<>>, "a") = <<"a">> /\ Append(<<>>, "b") = <<"b">>
    OBVIOUS
  <2>5. ASSUME NEW d \in Dirs(mos), NEW n \in Kids(mos, d)
        PROVE  /\ n \in AllowedNames /\ Kid(mos, d, n) \in Dirs(mos) \ {Root}
               /\ PathIn(mos, live, Kid(mos, d, n)) = Append(PathIn(mos, live, d), n)
    <3>1. d = 1 /\ (n = "a" \/ (cloned /\ n = "b"))
      BY <1>3, <2>2
    <3>2. n \in AllowedNames
      BY <3>1 DEF AllowedNames
    <3>3. Kid(mos, d, n) \in Dirs(mos) \ {Root}
      BY <1>3, <2>3, <3>1 DEF Root
    <3>4. PathIn(mos, live, Kid(mos, d, n)) = Append(PathIn(mos, live, d), n)
      BY <1>5, <2>3, <2>4, <3>1
    <3> QED
      BY <3>2, <3>3, <3>4
  <2>6. ASSUME NEW d \in Dirs(mos) \ {Root}
        PROVE  \E p \in Dirs(mos) : \E n \in Kids(mos, p) : Kid(mos, p, n) = d
    <3>1. d = 10 \/ (cloned /\ d = 15)
      BY <1>3 DEF Root
    <3> QED
      BY <1>3, <2>2, <2>3, <3>1
  <2> QED
    BY <2>1, <2>5, <2>6 DEF Tree
<1>11. Origins(mos)
  <2> SUFFICES ASSUME NEW d \in Dirs(mos), mos[d].origin \notin {NoObject, OriginSnap}
               PROVE  /\ \E p \in Dirs(mos) : \E s \in SnapsOf(mos, p) : mos[d].origin = Snap(mos, p, s)
                      /\ \A s \in SnapsOf(mos, d) : mos[Snap(mos, d, s)].txg > mos[mos[d].origin].txg
    BY DEF Origins
  <2>1. d = 15 /\ cloned /\ mos[d].origin = 13
    BY <1>1, <1>3 DEF IsUsedPool
  <2> QED
    BY <1>3, <1>4, <2>1
<1>12. ASSUME NEW x, IsKnown(mos, x)
       PROVE  \/ x = 2 /\ mos[x].dead = 6
              \/ x = 11 /\ mos[x].dead = 12
              \/ snapped /\ x = 13 /\ mos[x].dead = 14
              \/ cloned /\ x = 16 /\ mos[x].dead = 17
  <2>1. PICK d \in Dirs(mos) : x = mos[d].head \/ \E s \in SnapsOf(mos, d) : x = Snap(mos, d, s)
    BY <1>12 DEF IsKnown
  <2>2. x \in {2, 11} \/ (snapped /\ x = 13) \/ (cloned /\ x = 16)
    BY <1>1, <1>3, <1>8, <2>1 DEF IsUsedPool
  <2>3. mos[2].dead = 6 /\ mos[11].dead = 12 /\ (snapped => mos[13].dead = 14) /\ (cloned => mos[16].dead = 17)
    BY <1>1 DEF IsUsedPool
  <2> QED
    BY <2>2, <2>3
<1>13. Deads(mos)
  <2>1. mos[6].is = "dead" /\ mos[12].is = "dead" /\ (snapped => mos[14].is = "dead") /\ (cloned => mos[17].is = "dead")
    BY <1>1, <1>2 DEF IsUsedPool
  <2>2. ASSUME NEW x, IsKnown(mos, x)
        PROVE  mos[x].dead \in DOMAIN mos /\ mos[mos[x].dead].is = "dead"
    BY <1>2, <1>12, <2>1, <2>2
  <2>3. ASSUME NEW x, NEW y, IsKnown(mos, x), IsKnown(mos, y), mos[x].dead = mos[y].dead
        PROVE  x = y
    BY <1>12, <2>3
  <2> QED
    BY <2>2, <2>3 DEF Deads
<1>14. Users(mos, live, 1)
  <2>1. DOMAIN live = {100, 103} \cup {g \in {104} : snapped} \cup {g \in {105} : cloned} /\ IsFcn(live)
    BY <1>1 DEF IsSeenFirst
  <2>2. \A g \in DOMAIN live : g \in Nat /\ g <= 105 + 1
    BY <2>1
  <2>3. <<>> \in Seq(AllowedNames) /\ <<"a">> \in Seq(AllowedNames) /\ <<"b">> \in Seq(AllowedNames)
    BY DEF AllowedNames
  <2>4. \A g \in DOMAIN live : live[g].path \in Seq(AllowedNames)
    <3>1. /\ live[100].path = <<>> /\ live[103].path = <<"a">> /\ (snapped => live[104].path = <<"a">>)
          /\ (cloned => live[105].path = <<"b">>)
      BY <1>1 DEF IsSeenFirst
    <3>2. \A g \in DOMAIN live : g = 100 \/ g = 103 \/ (snapped /\ g = 104) \/ (cloned /\ g = 105)
      BY <2>1
    <3> DEFINE S == Seq(AllowedNames)
    <3>3. live[100].path \in S /\ live[103].path \in S /\ (snapped => live[104].path \in S)
          /\ (cloned => live[105].path \in S)
      BY <2>3, <3>1, ZenonT(30)
    <3> HIDE DEF S
    <3>4. \A g \in DOMAIN live : live[g].path \in S
      BY <3>2, <3>3
    <3> QED
      BY <3>4 DEF S
  <2>5. \A g \in DOMAIN live : live[g].snap = NoSnap => g = 100 \/ g = 103 \/ (cloned /\ g = 105)
    BY <1>1, <2>1 DEF IsSeenFirst, NoSnap
  <2>6. mos[2].guid = 100 /\ mos[11].guid = 103 /\ (cloned => mos[16].guid = 105)
    BY <1>1 DEF IsUsedPool
  <2>7. \A g \in DOMAIN live : live[g].snap = NoSnap => \E d \in Dirs(mos) : HeadOf(mos, d).guid = g
    BY <1>3, <1>4, <2>5, <2>6
  <2>8. ASSUME NEW o \in DOMAIN mos, mos[o].is = "set"
        PROVE  mos[o].txg = 1
    BY <1>1, <1>2, <2>8 DEF IsUsedPool
  <2>9. \A g \in DOMAIN live : IsUser(live[g])
    BY <1>1 DEF IsSeenFirst
  <2> QED
    BY <2>1, <2>2, <2>4, <2>7, <2>8, <2>9 DEF Users, IsUser
<1>15. Sound(mos, live, 1)
  BY <1>6, <1>7, <1>9, <1>10, <1>11, <1>13, <1>14 DEF Sound
<1> QED
  BY <1>15 DEF mos, live

-----------------------------------------------------------------------------
(* What the user sees is what the objects hold                             *)

\* The directories of a pool with the same objects are those that are left.
LEMMA KinDirs ==
  ASSUME NEW mos, NEW new, \A x \in DOMAIN new : IF x \in DOMAIN mos THEN Kin(mos[x], new[x]) ELSE IsList(new[x])
  PROVE  /\ Dirs(new) = Dirs(mos) \cap DOMAIN new
         /\ \A d \in Dirs(new) : /\ d \in Dirs(mos) /\ new[d].head = mos[d].head /\ new[d].origin = mos[d].origin
                                 /\ new[d].root = mos[d].root
         /\ \A x : IsIn(new, x) => IsIn(mos, x) /\ new[x].dir = mos[x].dir /\ new[x].guid = mos[x].guid
         /\ \A x : IsIn(mos, x) /\ x \in DOMAIN new /\ mos[x].dir \in DOMAIN new => IsIn(new, x)
<1>1. Dirs(new) = Dirs(mos) \cap DOMAIN new
  BY DEF Dirs, Kin, IsList
<1>2. \A d \in Dirs(new) : /\ d \in Dirs(mos) /\ new[d].head = mos[d].head /\ new[d].origin = mos[d].origin
                           /\ new[d].root = mos[d].root
  BY <1>1 DEF Dirs, Kin
<1>3. ASSUME NEW x, IsIn(new, x)
      PROVE  IsIn(mos, x) /\ new[x].dir = mos[x].dir /\ new[x].guid = mos[x].guid
  BY <1>1, <1>3 DEF IsIn, Kin, IsList
<1>4. ASSUME NEW x, IsIn(mos, x), x \in DOMAIN new, mos[x].dir \in DOMAIN new
      PROVE  IsIn(new, x)
  BY <1>1, <1>4 DEF IsIn, Kin
<1> QED
  BY <1>1, <1>2, <1>3, <1>4

\* A command that makes no dataset and changes none but for its size, its
\* place and its snapshots leaves what the user sees true.
LEMMA KinIsExact ==
  ASSUME NEW mos, NEW live, NEW t, NEW u, Sound(mos, live, t), Exact(mos, live), NEW new, NEW now,
         \A x \in DOMAIN new : IF x \in DOMAIN mos THEN Kin(mos[x], new[x]) ELSE IsList(new[x]),
         {Root, OriginDir, mos[OriginDir].head} \subseteq DOMAIN new,
         \A x \in DOMAIN new : x \in DOMAIN mos /\ mos[x].is = "set" => mos[x].dir \in DOMAIN new,
         \A d \in Dirs(new) :
           /\ mos[d].root # NoObject => mos[d].root \in DOMAIN new
           /\ mos[d].origin # OriginSnap => mos[d].origin \in DOMAIN new /\ mos[mos[d].origin].dir \in DOMAIN new
           /\ \A s \in SnapsOf(mos, d) : Snap(mos, d, s) \in DOMAIN new =>
                s \in SnapsOf(new, d) /\ Snap(new, d, s) = Snap(mos, d, s),
         \A x : IsIn(new, x) =>
           LET g == mos[x].guid
           IN  /\ g \in DOMAIN now /\ now[g].kind = live[g].kind /\ now[g].locked = live[g].locked
               /\ now[g].clone = live[g].clone /\ IsShape(new[x].shape) /\ now[g].size = new[x].shape.size,
         \A g \in DOMAIN now : g \in DOMAIN live /\ \A x : IsIn(mos, x) /\ mos[x].guid = g =>
           x \in DOMAIN new /\ mos[x].dir \in DOMAIN new
  PROVE  Exact(new, now) /\ UsersStay(live, now, u)
<1>1. /\ Dirs(new) = Dirs(mos) \cap DOMAIN new
      /\ \A d \in Dirs(new) : /\ d \in Dirs(mos) /\ new[d].head = mos[d].head /\ new[d].origin = mos[d].origin
                              /\ new[d].root = mos[d].root
      /\ \A x : IsIn(new, x) => IsIn(mos, x) /\ new[x].dir = mos[x].dir /\ new[x].guid = mos[x].guid
      /\ \A x : IsIn(mos, x) /\ x \in DOMAIN new /\ mos[x].dir \in DOMAIN new => IsIn(new, x)
  BY KinDirs
<1>2. Roots(mos) /\ OriginKnown(mos) /\ SetsKnown(mos) /\ Origins(mos) /\ SnapsKnown(mos, live)
  BY DEF Exact, Sound
<1>3. Roots(new)
  <2> SUFFICES ASSUME NEW d \in Dirs(new)
               PROVE  /\ mos[d].root # NoObject => mos[d].root \in Dirs(new)
                      /\ mos[d].origin # OriginSnap => new[mos[d].origin].dir = mos[mos[d].origin].dir /\
                           new[mos[mos[d].origin].dir].root = mos[mos[mos[d].origin].dir].root
    BY <1>1, <1>2 DEF Roots
  <2>1. ASSUME mos[d].root # NoObject
        PROVE  mos[d].root \in Dirs(new)
    BY <1>1, <1>2, <2>1 DEF Roots
  <2>2. ASSUME mos[d].origin # OriginSnap
        PROVE  new[mos[d].origin].dir = mos[mos[d].origin].dir /\
                 new[mos[mos[d].origin].dir].root = mos[mos[mos[d].origin].dir].root
    <3>1. mos[d].origin # NoObject
      BY <1>1, <1>2 DEF Roots
    <3>2. PICK p \in Dirs(mos) : \E s \in SnapsOf(mos, p) : mos[d].origin = Snap(mos, p, s)
      BY <1>1, <1>2, <2>2, <3>1 DEF Origins
    <3>3. mos[mos[d].origin].dir = p /\ mos[mos[d].origin].is = "set" /\ mos[d].origin \in DOMAIN mos
      BY <1>2, <3>2 DEF SnapsKnown, IsSetOf
    <3>4. mos[d].origin \in DOMAIN new /\ p \in DOMAIN new
      BY <2>2, <3>3
    <3>5. IsIn(mos, mos[d].origin)
      BY <3>3 DEF IsIn
    <3> QED
      BY <1>1, <3>3, <3>4, <3>5
  <2> QED
    BY <2>1, <2>2
<1>4. OriginKnown(new)
  <2>1. Root \in DOMAIN mos /\ OriginDir \in DOMAIN mos /\ mos[Root].is = "dir" /\ mos[OriginDir].is = "dir"
    BY DEF Sound, Objects, Kept, Tree, Dirs
  <2>2. Kin(mos[Root], new[Root]) /\ Kin(mos[OriginDir], new[OriginDir])
    BY <2>1
  <2>3. mos[OriginDir].head \in DOMAIN new /\ mos[OriginDir].head \in DOMAIN mos
    BY <1>2 DEF OriginKnown
  <2>4. Kin(mos[mos[OriginDir].head], new[mos[OriginDir].head]) /\ new[OriginDir].head = mos[OriginDir].head
    BY <2>1, <2>2, <2>3 DEF Kin
  <2> QED
    BY <1>2, <2>1, <2>2, <2>3, <2>4 DEF OriginKnown, HeadOf, Kin
<1>5. SetsKnown(new)
  <2> SUFFICES ASSUME NEW x, IsIn(new, x)
               PROVE  LET d == new[x].dir IN x = new[d].head \/ \E s \in SnapsOf(new, d) : x = Snap(new, d, s)
    BY Zenon DEF SetsKnown
  <2>1. IsIn(mos, x) /\ new[x].dir = mos[x].dir /\ mos[x].dir \in Dirs(new) /\ x \in DOMAIN new
    BY <1>1 DEF IsIn
  <2>2. x = mos[mos[x].dir].head \/ \E s \in SnapsOf(mos, mos[x].dir) : x = Snap(mos, mos[x].dir, s)
    BY <1>2, <2>1, Zenon DEF SetsKnown
  <2> QED
    BY <1>1, <2>1, <2>2
<1>6. ASSUME NEW x, IsIn(new, x)
      PROVE  Portrayed(new, now, x)
  <2>1. IsIn(mos, x) /\ new[x].dir = mos[x].dir /\ new[x].guid = mos[x].guid
    BY <1>1, <1>6
  <2>2. Portrayed(mos, live, x)
    BY <2>1 DEF Exact
  <2>3. new[x].dir \in Dirs(new) /\ x \in DOMAIN new /\ x \in DOMAIN mos /\ mos[x].is = "set"
    BY <1>6, <2>1 DEF IsIn
  <2>4. new[x].shape.kind = mos[x].shape.kind
    <3>1. Kin(mos[x], new[x])
      BY <2>3
    <3> QED
      BY <2>2, <2>3, <3>1 DEF Portrayed, Kin
  <2> QED
    BY <1>1, <1>6, <2>1, <2>2, <2>3, <2>4 DEF Portrayed
<1>7. ASSUME NEW x, NEW y, IsIn(new, x), IsIn(new, y), new[x].guid = new[y].guid
      PROVE  x = y
  BY <1>1, <1>7 DEF Exact
<1>8. ASSUME NEW g \in DOMAIN now
      PROVE  /\ g \in DOMAIN live /\ now[g].kind = live[g].kind /\ now[g].locked = live[g].locked
             /\ \E x : IsIn(new, x) /\ new[x].guid = g
  <2>1. PICK x : IsIn(mos, x) /\ mos[x].guid = g
    BY DEF Exact
  <2>2. IsIn(new, x)
    BY <1>1, <2>1
  <2> QED
    BY <1>1, <2>1, <2>2
<1>9. UsersStay(live, now, u)
  BY <1>8 DEF UsersStay
<1>10. SetsHaveDirs(new)
  <2> SUFFICES ASSUME NEW x \in DOMAIN new, new[x].is = "set"
               PROVE  new[x].dir \in Dirs(new) \cup {OriginDir}
    BY DEF SetsHaveDirs
  <2>1. x \in DOMAIN mos /\ mos[x].is = "set" /\ new[x].dir = mos[x].dir
    BY DEF Kin, IsList
  <2>2. new[x].dir \in Dirs(mos) \cup {OriginDir} /\ new[x].dir \in DOMAIN new
    BY <2>1 DEF Exact, SetsHaveDirs
  <2> QED
    BY <1>1, <2>2
<1>11. Exact(new, now)
  BY <1>3, <1>4, <1>5, <1>6, <1>7, <1>8, <1>10 DEF Exact
<1> QED
  BY <1>9, <1>11

\* Two changes that keep the meaning of all objects are one.
LEMMA AlikeOn ==
  ASSUME NEW mos, NEW mid, NEW new, AllAlike(mos, mid), AllAlike(mid, new), DOMAIN new \subseteq DOMAIN mid
  PROVE  AllAlike(mos, new)
<1>1. ASSUME NEW r, NEW q, NEW z, Alike(r, q), Alike(q, z)
      PROVE  Alike(r, z)
  BY <1>1 DEF Alike, Kin, SameSize
<1>2. ASSUME NEW r, NEW q, IsList(r), Alike(r, q)
      PROVE  IsList(q)
  BY <1>2 DEF Alike, Kin, SameSize, IsList
<1> QED
  BY <1>1, <1>2 DEF AllAlike

\* One object with the same meaning in the place of another, or a list more.
LEMMA PutIsAlike ==
  ASSUME NEW mos, NEW x, NEW r, IF x \in DOMAIN mos THEN Alike(mos[x], r) ELSE IsList(r)
  PROVE  AllAlike(mos, Put(mos, x, r))
<1>1. IsPut(Put(mos, x, r), mos, x, r)
  BY PutChanges
<1>2. \A q : Alike(q, q)
  BY DEF Alike, Kin, SameSize
<1> QED
  BY <1>1, <1>2 DEF AllAlike, IsPut

\* The links, the deadlist and the data of a dataset may change without a
\* change of what it is, and, but for themselves, its snapshots.
LEMMA SetsAreAlike ==
  ASSUME NEW r, IsSet(r), NEW v
  PROVE  /\ Alike(r, [r EXCEPT !.next = v]) /\ Alike(r, [r EXCEPT !.dead = v])
         /\ Kin(r, [r EXCEPT !.snaps = v]) /\ SameSize(r, [r EXCEPT !.snaps = v])
         /\ r.dir # OriginDir => Alike(r, [r EXCEPT !.prev = v])
         /\ Alike(r, [r EXCEPT !.shape = [r.shape EXCEPT !.data = v]])
<1>1. r = [is |-> "set", dir |-> r.dir, prev |-> r.prev, next |-> r.next, snaps |-> r.snaps, guid |-> r.guid,
           txg |-> r.txg, shape |-> r.shape, dead |-> r.dead]
  BY DEF IsSet, Set
<1>2. Alike(r, [r EXCEPT !.next = v])
  BY <1>1 DEF Alike, Kin, SameSize
<1>3. Kin(r, [r EXCEPT !.snaps = v]) /\ SameSize(r, [r EXCEPT !.snaps = v])
  BY <1>1 DEF Alike, Kin, SameSize
<1>4. Alike(r, [r EXCEPT !.dead = v])
  BY <1>1 DEF Alike, Kin, SameSize
<1>5. r.dir # OriginDir => Alike(r, [r EXCEPT !.prev = v])
  BY <1>1 DEF Alike, Kin, SameSize
<1>6. ASSUME NEW s, IsShape(s)
      PROVE  LET q == [s EXCEPT !.data = v] IN IsShape(q) /\ q.kind = s.kind /\ q.size = s.size
  BY <1>6 DEF IsShape, Shape
<1>7. Alike(r, [r EXCEPT !.shape = [r.shape EXCEPT !.data = v]])
  <2> DEFINE q == [r.shape EXCEPT !.data = v]
  <2>1. IsShape(r.shape) => IsShape(q) /\ q.kind = r.shape.kind /\ q.size = r.shape.size
    BY <1>6
  <2> HIDE DEF q
  <2>2. Alike(r, [r EXCEPT !.shape = q])
    BY <1>1, <2>1 DEF Alike, Kin, SameSize
  <2> QED
    BY <2>2 DEF q
<1> QED
  BY <1>2, <1>3, <1>4, <1>5, <1>7

\* So may the children of a directory.
LEMMA DirsAreAlike ==
  ASSUME NEW r, IsDir(r), NEW n, n # "$ORIGIN", NEW v
  PROVE  Alike(r, [r EXCEPT !.kids = Put(@, n, v)]) /\ Alike(r, [r EXCEPT !.kids = Without(@, {n})])
<1>1. r = [is |-> "dir", head |-> r.head, origin |-> r.origin, kids |-> r.kids, root |-> r.root]
  BY DEF IsDir, Dir
<1>2. IsPut(Put(r.kids, n, v), r.kids, n, v) /\ IsWithout(Without(r.kids, {n}), r.kids, {n})
  BY PutChanges, WithoutChanges
<1>3. ASSUME NEW kids, "$ORIGIN" \in DOMAIN r.kids => "$ORIGIN" \in DOMAIN kids /\ kids["$ORIGIN"] = r.kids["$ORIGIN"]
      PROVE  Alike(r, [r EXCEPT !.kids = kids])
  BY <1>1, <1>3 DEF Alike, Kin, SameSize
<1>4. Alike(r, [r EXCEPT !.kids = Put(r.kids, n, v)])
  <2>1. "$ORIGIN" \in DOMAIN r.kids =>
          "$ORIGIN" \in DOMAIN Put(r.kids, n, v) /\ Put(r.kids, n, v)["$ORIGIN"] = r.kids["$ORIGIN"]
    BY <1>2 DEF IsPut
  <2> QED
    BY <1>3, <2>1
<1>5. Alike(r, [r EXCEPT !.kids = Without(r.kids, {n})])
  <2>1. "$ORIGIN" \in DOMAIN r.kids =>
          "$ORIGIN" \in DOMAIN Without(r.kids, {n}) /\ Without(r.kids, {n})["$ORIGIN"] = r.kids["$ORIGIN"]
    BY <1>2 DEF IsWithout
  <2> QED
    BY <1>3, <2>1
<1> QED
  BY <1>4, <1>5

\* A command that makes and destroys no dataset leaves what the user sees
\* true.
LEMMA KinStaysExact ==
  ASSUME NEW mos, NEW live, NEW t, Sound(mos, live, t), Exact(mos, live), NEW new, NEW now,
         \A x \in DOMAIN new : IF x \in DOMAIN mos THEN Kin(mos[x], new[x]) /\ (mos[x].is = "set" => new[x].snaps = mos[x].snaps)
                                                ELSE IsList(new[x]),
         DOMAIN mos \subseteq DOMAIN new, DOMAIN now = DOMAIN live,
         \A x : IsIn(mos, x) => now[mos[x].guid].size = new[x].shape.size,
         \A g \in DOMAIN live : now[g].kind = live[g].kind /\ now[g].locked = live[g].locked /\ now[g].clone = live[g].clone
  PROVE  Exact(new, now) /\ UsersStay(live, now, t)
<1>1. \A x \in DOMAIN new : IF x \in DOMAIN mos THEN Kin(mos[x], new[x]) ELSE IsList(new[x])
  OBVIOUS
<1>2. /\ \A d \in Dirs(new) : d \in Dirs(mos) /\ new[d].head = mos[d].head
      /\ \A x : IsIn(new, x) => IsIn(mos, x) /\ new[x].dir = mos[x].dir /\ new[x].guid = mos[x].guid
  BY <1>1, KinDirs
<1>3. /\ Roots(mos) /\ OriginKnown(mos) /\ Origins(mos) /\ SnapsKnown(mos, live)
      /\ HeadsKnown(mos, live) /\ Objects(mos) /\ Tree(mos, live)
  BY DEF Exact, Sound
<1>4. {Root, OriginDir, mos[OriginDir].head} \subseteq DOMAIN new
  BY <1>3 DEF Objects, Kept, Tree, Dirs, OriginKnown
<1>5. ASSUME NEW d \in Dirs(new)
      PROVE  /\ mos[d].root # NoObject => mos[d].root \in DOMAIN new
             /\ mos[d].origin # OriginSnap => mos[d].origin \in DOMAIN new /\ mos[mos[d].origin].dir \in DOMAIN new
             /\ \A s \in SnapsOf(mos, d) : Snap(mos, d, s) \in DOMAIN new =>
                  s \in SnapsOf(new, d) /\ Snap(new, d, s) = Snap(mos, d, s)
  <2>1. d \in Dirs(mos) /\ \A p \in Dirs(mos) : p \in DOMAIN new
    BY <1>2 DEF Dirs
  <2>2. mos[d].root # NoObject => mos[d].root \in DOMAIN new
    BY <1>3, <2>1 DEF Roots
  <2>3. mos[d].origin # OriginSnap => mos[d].origin \in DOMAIN new /\ mos[mos[d].origin].dir \in DOMAIN new
    <3>1. ASSUME NEW p \in Dirs(mos), NEW s \in SnapsOf(mos, p)
          PROVE  Snap(mos, p, s) \in DOMAIN new /\ mos[Snap(mos, p, s)].dir = p
      BY <1>3 DEF SnapsKnown, IsSetOf
    <3> QED
      BY <1>3, <2>1, <3>1 DEF Roots, Origins
  <2>4. HeadOf(new, d).snaps = HeadOf(mos, d).snaps
    <3>1. mos[d].head \in DOMAIN mos /\ mos[mos[d].head].is = "set"
      BY <1>3, <2>1 DEF HeadsKnown, IsSetOf
    <3> QED
      BY <1>2, <3>1 DEF HeadOf
  <2> QED
    BY <2>2, <2>3, <2>4 DEF SnapsOf, Snap
<1>6. ASSUME NEW x, IsIn(new, x)
      PROVE  LET g == mos[x].guid
             IN  /\ g \in DOMAIN now /\ now[g].kind = live[g].kind /\ now[g].locked = live[g].locked
                 /\ now[g].clone = live[g].clone /\ IsShape(new[x].shape) /\ now[g].size = new[x].shape.size
  <2>1. IsIn(mos, x) /\ Portrayed(mos, live, x)
    BY <1>2, <1>6 DEF Exact
  <2>2. x \in DOMAIN new /\ x \in DOMAIN mos /\ mos[x].is = "set" /\ Kin(mos[x], new[x])
    BY <1>6, <2>1 DEF IsIn
  <2> QED
    BY <2>1, <2>2 DEF Portrayed, Kin
<1>7. \A g \in DOMAIN now : g \in DOMAIN live /\ \A x : IsIn(mos, x) /\ mos[x].guid = g =>
        x \in DOMAIN new /\ mos[x].dir \in DOMAIN new
  BY DEF IsIn, Dirs
<1>8. \A x \in DOMAIN new : x \in DOMAIN mos /\ mos[x].is = "set" => mos[x].dir \in DOMAIN new
  BY <1>4 DEF Exact, SetsHaveDirs, Dirs
<1> QED
  BY <1>1, <1>4, <1>5, <1>6, <1>7, <1>8, KinIsExact

\* A command that changes no dataset but in its data, its links and its place
\* leaves what the user sees true.
LEMMA AlikeIsExact ==
  ASSUME NEW mos, NEW live, NEW t, Sound(mos, live, t), Exact(mos, live), NEW new, NEW now,
         AllAlike(mos, new), DOMAIN mos \subseteq DOMAIN new, SameLooks(live, now)
  PROVE  Exact(new, now) /\ UsersStay(live, now, t)
<1>1. \A x \in DOMAIN new : IF x \in DOMAIN mos THEN Kin(mos[x], new[x]) /\ (mos[x].is = "set" => new[x].snaps = mos[x].snaps)
                                            ELSE IsList(new[x])
  BY DEF AllAlike, Alike
<1>2. ASSUME NEW x, IsIn(mos, x)
      PROVE  now[mos[x].guid].size = new[x].shape.size
  <2>1. Portrayed(mos, live, x)
    BY <1>2 DEF Exact
  <2>2. mos[x].is = "set" /\ Alike(mos[x], new[x])
    BY <1>2 DEF IsIn, AllAlike
  <2> QED
    BY <2>1, <2>2 DEF Portrayed, Alike, SameSize, SameLooks
<1> QED
  BY <1>1, <1>2, KinStaysExact DEF SameLooks

\* An object with the same meaning in the place of another.
LEMMA ExceptIsAlike ==
  ASSUME NEW mos, NEW x \in DOMAIN mos, NEW r, Alike(mos[x], r)
  PROVE  LET new == [mos EXCEPT ![x] = r] IN AllAlike(mos, new) /\ DOMAIN new = DOMAIN mos
<1>1. [mos EXCEPT ![x] = r] = Put(mos, x, r)
  BY ExceptIsPut
<1>2. AllAlike(mos, Put(mos, x, r))
  BY PutIsAlike
<1> QED
  BY <1>1, <1>2

\* The link to the next snapshot says nothing of a dataset.
LEMMA RelinkedIsAlike ==
  ASSUME NEW mos, Objects(mos), NEW x, NEW v
  PROVE  AllAlike(mos, [mos EXCEPT ![x].next = v])
<1> DEFINE r == [mos[x] EXCEPT !.next = v]
<1>1. \A q : Alike(q, q)
  BY DEF Alike, Kin, SameSize
<1>2. CASE x \in DOMAIN mos
  <2>1. Alike(mos[x], r)
    <3>1. CASE IsSet(mos[x])
      BY <3>1, SetsAreAlike
    <3>2. CASE IsDir(mos[x]) \/ IsDead(mos[x]) \/ IsBpobj(mos[x])
      <4>1. r = mos[x]
        BY <3>2 DEF IsDir, IsDead, IsBpobj, Dir, Dead, Bpobj
      <4> QED
        BY <1>1, <4>1
    <3> QED
      BY <1>2, <3>1, <3>2 DEF Objects
  <2>2. [mos EXCEPT ![x].next = v] = [mos EXCEPT ![x] = r]
    OBVIOUS
  <2> HIDE DEF r
  <2> QED
    BY <1>2, <2>1, <2>2, ExceptIsAlike
<1>3. CASE x \notin DOMAIN mos
  BY <1>1, <1>3 DEF AllAlike
<1> QED
  BY <1>2, <1>3

\* A list of blocks that grows or shrinks says nothing of a dataset.
LEMMA FreedIsAlike ==
  ASSUME NEW mos, Objects(mos), NEW bytes
  PROVE  LET new == [mos EXCEPT ![FreeList].bytes = bytes] IN AllAlike(mos, new) /\ DOMAIN new = DOMAIN mos
<1> DEFINE r == [mos[FreeList] EXCEPT !.bytes = bytes]
<1>1. FreeList \in DOMAIN mos /\ mos[FreeList] = Bpobj(mos[FreeList].bytes)
  BY DEF Objects, Kept, IsDir, IsSet, IsDead, IsBpobj
<1>2. mos[FreeList].is = "bpobj" /\ r.is = "bpobj"
  BY <1>1 DEF Bpobj
<1>3. [mos EXCEPT ![FreeList].bytes = bytes] = [mos EXCEPT ![FreeList] = r]
  OBVIOUS
<1> HIDE DEF r
<1>4. Alike(mos[FreeList], r)
  BY <1>2 DEF Alike, Kin, SameSize
<1> QED
  BY <1>1, <1>3, <1>4, ExceptIsAlike

\* The freed blocks are handed back.
LEMMA FreedIsExact ==
  ASSUME NEW mos, NEW live, NEW t, Sound(mos, live, t), Exact(mos, live), NEW bytes
  PROVE  Exact([mos EXCEPT ![FreeList].bytes = bytes], live) /\ UsersStay(live, live, t)
<1> DEFINE new == [mos EXCEPT ![FreeList].bytes = bytes]
<1>1. AllAlike(mos, new) /\ DOMAIN mos \subseteq DOMAIN new
  BY FreedIsAlike DEF Sound
<1> HIDE DEF new
<1>2. Exact(new, live) /\ UsersStay(live, live, t)
  BY <1>1, AlikeIsExact DEF SameLooks
<1> QED
  BY <1>2 DEF new

\* zfs set volsize.
LEMMA ResizedIsExact ==
  ASSUME NEW mos, NEW live, NEW t, Sound(mos, live, t), Exact(mos, live), NEW h, IsIn(mos, h),
         NEW shape, IsShape(shape), shape.kind = mos[h].shape.kind
  PROVE  LET now == [live EXCEPT ![mos[h].guid].size = shape.size]
         IN  Exact([mos EXCEPT ![h].shape = shape], now) /\ UsersStay(live, now, t)
<1> DEFINE new == [mos EXCEPT ![h].shape = shape]
           g == mos[h].guid
           now == [live EXCEPT ![g].size = shape.size]
           r == [mos[h] EXCEPT !.shape = shape]
<1>1. h \in DOMAIN mos /\ mos[h].is = "set" /\ Portrayed(mos, live, h)
  BY DEF IsIn, Exact
<1>2. IsSet(mos[h])
  BY <1>1 DEF Sound, Objects, IsDir, IsDead, IsBpobj
<1>3. Kin(mos[h], r) /\ r.snaps = mos[h].snaps /\ r.shape = shape
  <2>1. mos[h] = [is |-> "set", dir |-> mos[h].dir, prev |-> mos[h].prev, next |-> mos[h].next, snaps |-> mos[h].snaps,
                  guid |-> mos[h].guid, txg |-> mos[h].txg, shape |-> mos[h].shape, dead |-> mos[h].dead]
    BY <1>2 DEF IsSet, Set
  <2>2. /\ r.is = "set" /\ r.dir = mos[h].dir /\ r.guid = mos[h].guid /\ r.prev = mos[h].prev
        /\ r.snaps = mos[h].snaps /\ r.shape = shape
    BY <2>1
  <2> HIDE DEF r
  <2> QED
    BY <1>1, <2>2 DEF Kin
<1>4. DOMAIN new = DOMAIN mos /\ new[h] = r /\ \A x \in DOMAIN mos : x # h => new[x] = mos[x]
  BY <1>1
<1> HIDE DEF new, r
<1>5. \A x \in DOMAIN new : IF x \in DOMAIN mos THEN Kin(mos[x], new[x]) /\ (mos[x].is = "set" => new[x].snaps = mos[x].snaps)
                                            ELSE IsList(new[x])
  <2>1. \A q : Kin(q, q)
    BY DEF Kin
  <2> QED
    BY <1>3, <1>4, <2>1
<1>6. DOMAIN now = DOMAIN live
  OBVIOUS
<1>7. \A x \in DOMAIN live : /\ now[x].kind = live[x].kind /\ now[x].locked = live[x].locked /\ now[x].clone = live[x].clone
                            /\ now[x].size = IF x = g THEN shape.size ELSE live[x].size
  <2> SUFFICES ASSUME NEW x \in DOMAIN live
               PROVE  /\ now[x].kind = live[x].kind /\ now[x].locked = live[x].locked /\ now[x].clone = live[x].clone
                      /\ now[x].size = IF x = g THEN shape.size ELSE live[x].size
    OBVIOUS
  <2>1. now = [z \in DOMAIN live |-> IF z = g THEN [live[z] EXCEPT !.size = shape.size] ELSE live[z]]
    OBVIOUS
  <2> HIDE DEF now
  <2>2. live[x] = [path |-> live[x].path, snap |-> live[x].snap, kind |-> live[x].kind, size |-> live[x].size,
                   clone |-> live[x].clone, locked |-> live[x].locked]
    BY DEF Sound, Users
  <2> QED
    BY <2>1, <2>2
<1> HIDE DEF now
<1>8. ASSUME NEW x, IsIn(mos, x)
      PROVE  now[mos[x].guid].size = new[x].shape.size
  <2>1. Portrayed(mos, live, x) /\ x \in DOMAIN mos /\ (mos[x].guid = g => x = h)
    BY <1>8 DEF Exact, IsIn
  <2> QED
    BY <1>3, <1>4, <1>7, <2>1 DEF Portrayed
<1>9. Exact(new, now) /\ UsersStay(live, now, t)
  BY <1>4, <1>5, <1>6, <1>7, <1>8, KinStaysExact
<1> QED
  BY <1>9 DEF new, now

\* A block is written again.
LEMMA OverwrittenIsExact ==
  ASSUME NEW mos, NEW live, NEW t, Sound(mos, live, t), Exact(mos, live),
         NEW h \in DOMAIN mos, mos[h].is = "set", NEW dead \in DOMAIN mos, mos[dead].is = "dead",
         NEW k, NEW into, NEW bytes, NEW data, into \in DOMAIN mos => mos[into].is = "bpobj"
  PROVE  /\ Exact([Put(mos, into, Bpobj(bytes)) EXCEPT
                      ![h].shape.data = data,
                      ![dead] = Dead(@.used + 1, [@.lists EXCEPT ![k] = into])], live)
         /\ UsersStay(live, live, t)
<1> DEFINE b == Bpobj(bytes)
           more == Put(mos, into, b)
           shape == [more[h].shape EXCEPT !.data = data]
           q == [more[h] EXCEPT !.shape = shape]
           mid == [more EXCEPT ![h].shape = shape]
           r == Dead(more[dead].used + 1, [more[dead].lists EXCEPT ![k] = into])
           new == [more EXCEPT ![h].shape.data = data,
                               ![dead] = Dead(@.used + 1, [@.lists EXCEPT ![k] = into])]
<1>1. new = [mid EXCEPT ![dead] = r]
  BY Zenon
<1>2. mid = [more EXCEPT ![h] = q]
  OBVIOUS
<1>3. b.is = "bpobj" /\ r.is = "dead"
  BY BpobjFields, DeadFields
<1> HIDE DEF new, mid, r, b
<1>4. AllAlike(mos, more)
  <2>1. IF into \in DOMAIN mos THEN Alike(mos[into], b) ELSE IsList(b)
    BY <1>3 DEF Alike, Kin, SameSize, IsList
  <2> QED
    BY <2>1, PutIsAlike
<1>5. DOMAIN more = DOMAIN mos \cup {into} /\ more[h] = mos[h] /\ more[dead] = mos[dead]
  <2>1. IsPut(more, mos, into, b)
    BY PutChanges
  <2> HIDE DEF more
  <2> QED
    BY <2>1 DEF IsPut
<1> HIDE DEF more
<1>6. AllAlike(more, mid) /\ DOMAIN mid = DOMAIN more /\ mid[dead] = mos[dead]
  <2>1. IsSet(mos[h])
    BY DEF Sound, Objects, IsDir, IsDead, IsBpobj
  <2>2. Alike(more[h], q)
    BY <1>5, <2>1, SetsAreAlike
  <2> HIDE DEF q
  <2> QED
    BY <1>2, <1>5, <2>2, ExceptIsAlike
<1>7. AllAlike(mid, new) /\ DOMAIN new = DOMAIN mid
  <2>1. Alike(mid[dead], r)
    BY <1>3, <1>6 DEF Alike, Kin, SameSize
  <2> QED
    BY <1>1, <1>5, <1>6, <2>1, ExceptIsAlike
<1>8. AllAlike(mos, new) /\ DOMAIN mos \subseteq DOMAIN new
  <2>1. AllAlike(mos, mid)
    BY <1>4, <1>6, AlikeOn
  <2> QED
    BY <1>5, <1>6, <1>7, <2>1, AlikeOn
<1>9. Exact(new, live) /\ UsersStay(live, live, t)
  BY <1>8, AlikeIsExact DEF SameLooks
<1> QED
  BY <1>9 DEF new, more, b

\* zfs rename.
LEMMA MovedIsExact ==
  ASSUME NEW mos, NEW live, NEW t, Sound(mos, live, t), Exact(mos, live), NEW d \in Dirs(mos), NEW n, n # "$ORIGIN",
         NEW to \in Dirs(mos), NEW m, m # "$ORIGIN", NEW new, IsMoved(new, mos, d, n, to, m),
         NEW now, SameLooks(live, now)
  PROVE  Exact(new, now) /\ UsersStay(live, now, t)
<1>1. DOMAIN new = DOMAIN mos
  BY DEF IsMoved
<1>2. ASSUME NEW x \in DOMAIN mos
      PROVE  Alike(mos[x], new[x])
  <2>1. CASE x \in {d, to}
    <3>1. /\ new[x].is = "dir" /\ mos[x].is = "dir" /\ new[x].head = mos[x].head /\ new[x].origin = mos[x].origin
          /\ new[x].root = mos[x].root
      BY <2>1 DEF IsMoved, Dirs
    <3>2. "$ORIGIN" \in DOMAIN mos[x].kids =>
            "$ORIGIN" \in DOMAIN new[x].kids /\ new[x].kids["$ORIGIN"] = mos[x].kids["$ORIGIN"]
      BY <2>1 DEF IsMoved
    <3> QED
      BY <3>1, <3>2 DEF Alike, Kin, SameSize
  <2>2. CASE x \notin {d, to}
    <3>1. new[x] = mos[x]
      BY <2>2 DEF IsMoved
    <3> QED
      BY <3>1 DEF Alike, Kin, SameSize
  <2> QED
    BY <2>1, <2>2
<1>3. AllAlike(mos, new)
  BY <1>1, <1>2 DEF AllAlike
<1> QED
  BY <1>1, <1>3, AlikeIsExact

\* A head is no snapshot.
LEMMA HeadsAreNoSnaps ==
  ASSUME NEW mos, NEW live, NEW t, Sound(mos, live, t)
  PROVE  \A d, p \in Dirs(mos) : \A s \in SnapsOf(mos, p) : mos[d].head # Snap(mos, p, s)
<1> SUFFICES ASSUME NEW d \in Dirs(mos), NEW p \in Dirs(mos), NEW s \in SnapsOf(mos, p), mos[d].head = Snap(mos, p, s)
             PROVE  FALSE
  OBVIOUS
<1>1. HeadOf(mos, d).guid = mos[Snap(mos, p, s)].guid
  BY DEF HeadOf
<1> QED
  BY <1>1, GuidsTell

\* A dataset without snapshots has nobody else under its key.
LEMMA NobodyUnderIt ==
  ASSUME NEW mos, NEW live, NEW t, Sound(mos, live, t), Exact(mos, live), NEW o \in Dirs(mos), HeadOf(mos, o).snaps = Nothing
  PROVE  \A q \in Dirs(mos) : q # o => mos[q].root # o
<1> DEFINE Q == {q \in Dirs(mos) : q # o /\ mos[q].root = o}
           txgs == {mos[mos[q].origin].txg : q \in Q}
<1>1. Roots(mos) /\ Origins(mos) /\ SnapsKnown(mos, live) /\ Users(mos, live, t) /\ NoObject \notin DOMAIN mos
  BY DEF Exact, Sound, Objects
<1>2. ASSUME NEW q \in Q
      PROVE  \E p \in Q : /\ mos[mos[p].origin].txg < mos[mos[q].origin].txg
                          /\ mos[mos[q].origin].txg \in Nat
  <2>1. mos[q].origin \notin {NoObject, OriginSnap} /\ mos[mos[mos[q].origin].dir].root = o
    BY <1>1 DEF Roots, Dirs
  <2>2. PICK p \in Dirs(mos) : \E s \in SnapsOf(mos, p) : mos[q].origin = Snap(mos, p, s)
    BY <1>1, <2>1 DEF Origins
  <2>3. PICK s \in SnapsOf(mos, p) : mos[q].origin = Snap(mos, p, s)
    BY <2>2
  <2>4. mos[mos[q].origin].dir = p /\ mos[mos[q].origin].txg \in Nat
    BY <1>1, <2>3 DEF SnapsKnown, IsSetOf, Users
  <2>5. p # o
    BY <2>3, NothingIsEmpty DEF SnapsOf
  <2>6. p \in Q
    BY <2>1, <2>4, <2>5
  <2>7. mos[p].origin \notin {NoObject, OriginSnap}
    BY <1>1, <2>6 DEF Roots, Dirs
  <2>8. PICK r \in Dirs(mos) : \E u \in SnapsOf(mos, r) : mos[p].origin = Snap(mos, r, u)
    BY <1>1, <2>7 DEF Origins
  <2>9. PICK u \in SnapsOf(mos, r) : mos[p].origin = Snap(mos, r, u)
    BY <2>8
  <2>10. mos[mos[p].origin].txg \in Nat
    BY <1>1, <2>9 DEF SnapsKnown, IsSetOf, Users
  <2>11. mos[mos[q].origin].txg > mos[mos[p].origin].txg
    BY <1>1, <2>3, <2>7 DEF Origins
  <2> QED
    BY <2>4, <2>6, <2>10, <2>11
<1> HIDE DEF Q
<1>3. CASE Q = {}
  BY <1>3 DEF Q
<1>4. CASE Q # {}
  <2>1. txgs \in SUBSET Nat /\ txgs # {}
    BY <1>2, <1>4
  <2>2. PICK x \in txgs : \A y \in txgs : x <= y
    BY <2>1, HasLeast
  <2>3. PICK q \in Q : x = mos[mos[q].origin].txg
    BY <2>2
  <2>4. PICK p \in Q : mos[mos[p].origin].txg < x
    BY <1>2, <2>3
  <2> DEFINE y == mos[mos[p].origin].txg
  <2>5. y \in txgs /\ y < x
    BY <2>4
  <2> HIDE DEF y, txgs
  <2> QED
    BY <2>1, <2>2, <2>5
<1> QED
  BY <1>3, <1>4

\* zfs destroy of a dataset.
LEMMA DestroyedIsExact ==
  ASSUME NEW t \in Nat, NEW mos, NEW live, Sound(mos, live, t), Exact(mos, live), NEW d \in Dirs(mos), NEW n \in Kids(mos, d),
         NEW o, NEW h, NEW dead, o = Kid(mos, d, n), h = mos[o].head, dead = mos[h].dead,
         mos[o].kids = Nothing, mos[h].snaps = Nothing
  PROVE  /\ Exact(Destroyed(mos, d, n, o, h, dead), Without(live, {mos[h].guid}))
         /\ UsersStay(live, Without(live, {mos[h].guid}), t)
<1> DEFINE new == Destroyed(mos, d, n, o, h, dead)
           g == mos[h].guid
           now == Without(live, {g})
           k == Without(mos[d].kids, {n})
<1>1. /\ Objects(mos) /\ HeadsKnown(mos, live) /\ SnapsKnown(mos, live) /\ Tree(mos, live) /\ Origins(mos) /\ Deads(mos)
      /\ Roots(mos) /\ OriginKnown(mos) /\ SetsKnown(mos)
  BY DEF Sound, Exact
<1>2. /\ o \in Dirs(mos) /\ o # Root /\ o # d /\ n # "$ORIGIN" /\ d \in DOMAIN mos /\ mos[d].is = "dir" /\ IsDir(mos[d])
  <2>1. o \in Dirs(mos) /\ o # Root
    BY <1>1 DEF Tree
  <2>2. o # d /\ n # "$ORIGIN"
    BY NothingIsEmpty DEF Kids
  <2> QED
    BY <1>1, <2>1, <2>2 DEF Dirs, Objects, IsSet, IsDead, IsBpobj
<1>3. /\ mos[o].is = "dir" /\ h \in DOMAIN mos /\ mos[h].is = "set" /\ mos[h].dir = o /\ o # OriginDir
      /\ mos[dead].is = "dead" /\ IsIn(mos, h)
  <2>1. /\ mos[o].is = "dir" /\ h \in DOMAIN mos /\ mos[h].is = "set" /\ mos[h].dir = o /\ o # OriginDir
    BY <1>1, <1>2 DEF HeadsKnown, IsSetOf, Dirs
  <2>2. IsKnown(mos, h)
    BY <1>2 DEF IsKnown
  <2> QED
    BY <1>1, <1>2, <2>1, <2>2 DEF Deads, IsIn
<1>4. IsDestroyed(new, mos, d, n, o, h, dead)
  BY <1>2, <1>3, DestroyedObjects
<1>5. IsWithout(now, live, {g})
  BY WithoutChanges
<1> HIDE DEF new, now, k
<1>6. DOMAIN new = DOMAIN mos \ {o, h, dead}
  BY <1>4 DEF IsDestroyed
<1>7. \A q : Kin(q, q)
  BY DEF Kin
<1>8. ASSUME NEW x \in DOMAIN new
      PROVE  x \in DOMAIN mos /\ Kin(mos[x], new[x]) /\ (x # d => new[x] = mos[x])
  <2>1. CASE x = d
    <3>1. new[d] = [mos[d] EXCEPT !.kids = Without(mos[d].kids, {n})]
      BY <1>2, <1>4, DirChanges DEF IsDestroyed
    <3>2. Alike(mos[d], [mos[d] EXCEPT !.kids = Without(@, {n})])
      BY <1>2, DirsAreAlike
    <3>3. Alike(mos[d], new[d])
      BY <3>1, <3>2
    <3> QED
      BY <1>6, <2>1, <3>3 DEF Alike
  <2>2. CASE x # d
    BY <1>4, <1>6, <1>7, <2>2 DEF IsDestroyed
  <2> QED
    BY <2>1, <2>2
<1>9. /\ Dirs(new) = Dirs(mos) \cap DOMAIN new
      /\ \A x : IsIn(new, x) => IsIn(mos, x) /\ new[x].dir = mos[x].dir /\ new[x].guid = mos[x].guid
      /\ \A p \in Dirs(new) : new[p].head = mos[p].head
  BY <1>8, KinDirs
<1>10. {Root, OriginDir, mos[OriginDir].head} \subseteq DOMAIN new
  <2>1. Root \in DOMAIN mos /\ mos[Root].is = "dir" /\ OriginDir \in DOMAIN mos /\ mos[OriginDir].is = "dir"
    BY <1>1 DEF Tree, Dirs, Objects, Kept
  <2>2. mos[OriginDir].head \in DOMAIN mos /\ mos[mos[OriginDir].head].is = "set" /\ mos[mos[OriginDir].head].dir = OriginDir
    BY <1>1 DEF OriginKnown, HeadOf
  <2> QED
    BY <1>2, <1>3, <1>6, <2>1, <2>2
<1>11. \A p \in Dirs(mos) : p # o => p \in DOMAIN new
  BY <1>3, <1>6 DEF Dirs
<1>12. ASSUME NEW p \in Dirs(new)
       PROVE  /\ mos[p].root # NoObject => mos[p].root \in DOMAIN new
              /\ mos[p].origin # OriginSnap => mos[p].origin \in DOMAIN new /\ mos[mos[p].origin].dir \in DOMAIN new
              /\ \A s \in SnapsOf(mos, p) : Snap(mos, p, s) \in DOMAIN new =>
                   s \in SnapsOf(new, p) /\ Snap(new, p, s) = Snap(mos, p, s)
  <2>1. p \in Dirs(mos) /\ p # o
    BY <1>6, <1>9
  <2>2. mos[p].root # NoObject => mos[p].root \in DOMAIN new
    <3>1. mos[p].root # o
      BY <1>2, <2>1, NobodyUnderIt DEF HeadOf
    <3> QED
      BY <1>1, <1>11, <2>1, <3>1 DEF Roots
  <2>3. mos[p].origin # OriginSnap => mos[p].origin \in DOMAIN new /\ mos[mos[p].origin].dir \in DOMAIN new
    <3> SUFFICES ASSUME mos[p].origin # OriginSnap
                 PROVE  mos[p].origin \in DOMAIN new /\ mos[mos[p].origin].dir \in DOMAIN new
      OBVIOUS
    <3>1. PICK q \in Dirs(mos) : \E s \in SnapsOf(mos, q) : mos[p].origin = Snap(mos, q, s)
      BY <1>1, <2>1 DEF Roots, Origins
    <3>2. PICK s \in SnapsOf(mos, q) : mos[p].origin = Snap(mos, q, s)
      BY <3>1
    <3>3. mos[p].origin \in DOMAIN mos /\ mos[mos[p].origin].is = "set" /\ mos[mos[p].origin].dir = q
      BY <1>1, <3>2 DEF SnapsKnown, IsSetOf
    <3>4. q # o
      BY <3>2, NothingIsEmpty DEF SnapsOf, HeadOf
    <3> QED
      BY <1>3, <1>6, <1>11, <3>3, <3>4
  <2>4. HeadOf(new, p) = HeadOf(mos, p)
    <3>1. mos[p].head \in DOMAIN mos /\ mos[mos[p].head].is = "set" /\ mos[mos[p].head].dir = p
      BY <1>1, <2>1 DEF HeadsKnown, IsSetOf
    <3>2. mos[p].head \in DOMAIN new /\ mos[p].head # d
      BY <1>2, <1>3, <1>6, <2>1, <3>1
    <3> QED
      BY <1>8, <1>9, <3>2 DEF HeadOf
  <2> QED
    BY <2>2, <2>3, <2>4 DEF SnapsOf, Snap
<1>13. ASSUME NEW x, IsIn(new, x)
       PROVE  LET i == mos[x].guid
              IN  /\ i \in DOMAIN now /\ now[i].kind = live[i].kind /\ now[i].locked = live[i].locked
                  /\ now[i].clone = live[i].clone /\ IsShape(new[x].shape) /\ now[i].size = new[x].shape.size
  <2>1. IsIn(mos, x) /\ Portrayed(mos, live, x)
    BY <1>9, <1>13 DEF Exact
  <2>2. x \in DOMAIN new /\ x # h /\ new[x] = mos[x]
    BY <1>2, <1>6, <1>8, <1>13, <2>1 DEF IsIn
  <2>3. mos[x].guid # g
    BY <1>3, <2>1, <2>2 DEF Exact
  <2>4. mos[x].guid \in DOMAIN now /\ now[mos[x].guid] = live[mos[x].guid]
    BY <1>5, <2>1, <2>3 DEF Portrayed, IsWithout
  <2> QED
    BY <2>1, <2>2, <2>4 DEF Portrayed
<1>14. ASSUME NEW i \in DOMAIN now
       PROVE  i \in DOMAIN live /\ \A x : IsIn(mos, x) /\ mos[x].guid = i => x \in DOMAIN new /\ mos[x].dir \in DOMAIN new
  <2>1. i \in DOMAIN live /\ i # g
    BY <1>5 DEF IsWithout
  <2>2. ASSUME NEW x, IsIn(mos, x), mos[x].guid = i
        PROVE  x \in DOMAIN new /\ mos[x].dir \in DOMAIN new
    <3>1. x # h
      BY <2>1, <2>2
    <3>2. mos[x].dir # o
      BY <1>1, <2>2, <3>1, NothingIsEmpty DEF SetsKnown, SnapsOf, HeadOf
    <3> QED
      BY <1>3, <1>6, <1>11, <2>2, <3>1, <3>2 DEF IsIn
  <2> QED
    BY <2>1, <2>2
<1>15. ASSUME NEW x \in DOMAIN new, mos[x].is = "set"
       PROVE  mos[x].dir \in DOMAIN new
  <2>1. x \in DOMAIN mos /\ mos[x].dir \in Dirs(mos) \cup {OriginDir} /\ x # h
    BY <1>1, <1>6, <1>15 DEF Exact, SetsHaveDirs
  <2>2. mos[x].dir # o
    <3>1. mos[x].dir = o => IsIn(mos, x)
      BY <1>2, <1>15, <2>1 DEF IsIn
    <3> QED
      BY <1>1, <1>3, <2>1, <3>1, NothingIsEmpty DEF SetsKnown, SnapsOf, HeadOf
  <2> QED
    BY <1>10, <1>11, <2>1, <2>2
<1>16. Exact(new, now) /\ UsersStay(live, now, t)
  BY <1>8, <1>10, <1>12, <1>13, <1>14, <1>15, KinIsExact
<1> QED
  BY <1>16 DEF new, now

\* zfs destroy of a snapshot.
LEMMA JoinedIsExact ==
  ASSUME NEW t \in Nat, NEW u, NEW mos, NEW live, Sound(mos, live, t), Exact(mos, live), NEW d \in Dirs(mos),
         NEW s \in SnapsOf(mos, d), \A c \in Dirs(mos) : mos[c].origin # Snap(mos, d, s),
         NEW nx, IsIn(mos, nx), NEW dead \in DOMAIN mos, mos[dead].is = "dead", NEW prev, NEW used, NEW lists, NEW freed
  PROVE  LET o == Snap(mos, d, s)
             now == Without(live, {mos[o].guid})
         IN  /\ Exact(Without(Joined(mos, mos[d].head, s, nx, prev, dead, used, lists, freed), {o, mos[o].dead}), now)
             /\ UsersStay(live, now, u)
<1> DEFINE o == Snap(mos, d, s)
           od == mos[o].dead
           h == mos[d].head
           g == mos[o].guid
           now == Without(live, {g})
           q1 == [mos[nx] EXCEPT !.prev = prev]
           m1 == [mos EXCEPT ![nx].prev = prev]
           q2 == [m1[h] EXCEPT !.snaps = Without(mos[h].snaps, {s})]
           m2 == [m1 EXCEPT ![h].snaps = Without(mos[h].snaps, {s})]
           q3 == Dead(used, lists)
           m3 == [m2 EXCEPT ![dead] = q3]
           q4 == [m3[FreeList] EXCEPT !.bytes = mos[FreeList].bytes + freed]
           m4 == [m3 EXCEPT ![FreeList].bytes = mos[FreeList].bytes + freed]
           new == Without(m4, {o, od})
<1>1. Joined(mos, h, s, nx, prev, dead, used, lists, freed) = m4
  BY Zenon DEF Joined
<1>2. /\ Objects(mos) /\ HeadsKnown(mos, live) /\ SnapsKnown(mos, live) /\ Tree(mos, live) /\ Origins(mos) /\ Deads(mos)
      /\ Roots(mos) /\ OriginKnown(mos) /\ SetsKnown(mos)
  BY DEF Sound, Exact
<1>3. /\ o \in DOMAIN mos /\ mos[o].is = "set" /\ mos[o].dir = d /\ IsIn(mos, o) /\ mos[od].is = "dead"
      /\ h \in DOMAIN mos /\ mos[h].is = "set" /\ mos[h].dir = d /\ d # OriginDir
  <2>1. IsSetOf(mos, d, o) /\ IsSetOf(mos, d, h) /\ IsKnown(mos, o) /\ d # OriginDir
    BY <1>2 DEF SnapsKnown, HeadsKnown, IsKnown, Dirs
  <2> QED
    BY <1>2, <2>1 DEF IsSetOf, IsIn, Deads
<1>4. nx \in DOMAIN mos /\ mos[nx].is = "set" /\ mos[nx].dir # OriginDir
  BY DEF IsIn, Dirs
<1>5. m1 = [mos EXCEPT ![nx] = q1] /\ m2 = [m1 EXCEPT ![h] = q2] /\ m4 = [m3 EXCEPT ![FreeList] = q4]
  OBVIOUS
<1>6. AllAlike(mos, m1) /\ DOMAIN m1 = DOMAIN mos
  <2> HIDE DEF m1
  <2>1. IsSet(mos[nx])
    BY <1>2, <1>4 DEF Objects, IsDir, IsDead, IsBpobj
  <2>2. Alike(mos[nx], q1)
    BY <1>4, <2>1, SetsAreAlike
  <2> HIDE DEF q1
  <2> QED
    BY <1>4, <1>5, <2>2, ExceptIsAlike
<1>7. Objects(m1)
  BY <1>2, <1>4, ReorderedKeeps
<1> HIDE DEF m1, q1, m2
<1>8. m1[h].is = "set" /\ m1[h].snaps = mos[h].snaps /\ IsSet(m1[h])
  <2>1. m1[h].is = "set" /\ m1[h].snaps = mos[h].snaps
    BY <1>3, <1>6 DEF AllAlike, Alike, Kin
  <2> QED
    BY <1>3, <1>6, <1>7, <2>1 DEF Objects, IsDir, IsDead, IsBpobj
<1>9. /\ DOMAIN m2 = DOMAIN mos /\ (\A x \in DOMAIN mos : x # h => m2[x] = m1[x]) /\ m2[h] = q2
      /\ Kin(m1[h], q2) /\ SameSize(m1[h], q2) /\ q2.snaps = Without(mos[h].snaps, {s}) /\ q2.is = "set"
  <2>1. Kin(m1[h], q2) /\ SameSize(m1[h], q2)
    BY <1>8, SetsAreAlike
  <2>2. q2.snaps = Without(mos[h].snaps, {s}) /\ q2.is = "set"
    <3> DEFINE k == Without(mos[h].snaps, {s})
    <3>1. m1[h] = [is |-> "set", dir |-> m1[h].dir, prev |-> m1[h].prev, next |-> m1[h].next, snaps |-> m1[h].snaps,
                   guid |-> m1[h].guid, txg |-> m1[h].txg, shape |-> m1[h].shape, dead |-> m1[h].dead]
      BY <1>8 DEF IsSet, Set
    <3> HIDE DEF k
    <3>2. [m1[h] EXCEPT !.snaps = k].snaps = k /\ [m1[h] EXCEPT !.snaps = k].is = "set"
      BY <3>1
    <3> QED
      BY <3>2 DEF k
  <2> HIDE DEF q2
  <2> QED
    BY <1>3, <1>5, <1>6, <2>1, <2>2
<1> HIDE DEF q2
<1>10. AllAlike(m2, m3) /\ DOMAIN m3 = DOMAIN mos
  <2>1. m2[dead].is = "dead"
    <3>1. m1[dead].is = "dead" /\ dead # h
      BY <1>3, <1>6 DEF AllAlike, Alike, Kin
    <3> QED
      BY <1>9, <3>1
  <2>2. q3.is = "dead"
    BY DeadFields
  <2> HIDE DEF q3
  <2>3. Alike(m2[dead], q3)
    BY <2>1, <2>2 DEF Alike, Kin, SameSize
  <2> QED
    BY <1>9, <2>3, ExceptIsAlike
<1> HIDE DEF m3, m4
<1>11. AllAlike(m2, m4) /\ DOMAIN m4 = DOMAIN mos
  <2>1. m3[FreeList].is = "bpobj" /\ FreeList \in DOMAIN mos
    <3>1. FreeList \in DOMAIN mos /\ mos[FreeList].is = "bpobj"
      BY <1>2 DEF Objects, Kept
    <3>2. m1[FreeList].is = "bpobj" /\ FreeList # h
      BY <1>3, <1>6, <3>1 DEF AllAlike, Alike, Kin
    <3>3. m2[FreeList].is = "bpobj"
      BY <1>9, <3>1, <3>2
    <3> QED
      BY <1>9, <1>10, <3>1, <3>3 DEF AllAlike, Alike, Kin
  <2>2. q4.is = m3[FreeList].is
    OBVIOUS
  <2> HIDE DEF q4
  <2>3. Alike(m3[FreeList], q4)
    BY <2>1, <2>2 DEF Alike, Kin, SameSize
  <2>4. AllAlike(m3, m4) /\ DOMAIN m4 = DOMAIN m3
    BY <1>5, <1>10, <2>1, <2>3, ExceptIsAlike
  <2> QED
    BY <1>10, <2>4, AlikeOn
<1>12. IsWithout(new, m4, {o, od}) /\ IsWithout(now, live, {g})
  BY WithoutChanges
<1> HIDE DEF new, now, o, od, h, g
<1>13. DOMAIN new = DOMAIN mos \ {o, od}
  BY <1>11, <1>12 DEF IsWithout
<1>14. ASSUME NEW x \in DOMAIN new
       PROVE  /\ x \in DOMAIN mos /\ Kin(mos[x], new[x]) /\ SameSize(mos[x], new[x])
              /\ mos[x].is = "set" => new[x].snaps = IF x = h THEN Without(mos[h].snaps, {s}) ELSE mos[x].snaps
  <2>1. x \in DOMAIN mos /\ new[x] = m4[x]
    BY <1>11, <1>12, <1>13 DEF IsWithout
  <2>2. Alike(mos[x], m1[x]) /\ Alike(m2[x], m4[x])
    BY <1>6, <1>9, <1>11, <2>1 DEF AllAlike
  <2>3. /\ Kin(m1[x], m2[x]) /\ SameSize(m1[x], m2[x])
        /\ mos[x].is = "set" => m2[x].snaps = IF x = h THEN Without(mos[h].snaps, {s}) ELSE mos[x].snaps
    <3>1. CASE x = h
      BY <1>9, <3>1
    <3>2. CASE x # h
      <4>1. m2[x] = m1[x]
        BY <1>9, <2>1, <3>2
      <4> QED
        BY <2>2, <3>2, <4>1 DEF Alike, Kin, SameSize
    <3> QED
      BY <3>1, <3>2
  <2>4. Kin(mos[x], m4[x])
    BY <2>2, <2>3 DEF Alike, Kin
  <2>5. SameSize(mos[x], m4[x])
    BY <2>2, <2>3 DEF Alike, Kin, SameSize
  <2>6. mos[x].is = "set" => m4[x].snaps = IF x = h THEN Without(mos[h].snaps, {s}) ELSE mos[x].snaps
    BY <2>2, <2>3 DEF Alike, Kin
  <2> QED
    BY <2>1, <2>4, <2>5, <2>6
<1>15. /\ Dirs(new) = Dirs(mos) \cap DOMAIN new
       /\ \A x : IsIn(new, x) => IsIn(mos, x) /\ new[x].dir = mos[x].dir /\ new[x].guid = mos[x].guid
       /\ \A p \in Dirs(new) : new[p].head = mos[p].head
  BY <1>14, KinDirs
<1>16. \A x \in DOMAIN mos : x # o /\ mos[x].is # "dead" => x \in DOMAIN new
  BY <1>3, <1>13
<1>17. {Root, OriginDir, mos[OriginDir].head} \subseteq DOMAIN new
  <2>1. Root \in DOMAIN mos /\ mos[Root].is = "dir" /\ OriginDir \in DOMAIN mos /\ mos[OriginDir].is = "dir"
    BY <1>2 DEF Tree, Dirs, Objects, Kept
  <2>2. mos[OriginDir].head \in DOMAIN mos /\ mos[mos[OriginDir].head].is = "set" /\ mos[mos[OriginDir].head].dir = OriginDir
    BY <1>2 DEF OriginKnown, HeadOf
  <2> QED
    BY <1>3, <1>16, <2>1, <2>2
<1>18. \A p \in Dirs(mos) : p \in DOMAIN new
  BY <1>3, <1>16 DEF Dirs
<1>19. ASSUME NEW p \in Dirs(new)
       PROVE  /\ mos[p].root # NoObject => mos[p].root \in DOMAIN new
              /\ mos[p].origin # OriginSnap => mos[p].origin \in DOMAIN new /\ mos[mos[p].origin].dir \in DOMAIN new
              /\ \A k \in SnapsOf(mos, p) : Snap(mos, p, k) \in DOMAIN new =>
                   k \in SnapsOf(new, p) /\ Snap(new, p, k) = Snap(mos, p, k)
  <2>1. p \in Dirs(mos)
    BY <1>15
  <2>2. mos[p].root # NoObject => mos[p].root \in DOMAIN new
    BY <1>2, <1>18, <2>1 DEF Roots
  <2>3. mos[p].origin # OriginSnap => mos[p].origin \in DOMAIN new /\ mos[mos[p].origin].dir \in DOMAIN new
    <3> SUFFICES ASSUME mos[p].origin # OriginSnap
                 PROVE  mos[p].origin \in DOMAIN new /\ mos[mos[p].origin].dir \in DOMAIN new
      OBVIOUS
    <3>1. PICK q \in Dirs(mos) : \E k \in SnapsOf(mos, q) : mos[p].origin = Snap(mos, q, k)
      BY <1>2, <2>1 DEF Roots, Origins
    <3>2. PICK k \in SnapsOf(mos, q) : mos[p].origin = Snap(mos, q, k)
      BY <3>1
    <3>3. mos[p].origin \in DOMAIN mos /\ mos[mos[p].origin].is = "set" /\ mos[mos[p].origin].dir = q
      BY <1>2, <3>2 DEF SnapsKnown, IsSetOf
    <3>4. mos[p].origin # o
      BY <2>1 DEF o
    <3> QED
      BY <1>16, <1>18, <3>3, <3>4
  <2>4. ASSUME NEW k \in SnapsOf(mos, p), Snap(mos, p, k) \in DOMAIN new
        PROVE  k \in SnapsOf(new, p) /\ Snap(new, p, k) = Snap(mos, p, k)
    <3> DEFINE z == mos[p].head
    <3>1. z \in DOMAIN mos /\ mos[z].is = "set" /\ mos[z].dir = p
      BY <1>2, <2>1 DEF HeadsKnown, IsSetOf
    <3>2. z \in DOMAIN new /\ new[p].head = z
      <4>1. z # o
        BY <2>1, HeadsAreNoSnaps DEF o
      <4> QED
        BY <1>15, <1>16, <3>1, <4>1
    <3>3. CASE z = h
      <4>1. p = d
        BY <1>3, <3>1, <3>3
      <4>2. Snap(mos, p, k) # o
        BY <1>13, <2>4
      <4>3. k # s
        BY <4>1, <4>2 DEF o
      <4>4. IsWithout(Without(mos[h].snaps, {s}), mos[h].snaps, {s})
        BY WithoutChanges
      <4>5. new[z].snaps = Without(mos[h].snaps, {s})
        BY <1>14, <3>1, <3>2, <3>3
      <4> QED
        BY <3>2, <3>3, <4>3, <4>4, <4>5 DEF SnapsOf, Snap, HeadOf, IsWithout
    <3>4. CASE z # h
      <4>1. new[z].snaps = mos[z].snaps
        BY <1>14, <3>1, <3>2, <3>4
      <4> QED
        BY <3>2, <4>1 DEF SnapsOf, Snap, HeadOf
    <3> QED
      BY <3>3, <3>4
  <2> QED
    BY <2>2, <2>3, <2>4
<1>20. ASSUME NEW x, IsIn(new, x)
       PROVE  LET i == mos[x].guid
              IN  /\ i \in DOMAIN now /\ now[i].kind = live[i].kind /\ now[i].locked = live[i].locked
                  /\ now[i].clone = live[i].clone /\ IsShape(new[x].shape) /\ now[i].size = new[x].shape.size
  <2>1. IsIn(mos, x) /\ Portrayed(mos, live, x)
    BY <1>15, <1>20 DEF Exact
  <2>2. x \in DOMAIN new /\ x # o
    BY <1>13, <1>20 DEF IsIn
  <2>3. mos[x].guid # g
    BY <1>3, <2>1, <2>2 DEF Exact, g
  <2>4. mos[x].guid \in DOMAIN now /\ now[mos[x].guid] = live[mos[x].guid]
    BY <1>12, <2>1, <2>3 DEF Portrayed, IsWithout
  <2>5. mos[x].is = "set" /\ Kin(mos[x], new[x]) /\ SameSize(mos[x], new[x])
    BY <1>14, <2>1, <2>2 DEF IsIn
  <2> QED
    BY <2>1, <2>4, <2>5 DEF Portrayed, Kin, SameSize
<1>21. ASSUME NEW i \in DOMAIN now
       PROVE  i \in DOMAIN live /\ \A x : IsIn(mos, x) /\ mos[x].guid = i => x \in DOMAIN new /\ mos[x].dir \in DOMAIN new
  <2>1. i \in DOMAIN live /\ i # mos[o].guid
    BY <1>12 DEF IsWithout, g
  <2> QED
    BY <1>16, <1>18, <2>1 DEF IsIn
<1>22. \A x \in DOMAIN new : x \in DOMAIN mos /\ mos[x].is = "set" => mos[x].dir \in DOMAIN new
  BY <1>17, <1>18 DEF Exact, SetsHaveDirs
<1>23. Exact(new, now) /\ UsersStay(live, now, u)
  BY <1>14, <1>17, <1>19, <1>20, <1>21, <1>22, KinIsExact
<1> QED
  BY <1>1, <1>23 DEF new, now, o, od, h, g

\* A dataset more, seen as it is, leaves what the user sees true.
LEMMA MoreIsExact ==
  ASSUME NEW t \in Nat, NEW mos, NEW live, Sound(mos, live, t), Exact(mos, live), NEW new, NEW now, NEW x0, NEW g,
         g = 105 + (t + 1), g \notin DOMAIN live, x0 \notin DOMAIN mos,
         \A x \in DOMAIN mos : x \in DOMAIN new /\ Kin(mos[x], new[x]) /\ SameSize(mos[x], new[x]),
         \A x \in DOMAIN new \ DOMAIN mos : new[x].is = "set" => x = x0,
         \A p \in Dirs(new) : p \notin DOMAIN mos =>
           /\ new[p].origin # NoObject /\ (new[p].root # NoObject => new[p].root \in Dirs(mos))
           /\ new[p].origin = OriginSnap => new[p].root = NoObject
           /\ new[p].origin # OriginSnap => /\ IsOrigin(mos, new[p].origin)
                                            /\ new[p].root = mos[mos[new[p].origin].dir].root,
         \A p \in Dirs(mos) : \A k \in SnapsOf(mos, p) : k \in SnapsOf(new, p) /\ Snap(new, p, k) = Snap(mos, p, k),
         IsIn(new, x0), new[x0].guid = g, Portrayed(new, now, x0),
         LET d == new[x0].dir IN x0 = new[d].head \/ \E k \in SnapsOf(new, d) : x0 = Snap(new, d, k),
         DOMAIN now = DOMAIN live \cup {g}, \A i \in DOMAIN live : now[i] = live[i]
  PROVE  Exact(new, now) /\ UsersStay(live, now, t)
<1>1. /\ Objects(mos) /\ HeadsKnown(mos, live) /\ SnapsKnown(mos, live) /\ Tree(mos, live) /\ Origins(mos)
      /\ Roots(mos) /\ OriginKnown(mos) /\ SetsKnown(mos) /\ SetsHaveDirs(mos)
  BY DEF Sound, Exact
<1>2. ASSUME NEW p \in Dirs(mos)
      PROVE  /\ p \in Dirs(new) /\ new[p].root = mos[p].root /\ new[p].origin = mos[p].origin /\ new[p].head = mos[p].head
             /\ p \in DOMAIN mos
  BY DEF Dirs, Kin
<1>3. \A p \in Dirs(new) : p \in DOMAIN mos => p \in Dirs(mos)
  BY DEF Dirs, Kin
<1>4. ASSUME NEW x, IsIn(mos, x)
      PROVE  IsIn(new, x) /\ new[x].dir = mos[x].dir /\ new[x].guid = mos[x].guid
  BY <1>2, <1>4 DEF IsIn, Kin
<1>5. ASSUME NEW x, IsIn(new, x), x # x0
      PROVE  IsIn(mos, x) /\ new[x].dir = mos[x].dir /\ new[x].guid = mos[x].guid
  <2>1. x \in DOMAIN mos
    BY <1>5 DEF IsIn
  <2>2. mos[x].is = "set" /\ new[x].dir = mos[x].dir /\ new[x].guid = mos[x].guid
    BY <1>5, <2>1 DEF IsIn, Kin
  <2>3. mos[x].dir \in Dirs(mos)
    <3>1. mos[x].dir \in Dirs(mos) \cup {OriginDir}
      BY <1>1, <2>1, <2>2 DEF SetsHaveDirs
    <3> QED
      BY <1>5, <2>2, <3>1 DEF IsIn, Dirs
  <2> QED
    BY <2>1, <2>2, <2>3 DEF IsIn
<1>6. Roots(new)
  <2> SUFFICES ASSUME NEW p \in Dirs(new)
               PROVE  /\ new[p].root # NoObject => new[p].root \in Dirs(new)
                      /\ new[p].origin # NoObject
                      /\ new[p].origin = OriginSnap /\ new[p].root # NoObject => new[p].root = p
                      /\ new[p].origin # OriginSnap => new[p].root = new[new[new[p].origin].dir].root
    BY DEF Roots
  <2>1. ASSUME NEW o, IsOrigin(mos, o)
        PROVE  new[new[o].dir].root = mos[mos[o].dir].root
    <3>1. o \in DOMAIN mos /\ mos[o].is = "set" /\ mos[o].dir \in Dirs(mos)
      BY <1>1, <2>1 DEF IsOrigin, SnapsKnown, IsSetOf
    <3>2. new[o].dir = mos[o].dir
      BY <3>1 DEF Kin
    <3> QED
      BY <1>2, <3>1, <3>2
  <2>2. CASE p \in DOMAIN mos
    <3>1. p \in Dirs(mos)
      BY <1>3, <2>2
    <3>2. mos[p].origin # OriginSnap => IsOrigin(mos, mos[p].origin)
      BY <1>1, <3>1 DEF Roots, Origins, IsOrigin
    <3> QED
      BY <1>1, <1>2, <2>1, <3>1, <3>2 DEF Roots
  <2>3. CASE p \notin DOMAIN mos
    BY <1>2, <2>1, <2>3
  <2> QED
    BY <2>2, <2>3
<1>7. OriginKnown(new)
  <2>1. /\ Root \in DOMAIN mos /\ OriginDir \in DOMAIN mos /\ mos[Root].is = "dir" /\ mos[OriginDir].is = "dir"
        /\ mos[OriginDir].head \in DOMAIN mos
    BY <1>1 DEF Objects, Kept, Tree, Dirs, OriginKnown
  <2>2. Kin(mos[Root], new[Root]) /\ Kin(mos[OriginDir], new[OriginDir])
    BY <2>1
  <2>3. new[OriginDir].head = mos[OriginDir].head
    BY <2>1, <2>2 DEF Kin
  <2>4. mos[OriginDir].head \in DOMAIN new /\ Kin(mos[mos[OriginDir].head], new[mos[OriginDir].head])
    BY <2>1
  <2> QED
    BY <1>1, <2>1, <2>2, <2>3, <2>4 DEF OriginKnown, HeadOf, Kin
<1>8. ASSUME NEW x, IsIn(new, x)
      PROVE  LET d == new[x].dir IN x = new[d].head \/ \E s \in SnapsOf(new, d) : x = Snap(new, d, s)
  <2>1. CASE x = x0
    BY <2>1
  <2>2. CASE x # x0
    <3>1. IsIn(mos, x) /\ new[x].dir = mos[x].dir /\ mos[x].dir \in Dirs(mos)
      BY <1>5, <1>8, <2>2 DEF IsIn
    <3>2. x = mos[mos[x].dir].head \/ \E s \in SnapsOf(mos, mos[x].dir) : x = Snap(mos, mos[x].dir, s)
      BY <1>1, <3>1, Zenon DEF SetsKnown
    <3> QED
      BY <1>2, <3>1, <3>2
  <2> QED
    BY <2>1, <2>2
<1>9. ASSUME NEW x, IsIn(new, x)
      PROVE  Portrayed(new, now, x)
  <2>1. CASE x = x0
    BY <2>1
  <2>2. CASE x # x0
    <3>1. IsIn(mos, x) /\ new[x].dir = mos[x].dir /\ new[x].guid = mos[x].guid
      BY <1>5, <1>9, <2>2
    <3>2. Portrayed(mos, live, x) /\ mos[x].dir \in Dirs(mos) /\ x \in DOMAIN mos /\ mos[x].is = "set"
      BY <3>1 DEF Exact, IsIn
    <3>3. IsShape(new[x].shape) /\ new[x].shape.kind = mos[x].shape.kind /\ new[x].shape.size = mos[x].shape.size
      BY <3>2 DEF Kin, SameSize, Portrayed
    <3> QED
      BY <1>2, <3>1, <3>2, <3>3 DEF Portrayed
  <2> QED
    BY <2>1, <2>2
<1>10. ASSUME NEW x, NEW y, IsIn(new, x), IsIn(new, y), new[x].guid = new[y].guid
       PROVE  x = y
  <2>1. \A z : IsIn(new, z) /\ z # x0 => new[z].guid # g
    BY <1>5 DEF Exact, Portrayed
  <2>2. CASE x = x0 \/ y = x0
    BY <1>10, <2>1, <2>2
  <2>3. CASE x # x0 /\ y # x0
    BY <1>5, <1>10, <2>3 DEF Exact
  <2> QED
    BY <2>2, <2>3
<1>11. ASSUME NEW i \in DOMAIN now
       PROVE  \E x : IsIn(new, x) /\ new[x].guid = i
  <2>1. CASE i = g
    BY <2>1
  <2>2. CASE i # g
    <3>1. PICK x : IsIn(mos, x) /\ mos[x].guid = i
      BY <2>2 DEF Exact
    <3> QED
      BY <1>4, <3>1
  <2> QED
    BY <2>1, <2>2
<1>12. UsersStay(live, now, t)
  BY DEF UsersStay
<1>13. SetsHaveDirs(new)
  <2> SUFFICES ASSUME NEW x \in DOMAIN new, new[x].is = "set"
               PROVE  new[x].dir \in Dirs(new) \cup {OriginDir}
    BY DEF SetsHaveDirs
  <2>1. CASE x \in DOMAIN mos
    <3>1. mos[x].is = "set" /\ new[x].dir = mos[x].dir
      BY <2>1 DEF Kin
    <3> QED
      BY <1>1, <1>2, <2>1, <3>1 DEF SetsHaveDirs
  <2>2. CASE x \notin DOMAIN mos
    BY <2>2 DEF IsIn
  <2> QED
    BY <2>1, <2>2
<1>14. Exact(new, now)
  BY <1>6, <1>7, <1>8, <1>9, <1>10, <1>11, <1>13 DEF Exact, SetsKnown
<1> QED
  BY <1>12, <1>14

\* zfs create and zfs clone.
LEMMA GrownIsExact ==
  ASSUME NEW t \in Nat, NEW mos, NEW live, Sound(mos, live, t), Exact(mos, live), NEW d \in Dirs(mos), NEW n \in Names,
         NEW a, NEW b, NEW c, NEW origin, NEW root, NEW shape, NEW lists, NEW e,
         a \notin DOMAIN mos, b \notin DOMAIN mos, c \notin DOMAIN mos, a # b, a # c, b # c,
         IF origin = OriginSnap THEN root = NoObject ELSE IsOrigin(mos, origin) /\ root = mos[mos[origin].dir].root,
         IsShape(shape), root # NoObject => shape.kind = "zvol", e.kind = shape.kind, e.size = shape.size,
         e.locked = (root # NoObject), e.clone = (origin # OriginSnap)
  PROVE  LET now == Put(live, 105 + (t + 1), e)
         IN  /\ Exact(Grown(mos, d, n, a, b, c, origin, root, shape, lists, 105 + (t + 1), t + 1), now)
             /\ UsersStay(live, now, t)
<1> DEFINE g == 105 + (t + 1)
           new == Grown(mos, d, n, a, b, c, origin, root, shape, lists, g, t + 1)
           now == Put(live, g, e)
<1>1. /\ Objects(mos) /\ HeadsKnown(mos, live) /\ SnapsKnown(mos, live) /\ Users(mos, live, t) /\ Roots(mos)
  BY DEF Sound, Exact
<1>2. IsDir(mos[d]) /\ d \in DOMAIN mos /\ mos[d].is = "dir"
  BY <1>1 DEF Objects, Dirs, IsDir, IsSet, IsDead, IsBpobj
<1>3. IsGrown(new, mos, d, n, a, b, c, origin, root, shape, lists, g, t + 1)
  BY <1>2, GrownObjects
<1>4. g \notin DOMAIN live
  BY <1>1 DEF Users
<1>5. IsPut(now, live, g, e)
  BY PutChanges
<1> HIDE DEF new, now, g
<1>6. DOMAIN now = DOMAIN live \cup {g} /\ now[g] = e /\ \A i \in DOMAIN live : now[i] = live[i]
  BY <1>4, <1>5 DEF IsPut
<1>7. /\ new[a].is = "dir" /\ new[a].head = b /\ new[a].origin = origin /\ new[a].root = root
      /\ new[b].is = "set" /\ new[b].dir = a /\ new[b].guid = g /\ new[b].shape = shape /\ new[c].is = "dead"
  BY <1>3, NothingIsEmpty, DirFields, SetFields, DeadFields DEF IsGrown
<1>8. DOMAIN new = DOMAIN mos \cup {a, b, c} /\ \A o \in DOMAIN mos : o # d => new[o] = mos[o]
  BY <1>3 DEF IsGrown
<1>9. \A x \in DOMAIN mos : x \in DOMAIN new /\ Kin(mos[x], new[x]) /\ SameSize(mos[x], new[x])
  <2>1. new[d] = [mos[d] EXCEPT !.kids = Put(mos[d].kids, n, a)]
    BY <1>2, <1>3, DirChanges DEF IsGrown
  <2>2. n # "$ORIGIN"
    BY HistoryAssumption
  <2>3. Alike(mos[d], [mos[d] EXCEPT !.kids = Put(@, n, a)])
    BY <1>2, <2>2, DirsAreAlike
  <2>4. Alike(mos[d], new[d])
    BY <2>1, <2>3
  <2>5. \A q : Kin(q, q) /\ SameSize(q, q)
    BY DEF Kin, SameSize
  <2> QED
    BY <1>8, <2>4, <2>5 DEF Alike
<1>10. a # OriginDir
  BY <1>1 DEF Objects, Kept
<1>11. \A x \in DOMAIN new \ DOMAIN mos : new[x].is = "set" => x = b
  BY <1>7, <1>8
<1>12. \A p \in Dirs(new) : p \notin DOMAIN mos => p = a
  BY <1>7, <1>8 DEF Dirs
<1>13. a \in Dirs(new) /\ IsIn(new, b)
  BY <1>7, <1>8, <1>10 DEF Dirs, IsIn
<1>14. root # NoObject => root \in Dirs(mos)
  <2>1. ASSUME NEW o, IsOrigin(mos, o)
        PROVE  mos[o].dir \in Dirs(mos)
    BY <1>1, <2>1 DEF IsOrigin, SnapsKnown, IsSetOf
  <2> QED
    BY <1>1, <2>1 DEF Roots
<1>15. origin # NoObject
  <2>1. ASSUME NEW o, IsOrigin(mos, o)
        PROVE  o \in DOMAIN mos
    BY <1>1, <2>1 DEF IsOrigin, SnapsKnown, IsSetOf
  <2> QED
    BY <1>1, <2>1 DEF Objects, OriginSnap, NoObject
<1>16. \A p \in Dirs(mos) : \A k \in SnapsOf(mos, p) : k \in SnapsOf(new, p) /\ Snap(new, p, k) = Snap(mos, p, k)
  <2> SUFFICES ASSUME NEW p \in Dirs(mos)
               PROVE  HeadOf(new, p) = HeadOf(mos, p)
    BY DEF SnapsOf, Snap
  <2>1. new[p].head = mos[p].head
    BY <1>9 DEF Kin, Dirs
  <2>2. mos[p].head \in DOMAIN mos /\ mos[p].head # d
    BY <1>1, <1>2 DEF HeadsKnown, IsSetOf
  <2> QED
    BY <1>8, <2>1, <2>2 DEF HeadOf
<1>17. Portrayed(new, now, b)
  BY <1>6, <1>7 DEF Portrayed
<1>18. g = 105 + (t + 1)
  BY DEF g
<1>19. Exact(new, now) /\ UsersStay(live, now, t)
  BY <1>4, <1>6, <1>7, <1>9, <1>11, <1>12, <1>13, <1>14, <1>15, <1>16, <1>17, <1>18, MoreIsExact
<1> QED
  BY <1>19 DEF new, now, g

\* zfs snapshot.
LEMMA SnappedIsExact ==
  ASSUME NEW t \in Nat, NEW mos, NEW live, Sound(mos, live, t), Exact(mos, live), NEW d \in Dirs(mos), NEW s,
         s \notin SnapsOf(mos, d), NEW a, NEW b, NEW was, NEW lists,
         a \notin DOMAIN mos, b \notin DOMAIN mos, a # b
  PROVE  LET now == Put(live, 105 + (t + 1), [live[HeadOf(mos, d).guid] EXCEPT !.snap = {s}])
         IN  /\ Exact(Snapped(mos, d, s, a, b, was, HeadOf(mos, d).shape, lists, 105 + (t + 1), t + 1), now)
             /\ UsersStay(live, now, t)
<1> DEFINE g == 105 + (t + 1)
           o == mos[d].head
           h == HeadOf(mos, d)
           e == [live[h.guid] EXCEPT !.snap = {s}]
           new == Snapped(mos, d, s, a, b, was, h.shape, lists, g, t + 1)
           now == Put(live, g, e)
<1>1. /\ Objects(mos) /\ HeadsKnown(mos, live) /\ SnapsKnown(mos, live) /\ Users(mos, live, t) /\ Roots(mos)
  BY DEF Sound, Exact
<1>2. /\ o \in DOMAIN mos /\ mos[o] = h /\ h.is = "set" /\ h.dir = d /\ IsSet(h)
      /\ h.guid \in DOMAIN live
  <2>1. o \in DOMAIN mos /\ mos[o] = h /\ h.is = "set" /\ h.dir = d /\ h.guid \in DOMAIN live
    BY <1>1 DEF HeadsKnown, IsSetOf, HeadOf
  <2> HIDE DEF h, o
  <2>2. IsSet(h)
    BY <1>1, <2>1 DEF Objects, IsDir, IsDead, IsBpobj
  <2> QED
    BY <2>1, <2>2
<1>3. IsSnapped(new, mos, d, s, a, b, was, h.shape, lists, g, t + 1)
  BY <1>2, SnappedObjects
<1>4. g \notin DOMAIN live
  BY <1>1 DEF Users
<1>5. IsPut(now, live, g, e) /\ IsPut(Put(h.snaps, s, a), h.snaps, s, a)
  BY PutChanges
<1>6. DOMAIN now = DOMAIN live \cup {g} /\ now[g] = e /\ \A i \in DOMAIN live : now[i] = live[i]
  <2> HIDE DEF now, e, g
  <2> QED
    BY <1>4, <1>5 DEF IsPut
<1>7. e.kind = live[h.guid].kind /\ e.size = live[h.guid].size /\ e.locked = live[h.guid].locked
  OBVIOUS
<1>8. Portrayed(mos, live, o) /\ IsIn(mos, o)
  BY <1>2 DEF Exact, IsIn
<1> HIDE DEF new, now, g, e
<1>9. /\ DOMAIN new = DOMAIN mos \cup {a, b} /\ new[a] = Set(d, was, o, Nothing, g, t + 1, h.shape, h.dead)
      /\ new[b] = Dead(0, lists)
      /\ new[o] = Set(h.dir, a, h.next, Put(h.snaps, s, a), h.guid, h.txg, h.shape, b)
      /\ \A z \in DOMAIN mos : z # o => new[z] = mos[z]
  BY <1>3 DEF IsSnapped
<1> HIDE DEF h, o
<1>10. /\ new[a].is = "set" /\ new[a].dir = d /\ new[a].guid = g /\ new[a].shape = h.shape /\ new[b].is = "dead"
       /\ new[o].is = "set" /\ new[o].dir = h.dir /\ new[o].guid = h.guid /\ new[o].shape = h.shape
       /\ new[o].snaps = Put(h.snaps, s, a)
  <2>1. IsFcn(Put(h.snaps, s, a))
    BY <1>5 DEF IsPut
  <2> QED
    BY <1>9, <2>1, NothingIsEmpty, SetFields, DeadFields
<1>11. d # OriginDir /\ d \in DOMAIN mos /\ mos[d].is = "dir" /\ d # o
  BY <1>2 DEF Dirs
<1>12. \A x \in DOMAIN mos : x \in DOMAIN new /\ Kin(mos[x], new[x]) /\ SameSize(mos[x], new[x])
  <2>1. \A q : Kin(q, q) /\ SameSize(q, q)
    BY DEF Kin, SameSize
  <2>2. Kin(mos[o], new[o]) /\ SameSize(mos[o], new[o])
    BY <1>2, <1>10, <1>11 DEF Kin, SameSize
  <2> QED
    BY <1>9, <2>1, <2>2
<1>13. \A x \in DOMAIN new \ DOMAIN mos : new[x].is = "set" => x = a
  BY <1>9, <1>10
<1>14. \A p \in Dirs(new) : p \in DOMAIN mos
  BY <1>9, <1>10 DEF Dirs
<1>15. new[d] = mos[d] /\ d \in Dirs(new) /\ IsIn(new, a)
  BY <1>9, <1>10, <1>11 DEF Dirs, IsIn
<1>16. \A p \in Dirs(mos) : \A k \in SnapsOf(mos, p) : k \in SnapsOf(new, p) /\ Snap(new, p, k) = Snap(mos, p, k)
  <2> SUFFICES ASSUME NEW p \in Dirs(mos), NEW k \in SnapsOf(mos, p)
               PROVE  k \in SnapsOf(new, p) /\ Snap(new, p, k) = Snap(mos, p, k)
    OBVIOUS
  <2>1. new[p].head = mos[p].head /\ mos[p].head \in DOMAIN mos /\ mos[mos[p].head].dir = p
    BY <1>1, <1>12 DEF Kin, Dirs, HeadsKnown, IsSetOf
  <2>2. CASE mos[p].head = o
    <3>1. p = d
      BY <1>2, <2>1, <2>2
    <3>2. k \in DOMAIN h.snaps /\ k # s
      BY <1>2, <2>2, <3>1 DEF SnapsOf, HeadOf
    <3>3. k \in DOMAIN Put(h.snaps, s, a) /\ Put(h.snaps, s, a)[k] = h.snaps[k]
      BY <1>5, <3>2 DEF IsPut
    <3> QED
      BY <1>2, <1>10, <2>1, <2>2, <3>3 DEF SnapsOf, Snap, HeadOf
  <2>3. CASE mos[p].head # o
    BY <1>9, <2>1, <2>3 DEF SnapsOf, Snap, HeadOf
  <2> QED
    BY <2>2, <2>3
<1>17. Portrayed(new, now, a)
  <2>1. mos[d].head # a
    BY <1>1 DEF HeadsKnown, IsSetOf
  <2> QED
    BY <1>2, <1>6, <1>7, <1>8, <1>10, <1>15, <2>1 DEF Portrayed
<1>18. s \in SnapsOf(new, d) /\ a = Snap(new, d, s)
  <2>1. s \in DOMAIN Put(h.snaps, s, a) /\ Put(h.snaps, s, a)[s] = a
    BY <1>5 DEF IsPut
  <2>2. mos[d].head = o
    BY DEF o
  <2> QED
    BY <1>10, <1>15, <2>1, <2>2 DEF SnapsOf, Snap, HeadOf
<1>19. g = 105 + (t + 1)
  BY DEF g
<1>20. Exact(new, now) /\ UsersStay(live, now, t)
  BY <1>4, <1>6, <1>10, <1>12, <1>13, <1>14, <1>15, <1>16, <1>17, <1>18, <1>19, MoreIsExact
<1> QED
  BY <1>20 DEF new, now, g, h, e

\* zfs promote.
LEMMA PromotedIsExact ==
  ASSUME NEW t \in Nat, NEW mos, NEW live, Sound(mos, live, t), Exact(mos, live), NEW c \in Dirs(mos), NEW od \in Dirs(mos),
         NEW a \in SnapsOf(mos, od), mos[c].origin = Snap(mos, od, a),
         NEW moved, moved = {s \in SnapsOf(mos, od) : mos[Snap(mos, od, s)].txg <= mos[mos[c].origin].txg},
         moved \cap SnapsOf(mos, c) = {},
         NEW objects, objects = {Snap(mos, od, s) : s \in moved},
         NEW new, IsPromoted(new, mos, c, od, mos[c].origin, moved, objects),
         NEW now, LooksPromoted(mos, live, now, c, od)
  PROVE  Exact(new, now) /\ UsersStay(live, now, t)
<1> DEFINE snap == mos[c].origin
           ch == mos[c].head
           oh == mos[od].head
           k == Merged([s \in moved |-> mos[oh].snaps[s]], mos[ch].snaps)
           l == Without(mos[oh].snaps, moved)
<1>1. /\ Objects(mos) /\ HeadsKnown(mos, live) /\ SnapsKnown(mos, live) /\ Tree(mos, live) /\ Origins(mos)
      /\ Users(mos, live, t) /\ Roots(mos) /\ OriginKnown(mos) /\ SetsKnown(mos) /\ SetsHaveDirs(mos)
  BY DEF Sound, Exact
<1>2. \A x \in Dirs(mos) : \A s \in SnapsOf(mos, x) :
        /\ IsSetOf(mos, x, Snap(mos, x, s)) /\ mos[Snap(mos, x, s)].txg \in Nat
        /\ Snap(mos, x, s) \notin {NoObject, OriginSnap}
  <2> SUFFICES ASSUME NEW x \in Dirs(mos), NEW s \in SnapsOf(mos, x)
               PROVE  /\ IsSetOf(mos, x, Snap(mos, x, s)) /\ mos[Snap(mos, x, s)].txg \in Nat
                      /\ Snap(mos, x, s) \notin {NoObject, OriginSnap}
    OBVIOUS
  <2>1. IsSetOf(mos, x, Snap(mos, x, s)) /\ mos[Snap(mos, x, s)].txg \in Nat
    BY <1>1 DEF SnapsKnown, Users, IsSetOf
  <2>2. x # OriginDir /\ NoObject \notin DOMAIN mos /\ mos[OriginSnap].dir = OriginDir
    BY <1>1 DEF Dirs, Objects
  <2> QED
    BY <2>1, <2>2 DEF IsSetOf
<1>3. /\ a \in moved /\ snap \in objects /\ mos[snap].txg \in Nat /\ snap \in DOMAIN mos /\ mos[snap].is = "set"
      /\ mos[snap].dir = od /\ snap \notin {NoObject, OriginSnap}
  BY <1>2 DEF IsSetOf
<1>4. c # od
  <2>1. \A s \in SnapsOf(mos, c) : mos[Snap(mos, c, s)].txg > mos[snap].txg
    BY <1>1, <1>3 DEF Origins
  <2> QED
    BY <1>3, <2>1
<1>5. /\ ch \in DOMAIN mos /\ mos[ch].is = "set" /\ mos[ch].dir = c
      /\ oh \in DOMAIN mos /\ mos[oh].is = "set" /\ mos[oh].dir = od /\ ch # oh
  BY <1>1, <1>4 DEF HeadsKnown, IsSetOf
<1>6. /\ \A s \in moved : Snap(mos, od, s) \in objects
      /\ \A x \in objects : /\ x \in DOMAIN mos /\ mos[x].is = "set" /\ mos[x].dir = od
                            /\ \E s \in moved : x = Snap(mos, od, s)
      /\ moved \subseteq SnapsOf(mos, od)
  BY <1>2 DEF IsSetOf
<1>7. DOMAIN new = DOMAIN mos
  BY DEF IsPromoted
<1>8. ASSUME NEW z \in DOMAIN mos, mos[z].is = "dir"
      PROVE  /\ new[z].is = "dir" /\ new[z].head = mos[z].head /\ new[z].kids = mos[z].kids
             /\ new[z].root = Rooted(mos[z].root, od, c)
             /\ new[z].origin = IF z = c THEN mos[od].origin ELSE IF z = od THEN snap ELSE mos[z].origin
  BY <1>8 DEF IsPromoted, SameDir
<1>9. ASSUME NEW z \in DOMAIN mos, mos[z].is = "set"
      PROVE  /\ new[z].is = "set" /\ new[z].guid = mos[z].guid /\ new[z].shape = mos[z].shape /\ new[z].prev = mos[z].prev
             /\ new[z].dir = IF z \in objects THEN c ELSE mos[z].dir
             /\ new[z].snaps = IF z = ch THEN k ELSE IF z = oh THEN l ELSE mos[z].snaps
  <2> HIDE DEF k, l
  <2>1. /\ SameSet(new[z], mos[z]) /\ new[z].dir = IF z \in objects THEN c ELSE mos[z].dir
        /\ new[z].snaps = IF z = ch THEN k ELSE IF z = oh THEN l ELSE mos[z].snaps
    BY <1>9 DEF IsPromoted, k, l
  <2> QED
    BY <2>1 DEF SameSet
<1>10. ASSUME NEW z \in DOMAIN mos, mos[z].is \notin {"dir", "set"}
       PROVE  new[z] = mos[z]
  BY <1>10 DEF IsPromoted
<1>11. /\ DOMAIN k = moved \cup SnapsOf(mos, c) /\ (\A s \in moved : k[s] = Snap(mos, od, s))
       /\ \A s \in SnapsOf(mos, c) : s \notin moved => k[s] = Snap(mos, c, s)
  BY Zenon DEF Merged, SnapsOf, Snap, HeadOf
<1>12. DOMAIN l = SnapsOf(mos, od) \ moved /\ \A s \in SnapsOf(mos, od) \ moved : l[s] = Snap(mos, od, s)
  <2>1. IsWithout(l, mos[oh].snaps, moved)
    BY WithoutChanges
  <2> HIDE DEF l
  <2> QED
    BY <2>1, Zenon DEF IsWithout, SnapsOf, Snap, HeadOf
<1> HIDE DEF k, l, ch, oh, snap
<1>13. /\ Dirs(new) = Dirs(mos)
       /\ \A d \in Dirs(mos) :
            /\ d \in DOMAIN mos /\ new[d].head = mos[d].head /\ new[d].root = Rooted(mos[d].root, od, c)
            /\ new[d].origin = IF d = c THEN mos[od].origin ELSE IF d = od THEN snap ELSE mos[d].origin
  <2>1. ASSUME NEW z \in DOMAIN mos
        PROVE  new[z].is = mos[z].is
    BY <1>1, <1>8, <1>9, <1>10, <2>1 DEF Objects
  <2> QED
    BY <1>7, <1>8, <2>1 DEF Dirs
<1>14. \A x : IsIn(new, x) <=> IsIn(mos, x)
  <2> SUFFICES ASSUME NEW x \in DOMAIN mos
               PROVE  (new[x].is = "set" /\ new[x].dir \in Dirs(mos)) <=> (mos[x].is = "set" /\ mos[x].dir \in Dirs(mos))
    BY <1>7, <1>13 DEF IsIn
  <2>1. CASE mos[x].is = "set"
    BY <1>6, <1>9, <2>1
  <2>2. CASE mos[x].is # "set"
    BY <1>8, <1>10, <2>2
  <2> QED
    BY <2>1, <2>2
<1>15. \A x : IsIn(mos, x) => /\ new[x].guid = mos[x].guid /\ new[x].shape = mos[x].shape
                              /\ new[x].dir = IF x \in objects THEN c ELSE mos[x].dir
                              /\ x \in DOMAIN mos /\ mos[x].is = "set" /\ mos[x].dir \in Dirs(mos)
  BY <1>9 DEF IsIn
<1>16. mos[c].root = mos[od].root /\ NoObject \notin Dirs(mos)
  BY <1>1, <1>3 DEF Roots, Dirs, Objects, snap
<1>17. \A d \in Dirs(mos) : mos[d].origin # OriginSnap => IsOrigin(mos, mos[d].origin)
  BY <1>1 DEF Roots, Origins, IsOrigin
<1>18. \A x : IsOrigin(mos, x) => x \notin {NoObject, OriginSnap} /\ IsIn(mos, x)
  BY <1>2 DEF IsOrigin, IsSetOf, IsIn
<1>19. mos[od].origin \notin objects
  <2> SUFFICES ASSUME mos[od].origin \in objects PROVE FALSE
    OBVIOUS
  <2>1. PICK s \in moved : mos[od].origin = Snap(mos, od, s)
    BY <1>6
  <2>2. s \in SnapsOf(mos, od)
    BY <1>6
  <2>3. mos[Snap(mos, od, s)].txg > mos[mos[od].origin].txg
    BY <1>1, <1>2, <2>1, <2>2 DEF Origins
  <2> QED
    BY <1>2, <2>1, <2>2, <2>3
<1>20. Roots(new)
  <2> SUFFICES ASSUME NEW d \in Dirs(mos)
               PROVE  /\ new[d].root # NoObject => new[d].root \in Dirs(mos)
                      /\ new[d].origin # NoObject
                      /\ new[d].origin = OriginSnap /\ new[d].root # NoObject => new[d].root = d
                      /\ new[d].origin # OriginSnap => new[d].root = new[new[new[d].origin].dir].root
    BY <1>13 DEF Roots
  <2>1. new[d].root # NoObject => mos[d].root # NoObject
    BY <1>13, <1>16 DEF Rooted
  <2>2. new[d].root # NoObject => new[d].root \in Dirs(mos)
    BY <1>1, <1>13, <2>1 DEF Roots, Rooted
  <2>3. new[d].origin # NoObject
    BY <1>1, <1>3, <1>13 DEF Roots
  <2>4. ASSUME new[d].origin = OriginSnap, new[d].root # NoObject
        PROVE  new[d].root = d
    <3>1. CASE d = c
      BY <1>1, <1>13, <1>16, <2>1, <2>4, <3>1 DEF Roots, Rooted
    <3>2. CASE d = od
      BY <1>3, <1>4, <1>13, <2>4, <3>2
    <3>3. CASE d \notin {c, od}
      BY <1>1, <1>13, <2>1, <2>4, <3>3 DEF Roots, Rooted
    <3> QED
      BY <3>1, <3>2, <3>3
  <2>5. ASSUME new[d].origin # OriginSnap
        PROVE  new[d].root = new[new[new[d].origin].dir].root
    <3>1. ASSUME NEW x, IsOrigin(mos, x)
          PROVE  mos[x].dir \in Dirs(mos) /\ new[new[x].dir].root = Rooted(mos[mos[x].dir].root, od, c)
      <4>1. IsIn(mos, x)
        BY <1>18, <3>1
      <4>2. CASE x \in objects
        <5>1. new[x].dir = c /\ mos[x].dir = od
          BY <1>6, <1>15, <4>1, <4>2
        <5> QED
          BY <1>13, <1>16, <5>1
      <4>3. CASE x \notin objects
        <5>1. new[x].dir = mos[x].dir /\ mos[x].dir \in Dirs(mos)
          BY <1>15, <4>1, <4>3
        <5> QED
          BY <1>13, <5>1
      <4> QED
        BY <4>2, <4>3
    <3>2. CASE d = c
      <4>1. new[d].origin = mos[od].origin /\ mos[od].origin # OriginSnap
        BY <1>13, <2>5, <3>2
      <4>2. mos[od].root = mos[mos[mos[od].origin].dir].root
        BY <1>1, <4>1 DEF Roots
      <4> QED
        BY <1>13, <1>16, <1>17, <3>1, <3>2, <4>1, <4>2
    <3>3. CASE d = od
      <4>1. new[d].origin = snap /\ new[snap].dir = c
        BY <1>3, <1>4, <1>9, <1>13, <3>3
      <4> QED
        BY <1>13, <1>16, <3>3, <4>1
    <3>4. CASE d \notin {c, od}
      <4>1. new[d].origin = mos[d].origin /\ mos[d].origin # OriginSnap
        BY <1>13, <2>5, <3>4
      <4>2. mos[d].root = mos[mos[mos[d].origin].dir].root
        BY <1>1, <4>1 DEF Roots
      <4> QED
        BY <1>13, <1>17, <3>1, <4>1, <4>2
    <3> QED
      BY <3>2, <3>3, <3>4
  <2> QED
    BY <2>2, <2>3, <2>4, <2>5
<1>21. OriginKnown(new)
  <2>1. /\ Root \in DOMAIN mos /\ mos[Root].is = "dir" /\ OriginDir \in DOMAIN mos /\ mos[OriginDir].is = "dir"
        /\ od # OriginDir
    BY <1>1 DEF Objects, Kept, Tree, Dirs
  <2>2. new[Root].kids = mos[Root].kids /\ new[OriginDir].head = mos[OriginDir].head
    BY <1>8, <2>1
  <2>3. /\ mos[OriginDir].head \in DOMAIN mos /\ mos[mos[OriginDir].head].is = "set"
        /\ mos[mos[OriginDir].head].dir = OriginDir /\ mos[mos[OriginDir].head].prev = OriginSnap
    BY <1>1 DEF OriginKnown, HeadOf
  <2>4. mos[OriginDir].head \notin objects
    BY <1>6, <2>1, <2>3
  <2>5. LET h == new[mos[OriginDir].head] IN h.is = "set" /\ h.dir = OriginDir /\ h.prev = OriginSnap
    BY <1>9, <2>3, <2>4
  <2> QED
    BY <1>1, <1>7, <2>2, <2>3, <2>5 DEF OriginKnown, HeadOf
<1>22. \A d \in Dirs(mos) : mos[d].head \notin objects
  <2> SUFFICES ASSUME NEW d \in Dirs(mos), mos[d].head \in objects PROVE FALSE
    OBVIOUS
  <2>1. PICK s \in SnapsOf(mos, od) : mos[d].head = Snap(mos, od, s)
    BY <1>6
  <2> QED
    BY <2>1, HeadsAreNoSnaps
<1>23. /\ SnapsOf(new, c) = moved \cup SnapsOf(mos, c) /\ (\A s \in moved : Snap(new, c, s) = Snap(mos, od, s))
       /\ \A s \in SnapsOf(mos, c) : s \notin moved => Snap(new, c, s) = Snap(mos, c, s)
       /\ SnapsOf(new, od) = SnapsOf(mos, od) \ moved
       /\ \A s \in SnapsOf(mos, od) \ moved : Snap(new, od, s) = Snap(mos, od, s)
       /\ \A d \in Dirs(mos) \ {c, od} : HeadOf(new, d).snaps = HeadOf(mos, d).snaps
  <2>1. HeadOf(new, c).snaps = k
    <3>1. mos[c].head = ch
      BY DEF ch
    <3> QED
      BY <1>5, <1>9, <1>13, <3>1 DEF HeadOf
  <2>2. HeadOf(new, od).snaps = l
    <3>1. mos[od].head = oh
      BY DEF oh
    <3> QED
      BY <1>5, <1>9, <1>13, <3>1 DEF HeadOf
  <2>3. ASSUME NEW d \in Dirs(mos) \ {c, od}
        PROVE  HeadOf(new, d).snaps = HeadOf(mos, d).snaps
    <3>1. mos[d].head \in DOMAIN mos /\ mos[mos[d].head].is = "set" /\ mos[mos[d].head].dir = d
      BY <1>1 DEF HeadsKnown, IsSetOf
    <3>2. mos[d].head # ch /\ mos[d].head # oh
      BY <1>5, <3>1
    <3> QED
      BY <1>9, <1>13, <3>1, <3>2 DEF HeadOf
  <2> QED
    BY <1>11, <1>12, <2>1, <2>2, <2>3 DEF SnapsOf, Snap
<1>24. ASSUME NEW x, IsIn(mos, x)
       PROVE  LET d == new[x].dir IN x = new[d].head \/ \E s \in SnapsOf(new, d) : x = Snap(new, d, s)
  <2>1. mos[x].dir \in Dirs(mos) /\ new[x].dir = IF x \in objects THEN c ELSE mos[x].dir
    BY <1>15, <1>24
  <2>2. CASE x \in objects
    <3>1. PICK s \in moved : x = Snap(mos, od, s)
      BY <1>6, <2>2
    <3> QED
      BY <1>23, <2>1, <2>2, <3>1
  <2>3. CASE x \notin objects
    <3> DEFINE d == mos[x].dir
    <3>1. new[x].dir = d /\ d \in Dirs(mos) /\ new[d].head = mos[d].head
      BY <1>13, <2>1, <2>3
    <3>2. x = mos[d].head \/ \E s \in SnapsOf(mos, d) : x = Snap(mos, d, s)
      BY <1>1, <1>24, Zenon DEF SetsKnown
    <3> HIDE DEF d
    <3>3. ASSUME NEW s \in SnapsOf(mos, d), x = Snap(mos, d, s)
          PROVE  s \in SnapsOf(new, d) /\ x = Snap(new, d, s)
      <4>1. CASE d = c
        BY <1>23, <3>3, <4>1
      <4>2. CASE d = od
        <5>1. s \notin moved
          BY <1>6, <2>3, <3>3, <4>2
        <5> QED
          BY <1>23, <3>3, <4>2, <5>1
      <4>3. CASE d \notin {c, od}
        BY <1>23, <3>1, <3>3, <4>3 DEF SnapsOf, Snap
      <4> QED
        BY <4>1, <4>2, <4>3
    <3> QED
      BY <3>1, <3>2, <3>3
  <2> QED
    BY <2>2, <2>3
<1>25. ASSUME NEW x, IsIn(mos, x)
       PROVE  Portrayed(new, now, x)
  <2>1. Portrayed(mos, live, x)
    BY <1>25 DEF Exact
  <2>2. /\ new[x].guid = mos[x].guid /\ new[x].shape = mos[x].shape /\ mos[x].dir \in Dirs(mos)
        /\ new[x].dir = IF x \in objects THEN c ELSE mos[x].dir
    BY <1>15, <1>25
  <2>3. (new[new[x].dir].root # NoObject) <=> (mos[mos[x].dir].root # NoObject)
    <3>1. new[new[x].dir].root = Rooted(mos[mos[x].dir].root, od, c)
      <4>1. CASE x \in objects
        BY <1>6, <1>13, <1>16, <2>2, <4>1
      <4>2. CASE x \notin objects
        BY <1>13, <2>2, <4>2
      <4> QED
        BY <4>1, <4>2
    <3> QED
      BY <1>16, <3>1 DEF Rooted
  <2>4. x = new[new[x].dir].head => now[mos[x].guid].clone = (new[new[x].dir].origin # OriginSnap)
    <3> SUFFICES ASSUME x = new[new[x].dir].head
                 PROVE  now[mos[x].guid].clone = (new[new[x].dir].origin # OriginSnap)
      OBVIOUS
    <3> DEFINE d == mos[x].dir
    <3>1. x \notin objects
      <4>1. new[x].dir \in Dirs(mos)
        BY <2>2
      <4> QED
        BY <1>13, <1>22, <4>1
    <3>2. new[x].dir = d /\ d \in Dirs(mos) /\ x = mos[d].head
      BY <1>13, <2>2, <3>1
    <3>3. mos[x] = HeadOf(mos, d)
      BY <3>2 DEF HeadOf
    <3> HIDE DEF d
    <3>4. now[mos[x].guid].clone =
            IF d = c THEN mos[od].origin # OriginSnap ELSE IF d = od THEN TRUE ELSE live[mos[x].guid].clone
      BY <3>2, <3>3 DEF LooksPromoted
    <3>5. live[mos[x].guid].clone = (mos[d].origin # OriginSnap)
      BY <2>1, <3>2 DEF Portrayed, d
    <3>6. new[d].origin = IF d = c THEN mos[od].origin ELSE IF d = od THEN snap ELSE mos[d].origin
      BY <1>13, <3>2
    <3> QED
      BY <1>3, <3>2, <3>4, <3>5, <3>6
  <2>5. /\ mos[x].guid \in DOMAIN live /\ now[mos[x].guid].kind = live[mos[x].guid].kind
        /\ now[mos[x].guid].size = live[mos[x].guid].size /\ now[mos[x].guid].locked = live[mos[x].guid].locked
        /\ DOMAIN now = DOMAIN live
    BY <2>1 DEF Portrayed, LooksPromoted
  <2> QED
    BY <2>1, <2>2, <2>3, <2>4, <2>5 DEF Portrayed
<1>26. SetsHaveDirs(new)
  <2> SUFFICES ASSUME NEW x \in DOMAIN mos, new[x].is = "set"
               PROVE  new[x].dir \in Dirs(mos) \cup {OriginDir}
    BY <1>7, <1>13 DEF SetsHaveDirs
  <2>1. mos[x].is = "set"
    BY <1>8, <1>10
  <2> QED
    BY <1>1, <1>9, <2>1 DEF SetsHaveDirs
<1>27. \A x, y : IsIn(new, x) /\ IsIn(new, y) /\ new[x].guid = new[y].guid => x = y
  BY <1>14, <1>15 DEF Exact
<1>28. \A g \in DOMAIN now : \E x : IsIn(new, x) /\ new[x].guid = g
  BY <1>14, <1>15 DEF Exact, LooksPromoted
<1>29. UsersStay(live, now, t)
  BY DEF UsersStay, LooksPromoted
<1>30. SetsKnown(new) /\ \A x : IsIn(new, x) => Portrayed(new, now, x)
  BY <1>14, <1>24, <1>25 DEF SetsKnown
<1>31. Exact(new, now)
  BY <1>20, <1>21, <1>26, <1>27, <1>28, <1>30 DEF Exact
<1> QED
  BY <1>29, <1>31

\* The user sees the pool as it was made.
LEMMA FirstIsExact ==
  ASSUME NEW snapped \in BOOLEAN, NEW cloned \in BOOLEAN, cloned => snapped
  PROVE  Exact(UsedPool(snapped, cloned), SeenFirst(snapped, cloned))
<1> DEFINE mos == UsedPool(snapped, cloned)
           live == SeenFirst(snapped, cloned)
<1>1. /\ IsUsedPool(mos, snapped, cloned) /\ LooksUsed(mos, snapped, cloned)
      /\ IsSeenFirst(live, snapped, cloned) /\ LooksFirst(live, snapped, cloned)
  BY UsedPoolObjects, FirstIsSeen
<1> HIDE DEF mos, live
<1>2. DOMAIN mos = {1, 2, 3, 4, 5, 6, 8, 9, 10, 11, 12} \cup {o \in {13, 14} : snapped} \cup {o \in {15, 16, 17} : cloned}
  BY <1>1 DEF IsUsedPool
<1>3. \A o \in DOMAIN mos : (mos[o].is = "dir" <=> o \in {1, 3, 10, 15}) /\ (mos[o].is = "set" <=> o \in {2, 4, 5, 11, 13, 16})
  <2>1. {1, 3, 10, 15} \cap DOMAIN mos \subseteq {o \in DOMAIN mos : mos[o].is = "dir"}
    BY <1>1, <1>2 DEF IsUsedPool
  <2>2. {2, 4, 5, 11, 13, 16} \cap DOMAIN mos \subseteq {o \in DOMAIN mos : mos[o].is = "set"}
    BY <1>1, <1>2 DEF IsUsedPool
  <2>3. \A o \in DOMAIN mos : o \notin {1, 3, 10, 15, 2, 4, 5, 11, 13, 16} => mos[o].is \in {"dead", "bpobj"}
    BY <1>1, <1>2 DEF IsUsedPool
  <2> QED
    BY <2>1, <2>2, <2>3
<1>4. Dirs(mos) = {1, 10} \cup {o \in {15} : cloned}
  BY <1>2, <1>3 DEF Dirs, OriginDir
<1>5. /\ mos[2].dir = 1 /\ mos[4].dir = 3 /\ mos[5].dir = 3 /\ mos[11].dir = 10 /\ (snapped => mos[13].dir = 10)
      /\ cloned => mos[16].dir = 15
  BY <1>1 DEF IsUsedPool, LooksUsed, OriginDir
<1>6. \A x : IsIn(mos, x) <=> x \in {2, 11} \/ (snapped /\ x = 13) \/ (cloned /\ x = 16)
  BY <1>2, <1>3, <1>4, <1>5 DEF IsIn
<1>7. Roots(mos)
  <2>1. /\ mos[1].root = NoObject /\ mos[1].origin = OriginSnap /\ mos[10].root = 10 /\ mos[10].origin = OriginSnap
        /\ cloned => mos[15].root = 10 /\ mos[15].origin = 13 /\ mos[13].dir = 10
    BY <1>1, <1>5 DEF IsUsedPool, LooksUsed
  <2>2. NoObject = 0 /\ OriginSnap = 5
    BY DEF NoObject, OriginSnap
  <2> QED
    BY <1>4, <2>1, <2>2 DEF Roots
<1>8. OriginKnown(mos)
  BY <1>1, <1>2, <1>3, <1>5 DEF OriginKnown, LooksUsed, HeadOf, Root, OriginDir
<1>9. SetsKnown(mos)
  <2>1. mos[1].head = 2 /\ mos[10].head = 11 /\ (cloned => mos[15].head = 16)
    BY <1>1 DEF IsUsedPool
  <2>2. snapped => "s" \in SnapsOf(mos, 10) /\ 13 = Snap(mos, 10, "s")
    BY <1>1 DEF IsUsedPool, SnapsOf, Snap, HeadOf
  <2> QED
    BY <1>5, <1>6, <2>1, <2>2 DEF SetsKnown
<1>10. SetsHaveDirs(mos)
  BY <1>2, <1>3, <1>4, <1>5 DEF SetsHaveDirs, OriginDir
<1>11. /\ mos[2].guid = 100 /\ mos[11].guid = 103 /\ (snapped => mos[13].guid = 104) /\ (cloned => mos[16].guid = 105)
       /\ DOMAIN live = {100, 103} \cup {g \in {104} : snapped} \cup {g \in {105} : cloned}
  BY <1>1 DEF IsUsedPool, IsSeenFirst
<1>12. ASSUME NEW x, IsIn(mos, x)
       PROVE  Portrayed(mos, live, x)
  <2>1. /\ IsShape(Shape("zfs", 0, 1)) /\ IsShape(Shape("zvol", 1, 1)) /\ Shape("zvol", 1, 1).kind = "zvol"
    BY DEF IsShape, Shape
  <2>2. NoObject = 0 /\ OriginSnap = 5
    BY DEF NoObject, OriginSnap
  <2>3. ASSUME NEW shape, NEW clone, NEW locked, LooksSeen(live[mos[x].guid], shape, clone, locked), mos[x].shape = shape,
               mos[x].guid \in DOMAIN live, IsShape(shape), locked <=> mos[mos[x].dir].root # NoObject,
               locked => shape.kind = "zvol", x = mos[mos[x].dir].head => (clone <=> mos[mos[x].dir].origin # OriginSnap),
               locked \in BOOLEAN, clone \in BOOLEAN
        PROVE  Portrayed(mos, live, x)
    BY <2>3, Zenon DEF Portrayed, LooksSeen
  <2> DEFINE filesystem == Shape("zfs", 0, 1)
             volume == Shape("zvol", 1, 1)
  <2> HIDE DEF filesystem, volume
  <2>4. /\ LooksSeen(live[100], filesystem, FALSE, FALSE) /\ LooksSeen(live[103], volume, FALSE, TRUE)
        /\ snapped => LooksSeen(live[104], volume, FALSE, TRUE)
        /\ cloned => LooksSeen(live[105], volume, TRUE, TRUE)
    BY <1>1 DEF LooksFirst, filesystem, volume
  <2>5. /\ mos[2].shape = filesystem /\ mos[11].shape = volume /\ (snapped => mos[13].shape = volume)
        /\ cloned => mos[16].shape = volume
    BY <1>1 DEF LooksUsed, filesystem, volume
  <2>6. IsShape(filesystem) /\ IsShape(volume) /\ volume.kind = "zvol"
    BY <2>1 DEF filesystem, volume
  <2>7. /\ mos[1].root = NoObject /\ mos[1].origin = OriginSnap /\ mos[10].root # NoObject /\ mos[10].origin = OriginSnap
        /\ mos[10].head = 11 /\ (cloned => mos[15].root # NoObject /\ mos[15].origin # OriginSnap)
    BY <1>1, <2>2 DEF IsUsedPool, LooksUsed
  <2>8. CASE x = 2
    <3>1. LooksSeen(live[mos[x].guid], filesystem, FALSE, FALSE) /\ mos[x].shape = filesystem /\ mos[x].guid \in DOMAIN live
      BY <1>11, <2>4, <2>5, <2>8
    <3>2. FALSE <=> mos[mos[x].dir].root # NoObject
      BY <1>5, <2>7, <2>8
    <3>3. x = mos[mos[x].dir].head => (FALSE <=> mos[mos[x].dir].origin # OriginSnap)
      BY <1>5, <2>7, <2>8
    <3> QED
      BY <2>3, <2>6, <3>1, <3>2, <3>3, Zenon
  <2>9. CASE x = 11
    <3>1. LooksSeen(live[mos[x].guid], volume, FALSE, TRUE) /\ mos[x].shape = volume /\ mos[x].guid \in DOMAIN live
      BY <1>11, <2>4, <2>5, <2>9
    <3>2. TRUE <=> mos[mos[x].dir].root # NoObject
      BY <1>5, <2>7, <2>9
    <3>3. x = mos[mos[x].dir].head => (FALSE <=> mos[mos[x].dir].origin # OriginSnap)
      BY <1>5, <2>7, <2>9
    <3> QED
      BY <2>3, <2>6, <3>1, <3>2, <3>3, Zenon
  <2>10. CASE snapped /\ x = 13
    <3>1. LooksSeen(live[mos[x].guid], volume, FALSE, TRUE) /\ mos[x].shape = volume /\ mos[x].guid \in DOMAIN live
      BY <1>11, <2>4, <2>5, <2>10
    <3>2. TRUE <=> mos[mos[x].dir].root # NoObject
      BY <1>5, <2>7, <2>10
    <3>3. x = mos[mos[x].dir].head => (FALSE <=> mos[mos[x].dir].origin # OriginSnap)
      BY <1>5, <2>7, <2>10
    <3> QED
      BY <2>3, <2>6, <3>1, <3>2, <3>3, Zenon
  <2>11. CASE cloned /\ x = 16
    <3>1. LooksSeen(live[mos[x].guid], volume, TRUE, TRUE) /\ mos[x].shape = volume /\ mos[x].guid \in DOMAIN live
      BY <1>11, <2>4, <2>5, <2>11
    <3>2. TRUE <=> mos[mos[x].dir].root # NoObject
      BY <1>5, <2>7, <2>11
    <3>3. x = mos[mos[x].dir].head => (TRUE <=> mos[mos[x].dir].origin # OriginSnap)
      BY <1>5, <2>7, <2>11
    <3> QED
      BY <2>3, <2>6, <3>1, <3>2, <3>3, Zenon
  <2> QED
    BY <1>6, <1>12, <2>8, <2>9, <2>10, <2>11
<1>13. \A x, y : IsIn(mos, x) /\ IsIn(mos, y) /\ mos[x].guid = mos[y].guid => x = y
  BY <1>6, <1>11
<1>14. \A g \in DOMAIN live : \E x : IsIn(mos, x) /\ mos[x].guid = g
  BY <1>6, <1>11
<1>15. Exact(mos, live)
  BY <1>7, <1>8, <1>9, <1>10, <1>12, <1>13, <1>14 DEF Exact
<1> QED
  BY <1>15 DEF mos, live

-----------------------------------------------------------------------------
(* Each command keeps the pool sound                                       *)

\* The numbers a command takes are free.
LEMMA FreeNumbers ==
  ASSUME PoolIsSound
  PROVE  /\ Room(1) => Next1 \notin DOMAIN Mos /\ Next1 # NoObject
         /\ Room(2) => {Next1, Next2} \cap (DOMAIN Mos \cup {NoObject}) = {} /\ Next1 # Next2
         /\ Room(3) => /\ {Next1, Next2, Next3} \cap (DOMAIN Mos \cup {NoObject}) = {}
                       /\ Next1 # Next2 /\ Next1 # Next3 /\ Next2 # Next3
<1>1. IsFiniteSet(DOMAIN Mos)
  BY DEF PoolIsSound, Sound, Objects
<1>2. \A o \in Unused(Mos) : o \notin DOMAIN Mos /\ o # NoObject
  BY HistoryAssumption DEF Unused, NoObject
<1> QED
  BY <1>1, <1>2, NumbersAreFree

\* A dataset below another.
LEMMA GrowKeeps ==
  ASSUME PoolIsSound, NEW d \in Dirs(Mos), NEW n \in Names, NEW origin, NEW root, NEW shape, NEW lists, NEW clone,
         origin = OriginSnap \/ IsOrigin(Mos, origin), \A k \in DOMAIN lists : lists[k] = EmptyList,
         Grow(d, n, origin, root, shape, lists, clone), clone = (origin # OriginSnap),
         Exact(Mos, Live) => /\ root = IF origin = OriginSnap THEN NoObject ELSE Mos[Mos[origin].dir].root
                             /\ IsShape(shape) /\ (root # NoObject => shape.kind = "zvol")
  PROVE  NextIsSound
<1> DEFINE t == Len(history)
           path == Append(PathIn(Mos, Live, d), n)
           locked == root # NoObject
           e == Seen(path, NoSnap, shape, clone, locked)
           new == Grown(Mos, d, n, Next1, Next2, Next3, origin, root, shape, lists, 105 + (t + 1), t + 1)
           now == Put(Live, 105 + (t + 1), e)
<1>1. n \notin DOMAIN Mos[d].kids /\ Room(3)
  BY DEF Grow
<1>2. Sync(new, now)
  BY Zenon DEF Grow, Grown, Path, PathIn, NewGuid, Now
<1>3. IsUser(e) /\ e.path = Append(PathIn(Mos, Live, d), n) /\ e.snap = NoSnap
  <2> HIDE DEF path, locked
  <2>1. IsUser(e) /\ e.path = path /\ e.snap = NoSnap
    BY SeenFields
  <2> QED
    BY <2>1 DEF path
<1>4. e.kind = shape.kind /\ e.size = shape.size /\ e.locked = (root # NoObject) /\ e.clone = (origin # OriginSnap)
  <2>1. LooksSeen(e, shape, clone, locked)
    BY SeenLooks
  <2> HIDE DEF e, path
  <2> QED
    BY <2>1, Zenon DEF LooksSeen
<1> HIDE DEF e
<1>5. /\ Next1 \notin DOMAIN Mos /\ Next2 \notin DOMAIN Mos /\ Next3 \notin DOMAIN Mos
      /\ Next1 # Next2 /\ Next1 # Next3 /\ Next2 # Next3 /\ NoObject \notin {Next1, Next2, Next3}
  BY <1>1, FreeNumbers
<1>6. t \in Nat /\ Sound(Mos, Live, t)
  BY DEF PoolIsSound
<1> DEFINE mos == Mos
           live == Live
           a == Next1
           b == Next2
           c == Next3
<1>7. /\ a \notin DOMAIN mos /\ b \notin DOMAIN mos /\ c \notin DOMAIN mos
      /\ a # b /\ a # c /\ b # c /\ NoObject \notin {a, b, c}
      /\ Sound(mos, live, t) /\ d \in Dirs(mos) /\ n \notin DOMAIN mos[d].kids
      /\ (origin = OriginSnap \/ IsOrigin(mos, origin))
      /\ e.path = Append(PathIn(mos, live, d), n)
  BY <1>1, <1>3, <1>5, <1>6
<1> HIDE DEF t, mos, live, a, b, c
<1>8. Sound(Grown(mos, d, n, a, b, c, origin, root, shape, lists, 105 + (t + 1), t + 1),
            Put(live, 105 + (t + 1), e), t + 1)
  BY <1>3, <1>6, <1>7, GrownIsSound
<1>9. Sound(new, now, t + 1)
  BY <1>8 DEF mos, live, a, b, c
<1>10. Follows(new, now)
  <2> SUFFICES ASSUME Exact(mos, live)
               PROVE  /\ Exact(Grown(mos, d, n, a, b, c, origin, root, shape, lists, 105 + (t + 1), t + 1),
                               Put(live, 105 + (t + 1), e))
                      /\ UsersStay(live, Put(live, 105 + (t + 1), e), t)
    BY DEF Follows, mos, live, a, b, c, t
  <2>1. /\ IF origin = OriginSnap THEN root = NoObject ELSE IsOrigin(mos, origin) /\ root = mos[mos[origin].dir].root
        /\ IsShape(shape) /\ (root # NoObject => shape.kind = "zvol")
    BY DEF mos, live
  <2> QED
    BY <1>6, <1>7, <1>4, <2>1, GrownIsExact
<1> HIDE DEF new, now
<1> QED
  BY <1>2, <1>9, <1>10 DEF NextIsSound, t

\* zfs create.
LEMMA CreateKeeps ==
  ASSUME PoolIsSound, NEW d \in Dirs(Mos), NEW n \in Names, NEW kind \in Kinds, Create(d, n, kind)
  PROVE  NextIsSound
<1> DEFINE shape == Shape(kind, IF kind = "zvol" THEN 1 ELSE 0, Now)
           root == Mos[d].root
<1>1. Grow(d, n, OriginSnap, root, shape, Nothing, FALSE)
  BY DEF Create
<1>2. \A k \in DOMAIN Nothing : Nothing[k] = EmptyList
  BY NothingIsEmpty
<1>3. IsShape(shape)
  BY HistoryAssumption DEF IsShape, Shape
<1>4. Exact(Mos, Live) => root = NoObject
  <2>1. HeadOf(Mos, d).shape.kind = "zfs"
    BY Zenon DEF Create, Grow
  <2>2. IsIn(Mos, Mos[d].head) /\ HeadOf(Mos, d).dir = d
    BY DEF PoolIsSound, Sound, HeadsKnown, IsSetOf, HeadOf, IsIn
  <2> QED
    BY <2>1, <2>2 DEF Exact, Portrayed, HeadOf
<1> HIDE DEF shape, root
<1> QED
  BY <1>1, <1>2, <1>3, <1>4, GrowKeeps

\* zfs clone of a snapshot of a dataset.
LEMMA CloneKeeps ==
  ASSUME PoolIsSound, NEW x \in Dirs(Mos), NEW s \in DOMAIN HeadOf(Mos, x).snaps, NEW d \in Dirs(Mos), NEW n \in Names,
         Clone(HeadOf(Mos, x).snaps[s], d, n)
  PROVE  NextIsSound
<1> DEFINE snap == HeadOf(Mos, x).snaps[s]
           keys == DOMAIN Mos[Mos[snap].dead].lists \cup {Mos[Mos[snap].prev].txg}
           lists == [k \in keys |-> EmptyList]
           root == Mos[Mos[snap].dir].root
           shape == [Mos[snap].shape EXCEPT !.data = Now]
<1>1. Grow(d, n, snap, root, shape, lists, TRUE)
  BY Zenon DEF Clone
<1>2. IsOrigin(Mos, snap)
  BY DEF IsOrigin, SnapsOf, Snap
<1>3. \A k \in DOMAIN lists : lists[k] = EmptyList
  BY Zenon
<1>4. IsSetOf(Mos, x, snap)
  BY DEF PoolIsSound, Sound, SnapsKnown, SnapsOf, Snap
<1>5. snap # OriginSnap
  BY <1>4 DEF PoolIsSound, Sound, Objects, Kept, Dirs, IsSetOf
<1>6. Exact(Mos, Live) => IsShape(shape) /\ (root # NoObject => shape.kind = "zvol")
  <2> SUFFICES ASSUME Exact(Mos, Live)
               PROVE  IsShape(shape) /\ (root # NoObject => shape.kind = "zvol")
    OBVIOUS
  <2>1. Mos[snap].dir = x /\ Portrayed(Mos, Live, snap)
    BY <1>4 DEF Exact, IsSetOf, IsIn
  <2>2. IsShape(Mos[snap].shape) /\ (root # NoObject => Mos[snap].shape.kind = "zvol")
    BY <2>1 DEF Portrayed
  <2>3. IsShape(shape) /\ shape.kind = Mos[snap].shape.kind
    BY <2>2 DEF IsShape, Shape
  <2> QED
    BY <2>2, <2>3
<1>7. TRUE = (snap # OriginSnap) /\ root = IF snap = OriginSnap THEN NoObject ELSE Mos[Mos[snap].dir].root
  BY <1>5
<1> HIDE DEF snap, lists, root, shape
<1> QED
  BY <1>1, <1>2, <1>3, <1>6, <1>7, GrowKeeps, Zenon

\* The freed blocks are handed back.
LEMMA FreeKeeps ==
  ASSUME PoolIsSound, Free
  PROVE  NextIsSound
<1> DEFINE new == [Mos EXCEPT ![FreeList].bytes = 0]
<1>1. Sync(new, Live)
  BY DEF Free
<1>2. Len(history) \in Nat /\ Sound(Mos, Live, Len(history))
  BY DEF PoolIsSound
<1>3. Sound(new, Live, Len(history) + 1)
  BY <1>2, FreedIsSound
<1>4. Follows(new, Live)
  BY <1>2, FreedIsExact DEF Follows
<1> HIDE DEF new
<1> QED
  BY <1>1, <1>3, <1>4 DEF NextIsSound

\* zfs set volsize.
LEMMA ResizeKeeps ==
  ASSUME PoolIsSound, NEW d \in Dirs(Mos), NEW n \in DOMAIN Mos[d].kids \cap Names, Resize(d, n)
  PROVE  NextIsSound
<1> DEFINE h == Mos[Kid(Mos, d, n)].head
           shape == Shape("zvol", 2, Now)
           g == Mos[h].guid
           new == [Mos EXCEPT ![h].shape = shape]
           now == [Live EXCEPT ![g].size = 2]
<1>1. Sync(new, now)
  BY DEF Resize
<1>2. Len(history) \in Nat /\ Sound(Mos, Live, Len(history))
  BY DEF PoolIsSound
<1>3. h \in DOMAIN Mos /\ Mos[h].is = "set" /\ IsIn(Mos, h)
  <2>1. n \in Kids(Mos, d)
    BY HistoryAssumption DEF Kids
  <2>2. Kid(Mos, d, n) \in Dirs(Mos)
    BY <1>2, <2>1 DEF Sound, Tree
  <2> QED
    BY <1>2, <2>2 DEF Sound, HeadsKnown, IsSetOf, IsIn
<1>4. (Exact(Mos, Live) => Mos[h].shape.kind = "zvol") /\ IsShape(shape) /\ shape.kind = "zvol" /\ shape.size = 2
  <2>1. Mos[h].shape = [Mos[h].shape EXCEPT !.kind = "zvol", !.size = 1]
    BY DEF Resize
  <2>2. shape.kind = "zvol" /\ IsShape(shape) /\ shape.size = 2
    BY DEF IsShape, Shape
  <2> HIDE DEF h, shape
  <2>3. Exact(Mos, Live) => IsShape(Mos[h].shape)
    BY <1>3 DEF Exact, Portrayed
  <2>4. Exact(Mos, Live) => Mos[h].shape.kind = "zvol"
    BY <2>1, <2>3 DEF IsShape, Shape
  <2> QED
    BY <2>2, <2>4
<1> HIDE DEF h, shape
<1>5. Follows(new, now)
  <2>1. now = [Live EXCEPT ![Mos[h].guid].size = shape.size]
    BY <1>4
  <2> QED
    BY <1>2, <1>3, <1>4, <2>1, ResizedIsExact DEF Follows
<1> HIDE DEF g
<1>6. Sound(new, now, Len(history) + 1)
  BY <1>2, <1>3, ResizedIsSound
<1> HIDE DEF new, now
<1> QED
  BY <1>1, <1>6, <1>5 DEF NextIsSound

\* What the head of a directory below another leads to.
LEMMA KidIsKnown ==
  ASSUME PoolIsSound, NEW d \in Dirs(Mos), NEW n \in DOMAIN Mos[d].kids \cap Names
  PROVE  LET c == Kid(Mos, d, n)
             h == Mos[c].head
         IN  /\ n \in Kids(Mos, d) /\ c \in Dirs(Mos) /\ h \in DOMAIN Mos /\ Mos[h].is = "set" /\ Mos[h].dir = c
             /\ Mos[h].dead \in DOMAIN Mos /\ Mos[Mos[h].dead].is = "dead"
<1> DEFINE c == Kid(Mos, d, n)
<1>1. n \in Kids(Mos, d)
  BY HistoryAssumption DEF Kids
<1>2. c \in Dirs(Mos)
  BY <1>1 DEF PoolIsSound, Sound, Tree
<1> HIDE DEF c
<1>3. Mos[c].head \in DOMAIN Mos /\ Mos[Mos[c].head].is = "set" /\ Mos[Mos[c].head].dir = c
  BY <1>2 DEF PoolIsSound, Sound, HeadsKnown, IsSetOf
<1>4. IsKnown(Mos, Mos[c].head)
  BY <1>2 DEF IsKnown
<1>5. Mos[Mos[c].head].dead \in DOMAIN Mos /\ Mos[Mos[Mos[c].head].dead].is = "dead"
  BY <1>4 DEF PoolIsSound, Sound, Deads
<1> QED
  BY <1>1, <1>2, <1>3, <1>5 DEF c

\* A block is written again.
LEMMA OverwriteKeeps ==
  ASSUME PoolIsSound, NEW d \in Dirs(Mos), NEW n \in DOMAIN Mos[d].kids \cap Names, Overwrite(d, n)
  PROVE  NextIsSound
<1> DEFINE t == Len(history)
           mos == Mos
           live == Live
           h == Mos[Kid(Mos, d, n)].head
           dead == Mos[h].dead
           data == Now
<1>1. t \in Nat /\ Sound(mos, live, t)
  BY DEF PoolIsSound
<1>2. h \in DOMAIN mos /\ mos[h].is = "set" /\ dead \in DOMAIN mos /\ mos[dead].is = "dead"
  BY KidIsKnown
<1>3. PICK k \in DOMAIN Mos[dead].lists :
        LET list == Mos[dead].lists[k]
            into == IF list = EmptyList THEN Next1 ELSE list
            more == Put(Mos, into, Bpobj(Mos[list].bytes + 1))
        IN  /\ Room(1)
            /\ Sync([more EXCEPT ![h].shape.data = Now,
                                 ![dead] = Dead(@.used + 1, [@.lists EXCEPT ![k] = into])], Live)
  BY Zenon DEF Overwrite
<1> DEFINE list == Mos[dead].lists[k]
           into == IF list = EmptyList THEN Next1 ELSE list
           bytes == Mos[list].bytes + 1
           new == [Put(mos, into, Bpobj(bytes)) EXCEPT
                     ![h].shape.data = data,
                     ![dead] = Dead(@.used + 1, [@.lists EXCEPT ![k] = into])]
<1>4. Sync(new, live) /\ Room(1)
  BY <1>3, Zenon
<1>5. into # NoObject /\ (into \in DOMAIN mos => mos[into].is = "bpobj")
  <2>1. list \in DOMAIN mos /\ mos[list].is = "bpobj" /\ list # NoObject
    BY <1>1, <1>2 DEF Sound, Objects
  <2>2. Next1 \notin DOMAIN mos /\ Next1 # NoObject
    BY <1>4, FreeNumbers, Zenon
  <2> HIDE DEF list
  <2> QED
    BY <2>1, <2>2
<1>6. k \in DOMAIN mos[dead].lists
  OBVIOUS
<1> HIDE DEF t, mos, live, h, dead, data, list, into, bytes
<1>7. Sound(new, live, t + 1)
  BY <1>1, <1>2, <1>5, <1>6, OverwrittenIsSound
<1>8. Follows(new, live)
  BY <1>1, <1>2, <1>5, OverwrittenIsExact DEF Follows, mos, live, t
<1> HIDE DEF new
<1> QED
  BY <1>4, <1>7, <1>8 DEF NextIsSound, t

\* zfs destroy of a dataset with nothing below it and no snapshots.
LEMMA DestroyKeeps ==
  ASSUME PoolIsSound, NEW d \in Dirs(Mos), NEW n \in DOMAIN Mos[d].kids \cap Names, Destroy(d, n)
  PROVE  NextIsSound
<1> DEFINE t == Len(history)
           mos == Mos
           live == Live
           o == Kid(Mos, d, n)
           h == Mos[o].head
           dead == Mos[h].dead
           rest == Without(mos, {o, h, dead})
           mid == Destroyed(mos, d, n, o, h, dead)
           now == Without(live, {mos[h].guid})
           new == [rest EXCEPT ![d].kids = Without(@, {n}), ![FreeList].bytes = @ + 1]
           last == [mid EXCEPT ![FreeList].bytes = rest[FreeList].bytes + 1]
<1>1. t \in Nat /\ Sound(mos, live, t)
  BY DEF PoolIsSound
<1>2. mos[o].kids = Nothing /\ mos[h].snaps = Nothing /\ Sync(new, now)
  BY Zenon DEF Destroy
<1>3. n \in Kids(mos, d)
  BY KidIsKnown
<1>4. o = Kid(mos, d, n) /\ h = mos[o].head /\ dead = mos[h].dead
  OBVIOUS
<1>5. new = last
  BY Zenon DEF Destroyed
<1> HIDE DEF t, mos, live, o, h, dead, rest, new
<1>6. Sound(mid, now, t + 1)
  BY <1>1, <1>2, <1>3, <1>4, DestroyedIsSound DEF mos
<1> HIDE DEF mid, now
<1>7. Objects(mid)
  BY <1>6 DEF Sound
<1>8. Objects(last) /\ KeepsSets(mid, last)
  BY <1>7, FreedKeeps
<1>9. Follows(last, now)
  <2> SUFFICES ASSUME Exact(mos, live)
               PROVE  Exact(last, now) /\ UsersStay(live, now, t)
    BY DEF Follows, mos, live, t
  <2>1. Exact(mid, now) /\ UsersStay(live, now, t)
    BY <1>1, <1>2, <1>3, <1>4, DestroyedIsExact DEF mos, mid, now
  <2> QED
    BY <1>6, <2>1, FreedIsExact
<1> HIDE DEF last
<1>10. KeepsUsers(now, now)
  BY <1>6 DEF Sound, Users, KeepsUsers, IsUser
<1>11. t + 1 \in Nat /\ t + 1 <= t + 1
  BY <1>1
<1>12. Sound(last, now, t + 1)
  BY <1>6, <1>8, <1>10, <1>11, QuietIsSound
<1> QED
  BY <1>2, <1>5, <1>12, <1>9 DEF NextIsSound, t

\* zfs rename of a dataset with all below it.
LEMMA RenameKeeps ==
  ASSUME PoolIsSound, NEW d \in Dirs(Mos), NEW n \in DOMAIN Mos[d].kids \cap Names, NEW to \in Dirs(Mos), NEW m \in Names,
         Rename(d, n, to, m)
  PROVE  NextIsSound
<1> DEFINE t == Len(history)
           mos == Mos
           live == Live
           from == Append(PathIn(Mos, Live, d), n)
           onto == Append(PathIn(Mos, Live, to), m)
           new == Moved(mos, d, n, to, m)
           now == [g \in DOMAIN live |->
                    IF IsPrefix(from, live[g].path)
                    THEN [live[g] EXCEPT !.path = onto \o SubSeq(@, Len(from) + 1, Len(@))] ELSE live[g]]
<1>1. t \in Nat /\ Sound(mos, live, t)
  BY DEF PoolIsSound
<1>2. n \in Kids(mos, d)
  BY KidIsKnown
<1>3. m \in AllowedNames \ {"$ORIGIN"} /\ m \notin DOMAIN mos[to].kids /\ ~IsPrefix(from, PathIn(mos, live, to))
  BY HistoryAssumption DEF Rename, AllowedNames, Path, PathIn
<1>4. Sync(new, now)
  BY Zenon DEF Rename, Moved, Path, PathIn
<1>5. from = Append(PathIn(mos, live, d), n) /\ onto = Append(PathIn(mos, live, to), m)
  OBVIOUS
<1>6. d \in Dirs(mos) /\ to \in Dirs(mos)
  OBVIOUS
<1> HIDE DEF t, mos, live, from, onto
<1>7. IsMoved(new, mos, d, n, to, m)
  <2>1. IsFcn(mos) /\ d \in DOMAIN mos /\ to \in DOMAIN mos /\ IsDir(mos[d]) /\ IsDir(mos[to])
    BY <1>1, <1>6 DEF Sound, Objects, Dirs, IsSet, IsDead, IsBpobj
  <2> QED
    BY <2>1, MovedObjects
<1> HIDE DEF new
<1>8. IsRenamed(now, live, from, onto) /\ SameLooks(live, now)
  <2>1. ASSUME NEW g \in DOMAIN live
        PROVE  IsUser(now[g]) /\ now[g].snap = live[g].snap /\ now[g].path = Onto(from, onto, live[g].path)
               /\ now[g].kind = live[g].kind /\ now[g].size = live[g].size
               /\ now[g].locked = live[g].locked /\ now[g].clone = live[g].clone
    <3>1. IsUser(live[g])
      BY <1>1 DEF Sound, Users, IsUser
    <3>2. CASE IsPrefix(from, live[g].path)
      <4> DEFINE path == onto \o SubSeq(live[g].path, Len(from) + 1, Len(live[g].path))
                 e == [live[g] EXCEPT !.path = path]
      <4>1. now[g] = e /\ Onto(from, onto, live[g].path) = path
        BY <3>2 DEF Onto
      <4> HIDE DEF path, now
      <4>2. e = [path |-> path, snap |-> live[g].snap, kind |-> live[g].kind, size |-> live[g].size,
                 clone |-> live[g].clone, locked |-> live[g].locked]
        BY <3>1 DEF IsUser
      <4>3. IsUser(e) /\ e.snap = live[g].snap /\ e.path = path /\ e.kind = live[g].kind /\ e.size = live[g].size
             /\ e.locked = live[g].locked /\ e.clone = live[g].clone
        BY <4>2 DEF IsUser
      <4> HIDE DEF e
      <4> QED
        BY <4>1, <4>3
    <3>3. CASE ~IsPrefix(from, live[g].path)
      BY <3>1, <3>3 DEF Onto
    <3> QED
      BY <3>2, <3>3
  <2>2. DOMAIN now = DOMAIN live /\ IsFcn(now)
    BY DEF IsFcn
  <2> HIDE DEF now
  <2> QED
    BY <2>1, <2>2 DEF IsRenamed, SameLooks
<1> HIDE DEF now
<1>9. Sound(new, now, t + 1)
  BY <1>1, <1>2, <1>3, <1>5, <1>6, <1>7, <1>8, MovedIsSound
<1>10. Follows(new, now)
  <2> SUFFICES ASSUME Exact(mos, live)
               PROVE  Exact(new, now) /\ UsersStay(live, now, t)
    BY DEF Follows, mos, live, t
  <2>1. n # "$ORIGIN" /\ m # "$ORIGIN"
    BY <1>2, <1>3 DEF Kids
  <2> QED
    BY <1>1, <1>6, <1>7, <1>8, <2>1, MovedIsExact
<1> QED
  BY <1>4, <1>9, <1>10 DEF NextIsSound, t

\* zfs snapshot.
LEMMA SnapshotKeeps ==
  ASSUME PoolIsSound, NEW d \in Dirs(Mos), NEW s, Snapshot(d, s)
  PROVE  NextIsSound
<1> DEFINE t == Len(history)
           mos == Mos
           live == Live
           a == Next1
           b == Next2
           h == Mos[d].head
           was == Mos[h].prev
           keys == DOMAIN Mos[Mos[h].dead].lists \cup {Mos[was].txg}
           lists == [k \in keys |-> EmptyList]
           shape == Mos[h].shape
           old == Mos[h].dead
           linked == IF was = OriginSnap \/ Mos[was].next # h THEN mos ELSE [mos EXCEPT ![was].next = a]
           full == Put(Put(linked, a, Set(d, was, h, Nothing, 105 + (t + 1), t + 1, shape, old)), b, Dead(0, lists))
           new == [full EXCEPT ![h].prev = a, ![h].dead = b, ![h].snaps = Put(@, s, a)]
           now == Put(live, 105 + (t + 1), [live[Mos[h].guid] EXCEPT !.snap = {s}])
<1>1. t \in Nat /\ Sound(mos, live, t)
  BY DEF PoolIsSound
<1>2. s \notin SnapsOf(mos, d) /\ Room(2)
  BY Zenon DEF Snapshot, SnapsOf, HeadOf
<1>3. Sync(new, now)
  BY Zenon DEF Snapshot, NewGuid, Now
<1>4. a \notin DOMAIN mos /\ b \notin DOMAIN mos /\ a # b /\ NoObject \notin {a, b}
  BY <1>2, FreeNumbers
<1>5. \A k \in DOMAIN lists : lists[k] = EmptyList
  BY Zenon
<1>6. /\ h \in DOMAIN mos /\ mos[h].is = "set" /\ mos[h].dir = d /\ HeadOf(mos, d) = mos[h] /\ h = mos[d].head
      /\ Objects(mos) /\ d \in Dirs(mos) /\ old = mos[h].dead /\ mos[h] = Mos[h] /\ HeadsKnown(mos, live)
  BY <1>1 DEF Sound, HeadsKnown, IsSetOf, HeadOf
<1>7. \A p \in Dirs(mos) : HeadOf(mos, p).next = NoObject
  BY <1>6 DEF HeadsKnown
<1>8. h # NoObject
  BY <1>6 DEF Objects
<1>9. linked = mos \/ (linked = [mos EXCEPT ![was].next = a] /\ mos[was].next = h)
  OBVIOUS
<1> HIDE DEF t, mos, live, a, b, was, keys, lists, shape, old, linked, h
<1>10. Objects(linked) /\ KeepsSets(mos, linked) /\ DOMAIN linked = DOMAIN mos /\ linked[h] = mos[h] /\ linked[d].head = h
       /\ AllAlike(mos, linked)
  <2>1. CASE linked = mos
    BY <1>6, <2>1 DEF KeepsSets, KeepsNext, AllAlike, Alike, Kin, SameSize
  <2>2. CASE linked = [mos EXCEPT ![was].next = a] /\ mos[was].next = h
    <3>1. \A p \in Dirs(mos) : mos[p].head # was
      BY <1>7, <1>8, <2>2 DEF HeadOf
    <3>2. Objects([mos EXCEPT ![was].next = a]) /\ KeepsSets(mos, [mos EXCEPT ![was].next = a])
      BY <1>6, <3>1, RelinkedKeeps
    <3>3. h # was /\ DOMAIN [mos EXCEPT ![was].next = a] = DOMAIN mos /\ [mos EXCEPT ![was].next = a][h] = mos[h]
      BY <1>6, <3>1
    <3>4. linked[d].head = h
      BY <1>6, <2>2, <3>2 DEF KeepsSets, Dirs
    <3>5. AllAlike(mos, [mos EXCEPT ![was].next = a])
      BY <1>6, RelinkedIsAlike
    <3> QED
      BY <2>2, <3>2, <3>3, <3>4, <3>5
  <2> QED
    BY <1>9, <2>1, <2>2
<1>11. Sound(linked, live, t)
  <2>1. KeepsUsers(live, live)
    BY <1>1 DEF Sound, Users, KeepsUsers, IsUser
  <2> QED
    BY <1>1, <1>10, <2>1, t <= t, QuietIsSound
<1>12. /\ HeadOf(linked, d) = mos[h] /\ HeadOf(linked, d).dead = old /\ SnapsOf(linked, d) = SnapsOf(mos, d)
       /\ d \in Dirs(linked)
  <2>1. HeadOf(linked, d) = mos[h]
    BY <1>10 DEF HeadOf
  <2>2. d \in Dirs(linked)
    BY <1>6, <1>10 DEF KeepsSets, Dirs
  <2> QED
    BY <1>6, <2>1, <2>2 DEF SnapsOf
<1>13. Snapped(linked, d, s, a, b, was, shape, lists, 105 + (t + 1), t + 1) = new
  <2>1. Snapped(linked, d, s, a, b, was, shape, lists, 105 + (t + 1), t + 1) =
        [Put(Put(linked, a, Set(d, was, linked[d].head, Nothing, 105 + (t + 1), t + 1, shape, HeadOf(linked, d).dead)),
             b, Dead(0, lists))
         EXCEPT ![linked[d].head].prev = a, ![linked[d].head].dead = b, ![linked[d].head].snaps = Put(@, s, a)]
    BY Zenon DEF Snapped
  <2> QED
    BY <1>10, <1>12, <2>1, Zenon
<1> HIDE DEF full, new
<1>14. Put(live, 105 + (t + 1), [live[HeadOf(linked, d).guid] EXCEPT !.snap = {s}]) = now
  <2>1. HeadOf(linked, d) = Mos[h]
    BY <1>6, <1>12
  <2> QED
    BY <2>1
<1> HIDE DEF now
<1>15. Sound(Snapped(linked, d, s, a, b, was, shape, lists, 105 + (t + 1), t + 1),
             Put(live, 105 + (t + 1), [live[HeadOf(linked, d).guid] EXCEPT !.snap = {s}]), t + 1)
  <2>1. s \notin SnapsOf(linked, d) /\ a \notin DOMAIN linked /\ b \notin DOMAIN linked
    BY <1>2, <1>4, <1>10, <1>12
  <2> QED
    BY <1>1, <1>4, <1>5, <1>11, <1>12, <2>1, SnappedIsSound
<1>16. Sound(new, now, t + 1)
  BY <1>13, <1>14, <1>15
<1>17. Follows(new, now)
  <2> SUFFICES ASSUME Exact(mos, live)
               PROVE  Exact(new, now) /\ UsersStay(live, now, t)
    BY DEF Follows, mos, live, t
  <2>1. Exact(linked, live)
    BY <1>1, <1>10, AlikeIsExact DEF SameLooks
  <2>2. s \notin SnapsOf(linked, d) /\ a \notin DOMAIN linked /\ b \notin DOMAIN linked /\ shape = HeadOf(linked, d).shape
    BY <1>2, <1>4, <1>6, <1>10, <1>12 DEF shape
  <2> QED
    BY <1>1, <1>4, <1>11, <1>12, <1>13, <1>14, <2>1, <2>2, SnappedIsExact
<1> QED
  BY <1>3, <1>16, <1>17 DEF NextIsSound, t

\* zfs promote of a clone.
LEMMA PromoteKeeps ==
  ASSUME PoolIsSound, NEW d \in Dirs(Mos), NEW n \in DOMAIN Mos[d].kids \cap Names, Promote(d, n)
  PROVE  NextIsSound
<1> DEFINE t == Len(history)
           mos == Mos
           live == Live
           c == Kid(Mos, d, n)
           snap == Mos[c].origin
           od == Mos[snap].dir
           moved == {s \in SnapsOf(Mos, od) : Mos[Snap(Mos, od, s)].txg <= Mos[snap].txg}
           objects == {Snap(Mos, od, s) : s \in moved}
           ch == Mos[c].head
           first == CHOOSE o \in DOMAIN Mos : Mos[o].is = "set" /\ Mos[o].dir = c /\ Mos[o].prev = snap
           guids == {Mos[o].guid : o \in objects}
           path == PathIn(Mos, Live, c)
           new == Promoted(mos, c, od, snap, moved, objects, first)
           now == [g \in DOMAIN live |->
                    CASE g \in guids -> [live[g] EXCEPT !.path = path]
                      [] g = Mos[ch].guid -> [live[g] EXCEPT !.clone = Mos[od].origin # OriginSnap]
                      [] g = HeadOf(Mos, od).guid -> [live[g] EXCEPT !.clone = TRUE]
                      [] OTHER -> live[g]]
<1>1. t \in Nat /\ Sound(mos, live, t)
  BY DEF PoolIsSound
<1>2. snap \notin {NoObject, OriginSnap} /\ moved \cap SnapsOf(mos, c) = {}
  BY Zenon DEF Promote, SnapsOf, Snap, HeadOf
<1>3. Sync(new, now)
  BY Zenon DEF Promote, Promoted, SnapsOf, Snap, HeadOf, PathIn
<1>4. c \in Dirs(mos) /\ snap = mos[c].origin
  BY KidIsKnown
<1>5. path = PathIn(mos, live, c) /\ od = mos[snap].dir /\ ch = mos[c].head
  OBVIOUS
<1>6. /\ moved = {s \in SnapsOf(mos, od) : mos[Snap(mos, od, s)].txg <= mos[snap].txg}
      /\ objects = {Snap(mos, od, s) : s \in moved} /\ guids = {mos[o].guid : o \in objects}
  OBVIOUS
<1> DEFINE x == Mos[ch].guid
           y == HeadOf(Mos, od).guid
           clone == Mos[od].origin # OriginSnap
<1>7. now = [g \in DOMAIN live |->
              CASE g \in guids -> [live[g] EXCEPT !.path = path]
                [] g = x -> [live[g] EXCEPT !.clone = clone]
                [] g = y -> [live[g] EXCEPT !.clone = TRUE]
                [] OTHER -> live[g]]
  OBVIOUS
<1> HIDE DEF t, mos, live, c, snap, od, moved, objects, ch, first, guids, path, now, x, y, clone
<1>8. od \in Dirs(mos) /\ \E s \in SnapsOf(mos, od) : snap = Snap(mos, od, s)
  <2>1. PICK p \in Dirs(mos) : \E s \in SnapsOf(mos, p) : snap = Snap(mos, p, s)
    BY <1>1, <1>2, <1>4 DEF Sound, Origins
  <2>2. PICK s \in SnapsOf(mos, p) : snap = Snap(mos, p, s)
    BY <2>1
  <2>3. mos[snap].dir = p
    BY <1>1, <2>2 DEF Sound, SnapsKnown, IsSetOf
  <2> QED
    BY <1>5, <2>2, <2>3
<1>9. PICK a \in SnapsOf(mos, od) : snap = Snap(mos, od, a)
  BY <1>8
<1>10. \A s \in SnapsOf(mos, od) :
         /\ IsSetOf(mos, od, Snap(mos, od, s)) /\ mos[Snap(mos, od, s)].txg \in Nat
         /\ Snap(mos, od, s) \notin {mos[c].head, mos[od].head}
  <2> SUFFICES ASSUME NEW s \in SnapsOf(mos, od)
               PROVE  /\ IsSetOf(mos, od, Snap(mos, od, s)) /\ mos[Snap(mos, od, s)].txg \in Nat
                      /\ Snap(mos, od, s) \notin {mos[c].head, mos[od].head}
    OBVIOUS
  <2>1. IsSetOf(mos, od, Snap(mos, od, s))
    BY <1>1, <1>8 DEF Sound, SnapsKnown
  <2>2. mos[Snap(mos, od, s)].txg \in Nat
    BY <1>1, <2>1 DEF Sound, Users, IsSetOf
  <2>3. mos[Snap(mos, od, s)].guid # HeadOf(mos, c).guid /\ mos[Snap(mos, od, s)].guid # HeadOf(mos, od).guid
    BY <1>1, <1>4, <1>8, GuidsTell
  <2> QED
    BY <2>1, <2>2, <2>3 DEF HeadOf
<1>11. a \in moved /\ snap \in objects /\ c # od
  <2>1. a \in moved
    BY <1>6, <1>9, <1>10
  <2>2. \A s \in SnapsOf(mos, c) : mos[Snap(mos, c, s)].txg > mos[snap].txg
    BY <1>1, <1>2, <1>4 DEF Sound, Origins
  <2>3. c # od
    BY <1>9, <1>10, <2>2
  <2> QED
    BY <1>6, <1>9, <2>1, <2>3
<1>12. IsPromoted(new, mos, c, od, snap, moved, objects)
  <2>1. Objects(mos) /\ IsSetOf(mos, c, mos[c].head) /\ IsSetOf(mos, od, mos[od].head)
    BY <1>1, <1>4, <1>8 DEF Sound, HeadsKnown
  <2>2. \A o \in objects : IsSetOf(mos, od, o) /\ o \notin {mos[c].head, mos[od].head}
    BY <1>6, <1>10
  <2> QED
    BY <1>4, <1>8, <1>11, <2>1, <2>2, PromotedObjects
<1> HIDE DEF new
<1>13. x \notin guids /\ y \notin guids /\ x # y
  <2>1. x = HeadOf(mos, c).guid /\ y = HeadOf(mos, od).guid
    BY DEF x, y, ch, mos, HeadOf
  <2>2. x # y
    BY <1>1, <1>4, <1>8, <1>11, <2>1, GuidsTell
  <2>3. \A s \in SnapsOf(mos, od) : mos[Snap(mos, od, s)].guid \notin {x, y}
    BY <1>1, <1>4, <1>8, <2>1, GuidsTell
  <2> QED
    BY <1>6, <2>2, <2>3
<1> DEFINE Looks(g) == /\ now[g].kind = live[g].kind /\ now[g].size = live[g].size /\ now[g].locked = live[g].locked
                       /\ g \notin guids =>
                            now[g].clone = IF g = x THEN clone ELSE IF g = y THEN TRUE ELSE live[g].clone
<1>14. MovedUsers(now, live, guids, path) /\ \A g \in DOMAIN live : Looks(g)
  <2>1. DOMAIN now = DOMAIN live /\ IsFcn(now)
    BY <1>7 DEF IsFcn
  <2>2. ASSUME NEW g \in DOMAIN live
        PROVE  /\ IsUser(now[g]) /\ now[g].snap = live[g].snap
               /\ now[g].path = IF g \in guids THEN path ELSE live[g].path
               /\ Looks(g)
    <3> DEFINE e == live[g]
    <3>1. IsUser(e)
      BY <1>1 DEF Sound, Users, IsUser
    <3>2. \/ now[g] = [e EXCEPT !.path = path] /\ g \in guids
          \/ now[g] = [e EXCEPT !.clone = clone] /\ g \notin guids /\ g = x
          \/ now[g] = [e EXCEPT !.clone = TRUE] /\ g \notin guids /\ g = y
          \/ now[g] = e /\ g \notin guids /\ g \notin {x, y}
      <4>1. now[g] = CASE g \in guids -> [live[g] EXCEPT !.path = path]
                       [] g = x -> [live[g] EXCEPT !.clone = clone]
                       [] g = y -> [live[g] EXCEPT !.clone = TRUE]
                       [] OTHER -> live[g]
        BY <1>7
      <4> DEFINE e1 == [live[g] EXCEPT !.path = path]
                 e2 == [live[g] EXCEPT !.clone = clone]
                 e3 == [live[g] EXCEPT !.clone = TRUE]
      <4> HIDE DEF e1, e2, e3
      <4>2. now[g] = CASE g \in guids -> e1 [] g = x -> e2 [] g = y -> e3 [] OTHER -> live[g]
        BY <4>1 DEF e1, e2, e3
      <4>3. CASE g \in guids
        BY <1>13, <4>2, <4>3 DEF e1
      <4>4. CASE g = x
        BY <1>13, <4>2, <4>4 DEF e2
      <4>5. CASE g = y
        BY <1>13, <4>2, <4>5 DEF e3
      <4>6. CASE g \notin guids /\ g # x /\ g # y
        BY <4>2, <4>6
      <4> QED
        BY <4>3, <4>4, <4>5, <4>6
    <3> HIDE DEF e
    <3>3. ASSUME NEW v
          PROVE  LET f == [e EXCEPT !.clone = v] IN /\ IsUser(f) /\ f.snap = e.snap /\ f.path = e.path /\ f.clone = v
                                                 /\ f.kind = e.kind /\ f.size = e.size /\ f.locked = e.locked
      <4> DEFINE f == [e EXCEPT !.clone = v]
      <4>1. f = [path |-> e.path, snap |-> e.snap, kind |-> e.kind, size |-> e.size, clone |-> v, locked |-> e.locked]
        BY <3>1 DEF IsUser
      <4> HIDE DEF f
      <4>2. /\ IsUser(f) /\ f.snap = e.snap /\ f.path = e.path /\ f.clone = v
           /\ f.kind = e.kind /\ f.size = e.size /\ f.locked = e.locked
        BY <4>1 DEF IsUser
      <4> QED
        BY <4>2 DEF f
    <3>4. LET f == [e EXCEPT !.path = path] IN /\ IsUser(f) /\ f.snap = e.snap /\ f.path = path
                                           /\ f.kind = e.kind /\ f.size = e.size /\ f.locked = e.locked
      <4> DEFINE f == [e EXCEPT !.path = path]
      <4>1. f = [path |-> path, snap |-> e.snap, kind |-> e.kind, size |-> e.size, clone |-> e.clone, locked |-> e.locked]
        BY <3>1 DEF IsUser
      <4> HIDE DEF f
      <4>2. /\ IsUser(f) /\ f.snap = e.snap /\ f.path = path
           /\ f.kind = e.kind /\ f.size = e.size /\ f.locked = e.locked
        BY <4>1 DEF IsUser
      <4> QED
        BY <4>2 DEF f
    <3>5. /\ IsUser(now[g]) /\ now[g].snap = e.snap /\ now[g].path = IF g \in guids THEN path ELSE e.path
          /\ now[g].kind = e.kind /\ now[g].size = e.size /\ now[g].locked = e.locked
          /\ g \notin guids => now[g].clone = IF g = x THEN clone ELSE IF g = y THEN TRUE ELSE e.clone
      <4>1. CASE now[g] = [e EXCEPT !.path = path] /\ g \in guids
        BY <3>4, <4>1
      <4>2. CASE now[g] = [e EXCEPT !.clone = clone] /\ g \notin guids /\ g = x
        BY <3>3, <4>2
      <4>3. CASE now[g] = [e EXCEPT !.clone = TRUE] /\ g \notin guids /\ g = y
        <5>1. /\ IsUser(now[g]) /\ now[g].snap = e.snap /\ now[g].path = e.path /\ now[g].clone = TRUE
              /\ now[g].kind = e.kind /\ now[g].size = e.size /\ now[g].locked = e.locked
          BY <3>3, <4>3
        <5> QED
          BY <1>13, <4>3, <5>1, Zenon
      <4>4. CASE now[g] = e /\ g \notin guids /\ g \notin {x, y}
        BY <3>1, <4>4
      <4> QED
        BY <3>2, <4>1, <4>2, <4>3, <4>4
    <3> QED
      BY <3>5 DEF e
  <2> QED
    BY <2>1, <2>2 DEF MovedUsers
<1>15. Sound(new, now, t + 1)
  <2>1. /\ a \in SnapsOf(mos, od) /\ mos[c].origin = Snap(mos, od, a) /\ mos[c].origin \notin {NoObject, OriginSnap}
        /\ moved = {s \in SnapsOf(mos, od) : mos[Snap(mos, od, s)].txg <= mos[mos[c].origin].txg}
        /\ IsPromoted(new, mos, c, od, mos[c].origin, moved, objects)
        /\ MovedUsers(now, live, {mos[o].guid : o \in objects}, PathIn(mos, live, c))
    BY <1>2, <1>4, <1>5, <1>6, <1>9, <1>12, <1>14, Zenon
  <2> QED
    BY <1>1, <1>2, <1>4, <1>6, <1>8, <2>1, PromotedIsSound
<1>16. LooksPromoted(mos, live, now, c, od)
  <2>1. DOMAIN now = DOMAIN live
    BY <1>7
  <2>2. ASSUME NEW e \in Dirs(mos)
        PROVE  LET g == HeadOf(mos, e).guid
               IN  now[g].clone = IF e = c THEN mos[od].origin # OriginSnap ELSE IF e = od THEN TRUE ELSE live[g].clone
    <3> DEFINE g == HeadOf(mos, e).guid
    <3>1. g \in DOMAIN live
      BY <1>1 DEF Sound, HeadsKnown
    <3>2. (g = x <=> e = c) /\ (g = y <=> e = od)
      <4>1. x = HeadOf(mos, c).guid /\ y = HeadOf(mos, od).guid
        BY DEF x, y, ch, mos, HeadOf
      <4> QED
        BY <1>1, <1>4, <1>8, <4>1, GuidsTell
    <3>3. g \notin guids
      <4>1. \A s \in SnapsOf(mos, od) : mos[Snap(mos, od, s)].guid # g
        BY <1>1, <1>8, GuidsTell
      <4> QED
        BY <1>6, <4>1
    <3>4. clone = (mos[od].origin # OriginSnap)
      BY DEF clone, mos
    <3> HIDE DEF g
    <3>5. now[g].clone = IF g = x THEN clone ELSE IF g = y THEN TRUE ELSE live[g].clone
      BY <1>14, <3>1, <3>3
    <3>6. now[g].clone = IF e = c THEN mos[od].origin # OriginSnap ELSE IF e = od THEN TRUE ELSE live[g].clone
      BY <1>11, <3>2, <3>4, <3>5, Zenon
    <3> QED
      BY <3>6 DEF g
  <2> QED
    BY <1>14, <2>1, <2>2, Zenon DEF LooksPromoted
<1>17. Follows(new, now)
  <2> SUFFICES ASSUME Exact(mos, live)
               PROVE  Exact(new, now) /\ UsersStay(live, now, t)
    BY DEF Follows, mos, live, t
  <2>1. /\ a \in SnapsOf(mos, od) /\ mos[c].origin = Snap(mos, od, a)
        /\ moved = {s \in SnapsOf(mos, od) : mos[Snap(mos, od, s)].txg <= mos[mos[c].origin].txg}
        /\ IsPromoted(new, mos, c, od, mos[c].origin, moved, objects)
    BY <1>4, <1>6, <1>9, <1>12, Zenon
  <2> QED
    BY <1>1, <1>2, <1>4, <1>6, <1>8, <1>16, <2>1, PromotedIsExact
<1> QED
  BY <1>3, <1>15, <1>17 DEF NextIsSound, t

\* zfs destroy of a snapshot of which no clone is.
LEMMA DestroySnapshotKeeps ==
  ASSUME PoolIsSound, NEW d \in Dirs(Mos), NEW s \in SnapsOf(Mos, d), DestroySnapshot(d, s)
  PROVE  NextIsSound
<1> DEFINE t == Len(history)
           mos == Mos
           live == Live
           h == Mos[d].head
           o == Mos[h].snaps[s]
           later == {x \in {Mos[h].snaps[k] : k \in DOMAIN Mos[h].snaps} : Mos[x].txg > Mos[o].txg}
           nx == After(h, o)
           prev == Mos[o].prev
           since == Mos[prev].txg
           theirs == Mos[Mos[o].dead].lists
           dead == Mos[nx].dead
           kept == Without(Mos[dead].lists, {k \in DOMAIN Mos[dead].lists : k >= since})
           freed == Mos[dead].used - SumOf(Mos, kept)
           merged == Filed(theirs, kept)
           swallowed == {k \in DOMAIN theirs \cap DOMAIN kept : EmptyList \notin {theirs[k], kept[k]}}
           filed == Swallowing(theirs, kept)
           linked == IF prev = OriginSnap \/ Mos[prev].next # o THEN filed ELSE [filed EXCEPT ![prev].next = nx]
           used == SumOf(filed, merged)
           joined == [linked EXCEPT ![nx].prev = prev, ![h].snaps = Without(@, {s}),
                                    ![dead] = Dead(used, merged), ![FreeList].bytes = @ + freed]
           new == Without(joined, {o, Mos[o].dead})
           now == Without(live, {Mos[o].guid})
<1>1. t \in Nat /\ Sound(mos, live, t)
  BY DEF PoolIsSound
<1>2. Sync(new, now) /\ \A c \in Dirs(mos) : mos[c].origin # o
  BY Zenon DEF DestroySnapshot
<1>3. /\ o = Snap(mos, d, s) /\ h = mos[d].head /\ d \in Dirs(mos) /\ s \in SnapsOf(mos, d) /\ dead = mos[nx].dead
      /\ theirs = mos[mos[o].dead].lists
  BY DEF Snap, HeadOf
<1>4. \A x : IsKnown(mos, x) => mos[x].dead \in DOMAIN mos /\ mos[mos[x].dead].is = "dead"
  BY <1>1 DEF Sound, Deads
<1>5. /\ \A x \in {mos[h].snaps[k] : k \in DOMAIN mos[h].snaps} :
            IsKnown(mos, x) /\ x \in DOMAIN mos /\ mos[x].is = "set" /\ mos[x].txg \in Nat
      /\ IsKnown(mos, o) /\ o \in DOMAIN mos /\ mos[o].is = "set" /\ o # NoObject
      /\ IsKnown(mos, h) /\ h \in DOMAIN mos /\ mos[h].is = "set"
  <2>1. {mos[h].snaps[k] : k \in DOMAIN mos[h].snaps} = {Snap(mos, d, k) : k \in SnapsOf(mos, d)}
    BY DEF SnapsOf, Snap, HeadOf
  <2> HIDE DEF mos, h, o
  <2>2. \A k \in SnapsOf(mos, d) : IsSetOf(mos, d, Snap(mos, d, k)) /\ IsKnown(mos, Snap(mos, d, k))
    BY <1>1, <1>3, Zenon DEF Sound, SnapsKnown, IsKnown
  <2>3. \A k \in SnapsOf(mos, d) : /\ Snap(mos, d, k) \in DOMAIN mos /\ mos[Snap(mos, d, k)].is = "set"
                                   /\ mos[Snap(mos, d, k)].txg \in Nat
    BY <1>1, <2>2 DEF Sound, Users, IsSetOf
  <2>4. IsKnown(mos, h) /\ h \in DOMAIN mos /\ mos[h].is = "set"
    BY <1>1, <1>3, Zenon DEF Sound, HeadsKnown, IsSetOf, IsKnown
  <2>5. NoObject \notin DOMAIN mos
    BY <1>1 DEF Sound, Objects
  <2> QED
    BY <1>3, <2>1, <2>2, <2>3, <2>4, <2>5, Zenon
<1>6. nx = h \/ nx \in {mos[h].snaps[k] : k \in DOMAIN mos[h].snaps}
  <2>1. CASE later = {}
    BY <2>1, Zenon DEF After
  <2>2. CASE later # {}
    <3> DEFINE times == {mos[x].txg : x \in later}
    <3>1. times \in SUBSET Nat /\ times # {}
      BY <1>5, <2>2
    <3> HIDE DEF later
    <3>2. PICK m \in times : \A k \in times : m <= k
      BY <3>1, HasLeast
    <3>3. \E x \in later : \A y \in later : Mos[x].txg <= Mos[y].txg
      BY <3>2
    <3>4. nx = CHOOSE x \in later : \A y \in later : Mos[x].txg <= Mos[y].txg
      BY <2>2, Zenon DEF After, later
    <3>5. nx \in later
      BY <3>3, <3>4
    <3> QED
      BY <3>5, Zenon DEF later
  <2> QED
    BY <2>1, <2>2, Zenon
<1> HIDE DEF nx, later
<1>7. IsKnown(mos, nx) /\ nx \in DOMAIN mos /\ mos[nx].is = "set" /\ dead \in DOMAIN mos /\ mos[dead].is = "dead"
  <2> HIDE DEF h
  <2>1. IsKnown(mos, nx) /\ nx \in DOMAIN mos /\ mos[nx].is = "set"
    BY <1>5, <1>6
  <2> QED
    BY <1>3, <1>4, <2>1
<1>8. IsWithout(kept, mos[dead].lists, {k \in DOMAIN mos[dead].lists : k >= since})
  BY WithoutChanges, Zenon
<1> HIDE DEF kept
<1>9. /\ \A k \in DOMAIN kept : kept[k] \in DOMAIN mos /\ mos[kept[k]].is = "bpobj"
      /\ \A k \in DOMAIN theirs : theirs[k] \in DOMAIN mos /\ mos[theirs[k]].is = "bpobj"
  <2> HIDE DEF mos, h, o, theirs, dead
  <2>1. \A z \in DOMAIN mos : mos[z].is = "dead" =>
          \A k \in DOMAIN mos[z].lists : mos[z].lists[k] \in DOMAIN mos /\ mos[mos[z].lists[k]].is = "bpobj"
    BY <1>1 DEF Sound, Objects
  <2>2. DOMAIN kept \subseteq DOMAIN mos[dead].lists /\ \A k \in DOMAIN kept : kept[k] = mos[dead].lists[k]
    BY <1>8 DEF IsWithout
  <2>3. mos[o].dead \in DOMAIN mos /\ mos[mos[o].dead].is = "dead"
    BY <1>4, <1>5
  <2> QED
    BY <1>3, <1>7, <2>1, <2>2, <2>3
<1> HIDE DEF theirs
<1>10. \A k \in DOMAIN merged : merged[k] \in DOMAIN mos /\ mos[merged[k]].is = "bpobj"
  <2>1. ASSUME NEW k \in DOMAIN merged
        PROVE  \/ merged[k] = theirs[k] /\ k \in DOMAIN theirs
               \/ merged[k] = kept[k] /\ k \in DOMAIN kept
    BY <2>1 DEF Filed
  <2> HIDE DEF merged
  <2> QED
    BY <1>9, <2>1
<1>11. BytesOnly(mos, filed)
  <2>1. IsFcn(filed) /\ DOMAIN filed = DOMAIN mos
    BY DEF IsFcn, Swallowing
  <2>2. ASSUME NEW b \in DOMAIN mos
        PROVE  filed[b] = mos[b] \/ (mos[b].is = "bpobj" /\ filed[b].is = "bpobj" /\ IsBpobj(filed[b]))
    <3>1. CASE \E k \in swallowed : b = kept[k]
      <4> DEFINE bytes == Mos[b].bytes + Mos[theirs[CHOOSE k \in swallowed : b = kept[k]]].bytes
      <4>1. filed[b] = Bpobj(bytes)
        BY <3>1 DEF Swallowing
      <4>2. mos[b].is = "bpobj"
        BY <1>9, <3>1
      <4> HIDE DEF bytes, filed
      <4> QED
        BY <4>1, <4>2, BpobjFields
    <3>2. CASE ~\E k \in swallowed : b = kept[k]
      BY <3>2 DEF Swallowing
    <3> QED
      BY <3>1, <3>2
  <2> HIDE DEF filed
  <2> QED
    BY <2>1, <2>2 DEF BytesOnly
<1>12. linked = filed \/ (linked = [filed EXCEPT ![prev].next = nx] /\ mos[prev].next = o)
  BY Zenon
<1>13. joined = Joined(linked, h, s, nx, prev, dead, used, merged, freed)
  BY Zenon DEF Joined
<1> DEFINE gone1 == Mos[o].dead
           guid == Mos[o].guid
<1>14. gone1 = mos[o].dead /\ guid = mos[o].guid
  OBVIOUS
<1>15. new = Without(joined, {o, gone1}) /\ now = Without(live, {guid})
  OBVIOUS
<1> HIDE DEF t, mos, live, h, o, prev, since, dead, freed, merged, swallowed, filed, linked, used, joined, new, now, gone1, guid
<1>16. Objects(filed) /\ KeepsSets(mos, filed)
  <2>1. Objects(mos)
    BY <1>1 DEF Sound
  <2> QED
    BY <1>11, <2>1, BytesOnlyKeeps
<1>17. Objects(linked) /\ KeepsSets(mos, linked)
  <2>1. CASE linked = filed
    BY <1>16, <2>1
  <2>2. CASE linked = [filed EXCEPT ![prev].next = nx] /\ mos[prev].next = o
    <3>1. Dirs(filed) = Dirs(mos) /\ \A p \in Dirs(mos) : filed[p].head = mos[p].head
      BY <1>11, <1>16 DEF KeepsSets, Dirs, BytesOnly
    <3>2. \A p \in Dirs(mos) : mos[mos[p].head].next = NoObject
      BY <1>1 DEF Sound, HeadsKnown, HeadOf
    <3>3. \A p \in Dirs(filed) : filed[p].head # prev
      BY <1>5, <2>2, <3>1, <3>2
    <3>4. Objects([filed EXCEPT ![prev].next = nx]) /\ KeepsSets(filed, [filed EXCEPT ![prev].next = nx])
      BY <1>16, <3>3, RelinkedKeeps
    <3> QED
      BY <1>16, <2>2, <3>4, KeepsOn
  <2> QED
    BY <1>12, <2>1, <2>2
<1>18. AllAlike(mos, linked) /\ DOMAIN linked = DOMAIN mos
  <2>1. AllAlike(mos, filed) /\ DOMAIN filed = DOMAIN mos
    BY <1>11 DEF BytesOnly, AllAlike, Alike, Kin, SameSize
  <2>2. CASE linked = filed
    BY <2>1, <2>2
  <2>3. CASE linked = [filed EXCEPT ![prev].next = nx]
    <3>1. AllAlike(filed, linked) /\ DOMAIN linked = DOMAIN filed
      BY <1>16, <2>3, RelinkedIsAlike
    <3> QED
      BY <2>1, <3>1, AlikeOn
  <2> QED
    BY <1>12, <2>2, <2>3
<1>19. t + 1 \in Nat /\ t <= t + 1
  BY <1>1
<1>20. Sound(linked, live, t + 1)
  <2>1. KeepsUsers(live, live)
    BY <1>1 DEF Sound, Users, KeepsUsers, IsUser
  <2> QED
    BY <1>1, <1>17, <1>19, <2>1, QuietIsSound
<1>21. /\ Dirs(linked) = Dirs(mos) /\ linked[d].head = h /\ \A c \in Dirs(mos) : linked[c].origin = mos[c].origin
  BY <1>3, <1>17 DEF KeepsSets, Dirs
<1>22. linked[h].snaps = mos[h].snaps /\ linked[o].dead = gone1 /\ linked[o].guid = guid
  BY <1>5, <1>14, <1>17 DEF KeepsSets
<1>23. SnapsOf(linked, d) = SnapsOf(mos, d) /\ Snap(linked, d, s) = o
  BY <1>3, <1>21, <1>22 DEF SnapsOf, Snap, HeadOf
<1>24. /\ nx \in DOMAIN linked /\ linked[nx].is = "set" /\ dead \in DOMAIN linked /\ linked[dead].is = "dead"
       /\ \A k \in DOMAIN merged : merged[k] \in DOMAIN linked /\ linked[merged[k]].is = "bpobj"
  BY <1>7, <1>10, <1>17 DEF KeepsSets
<1>25. \A c \in Dirs(linked) : linked[c].origin # Snap(linked, d, s)
  BY <1>2, <1>21, <1>23
<1>26. d \in Dirs(linked) /\ s \in SnapsOf(linked, d)
  BY <1>3, <1>21, <1>23
<1>27. Sound(Without(Joined(linked, linked[d].head, s, nx, prev, dead, used, merged, freed),
                     {Snap(linked, d, s), linked[Snap(linked, d, s)].dead}),
             Without(live, {linked[Snap(linked, d, s)].guid}), t + 1)
  BY <1>19, <1>20, <1>24, <1>25, <1>26, JoinedIsSound
<1>28. Sound(new, now, t + 1)
  BY <1>13, <1>15, <1>21, <1>22, <1>23, <1>27
<1>29. Follows(new, now)
  <2> SUFFICES ASSUME Exact(mos, live)
               PROVE  Exact(new, now) /\ UsersStay(live, now, t)
    BY DEF Follows, mos, live, t
  <2>1. Exact(linked, live)
    BY <1>1, <1>18, AlikeIsExact DEF SameLooks
  <2>2. mos[nx].dir = d
    <3>1. {mos[h].snaps[k] : k \in DOMAIN mos[h].snaps} = {Snap(mos, d, k) : k \in SnapsOf(mos, d)}
      BY <1>3 DEF SnapsOf, Snap, HeadOf
    <3>2. (\A k \in SnapsOf(mos, d) : IsSetOf(mos, d, Snap(mos, d, k))) /\ IsSetOf(mos, d, h)
      BY <1>1, <1>3 DEF Sound, SnapsKnown, HeadsKnown
    <3> QED
      BY <1>6, <3>1, <3>2 DEF IsSetOf
  <2>3. IsIn(linked, nx)
    <3>1. Alike(mos[nx], linked[nx])
      BY <1>7, <1>18 DEF AllAlike
    <3> QED
      BY <1>3, <1>7, <1>21, <1>24, <2>2, <3>1 DEF Alike, Kin, IsIn
  <2>4. /\ Exact(Without(Joined(linked, linked[d].head, s, nx, prev, dead, used, merged, freed),
                         {Snap(linked, d, s), linked[Snap(linked, d, s)].dead}),
                 Without(live, {linked[Snap(linked, d, s)].guid}))
        /\ UsersStay(live, Without(live, {linked[Snap(linked, d, s)].guid}), t)
    BY <1>19, <1>20, <1>24, <1>25, <1>26, <2>1, <2>3, JoinedIsExact
  <2> QED
    BY <1>13, <1>15, <1>21, <1>22, <1>23, <2>4
<1> QED
  BY <1>2, <1>28, <1>29 DEF NextIsSound, t

\* Every command.
LEMMA AdminKeeps ==
  ASSUME PoolIsSound, Admin
  PROVE  NextIsSound
<1>1. PICK d \in Dirs(Mos) :
        \/ \E n \in Names, kind \in Kinds : Create(d, n, kind)
        \/ \E s \in Snaps : Snapshot(d, s)
        \/ \E s \in DOMAIN HeadOf(Mos, d).snaps :
             \/ DestroySnapshot(d, s)
             \/ \E to \in Dirs(Mos), n \in Names : Clone(HeadOf(Mos, d).snaps[s], to, n)
        \/ \E n \in DOMAIN Mos[d].kids \cap Names :
             \/ \E to \in Dirs(Mos), m \in Names : Rename(d, n, to, m)
             \/ Destroy(d, n)
             \/ Promote(d, n)
             \/ Resize(d, n)
             \/ Overwrite(d, n)
  BY DEF Admin
<1>2. CASE \E n \in Names, kind \in Kinds : Create(d, n, kind)
  BY <1>2, CreateKeeps
<1>3. CASE \E s \in Snaps : Snapshot(d, s)
  BY <1>3, SnapshotKeeps
<1>4. CASE \E s \in DOMAIN HeadOf(Mos, d).snaps : DestroySnapshot(d, s)
  BY <1>4, DestroySnapshotKeeps DEF SnapsOf
<1>5. CASE \E s \in DOMAIN HeadOf(Mos, d).snaps :
             \E to \in Dirs(Mos), n \in Names : Clone(HeadOf(Mos, d).snaps[s], to, n)
  BY <1>5, CloneKeeps
<1>6. CASE \E n \in DOMAIN Mos[d].kids \cap Names : \E to \in Dirs(Mos), m \in Names : Rename(d, n, to, m)
  BY <1>6, RenameKeeps
<1>7. CASE \E n \in DOMAIN Mos[d].kids \cap Names : Destroy(d, n)
  BY <1>7, DestroyKeeps
<1>8. CASE \E n \in DOMAIN Mos[d].kids \cap Names : Promote(d, n)
  BY <1>8, PromoteKeeps
<1>9. CASE \E n \in DOMAIN Mos[d].kids \cap Names : Resize(d, n)
  BY <1>9, ResizeKeeps
<1>10. CASE \E n \in DOMAIN Mos[d].kids \cap Names : Overwrite(d, n)
  BY <1>10, OverwriteKeeps
<1> QED
  BY <1>1, <1>2, <1>3, <1>4, <1>5, <1>6, <1>7, <1>8, <1>9, <1>10

-----------------------------------------------------------------------------
(* Every TXG of the history is sound                                       *)

\* A TXG more.
LEMMA AppendGrows ==
  ASSUME NEW S, NEW q \in Seq(S), NEW x
  PROVE  /\ Append(q, x) \in Seq(S \cup {x}) /\ Len(Append(q, x)) = Len(q) + 1
         /\ Append(q, x)[Len(q) + 1] = x /\ \A i \in 1 .. Len(q) : Append(q, x)[i] = q[i]
<1>1. q \in Seq(S \cup {x}) /\ x \in S \cup {x}
  BY SeqMonotonic
<1> DEFINE T == S \cup {x}
<1> HIDE DEF T
<1>2. q \in Seq(T) /\ x \in T
  BY <1>1 DEF T
<1>3. Append(q, x) \in Seq(T) /\ Len(Append(q, x)) = Len(q) + 1
  BY <1>2
<1>4. Append(q, x)[Len(q) + 1] = x /\ \A i \in 1 .. Len(q) : Append(q, x)[i] = q[i]
  BY <1>2
<1> QED
  BY <1>3, <1>4 DEF T

\* The commands and the TXGs in which blocks are freed keep the history sound;
\* nothing else changes it.
LEMMA InitIsSound ==
  ASSUME Init
  PROVE  PoolInv
<1>1. PICK snapped \in BOOLEAN, cloned \in BOOLEAN :
        (cloned => snapped) /\ history = <<UsedPool(snapped, cloned)>> /\ truth = <<SeenFirst(snapped, cloned)>>
  BY DEF Init
<1> DEFINE mos == UsedPool(snapped, cloned)
           live == SeenFirst(snapped, cloned)
<1>2. Sound(mos, live, 1)
  BY <1>1, FirstIsSound
<1>3. history = <<mos>> /\ truth = <<live>>
  BY <1>1
<1> HIDE DEF mos, live
<1>4. /\ Len(history) = 1 /\ history[1] = mos /\ history \in Seq({mos, live})
      /\ Len(truth) = 1 /\ truth[1] = live /\ truth \in Seq({mos, live})
  BY <1>3
<1>5. \A t \in 1 .. Len(history) : t = 1
  BY <1>4
<1> QED
  BY <1>2, <1>4, <1>5 DEF PoolInv, PastIsSound

\* A sound TXG more, and the history is still sound.
LEMMA SyncIsSound ==
  ASSUME PoolInv, NEW mos, NEW live, Sync(mos, live), Sound(mos, live, Len(history) + 1)
  PROVE  PoolInv'
<1>1. PICK S : history \in Seq(S) /\ truth \in Seq(S)
  BY DEF PoolInv
<1>2. /\ history' = Append(history, mos) /\ truth' = Append(truth, live)
      /\ Len(history) \in Nat \ {0} /\ Len(truth) = Len(history)
      /\ \A t \in 1 .. Len(history) : Sound(history[t], truth[t], t)
  BY DEF Sync, PoolInv, PastIsSound
<1>3. /\ history' \in Seq(S \cup {mos}) /\ Len(history') = Len(history) + 1 /\ history'[Len(history) + 1] = mos
      /\ \A i \in 1 .. Len(history) : history'[i] = history[i]
  BY <1>1, <1>2, AppendGrows
<1>4. /\ truth' \in Seq(S \cup {live}) /\ Len(truth') = Len(truth) + 1 /\ truth'[Len(truth) + 1] = live
      /\ \A i \in 1 .. Len(truth) : truth'[i] = truth[i]
  BY <1>1, <1>2, AppendGrows
<1>5. ASSUME NEW t \in 1 .. Len(history) + 1
      PROVE  Sound(history'[t], truth'[t], t)
  <2>1. CASE t = Len(history) + 1
    BY <1>2, <1>3, <1>4, <2>1
  <2>2. CASE t # Len(history) + 1
    <3>1. t \in 1 .. Len(history)
      BY <1>2, <2>2
    <3> QED
      BY <1>2, <1>3, <1>4, <3>1
  <2> QED
    BY <2>1, <2>2
<1>6. Len(history') \in Nat \ {0} /\ Len(truth') = Len(history')
  BY <1>2, <1>3, <1>4
<1>7. \A t \in 1 .. Len(history') : Sound(history'[t], truth'[t], t)
  BY <1>3, <1>5
<1>8. \E T : history' \in Seq(T) /\ truth' \in Seq(T)
  <2> DEFINE T == S \cup {mos, live}
  <2>1. S \cup {mos} \subseteq T /\ S \cup {live} \subseteq T
    OBVIOUS
  <2> HIDE DEF T
  <2>2. history' \in Seq(T) /\ truth' \in Seq(T)
    BY <1>3, <1>4, <2>1, SeqMonotonic
  <2> QED
    BY <2>2
<1>9. PastIsSound'
  BY <1>6, <1>7 DEF PastIsSound
<1> QED
  BY <1>8, <1>9 DEF PoolInv

\* The commands begin from the last TXG.
LEMMA LastIsSound ==
  ASSUME PoolInv
  PROVE  PoolIsSound
<1>1. Mos = history[Len(history)] /\ Live = truth[Len(history)]
  BY DEF PoolInv, PastIsSound, Mos, Live, Last
<1>2. Len(history) \in Nat /\ Len(history) \in 1 .. Len(history)
  BY DEF PoolInv, PastIsSound
<1>3. Sound(history[Len(history)], truth[Len(history)], Len(history))
  BY <1>2 DEF PoolInv, PastIsSound
<1> QED
  BY <1>1, <1>2, <1>3 DEF PoolIsSound

\* A command, a loss, a step of the timeline or of the list: the history stays
\* sound.
LEMMA NextKeepsPool ==
  ASSUME PoolInv, [Next]_vars
  PROVE  PoolInv'
<1>1. PoolIsSound
  BY LastIsSound
<1>2. CASE UNCHANGED <<history, truth>>
  BY <1>2 DEF PoolInv, PastIsSound
<1>3. CASE Admin
  BY <1>1, <1>3, AdminKeeps, SyncIsSound DEF NextIsSound
<1>4. CASE Free
  BY <1>1, <1>4, FreeKeeps, SyncIsSound DEF NextIsSound
<1>5. CASE Lose \/ ReadTxg \/ ListNewest \/ ListExact \/ UNCHANGED vars
  <2>1. UNCHANGED <<history, truth>>
    BY <1>5, Zenon DEF Lose, ReadTxg, ListNewest, ListExact, List, vars
  <2> QED
    BY <1>2, <2>1
<1> QED
  BY <1>3, <1>4, <1>5 DEF Next

\* Whatever the commands were, in every TXG of the history the directories are
\* a tree, each with a head, a deadlist and snapshots of its own, and what the
\* user sees are the paths of that tree.
THEOREM HistoryIsSound == Spec => []PastIsSound
<1>1. Init => PoolInv
  BY InitIsSound
<1>2. PoolInv /\ [Next]_vars => PoolInv'
  BY NextKeepsPool
<1>3. PoolInv => PastIsSound
  BY DEF PoolInv
<1> QED
  BY <1>1, <1>2, <1>3, PTL DEF Spec

-----------------------------------------------------------------------------
(* What is read stays the same                                             *)

\* The pool and what is lost of it no longer change.
Rests == history' = history /\ gone' = gone

\* As long as they do not, the blocks of an object were written when they were.
WrittenIn(h, t, o, part) ==
  LET Since[u \in 1..t] ==
        IF /\ u > 1 /\ o \in DOMAIN h[u - 1] /\ h[u - 1][o].is = h[t][o].is
           /\ part \in PartsOf(h[u - 1][o])
           /\ Content(h[u - 1][o], part) = Content(h[t][o], part)
        THEN Since[u - 1] ELSE u
  IN  Since[t]

\* What a block's TXG is found from does not change either.
LEMMA WrittenStays ==
  ASSUME Rests
  PROVE  \A t, o, part : Written(t, o, part)' = Written(t, o, part)
<1>1. \A t, o, part : Written(t, o, part) = WrittenIn(history, t, o, part)
  BY DEF Written, WrittenIn
<1>2. \A t, o, part : Written(t, o, part)' = WrittenIn(history', t, o, part)
  BY DEF Written, WrittenIn
<1> QED
  BY <1>1, <1>2 DEF Rests

\* So what reads still does.
LEMMA ReadsStays ==
  ASSUME Rests
  PROVE  \A t, o, part : Reads(t, o, part)' = Reads(t, o, part)
BY WrittenStays DEF Rests, Reads

\* And so does what is got of it.
LEMMA GetStays ==
  ASSUME Rests
  PROVE  /\ \A t, o : Get(t, o)' = Get(t, o)
         /\ \A t, o, part, entries : ReadZap(t, o, part, entries)' = ReadZap(t, o, part, entries)
BY ReadsStays DEF Rests, Get, ReadZap

\* And so what is found is found again.
PickOf(found) == IF found = {} THEN NoObject ELSE CHOOSE o \in found : TRUE
Origin(S) == {s.prev : s \in S}

\* The snapshot that datasets which are no clones descend from.
LEMMA OriginStays ==
  ASSUME Rests
  PROVE  \A t : OriginSnapshot(t)' = OriginSnapshot(t)
<1> SUFFICES ASSUME NEW t PROVE OriginSnapshot(t)' = OriginSnapshot(t)
  OBVIOUS
<1> DEFINE roots == Get(t, Root)
           kids == UNION {ReadZap(t, Root, "children", r.kids) : r \in roots}
           dirs == UNION {Get(t, k["$ORIGIN"]) : k \in kids}
           heads == UNION {Get(t, d.head) : d \in dirs}
<1>1. roots' = roots
  BY GetStays
<1>2. kids' = kids
  <2> HIDE DEF roots
  <2> QED
    BY <1>1, GetStays
<1>3. dirs' = dirs
  <2> HIDE DEF kids
  <2> QED
    BY <1>2, GetStays
<1>4. heads' = heads
  <2> HIDE DEF dirs
  <2> QED
    BY <1>3, GetStays
<1>5. OriginSnapshot(t) = PickOf(Origin(heads)) /\ OriginSnapshot(t)' = PickOf(Origin(heads'))
  BY Zenon DEF OriginSnapshot, PickOf, Origin
<1> HIDE DEF heads
<1> QED
  BY <1>4, <1>5

\* What is told of a dataset.
LEMMA DescribeStays ==
  ASSUME Rests
  PROVE  \A t, o, name, dir, origin : Describe(t, o, name, dir, origin)' = Describe(t, o, name, dir, origin)
<1>1. \A t, d : ReadEncryption(t, d)' = ReadEncryption(t, d)
  BY GetStays, ReadsStays DEF ReadEncryption
<1> QED
  BY <1>1, GetStays, ReadsStays DEF Describe

\* The snapshots of a head.
LEMMA SnapshotsStay ==
  ASSUME Rests
  PROVE  \A t, head, dir, origin : Snapshots(t, head, dir, origin)' = Snapshots(t, head, dir, origin)
<1> SUFFICES ASSUME NEW t, NEW head, NEW dir, NEW origin
             PROVE  Snapshots(t, head, dir, origin)' = Snapshots(t, head, dir, origin)
  OBVIOUS
<1> DEFINE Of(entries, s) == {[d EXCEPT !.snapshot = TRUE] :
                               d \in Describe(t, entries[s], Named(head.name.path, {s}), dir, origin)}
           All(entries) == UNION {Of(entries, s) : s \in DOMAIN entries}
           zap == ReadZap(t, head.object, "snapnames", head.snaps)
<1>1. \A entries, s : Of(entries, s)' = Of(entries, s)
  BY DescribeStays
<1>2. \A entries : All(entries)' = All(entries)
  <2> HIDE DEF Of
  <2> QED
    BY <1>1
<1>3. zap' = zap
  BY GetStays
<1>4. Snapshots(t, head, dir, origin) = UNION {All(entries) : entries \in zap}
      /\ Snapshots(t, head, dir, origin)' = UNION {All(entries)' : entries \in zap'}
  BY Zenon DEF Snapshots
<1> HIDE DEF All, zap
<1> QED
  BY <1>2, <1>3, <1>4

\* A head with its snapshots, and the directories below one.
LEMMA HeadsStay ==
  ASSUME Rests
  PROVE  /\ \A t, o, path, origin : HeadAt(t, o, path, origin)' = HeadAt(t, o, path, origin)
         /\ \A t, o, path, origin : WithSnapshots(t, o, path, origin)' = WithSnapshots(t, o, path, origin)
         /\ \A t, o, path, origin, w : Heads(t, o, path, origin, w)' = Heads(t, o, path, origin, w)
         /\ \A t, o, path : Below(t, o, path)' = Below(t, o, path)
<1>1. \A t, o, path, origin : HeadAt(t, o, path, origin)' = HeadAt(t, o, path, origin)
  BY DescribeStays DEF HeadAt, Rests
<1>2. \A t, o, path, origin : WithSnapshots(t, o, path, origin)' = WithSnapshots(t, o, path, origin)
  BY <1>1, SnapshotsStay DEF WithSnapshots, Rests
<1>3. \A t, o, path, origin, w : Heads(t, o, path, origin, w)' = Heads(t, o, path, origin, w)
  BY <1>1, <1>2, ZenonT(30) DEF Heads
<1>4. \A t, o, path : Below(t, o, path)' = Below(t, o, path)
  BY GetStays DEF Below, Rests
<1> QED
  BY <1>1, <1>2, <1>3, <1>4

AfterCall(w, reads, more, described, below) ==
  LET past == [w EXCEPT !.todo = @ \ {NextDir(w)}]
      entered == [past EXCEPT !.seen = @ \cup {NextDir(w)[1]}]
      failed(v) == [v EXCEPT !.errors = @ \cup {NextDir(w)[2]}]
  IN  IF Len(NextDir(w)[2]) > MaxDepth \/ NextDir(w)[1] \in w.seen THEN failed(past)
      ELSE IF ~reads THEN failed(entered)
      ELSE IF ~more THEN failed(described)
      ELSE [described EXCEPT !.todo = @ \cup below]

\* A call of walk_dir.
LEMMA CallStays ==
  ASSUME Rests
  PROVE  \A t, origin, w : Call(t, origin, w)' = Call(t, origin, w)
<1>1. \A t, origin, w : WalkDir(t, origin, w)' = WalkDir(t, origin, w)
  <2> SUFFICES ASSUME NEW t, NEW origin, NEW w PROVE WalkDir(t, origin, w)' = WalkDir(t, origin, w)
    OBVIOUS
  <2> DEFINE x == NextDir(w)
             entered == [[w EXCEPT !.todo = @ \ {NextDir(w)}] EXCEPT !.seen = @ \cup {NextDir(w)[1]}]
             reads == Reads(t, x[1], "dnode")
             more == Reads(t, x[1], "children")
             described == Heads(t, x[1], x[2], origin, entered)
             below == Below(t, x[1], x[2])
  <2>1. reads' = reads /\ more' = more
    BY ReadsStays
  <2>2. below' = below
    BY HeadsStay
  <2>3. described' = described
    <3> HIDE DEF entered
    <3> QED
      BY HeadsStay
  <2>4. WalkDir(t, origin, w) = AfterCall(w, reads, more, described, below)
    BY Zenon DEF WalkDir, AfterCall
  <2>5. WalkDir(t, origin, w)' = AfterCall(w, reads', more', described', below')
    BY Zenon DEF WalkDir, AfterCall
  <2> HIDE DEF reads, more, described, below
  <2> QED
    BY <2>1, <2>2, <2>3, <2>4, <2>5
<1> QED
  BY <1>1 DEF Call

\* And a TXG that is walked once more gives the same tree.
LEMMA WalksGoOn == \A t : CallsFrom(t, Calls(t))
BY WalkGoesOn

\* All calls of a walk.
LEMMA CallsStay ==
  ASSUME Rests
  PROVE  \A t : \A n \in Nat : Calls(t)'[n] = Calls(t)[n]
<1>1. \A t : CallsFrom(t, Calls(t))
  BY WalksGoOn
<1>2. (\A t : CallsFrom(t, Calls(t)))'
  BY WalksGoOn, PTL
<1> SUFFICES ASSUME NEW t, NEW n \in Nat PROVE Calls(t)'[n] = Calls(t)[n]
  OBVIOUS
<1>3. Calls(t)[0] = Begun /\ \A m \in Nat : Calls(t)[m + 1] = Call(t, OriginSnapshot(t), Calls(t)[m])
  BY <1>1 DEF CallsFrom
<1>4. Calls(t)'[0] = Begun /\ \A m \in Nat : (Calls(t)[m + 1] = Call(t, OriginSnapshot(t), Calls(t)[m]))'
  BY <1>2 DEF CallsFrom, Begun
<1> DEFINE Good == {m \in Nat : Calls(t)'[m] = Calls(t)[m]}
<1>5. 0 \in Good
  BY <1>3, <1>4
<1>6. ASSUME NEW m \in Good PROVE m + 1 \in Good
  <2>1. Calls(t)'[m + 1] = Calls(t)[m + 1]
    BY <1>3, <1>4, OriginStays, CallStays
  <2> QED
    BY <2>1
<1>7. Good \in SUBSET Nat
  OBVIOUS
<1> HIDE DEF Good
<1>8. n \in Good
  BY <1>5, <1>6, <1>7, SetInduction
<1> QED
  BY <1>8 DEF Good

\* The tree of a TXG.
LEMMA WalkStays ==
  ASSUME Rests
  PROVE  \A t : IsFiniteSet(Dirs(history[t])) => Walk(t)' = Walk(t)
<1> SUFFICES ASSUME NEW t, IsFiniteSet(Dirs(history[t])) PROVE Walk(t)' = Walk(t)
  OBVIOUS
<1> DEFINE n == Cardinality(Dirs(history[t]))
<1>1. n \in Nat /\ n' = n
  BY FS_CardinalityType DEF Rests
<1>2. Walk(t) = Calls(t)[n] /\ Walk(t)' = Calls(t)'[n']
  BY DEF Walk
<1> HIDE DEF n
<1> QED
  BY <1>1, <1>2, CallsStay

-----------------------------------------------------------------------------
(* What --recover is told to look for is found                             *)

\* A TXG of the history has finitely many directories.
LEMMA DirsAreFinite ==
  ASSUME PoolInv, NEW t \in 1 .. Len(history)
  PROVE  IsFiniteSet(Dirs(history[t]))
<1>1. IsFiniteSet(DOMAIN history[t])
  BY DEF PoolInv, PastIsSound, Sound, Objects
<1>2. Dirs(history[t]) \subseteq DOMAIN history[t]
  BY DEF Dirs
<1> QED
  BY <1>1, <1>2, FS_Subset

\* A walk goes on giving the tree it gave (the timeline runs on a pool nobody
\* writes to).
LEMMA RecordsStay ==
  ASSUME PoolInv, Rests
  PROVE  /\ Len(history)' = Len(history)
         /\ \A t : Walks(t)' = Walks(t)
         /\ \A t \in 1 .. Len(history) : Walk(t)' = Walk(t)
         /\ \A e : LeadsTo(e) => LeadsTo(e)'
<1>1. Len(history)' = Len(history) /\ \A t : Walks(t)' = Walks(t)
  BY DEF Rests, Walks, MosReads, DirectoryReads
<1>2. \A t \in 1 .. Len(history) : Walk(t)' = Walk(t)
  BY DirsAreFinite, WalkStays
<1>3. \A e : LeadsTo(e) => LeadsTo(e)'
  BY <1>1, <1>2 DEF LeadsTo, Shown
<1> QED
  BY <1>1, <1>2, <1>3

\* Only what was there and is there no more is told to be destroyed (events.rs
\* diff), with the TXG it was last seen at.
LEMMA DestroyedWasThere ==
  ASSUME NEW before, NEW after, NEW txg, NEW last, NEW e \in Diff(before, after, txg, last),
         e.kind \in Destructions
  PROVE  e.txg = txg /\ e.last = last /\ Shown(e, before)
<1> DEFINE old == ByGuid(before)
           new == ByGuid(after)
           G == DOMAIN old \ DOMAIN new
<1>1. \A d : AppearedAs(d) \notin Destructions
  BY DEF AppearedAs, Destructions
<1>2. PICK g \in G : e = Event(txg, IF old[g].snapshot THEN "snapshot-destroyed" ELSE "destroyed", old[g], last)
  <2> DEFINE both == DOMAIN old \cap DOMAIN new
  <2>1. \/ \E g \in DOMAIN new \ DOMAIN old : e = Event(txg, AppearedAs(new[g]), new[g], 0)
        \/ \E g \in both : e = Event(txg, "renamed", new[g], 0)
        \/ \E g \in both : e = Event(txg, "property", new[g], 0)
        \/ \E g \in G : e = Event(txg, IF old[g].snapshot THEN "snapshot-destroyed" ELSE "destroyed", old[g], last)
    BY Zenon DEF Diff
  <2> HIDE DEF old, new, both, G
  <2> QED
    BY <1>1, <2>1 DEF Event, Destructions
<1>3. old[g] \in before /\ old[g].guid = g
  <2>1. g \in {d.guid : d \in before} /\ old[g] = CHOOSE d \in before : d.guid = g
    BY DEF ByGuid
  <2> HIDE DEF old
  <2> QED
    BY <2>1
<1> HIDE DEF old, G
<1>4. e.txg = txg /\ e.last = last /\ e.name = old[g].name /\ e.guid = old[g].guid
  BY <1>2 DEF Event
<1> QED
  BY <1>3, <1>4 DEF Shown

\* The first TXG walked tells what there is, not what was destroyed
\* (report.rs).
LEMMA NothingDestroyedAtFirst ==
  ASSUME NEW sets, NEW txg, NEW e \in Baseline(sets, txg)
  PROVE  e.kind \notin Destructions
<1>1. PICK d \in sets : e = Event(Min({d.txg, txg}), AppearedAs(d), d, 0)
  BY Zenon DEF Baseline
<1> QED
  BY <1>1 DEF Event, AppearedAs, Destructions

\* The next TXG of the ring.
LEMMA ReadTxgKeeps ==
  ASSUME RecoverInv, ReadTxg
  PROVE  TimelineInv'
<1>1. PICK t \in Candidates :
        /\ t > at /\ at' = t
        /\ IF Walks(t)
           THEN \E tree \in {Walk(t)} :
                  /\ events' = events \cup IF previous.txg = 0 THEN Baseline(tree.sets, t)
                                            ELSE Diff(previous.sets, tree.sets, t, previous.txg)
                  /\ previous' = [txg |-> t, sets |-> tree.sets]
           ELSE /\ events' = events \cup {Event(t, "unreadable", Nobody, 0)}
                /\ previous' = Still(t)
  BY DEF ReadTxg
<1>2. Rests
  BY DEF ReadTxg, Rests
<1>3. /\ Len(history)' = Len(history)
      /\ \A u : Walks(u)' = Walks(u)
      /\ \A u \in 1 .. Len(history) : Walk(u)' = Walk(u)
      /\ \A e : LeadsTo(e) => LeadsTo(e)'
  BY <1>2, RecordsStay DEF RecoverInv
<1>4. t \in 1 .. Len(history) /\ Len(history) \in Nat
  BY DEF Candidates, RecoverInv, PoolInv, PastIsSound
<1>5. t \in Nat /\ t > 0 /\ t # 0
  BY <1>4
<1>6. at' \in Nat /\ at' # 0
  BY <1>1, <1>5
<1>7. CASE Walks(t)
  <2>1. previous' = [txg |-> t, sets |-> Walk(t).sets]
    BY <1>1, <1>7
  <2>2. previous'.txg = t /\ previous'.sets = Walk(t).sets
    BY <2>1
  <2>3. /\ previous'.txg \in Nat /\ previous'.txg <= at'
        /\ previous'.txg \in 1 .. Len(history)' /\ Walks(previous.txg)' /\ previous'.sets = Walk(previous.txg).sets'
    BY <1>1, <1>3, <1>4, <1>5, <1>7, <2>2
  <2>4. ASSUME NEW e \in events', e.kind \in Destructions
        PROVE  LeadsTo(e)'
    <3>1. CASE e \in events
      BY <1>3, <2>4, <3>1 DEF RecoverInv, TimelineInv
    <3>2. CASE e \notin events
      <4>1. e \in IF previous.txg = 0 THEN Baseline(Walk(t).sets, t) ELSE Diff(previous.sets, Walk(t).sets, t, previous.txg)
        BY <1>1, <1>7, <3>2
      <4>2. previous.txg # 0 /\ e \in Diff(previous.sets, Walk(t).sets, t, previous.txg)
        BY <2>4, <4>1, NothingDestroyedAtFirst
      <4>3. e.txg = t /\ e.last = previous.txg /\ Shown(e, previous.sets)
        BY <2>4, <4>2, DestroyedWasThere
      <4>4. /\ previous.txg \in 1 .. Len(history) /\ Walks(previous.txg) /\ previous.sets = Walk(previous.txg).sets
            /\ previous.txg < t
        BY <1>1, <1>5, <4>2 DEF RecoverInv, TimelineInv
      <4>5. LeadsTo(e)
        BY <4>3, <4>4 DEF LeadsTo
      <4> QED
        BY <1>3, <4>5
    <3> QED
      BY <3>1, <3>2
  <2> QED
    BY <1>6, <2>3, <2>4 DEF TimelineInv
<1>8. CASE ~Walks(t)
  <2>1. previous' = previous /\ events' = events \cup {Event(t, "unreadable", Nobody, 0)}
    BY <1>1, <1>8 DEF Still
  <2>2. previous.txg \in Nat /\ previous.txg <= at'
    BY <1>1, <1>5 DEF RecoverInv, TimelineInv
  <2>3. previous.txg > 0 =>
          previous.txg \in 1 .. Len(history)' /\ Walks(previous.txg)' /\ previous.sets = Walk(previous.txg).sets'
    BY <1>3, <2>1 DEF RecoverInv, TimelineInv
  <2>4. ASSUME NEW e \in events', e.kind \in Destructions
        PROVE  LeadsTo(e)'
    <3>1. e \in events
      BY <2>1, <2>4 DEF Event, Destructions
    <3> QED
      BY <1>3, <2>4, <3>1 DEF RecoverInv, TimelineInv
  <2> QED
    BY <1>6, <2>1, <2>2, <2>3, <2>4 DEF TimelineInv
<1> QED
  BY <1>7, <1>8

\* Nothing of the pool changes once the timeline has begun.
LEMMA NextKeepsTimeline ==
  ASSUME RecoverInv, [Next]_vars
  PROVE  RecoverInv'
<1>1. PoolInv'
  BY NextKeepsPool DEF RecoverInv
<1>2. CASE ReadTxg
  BY <1>1, <1>2, ReadTxgKeeps DEF RecoverInv
<1>3. CASE ListNewest \/ ListExact \/ UNCHANGED vars
  <2>1. Rests /\ UNCHANGED <<at, previous, events>>
    BY <1>3, Zenon DEF ListNewest, ListExact, List, vars, Rests
  <2>2. TimelineInv'
    BY <2>1, RecordsStay DEF RecoverInv, TimelineInv
  <2> QED
    BY <1>1, <2>2 DEF RecoverInv
<1>4. CASE (\E mos, live : Sync(mos, live)) \/ Lose
  <2>1. at = 0 /\ UNCHANGED <<at, previous, events>>
    BY <1>4 DEF Sync, Lose
  <2>2. TimelineInv'
    BY <2>1 DEF RecoverInv, TimelineInv
  <2> QED
    BY <1>1, <2>2 DEF RecoverInv
<1>5. Admin \/ Free => \E mos, live : Sync(mos, live)
  BY LastIsSound, AdminKeeps, FreeKeeps DEF NextIsSound, RecoverInv
<1> QED
  BY <1>2, <1>3, <1>4, <1>5 DEF Next

\* RecoverFindsIt, for every pool: the command printed for a destroyed dataset
\* names a TXG at which a dataset of that name is found, and it is that one.
THEOREM RecoverIsFound == Spec => []RecoverFindsIt
<1>1. Init => RecoverInv
  <2> SUFFICES ASSUME Init PROVE TimelineInv
    BY InitIsSound DEF RecoverInv
  <2> QED
    BY DEF Init, TimelineInv
<1>2. RecoverInv /\ [Next]_vars => RecoverInv'
  BY NextKeepsTimeline
<1>3. RecoverInv => RecoverFindsIt
  <2> SUFFICES ASSUME RecoverInv, NEW e \in events, e.kind \in Destructions
               PROVE  e.last < e.txg /\ Walks(e.last) /\ {d.guid : d \in Find(Walk(e.last).sets, e.name)} = {e.guid}
    BY DEF RecoverFindsIt, Destructions
  <2>1. LeadsTo(e)
    BY DEF RecoverInv, TimelineInv
  <2>2. NamesAreUnique(Walk(e.last).sets)
    BY <2>1, DirsAreFinite, WalkNamesOnce DEF LeadsTo, RecoverInv
  <2> QED
    BY <2>1, <2>2 DEF LeadsTo, Shown, NamesAreUnique, Find
<1> QED
  BY <1>1, <1>2, <1>3, PTL DEF Spec

-----------------------------------------------------------------------------
(* What a walk does not find, it tells                                     *)

\* The head of a directory is told as it is, not as a snapshot.
LEMMA HeadIsDescribed ==
  ASSUME NEW t, NEW live, NEW origin, Sound(history[t], live, t), NEW d \in Dirs(history[t]),
         NEW e \in HeadAt(t, d, PathIn(history[t], live, d), origin)
  PROVE  IsHeadOf(t, live, d, e)
<1> DEFINE h == history[t][d].head
           name == Named(PathIn(history[t], live, d), NoSnap)
<1>1. e \in Describe(t, h, name, history[t][d], origin)
  BY DEF HeadAt
<1>2. history[t][h].next = NoObject
  BY DEF Sound, HeadsKnown, HeadOf
<1>3. PICK s \in Get(t, h) : e.name = name /\ e.guid = s.guid /\ e.snapshot = (s.next # NoObject)
  <2> HIDE DEF h, name
  <2> QED
    BY <1>1 DEF Describe
<1>4. s = history[t][h]
  BY <1>3, GetIsOne
<1> QED
  BY <1>2, <1>3, <1>4 DEF IsHeadOf, HeadOf

\* A call of walk_dir keeps that, and is over with one directory more.
LEMMA CallCovers ==
  ASSUME NEW t, NEW origin, NEW live, NEW w, NEW done, Sound(history[t], live, t),
         CoverInv(t, origin, live, w, done), w.todo # {}
  PROVE  /\ NextDir(w)[1] \notin done
         /\ CoverInv(t, origin, live, WalkDir(t, origin, w), done \cup {NextDir(w)[1]})
<1> DEFINE mos == history[t]
           P(d) == PathIn(mos, live, d)
           x == NextDir(w)
           o == x[1]
           path == x[2]
           v == WalkDir(t, origin, w)
           now == done \cup {o}
<1>1. w \in WalkStates(t, origin) /\ x \in w.todo
  BY NextIsDeepest DEF CoverInv
<1>2. v \in WalkStates(t, origin)
  BY <1>1, CallIsTyped DEF Call
<1>3. x = <<o, path>> /\ o \in Dirs(mos) /\ o \notin done /\ path = P(o) /\ Reached(t, o, done)
  BY <1>1 DEF CoverInv
<1>4. v = Made(t, origin, w, o, path)
  BY <1>1, CallChanges
<1>5. /\ \A p \in Dirs(mos), q \in Dirs(mos) : \A k \in Kids(mos, p) : \A n \in Kids(mos, q) :
           Kid(mos, p, k) = Kid(mos, q, n) => p = q
      /\ \A p \in Dirs(mos) : \A n \in Kids(mos, p) :
           Kid(mos, p, n) \in Dirs(mos) \ {Root} /\ P(Kid(mos, p, n)) = Append(P(p), n)
  <2>1. \A p \in Dirs(mos), q \in Dirs(mos) : \A k \in Kids(mos, p) : \A n \in Kids(mos, q) :
           Kid(mos, p, k) = Kid(mos, q, n) => p = q
    BY KidsTell
  <2>2. \A p \in Dirs(mos) : \A n \in Kids(mos, p) :
           Kid(mos, p, n) \in Dirs(mos) \ {Root} /\ P(Kid(mos, p, n)) = Append(P(p), n)
    BY DEF Sound, Tree
  <2> QED
    BY <2>1, <2>2
<1> DEFINE below == IF Opens(t, w) THEN Below(t, o, path) ELSE {}
<1>6. below \subseteq {<<Kid(mos, o, n), Append(path, n)>> : n \in Kids(mos, o)}
  BY DEF Below, ReadZap, Kids, Kid
<1>7. Told(t, origin, w) => below = {<<Kid(mos, o, n), Append(path, n)>> : n \in Kids(mos, o)}
  BY DEF Below, ReadZap, Kids, Kid, Told
<1>8. Told(t, origin, w) => \E e \in v.sets : IsHeadOf(t, live, o, e)
  <2> SUFFICES ASSUME Told(t, origin, w) PROVE \E e \in v.sets : IsHeadOf(t, live, o, e)
    OBVIOUS
  <2>1. PICK e : e \in HeadAt(t, o, path, origin)
    BY DEF Told
  <2>2. e \in WithSnapshots(t, o, path, origin)
    BY <2>1 DEF WithSnapshots
  <2>3. e \in v.sets
    <3> HIDE DEF v, o, path
    <3> QED
      BY <1>4, <2>2 DEF Made, Told
  <2>4. IsHeadOf(t, live, o, e)
    BY <1>3, <2>1, HeadIsDescribed
  <2> QED
    BY <2>3, <2>4
<1>9. IsFound(t, origin, live, v, now)
  <2> DEFINE found == FoundAt(t, origin, live, o)
  <2>1. /\ v.sets = w.sets \cup (IF Opens(t, w) THEN found ELSE {})
        /\ v.errors = w.errors \cup (IF Told(t, origin, w) THEN {} ELSE {path})
    <3>1. found = WithSnapshots(t, o, path, origin)
      BY <1>3 DEF FoundAt
    <3> HIDE DEF v, o, path, found
    <3> QED
      BY <1>4, <3>1 DEF Made
  <2>2. ~Told(t, origin, w) => ~Readable(t, origin, live, o)
    <3>1. w.seen \subseteq done
      BY DEF CoverInv
    <3>2. o \notin w.seen /\ path = PathIn(history[t], live, o)
      BY <1>3, <3>1
    <3>3. ~Told(t, origin, w) => \/ Len(path) > MaxDepth \/ ~Reads(t, o, "dnode") \/ ~Reads(t, o, "children")
                                \/ HeadAt(t, o, path, origin) = {}
      BY <3>2, Zenon DEF Told, Opens, Refused
    <3>4. Len(path) \in Nat
      BY <1>1, <1>3 DEF WalkStates, Paths
    <3> HIDE DEF o, path
    <3> QED
      BY <3>2, <3>3, <3>4 DEF Readable, MaxDepth
  <2>3. Told(t, origin, w) => Opens(t, w)
    BY DEF Told
  <2>4. IsFound(t, origin, live, w, done)
    BY DEF CoverInv
  <2> HIDE DEF v, o, path, found
  <2> QED
    BY <1>3, <2>1, <2>2, <2>3, <2>4 DEF IsFound, found, mos
<1>10. /\ v.todo = (w.todo \ {x}) \cup below /\ w.sets \subseteq v.sets
      /\ v.errors = w.errors \cup (IF Told(t, origin, w) THEN {} ELSE {path})
      /\ v.seen \subseteq w.seen \cup {o}
  <2> HIDE DEF v, o, path
  <2> QED
    BY <1>4 DEF Made
<1>11. ASSUME NEW d \in Dirs(mos), Reached(t, d, done) PROVE Reached(t, d, now)
  BY <1>11 DEF Reached
<1> HIDE DEF mos, x, o, path, v, below
<1>12. ASSUME NEW n \in Kids(mos, o) PROVE Kid(mos, o, n) \notin now /\ Reached(t, Kid(mos, o, n), now)
  <2>1. \A k : Reached(t, k, done) => k = Root \/ \E p \in done : \E m \in Kids(mos, p) : Kid(mos, p, m) = k
    BY DEF Reached, mos
  <2>2. done \subseteq Dirs(mos) /\ \A d \in now : Reached(t, d, done)
    BY <1>3 DEF CoverInv, mos
  <2>3. Kid(mos, o, n) \in now => FALSE
    BY <1>3, <1>5, <2>1, <2>2
  <2>4. Reached(t, Kid(mos, o, n), now)
    BY DEF Reached, mos
  <2> QED
    BY <2>3, <2>4
<1>13. now \in SUBSET Dirs(mos) /\ v.seen \subseteq now
  BY <1>3, <1>10 DEF CoverInv, mos
<1>14. ASSUME NEW y \in v.todo
       PROVE  y = <<y[1], y[2]>> /\ y[1] \in Dirs(mos) \ now /\ y[2] = P(y[1]) /\ Reached(t, y[1], now)
  <2>1. CASE y \in w.todo \ {x}
    <3>1. y = <<y[1], y[2]>> /\ y[1] \in Dirs(mos) \ done /\ y[2] = P(y[1]) /\ Reached(t, y[1], done)
      BY <2>1 DEF CoverInv, mos
    <3>2. y[1] # o
      BY <1>3, <2>1, <3>1
    <3> QED
      BY <1>11, <3>1, <3>2
  <2>2. CASE y \in below
    <3>1. PICK n \in Kids(mos, o) : y = <<Kid(mos, o, n), Append(path, n)>>
      BY <1>6, <2>2
    <3> QED
      BY <1>3, <1>5, <1>12, <3>1
  <2> QED
    BY <1>10, <2>1, <2>2
<1>15. ASSUME NEW d \in now
       PROVE  Reached(t, d, now) /\ Headed(t, live, v, d) /\ Entered(t, live, v, d, now)
  <2>1. CASE d \in done
    <3>1. d \in Dirs(mos) /\ Reached(t, d, done) /\ Headed(t, live, w, d) /\ Entered(t, live, w, d, done)
      BY <2>1 DEF CoverInv, mos
    <3>2. Headed(t, live, v, d)
      BY <1>10, <3>1 DEF Headed
    <3>3. CASE PathIn(history[t], live, d) \in w.errors
      BY <1>10, <1>11, <3>1, <3>2, <3>3 DEF Entered
    <3>4. CASE PathIn(history[t], live, d) \notin w.errors
      <4>1. ASSUME NEW n \in Kids(mos, d)
            PROVE  Kid(mos, d, n) \in now \/ <<Kid(mos, d, n), P(Kid(mos, d, n))>> \in v.todo
        <5>1. Kid(mos, d, n) \in done \/ <<Kid(mos, d, n), P(Kid(mos, d, n))>> \in w.todo
          BY <3>1, <3>4, <4>1 DEF Entered, mos
        <5>2. CASE <<Kid(mos, d, n), P(Kid(mos, d, n))>> = x
          BY <1>3, <5>2
        <5> QED
          BY <1>10, <5>1, <5>2
      <4>2. Entered(t, live, v, d, now)
        BY <4>1 DEF Entered, mos
      <4> QED
        BY <1>11, <3>1, <3>2, <4>2
    <3> QED
      BY <3>3, <3>4
  <2>2. CASE d = o
    <3>1. CASE Told(t, origin, w)
      <4>1. Headed(t, live, v, o)
        BY <1>8, <3>1 DEF Headed
      <4>2. ASSUME NEW n \in Kids(mos, o)
            PROVE  <<Kid(mos, o, n), P(Kid(mos, o, n))>> \in v.todo
        BY <1>3, <1>5, <1>7, <1>10, <3>1
      <4>3. Entered(t, live, v, o, now)
        BY <4>2 DEF Entered, mos
      <4> QED
        BY <1>3, <1>11, <2>2, <4>1, <4>3
    <3>2. CASE ~Told(t, origin, w)
      <4>1. PathIn(history[t], live, o) \in v.errors
        BY <1>3, <1>10, <3>2 DEF mos
      <4> QED
        BY <1>3, <1>11, <2>2, <4>1 DEF Headed, Entered
    <3> QED
      BY <3>1, <3>2
  <2> QED
    BY <2>1, <2>2
<1>16. Root \in now \/ <<Root, <<>>>> \in v.todo
  <2>1. CASE <<Root, <<>>>> = x
    BY <1>3, <2>1
  <2>2. CASE <<Root, <<>>>> # x
    BY <1>10, <2>2 DEF CoverInv
  <2> QED
    BY <2>1, <2>2
<1>17. CoverInv(t, origin, live, v, now)
  BY <1>2, <1>13, <1>14, <1>15, <1>16, <1>9 DEF CoverInv, mos
<1> QED
  BY <1>3, <1>17 DEF v, o, x

\* Each call is over with one directory more, so as many calls as there are
\* directories are enough.
LEMMA WalkCovers ==
  ASSUME NEW t, NEW live, Sound(history[t], live, t)
  PROVE  \E done : CoverInv(t, OriginSnapshot(t), live, Walk(t), done) /\ Walk(t).todo = {}
<1> DEFINE origin == OriginSnapshot(t)
           C == Calls(t)
           D == Dirs(history[t])
           Far(n, done) == IsFiniteSet(done) /\ (C[n].todo = {} \/ Cardinality(done) = n)
           Good == {m \in Nat : \E done : CoverInv(t, origin, live, C[m], done) /\ Far(m, done)}
<1>1. IsFiniteSet(D) /\ Cardinality(D) \in Nat
  <2>1. IsFiniteSet(DOMAIN history[t]) /\ D \subseteq DOMAIN history[t]
    BY DEF Sound, Objects, Dirs
  <2> QED
    BY <2>1, FS_Subset, FS_CardinalityType
<1>2. C[0] = Begun /\ \A m \in Nat : C[m + 1] = Call(t, origin, C[m])
  BY WalkGoesOn DEF CallsFrom
<1> HIDE DEF origin, C
<1>3. 0 \in Good
  <2>1. Begun \in WalkStates(t, origin)
    BY BegunIsTyped
  <2>2. Root \in D /\ PathIn(history[t], live, Root) = <<>>
    BY DEF Sound, Tree
  <2>3. \A x \in Begun.todo : x = <<Root, <<>>>> /\ x[1] = Root /\ x[2] = <<>>
    BY DEF Begun
  <2>4. <<Root, <<>>>> \in Begun.todo /\ Begun.seen = {}
    BY DEF Begun
  <2>5. CoverInv(t, origin, live, Begun, {})
    BY <2>1, <2>2, <2>3, <2>4 DEF CoverInv, Reached, IsFound, Begun
  <2>6. Far(0, {})
    BY FS_EmptySet
  <2> QED
    BY <1>2, <2>5, <2>6
<1>4. ASSUME NEW m \in Good
      PROVE  m + 1 \in Good
  <2>1. PICK done : CoverInv(t, origin, live, C[m], done) /\ Far(m, done)
    OBVIOUS
  <2>2. C[m + 1] = Call(t, origin, C[m]) /\ m + 1 \in Nat
    BY <1>2
  <2>3. CASE C[m].todo = {}
    <3>1. C[m + 1] = C[m]
      BY <2>2, <2>3 DEF Call
    <3> QED
      BY <2>1, <2>2, <2>3, <3>1
  <2>4. CASE C[m].todo # {}
    <3> DEFINE o == NextDir(C[m])[1]
               now == done \cup {o}
    <3>1. C[m + 1] = WalkDir(t, origin, C[m])
      BY <2>2, <2>4 DEF Call
    <3>2. o \notin done /\ CoverInv(t, origin, live, C[m + 1], now)
      BY <2>1, <2>4, <3>1, CallCovers
    <3> HIDE DEF o
    <3>3. IsFiniteSet(now) /\ Cardinality(now) = Cardinality(done) + 1
      BY <2>1, <3>2, FS_AddElement
    <3>4. Far(m + 1, now)
      BY <2>1, <2>4, <3>3
    <3> QED
      BY <2>2, <3>2, <3>4
  <2> QED
    BY <2>3, <2>4
<1>5. Good \in SUBSET Nat
  OBVIOUS
<1> HIDE DEF Good
<1>6. Cardinality(D) \in Good
  BY <1>1, <1>3, <1>4, <1>5, SetInduction
<1>7. PICK done : CoverInv(t, origin, live, C[Cardinality(D)], done) /\ Far(Cardinality(D), done)
  BY <1>6 DEF Good
<1>8. Walk(t) = C[Cardinality(D)]
  BY DEF Walk, C
<1>9. Walk(t).todo = {}
  <2> SUFFICES ASSUME NEW x \in Walk(t).todo PROVE FALSE
    OBVIOUS
  <2>1. Cardinality(done) = Cardinality(D) /\ done \subseteq D /\ x[1] \in D \ done
    BY <1>7, <1>8 DEF CoverInv
  <2>2. done = D
    BY <1>1, <2>1, FS_Subset
  <2> QED
    BY <2>1, <2>2
<1> QED
  BY <1>7, <1>8, <1>9 DEF origin

\* By the length of the paths: an error above a directory is one above its
\* children.
LEMMA NothingIsPassedOver ==
  ASSUME NEW t, NEW live, Sound(history[t], live, t), NEW d \in Dirs(history[t])
  PROVE  \/ Missed(t, live, Walk(t), d)
         \/ /\ \E e \in Walk(t).sets : IsHeadOf(t, live, d, e)
            /\ FoundAt(t, OriginSnapshot(t), live, d) \subseteq Walk(t).sets
<1> DEFINE w == Walk(t)
           D == Dirs(history[t])
           P(x) == PathIn(history[t], live, x)
<1>1. PICK done : CoverInv(t, OriginSnapshot(t), live, w, done) /\ w.todo = {}
  BY WalkCovers
<1> DEFINE Good == {n \in Nat : \A x \in D : Len(P(x)) <= n => x \in done \/ Missed(t, live, w, x)}
<1> HIDE DEF w
<1>2. \A x \in D : P(x) \in Seq(AllowedNames) /\ Len(P(x)) \in Nat
  BY PathTypes
<1>3. Root \in done
  BY <1>1 DEF CoverInv
<1>4. ASSUME NEW x \in D, x # Root
      PROVE  \E p \in D : \E n \in Kids(history[t], p) :
               n \in AllowedNames /\ Kid(history[t], p, n) = x /\ P(x) = Append(P(p), n)
  BY <1>4 DEF Sound, Tree
<1>5. ASSUME NEW x \in D PROVE IsPrefix(P(x), P(x))
  BY <1>2 DEF IsPrefix
<1> HIDE DEF P, D
<1>6. 0 \in Good
  <2> SUFFICES ASSUME NEW x \in D, Len(P(x)) <= 0 PROVE x \in done
    OBVIOUS
  <2>1. CASE x # Root
    <3>1. PICK p \in D, n \in AllowedNames : P(x) = Append(P(p), n)
      BY <1>4, <2>1
    <3>2. Len(P(x)) = Len(P(p)) + 1
      BY <1>2, <3>1
    <3> QED
      BY <1>2, <3>2
  <2> QED
    BY <1>3, <2>1
<1>7. ASSUME NEW m \in Good
      PROVE  m + 1 \in Good
  <2> SUFFICES ASSUME NEW x \in D, Len(P(x)) <= m + 1 PROVE x \in done \/ Missed(t, live, w, x)
    OBVIOUS
  <2>1. CASE x # Root
    <3>1. PICK p \in D : \E n \in Kids(history[t], p) :
            n \in AllowedNames /\ Kid(history[t], p, n) = x /\ P(x) = Append(P(p), n)
      BY <1>4, <2>1
    <3>2. PICK n \in Kids(history[t], p) : n \in AllowedNames /\ Kid(history[t], p, n) = x /\ P(x) = Append(P(p), n)
      BY <3>1
    <3>3. Len(P(p)) <= m
      <4>1. Len(P(x)) = Len(P(p)) + 1
        BY <1>2, <3>2
      <4> QED
        BY <1>2, <4>1
    <3>4. p \in done \/ Missed(t, live, w, p)
      BY <3>3
    <3>5. \A q \in D : IsPrefix(P(q), P(p)) => IsPrefix(P(q), P(x))
      BY <1>2, <3>2, PrefixOfAppend
    <3>6. Missed(t, live, w, p) => Missed(t, live, w, x)
      BY <3>5 DEF Missed, D, P
    <3>7. CASE p \in done
      <4>1. P(p) \in w.errors \/ x \in done
        BY <1>1, <3>2, <3>7 DEF CoverInv, Entered, P
      <4>2. P(p) \in w.errors => Missed(t, live, w, p)
        BY <1>5 DEF Missed, D, P
      <4> QED
        BY <3>6, <4>1, <4>2
    <3> QED
      BY <3>4, <3>6, <3>7
  <2> QED
    BY <1>3, <2>1
<1>8. Good \in SUBSET Nat
  OBVIOUS
<1> HIDE DEF Good
<1>9. Len(P(d)) \in Good
  BY <1>2, <1>6, <1>7, <1>8, SetInduction DEF D
<1>10. d \in D /\ Len(P(d)) <= Len(P(d))
  BY <1>2 DEF D
<1>11. d \in done \/ Missed(t, live, w, d)
  BY <1>9, <1>10 DEF Good
<1>12. d \in done => \/ Missed(t, live, w, d)
                    \/ /\ \E e \in w.sets : IsHeadOf(t, live, d, e)
                       /\ FoundAt(t, OriginSnapshot(t), live, d) \subseteq w.sets
  BY <1>1, <1>5, <1>10 DEF CoverInv, IsFound, Headed, Missed, P, D
<1> QED
  BY <1>11, <1>12 DEF w

\* With or without -r, every filesystem and volume of the tree is listed.
LEMMA WalkTells ==
  ASSUME PoolInv, NEW t \in 1 .. Len(history), NEW recursive, NEW out,
         out.sets = Keep(Walk(t).sets, recursive), out.errors = Walk(t).errors
  PROVE  Tells(out, truth[t])
<1> DEFINE live == truth[t]
<1>1. Sound(history[t], live, t)
  BY DEF PoolInv, PastIsSound
<1> HIDE DEF live
<1>2. ASSUME NEW g \in DOMAIN live, live[g].snap = NoSnap
      PROVE  IsTold(out, g, live[g])
  <2>1. PICK d \in Dirs(history[t]) : HeadOf(history[t], d).guid = g
    BY <1>1, <1>2 DEF Sound, Users
  <2>2. PathIn(history[t], live, d) = live[g].path
    BY <2>1 DEF PathIn
  <2>3. CASE Missed(t, live, Walk(t), d)
    BY <2>2, <2>3 DEF Missed, IsTold
  <2>4. CASE \E e \in Walk(t).sets : IsHeadOf(t, live, d, e)
    <3>1. PICK e \in Walk(t).sets : IsHeadOf(t, live, d, e)
      BY <2>4
    <3>2. e \in Keep(Walk(t).sets, recursive)
      BY <3>1 DEF Keep, IsHeadOf
    <3> QED
      BY <2>1, <2>2, <3>1, <3>2 DEF IsHeadOf, IsTold
  <2> QED
    BY <1>1, <2>3, <2>4, NothingIsPassedOver
<1> QED
  BY <1>2 DEF Tells, IsTold, live

\* `list` walks the newest TXG of those asked for that reads.
LEMMA ListTells ==
  ASSUME PoolInv, NEW pick, NEW diff, NEW recursive, List(pick, diff, recursive)
  PROVE  ListInv'
<1> DEFINE walked == {t \in pick : Walks(t)}
           txg == IF walked = {} THEN Max(pick) ELSE Max(walked)
           out == [txg |-> txg, unreadable |-> IF walked = {} THEN pick ELSE {t \in pick : t > txg}, sets |-> {}, errors |-> {},
                   code |-> IF walked # {} /\ diff \in {NoDiff} \cup {t \in Candidates : Walks(t)} THEN Ok ELSE UNRECOVERABLE,
                   diff |-> NoDiff, created |-> {}, destroyed |-> {}]
           shown == {Keep(w.sets, recursive) : w \in {Walk(diff)}}
           here(tree) == [out EXCEPT !.sets = Keep(tree.sets, recursive), !.errors = tree.errors]
<1>1. /\ pick \subseteq Candidates
      /\ IF walked = {} THEN listed' = out
         ELSE \E tree \in {Walk(txg)} :
                IF diff = NoDiff \/ out.code # Ok THEN listed' = here(tree)
                ELSE \E there \in shown :
                       listed' = [here(tree) EXCEPT !.diff = diff, !.created = Lacking(here(tree).sets, there),
                                                    !.destroyed = Lacking(there, here(tree).sets)]
      /\ UNCHANGED <<history, truth, gone, at, previous, events, pended>>
  BY Zenon DEF List
<1>2. CASE walked = {}
  <2>1. listed'.code = UNRECOVERABLE
    BY <1>1, <1>2
  <2> QED
    BY <2>1 DEF ListInv, Ok, UNRECOVERABLE
<1>3. CASE walked # {}
  <2>1. walked \in SUBSET (1 .. Len(history)) /\ Len(history) \in Nat
    BY <1>1, Zenon DEF Candidates, PoolInv, PastIsSound
  <2>2. PICK x \in walked : \A y \in walked : y <= x
    <3>1. walked \in SUBSET Nat /\ \A y \in walked : y <= Len(history)
      BY <2>1
    <3> HIDE DEF walked
    <3> QED
      BY <1>3, <2>1, <3>1, HasGreatest
  <2> HIDE DEF walked
  <2>3. x \in walked /\ \A y \in walked : x >= y
    BY <2>1, <2>2
  <2>4. Max(walked) \in walked
    BY <2>3 DEF Max
  <2>5. txg \in 1 .. Len(history)
    BY <1>3, <2>1, <2>4
  <2> HIDE DEF txg
  <2>6. out.txg = txg
    OBVIOUS
  <2> DEFINE tree == Walk(txg)
             h == here(tree)
  <2>7. h.txg = txg /\ h.sets = Keep(tree.sets, recursive) /\ h.errors = tree.errors
        /\ {"txg", "sets", "errors"} \subseteq DOMAIN h
    BY <2>6
  <2>8. listed'.txg = txg /\ listed'.sets = Keep(tree.sets, recursive) /\ listed'.errors = tree.errors
    <3>1. \/ listed' = h
          \/ \E there \in shown :
               listed' = [h EXCEPT !.diff = diff, !.created = Lacking(h.sets, there), !.destroyed = Lacking(there, h.sets)]
      <4> HIDE DEF out, shown
      <4> QED
        BY <1>1, <1>3, Zenon
    <3> HIDE DEF h, shown
    <3> QED
      BY <2>7, <3>1, Zenon
  <2> HIDE DEF h
  <2>9. Tells(listed', truth[txg])
    <3> HIDE DEF out
    <3> QED
      BY <2>5, <2>8, WalkTells
  <2> QED
    BY <1>1, <2>5, <2>8, <2>9, Zenon DEF ListInv
<1> QED
  BY <1>2, <1>3

\* What `list` printed stays true of the TXG that it printed.
LEMMA NextKeepsList ==
  ASSUME MissingInv, [Next]_vars
  PROVE  MissingInv'
<1>1. PoolInv'
  BY NextKeepsPool DEF MissingInv
<1>2. CASE ListNewest \/ ListExact
  BY <1>1, <1>2, ListTells DEF ListNewest, ListExact, MissingInv
<1>3. CASE UNCHANGED <<history, truth, listed>>
  BY <1>1, <1>3 DEF MissingInv, ListInv
<1>4. CASE \E mos, live : Sync(mos, live)
  <2>1. PICK mos, live : history' = Append(history, mos) /\ truth' = Append(truth, live) /\ UNCHANGED listed
    BY <1>4 DEF Sync
  <2>2. PICK S : history \in Seq(S) /\ truth \in Seq(S)
    BY DEF MissingInv, PoolInv
  <2>3. Len(history) \in Nat /\ Len(truth) = Len(history)
    BY DEF MissingInv, PoolInv, PastIsSound
  <2>4. Len(history') = Len(history) + 1 /\ \A i \in 1 .. Len(history) : truth'[i] = truth[i]
    BY <2>1, <2>2, <2>3, AppendGrows
  <2>5. \A i \in 1 .. Len(history) : i \in 1 .. Len(history')
    BY <2>3, <2>4
  <2>6. ListInv'
    BY <2>1, <2>4, <2>5 DEF MissingInv, ListInv
  <2> QED
    BY <1>1, <2>6 DEF MissingInv
<1>5. CASE Lose \/ ReadTxg \/ UNCHANGED vars
  <2>1. UNCHANGED <<history, truth, listed>>
    BY <1>5, Zenon DEF Lose, ReadTxg, vars
  <2> QED
    BY <1>3, <2>1
<1>6. Admin \/ Free => \E mos, live : Sync(mos, live)
  BY LastIsSound, AdminKeeps, FreeKeeps DEF NextIsSound, MissingInv
<1> QED
  BY <1>2, <1>4, <1>5, <1>6 DEF Next

\* MissingIsTold, for every pool and whatever of it is lost: a filesystem or
\* volume that `list` does not show has an error in its place or above it.
THEOREM MissingIsAnError == Spec => []MissingIsTold
<1>1. Init => MissingInv
  <2> SUFFICES ASSUME Init PROVE ListInv
    BY InitIsSound DEF MissingInv
  <2>1. listed.txg = 0
    BY DEF Init
  <2> QED
    BY <2>1 DEF ListInv
<1>2. MissingInv /\ [Next]_vars => MissingInv'
  BY NextKeepsList
<1>3. MissingInv => MissingIsTold
  BY DEF MissingInv, ListInv, Tells, IsTold, MissingIsTold
<1> QED
  BY <1>1, <1>2, <1>3, PTL DEF Spec

-----------------------------------------------------------------------------
(* The timeline is the user's script                                       *)

\* Of a TXG that reads whole every directory and every dataset reads.
LEMMA WholeReads ==
  ASSUME NEW t, Whole(t), NEW o \in DOMAIN history[t]
  PROVE  LET r == history[t][o]
         IN  /\ r.is = "dir" => /\ Get(t, o) = {r} /\ ReadZap(t, o, "children", r.kids) = {r.kids} /\ Reads(t, o, "dnode")
                                /\ Reads(t, o, "children") /\ Reads(t, o, "props") /\ (r.root # NoObject => Reads(t, o, "key"))
             /\ r.is = "set" => /\ Get(t, o) = {r} /\ ReadZap(t, o, "snapnames", r.snaps) = {r.snaps} /\ Reads(t, o, "objset")
                                /\ r.shape.kind = "zvol" => Reads(t, o, "volume") /\ Reads(t, o, "size")
BY DEF Whole, PartsOf, Get, ReadZap

\* The snapshot that datasets which are no clones descend from is found.
LEMMA OriginIsFound ==
  ASSUME NEW t, NEW live, Whole(t), Sound(history[t], live, t), Exact(history[t], live)
  PROVE  OriginSnapshot(t) = OriginSnap
<1> DEFINE mos == history[t]
           h == mos[OriginDir].head
           roots == Get(t, Root)
           kids == UNION {ReadZap(t, Root, "children", r.kids) : r \in roots}
           dirs == UNION {Get(t, k["$ORIGIN"]) : k \in kids}
           heads == UNION {Get(t, d.head) : d \in dirs}
<1>1. /\ Root \in DOMAIN mos /\ mos[Root].is = "dir" /\ OriginDir \in DOMAIN mos /\ mos[OriginDir].is = "dir"
      /\ mos[Root].kids["$ORIGIN"] = OriginDir /\ h \in DOMAIN mos /\ mos[h].is = "set" /\ mos[h].prev = OriginSnap
  BY DEF Sound, Objects, Kept, Tree, Dirs, Exact, OriginKnown, HeadOf
<1>2. roots = {mos[Root]} /\ ReadZap(t, Root, "children", mos[Root].kids) = {mos[Root].kids}
  BY <1>1, WholeReads
<1>3. Get(t, OriginDir) = {mos[OriginDir]} /\ Get(t, h) = {mos[h]}
  BY <1>1, WholeReads
<1>4. OriginSnapshot(t) = PickOf(Origin(heads))
  BY Zenon DEF OriginSnapshot, PickOf, Origin
<1> HIDE DEF roots
<1>5. kids = {mos[Root].kids}
  BY <1>2
<1> HIDE DEF kids
<1>6. dirs = {mos[OriginDir]}
  BY <1>1, <1>3, <1>5
<1> HIDE DEF dirs
<1>7. heads = {mos[h]}
  BY <1>3, <1>6
<1> HIDE DEF heads, h
<1>8. Origin(heads) = {OriginSnap}
  BY <1>1, <1>7 DEF Origin
<1> QED
  BY <1>4, <1>8 DEF PickOf

\* A dataset is described as the user sees it.
IsDescription(e, mos, x, name) ==
  LET r == mos[x]
      d == mos[r.dir]
  IN  /\ e.name = name /\ e.guid = r.guid /\ e.object = x /\ e.snaps = r.snaps /\ e.snapshot = (r.next # NoObject)
      /\ e.clone = (d.origin # OriginSnap) /\ e.size = r.shape.size /\ e.block = (IF r.shape.kind = "zvol" THEN 1 ELSE 0)
      /\ e.locked = (d.root # NoObject)

Retold(f, e) ==
  f.name = e.name /\ f.guid = e.guid /\ f.size = e.size /\ f.block = e.block /\ f.locked = e.locked /\ f.snapshot = TRUE

\* Its size, its first block, its origin and its key.
LEMMA WholeDescribes ==
  ASSUME NEW t, NEW live, Whole(t), Sound(history[t], live, t), Exact(history[t], live), NEW x, IsIn(history[t], x), NEW name
  PROVE  \E e : /\ Describe(t, x, name, history[t][history[t][x].dir], OriginSnap) = {e}
                /\ IsDescription(e, history[t], x, name) /\ Retold([e EXCEPT !.snapshot = TRUE], e)
<1> DEFINE mos == history[t]
           r == mos[x]
           d == mos[x].dir
           dir == mos[d]
           kind == IF Reads(t, x, "objset") THEN r.shape.kind ELSE "unreadable"
           size == IF kind = "zvol" /\ Reads(t, x, "size") THEN r.shape.size ELSE 0
           block == IF kind = "zvol" /\ Reads(t, x, "volume") THEN 1 ELSE 0
           clone == dir.origin \notin {NoObject, OriginSnap}
           locked == ReadEncryption(t, d)
           snapshot == r.next # NoObject
           e == [name |-> name, object |-> x, guid |-> r.guid, kind |-> kind, snapshot |-> snapshot, txg |-> r.txg,
                 clone |-> clone, dead |-> r.dead, snaps |-> r.snaps, size |-> size, block |-> block, locked |-> locked]
<1>1. x \in DOMAIN mos /\ r.is = "set" /\ d \in Dirs(mos) /\ d \in DOMAIN mos /\ dir.is = "dir"
  BY DEF IsIn, Dirs
<1>2. IsShape(r.shape) /\ Roots(mos)
  BY DEF Exact, Portrayed
<1>3. /\ Get(t, x) = {r} /\ Reads(t, x, "objset") /\ (r.shape.kind = "zvol" => Reads(t, x, "volume") /\ Reads(t, x, "size"))
      /\ Get(t, d) = {dir} /\ (dir.root # NoObject => Reads(t, d, "key"))
  BY <1>1, WholeReads
<1>4. Describe(t, x, name, dir, OriginSnap) = {e}
  BY <1>3 DEF Describe
<1>5. size = r.shape.size /\ block = (IF r.shape.kind = "zvol" THEN 1 ELSE 0)
  BY <1>2, <1>3 DEF IsShape
<1>6. clone = (dir.origin # OriginSnap)
  BY <1>1, <1>2 DEF Roots
<1>7. locked = (dir.root # NoObject)
  <2>1. dir.root # NoObject => Get(t, dir.root) # {} /\ Reads(t, dir.root, "props")
    <3> DEFINE root == dir.root
    <3> SUFFICES ASSUME root # NoObject PROVE Get(t, root) # {} /\ Reads(t, root, "props")
      OBVIOUS
    <3>1. root \in DOMAIN mos /\ mos[root].is = "dir"
      BY <1>1, <1>2 DEF Roots, Dirs
    <3> HIDE DEF root
    <3>2. Get(t, root) = {mos[root]} /\ Reads(t, root, "props")
      BY <3>1, WholeReads
    <3> QED
      BY <3>2
  <2>2. locked \in BOOLEAN
    BY DEF ReadEncryption
  <2>3. locked <=> (dir.root # NoObject)
    <3> HIDE DEF dir
    <3> QED
      BY <1>3, <2>1 DEF ReadEncryption
  <2> HIDE DEF locked
  <2> QED
    BY <2>2, <2>3
<1> HIDE DEF size, block, clone, locked, kind, snapshot
<1>8. /\ e.name = name /\ e.guid = r.guid /\ e.object = x /\ e.snaps = r.snaps /\ e.snapshot = snapshot
      /\ e.clone = clone /\ e.size = size /\ e.block = block /\ e.locked = locked
  OBVIOUS
<1>9. Retold([e EXCEPT !.snapshot = TRUE], e)
  BY DEF Retold
<1> HIDE DEF e
<1>10. IsDescription(e, mos, x, name)
  BY <1>5, <1>6, <1>7, <1>8, Zenon DEF IsDescription, snapshot
<1> QED
  BY <1>4, <1>10, <1>9

\* A head and its snapshots.
LEMMA WholeIsFound ==
  ASSUME NEW t, NEW live, Whole(t), Sound(history[t], live, t), Exact(history[t], live), NEW d \in Dirs(history[t])
  PROVE  /\ HeadAt(t, d, PathIn(history[t], live, d), OriginSnap) # {}
         /\ \A e \in FoundAt(t, OriginSnap, live, d) : e.guid \in DOMAIN live /\ IsAs(e, live[e.guid])
         /\ \A x : IsIn(history[t], x) /\ history[t][x].dir = d => \E e \in FoundAt(t, OriginSnap, live, d) : e.guid = history[t][x].guid
<1> DEFINE mos == history[t]
           path == PathIn(mos, live, d)
           h == mos[d].head
           found == FoundAt(t, OriginSnap, live, d)
<1>1. IsIn(mos, h) /\ mos[h].dir = d /\ mos[h].next = NoObject /\ live[mos[h].guid].snap = NoSnap /\ h \in DOMAIN mos /\ mos[h].is = "set"
  BY DEF Sound, HeadsKnown, IsSetOf, IsIn, HeadOf
<1>2. PICK e0 : HeadAt(t, d, path, OriginSnap) = {e0} /\ IsDescription(e0, mos, h, Named(path, NoSnap))
  BY <1>1, WholeDescribes DEF HeadAt
<1>3. e0.name.path = path /\ e0.object = h /\ e0.snaps = mos[h].snaps /\ e0.guid = mos[h].guid
  BY <1>2 DEF IsDescription, Named
<1>4. IsAs(e0, live[mos[h].guid])
  <2>1. Portrayed(mos, live, h)
    BY <1>1 DEF Exact
  <2> QED
    BY <1>1, <1>2, <2>1, Zenon DEF IsAs, IsDescription, Portrayed, PathIn, HeadOf
<1> DEFINE Of(s) == {[e EXCEPT !.snapshot = TRUE] : e \in Describe(t, mos[h].snaps[s], Named(path, {s}), mos[d], OriginSnap)}
<1>5. Snapshots(t, e0, mos[d], OriginSnap) = UNION {Of(s) : s \in SnapsOf(mos, d)}
  <2>1. ReadZap(t, e0.object, "snapnames", e0.snaps) = {mos[h].snaps}
    BY <1>1, <1>3, WholeReads
  <2> DEFINE All(k) == UNION {{[e EXCEPT !.snapshot = TRUE] :
                              e \in Describe(t, k[s], Named(e0.name.path, {s}), mos[d], OriginSnap)} : s \in DOMAIN k}
  <2>2. Snapshots(t, e0, mos[d], OriginSnap) = UNION {All(k) : k \in ReadZap(t, e0.object, "snapnames", e0.snaps)}
    BY Zenon DEF Snapshots
  <2>3. All(mos[h].snaps) = UNION {Of(s) : s \in SnapsOf(mos, d)}
    BY <1>3 DEF SnapsOf, HeadOf
  <2> HIDE DEF All, Of
  <2> QED
    BY <2>1, <2>2, <2>3
<1>6. found = {e0} \cup UNION {Of(s) : s \in SnapsOf(mos, d)}
  BY <1>2, <1>5 DEF FoundAt, WithSnapshots
<1>7. ASSUME NEW s \in SnapsOf(mos, d)
      PROVE  \E e : Of(s) = {e} /\ e.guid = mos[Snap(mos, d, s)].guid /\ IsAs(e, live[e.guid]) /\ e.guid \in DOMAIN live
  <2> DEFINE x == Snap(mos, d, s)
  <2>1. /\ IsIn(mos, x) /\ mos[x].dir = d /\ mos[x].guid \in DOMAIN live /\ live[mos[x].guid].snap = {s}
        /\ live[mos[x].guid].path = path
    BY DEF Sound, SnapsKnown, IsSetOf, IsIn
  <2>2. x = mos[h].snaps[s]
    BY DEF Snap, HeadOf
  <2> HIDE DEF x
  <2>3. PICK e : Describe(t, x, Named(path, {s}), mos[d], OriginSnap) = {e} /\ IsDescription(e, mos, x, Named(path, {s}))
                  /\ Retold([e EXCEPT !.snapshot = TRUE], e)
    BY <2>1, WholeDescribes
  <2> DEFINE f == [e EXCEPT !.snapshot = TRUE]
  <2>4. Of(s) = {f}
    BY <2>2, <2>3
  <2>5. Retold(f, e)
    BY <2>3
  <2>6. Portrayed(mos, live, x)
    BY <2>1 DEF Exact
  <2>7. f.snapshot = (live[mos[x].guid].snap # NoSnap) /\ live[mos[x].guid].snap # NoSnap
    BY <2>1, <2>5 DEF NoSnap, Retold
  <2> HIDE DEF f
  <2>8. f.guid = mos[x].guid
    BY <2>3, <2>5 DEF IsDescription, Retold
  <2>9. IsAs(f, live[mos[x].guid])
    BY <2>1, <2>3, <2>5, <2>6, <2>7, Zenon DEF IsAs, IsDescription, Portrayed, Retold
  <2> QED
    BY <2>1, <2>4, <2>8, <2>9 DEF x
<1> HIDE DEF found, Of
<1>8. \A e \in found : e.guid \in DOMAIN live /\ IsAs(e, live[e.guid])
  <2>1. mos[h].guid \in DOMAIN live
    BY <1>1 DEF Exact, Portrayed
  <2> QED
    BY <1>3, <1>4, <1>6, <1>7, <2>1
<1>9. ASSUME NEW x, IsIn(mos, x), mos[x].dir = d
      PROVE  \E e \in found : e.guid = mos[x].guid
  <2>1. x = h \/ \E s \in SnapsOf(mos, d) : x = Snap(mos, d, s)
    BY <1>9 DEF Exact, SetsKnown
  <2> QED
    BY <1>3, <1>6, <1>7, <2>1
<1> QED
  BY <1>2, <1>8, <1>9 DEF found

\* What a walk of a TXG that reads whole gives is all that the user sees.
LEMMA WholeWalk ==
  ASSUME NEW t, Whole(t), Sound(history[t], truth[t], t), Exact(history[t], truth[t])
  PROVE  IsWholeTree(Walk(t).sets, truth[t])
<1> DEFINE mos == history[t]
           live == truth[t]
<1>1. PICK done : CoverInv(t, OriginSnap, live, Walk(t), done)
  BY WalkCovers, OriginIsFound
<1>2. ASSUME NEW d \in Dirs(mos) PROVE Readable(t, OriginSnap, live, d)
  <2>1. d \in DOMAIN mos /\ mos[d].is = "dir" /\ HeadOf(mos, d).guid \in DOMAIN live
    BY DEF Dirs, Sound, HeadsKnown
  <2>2. Len(PathIn(mos, live, d)) <= MaxDepth
    BY <2>1 DEF Whole, PathIn
  <2> QED
    BY <2>1, <2>2, WholeReads, WholeIsFound DEF Readable
<1>3. Walk(t).errors = {} /\ \A e \in Walk(t).sets : \E d \in Dirs(mos) : e \in FoundAt(t, OriginSnap, live, d)
  BY <1>1, <1>2 DEF CoverInv, IsFound
<1>4. ASSUME NEW g \in DOMAIN live PROVE \E e \in Walk(t).sets : e.guid = g
  <2>1. PICK x : IsIn(mos, x) /\ mos[x].guid = g
    BY DEF Exact
  <2>2. mos[x].dir \in Dirs(mos) /\ \E e \in FoundAt(t, OriginSnap, live, mos[x].dir) : e.guid = g
    BY <2>1, WholeIsFound DEF IsIn
  <2>3. FoundAt(t, OriginSnap, live, mos[x].dir) \subseteq Walk(t).sets
    BY <1>3, <2>2, NothingIsPassedOver, OriginIsFound DEF Missed
  <2> QED
    BY <2>2, <2>3
<1> QED
  BY <1>3, <1>4, WholeIsFound DEF IsWholeTree

\* By its guid a dataset is found again.
LEMMA GuidsFindThem ==
  ASSUME NEW sets, NEW live, IsWholeTree(sets, live)
  PROVE  /\ DOMAIN ByGuid(sets) = DOMAIN live
         /\ \A g \in DOMAIN live : ByGuid(sets)[g].guid = g /\ IsAs(ByGuid(sets)[g], live[g])
<1>1. {d.guid : d \in sets} = DOMAIN live
  BY DEF IsWholeTree
<1>2. ASSUME NEW g \in DOMAIN live PROVE ByGuid(sets)[g].guid = g /\ IsAs(ByGuid(sets)[g], live[g])
  <2>1. ByGuid(sets)[g] = CHOOSE d \in sets : d.guid = g
    BY <1>1 DEF ByGuid
  <2>2. \E d \in sets : d.guid = g
    BY DEF IsWholeTree
  <2> DEFINE e == CHOOSE d \in sets : d.guid = g
  <2>3. e \in sets /\ e.guid = g
    BY <2>2
  <2> HIDE DEF e
  <2>4. IsAs(e, live[g])
    BY <2>3 DEF IsWholeTree
  <2> QED
    BY <2>1, <2>3, <2>4 DEF e
<1> QED
  BY <1>1, <1>2 DEF ByGuid

\* The events between two such walks are the script (events.rs diff).
LEMMA DiffIsScript ==
  ASSUME NEW before, NEW after, NEW t, NEW p, IsWholeTree(before, truth[p]), IsWholeTree(after, truth[t]),
         \A g \in DOMAIN truth[p] \cap DOMAIN truth[t] :
           truth[p][g].kind = truth[t][g].kind /\ truth[p][g].locked = truth[t][g].locked
  PROVE  Diff(before, after, t, p) = Script(p, t)
<1> DEFINE old == ByGuid(before)
           new == ByGuid(after)
           was == truth[p]
           now == truth[t]
           both == DOMAIN was \cap DOMAIN now
           name(d) == Named(d.path, d.snap)
           kind(d) == IF d.snap # NoSnap THEN "snapshot" ELSE IF d.clone THEN "clone" ELSE "created"
           event(k, g, d, last) == [txg |-> t, kind |-> k, name |-> name(d), guid |-> g, last |-> last]
           lost(g) == IF old[g].snapshot THEN "snapshot-destroyed" ELSE "destroyed"
           lostFor(g) == IF was[g].snap # NoSnap THEN "snapshot-destroyed" ELSE "destroyed"
<1>1. DOMAIN old = DOMAIN was /\ \A g \in DOMAIN was : old[g].guid = g /\ IsAs(old[g], was[g])
  BY GuidsFindThem
<1>2. DOMAIN new = DOMAIN now /\ \A g \in DOMAIN now : new[g].guid = g /\ IsAs(new[g], now[g])
  BY GuidsFindThem
<1> HIDE DEF old, new
<1>3. \A k, l : \A g \in DOMAIN now : Event(t, k, new[g], l) = event(k, g, now[g], l)
  BY <1>2 DEF Event, IsAs
<1>4. \A k, l : \A g \in DOMAIN was : Event(t, k, old[g], l) = event(k, g, was[g], l)
  BY <1>1 DEF Event, IsAs
<1>5. \A g \in DOMAIN now : AppearedAs(new[g]) = kind(now[g])
  BY <1>2 DEF AppearedAs, IsAs
<1>6. \A g \in DOMAIN was : lost(g) = lostFor(g)
  BY <1>1 DEF IsAs
<1>7. \A g \in both : (old[g].name # new[g].name) <=> (name(was[g]) # name(now[g]))
  BY <1>1, <1>2 DEF IsAs
<1>8. \A g \in both : (Facts(old[g]) # Facts(new[g])) <=> (was[g].size # now[g].size)
  BY <1>1, <1>2 DEF IsAs, Facts
<1>9. Diff(before, after, t, p) =
        {Event(t, AppearedAs(new[g]), new[g], 0) : g \in DOMAIN now \ DOMAIN was} \cup
        {Event(t, "renamed", new[g], 0) : g \in {g \in both : old[g].name # new[g].name}} \cup
        {Event(t, "property", new[g], 0) : g \in {g \in both : Facts(old[g]) # Facts(new[g])}} \cup
        {Event(t, lost(g), old[g], p) : g \in DOMAIN was \ DOMAIN now}
  BY <1>1, <1>2, Zenon DEF Diff, old, new
<1>10. Script(p, t) =
        {event(kind(now[g]), g, now[g], 0) : g \in DOMAIN now \ DOMAIN was} \cup
        {event("renamed", g, now[g], 0) : g \in {g \in both : name(was[g]) # name(now[g])}} \cup
        {event("property", g, now[g], 0) : g \in {g \in both : was[g].size # now[g].size}} \cup
        {event(lostFor(g), g, was[g], p) : g \in DOMAIN was \ DOMAIN now}
  BY Zenon DEF Script
<1> HIDE DEF was, now, event, kind, lost, lostFor, name
<1>11. {Event(t, AppearedAs(new[g]), new[g], 0) : g \in DOMAIN now \ DOMAIN was} =
         {event(kind(now[g]), g, now[g], 0) : g \in DOMAIN now \ DOMAIN was}
  BY <1>3, <1>5
<1>12. {Event(t, "renamed", new[g], 0) : g \in {g \in both : old[g].name # new[g].name}} =
         {event("renamed", g, now[g], 0) : g \in {g \in both : name(was[g]) # name(now[g])}}
  BY <1>3, <1>7
<1>13. {Event(t, "property", new[g], 0) : g \in {g \in both : Facts(old[g]) # Facts(new[g])}} =
         {event("property", g, now[g], 0) : g \in {g \in both : was[g].size # now[g].size}}
  BY <1>3, <1>8
<1>14. {Event(t, lost(g), old[g], p) : g \in DOMAIN was \ DOMAIN now} =
         {event(lostFor(g), g, was[g], p) : g \in DOMAIN was \ DOMAIN now}
  BY <1>4, <1>6
<1> QED
  BY <1>9, <1>10, <1>11, <1>12, <1>13, <1>14, Zenon

-----------------------------------------------------------------------------
(* Every TXG is what its user saw                                          *)

\* A command leaves the past as it was and adds a TXG that follows.
LEMMA SyncIsExact ==
  ASSUME ExactInv, NEW mos, NEW live, Sync(mos, live), Follows(mos, live)
  PROVE  PastIsExact' /\ KindsStay'
<1> DEFINE n == Len(history)
<1>1. PICK S : history \in Seq(S) /\ truth \in Seq(S)
  BY DEF ExactInv, PoolInv
<1>2. history' = Append(history, mos) /\ truth' = Append(truth, live) /\ n \in Nat \ {0} /\ Len(truth) = n
  BY DEF Sync, ExactInv, PoolInv, PastIsSound
<1>3. Len(history') = n + 1 /\ history'[n + 1] = mos /\ \A i \in 1 .. n : history'[i] = history[i]
  BY <1>1, <1>2, AppendGrows
<1>4. truth'[n + 1] = live /\ \A i \in 1 .. n : truth'[i] = truth[i]
  BY <1>1, <1>2, AppendGrows
<1>5. Mos = history[n] /\ Live = truth[n] /\ n \in 1 .. n
  BY <1>2 DEF Mos, Live, Last
<1>6. Exact(mos, live) /\ UsersStay(truth[n], live, n)
  BY <1>5 DEF Follows, ExactInv, PastIsExact
<1>7. ASSUME NEW t \in 1 .. n + 1 PROVE t \in 1 .. n \/ t = n + 1
  BY <1>2
<1>8. PastIsExact'
  BY <1>3, <1>4, <1>6, <1>7 DEF ExactInv, PastIsExact
<1>9. ASSUME NEW t \in 1 .. n PROVE SameKind(truth[t], live) /\ SameKind(live, truth[t])
  <2>1. SameKind(truth[t], truth[n])
    BY <1>5 DEF ExactInv, KindsStay
  <2>2. \A g \in DOMAIN truth[t] : g \in Nat /\ g <= 105 + t
    BY DEF ExactInv, PoolInv, PastIsSound, Sound, Users
  <2>3. \A g \in DOMAIN truth[t] : g # 105 + (n + 1)
    BY <1>2, <2>2
  <2>4. ASSUME NEW g \in DOMAIN truth[t] \cap DOMAIN live
        PROVE  truth[t][g].kind = live[g].kind /\ truth[t][g].locked = live[g].locked
    <3>1. g \in DOMAIN truth[n] /\ live[g].kind = truth[n][g].kind /\ live[g].locked = truth[n][g].locked
      BY <1>6, <2>3, <2>4 DEF UsersStay
    <3> QED
      BY <2>1, <3>1 DEF SameKind
  <2> QED
    BY <2>4 DEF SameKind
<1>10. SameKind(live, live)
  BY DEF SameKind
<1>11. KindsStay'
  BY <1>3, <1>4, <1>7, <1>9, <1>10 DEF ExactInv, KindsStay
<1> QED
  BY <1>8, <1>11

\* It holds of the pool as it is found at first, and every step keeps it.
LEMMA InitIsExact ==
  ASSUME Init
  PROVE  ExactInv
<1>1. PICK snapped \in BOOLEAN, cloned \in BOOLEAN :
        (cloned => snapped) /\ history = <<UsedPool(snapped, cloned)>> /\ truth = <<SeenFirst(snapped, cloned)>>
  BY DEF Init
<1>2. Exact(UsedPool(snapped, cloned), SeenFirst(snapped, cloned))
  BY <1>1, FirstIsExact
<1> DEFINE mos == UsedPool(snapped, cloned)
           live == SeenFirst(snapped, cloned)
<1>3. history = <<mos>> /\ truth = <<live>>
  BY <1>1
<1> HIDE DEF mos, live
<1>4. history[1] = mos /\ truth[1] = live /\ \A t \in 1 .. Len(history) : t = 1
  BY <1>3
<1> QED
  BY <1>2, <1>4, InitIsSound DEF ExactInv, PastIsExact, KindsStay, SameKind, mos, live

\* So does every step.
LEMMA NextKeepsExact ==
  ASSUME ExactInv, [Next]_vars
  PROVE  ExactInv'
<1>1. PoolInv'
  BY NextKeepsPool DEF ExactInv
<1>2. CASE UNCHANGED <<history, truth>>
  BY <1>1, <1>2 DEF ExactInv, PastIsExact, KindsStay
<1>3. CASE Admin \/ Free
  BY <1>1, <1>3, LastIsSound, AdminKeeps, FreeKeeps, SyncIsExact DEF NextIsSound, ExactInv
<1>4. CASE Lose \/ ReadTxg \/ ListNewest \/ ListExact \/ UNCHANGED vars
  <2>1. UNCHANGED <<history, truth>>
    BY <1>4, Zenon DEF Lose, ReadTxg, ListNewest, ListExact, List, vars
  <2> QED
    BY <1>2, <2>1
<1> QED
  BY <1>3, <1>4 DEF Next

\* Whatever the commands were, in every TXG each dataset its user saw is an
\* object of the pool, of that kind, size and key, and there is no other.
THEOREM HistoryIsExact == Spec => []PastIsExact
<1>1. Init => ExactInv
  BY InitIsExact
<1>2. ExactInv /\ [Next]_vars => ExactInv'
  BY NextKeepsExact
<1>3. ExactInv => PastIsExact
  BY DEF ExactInv
<1> QED
  BY <1>1, <1>2, <1>3, PTL DEF Spec

-----------------------------------------------------------------------------
(* The timeline tells the script                                           *)

\* A dataset's TXG is a number.
LEMMA TxgsAreNumbers ==
  ASSUME NEW t, NEW live, Sound(history[t], live, t), NEW e \in Walk(t).sets
  PROVE  e.txg \in Nat
<1> DEFINE mos == history[t]
           origin == OriginSnapshot(t)
<1>1. PICK done : CoverInv(t, origin, live, Walk(t), done)
  BY WalkCovers
<1> HIDE DEF origin
<1>2. PICK d \in Dirs(mos) : e \in FoundAt(t, origin, live, d)
  BY <1>1 DEF CoverInv, IsFound
<1> DEFINE path == PathIn(mos, live, d)
<1>3. PICK h \in HeadAt(t, d, path, origin) : e = h \/ e \in Snapshots(t, h, mos[d], origin)
  BY <1>2 DEF FoundAt, WithSnapshots
<1>4. ASSUME NEW x, x \in DOMAIN mos, mos[x].is = "set", NEW name, NEW f \in Describe(t, x, name, mos[d], origin)
      PROVE  f.txg \in Nat /\ [f EXCEPT !.snapshot = TRUE].txg \in Nat
  <2>1. f.txg = mos[x].txg /\ [f EXCEPT !.snapshot = TRUE].txg = f.txg
    BY <1>4, GetIsOne DEF Describe
  <2> QED
    BY <1>4, <2>1 DEF Sound, Users
<1>5. mos[d].head \in DOMAIN mos /\ mos[mos[d].head].is = "set" /\ h.snaps = HeadOf(mos, d).snaps
  BY DescribesTheObject DEF HeadAt, HeadOf, Sound, HeadsKnown, IsSetOf
<1>6. CASE e = h
  BY <1>4, <1>5, <1>6 DEF HeadAt
<1>7. CASE e \in Snapshots(t, h, mos[d], origin)
  <2>1. PICK s \in SnapsOf(mos, d) : \E f \in Describe(t, Snap(mos, d, s), Named(h.name.path, {s}), mos[d], origin) :
                                       e = [f EXCEPT !.snapshot = TRUE]
    <3> DEFINE All(k) == UNION {{[f EXCEPT !.snapshot = TRUE] :
                                f \in Describe(t, k[s], Named(h.name.path, {s}), mos[d], origin)} : s \in DOMAIN k}
    <3>1. Snapshots(t, h, mos[d], origin) = UNION {All(k) : k \in ReadZap(t, h.object, "snapnames", h.snaps)}
      BY Zenon DEF Snapshots
    <3>2. e \in All(h.snaps)
      <4> HIDE DEF All
      <4> QED
        BY <1>7, <3>1, ZapIsOne
    <3> QED
      BY <1>5, <3>2 DEF SnapsOf, Snap
  <2>2. Snap(mos, d, s) \in DOMAIN mos /\ mos[Snap(mos, d, s)].is = "set"
    BY DEF Sound, SnapsKnown, IsSetOf
  <2> QED
    BY <1>4, <2>1, <2>2
<1> QED
  BY <1>3, <1>6, <1>7

\* What changed since the last TXG is told of the TXG that is read.
LEMMA EventsAreOfTheTxg ==
  ASSUME NEW before, NEW after, NEW t, NEW p, NEW e \in Diff(before, after, t, p)
  PROVE  e.txg = t
<1> DEFINE old == ByGuid(before)
           new == ByGuid(after)
<1>1. \/ \E g \in DOMAIN new \ DOMAIN old : e = Event(t, AppearedAs(new[g]), new[g], 0)
      \/ \E g : e = Event(t, "renamed", new[g], 0)
      \/ \E g : e = Event(t, "property", new[g], 0)
      \/ \E g : e = Event(t, IF old[g].snapshot THEN "snapshot-destroyed" ELSE "destroyed", old[g], p)
  BY Zenon DEF Diff
<1> HIDE DEF old, new
<1> QED
  BY <1>1 DEF Event

\* The first TXG walked tells of nothing newer.
LEMMA BaselineIsPast ==
  ASSUME NEW sets, NEW t \in Nat, \A d \in sets : d.txg \in Nat, NEW e \in Baseline(sets, t)
  PROVE  e.txg \in Nat /\ e.txg <= t
<1>1. PICK d \in sets : e = Event(Min({d.txg, t}), AppearedAs(d), d, 0)
  BY Zenon DEF Baseline
<1>2. Min({d.txg, t}) \in Nat /\ Min({d.txg, t}) <= t
  BY DEF Min
<1> QED
  BY <1>1, <1>2 DEF Event

\* Reading a TXG: its events are of it or of before.
LEMMA ReadTxgIsPast ==
  ASSUME ScriptInv, ReadTxg
  PROVE  /\ EventsPast'
         /\ previous.txg > 0 /\ previous'.txg > previous.txg /\ Whole(previous.txg) /\ Whole(previous'.txg) =>
              events' \ events = Script(previous.txg, previous'.txg)
<1>1. PICK t \in Candidates :
        /\ t > at /\ at' = t
        /\ IF Walks(t)
           THEN \E tree \in {Walk(t)} :
                  /\ events' = events \cup IF previous.txg = 0 THEN Baseline(tree.sets, t)
                                            ELSE Diff(previous.sets, tree.sets, t, previous.txg)
                  /\ previous' = [txg |-> t, sets |-> tree.sets]
           ELSE /\ events' = events \cup {Event(t, "unreadable", Nobody, 0)}
                /\ previous' = Still(t)
  BY DEF ReadTxg
<1>2. t \in 1 .. Len(history) /\ t \in Nat /\ at \in Nat
  BY DEF Candidates, ScriptInv, RecoverInv, TimelineInv, PoolInv, PastIsSound
<1>3. \A e \in events : e.txg \in Nat /\ e.txg <= t /\ e.txg # t
  BY <1>1, <1>2 DEF ScriptInv, EventsPast
<1>4. Sound(history[t], truth[t], t)
  BY <1>2 DEF ScriptInv, RecoverInv, PoolInv, PastIsSound
<1>5. CASE Walks(t)
  <2> DEFINE sets == Walk(t).sets
             more == IF previous.txg = 0 THEN Baseline(sets, t) ELSE Diff(previous.sets, sets, t, previous.txg)
  <2>1. events' = events \cup more /\ previous'.txg = t /\ previous'.sets = sets
    BY <1>1, <1>5
  <2>2. ASSUME NEW e \in more PROVE e.txg \in Nat /\ e.txg <= t
    <3>1. e \in Baseline(sets, t) => e.txg \in Nat /\ e.txg <= t
      BY <1>2, <1>4, TxgsAreNumbers, BaselineIsPast
    <3>2. e \in Diff(previous.sets, sets, t, previous.txg) => e.txg = t
      BY EventsAreOfTheTxg
    <3> QED
      BY <1>2, <3>1, <3>2
  <2>3. EventsPast'
    <3> HIDE DEF more
    <3> QED
      BY <1>1, <1>3, <2>1, <2>2 DEF EventsPast
  <2>4. ASSUME previous.txg > 0, Whole(previous.txg), Whole(t)
        PROVE  events' \ events = Script(previous.txg, t)
    <3> DEFINE p == previous.txg
               diff == Diff(previous.sets, sets, t, p)
    <3>1. p \in 1 .. Len(history) /\ previous.sets = Walk(p).sets /\ p # 0
      BY <2>4 DEF ScriptInv, RecoverInv, TimelineInv
    <3>2. \A u \in 1 .. Len(history) : Sound(history[u], truth[u], u) /\ Exact(history[u], truth[u])
      BY DEF ScriptInv, ExactInv, PoolInv, PastIsSound, PastIsExact
    <3>3. IsWholeTree(previous.sets, truth[p]) /\ IsWholeTree(sets, truth[t])
      BY <1>2, <2>4, <3>1, <3>2, WholeWalk
    <3>4. diff = Script(p, t)
      BY <1>2, <3>1, <3>3, DiffIsScript DEF ScriptInv, ExactInv, KindsStay, SameKind
    <3>5. \A e \in diff : e \notin events
      BY <1>3, EventsAreOfTheTxg
    <3>6. more = diff
      BY <3>1
    <3> HIDE DEF diff, more, p
    <3> QED
      BY <2>1, <3>4, <3>5, <3>6 DEF p
  <2> QED
    BY <2>1, <2>3, <2>4
<1>6. CASE ~Walks(t)
  <2>1. events' = events \cup {Event(t, "unreadable", Nobody, 0)} /\ previous' = previous
    BY <1>1, <1>6 DEF Still
  <2>2. Event(t, "unreadable", Nobody, 0).txg = t
    BY DEF Event
  <2>3. EventsPast'
    BY <1>1, <1>2, <1>3, <2>1, <2>2 DEF EventsPast
  <2>4. previous.txg \in Nat
    BY DEF ScriptInv, RecoverInv, TimelineInv
  <2> QED
    BY <2>1, <2>3, <2>4
<1> QED
  BY <1>5, <1>6

\* HistoryIsTheScript, for every pool: between two TXGs that read whole the
\* timeline tells what the user of the pool did, no more and no less.
THEOREM TimelineIsTheScript == Spec => HistoryIsTheScript
<1> DEFINE TellsIt == previous.txg > 0 /\ previous'.txg > previous.txg /\ Whole(previous.txg) /\ Whole(previous'.txg) =>
                      events' \ events = Script(previous.txg, previous'.txg)
<1>1. Init => ScriptInv
  <2> SUFFICES ASSUME Init PROVE RecoverInv /\ EventsPast
    BY InitIsExact DEF ScriptInv
  <2> QED
    BY InitIsSound DEF Init, RecoverInv, TimelineInv, EventsPast
<1>2. ASSUME ScriptInv, [Next]_vars PROVE ScriptInv' /\ (TellsIt \/ UNCHANGED vars)
  <2>1. RecoverInv' /\ ExactInv'
    BY <1>2, NextKeepsTimeline, NextKeepsExact DEF ScriptInv
  <2>2. CASE ReadTxg
    BY <1>2, <2>1, <2>2, ReadTxgIsPast DEF ScriptInv
  <2>3. CASE UNCHANGED <<at, previous, events>>
    <3>1. EventsPast'
      BY <1>2, <2>3 DEF ScriptInv, EventsPast
    <3>2. previous.txg \in Nat /\ previous' = previous
      BY <1>2, <2>3 DEF ScriptInv, RecoverInv, TimelineInv
    <3>3. ~(previous'.txg > previous.txg)
      BY <3>2
    <3> QED
      BY <2>1, <3>1, <3>3 DEF ScriptInv
  <2>4. Admin \/ Free => \E mos, live : Sync(mos, live)
    BY <1>2, LastIsSound, AdminKeeps, FreeKeeps DEF NextIsSound, ScriptInv, RecoverInv
  <2>5. CASE (\E mos, live : Sync(mos, live)) \/ Lose \/ ListNewest \/ ListExact \/ UNCHANGED vars
    <3>1. UNCHANGED <<at, previous, events>>
      BY <2>5, Zenon DEF Sync, Lose, ListNewest, ListExact, List, vars
    <3> QED
      BY <2>3, <3>1
  <2> QED
    BY <1>2, <2>2, <2>4, <2>5 DEF Next
<1>3. ScriptInv /\ [Next]_vars => ScriptInv' /\ [TellsIt]_vars
  BY <1>2
<1> QED
  BY <1>1, <1>3, PTL DEF Spec, HistoryIsTheScript

=============================================================================
