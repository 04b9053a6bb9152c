-------------------------- MODULE PoolReaderProofs --------------------------
(***************************************************************************)
(* What PoolReader promises for every pool, every volume and every policy: *)
(* its types and bounds, the ledger's policy, that a stop is final, that   *)
(* no block with a checksum is ever delivered wrong, that a salvage keeps  *)
(* the best side, and that no good copy is passed over.                    *)
(***************************************************************************)
EXTENDS PoolReader, WellFoundedInduction, FiniteSetTheorems, SequenceTheorems, TLAPS

-----------------------------------------------------------------------------
(* Numbers                                                                 *)

\* A set of numbers that has a member has a least one.
LEMMA HasLeast ==
  ASSUME NEW S \in SUBSET Nat, S # {}
  PROVE  \E x \in S : \A y \in S : x <= y
<1>1. PICK x \in S : \A y \in S : ~ (<<y, x>> \in OpToRel(<, Nat))
  BY NatLessThanWellFounded, WFMin
<1>2. \A y \in S : ~ (y < x)
  BY <1>1 DEF OpToRel
<1> QED
  BY <1>2

\* A set of numbers with 0 in it, and the number after each of its members, is
\* all of them.
LEMMA SetInduction ==
  ASSUME NEW S \in SUBSET Nat, 0 \in S, \A n \in S : n + 1 \in S
  PROVE  S = Nat
<1> SUFFICES ASSUME Nat \ S # {} PROVE FALSE
  OBVIOUS
<1>1. PICK x \in Nat \ S : \A y \in Nat \ S : x <= y
  <2>1. Nat \ S \in SUBSET Nat
    OBVIOUS
  <2> QED
    BY <2>1, HasLeast
<1>2. x - 1 \in Nat /\ x - 1 + 1 = x
  BY <1>1
<1>3. x - 1 \in S
  BY <1>1, <1>2
<1> QED
  BY <1>1, <1>2, <1>3

\* The first n + 1 values of the function that begins with a and goes on as
\* step says.
IsStart(g, n, S, a, step) ==
  /\ g \in [0 .. n -> S] /\ g[0] = a
  /\ \A i \in 0 .. n - 1 : g[i + 1] = step[<<i, g[i]>>]

\* There are such starts of every length (a recursive function of the model is
\* one value after the other).
LEMMA StartExists ==
  ASSUME NEW S, NEW a \in S, NEW step \in [Nat \X S -> S], NEW n \in Nat
  PROVE  \E g : IsStart(g, n, S, a, step)
<1> DEFINE Good == {m \in Nat : \E g : IsStart(g, m, S, a, step)}
<1>1. 0 \in Good
  <2>1. IsStart([i \in 0 .. 0 |-> a], 0, S, a, step)
    BY DEF IsStart
  <2> QED
    BY <2>1
<1>2. ASSUME NEW m \in Good
      PROVE  m + 1 \in Good
  <2>1. PICK g : IsStart(g, m, S, a, step)
    OBVIOUS
  <2> DEFINE h == [i \in 0 .. m + 1 |-> IF i <= m THEN g[i] ELSE step[<<m, g[m]>>]]
  <2>2. g \in [0 .. m -> S] /\ g[m] \in S /\ step[<<m, g[m]>>] \in S
    BY <2>1 DEF IsStart
  <2>3. h \in [0 .. m + 1 -> S] /\ h[0] = a
    BY <2>1, <2>2 DEF IsStart
  <2>4. ASSUME NEW i \in 0 .. m + 1 - 1
        PROVE  h[i + 1] = step[<<i, h[i]>>]
    <3>1. i \in 0 .. m /\ h[i] = g[i] /\ i + 1 \in 0 .. m + 1
      OBVIOUS
    <3>2. CASE i = m
      <4>1. ~ (i + 1 <= m) /\ h[i + 1] = step[<<m, g[m]>>]
        BY <3>1, <3>2
      <4> HIDE DEF h
      <4> QED
        BY <3>1, <3>2, <4>1
    <3>3. CASE i # m
      <4>1. i \in 0 .. m - 1 /\ i + 1 <= m
        BY <3>1, <3>3
      <4>2. h[i + 1] = g[i + 1]
        BY <3>1, <4>1
      <4> QED
        BY <2>1, <3>1, <4>1, <4>2 DEF IsStart
    <3> QED
      BY <3>2, <3>3
  <2> HIDE DEF h
  <2>5. IsStart(h, m + 1, S, a, step)
    BY <2>3, <2>4 DEF IsStart
  <2> QED
    BY <2>5
<1>3. Good \in SUBSET Nat
  OBVIOUS
<1> HIDE DEF Good
<1>4. n \in Good
  BY <1>1, <1>2, <1>3, SetInduction
<1> QED
  BY <1>4 DEF Good

\* Two of them agree as far as both go.
LEMMA StartsAgree ==
  ASSUME NEW S, NEW a \in S, NEW step \in [Nat \X S -> S],
         NEW n \in Nat, NEW g, IsStart(g, n, S, a, step),
         NEW m \in Nat, NEW h, IsStart(h, m, S, a, step)
  PROVE  \A i \in Nat : i <= n /\ i <= m => g[i] = h[i]
<1> SUFFICES ASSUME NEW i \in Nat, i <= n, i <= m PROVE g[i] = h[i]
  OBVIOUS
<1> DEFINE Good == {j \in Nat : j <= n /\ j <= m => g[j] = h[j]}
<1>1. 0 \in Good
  BY DEF IsStart
<1>2. ASSUME NEW j \in Good
      PROVE  j + 1 \in Good
  <2> SUFFICES ASSUME j + 1 <= n, j + 1 <= m PROVE g[j + 1] = h[j + 1]
    OBVIOUS
  <2>1. j \in 0 .. n - 1 /\ j \in 0 .. m - 1 /\ g[j] = h[j]
    OBVIOUS
  <2> QED
    BY <2>1 DEF IsStart
<1>3. Good \in SUBSET Nat
  OBVIOUS
<1> HIDE DEF Good
<1>4. i \in Nat /\ i <= n /\ i <= m
  OBVIOUS
<1>5. i \in Good
  BY <1>1, <1>2, <1>3, <1>4, SetInduction
<1> QED
  BY <1>4, <1>5 DEF Good

\* The function on all numbers that begins with a and goes on as step says.
IsRecursion(f, S, a, step) ==
  f \in [Nat -> S] /\ f[0] = a /\ \A n \in Nat : f[n + 1] = step[<<n, f[n]>>]

\* A function is defined by its first value and the step to the next.
LEMMA RecursionIsDefined ==
  ASSUME NEW S, NEW a \in S, NEW step \in [Nat \X S -> S]
  PROVE  \E f : IsRecursion(f, S, a, step)
<1> DEFINE G(n) == CHOOSE g : IsStart(g, n, S, a, step)
           f == [n \in Nat |-> G(n)[n]]
<1>1. ASSUME NEW n \in Nat
      PROVE  IsStart(G(n), n, S, a, step)
  BY StartExists
<1> HIDE DEF G
<1>2. f \in [Nat -> S]
  BY <1>1 DEF IsStart
<1>3. f[0] = a
  BY <1>1 DEF IsStart
<1>4. ASSUME NEW n \in Nat
      PROVE  f[n + 1] = step[<<n, f[n]>>]
  <2>1. IsStart(G(n + 1), n + 1, S, a, step) /\ IsStart(G(n), n, S, a, step)
    BY <1>1
  <2>2. G(n + 1)[n] = G(n)[n]
    <3>1. PICK g, h : g = G(n + 1) /\ h = G(n)
      OBVIOUS
    <3>2. n + 1 \in Nat /\ n <= n /\ n <= n + 1
      OBVIOUS
    <3>3. IsStart(g, n + 1, S, a, step) /\ IsStart(h, n, S, a, step)
      BY <2>1, <3>1
    <3>4. \A i \in Nat : i <= n + 1 /\ i <= n => g[i] = h[i]
      BY <3>2, <3>3, StartsAgree
    <3> QED
      BY <3>1, <3>2, <3>4
  <2>3. G(n + 1)[n + 1] = step[<<n, G(n + 1)[n]>>]
    BY <2>1 DEF IsStart
  <2> QED
    BY <2>2, <2>3
<1> QED
  BY <1>2, <1>3, <1>4 DEF IsRecursion

-----------------------------------------------------------------------------
\* The inductive invariant.

\* A suspended call waits for a child of the gang block it is reading.
Waits(f) ==
  /\ f.i \in DOMAIN Dvas[f.ptr]
  /\ f.child \in 1 .. Len(Dvas[f.ptr][f.i].children)

\* A running call on a disk or mirror has a side left to try.
Runs(f) ==
  f.i \in DOMAIN Dvas[f.ptr] /\ Dvas[f.ptr][f.i].how = "leaf" =>
    Len(f.got) < Len(Dvas[f.ptr][f.i].cands)

\* Every call but the innermost waits; the outermost is for the pointer the
\* block loop is at; and what a call returns has passed its checksum.
CallsNest ==
  /\ phase = "read" =>
       /\ stack # <<>> /\ Len(results) < Len(vol)
       /\ level \in 1 .. Len(block.path) /\ stack[1].ptr = block.path[level]
       /\ \A n \in 1 .. Len(stack) - 1 : Waits(stack[n])
       /\ ret = "none" => Runs(stack[Len(stack)])
       /\ ret \in Bytes => Accepts(stack[Len(stack)].ptr, ret)
  /\ phase # "read" => stack = <<>> /\ ret = "none"

\* A salvage is of a block with a pointer, at a leaf that is there.
SalvageIsPlaced ==
  phase \in {"salvage", "explain"} =>
    /\ Len(results) < Len(vol) /\ block.path # <<>>
    /\ sal.i \in DOMAIN Dvas[dataPtr] /\ Dvas[dataPtr][sal.i].how = "leaf" =>
         sal.c <= Len(Dvas[dataPtr][sal.i].cands)

IInv ==
  /\ TypeOK
  /\ IsFiniteSet(cache)
  /\ LedgerKeepsPolicy
  /\ CallsNest
  /\ SalvageIsPlaced
  /\ OnlyUncheckedBlocksAreWrong

-----------------------------------------------------------------------------
\* What one read of one leaf leaves behind.

\* A set of numbers that has a member has a first one: First picks a member.
LEMMA FirstIsAMember ==
  ASSUME NEW S \in SUBSET Nat, S # {}
  PROVE  First(S) \in S
BY HasLeast DEF First

\* The cache stays within its budget, whichever block is put.
LEMMA PutKeepsBudget ==
  ASSUME NEW d \in Devices, NEW a \in Addresses,
         cache \subseteq Slots, IsFiniteSet(cache),
         Cardinality(cache) <= Budget, CachePut(d, a)
  PROVE  /\ cache' \subseteq Slots /\ IsFiniteSet(cache')
         /\ Cardinality(cache') <= Budget
<1>0. Cardinality(cache) \in Nat /\ Budget \in Nat \ {0}
  BY FS_CardinalityType, LimitsAssumption
<1> DEFINE slot == <<d, a>>
<1>1. slot \in Slots
  BY DEF Slots
<1>2. /\ IsFiniteSet({slot}) /\ Cardinality({slot}) = 1
      /\ IsFiniteSet(cache \cup {slot})
      /\ Cardinality(cache \cup {slot}) <= Cardinality(cache) + 1
  <2> HIDE DEF slot
  <2>1. IsFiniteSet({slot}) /\ Cardinality({slot}) = 1
    BY FS_Singleton
  <2>2. IsFiniteSet(cache \cup {slot})
    BY FS_AddElement
  <2>3. Cardinality(cache \cup {slot}) <= Cardinality(cache) + 1
    <3>1. CASE slot \in cache
      <4>1. cache \cup {slot} = cache
        BY <3>1
      <4>2. Cardinality(cache) <= Cardinality(cache) + 1
        BY <1>0
      <4> QED
        BY <4>1, <4>2, Zenon
    <3>2. CASE slot \notin cache
      <4>1. Cardinality(cache \cup {slot}) = Cardinality(cache) + 1
        BY <3>2, FS_AddElement
      <4> QED
        BY <1>0, <4>1
    <3> QED
      BY <3>1, <3>2
  <2> QED
    BY <2>1, <2>2, <2>3
<1>3. CASE Cardinality(cache) + 1 > Budget
  <2>1. cache' = {slot}
    BY <1>3 DEF CachePut
  <2> HIDE DEF slot
  <2> QED
    BY <1>0, <1>1, <1>2, <2>1
<1>4. CASE ~(Cardinality(cache) + 1 > Budget)
  <2>1. cache' = cache \cup {slot}
    BY <1>4 DEF CachePut
  <2> HIDE DEF slot
  <2>2. cache' \subseteq Slots /\ IsFiniteSet(cache') /\ Cardinality(cache') <= Cardinality(cache) + 1
    BY <1>1, <1>2, <2>1
  <2>3. Cardinality(cache') \in Nat
    BY <2>2, FS_CardinalityType
  <2> QED
    BY <1>0, <1>4, <2>2, <2>3
<1> QED
  BY <1>3, <1>4

\* A read of a source leaves the ledger and the windows well-formed; and it
\* stops the run exactly when it fills the ledger.
LEMMA SourceKeepsLedger ==
  ASSUME WorldOK, MemoryOK, LedgerKeepsPolicy, ~mediumStop,
         NEW d \in Devices, NEW a \in Addresses, NEW out,
         ReadAt(d, a, out) \/ ReadAtSalvaging(d, a, out)
  PROVE  /\ incidents' \in Seq([dev : Devices, at : Addresses, stopped : BOOLEAN])
         /\ windows' \in [Devices -> Seq(Addresses)]
         /\ \A x \in Devices : Len(windows'[x]) <= WINDOWS
         /\ asked' \in [Devices -> [Addresses -> 0 .. 2]]
         /\ Len(incidents') <= Allowed
         /\ \A n \in DOMAIN incidents' : incidents'[n].stopped <=> n = Allowed
         /\ (out = "stop") <=> Len(incidents') = Allowed
<1> USE LimitsAssumption
<1>a. Allowed \in Nat \ {0}
  BY DEF Allowed, WorldOK
<1>b. Len(incidents) < Allowed
  BY <1>a DEF MemoryOK, LedgerKeepsPolicy
<1>c. ~Closed(d)
  BY <1>a, <1>b DEF MemoryOK, LedgerKeepsPolicy, Closed
<1>0. Allowed \in Nat \ {0} /\ Len(incidents) < Allowed /\ ~Closed(d)
  BY <1>a, <1>b, <1>c
<1>1. CASE UNCHANGED io /\ out # "stop"
  BY <1>0, <1>1 DEF MemoryOK, LedgerKeepsPolicy, io
<1>2. CASE AskSource(d, a, out)
  <2>1. asked' \in [Devices -> [Addresses -> 0 .. 2]]
    <3> DEFINE row == [asked[d] EXCEPT ![a] = @ + 1]
    <3>1. asked \in [Devices -> [Addresses -> 0 .. 2]]
      BY DEF MemoryOK
    <3>2. asked[d] \in [Addresses -> 0 .. 2] /\ asked[d][a] \in 0 .. 2
      BY <3>1
    <3>3. asked' = asked \/ (asked[d][a] < 2 /\ asked' = [asked EXCEPT ![d] = row])
      BY <1>2 DEF AskSource, Ask
    <3>4. asked[d][a] < 2 => row \in [Addresses -> 0 .. 2]
      BY <3>2
    <3> HIDE DEF row
    <3> QED
      BY <3>1, <3>3, <3>4
  <2>2. CASE UNCHANGED <<incidents, windows>> /\ out = "io"
    BY <2>1, <2>2, <1>0 DEF MemoryOK, LedgerKeepsPolicy
  <2>3. CASE Remember(d, a) /\ UNCHANGED incidents /\ out = BytesAt(d, a)
    <3>1. /\ windows' \in [Devices -> Seq(Addresses)]
          /\ \A x \in Devices : Len(windows'[x]) <= WINDOWS
      <4> DEFINE kept == IF Len(windows[d]) >= WINDOWS THEN Tail(windows[d]) ELSE windows[d]
      <4>1. windows[d] \in Seq(Addresses) /\ Len(windows[d]) <= WINDOWS
        BY DEF MemoryOK
      <4>2. kept \in Seq(Addresses) /\ Len(kept) < WINDOWS
        BY <4>1
      <4>3. Append(kept, a) \in Seq(Addresses) /\ Len(Append(kept, a)) <= WINDOWS
        BY <4>2
      <4>4. windows' = [windows EXCEPT ![d] = Append(kept, a)]
        BY <2>3 DEF Remember
      <4> HIDE DEF kept
      <4> QED
        BY <4>3, <4>4 DEF MemoryOK
    <3>2. out # "stop"
      BY <2>3 DEF BytesAt
    <3> QED
      BY <2>1, <2>3, <3>1, <3>2, <1>0 DEF MemoryOK, LedgerKeepsPolicy
  <2>4. CASE Refused(d, a, out) /\ UNCHANGED windows
    <3> DEFINE i == [dev |-> d, at |-> a, stopped |-> Judge]
    <3>1. Judge \in BOOLEAN /\ (Judge <=> Len(incidents) + 1 = Allowed)
      BY <1>0 DEF Judge, Allowed, WorldOK, MemoryOK
    <3>2. i \in [dev : Devices, at : Addresses, stopped : BOOLEAN]
      BY <3>1
    <3>3. incidents' = Append(incidents, i) /\ (out = "stop" <=> Judge)
      BY <2>4 DEF Refused
    <3>4. i.stopped = Judge
      OBVIOUS
    <3> HIDE DEF i
    <3>5. /\ incidents' \in Seq([dev : Devices, at : Addresses, stopped : BOOLEAN])
          /\ Len(incidents') = Len(incidents) + 1
          /\ \A n \in 1 .. Len(incidents) : incidents'[n] = incidents[n]
          /\ incidents'[Len(incidents) + 1] = i
      BY <3>2, <3>3 DEF MemoryOK
    <3>6. \A n \in DOMAIN incidents' : incidents'[n].stopped <=> n = Allowed
      <4>1. Len(incidents) \in Nat /\ DOMAIN incidents' = 1 .. Len(incidents) + 1
        BY <3>5 DEF MemoryOK
      <4>2. \A n \in 1 .. Len(incidents) : incidents[n].stopped <=> n = Allowed
        BY DEF MemoryOK, LedgerKeepsPolicy
      <4>3. incidents'[Len(incidents) + 1].stopped <=> Len(incidents) + 1 = Allowed
        BY <3>1, <3>4, <3>5
      <4> QED
        BY <4>1, <4>2, <4>3, <3>5
    <3> QED
      BY <2>1, <2>4, <3>1, <3>3, <3>5, <3>6, <1>0 DEF MemoryOK
  <2> QED
    BY <1>2, <2>2, <2>3, <2>4 DEF AskSource
<1> QED
  BY <1>0, <1>1, <1>2 DEF ReadAt, ReadAtSalvaging, BytesAt

\* So does a read of a leaf, from memory or not, and for the reader too.
LEMMA LeafKeepsMemory ==
  ASSUME WorldOK, MemoryOK, LedgerKeepsPolicy, IsFiniteSet(cache),
         NEW d \in Devices, NEW a \in Addresses, NEW out, UNCHANGED world,
         ReadLeaf(d, a, out) \/ SalvageLeaf(d, a, out)
  PROVE  MemoryOK' /\ LedgerKeepsPolicy' /\ IsFiniteSet(cache')
<1>0. Allowed' = Allowed
  BY DEF Allowed, world
<1>1. CASE Preamble(d, a, out)
  BY <1>0, <1>1 DEF Preamble, memory, io, MemoryOK, LedgerKeepsPolicy
<1>2. CASE Asks(d, a) /\ (ReadAt(d, a, out) \/ ReadAtSalvaging(d, a, out)) /\ Keep(d, a, out)
  <2>1. ~mediumStop
    BY <1>2 DEF Asks
  <2>2. /\ incidents' \in Seq([dev : Devices, at : Addresses, stopped : BOOLEAN])
        /\ windows' \in [Devices -> Seq(Addresses)]
        /\ \A x \in Devices : Len(windows'[x]) <= WINDOWS
        /\ asked' \in [Devices -> [Addresses -> 0 .. 2]]
        /\ Len(incidents') <= Allowed
        /\ \A n \in DOMAIN incidents' : incidents'[n].stopped <=> n = Allowed
        /\ (out = "stop") <=> Len(incidents') = Allowed
    BY <1>2, <2>1, SourceKeepsLedger
  <2>3. /\ cache' \subseteq Slots /\ IsFiniteSet(cache')
        /\ Cardinality(cache') <= Budget
    BY <1>2, PutKeepsBudget DEF Keep, MemoryOK
  <2>4. mediumStop' \in BOOLEAN /\ (mediumStop' <=> out = "stop")
    BY <1>2, <2>1 DEF Keep
  <2> QED
    BY <1>0, <2>2, <2>3, <2>4 DEF MemoryOK, LedgerKeepsPolicy
<1> QED
  BY <1>1, <1>2 DEF ReadLeaf, SalvageLeaf

-----------------------------------------------------------------------------
\* The calls in progress.

\* A call that is made has every side of its first DVA to try.
LEMMA CallRuns ==
  ASSUME NEW p \in Pointers
  PROVE  Call(p) \in Frame /\ Call(p).ptr = p /\ Runs(Call(p))
<1>1. Call(p) \in Frame /\ Call(p).ptr = p /\ Call(p).i = 1 /\ Call(p).got = <<>>
  BY DEF Call, Frame, Errors
<1>2. 1 \in DOMAIN Dvas[p] /\ Dvas[p][1].how = "leaf" => 0 < Len(Dvas[p][1].cands)
  BY DvasAssumption DEF Dva
<1> QED
  BY <1>1, <1>2 DEF Runs

\* A call whose DVA failed is still a call for the same pointer.
LEMMA FailDvaRuns ==
  ASSUME NEW f \in Frame, NEW e \in Errors, NEW m \in BOOLEAN
  PROVE  /\ FailDva(f, e, m) \in Frame
         /\ FailDva(f, e, m).ptr = f.ptr
         /\ Runs(FailDva(f, e, m))
<1> DEFINE g == FailDva(f, e, m)
<1>1. g \in Frame /\ g.ptr = f.ptr /\ g.got = <<>>
  <2> DEFINE either == f.flagged \/ m
             next == f.i + 1
  <2>1. either \in BOOLEAN /\ next \in Nat \ {0}
    BY DEF Frame
  <2>2. g = [f EXCEPT !.i = next, !.got = <<>>, !.child = 0, !.clean = TRUE,
                      !.last = e, !.flagged = either]
    BY Zenon DEF FailDva
  <2>3. <<>> \in Seq(Outcomes) /\ 0 \in Nat /\ TRUE \in BOOLEAN
    OBVIOUS
  <2> HIDE DEF either, next, g
  <2>4. g.ptr = f.ptr /\ g.got = <<>>
    BY <2>2 DEF Frame
  <2>5. g \in Frame
    BY <2>1, <2>2, <2>3 DEF Frame
  <2> QED
    BY <2>4, <2>5
<1>2. \A x \in DOMAIN Dvas[f.ptr] : Dvas[f.ptr][x].how = "leaf" => 0 < Len(Dvas[f.ptr][x].cands)
  <2>1. f.ptr \in Pointers
    BY DEF Frame
  <2> QED
    BY <2>1, DvasAssumption DEF Dva
<1> HIDE DEF g
<1> QED
  BY <1>1, <1>2 DEF Runs, g

\* While a block is read there is an innermost call, and it is one.
LEMMA TopIsACall ==
  ASSUME CallsOK, CallsNest, phase = "read"
  PROVE  top \in Frame /\ Len(stack) \in Nat \ {0} /\ top = stack[Len(stack)]
BY DEF CallsOK, CallsNest, top

\* The innermost call goes on.
LEMMA TopGoesOn ==
  ASSUME CallsOK, CallsNest, phase = "read", ret = "none",
         NEW f \in Frame, f.ptr = top.ptr, Runs(f),
         SetTop(f), UNCHANGED ret, UNCHANGED <<world, loop>>
  PROVE  CallsOK' /\ CallsNest'
<1>1. top \in Frame /\ Len(stack) \in Nat \ {0} /\ top = stack[Len(stack)]
  BY TopIsACall
<1>2. /\ stack' \in Seq(Frame) /\ Len(stack') = Len(stack)
      /\ \A n \in 1 .. Len(stack) - 1 : stack'[n] = stack[n]
      /\ stack'[Len(stack)] = f
  BY <1>1 DEF SetTop, CallsOK
<1>3. stack'[1].ptr = stack[1].ptr
  <2>1. CASE Len(stack) = 1
    BY <1>1, <1>2, <2>1
  <2>2. CASE Len(stack) # 1
    BY <1>1, <1>2, <2>2
  <2> QED
    BY <2>1, <2>2
<1>4. CallsOK'
  BY <1>2 DEF CallsOK
<1>5. UNCHANGED <<phase, results, vol, level, block>>
  BY DEF world, loop, block
<1>6. \A n \in 1 .. Len(stack') - 1 : Waits(stack'[n])
  BY <1>1, <1>2 DEF CallsNest
<1>7. Runs(stack'[Len(stack')]) /\ ret' = "none" /\ stack' # <<>>
  BY <1>1, <1>2
<1> QED
  BY <1>3, <1>4, <1>5, <1>6, <1>7 DEF CallsNest, Bytes

\* The innermost call returns.
LEMMA TopReturns ==
  ASSUME CallsOK, CallsNest, phase = "read", NEW out \in Outcomes,
         out \in Bytes => Accepts(top.ptr, out),
         ret' = out, UNCHANGED stack, UNCHANGED <<world, loop>>
  PROVE  CallsOK' /\ CallsNest'
<1>1. UNCHANGED <<phase, results, vol, level, block>>
  BY DEF world, loop, block
<1>2. CallsOK'
  BY DEF CallsOK
<1>3. out # "none"
  BY DEF Outcomes, Bytes, Errors
<1> QED
  BY <1>1, <1>2, <1>3 DEF CallsNest, top

\* A step of the calls leaves the block loop where it is.
LEMMA CallStep ==
  ASSUME IInv, UNCHANGED <<world, loop>>, phase = "read",
         MemoryOK', LedgerKeepsPolicy', IsFiniteSet(cache'), CallsOK', CallsNest'
  PROVE  IInv'
BY DEF IInv, TypeOK, WorldOK, LoopOK, SalvageIsPlaced, OnlyUncheckedBlocksAreWrong, world, loop

\* Nothing was read.
LEMMA MemoryStays ==
  ASSUME IInv, UNCHANGED <<world, memory>>
  PROVE  MemoryOK' /\ LedgerKeepsPolicy' /\ IsFiniteSet(cache')
BY DEF IInv, TypeOK, MemoryOK, LedgerKeepsPolicy, Allowed, world, memory, io

\* The leaf a call asks next is a leaf of the pool.
LEMMA NextCandidate ==
  ASSUME CallsOK, CallsNest, phase = "read", HasDva, Len(top.got) < Len(dva.cands)
  PROVE  /\ dva \in Dva
         /\ dva.cands[Len(top.got) + 1].dev \in Devices
         /\ dva.cands[Len(top.got) + 1].at \in Addresses
<1>1. top \in Frame
  BY TopIsACall
<1>2. dva \in Dva
  BY <1>1, DvasAssumption DEF HasDva, dva, Frame
<1>3. Len(top.got) + 1 \in 1 .. Len(dva.cands)
  BY <1>1, <1>2 DEF Frame, Dva
<1>4. dva.cands \in Seq(Candidate)
  BY <1>2 DEF Dva
<1>5. dva.cands[Len(top.got) + 1] \in Candidate
  BY <1>3, <1>4
<1> QED
  BY <1>2, <1>5 DEF Candidate

LEMMA TryLeafKeepsInv ==
  ASSUME IInv, TryLeaf
  PROVE  IInv'
<1> USE DEF IInv, TypeOK
<1>1. phase = "read" /\ ret = "none" /\ HasDva /\ dva.how = "leaf" /\ UNCHANGED <<world, loop>>
  BY DEF TryLeaf, Reads, Reading
<1>2. top \in Frame /\ top.ptr \in Pointers /\ top.i \in DOMAIN Dvas[top.ptr]
  BY <1>1, TopIsACall, DvasAssumption DEF HasDva, Frame
<1>3. Len(top.got) < Len(dva.cands)
  BY <1>1, <1>2 DEF CallsNest, Runs, top, dva
<1>4. PICK out \in Outcomes :
        /\ ReadLeaf(dva.cands[Len(top.got) + 1].dev, dva.cands[Len(top.got) + 1].at, out)
        /\ IF out \in Bytes /\ Accepts(top.ptr, out)
           THEN ret' = out /\ UNCHANGED stack
           ELSE SetTop(AfterLeaf(top, out)) /\ UNCHANGED ret
  BY DEF TryLeaf
<1>5. MemoryOK' /\ LedgerKeepsPolicy' /\ IsFiniteSet(cache')
  <2>1. /\ dva.cands[Len(top.got) + 1].dev \in Devices
        /\ dva.cands[Len(top.got) + 1].at \in Addresses
    BY <1>1, <1>3, NextCandidate
  <2> QED
    BY <1>1, <1>4, <2>1, LeafKeepsMemory
<1>6. CASE out \in Bytes /\ Accepts(top.ptr, out)
  <2>1. ret' = out /\ UNCHANGED stack
    BY <1>4, <1>6
  <2>2. CallsOK' /\ CallsNest'
    BY <1>1, <1>6, <2>1, TopReturns
  <2> QED
    BY <1>1, <1>5, <2>2, CallStep
<1>7. CASE ~(out \in Bytes /\ Accepts(top.ptr, out))
  <2> DEFINE f == AfterLeaf(top, out)
  <2>1. SetTop(f) /\ UNCHANGED ret
    BY <1>4, <1>7
  <2>2. MoreTelling(top.last, IF out \in Bytes THEN "mismatch" ELSE out) \in Errors
    BY <1>2 DEF MoreTelling, Frame, Outcomes, Errors
  <2>3. f \in Frame /\ f.ptr = top.ptr
    <3> DEFINE more == Len(top.got) + 1 < Len(dva.cands)
               seen == IF more THEN Append(top.got, out) ELSE <<>>
               next == IF more THEN top.i ELSE top.i + 1
               final == MoreTelling(top.last, IF out \in Bytes THEN "mismatch" ELSE out)
               either == top.flagged \/ out \in Bytes
    <3>1. seen \in Seq(Outcomes) /\ next \in Nat \ {0}
      BY <1>2 DEF Frame
    <3>2. final \in Errors /\ either \in BOOLEAN
      BY <2>2
    <3>3. f = [top EXCEPT !.got = seen, !.i = next, !.last = final, !.flagged = either]
      BY Zenon DEF AfterLeaf
    <3> HIDE DEF seen, next, final, either, f, more
    <3> QED
      BY <1>2, <3>1, <3>2, <3>3 DEF Frame
  <2>4. Runs(f)
    <3>1. CASE Len(top.got) + 1 < Len(dva.cands)
      <4>1. f.ptr = top.ptr /\ f.i = top.i /\ f.got = Append(top.got, out)
        BY <1>2, <3>1 DEF AfterLeaf, Frame
      <4>2. Len(f.got) = Len(top.got) + 1
        BY <1>2, <4>1 DEF Frame
      <4> HIDE DEF f
      <4> QED
        BY <3>1, <4>1, <4>2 DEF Runs, dva
    <3>2. CASE ~(Len(top.got) + 1 < Len(dva.cands))
      <4>1. f.ptr = top.ptr /\ f.got = <<>>
        BY <1>2, <3>2 DEF AfterLeaf, Frame
      <4>2. \A x \in DOMAIN Dvas[top.ptr] :
              Dvas[top.ptr][x].how = "leaf" => 0 < Len(Dvas[top.ptr][x].cands)
        BY <1>2, DvasAssumption, SMTT(40) DEF Dva
      <4> HIDE DEF f
      <4> QED
        BY <4>1, <4>2 DEF Runs
    <3> QED
      BY <3>1, <3>2
  <2> HIDE DEF f
  <2>5. CallsOK' /\ CallsNest'
    BY <1>1, <2>1, <2>3, <2>4, TopGoesOn
  <2> QED
    BY <1>1, <1>5, <2>5, CallStep
<1> QED
  BY <1>6, <1>7

LEMMA TryCandidateKeepsInv ==
  ASSUME IInv, TryCandidate
  PROVE  IInv'
<1> USE DEF IInv, TypeOK
<1>1. /\ phase = "read" /\ ret = "none" /\ ret' = ret /\ HasDva /\ dva.how # "leaf"
      /\ Len(top.got) < Len(dva.cands) /\ UNCHANGED <<world, loop>>
  BY DEF TryCandidate, Reads, Reading
<1>2. top \in Frame
  BY <1>1, TopIsACall
<1>3. PICK out \in Outcomes :
        /\ ReadLeaf(dva.cands[Len(top.got) + 1].dev, dva.cands[Len(top.got) + 1].at, out)
        /\ SetTop([top EXCEPT !.got = Append(@, out)])
  BY DEF TryCandidate
<1>4. MemoryOK' /\ LedgerKeepsPolicy' /\ IsFiniteSet(cache')
  <2>1. /\ dva.cands[Len(top.got) + 1].dev \in Devices
        /\ dva.cands[Len(top.got) + 1].at \in Addresses
    BY <1>1, NextCandidate
  <2> QED
    BY <1>1, <1>3, <2>1, LeafKeepsMemory
<1> DEFINE f == [top EXCEPT !.got = Append(@, out)]
<1>5. f \in Frame /\ f.ptr = top.ptr /\ f.i = top.i
  BY <1>2 DEF Frame
<1>6. Runs(f)
  BY <1>1, <1>5 DEF Runs, dva
<1>7. CallsOK' /\ CallsNest'
  <2> HIDE DEF f
  <2>1. SetTop(f)
    BY <1>3 DEF f
  <2> QED
    BY <1>1, <1>5, <1>6, <2>1, TopGoesOn
<1> QED
  BY <1>1, <1>4, <1>7, CallStep

\* What joining the pieces one way comes to is one outcome.
LEMMA WayIsAnOutcome ==
  ASSUME CallsOK, CallsNest, phase = "read", HasDva, AllTried, NEW k
  PROVE  WayOutcome(k) \in Outcomes
<1>1. top \in Frame /\ dva \in Dva
  <2>1. top \in Frame
    BY TopIsACall
  <2> QED
    BY <2>1, DvasAssumption DEF HasDva, dva, Frame
<1> DEFINE failed == {c \in Joins(dva, k) : top.got[c] \in Errors}
<1>2. failed \subseteq Nat
  BY <1>1 DEF Joins, Dva
<1>3. CASE failed # {}
  <2>1. First(failed) \in failed
    BY <1>2, <1>3, FirstIsAMember
  <2>2. WayOutcome(k) = top.got[First(failed)]
    BY <1>3 DEF WayOutcome
  <2> QED
    BY <2>1, <2>2 DEF Outcomes
<1>4. CASE failed = {}
  <2>1. WayOutcome(k) \in {"true", "false"}
    BY <1>4 DEF WayOutcome
  <2> QED
    BY <2>1 DEF Outcomes, Bytes
<1> QED
  BY <1>3, <1>4

LEMMA JoinPiecesKeepsInv ==
  ASSUME IInv, JoinPieces
  PROVE  IInv'
<1> USE DEF IInv, TypeOK
<1>1. /\ phase = "read" /\ ret = "none" /\ HasDva /\ AllTried
      /\ UNCHANGED <<world, memory, loop>>
  BY DEF JoinPieces, Reads, Reading
<1>2. MemoryOK' /\ LedgerKeepsPolicy' /\ IsFiniteSet(cache')
  BY <1>1, MemoryStays
<1> DEFINE accepted == {k \in 1 .. dva.ways :
                          WayOutcome(k) \in Bytes /\ Accepts(top.ptr, WayOutcome(k))}
           final == IF WayOutcome(dva.ways) \in Bytes THEN "mismatch" ELSE WayOutcome(dva.ways)
           e == MoreTelling(top.last, final)
           m == \E k \in 1 .. dva.ways : WayOutcome(k) \in Bytes
<1>3. IF accepted # {}
      THEN ret' = WayOutcome(First(accepted)) /\ UNCHANGED stack
      ELSE SetTop(FailDva(top, e, m)) /\ UNCHANGED ret
  BY DEF JoinPieces
<1>4. CASE accepted # {}
  <2>1. accepted \in SUBSET Nat
    OBVIOUS
  <2> HIDE DEF accepted
  <2>2. First(accepted) \in accepted
    BY <1>4, <2>1, FirstIsAMember
  <2> DEFINE out == WayOutcome(First(accepted))
  <2>3. out \in Bytes /\ Accepts(top.ptr, out)
    BY <2>2 DEF accepted
  <2>4. out \in Outcomes
    BY <2>3 DEF Outcomes
  <2>5. ret' = out /\ UNCHANGED stack
    BY <1>3, <1>4
  <2> HIDE DEF out
  <2>6. CallsOK' /\ CallsNest'
    BY <1>1, <2>3, <2>4, <2>5, TopReturns
  <2> QED
    BY <1>1, <1>2, <2>6, CallStep
<1>5. CASE accepted = {}
  <2>1. WayOutcome(dva.ways) \in Outcomes
    BY <1>1, WayIsAnOutcome
  <2>2. final \in Errors
    BY <2>1 DEF Outcomes, Errors
  <2>3. top.last \in Errors
    BY <1>1, TopIsACall DEF Frame
  <2>4. e \in Errors /\ m \in BOOLEAN
    <3> HIDE DEF final
    <3> QED
      BY <2>2, <2>3 DEF MoreTelling
  <2>5. SetTop(FailDva(top, e, m)) /\ UNCHANGED ret
    BY <1>3, <1>5
  <2> HIDE DEF e, m, accepted, final
  <2>6. CallsOK' /\ CallsNest'
    BY <1>1, <2>4, <2>5, TopIsACall, FailDvaRuns, TopGoesOn
  <2> QED
    BY <1>1, <1>2, <2>6, CallStep
<1> QED
  BY <1>4, <1>5

\* A DVA that cannot be followed.
LEMMA GivenUpKeepsInv ==
  ASSUME IInv, GangTooDeep \/ UnknownVdev
  PROVE  IInv'
<1> USE DEF IInv, TypeOK
<1>1. PICK e \in {"gang", "unknown"} :
        /\ phase = "read" /\ ret = "none" /\ ret' = ret
        /\ UNCHANGED <<world, memory, loop>>
        /\ SetTop(FailDva(top, e, FALSE))
  BY DEF GangTooDeep, UnknownVdev, Reads, Reading
<1>2. e \in Errors
  BY DEF Errors
<1>3. CallsOK' /\ CallsNest'
  BY <1>1, <1>2, TopIsACall, FailDvaRuns, TopGoesOn
<1> QED
  BY <1>1, <1>3, MemoryStays, CallStep

LEMMA NoCopyLeftKeepsInv ==
  ASSUME IInv, NoCopyLeft
  PROVE  IInv'
<1> USE DEF IInv, TypeOK
<1>1. /\ phase = "read" /\ ret' = top.last /\ UNCHANGED stack
      /\ UNCHANGED <<world, memory, loop>>
  BY DEF NoCopyLeft, Reading
<1>2. top.last \in Errors
  BY <1>1, TopIsACall DEF Frame
<1>3. top.last \in Outcomes /\ top.last \notin Bytes
  BY <1>2 DEF Errors, Outcomes, Bytes
<1>4. CallsOK' /\ CallsNest'
  BY <1>1, <1>3, TopReturns
<1> QED
  BY <1>1, <1>4, MemoryStays, CallStep

\* A gang header that verified is set aside for its first child.
LEMMA OpenGangKeepsInv ==
  ASSUME IInv, OpenGang
  PROVE  IInv'
<1> USE DEF IInv, TypeOK
<1>1. /\ phase = "read" /\ ret = "none" /\ ret' = ret /\ HasDva /\ dva.how = "gang" /\ AllTried
      /\ UNCHANGED <<world, memory, loop>>
  BY DEF OpenGang, Reads, Reading
<1>2. top \in Frame /\ Len(stack) \in Nat \ {0} /\ top = stack[Len(stack)]
  BY <1>1, TopIsACall
<1>3. /\ top.ptr \in Pointers /\ top.i \in DOMAIN Dvas[top.ptr] /\ dva \in Dva
      /\ dva.cands # <<>> /\ dva.children # <<>>
  <2>1. top.ptr \in Pointers /\ top.i \in DOMAIN Dvas[top.ptr]
    BY <1>1, <1>2, DvasAssumption DEF HasDva, Frame
  <2> QED
    BY <1>1, <2>1, DvasAssumption DEF dva
<1>4. CASE \E c \in DOMAIN top.got : top.got[c] = "true"
  <2> DEFINE f == [top EXCEPT !.child = 1]
             c == Call(dva.children[1])
  <2>1. stack' = Append([stack EXCEPT ![Len(stack)] = f], c)
    BY <1>2, <1>4 DEF OpenGang
  <2>2. f \in Frame /\ f.ptr = top.ptr /\ f.i = top.i /\ f.child = 1
    BY <1>2 DEF Frame
  <2>3. dva.children[1] \in Pointers /\ 1 \in 1 .. Len(dva.children)
    BY <1>3 DEF Dva
  <2>4. c \in Frame /\ Runs(c)
    BY <2>3, CallRuns
  <2>5. Waits(f)
    BY <1>3, <2>2, <2>3 DEF Waits, dva
  <2> HIDE DEF f, c
  <2>6. /\ stack' \in Seq(Frame) /\ Len(stack') = Len(stack) + 1
        /\ \A n \in 1 .. Len(stack) - 1 : stack'[n] = stack[n]
        /\ stack'[Len(stack)] = f /\ stack'[Len(stack) + 1] = c
    BY <1>2, <2>1, <2>2, <2>4 DEF CallsOK
  <2>7. stack'[1].ptr = stack[1].ptr
    <3>1. CASE Len(stack) = 1
      BY <1>2, <2>2, <2>6, <3>1
    <3>2. CASE Len(stack) > 1
      <4>1. 1 \in 1 .. Len(stack) - 1
        BY <1>2, <3>2
      <4> QED
        BY <2>6, <4>1
    <3>3. Len(stack) = 1 \/ Len(stack) > 1
      BY <1>2
    <3> QED
      BY <3>1, <3>2, <3>3
  <2>8. UNCHANGED <<phase, results, vol, level, block>>
    BY <1>1 DEF world, loop, block
  <2>9. \A n \in 1 .. Len(stack') - 1 : Waits(stack'[n])
    BY <1>1, <1>2, <2>5, <2>6 DEF CallsNest
  <2>10. Runs(stack'[Len(stack')]) /\ ret' = "none" /\ stack' # <<>>
    BY <1>1, <1>2, <2>4, <2>6
  <2>11. CallsOK'
    BY <1>1, <2>6 DEF CallsOK
  <2>12. CallsNest'
    BY <1>1, <2>7, <2>8, <2>9, <2>10 DEF CallsNest, Bytes
  <2> QED
    BY <1>1, <2>11, <2>12, MemoryStays, CallStep
<1>5. CASE ~(\E c \in DOMAIN top.got : top.got[c] = "true")
  <2> DEFINE final == top.got[Len(top.got)]
             e == IF final \in Bytes THEN "gang" ELSE final
  <2>1. SetTop(FailDva(top, e, FALSE))
    BY <1>5 DEF OpenGang
  <2>2. Len(top.got) \in 1 .. Len(top.got)
    BY <1>1, <1>2, <1>3 DEF AllTried, Frame, Dva
  <2>3. e \in Errors
    BY <1>2, <2>2 DEF Frame, Outcomes, Errors
  <2> HIDE DEF e
  <2>4. CallsOK' /\ CallsNest'
    BY <1>1, <1>2, <2>1, <2>3, FailDvaRuns, TopGoesOn
  <2> QED
    BY <1>1, <2>4, MemoryStays, CallStep
<1> QED
  BY <1>4, <1>5

\* The two innermost calls make way.
Popped(s) == SubSeq(s, 1, Len(s) - 2)

LEMMA TwoPopped ==
  ASSUME NEW s \in Seq(Frame), Len(s) > 1
  PROVE  /\ Popped(s) \in Seq(Frame) /\ Len(Popped(s)) = Len(s) - 2
         /\ \A n \in 1 .. Len(s) - 2 : Popped(s)[n] = s[n]
<1>1. Len(s) - 2 \in Nat /\ 1 \in Int
  OBVIOUS
<1>2. \A i \in 1 .. Len(s) - 2 : s[i] \in Frame
  BY <1>1
<1> DEFINE m == Len(s) - 2
<1>3. m \in Int /\ m \in Nat /\ \A i \in 1 .. m : s[i] \in Frame
  BY <1>1, <1>2
<1> HIDE DEF m
<1>4. /\ SubSeq(s, 1, m) \in Seq(Frame)
      /\ Len(SubSeq(s, 1, m)) = IF 1 <= m THEN m - 1 + 1 ELSE 0
      /\ \A i \in 1 .. m - 1 + 1 : SubSeq(s, 1, m)[i] = s[1 + i - 1]
  BY <1>1, <1>3, SubSeqProperties
<1>5. m - 1 + 1 = m /\ \A i \in 1 .. m : 1 + i - 1 = i
  BY <1>3
<1>6. Len(SubSeq(s, 1, m)) = m
  BY <1>3, <1>4
<1>7. \A i \in 1 .. m : SubSeq(s, 1, m)[i] = s[i]
  BY <1>4, <1>5
<1> QED
  BY <1>4, <1>6, <1>7 DEF m, Popped

\* One call takes their place.
LEMMA OneForTwo ==
  ASSUME NEW s \in Seq(Frame), Len(s) > 1, NEW g \in Frame
  PROVE  LET t == Append(Popped(s), g)
         IN  /\ t \in Seq(Frame) /\ Len(t) = Len(s) - 1
             /\ t[Len(s) - 1] = g /\ \A n \in 1 .. Len(s) - 2 : t[n] = s[n]
<1> DEFINE below == Popped(s)
           t == Append(below, g)
<1>1. /\ below \in Seq(Frame) /\ Len(below) = Len(s) - 2
      /\ \A n \in 1 .. Len(s) - 2 : below[n] = s[n]
  BY TwoPopped
<1> HIDE DEF below
<1>2. /\ t \in Seq(Frame) /\ Len(t) = Len(below) + 1
      /\ \A n \in 1 .. Len(below) : t[n] = below[n]
      /\ t[Len(below) + 1] = g
  BY <1>1, AppendProperties
<1> HIDE DEF t
<1>3. /\ t \in Seq(Frame) /\ Len(t) = Len(s) - 1
      /\ t[Len(s) - 1] = g /\ \A n \in 1 .. Len(s) - 2 : t[n] = s[n]
  <2>1. Len(s) \in Nat /\ Len(below) + 1 = Len(s) - 1
    BY <1>1
  <2> QED
    BY <1>1, <1>2, <2>1
<1> QED
  BY <1>3 DEF t, below

\* A caller and its next child take their place.
LEMMA TwoForTwo ==
  ASSUME NEW s \in Seq(Frame), Len(s) > 1, NEW pair \in Seq(Frame), Len(pair) = 2
  PROVE  LET t == Popped(s) \o pair
         IN  /\ t \in Seq(Frame) /\ Len(t) = Len(s)
             /\ t[Len(s) - 1] = pair[1] /\ t[Len(s)] = pair[2]
             /\ \A n \in 1 .. Len(s) - 2 : t[n] = s[n]
<1> DEFINE below == Popped(s)
           t == below \o pair
<1>1. /\ below \in Seq(Frame) /\ Len(below) = Len(s) - 2
      /\ \A n \in 1 .. Len(s) - 2 : below[n] = s[n]
  BY TwoPopped
<1> HIDE DEF below
<1>2. /\ t \in Seq(Frame) /\ Len(t) = Len(below) + Len(pair)
      /\ \A n \in 1 .. Len(below) + Len(pair) :
           t[n] = IF n <= Len(below) THEN below[n] ELSE pair[n - Len(below)]
  BY <1>1, ConcatProperties
<1> HIDE DEF t
<1>3. /\ t \in Seq(Frame) /\ Len(t) = Len(s)
      /\ t[Len(s) - 1] = pair[1] /\ t[Len(s)] = pair[2]
      /\ \A n \in 1 .. Len(s) - 2 : t[n] = s[n]
  <2>1. Len(s) \in Nat /\ Len(below) = Len(s) - 2 /\ Len(pair) = 2 /\ Len(s) > 1
    BY <1>1
  <2>2. t[Len(s) - 1] = pair[1]
    BY <1>2, <2>1
  <2>3. t[Len(s)] = pair[2]
    BY <1>2, <2>1
  <2>4. \A n \in 1 .. Len(s) - 2 : t[n] = s[n]
    BY <1>1, <1>2, <2>1
  <2> QED
    BY <1>2, <2>1, <2>2, <2>3, <2>4
<1> QED
  BY <1>3 DEF t, below

\* The caller of a gang child takes its place, with or without the next child.
LEMMA CallerGoesOn ==
  ASSUME CallsOK, CallsNest, phase = "read", Len(stack) > 1, UNCHANGED <<world, loop>>,
         stack' \in Seq(Frame), Len(stack') \in {Len(stack) - 1, Len(stack)},
         \A n \in 1 .. Len(stack) - 2 : stack'[n] = stack[n],
         stack'[Len(stack) - 1].ptr = stack[Len(stack) - 1].ptr,
         Len(stack') = Len(stack) => Waits(stack'[Len(stack) - 1]),
         ret' \in Outcomes \cup {"none"},
         ret' = "none" => Runs(stack'[Len(stack')]),
         ret' \in Bytes => Accepts(stack'[Len(stack')].ptr, ret')
  PROVE  CallsOK' /\ CallsNest'
<1> DEFINE L == Len(stack)
<1>1. L \in Nat /\ L >= 2
  BY DEF CallsOK
<1>2. stack'[1].ptr = stack[1].ptr
  <2>1. CASE L = 2
    BY <2>1
  <2>2. CASE L # 2
    BY <1>1, <2>2
  <2> QED
    BY <2>1, <2>2
<1>3. UNCHANGED <<phase, results, vol, level, block>>
  BY DEF world, loop, block
<1>4. \A n \in 1 .. Len(stack') - 1 : Waits(stack'[n])
  BY <1>1, SMTT(40) DEF CallsNest
<1>5. stack' # <<>>
  BY <1>1
<1> QED
  BY <1>2, <1>3, <1>4, <1>5 DEF CallsOK, CallsNest

LEMMA ChildReadKeepsInv ==
  ASSUME IInv, ChildRead
  PROVE  IInv'
<1> USE DEF IInv, TypeOK
<1> DEFINE below == Popped(stack)
           f == stack[Len(stack) - 1]
           children == Dvas[f.ptr][f.i].children
           clean == f.clean /\ ret = "true"
           whole == IF clean THEN "true" ELSE "false"
<1>1. /\ phase = "read" /\ ret # "none" /\ Len(stack) > 1
      /\ UNCHANGED <<world, memory, loop>>
  BY DEF ChildRead
<1>2. stack \in Seq(Frame) /\ f \in Frame /\ Waits(f) /\ clean \in BOOLEAN
  BY <1>1 DEF CallsOK, CallsNest
<1>3. f.ptr \in Pointers /\ f.i \in DOMAIN Dvas[f.ptr]
  BY <1>2 DEF Frame, Waits
<1>4. children \in Seq(Pointers)
  <2>1. Dvas[f.ptr][f.i] \in Dva
    BY <1>3, DvasAssumption
  <2> QED
    BY <2>1 DEF Dva
<1>5. \A g \in Frame : stack' = Append(below, g) =>
        /\ stack' \in Seq(Frame) /\ Len(stack') = Len(stack) - 1
        /\ \A n \in 1 .. Len(stack) - 2 : stack'[n] = stack[n]
        /\ stack'[Len(stack) - 1] = g
  <2> TAKE g \in Frame
  <2> HAVE stack' = Append(below, g)
  <2> QED
    BY <1>1, <1>2, OneForTwo
<1>6. \A g, c \in Frame : stack' = below \o <<g, c>> =>
        /\ stack' \in Seq(Frame) /\ Len(stack') = Len(stack)
        /\ \A n \in 1 .. Len(stack) - 2 : stack'[n] = stack[n]
        /\ stack'[Len(stack) - 1] = g /\ stack'[Len(stack)] = c
  <2> TAKE g, c \in Frame
  <2> HAVE stack' = below \o <<g, c>>
  <2> DEFINE pair == <<g, c>>
  <2>1. pair \in Seq(Frame) /\ Len(pair) = 2 /\ pair[1] = g /\ pair[2] = c
    OBVIOUS
  <2>2. stack' = Popped(stack) \o pair
    OBVIOUS
  <2> DEFINE t == Popped(stack) \o pair
  <2> HIDE DEF pair
  <2>3. /\ t \in Seq(Frame) /\ Len(t) = Len(stack)
        /\ t[Len(stack) - 1] = pair[1] /\ t[Len(stack)] = pair[2]
        /\ \A n \in 1 .. Len(stack) - 2 : t[n] = stack[n]
    BY <1>1, <1>2, <2>1, TwoForTwo
  <2>4. stack' = t
    BY <2>2
  <2> HIDE DEF t
  <2> QED
    BY <2>1, <2>3, <2>4
<1>7. CASE ret \in Errors
  <2> DEFINE g == FailDva(f, ret, FALSE)
  <2>1. stack' = Append(below, g) /\ ret' = "none"
    BY <1>7 DEF ChildRead, Popped
  <2>2. g \in Frame /\ g.ptr = f.ptr /\ Runs(g)
    BY <1>2, <1>7, FailDvaRuns
  <2> HIDE DEF g, below
  <2>3. CallsOK' /\ CallsNest'
    BY <1>1, <1>5, <2>1, <2>2, CallerGoesOn DEF Bytes
  <2> QED
    BY <1>1, <2>3, MemoryStays, CallStep
<1>8. CASE ret \notin Errors /\ f.child < Len(children)
  <2> DEFINE g == [f EXCEPT !.child = @ + 1, !.clean = clean]
             c == Call(children[f.child + 1])
  <2>1. stack' = below \o <<g, c>> /\ ret' = "none"
    BY <1>8 DEF ChildRead, Popped
  <2>2. g \in Frame /\ g.ptr = f.ptr /\ g.i = f.i /\ g.child = f.child + 1
    <3> DEFINE next == f.child + 1
    <3>1. next \in Nat
      BY <1>2 DEF Frame
    <3>2. g = [f EXCEPT !.child = next, !.clean = clean]
      BY Zenon
    <3> HIDE DEF clean, f, next, g
    <3>3. g \in Frame /\ g.ptr = f.ptr /\ g.i = f.i /\ g.child = next
      BY <1>2, <3>1, <3>2 DEF Frame
    <3> QED
      BY <3>3 DEF next
  <2>3. f.child + 1 \in 1 .. Len(children)
    <3>1. f.child \in 1 .. Len(children)
      BY <1>2 DEF Waits
    <3>2. Len(children) \in Nat
      <4> HIDE DEF children
      <4> QED
        BY <1>4
    <3> HIDE DEF children, f
    <3> QED
      BY <1>8, <3>1, <3>2
  <2>4. Waits(g)
    BY <1>2, <2>2, <2>3 DEF Waits
  <2>5. c \in Frame /\ Runs(c)
    BY <1>4, <2>3, CallRuns
  <2> HIDE DEF g, c, below, f
  <2>6. /\ stack' \in Seq(Frame) /\ Len(stack') = Len(stack)
        /\ \A n \in 1 .. Len(stack) - 2 : stack'[n] = stack[n]
        /\ stack'[Len(stack) - 1] = g /\ stack'[Len(stack)] = c
    BY <1>6, <2>1, <2>2, <2>5
  <2>7. CallsOK' /\ CallsNest'
    BY <1>1, <2>1, <2>2, <2>4, <2>5, <2>6, CallerGoesOn DEF f, Bytes
  <2> QED
    BY <1>1, <2>7, MemoryStays, CallStep
<1>9. CASE ret \notin Errors /\ ~(f.child < Len(children)) /\ Accepts(f.ptr, whole)
  <2>1. stack' = Append(below, f) /\ ret' = whole /\ whole \in Bytes
    BY <1>9 DEF ChildRead, Bytes, Popped
  <2> HIDE DEF below, whole, clean, children
  <2>2. ret' \in Outcomes /\ ret' # "none"
    BY <2>1 DEF Outcomes, Bytes
  <2>3. CallsOK' /\ CallsNest'
    BY <1>1, <1>2, <1>5, <1>9, <2>1, <2>2, CallerGoesOn
  <2> QED
    BY <1>1, <2>3, MemoryStays, CallStep
<1>10. CASE ret \notin Errors /\ ~(f.child < Len(children)) /\ ~Accepts(f.ptr, whole)
  <2> DEFINE g == FailDva(f, "mismatch", TRUE)
  <2>1. stack' = Append(below, g) /\ ret' = "none"
    BY <1>10 DEF ChildRead, Popped
  <2>2. g \in Frame /\ g.ptr = f.ptr /\ Runs(g)
    BY <1>2, FailDvaRuns DEF Errors
  <2> HIDE DEF g, below
  <2>3. CallsOK' /\ CallsNest'
    BY <1>1, <1>5, <2>1, <2>2, CallerGoesOn DEF Bytes
  <2> QED
    BY <1>1, <2>3, MemoryStays, CallStep
<1> QED
  BY <1>7, <1>8, <1>9, <1>10

-----------------------------------------------------------------------------
\* The block loop.

\* While blocks are left, the next one is a block of the volume.
LEMMA BlockOfVolume ==
  ASSUME WorldOK, LoopOK, Len(results) < Len(vol)
  PROVE  /\ block \in Block /\ block.path \in Seq(Pointers) /\ block.hole \in BOOLEAN
         /\ block.path # <<>> =>
              Len(block.path) \in 1 .. Len(block.path) /\ dataPtr \in Pointers
<1>1. vol \in Seq(Block)
  BY VolumesAssumption DEF WorldOK
<1>2. Len(results) + 1 \in 1 .. Len(vol)
  BY <1>1 DEF LoopOK
<1>3. block \in Block
  BY <1>1, <1>2 DEF block
<1>4. block.path \in Seq(Pointers) /\ block.hole \in BOOLEAN
  BY <1>3 DEF Block
<1>5. ASSUME block.path # <<>>
      PROVE  Len(block.path) \in 1 .. Len(block.path) /\ dataPtr \in Pointers
  BY <1>4, <1>5 DEF dataPtr
<1> QED
  BY <1>3, <1>4, <1>5

\* What becomes of a block is noted, and the loop is between two blocks again.
LEMMA DeliverKeepsInv ==
  ASSUME IInv, UNCHANGED <<world, memory>>, Len(results) < Len(vol),
         NEW got \in Kept \cup {"hole", "zero", "stop", "aborted"},
         NEW why \in Errors \cup {"none"},
         got = "false" => dataPtr \in Unchecked,
         Deliver(got, why), stack' = <<>>, ret' = "none"
  PROVE  IInv'
<1> USE DEF IInv, TypeOK
<1> DEFINE r == [got |-> got, why |-> why]
<1>1. results' = Append(results, r)
  BY DEF Deliver
<1>2. r \in [got : Kept \cup {"hole", "zero", "stop", "aborted"}, why : Errors \cup {"none"}]
  OBVIOUS
<1>3. r.got = got
  OBVIOUS
<1> HIDE DEF r
<1>4. /\ results' \in Seq([got : Kept \cup {"hole", "zero", "stop", "aborted"},
                           why : Errors \cup {"none"}])
      /\ Len(results') = Len(results) + 1
      /\ \A k \in 1 .. Len(results) : results'[k] = results[k]
      /\ results'[Len(results) + 1] = r
  BY <1>1, <1>2, AppendProperties DEF LoopOK
<1>5. phase' \in {"next", "done"} /\ level' = 0 /\ err' = "none" /\ sal' = NoSalvage
  BY DEF Deliver
<1>6. WorldOK' /\ vol' = vol
  BY DEF WorldOK, world
<1>7. CallsOK'
  BY DEF CallsOK
<1>8. NoSalvage \in [i : Nat \ {0}, c : Nat \ {0}, best : Kept \cup {"none"}]
  BY DEF NoSalvage
<1>9. LoopOK'
  BY <1>4, <1>5, <1>8 DEF LoopOK
<1>10. CallsNest' /\ SalvageIsPlaced'
  BY <1>5 DEF CallsNest, SalvageIsPlaced
<1>11. OnlyUncheckedBlocksAreWrong'
  <2>1. Len(results) \in Nat /\ DOMAIN results' = 1 .. Len(results) + 1 /\ DOMAIN results = 1 .. Len(results)
    BY <1>4 DEF LoopOK
  <2>2. \A k \in 1 .. Len(results) :
          results'[k].got = "false" => vol[k].path[Len(vol[k].path)] \in Unchecked
    BY <1>4, <2>1 DEF OnlyUncheckedBlocksAreWrong
  <2>3. r.got = "false" => vol[Len(results) + 1].path[Len(vol[Len(results) + 1].path)] \in Unchecked
    BY <1>3 DEF dataPtr, block
  <2> QED
    BY <1>4, <1>6, <2>1, <2>2, <2>3 DEF OnlyUncheckedBlocksAreWrong
<1> QED
  BY <1>6, <1>7, <1>9, <1>10, <1>11, MemoryStays

\* A block's first pointer, or its next, is read.
LEMMA CallOutermost ==
  ASSUME IInv, UNCHANGED <<world, memory>>, UNCHANGED <<err, sal, results>>,
         Len(results) < Len(vol), NEW n \in 1 .. Len(block.path),
         phase' = "read", level' = n, stack' = <<Call(block.path[n])>>, ret' = "none"
  PROVE  IInv'
<1> USE DEF IInv, TypeOK
<1>1. block.path[n] \in Pointers
  BY BlockOfVolume
<1> DEFINE c == Call(block.path[n])
<1>2. c \in Frame /\ c.ptr = block.path[n] /\ Runs(c)
  BY <1>1, CallRuns
<1>3. stack' = <<c>>
  OBVIOUS
<1> HIDE DEF c
<1>4. stack' \in Seq(Frame) /\ Len(stack') = 1 /\ stack'[1] = c /\ stack' # <<>>
  BY <1>2, <1>3
<1>5. UNCHANGED <<vol, results, block>>
  BY DEF world, block
<1>6. WorldOK' /\ LoopOK' /\ OnlyUncheckedBlocksAreWrong'
  <2>1. n \in Nat
    BY BlockOfVolume
  <2> QED
    BY <2>1 DEF WorldOK, LoopOK, OnlyUncheckedBlocksAreWrong, world
<1>7. CallsOK'
  BY <1>4 DEF CallsOK
<1>8. CallsNest'
  <2>1. level' \in 1 .. Len(block'.path) /\ stack'[1].ptr = block'.path[level']
    BY <1>2, <1>4, <1>5
  <2>2. \A x \in 1 .. Len(stack') - 1 : Waits(stack'[x])
    BY <1>4
  <2> QED
    BY <1>2, <1>4, <1>5, <2>1, <2>2 DEF CallsNest, Bytes
<1>9. SalvageIsPlaced'
  BY DEF SalvageIsPlaced
<1> QED
  BY <1>6, <1>7, <1>8, <1>9, MemoryStays

LEMMA BlockBeginsKeepsInv ==
  ASSUME IInv, HoleBlock \/ StartBlock
  PROVE  IInv'
<1> USE DEF IInv, TypeOK
<1>1. stack = <<>> /\ ret = "none"
  BY DEF HoleBlock, StartBlock, CallsNest
<1>2. CASE HoleBlock
  <2>1. /\ Len(results) < Len(vol) /\ Deliver("hole", "none")
        /\ UNCHANGED <<world, memory>> /\ stack' = <<>> /\ ret' = "none"
    BY <1>1, <1>2 DEF HoleBlock
  <2> QED
    BY <2>1, DeliverKeepsInv
<1>3. CASE StartBlock
  <2>1. /\ Len(results) < Len(vol) /\ block.path # <<>>
        /\ phase' = "read" /\ level' = 1 /\ stack' = <<Call(block.path[1])>> /\ ret' = "none"
        /\ UNCHANGED <<world, memory>> /\ UNCHANGED <<err, sal, results>>
    BY <1>1, <1>3 DEF StartBlock
  <2>2. 1 \in 1 .. Len(block.path)
    BY <2>1, BlockOfVolume
  <2> QED
    BY <2>1, <2>2, CallOutermost
<1> QED
  BY <1>2, <1>3

\* What read_block answers has passed its checksum, and of a block at its last
\* pointer that is the block's own.
LEMMA AnswerIsVerified ==
  ASSUME IInv, phase = "read", ret # "none", Len(stack) = 1
  PROVE  /\ BlockAnswer \in Outcomes
         /\ Len(results) < Len(vol) /\ block.path # <<>> /\ level \in 1 .. Len(block.path)
         /\ BlockAnswer = "false" /\ level = Len(block.path) => dataPtr \in Unchecked
<1> USE DEF IInv, TypeOK
<1>1. ret \in Outcomes
  BY DEF CallsOK
<1>2. BlockAnswer \in Outcomes /\ (BlockAnswer \in Bytes => BlockAnswer = ret)
  BY <1>1 DEF BlockAnswer, Outcomes, Bytes, Errors
<1>3. /\ Len(results) < Len(vol) /\ level \in 1 .. Len(block.path)
      /\ top.ptr = block.path[level] /\ (ret \in Bytes => Accepts(top.ptr, ret))
  BY DEF CallsNest, top
<1>4. block.path # <<>>
  BY <1>3
<1>5. BlockAnswer = "false" /\ level = Len(block.path) => dataPtr \in Unchecked
  BY <1>2, <1>3 DEF Accepts, dataPtr, Bytes
<1> QED
  BY <1>2, <1>3, <1>4, <1>5

LEMMA BlockReadKeepsInv ==
  ASSUME IInv, BlockRead
  PROVE  IInv'
<1> USE DEF IInv, TypeOK
<1> DEFINE a == BlockAnswer
<1>1. /\ phase = "read" /\ ret # "none" /\ Len(stack) = 1 /\ ret' = "none"
      /\ UNCHANGED <<world, memory>>
  BY DEF BlockRead
<1>2. /\ a \in Outcomes /\ Len(results) < Len(vol)
      /\ block.path # <<>> /\ level \in 1 .. Len(block.path)
      /\ a = "false" /\ level = Len(block.path) => dataPtr \in Unchecked
  BY <1>1, AnswerIsVerified
<1>3. CASE a \in Bytes /\ level < Len(block.path)
  <2>1. /\ level' = level + 1 /\ stack' = <<Call(block.path[level + 1])>>
        /\ phase' = "read" /\ UNCHANGED <<err, sal, results>>
    BY <1>1, <1>3 DEF BlockRead, Bytes, Errors
  <2>2. level + 1 \in 1 .. Len(block.path)
    BY <1>2, <1>3, BlockOfVolume
  <2> QED
    BY <1>1, <1>2, <2>1, <2>2, CallOutermost
<1>4. CASE a \in Bytes /\ level = Len(block.path)
  <2> DEFINE got == IF block.hole THEN "hole" ELSE a
  <2>1. Deliver(got, "none") /\ stack' = <<>>
    BY <1>2, <1>4, BlockOfVolume DEF BlockRead, Bytes, Errors
  <2>2. got \in Kept \cup {"hole", "zero", "stop", "aborted"}
    BY <1>4 DEF Kept
  <2>3. got = "false" => dataPtr \in Unchecked
    BY <1>2, <1>4
  <2> HIDE DEF got
  <2> QED
    BY <1>1, <1>2, <2>1, <2>2, <2>3, DeliverKeepsInv
<1>5. CASE a \in Errors /\ ~(phase' = "salvage")
  <2>1. a \notin Bytes
    BY <1>5 DEF Errors, Bytes
  <2>2. PICK got \in {"stop", "aborted", "zero"} : Deliver(got, a) /\ stack' = <<>>
    BY <1>5, <2>1 DEF BlockRead
  <2> HIDE DEF a
  <2> QED
    BY <1>1, <1>2, <1>5, <2>2, DeliverKeepsInv
<1>6. CASE a \in Errors /\ phase' = "salvage"
  <2>1. a \notin Bytes
    BY <1>6 DEF Errors, Bytes
  <2>2. err' = a /\ sal' = NoSalvage /\ stack' = <<>> /\ UNCHANGED <<level, results>>
    BY <1>6, <2>1 DEF BlockRead, Deliver
  <2>3. UNCHANGED <<vol, results, block, dataPtr>>
    BY <1>1, <2>2 DEF world, block, dataPtr
  <2>4. WorldOK' /\ CallsOK' /\ OnlyUncheckedBlocksAreWrong'
    BY <1>1, <2>2, <2>3 DEF WorldOK, CallsOK, OnlyUncheckedBlocksAreWrong, world
  <2>5. LoopOK'
    BY <1>6, <2>2 DEF LoopOK, NoSalvage
  <2>6. CallsNest'
    BY <1>1, <1>6, <2>2 DEF CallsNest
  <2>7. SalvageIsPlaced'
    <3>1. sal'.i = 1 /\ sal'.c = 1
      BY <2>2 DEF NoSalvage
    <3>2. dataPtr \in Pointers
      BY <1>2, BlockOfVolume
    <3>3. 1 \in DOMAIN Dvas[dataPtr] /\ Dvas[dataPtr][1].how = "leaf" =>
            1 <= Len(Dvas[dataPtr][1].cands)
      BY <3>2, DvasAssumption DEF Dva
    <3> QED
      BY <1>2, <2>3, <3>1, <3>3 DEF SalvageIsPlaced
  <2> QED
    BY <1>1, <2>4, <2>5, <2>6, <2>7, MemoryStays
<1> QED
  BY <1>2, <1>3, <1>4, <1>5, <1>6 DEF Outcomes

-----------------------------------------------------------------------------
\* The salvage.

\* It moves on, and stays placed.
LEMMA SalvageMovesOn ==
  ASSUME IInv, phase \in {"salvage", "explain"},
         UNCHANGED <<world, stack, ret, phase, level, err, results>>,
         MemoryOK', LedgerKeepsPolicy', IsFiniteSet(cache'),
         sal' \in [i : Nat \ {0}, c : Nat \ {0}, best : Kept \cup {"none"}],
         sal'.i \in DOMAIN Dvas[dataPtr] /\ Dvas[dataPtr][sal'.i].how = "leaf" =>
           sal'.c <= Len(Dvas[dataPtr][sal'.i].cands)
  PROVE  IInv'
<1> USE DEF IInv, TypeOK
<1>1. UNCHANGED <<vol, results, block, dataPtr>>
  BY DEF world, block, dataPtr
<1>2. WorldOK' /\ CallsOK' /\ LoopOK' /\ OnlyUncheckedBlocksAreWrong'
  BY <1>1 DEF WorldOK, CallsOK, LoopOK, OnlyUncheckedBlocksAreWrong, world
<1>3. CallsNest'
  BY DEF CallsNest
<1>4. SalvageIsPlaced'
  BY <1>1 DEF SalvageIsPlaced
<1> QED
  BY <1>2, <1>3, <1>4

\* The DVA the salvage is at, and the first leaf of any.
LEMMA SalvageIsAtALeaf ==
  ASSUME IInv, phase \in {"salvage", "explain"}, ~SalvageEnds
  PROVE  /\ salDva \in Dva /\ dataPtr \in Pointers
         /\ sal.i \in DOMAIN Dvas[dataPtr]
         /\ salDva.how = "leaf" => sal.c \in 1 .. Len(salDva.cands)
         /\ \A x \in DOMAIN Dvas[dataPtr] :
              Dvas[dataPtr][x].how = "leaf" => 1 <= Len(Dvas[dataPtr][x].cands)
<1> USE DEF IInv, TypeOK
<1>1. dataPtr \in Pointers
  BY BlockOfVolume DEF SalvageIsPlaced
<1>2. sal.i \in DOMAIN Dvas[dataPtr]
  BY <1>1, DvasAssumption DEF SalvageEnds, LoopOK
<1>3. salDva \in Dva
  BY <1>1, <1>2, DvasAssumption DEF salDva
<1>4. salDva.how = "leaf" => sal.c \in 1 .. Len(salDva.cands)
  <2>1. salDva.how = "leaf" => sal.c <= Len(salDva.cands)
    BY <1>2 DEF SalvageIsPlaced, salDva
  <2>2. sal.c \in Nat \ {0} /\ Len(salDva.cands) \in Nat
    BY <1>3 DEF LoopOK, Dva
  <2> QED
    BY <2>1, <2>2
<1>5. \A x \in DOMAIN Dvas[dataPtr] :
        Dvas[dataPtr][x].how = "leaf" => 1 <= Len(Dvas[dataPtr][x].cands)
  BY <1>1, DvasAssumption DEF Dva
<1> QED
  BY <1>1, <1>2, <1>3, <1>4, <1>5

LEMMA TrySalvageKeepsInv ==
  ASSUME IInv, TrySalvage
  PROVE  IInv'
<1> USE DEF IInv, TypeOK
<1>1. /\ phase \in {"salvage", "explain"} /\ ~SalvageEnds /\ salDva.how = "leaf"
      /\ UNCHANGED <<world, stack, ret, phase, level, err, results>>
  BY DEF TrySalvage
<1>2. /\ salDva \in Dva /\ dataPtr \in Pointers /\ sal.i \in DOMAIN Dvas[dataPtr]
      /\ sal.c \in 1 .. Len(salDva.cands)
      /\ \A x \in DOMAIN Dvas[dataPtr] :
           Dvas[dataPtr][x].how = "leaf" => 1 <= Len(Dvas[dataPtr][x].cands)
  BY <1>1, SalvageIsAtALeaf
<1> DEFINE more == sal.c < Len(salDva.cands)
           i == IF more THEN sal.i ELSE sal.i + 1
           c == IF more THEN sal.c + 1 ELSE 1
<1>3. PICK out \in Outcomes \cup Kept :
        /\ SalvageLeaf(salDva.cands[sal.c].dev, salDva.cands[sal.c].at, out)
        /\ sal' = [i |-> i, c |-> c,
                   best |-> IF out \in Kept /\ Better(out, sal.best) THEN out ELSE sal.best]
  BY DEF TrySalvage
<1>4. MemoryOK' /\ LedgerKeepsPolicy' /\ IsFiniteSet(cache')
  <2>1. salDva.cands \in Seq(Candidate)
    BY <1>2 DEF Dva
  <2>2. salDva.cands[sal.c] \in Candidate
    BY <1>2, <2>1
  <2>3. salDva.cands[sal.c].dev \in Devices /\ salDva.cands[sal.c].at \in Addresses
    BY <2>2 DEF Candidate
  <2> QED
    BY <1>1, <1>3, <2>3, LeafKeepsMemory
<1>5. sal.i \in Nat \ {0} /\ sal.c \in Nat \ {0} /\ sal.best \in Kept \cup {"none"}
  BY DEF LoopOK
<1>6. i \in Nat \ {0} /\ c \in Nat \ {0}
  BY <1>5
<1>7. i \in DOMAIN Dvas[dataPtr] /\ Dvas[dataPtr][i].how = "leaf" =>
        c <= Len(Dvas[dataPtr][i].cands)
  <2>1. CASE more
    <3>1. i = sal.i /\ c = sal.c + 1
      BY <2>1
    <3>2. sal.c + 1 <= Len(Dvas[dataPtr][sal.i].cands)
      BY <1>2, <2>1 DEF salDva
    <3> QED
      BY <3>1, <3>2
  <2>2. CASE ~more
    <3>1. c = 1
      BY <2>2
    <3> QED
      BY <1>2, <3>1
  <2> QED
    BY <2>1, <2>2
<1> DEFINE best == IF out \in Kept /\ Better(out, sal.best) THEN out ELSE sal.best
<1>8. best \in Kept \cup {"none"}
  BY <1>5
<1>9. sal' = [i |-> i, c |-> c, best |-> best]
  BY <1>3
<1> HIDE DEF i, c, best
<1>10. /\ sal' \in [i : Nat \ {0}, c : Nat \ {0}, best : Kept \cup {"none"}]
       /\ sal'.i = i /\ sal'.c = c
  BY <1>6, <1>8, <1>9
<1> QED
  BY <1>1, <1>4, <1>7, <1>10, SalvageMovesOn

LEMMA NotSalvagedKeepsInv ==
  ASSUME IInv, NotSalvaged
  PROVE  IInv'
<1> USE DEF IInv, TypeOK
<1>1. /\ phase \in {"salvage", "explain"} /\ ~SalvageEnds
      /\ UNCHANGED <<world, memory>>
      /\ UNCHANGED <<world, stack, ret, phase, level, err, results>>
  BY DEF NotSalvaged
<1>2. \A x \in DOMAIN Dvas[dataPtr] :
        Dvas[dataPtr][x].how = "leaf" => 1 <= Len(Dvas[dataPtr][x].cands)
  BY <1>1, SalvageIsAtALeaf
<1>3. /\ sal' \in [i : Nat \ {0}, c : Nat \ {0}, best : Kept \cup {"none"}]
      /\ sal'.c = 1
  <2> DEFINE next == sal.i + 1
  <2>1. sal \in [i : Nat \ {0}, c : Nat \ {0}, best : Kept \cup {"none"}] /\ next \in Nat \ {0}
    BY DEF LoopOK
  <2>2. sal' = [sal EXCEPT !.i = next, !.c = 1]
    BY DEF NotSalvaged
  <2>3. 1 \in Nat \ {0}
    OBVIOUS
  <2> HIDE DEF next
  <2>4. sal' \in [i : Nat \ {0}, c : Nat \ {0}, best : Kept \cup {"none"}]
    BY <2>1, <2>2, <2>3
  <2>5. sal'.c = 1
    BY <2>1, <2>2
  <2> QED
    BY <2>4, <2>5
<1> QED
  BY <1>1, <1>2, <1>3, SalvageMovesOn, MemoryStays

LEMMA EndSalvageKeepsInv ==
  ASSUME IInv, EndSalvage
  PROVE  IInv'
<1> USE DEF IInv, TypeOK
<1>1. /\ phase = "salvage" /\ UNCHANGED <<world, memory, stack, ret>>
      /\ Len(results) < Len(vol) /\ block.path # <<>>
  BY DEF EndSalvage, SalvageIsPlaced
<1>2. stack' = <<>> /\ ret' = "none" /\ UNCHANGED <<world, memory>>
  BY <1>1 DEF CallsNest
<1>3. err \in Errors \cup {"none"}
  BY DEF LoopOK
<1>4. CASE sal.best \in Bytes /\ SalvageVerifies /\ Deliver(sal.best, "none")
  <2>1. sal.best = "true" /\ sal.best \in Kept
    BY <1>4 DEF SalvageVerifies, Kept
  <2> QED
    BY <1>1, <1>2, <1>4, <2>1, DeliverKeepsInv
<1>5. CASE sal.best \in {"part", "void"} /\ Deliver(sal.best, err)
  <2>1. sal.best \in Kept /\ sal.best # "false"
    BY <1>5 DEF Kept
  <2> QED
    BY <1>1, <1>2, <1>3, <1>5, <2>1, DeliverKeepsInv
<1>6. CASE phase' = "explain" /\ sal' = NoSalvage /\ UNCHANGED <<level, err, results>>
  <2>1. UNCHANGED <<vol, results, block, dataPtr>>
    BY <1>2, <1>6 DEF world, block, dataPtr
  <2>2. WorldOK' /\ CallsOK' /\ OnlyUncheckedBlocksAreWrong'
    BY <1>1, <1>6, <2>1 DEF WorldOK, CallsOK, OnlyUncheckedBlocksAreWrong, world
  <2>3. LoopOK'
    BY <1>6 DEF LoopOK, NoSalvage
  <2>4. CallsNest'
    BY <1>2, <1>6 DEF CallsNest
  <2>5. SalvageIsPlaced'
    <3>1. sal'.i = 1 /\ sal'.c = 1
      BY <1>6 DEF NoSalvage
    <3>2. dataPtr \in Pointers
      BY <1>1, BlockOfVolume
    <3>3. 1 \in DOMAIN Dvas[dataPtr] /\ Dvas[dataPtr][1].how = "leaf" =>
            1 <= Len(Dvas[dataPtr][1].cands)
      BY <3>2, DvasAssumption DEF Dva
    <3> QED
      BY <1>1, <2>1, <3>1, <3>3 DEF SalvageIsPlaced
  <2> QED
    BY <1>2, <2>2, <2>3, <2>4, <2>5, MemoryStays
<1> QED
  BY <1>4, <1>5, <1>6 DEF EndSalvage

LEMMA EndExplainKeepsInv ==
  ASSUME IInv, EndExplain
  PROVE  IInv'
<1> USE DEF IInv, TypeOK
<1>1. /\ phase = "explain" /\ UNCHANGED <<world, memory, stack, ret>> /\ Deliver("zero", err)
      /\ Len(results) < Len(vol)
  BY DEF EndExplain, SalvageIsPlaced
<1>2. stack' = <<>> /\ ret' = "none" /\ UNCHANGED <<world, memory>>
  BY <1>1 DEF CallsNest
<1>3. err \in Errors \cup {"none"}
  BY DEF LoopOK
<1> QED
  BY <1>1, <1>2, <1>3, DeliverKeepsInv

\* Nothing is left to read.
LEMMA EndKeepsInv ==
  ASSUME IInv, Finish \/ Done \/ UNCHANGED vars
  PROVE  IInv'
<1> USE DEF IInv, TypeOK
<1>1. UNCHANGED <<world, memory, stack, ret, level, err, sal, results>>
  BY DEF Finish, Done, vars, loop, memory, io
<1>2. phase' = phase \/ (phase = "next" /\ phase' = "done")
  BY DEF Finish, Done, vars, loop
<1>3. UNCHANGED <<vol, block, dataPtr>>
  BY <1>1 DEF world, block, dataPtr
<1>4. WorldOK' /\ CallsOK' /\ OnlyUncheckedBlocksAreWrong'
  BY <1>1, <1>3 DEF WorldOK, CallsOK, OnlyUncheckedBlocksAreWrong, world
<1>5. LoopOK'
  BY <1>1, <1>2 DEF LoopOK
<1>6. CallsNest'
  BY <1>1, <1>2, <1>3 DEF CallsNest
<1>7. SalvageIsPlaced'
  BY <1>1, <1>2, <1>3 DEF SalvageIsPlaced
<1> QED
  BY <1>1, <1>4, <1>5, <1>6, <1>7, MemoryStays

-----------------------------------------------------------------------------
\* The theorems.

LEMMA InitInv == Init => IInv
<1> SUFFICES ASSUME Init PROVE IInv
  OBVIOUS
<1>1. WorldOK
  <2>0. PICK bad \in SUBSET Slots : \E cell \in [bad -> Cells \ {"good"}] :
          medium = [d \in Devices |-> [a \in Addresses |->
                      IF <<d, a>> \in bad THEN cell[<<d, a>>] ELSE "good"]]
    BY DEF Init
  <2>1. PICK cell \in [bad -> Cells \ {"good"}] :
          medium = [d \in Devices |-> [a \in Addresses |->
                      IF <<d, a>> \in bad THEN cell[<<d, a>>] ELSE "good"]]
    BY <2>0
  <2>2. \A d \in Devices, a \in Addresses :
          (IF <<d, a>> \in bad THEN cell[<<d, a>>] ELSE "good") \in Cells
    BY DEF Cells
  <2>3. medium \in [Devices -> [Addresses -> Cells]]
    BY <2>1, <2>2
  <2> QED
    BY <2>3 DEF Init, WorldOK
<1>2. IsFiniteSet(cache) /\ Cardinality(cache) = 0 /\ cache \subseteq Slots
  BY FS_EmptySet DEF Init
<1>3. MemoryOK
  <2>1. incidents \in Seq([dev : Devices, at : Addresses, stopped : BOOLEAN])
    BY DEF Init
  <2>2. windows \in [Devices -> Seq(Addresses)] /\ \A d \in Devices : Len(windows[d]) <= WINDOWS
    BY LimitsAssumption DEF Init
  <2>3. asked \in [Devices -> [Addresses -> 0 .. 2]]
    BY DEF Init
  <2>4. Cardinality(cache) <= Budget
    BY <1>2, LimitsAssumption
  <2>5. mediumStop \in BOOLEAN
    BY DEF Init
  <2> QED
    BY <1>2, <2>1, <2>2, <2>3, <2>4, <2>5 DEF MemoryOK
<1>4. CallsOK /\ LoopOK
  BY DEF Init, CallsOK, LoopOK, NoSalvage, Kept, Bytes
<1>5. LedgerKeepsPolicy
  BY LimitsAssumption DEF Init, LedgerKeepsPolicy, Allowed
<1>6. CallsNest /\ SalvageIsPlaced /\ OnlyUncheckedBlocksAreWrong
  BY DEF Init, CallsNest, SalvageIsPlaced, OnlyUncheckedBlocksAreWrong
<1> QED
  BY <1>1, <1>2, <1>3, <1>4, <1>5, <1>6 DEF IInv, TypeOK

LEMMA StepInv == IInv /\ [Next]_vars => IInv'
<1> SUFFICES ASSUME IInv, [Next]_vars PROVE IInv'
  OBVIOUS
<1>1. CASE HoleBlock \/ StartBlock
  BY <1>1, BlockBeginsKeepsInv
<1>2. CASE TryLeaf
  BY <1>2, TryLeafKeepsInv
<1>3. CASE TryCandidate
  BY <1>3, TryCandidateKeepsInv
<1>4. CASE JoinPieces
  BY <1>4, JoinPiecesKeepsInv
<1>5. CASE OpenGang
  BY <1>5, OpenGangKeepsInv
<1>6. CASE GangTooDeep \/ UnknownVdev
  BY <1>6, GivenUpKeepsInv
<1>7. CASE NoCopyLeft
  BY <1>7, NoCopyLeftKeepsInv
<1>8. CASE ChildRead
  BY <1>8, ChildReadKeepsInv
<1>9. CASE BlockRead
  BY <1>9, BlockReadKeepsInv
<1>10. CASE TrySalvage
  BY <1>10, TrySalvageKeepsInv
<1>11. CASE NotSalvaged
  BY <1>11, NotSalvagedKeepsInv
<1>12. CASE EndSalvage
  BY <1>12, EndSalvageKeepsInv
<1>13. CASE EndExplain
  BY <1>13, EndExplainKeepsInv
<1>14. CASE Finish \/ Done \/ UNCHANGED vars
  BY <1>14, EndKeepsInv
<1> QED
  BY <1>1, <1>2, <1>3, <1>4, <1>5, <1>6, <1>7, <1>8, <1>9, <1>10, <1>11, <1>12, <1>13, <1>14
     DEF Next

\* The inductive invariant holds of every pool, volume and policy.
LEMMA InvHolds == Spec => []IInv
BY InitInv, StepInv, PTL DEF Spec

\* For every pool and volume: values keep their types, every source's windows
\* stay within WINDOWS reads, and the block cache stays within its budget.
THEOREM TypesAndBounds == Spec => []TypeOK
<1>1. IInv => TypeOK
  BY DEF IInv
<1> QED
  BY <1>1, InvHolds, PTL

\* However many readers share the ledger, it never holds more refusals than the
\* policy allows, the one that fills it stops the run, and the block reader
\* remembers the stop exactly from then on.
THEOREM LedgerAlwaysKeepsPolicy == Spec => []LedgerKeepsPolicy
<1>1. IInv => LedgerKeepsPolicy
  BY DEF IInv
<1> QED
  BY <1>1, InvHolds, PTL

\* Whatever is wrong with a pool, no copy, gang child, joined piece or second
\* reading that fails its checksum is ever delivered as a block.
THEOREM NoBlockIsSilentlyWrong == Spec => []OnlyUncheckedBlocksAreWrong
<1>1. IInv => OnlyUncheckedBlocksAreWrong
  BY DEF IInv
<1> QED
  BY <1>1, InvHolds, PTL

\* A read of a leaf after the stop is answered from memory.
LEMMA LeafAfterStop ==
  ASSUME mediumStop, NEW d, NEW a, NEW out, ReadLeaf(d, a, out) \/ SalvageLeaf(d, a, out)
  PROVE  UNCHANGED memory
BY DEF ReadLeaf, SalvageLeaf, Preamble, Asks

\* Once a refusal has stopped the run nothing is asked of any device, by any
\* of the paths that read one.
THEOREM StopIsFinal == Spec => NothingAskedAfterStop
<1> DEFINE Asked == (\E n \in DOMAIN incidents : incidents[n].stopped) =>
                      asked' = asked /\ incidents' = incidents
<1>1. IInv /\ [Next]_vars => [Asked]_vars
  <2> SUFFICES ASSUME IInv, [Next]_vars, NEW n \in DOMAIN incidents, incidents[n].stopped
               PROVE  asked' = asked /\ incidents' = incidents
    BY DEF Asked
  <2>1. mediumStop
    <3>1. Len(incidents) \in Nat /\ n \in 1 .. Len(incidents)
      BY DEF IInv, TypeOK, MemoryOK
    <3>2. Allowed \in Nat /\ Len(incidents) <= Allowed /\ n = Allowed
      BY LimitsAssumption DEF IInv, LedgerKeepsPolicy, Allowed
    <3>3. Len(incidents) = Allowed
      BY <3>1, <3>2
    <3> QED
      BY <3>3 DEF IInv, LedgerKeepsPolicy
  <2>2. CASE UNCHANGED memory
    BY <2>2 DEF memory, io
  <2>3. CASE TryLeaf
    <3>1. PICK d, a, out : ReadLeaf(d, a, out)
      BY <2>3 DEF TryLeaf
    <3> QED
      BY <2>1, <2>2, <3>1, LeafAfterStop
  <2>4. CASE TryCandidate
    <3>1. PICK d, a, out : ReadLeaf(d, a, out)
      BY <2>4 DEF TryCandidate
    <3> QED
      BY <2>1, <2>2, <3>1, LeafAfterStop
  <2>5. CASE TrySalvage
    <3>1. PICK d, a, out : SalvageLeaf(d, a, out)
      BY <2>5 DEF TrySalvage
    <3> QED
      BY <2>1, <2>2, <3>1, LeafAfterStop
  <2>6. CASE \/ HoleBlock \/ StartBlock \/ JoinPieces \/ OpenGang \/ GangTooDeep
             \/ UnknownVdev \/ NoCopyLeft \/ ChildRead \/ BlockRead \/ NotSalvaged
             \/ EndSalvage \/ EndExplain \/ Finish \/ Done \/ UNCHANGED vars
    <3>1. UNCHANGED memory
      BY <2>6 DEF HoleBlock, StartBlock, JoinPieces, OpenGang, GangTooDeep, UnknownVdev,
                  NoCopyLeft, ChildRead, BlockRead, NotSalvaged, EndSalvage, EndExplain,
                  Finish, Done, vars
    <3> QED
      BY <2>2, <3>1
  <2> QED
    BY <2>3, <2>4, <2>5, <2>6 DEF Next
<1> QED
  BY <1>1, InvHolds, PTL DEF Spec, NothingAskedAfterStop

\* The run stays stopped.
LEMMA StopStays ==
  ASSUME [Next]_vars, mediumStop
  PROVE  mediumStop'
<1>1. CASE UNCHANGED memory
  BY <1>1 DEF memory
<1>2. CASE TryLeaf
  <2>1. PICK d, a, out : ReadLeaf(d, a, out)
    BY <1>2 DEF TryLeaf
  <2> QED
    BY <1>1, <2>1, LeafAfterStop
<1>3. CASE TryCandidate
  <2>1. PICK d, a, out : ReadLeaf(d, a, out)
    BY <1>3 DEF TryCandidate
  <2> QED
    BY <1>1, <2>1, LeafAfterStop
<1>4. CASE TrySalvage
  <2>1. PICK d, a, out : SalvageLeaf(d, a, out)
    BY <1>4 DEF TrySalvage
  <2> QED
    BY <1>1, <2>1, LeafAfterStop
<1>5. CASE \/ HoleBlock \/ StartBlock \/ JoinPieces \/ OpenGang \/ GangTooDeep
           \/ UnknownVdev \/ NoCopyLeft \/ ChildRead \/ BlockRead \/ NotSalvaged
           \/ EndSalvage \/ EndExplain \/ Finish \/ Done \/ UNCHANGED vars
  <2>1. UNCHANGED memory
    BY <1>5 DEF HoleBlock, StartBlock, JoinPieces, OpenGang, GangTooDeep, UnknownVdev,
                NoCopyLeft, ChildRead, BlockRead, NotSalvaged, EndSalvage, EndExplain,
                Finish, Done, vars
  <2> QED
    BY <1>1, <2>1
<1> QED
  BY <1>2, <1>3, <1>4, <1>5 DEF Next

\* A salvage the stop came into has no whole copy, and gets none.
NoWholeCopyAfterStop == mediumStop /\ phase \in {"salvage", "explain"} => sal.best \notin Bytes

\* The read that met the stop, and any after it, gives nothing to keep.
LEMMA TrySalvageAfterStop ==
  ASSUME TrySalvage, mediumStop'
  PROVE  sal'.best = sal.best /\ sal.best \notin Bytes
<1>1. PICK out \in Outcomes \cup Kept :
        /\ SalvageLeaf(salDva.cands[sal.c].dev, salDva.cands[sal.c].at, out)
        /\ sal' = [i |-> IF sal.c < Len(salDva.cands) THEN sal.i ELSE sal.i + 1,
                   c |-> IF sal.c < Len(salDva.cands) THEN sal.c + 1 ELSE 1,
                   best |-> IF out \in Kept /\ Better(out, sal.best) THEN out ELSE sal.best]
  BY DEF TrySalvage
<1>2. out \notin Kept
  <2>1. CASE Preamble(salDva.cands[sal.c].dev, salDva.cands[sal.c].at, out)
    <3>1. mediumStop
      BY <2>1 DEF Preamble, memory
    <3> QED
      BY <2>1, <3>1 DEF Preamble, Kept, Bytes
  <2>2. CASE /\ Asks(salDva.cands[sal.c].dev, salDva.cands[sal.c].at)
             /\ Keep(salDva.cands[sal.c].dev, salDva.cands[sal.c].at, out)
    BY <2>2 DEF Asks, Keep, Kept, Bytes
  <2> QED
    BY <1>1, <2>1, <2>2 DEF SalvageLeaf
<1>3. sal.best \notin Bytes
  BY DEF TrySalvage, SalvageEnds
<1> QED
  BY <1>1, <1>2, <1>3

\* No step after the stop finds one.
LEMMA NoWholeCopyStays ==
  ASSUME IInv, NoWholeCopyAfterStop, [Next]_vars
  PROVE  NoWholeCopyAfterStop'
<1> SUFFICES ASSUME mediumStop', phase' \in {"salvage", "explain"}
             PROVE  sal'.best \notin Bytes
  BY DEF NoWholeCopyAfterStop, Bytes
<1>1. CASE UNCHANGED <<mediumStop, phase, sal>>
  BY <1>1 DEF NoWholeCopyAfterStop
<1>2. CASE BlockRead
  <2>1. sal' = NoSalvage
    BY <1>2 DEF BlockRead, Deliver
  <2> QED
    BY <2>1 DEF NoSalvage, Bytes
<1>3. CASE TrySalvage
  BY <1>3, TrySalvageAfterStop
<1>4. CASE NotSalvaged
  <2>1. sal.best \notin Bytes /\ sal'.best = sal.best
    BY <1>4 DEF NotSalvaged, SalvageEnds, IInv, TypeOK, LoopOK
  <2> QED
    BY <2>1
<1>5. CASE EndSalvage \/ EndExplain
  <2>1. sal' = NoSalvage
    BY <1>5 DEF EndSalvage, EndExplain, Deliver
  <2> QED
    BY <2>1 DEF NoSalvage, Bytes
<1>6. CASE \/ HoleBlock \/ StartBlock \/ Finish
  BY <1>6 DEF HoleBlock, StartBlock, Finish, Deliver
<1>7. CASE TryLeaf \/ TryCandidate \/ JoinPieces \/ OpenGang \/ GangTooDeep \/ UnknownVdev
           \/ NoCopyLeft \/ ChildRead
  BY <1>7 DEF TryLeaf, TryCandidate, JoinPieces, OpenGang, GangTooDeep, UnknownVdev, NoCopyLeft,
              ChildRead, Reads, Reading, loop
<1>8. CASE Done \/ UNCHANGED vars
  BY <1>1, <1>8 DEF Done, vars, memory, loop
<1> QED
  BY <1>2, <1>3, <1>4, <1>5, <1>6, <1>7, <1>8 DEF Next

\* Once a refusal has stopped the run no block is delivered whole: the one being
\* read is the stop, the one being salvaged stays as it was kept at the refusal,
\* and no salvage begins.
THEOREM StopIsNeverOverridden == Spec => StopWinsOverTheBlock
<1> DEFINE Ended ==
             \/ results' = Append(results, [got |-> "stop", why |-> "stop"]) /\ phase' = "done"
             \/ phase = "next" /\ results' = Append(results, [got |-> "hole", why |-> "none"])
             \/ /\ phase \in {"salvage", "explain"}
                /\ \E got \in {"part", "void", "zero"} :
                     results' = Append(results, [got |-> got, why |-> err])
           Wins == mediumStop =>
             /\ results' # results => Ended
             /\ phase' \in {"salvage", "explain"} =>
                  phase \in {"salvage", "explain"} /\ sal'.best \in {"none", sal.best}
<1>1. IInv /\ NoWholeCopyAfterStop /\ [Next]_vars => [Wins]_vars
  <2> SUFFICES ASSUME IInv, NoWholeCopyAfterStop, [Next]_vars, mediumStop
               PROVE  /\ results' # results => Ended
                      /\ phase' \in {"salvage", "explain"} =>
                           phase \in {"salvage", "explain"} /\ sal'.best \in {"none", sal.best}
    BY DEF Wins
  <2> HIDE DEF Wins
  <2>1. CASE HoleBlock \/ StartBlock \/ Finish
    <3> QED
      BY <2>1 DEF HoleBlock, StartBlock, Finish, Deliver
  <2>2. CASE BlockRead
    <3>1. BlockAnswer = "stop"
      BY DEF BlockAnswer
    <3>2. Deliver("stop", "stop")
      BY <2>2, <3>1 DEF BlockRead, Bytes
    <3> QED
      BY <3>2 DEF Deliver
  <2>3. CASE TrySalvage
    <3>1. mediumStop'
      BY StopStays
    <3>2. sal'.best = sal.best
      BY <2>3, <3>1, TrySalvageAfterStop
    <3> QED
      BY <2>3, <3>2 DEF TrySalvage
  <2>4. CASE NotSalvaged
    <3>1. sal'.best = sal.best
      BY <2>4 DEF NotSalvaged, IInv, TypeOK, LoopOK
    <3> QED
      BY <2>4, <3>1 DEF NotSalvaged
  <2>5. CASE EndSalvage
    <3>1. sal.best \notin Bytes
      BY <2>5 DEF EndSalvage, NoWholeCopyAfterStop
    <3> QED
      BY <2>5, <3>1 DEF EndSalvage, Deliver, NoSalvage
  <2>6. CASE EndExplain
    BY <2>6 DEF EndExplain, Deliver
  <2>7. CASE TryLeaf \/ TryCandidate \/ JoinPieces \/ OpenGang \/ GangTooDeep \/ UnknownVdev
             \/ NoCopyLeft \/ ChildRead
    BY <2>7 DEF TryLeaf, TryCandidate, JoinPieces, OpenGang, GangTooDeep, UnknownVdev, NoCopyLeft,
                ChildRead, Reads, Reading, loop
  <2>8. CASE Done \/ UNCHANGED vars
    BY <2>8 DEF Done, vars, loop
  <2> QED
    BY <2>1, <2>2, <2>3, <2>4, <2>5, <2>6, <2>7, <2>8 DEF Next
<1>2. Init => NoWholeCopyAfterStop
  BY DEF Init, NoWholeCopyAfterStop
<1>3. IInv /\ NoWholeCopyAfterStop /\ [Next]_vars => NoWholeCopyAfterStop'
  BY NoWholeCopyStays
<1> QED
  BY <1>1, <1>2, <1>3, InvHolds, PTL DEF Spec, StopWinsOverTheBlock

-----------------------------------------------------------------------------
\* Which copy a salvage keeps.

\* Candidate n of DVA x is an image that was taken in part.
HoldsPart(p, x, n) ==
  LET c == Dvas[p][x].cands[n]
  IN  Dvas[p][x].how = "leaf" /\ kind[c.dev] = "image" /\ medium[c.dev][c.at] = "partly"

\* The best copy so far is no worse than a partial one the salvage is past.
PartsKept(p, s) ==
  \A x \in DOMAIN Dvas[p] : \A n \in DOMAIN Dvas[p][x].cands :
    (x < s.i \/ (x = s.i /\ n < s.c)) /\ HoldsPart(p, x, n) => s.best \in Bytes \cup {"part"}
BestSoFar == steady /\ ~mediumStop /\ phase = "salvage" => PartsKept(dataPtr, sal)

\* A block left empty although some image holds part of it is the last that
\* was read.
EmptyIsLast ==
  steady =>
    \A k \in DOMAIN results :
      results[k].got = "void" /\ PartlyThere(k) =>
        StoppedAt(k) /\ phase \notin {"salvage", "explain"}

SalvageInv == BestSoFar /\ EmptyIsLast

\* What the world holds stays.
LEMMA PartlyStays ==
  ASSUME UNCHANGED world
  PROVE  /\ UNCHANGED <<steady, vol, kind, medium>>
         /\ \A k : PartlyThere(k)' <=> PartlyThere(k)
         /\ \A p, x, n : HoldsPart(p, x, n)' <=> HoldsPart(p, x, n)
<1>1. UNCHANGED <<steady, vol, kind, medium>>
  BY DEF world
<1>2. \A k : PartlyThere(k)' <=> PartlyThere(k)
  BY <1>1 DEF PartlyThere, DataPtr
<1>3. \A p, x, n : HoldsPart(p, x, n)' <=> HoldsPart(p, x, n)
  BY <1>1 DEF HoldsPart
<1> QED
  BY <1>1, <1>2, <1>3

\* A block is delivered: empty only if no image holds part of it or the run
\* was stopped, and after an empty one only as what a stopped run delivers.
LEMMA DeliverKeepsEmptyLast ==
  ASSUME IInv, EmptyIsLast, NEW got, NEW why, Deliver(got, why), UNCHANGED <<world, memory>>,
         Len(results) < Len(vol),
         steady /\ got = "void" /\ PartlyThere(Len(results) + 1) => mediumStop,
         steady /\ (\E k \in DOMAIN results : results[k].got = "void" /\ PartlyThere(k)) =>
           got \in {"hole", "stop"}
  PROVE  SalvageInv'
<1> DEFINE r == [got |-> got, why |-> why]
           n == Len(results) + 1
<1>1. results \in Seq([got : Kept \cup {"hole", "zero", "stop", "aborted"},
                       why : Errors \cup {"none"}])
  BY DEF IInv, TypeOK, LoopOK
<1>2. /\ results' = Append(results, r) /\ phase' \in {"next", "done"}
      /\ r.got = got
  BY DEF Deliver
<1> HIDE DEF r
<1>3. /\ DOMAIN results = 1 .. Len(results) /\ DOMAIN results' = 1 .. n /\ Len(results) \in Nat
      /\ \A k \in DOMAIN results : results'[k] = results[k]
      /\ results'[n] = r
  BY <1>1, <1>2
<1>4. /\ UNCHANGED <<steady, vol, kind, medium, mediumStop>>
      /\ \A k : PartlyThere(k)' <=> PartlyThere(k)
  BY PartlyStays DEF memory
<1>5. ASSUME steady, NEW k \in DOMAIN results', results'[k].got = "void", PartlyThere(k)
      PROVE  StoppedAt(k)'
  <2>1. CASE k = n
    <3>1. mediumStop'
      BY <1>2, <1>3, <1>4, <1>5, <2>1
    <3>2. \A m \in DOMAIN results' : ~(m > k)
      BY <1>3, <2>1
    <3> QED
      BY <3>1, <3>2 DEF StoppedAt
  <2>2. CASE k \in DOMAIN results
    <3>1. results[k].got = "void"
      BY <1>3, <1>5, <2>2
    <3>2. StoppedAt(k)
      BY <1>5, <2>2, <3>1 DEF EmptyIsLast
    <3>3. r.got \in {"hole", "stop"}
      BY <1>2, <1>5, <2>2, <3>1
    <3>4. mediumStop'
      BY <1>4, <3>2 DEF StoppedAt
    <3>5. \A m \in DOMAIN results' : m > k => results'[m].got \in {"hole", "stop"}
      <4>1. ASSUME NEW m \in DOMAIN results', m > k
            PROVE  results'[m].got \in {"hole", "stop"}
        <5>1. CASE m = n
          BY <1>3, <3>3, <5>1
        <5>2. CASE m \in DOMAIN results
          BY <1>3, <3>2, <4>1, <5>2 DEF StoppedAt
        <5> QED
          BY <1>3, <5>1, <5>2
      <4> QED
        BY <4>1
    <3> QED
      BY <3>4, <3>5 DEF StoppedAt
  <2> QED
    BY <1>3, <1>5, <2>1, <2>2
<1>6. EmptyIsLast'
  BY <1>2, <1>4, <1>5 DEF EmptyIsLast
<1> QED
  BY <1>2, <1>6 DEF SalvageInv, BestSoFar

\* Nothing is delivered, and after an empty block nothing is salvaged.
LEMMA NoDeliveryKeepsEmptyLast ==
  ASSUME [Next]_vars, EmptyIsLast, UNCHANGED <<world, results>>,
         steady /\ phase' \in {"salvage", "explain"} =>
           phase \in {"salvage", "explain"} \/ ~mediumStop
  PROVE  EmptyIsLast'
<1>1. /\ UNCHANGED <<steady, vol, kind, medium>>
      /\ \A k : PartlyThere(k)' <=> PartlyThere(k)
  BY PartlyStays
<1>2. ASSUME steady, NEW k \in DOMAIN results, results[k].got = "void", PartlyThere(k)
      PROVE  StoppedAt(k)' /\ phase' \notin {"salvage", "explain"}
  <2>1. StoppedAt(k) /\ phase \notin {"salvage", "explain"}
    BY <1>2 DEF EmptyIsLast
  <2>2. mediumStop /\ mediumStop'
    BY <2>1, StopStays DEF StoppedAt
  <2>3. StoppedAt(k)'
    BY <2>1, <2>2 DEF StoppedAt
  <2> QED
    BY <1>2, <2>1, <2>2, <2>3
<1> QED
  BY <1>1, <1>2 DEF EmptyIsLast

\* Outside a salvage only a block whose answer is not the stop leads to one.
LEMMA BlockReadKeepsSalvage ==
  ASSUME IInv, SalvageInv, BlockRead
  PROVE  SalvageInv'
<1>1. /\ phase = "read" /\ ret # "none" /\ UNCHANGED <<world, memory>>
      /\ Len(results) < Len(vol)
  BY DEF BlockRead, IInv, CallsNest
<1>2. mediumStop => BlockAnswer = "stop"
  BY DEF BlockAnswer
<1>3. steady /\ (\E k \in DOMAIN results : results[k].got = "void" /\ PartlyThere(k)) => mediumStop
  BY DEF SalvageInv, EmptyIsLast, StoppedAt
<1>4. ASSUME NEW got, NEW why, Deliver(got, why), got # "void", mediumStop => got = "stop"
      PROVE  SalvageInv'
  BY <1>1, <1>3, <1>4, DeliverKeepsEmptyLast DEF SalvageInv
<1>5. CASE BlockAnswer \in Bytes /\ level < Len(block.path) /\ UNCHANGED <<phase, err, sal, results>>
  <2>1. EmptyIsLast'
    BY <1>1, <1>5, NoDeliveryKeepsEmptyLast DEF SalvageInv, BlockRead, Next
  <2> QED
    BY <1>1, <1>5, <2>1 DEF SalvageInv, BestSoFar
<1>6. CASE BlockAnswer \in Bytes /\ Deliver(IF block.hole THEN "hole" ELSE BlockAnswer, "none")
  <2>1. BlockAnswer # "stop" /\ (IF block.hole THEN "hole" ELSE BlockAnswer) # "void"
    BY <1>6 DEF Bytes
  <2> QED
    BY <1>2, <1>4, <1>6, <2>1
<1>7. CASE BlockAnswer = "stop" /\ Deliver("stop", BlockAnswer)
  BY <1>4, <1>7
<1>8. CASE BlockAnswer \in Errors \ {"stop"} /\ (Deliver("aborted", BlockAnswer) \/ Deliver("zero", BlockAnswer))
  BY <1>2, <1>4, <1>8
<1>9. CASE BlockAnswer \in Errors \ {"stop"} /\ phase' = "salvage" /\ sal' = NoSalvage /\ UNCHANGED results
  <2>1. EmptyIsLast'
    BY <1>1, <1>2, <1>9, NoDeliveryKeepsEmptyLast DEF SalvageInv, BlockRead, Next
  <2>2. PartsKept(dataPtr, NoSalvage)'
    <3>1. \A x \in DOMAIN Dvas[dataPtr'] :
            ~(x < 1) /\ \A n \in DOMAIN Dvas[dataPtr'][x].cands : ~(n < 1)
      <4>1. dataPtr' = dataPtr
        BY <1>1, <1>9 DEF dataPtr, block, world
      <4>2. dataPtr \in Pointers
        <5>1. level \in 1 .. Len(block.path)
          BY <1>1 DEF IInv, CallsNest
        <5>2. block.path # <<>>
          BY <1>1, <5>1, BlockOfVolume DEF IInv, TypeOK
        <5> QED
          BY <1>1, <5>2, BlockOfVolume DEF IInv, TypeOK
      <4>3. Dvas[dataPtr] \in Seq(Dva)
        BY <4>2, DvasAssumption
      <4>4. \A x \in DOMAIN Dvas[dataPtr] : Dvas[dataPtr][x].cands \in Seq(Candidate)
        <5>1. \A x \in DOMAIN Dvas[dataPtr] : Dvas[dataPtr][x] \in Dva
          BY <4>3
        <5> QED
          BY <5>1 DEF Dva
      <4> QED
        BY <4>1, <4>3, <4>4
    <3>2. NoSalvage.i = 1 /\ NoSalvage.c = 1
      BY DEF NoSalvage
    <3> QED
      BY <3>1, <3>2 DEF PartsKept
  <2> QED
    BY <1>9, <2>1, <2>2 DEF SalvageInv, BestSoFar
<1> QED
  BY <1>5, <1>6, <1>7, <1>8, <1>9 DEF BlockRead

\* What a salvage reads of an image that was taken in part is a part of it,
\* unless the run was stopped.
LEMMA PartIsKept ==
  ASSUME NEW d, NEW a, NEW out, SalvageLeaf(d, a, out),
         kind[d] = "image", medium[d][a] = "partly", ~mediumStop
  PROVE  out \in Bytes \cup {"part"}
<1>1. CASE Preamble(d, a, out)
  BY <1>1 DEF Preamble, BytesAt, Bytes
<1>2. CASE ReadAtSalvaging(d, a, out)
  BY <1>2 DEF ReadAtSalvaging, CanGive
<1> QED
  BY <1>1, <1>2 DEF SalvageLeaf

LEMMA TrySalvageKeepsSalvage ==
  ASSUME IInv, SalvageInv, TrySalvage
  PROVE  SalvageInv'
<1>1. /\ phase \in {"salvage", "explain"} /\ ~SalvageEnds /\ salDva.how = "leaf"
      /\ UNCHANGED <<world, stack, ret, phase, level, err, results>>
  BY DEF TrySalvage
<1>2. EmptyIsLast'
  BY <1>1, NoDeliveryKeepsEmptyLast DEF SalvageInv, Next
<1>3. /\ UNCHANGED <<steady, dataPtr>>
      /\ \A p, x, n : HoldsPart(p, x, n)' <=> HoldsPart(p, x, n)
  BY <1>1, PartlyStays DEF dataPtr, block
<1>4. /\ salDva \in Dva /\ sal.i \in DOMAIN Dvas[dataPtr] /\ sal.c \in 1 .. Len(salDva.cands)
      /\ dataPtr \in Pointers
  BY <1>1, SalvageIsAtALeaf
<1> DEFINE more == sal.c < Len(salDva.cands)
           i == IF more THEN sal.i ELSE sal.i + 1
           n == IF more THEN sal.c + 1 ELSE 1
           c == salDva.cands[sal.c]
<1>5. PICK out \in Outcomes \cup Kept :
        /\ SalvageLeaf(c.dev, c.at, out)
        /\ sal' = [i |-> i, c |-> n,
                   best |-> IF out \in Kept /\ Better(out, sal.best) THEN out ELSE sal.best]
  BY DEF TrySalvage
<1>6. ASSUME steady, ~mediumStop', phase = "salvage"
      PROVE  PartsKept(dataPtr, sal')
  <2>1. ~mediumStop /\ PartsKept(dataPtr, sal)
    <3>1. ~mediumStop
      BY <1>6, StopStays DEF Next
    <3> QED
      BY <1>6, <3>1 DEF SalvageInv, BestSoFar
  <2> DEFINE best == IF out \in Kept /\ Better(out, sal.best) THEN out ELSE sal.best
             Good == Bytes \cup {"part"}
  <2>2. sal.best \in Good => best \in Good
    BY DEF Better, Lost, Kept, Bytes
  <2>3. out \in Good => best \in Good
    <3>1. sal.best \in Kept \cup {"none"}
      BY DEF IInv, TypeOK, LoopOK
    <3> QED
      BY <3>1 DEF Better, Lost, Kept, Bytes
  <2>4. sal'.i = i /\ sal'.c = n /\ sal'.best = best
    BY <1>5
  <2>5. ASSUME NEW x \in DOMAIN Dvas[dataPtr], NEW m \in DOMAIN Dvas[dataPtr][x].cands,
               x < i \/ (x = i /\ m < n), HoldsPart(dataPtr, x, m)
        PROVE  best \in Good
    <3>1. \/ x < sal.i \/ (x = sal.i /\ m < sal.c)
          \/ x = sal.i /\ m = sal.c
      <4>1. Dvas[dataPtr] \in Seq(Dva)
        BY <1>4, DvasAssumption
      <4>2. x \in Nat \ {0} /\ sal.i \in Nat \ {0} /\ Dvas[dataPtr][x] \in Dva
        BY <1>4, <4>1
      <4>3. Dvas[dataPtr][x].cands \in Seq(Candidate)
        BY <4>2 DEF Dva
      <4>4. m \in 1 .. Len(Dvas[dataPtr][x].cands) /\ Len(Dvas[dataPtr][x].cands) \in Nat
        BY <4>3
      <4>5. salDva.cands \in Seq(Candidate) /\ salDva = Dvas[dataPtr][sal.i]
        BY <1>4 DEF Dva, salDva
      <4> QED
        BY <1>4, <2>5, <4>2, <4>4, <4>5
    <3>2. CASE x < sal.i \/ (x = sal.i /\ m < sal.c)
      BY <2>1, <2>2, <2>5, <3>2 DEF PartsKept
    <3>3. CASE x = sal.i /\ m = sal.c
      <4>1. kind[c.dev] = "image" /\ medium[c.dev][c.at] = "partly"
        BY <2>5, <3>3 DEF HoldsPart, salDva
      <4> HIDE DEF c
      <4>2. out \in Good
        BY <1>5, <2>1, <4>1, PartIsKept
      <4> HIDE DEF best, Good
      <4> QED
        BY <2>3, <4>2
    <3> QED
      BY <3>1, <3>2, <3>3
  <2> HIDE DEF best, i, n
  <2> QED
    BY <2>4, <2>5 DEF PartsKept
<1>7. BestSoFar'
  <2>1. PartsKept(dataPtr, sal)' <=> PartsKept(dataPtr, sal')
    BY <1>3 DEF PartsKept
  <2> QED
    BY <1>1, <1>3, <1>6, <2>1 DEF BestSoFar
<1> QED
  BY <1>2, <1>7 DEF SalvageInv

LEMMA NotSalvagedKeepsSalvage ==
  ASSUME IInv, SalvageInv, NotSalvaged
  PROVE  SalvageInv'
<1>1. /\ phase \in {"salvage", "explain"} /\ ~SalvageEnds /\ salDva.how # "leaf"
      /\ UNCHANGED <<world, memory, stack, ret, phase, level, err, results>>
  BY DEF NotSalvaged
<1>2. EmptyIsLast'
  BY <1>1, NoDeliveryKeepsEmptyLast DEF SalvageInv, Next
<1>3. /\ UNCHANGED <<steady, mediumStop, dataPtr>>
      /\ \A p, x, n : HoldsPart(p, x, n)' <=> HoldsPart(p, x, n)
  BY <1>1, PartlyStays DEF dataPtr, block, memory
<1>4. Dvas[dataPtr] \in Seq(Dva) /\ sal.i \in DOMAIN Dvas[dataPtr]
  BY <1>1, SalvageIsAtALeaf, DvasAssumption
<1>5. sal'.i = sal.i + 1 /\ sal'.c = 1 /\ sal'.best = sal.best
  BY DEF NotSalvaged, IInv, TypeOK, LoopOK
<1>6. ASSUME PartsKept(dataPtr, sal)
      PROVE  PartsKept(dataPtr, sal')
  <2>1. ASSUME NEW x \in DOMAIN Dvas[dataPtr], NEW n \in DOMAIN Dvas[dataPtr][x].cands,
               x < sal'.i \/ (x = sal'.i /\ n < sal'.c), HoldsPart(dataPtr, x, n)
        PROVE  sal.best \in Bytes \cup {"part"}
    <3>1. x # sal.i
      BY <1>1, <2>1 DEF HoldsPart, salDva
    <3>2. Dvas[dataPtr][x] \in Dva
      BY <1>4
    <3>3. n \in Nat \ {0}
      BY <3>2 DEF Dva
    <3>4. x < sal.i
      BY <1>4, <1>5, <2>1, <3>1, <3>3
    <3> QED
      BY <1>6, <2>1, <3>4 DEF PartsKept
  <2> QED
    BY <1>5, <2>1 DEF PartsKept
<1>7. BestSoFar'
  <2>1. PartsKept(dataPtr, sal)' <=> PartsKept(dataPtr, sal')
    BY <1>3 DEF PartsKept
  <2> QED
    BY <1>1, <1>3, <1>6, <2>1 DEF SalvageInv, BestSoFar
<1> QED
  BY <1>2, <1>7 DEF SalvageInv

\* A salvage that ends with nothing kept has been past every image.
LEMMA EndSalvageKeepsSalvage ==
  ASSUME IInv, SalvageInv, EndSalvage
  PROVE  SalvageInv'
<1>1. /\ phase = "salvage" /\ SalvageEnds /\ UNCHANGED <<world, memory>>
      /\ Len(results) < Len(vol)
  BY DEF EndSalvage, IInv, SalvageIsPlaced
<1>2. ~ (steady /\ \E k \in DOMAIN results : results[k].got = "void" /\ PartlyThere(k))
  BY <1>1 DEF SalvageInv, EmptyIsLast
<1>3. ASSUME steady, sal.best = "void", PartlyThere(Len(results) + 1)
      PROVE  mediumStop
  <2> SUFFICES ASSUME ~mediumStop PROVE FALSE
    OBVIOUS
  <2>1. DataPtr(Len(results) + 1) = dataPtr
    BY DEF DataPtr, dataPtr, block
  <2>2. PICK x \in DOMAIN Dvas[dataPtr] :
          /\ Dvas[dataPtr][x].how = "leaf"
          /\ \E n \in DOMAIN Dvas[dataPtr][x].cands : HoldsPart(dataPtr, x, n)
    BY <1>3, <2>1 DEF PartlyThere, HoldsPart
  <2>3. PICK n \in DOMAIN Dvas[dataPtr][x].cands : HoldsPart(dataPtr, x, n)
    BY <2>2
  <2>4. dataPtr \in Pointers
    BY <1>1, BlockOfVolume DEF IInv, TypeOK, SalvageIsPlaced
  <2>5. x < sal.i
    <3>1. sal.i > Len(Dvas[dataPtr])
      BY <1>1, <1>3 DEF SalvageEnds, Bytes
    <3>2. Dvas[dataPtr] \in Seq(Dva) /\ sal.i \in Nat
      BY <2>4, DvasAssumption DEF IInv, TypeOK, LoopOK
    <3> QED
      BY <3>1, <3>2
  <2>6. PartsKept(dataPtr, sal)
    BY <1>1, <1>3 DEF SalvageInv, BestSoFar
  <2>7. sal.best \in Bytes \cup {"part"}
    BY <2>3, <2>5, <2>6 DEF PartsKept
  <2> QED
    BY <1>3, <2>7 DEF Bytes
<1>4. ASSUME NEW got, NEW why, Deliver(got, why), got = sal.best
      PROVE  SalvageInv'
  BY <1>1, <1>2, <1>3, <1>4, DeliverKeepsEmptyLast DEF SalvageInv
<1>5. CASE phase' = "explain" /\ UNCHANGED results
  <2>1. EmptyIsLast'
    BY <1>1, <1>5, NoDeliveryKeepsEmptyLast DEF SalvageInv, Next
  <2> QED
    BY <1>5, <2>1 DEF SalvageInv, BestSoFar
<1> QED
  BY <1>4, <1>5 DEF EndSalvage

LEMMA EndExplainKeepsSalvage ==
  ASSUME IInv, SalvageInv, EndExplain
  PROVE  SalvageInv'
<1>1. /\ phase = "explain" /\ UNCHANGED <<world, memory>> /\ Deliver("zero", err)
      /\ Len(results) < Len(vol)
  BY DEF EndExplain, IInv, SalvageIsPlaced
<1>2. ~ (steady /\ \E k \in DOMAIN results : results[k].got = "void" /\ PartlyThere(k))
  BY <1>1 DEF SalvageInv, EmptyIsLast
<1> QED
  BY <1>1, <1>2, DeliverKeepsEmptyLast DEF SalvageInv

LEMMA OthersKeepSalvage ==
  ASSUME IInv, SalvageInv, [Next]_vars,
         UNCHANGED <<world, results>>, phase' \notin {"salvage", "explain"}
  PROVE  SalvageInv'
<1>1. EmptyIsLast'
  BY NoDeliveryKeepsEmptyLast DEF SalvageInv
<1> QED
  BY <1>1 DEF SalvageInv, BestSoFar

LEMMA StepKeepsSalvage == IInv /\ SalvageInv /\ [Next]_vars => SalvageInv'
<1> SUFFICES ASSUME IInv, SalvageInv, [Next]_vars PROVE SalvageInv'
  OBVIOUS
<1>1. CASE HoleBlock
  <2>1. Deliver("hole", "none") /\ UNCHANGED <<world, memory>> /\ Len(results) < Len(vol)
    BY <1>1 DEF HoleBlock
  <2> QED
    BY <2>1, DeliverKeepsEmptyLast DEF SalvageInv
<1>2. CASE BlockRead
  BY <1>2, BlockReadKeepsSalvage
<1>3. CASE TrySalvage
  BY <1>3, TrySalvageKeepsSalvage
<1>4. CASE NotSalvaged
  BY <1>4, NotSalvagedKeepsSalvage
<1>5. CASE EndSalvage
  BY <1>5, EndSalvageKeepsSalvage
<1>6. CASE EndExplain
  BY <1>6, EndExplainKeepsSalvage
<1>7. CASE StartBlock \/ Finish
  <2>1. UNCHANGED <<world, results>> /\ phase' \notin {"salvage", "explain"}
    BY <1>7 DEF StartBlock, Finish
  <2> QED
    BY <2>1, OthersKeepSalvage
<1>8. CASE TryLeaf \/ TryCandidate \/ JoinPieces \/ OpenGang \/ GangTooDeep \/ UnknownVdev
           \/ NoCopyLeft \/ ChildRead
  <2>1. UNCHANGED <<world, loop>> /\ phase = "read"
    BY <1>8 DEF TryLeaf, TryCandidate, JoinPieces, OpenGang, GangTooDeep, UnknownVdev,
                NoCopyLeft, ChildRead, Reads, Reading
  <2>2. UNCHANGED <<world, results>> /\ phase' = phase
    BY <2>1 DEF loop
  <2> QED
    BY <2>1, <2>2, OthersKeepSalvage
<1>9. CASE UNCHANGED vars
  <2>1. UNCHANGED <<world, results, phase, sal, mediumStop, steady, dataPtr>>
    BY <1>9 DEF vars, loop, world, memory, dataPtr, block
  <2>2. EmptyIsLast'
    BY <2>1, NoDeliveryKeepsEmptyLast DEF SalvageInv
  <2>3. PartsKept(dataPtr, sal)' <=> PartsKept(dataPtr, sal)
    BY <2>1, PartlyStays DEF PartsKept
  <2> QED
    BY <2>1, <2>2, <2>3 DEF SalvageInv, BestSoFar
<1>10. CASE Done
  BY <1>9, <1>10 DEF Done
<1> QED
  BY <1>1, <1>2, <1>3, <1>4, <1>5, <1>6, <1>7, <1>8, <1>9, <1>10 DEF Next

\* salvage, salvage_dva: of the copies that are on a disk or mirror the one
\* that lost least is kept; a block an image holds part of is left empty only
\* when a device that was asked again has stopped the run.
THEOREM KeepsTheBestSideHolds == Spec => []KeepsTheBestSide
<1>1. Init => SalvageInv
  BY DEF Init, SalvageInv, BestSoFar, EmptyIsLast
<1>2. SalvageInv => KeepsTheBestSide
  BY DEF SalvageInv, EmptyIsLast, KeepsTheBestSide
<1> QED
  BY <1>1, <1>2, InvHolds, StepKeepsSalvage, PTL DEF Spec

-----------------------------------------------------------------------------
\* Which blocks can be had.

\* DVA x of p gives its block, with so many levels of gang nesting to go.
Gives(p, x, levels) ==
  /\ levels = 0 => Dvas[p][x].how # "gang"
  /\ DvaGives(Dvas[p][x], IF levels = 0 THEN {} ELSE Fit(p, Obtainable[levels - 1]))

LEMMA ObtainableIsARecursion ==
  ASSUME NEW n \in Nat
  PROVE  Obtainable[n] = {p \in Pointers : \E x \in DOMAIN Dvas[p] : Gives(p, x, n)}
<1> DEFINE Some(m, T) ==
             {p \in Pointers : \E x \in DOMAIN Dvas[p] :
                /\ m = 0 => Dvas[p][x].how # "gang"
                /\ DvaGives(Dvas[p][x], IF m = 0 THEN {} ELSE Fit(p, T))}
           Is(f) == f = [m \in Nat |->
                           {p \in Pointers : \E x \in DOMAIN Dvas[p] :
                              /\ m = 0 => Dvas[p][x].how # "gang"
                              /\ DvaGives(Dvas[p][x], IF m = 0 THEN {} ELSE Fit(p, f[m - 1]))}]
           S == SUBSET Pointers
           step == [y \in Nat \X S |-> Some(y[1] + 1, y[2])]
           O == CHOOSE f : Is(f)
<1>1. \A m, T : Some(m, T) \in S
  OBVIOUS
<1>2. step \in [Nat \X S -> S] /\ Some(0, {}) \in S
  <2> HIDE DEF Some, S
  <2> QED
    BY <1>1
<1>3. PICK f : IsRecursion(f, S, Some(0, {}), step)
  <2> HIDE DEF Some, S, step
  <2> QED
    BY <1>2, RecursionIsDefined
<1>4. \A m \in Nat : f[m] = Some(m, f[m - 1])
  <2> SUFFICES ASSUME NEW m \in Nat PROVE f[m] = Some(m, f[m - 1])
    OBVIOUS
  <2>1. CASE m = 0
    BY <1>3, <2>1 DEF IsRecursion
  <2>2. CASE m # 0
    <3>1. m - 1 \in Nat /\ (m - 1) + 1 = m
      BY <2>2
    <3>2. f[m - 1] \in S /\ f[(m - 1) + 1] = step[<<m - 1, f[m - 1]>>]
      BY <1>3, <3>1 DEF IsRecursion
    <3>3. step[<<m - 1, f[m - 1]>>] = Some((m - 1) + 1, f[m - 1])
      <4> HIDE DEF Some, S
      <4> QED
        BY <3>1, <3>2
    <3> HIDE DEF Some, S, step
    <3> QED
      BY <3>1, <3>2, <3>3
  <2> QED
    BY <2>1, <2>2
<1>5. Is(f)
  <2>1. f = [m \in Nat |-> Some(m, f[m - 1])]
    <3> HIDE DEF Some, S
    <3> QED
      BY <1>3, <1>4 DEF IsRecursion
  <2> QED
    BY <2>1
<1>6. Is(O)
  <2> HIDE DEF Is
  <2> QED
    BY <1>5
<1>7. Obtainable = O
  BY DEF Obtainable
<1>8. Obtainable[n] = Some(n, Obtainable[n - 1])
  <2> HIDE DEF O
  <2> QED
    BY <1>6, <1>7
<1> QED
  BY <1>8 DEF Gives

\* The pool does not change, nor what can be had of it.
LEMMA CopiesStay ==
  ASSUME UNCHANGED world
  PROVE  /\ UNCHANGED <<steady, vol>> /\ Obtainable' = Obtainable
         /\ \A c : GoodAt(c)' <=> GoodAt(c)
         /\ \A p, x, n : Gives(p, x, n)' <=> Gives(p, x, n)
<1>1. UNCHANGED <<steady, vol, kind, medium>>
  BY DEF world
<1>2. \A c : GoodAt(c)' <=> GoodAt(c)
  BY <1>1 DEF GoodAt
<1>3. \A D, T : DvaGives(D, T)' <=> DvaGives(D, T)
  BY <1>2 DEF DvaGives
<1>4. Obtainable' = Obtainable
  BY <1>3 DEF Obtainable
<1>5. \A p, x, n : Gives(p, x, n)' <=> Gives(p, x, n)
  BY <1>3, <1>4 DEF Gives
<1> QED
  BY <1>1, <1>2, <1>4, <1>5

-----------------------------------------------------------------------------
\* What the calls in progress have passed over.

\* Levels of gang nesting below the n-th call.
Level(n) == MaxDepth + 2 - n

\* A call that has asked for a child is reading a gang block, and holds wrong
\* bytes only after a child without a checksum.
Stands(f) ==
  /\ f.child > 0 => f.i \in DOMAIN Dvas[f.ptr] /\ Dvas[f.ptr][f.i].how = "gang"
  /\ ~f.clean =>
       f.child > 0 /\ \E j \in 1 .. f.child - 1 : Dvas[f.ptr][f.i].children[j] \in Unchecked

\* Each call is for the child the call before it waits for.
Chained(st) ==
  /\ Len(st) <= MaxDepth + 2
  /\ \A n \in 1 .. Len(st) : Stands(st[n])
  /\ \A n \in 1 .. Len(st) - 1 :
       st[n].child > 0 /\ st[n + 1].ptr = Dvas[st[n].ptr][st[n].i].children[st[n].child]

\* No DVA that was given up could have given the block, nor can a leaf that
\* was tried; and a good header or piece was seen.
NothingGood(f, levels) ==
  /\ \A x \in DOMAIN Dvas[f.ptr] : x < f.i => ~Gives(f.ptr, x, levels)
  /\ f.i \in DOMAIN Dvas[f.ptr] =>
       \A c \in DOMAIN f.got :
         GoodAt(Dvas[f.ptr][f.i].cands[c]) =>
           Dvas[f.ptr][f.i].how # "leaf" /\ f.got[c] = "true"

MissNothing(st, r) ==
  /\ \A n \in 1 .. Len(st) : NothingGood(st[n], Level(n))
  /\ r \in Errors => st[Len(st)].ptr \notin Obtainable[Level(Len(st))]

Hopeless(b) ==
  \E x \in DOMAIN b.path : b.path[x] \notin Obtainable[MaxDepth + 1] \/ b.path[x] \in Sealed

CallsMissNothing ==
  phase = "read" => Chained(stack) /\ (steady /\ ~mediumStop => MissNothing(stack, ret))
FailuresAreHopeless ==
  steady =>
    /\ phase \in {"salvage", "explain"} => Hopeless(block)
    /\ \A k \in DOMAIN results :
         results[k].got \notin Bytes \cup {"hole", "stop"} => Hopeless(vol[k])
CopiesInv == CallsMissNothing /\ FailuresAreHopeless

LEMMA MissNext ==
  ASSUME UNCHANGED world
  PROVE  /\ \A st, r : MissNothing(st, r)' <=> MissNothing(st, r)
         /\ \A b : Hopeless(b)' <=> Hopeless(b)
<1>1. /\ Obtainable' = Obtainable
      /\ \A c : GoodAt(c)' <=> GoodAt(c)
      /\ \A p, x, n : Gives(p, x, n)' <=> Gives(p, x, n)
  BY CopiesStay
<1>2. \A f, n : NothingGood(f, n)' <=> NothingGood(f, n)
  BY <1>1 DEF NothingGood
<1> QED
  BY <1>1, <1>2 DEF MissNothing, Hopeless

\* A step of the calls.
LEMMA CallsGoOn ==
  ASSUME CopiesInv, phase = "read", UNCHANGED <<world, loop>>,
         Chained(stack'), steady /\ ~mediumStop' => MissNothing(stack', ret')
  PROVE  CopiesInv'
<1>1. UNCHANGED <<steady, vol, phase, results, block>>
  BY DEF world, loop, block
<1>2. CallsMissNothing'
  <2>1. MissNothing(stack, ret)' <=> MissNothing(stack', ret')
    BY MissNext
  <2> QED
    BY <1>1, <2>1 DEF CallsMissNothing
<1>3. FailuresAreHopeless'
  BY <1>1, MissNext DEF CopiesInv, FailuresAreHopeless
<1> QED
  BY <1>2, <1>3 DEF CopiesInv

\* A good copy that is read gives the block's bytes, or the run stops.
LEMMA GoodReads ==
  ASSUME steady, NEW c, GoodAt(c), NEW out, ReadLeaf(c.dev, c.at, out), ~mediumStop'
  PROVE  out = "true"
<1>1. BytesAt(c.dev, c.at) = "true" /\ CanGive(c.dev, c.at) /\ ~MayRefuse(c.dev, c.at)
      /\ medium[c.dev][c.at] \notin {"past", "partly", "refused"} /\ kind[c.dev] # "missing"
  BY DEF GoodAt, BytesAt, CanGive, MayRefuse
<1>2. CASE Preamble(c.dev, c.at, out)
  BY <1>1, <1>2 DEF Preamble, memory
<1>3. CASE ReadAt(c.dev, c.at, out) /\ Keep(c.dev, c.at, out)
  <2>1. out # "stop"
    BY <1>3 DEF Keep
  <2> QED
    BY <1>1, <1>3, <2>1 DEF ReadAt, AskSource
<1> QED
  BY <1>2, <1>3 DEF ReadLeaf

\* A call that begins has passed over nothing.
LEMMA CallMissesNothing ==
  ASSUME NEW p \in Pointers, NEW levels
  PROVE  Stands(Call(p)) /\ NothingGood(Call(p), levels)
<1>1. Call(p).ptr = p /\ Call(p).i = 1 /\ Call(p).got = <<>> /\ Call(p).child = 0 /\ Call(p).clean
  BY DEF Call
<1>2. \A x \in DOMAIN Dvas[p] : ~(x < 1)
  BY DvasAssumption
<1> HIDE DEF Call
<1>3. DOMAIN (<<>>) = {}
  OBVIOUS
<1> QED
  BY <1>1, <1>2, <1>3 DEF Stands, NothingGood

\* A DVA that could not have given the block is given up.
LEMMA FailDvaMissesNothing ==
  ASSUME NEW f \in Frame, NEW e \in Errors, NEW m \in BOOLEAN, NEW levels
  PROVE  /\ Stands(FailDva(f, e, m))
         /\ NothingGood(f, levels) /\ (f.i \in DOMAIN Dvas[f.ptr] => ~Gives(f.ptr, f.i, levels)) =>
              NothingGood(FailDva(f, e, m), levels)
<1> DEFINE g == FailDva(f, e, m)
<1>1. g.ptr = f.ptr /\ g.i = f.i + 1 /\ g.got = <<>> /\ g.child = 0 /\ g.clean
  <2> DEFINE either == f.flagged \/ m
             next == f.i + 1
  <2>1. g = [f EXCEPT !.i = next, !.got = <<>>, !.child = 0, !.clean = TRUE,
                      !.last = e, !.flagged = either]
    BY Zenon DEF FailDva
  <2> HIDE DEF either, g, next
  <2>2. g.ptr = f.ptr /\ g.i = next /\ g.got = <<>> /\ g.child = 0 /\ g.clean
    BY <2>1 DEF Frame
  <2> QED
    BY <2>2 DEF next
<1> HIDE DEF g
<1>2. \A x \in DOMAIN Dvas[f.ptr] : x < f.i + 1 => x < f.i \/ x = f.i
  <2>1. f.ptr \in Pointers /\ f.i \in Nat
    BY DEF Frame
  <2> QED
    BY <2>1, DvasAssumption
<1>3. DOMAIN (<<>>) = {}
  OBVIOUS
<1>4. Stands(g)
  BY <1>1 DEF Stands
<1>5. ASSUME NothingGood(f, levels), f.i \in DOMAIN Dvas[f.ptr] => ~Gives(f.ptr, f.i, levels)
      PROVE  NothingGood(g, levels)
  BY <1>1, <1>2, <1>3, <1>5 DEF NothingGood
<1> QED
  BY <1>4, <1>5 DEF g

\* The innermost call goes on with f.
LEMMA TopMissesNothing ==
  ASSUME IInv, CopiesInv, phase = "read", ret = "none",
         NEW f \in Frame, f.ptr = top.ptr, Stands(f),
         SetTop(f), UNCHANGED ret, UNCHANGED <<world, loop>>, [Next]_vars,
         ASSUME steady, ~mediumStop'
         PROVE  NothingGood(top, Level(Len(stack))) => NothingGood(f, Level(Len(stack)))
  PROVE  CopiesInv'
<1>1. /\ stack \in Seq(Frame) /\ Len(stack) \in Nat \ {0} /\ top = stack[Len(stack)]
  BY TopIsACall DEF IInv, TypeOK, CallsOK
<1>2. /\ Len(stack') = Len(stack) /\ stack'[Len(stack)] = f
      /\ \A n \in 1 .. Len(stack) - 1 : stack'[n] = stack[n]
  BY <1>1 DEF SetTop
<1>3. Chained(stack)
  BY DEF CopiesInv, CallsMissNothing
<1>4. Chained(stack')
  <2>1. Len(stack') <= MaxDepth + 2
    BY <1>2, <1>3 DEF Chained
  <2>2. \A n \in 1 .. Len(stack') : Stands(stack'[n])
    <3>1. \A n \in 1 .. Len(stack) : n = Len(stack) \/ n \in 1 .. Len(stack) - 1
      BY <1>1
    <3> QED
      BY <1>2, <1>3, <3>1 DEF Chained
  <2>3. ASSUME NEW n \in 1 .. Len(stack) - 1
        PROVE  /\ stack'[n].child > 0
               /\ stack'[n + 1].ptr = Dvas[stack'[n].ptr][stack'[n].i].children[stack'[n].child]
    <3>1. stack'[n] = stack[n] /\ stack'[n + 1].ptr = stack[n + 1].ptr
      <4>1. n + 1 = Len(stack) \/ n + 1 \in 1 .. Len(stack) - 1
        BY <1>1
      <4> QED
        BY <1>1, <1>2, <4>1
    <3> QED
      BY <1>3, <3>1 DEF Chained
  <2> QED
    BY <1>2, <2>1, <2>2, <2>3 DEF Chained
<1>5. ASSUME steady, ~mediumStop'
      PROVE  MissNothing(stack', ret')
  <2>1. ~mediumStop
    BY <1>5, StopStays
  <2>2. MissNothing(stack, ret)
    BY <1>5, <2>1 DEF CopiesInv, CallsMissNothing
  <2>3. NothingGood(f, Level(Len(stack)))
    <3>1. NothingGood(top, Level(Len(stack)))
      BY <1>1, <2>2 DEF MissNothing
    <3> QED
      BY <1>5, <3>1
  <2>4. \A n \in 1 .. Len(stack) : NothingGood(stack'[n], Level(n))
    <3>1. \A n \in 1 .. Len(stack) : n = Len(stack) \/ n \in 1 .. Len(stack) - 1
      BY <1>1
    <3> QED
      BY <1>2, <2>2, <2>3, <3>1 DEF MissNothing
  <2>5. ret' \notin Errors
    BY DEF Errors
  <2> QED
    BY <1>2, <2>4, <2>5 DEF MissNothing
<1> QED
  BY <1>4, <1>5, CallsGoOn

\* The innermost call returns: a failure only if the block cannot be had.
LEMMA TopReturnsHopeless ==
  ASSUME IInv, CopiesInv, phase = "read", ret = "none", UNCHANGED stack,
         UNCHANGED <<world, loop>>, [Next]_vars,
         ASSUME steady, ~mediumStop', NothingGood(top, Level(Len(stack)))
         PROVE  ret' \in Errors => top.ptr \notin Obtainable[Level(Len(stack))]
  PROVE  CopiesInv'
<1>1. /\ stack \in Seq(Frame) /\ Len(stack) \in Nat \ {0} /\ top = stack[Len(stack)]
  BY TopIsACall DEF IInv, TypeOK, CallsOK
<1>2. Chained(stack')
  BY DEF CopiesInv, CallsMissNothing
<1>3. ASSUME steady, ~mediumStop'
      PROVE  MissNothing(stack', ret')
  <2>1. ~mediumStop
    BY <1>3, StopStays
  <2>2. MissNothing(stack, ret)
    BY <1>3, <2>1 DEF CopiesInv, CallsMissNothing
  <2>3. NothingGood(top, Level(Len(stack)))
    BY <1>1, <2>2 DEF MissNothing
  <2>4. ret' \in Errors => top.ptr \notin Obtainable[Level(Len(stack))]
    BY <1>3, <2>3
  <2> QED
    BY <1>1, <2>2, <2>4 DEF MissNothing
<1> QED
  BY <1>2, <1>3, CallsGoOn

\* What a call is reading.
LEMMA TopReads ==
  ASSUME IInv, CopiesInv, phase = "read"
  PROVE  /\ top \in Frame /\ top.ptr \in Pointers /\ top.i \in Nat \ {0}
         /\ top.got \in Seq(Outcomes) /\ Stands(top)
         /\ Dvas[top.ptr] \in Seq(Dva)
         /\ Len(stack) \in Nat \ {0} /\ Len(stack) <= MaxDepth + 2
         /\ HasDva => top.i \in DOMAIN Dvas[top.ptr] /\ dva = Dvas[top.ptr][top.i] /\ dva \in Dva
<1>1. top \in Frame /\ Len(stack) \in Nat \ {0} /\ top = stack[Len(stack)]
  BY TopIsACall DEF IInv, TypeOK
<1>2. Chained(stack)
  BY DEF CopiesInv, CallsMissNothing
<1>3. Stands(top) /\ Len(stack) <= MaxDepth + 2
  BY <1>1, <1>2 DEF Chained
<1>4. top.ptr \in Pointers /\ top.i \in Nat \ {0} /\ top.got \in Seq(Outcomes)
  BY <1>1 DEF Frame
<1>5. Dvas[top.ptr] \in Seq(Dva)
  BY <1>4, DvasAssumption
<1>6. HasDva => top.i \in DOMAIN Dvas[top.ptr] /\ dva = Dvas[top.ptr][top.i] /\ dva \in Dva
  BY <1>4, <1>5 DEF HasDva, dva
<1> QED
  BY <1>1, <1>3, <1>4, <1>5, <1>6

\* A side of a mirror was tried and is not good.
LEMMA TryLeafMissesNothing ==
  ASSUME IInv, CopiesInv, TryLeaf
  PROVE  CopiesInv'
<1>1. /\ phase = "read" /\ ret = "none" /\ HasDva /\ dva.how = "leaf"
      /\ UNCHANGED <<world, loop>> /\ [Next]_vars
  BY DEF TryLeaf, Reads, Reading, Next
<1>2. /\ top \in Frame /\ top.ptr \in Pointers /\ top.i \in Nat \ {0}
      /\ top.got \in Seq(Outcomes) /\ Stands(top) /\ Dvas[top.ptr] \in Seq(Dva)
      /\ top.i \in DOMAIN Dvas[top.ptr] /\ dva = Dvas[top.ptr][top.i] /\ dva \in Dva
  BY <1>1, TopReads
<1>3. Len(top.got) < Len(dva.cands)
  BY <1>1, <1>2 DEF IInv, CallsNest, Runs, top, dva
<1> DEFINE c == dva.cands[Len(top.got) + 1]
<1>4. PICK out \in Outcomes :
        /\ ReadLeaf(c.dev, c.at, out)
        /\ IF out \in Bytes /\ Accepts(top.ptr, out)
           THEN ret' = out /\ UNCHANGED stack
           ELSE SetTop(AfterLeaf(top, out)) /\ UNCHANGED ret
  BY DEF TryLeaf
<1>5. CASE out \in Bytes /\ Accepts(top.ptr, out)
  <2>1. ret' \notin Errors /\ UNCHANGED stack
    BY <1>4, <1>5 DEF Bytes, Errors
  <2> QED
    BY <1>1, <2>1, TopReturnsHopeless
<1>6. CASE ~(out \in Bytes /\ Accepts(top.ptr, out))
  <2> DEFINE more == Len(top.got) + 1 < Len(dva.cands)
             seen == IF more THEN Append(top.got, out) ELSE <<>>
             next == IF more THEN top.i ELSE top.i + 1
             final == MoreTelling(top.last, IF out \in Bytes THEN "mismatch" ELSE out)
             either == top.flagged \/ out \in Bytes
             g == AfterLeaf(top, out)
  <2>1. SetTop(g) /\ UNCHANGED ret
    BY <1>4, <1>6
  <2>2. /\ g \in Frame /\ g.ptr = top.ptr /\ g.got = seen /\ g.i = next
        /\ g.child = top.child /\ g.clean = top.clean
    <3>1. seen \in Seq(Outcomes) /\ next \in Nat \ {0}
      BY <1>2 DEF Frame
    <3>2. final \in Errors /\ either \in BOOLEAN
      BY <1>2 DEF MoreTelling, Frame, Outcomes, Errors
    <3>3. g = [top EXCEPT !.got = seen, !.i = next, !.last = final, !.flagged = either]
      BY Zenon DEF AfterLeaf
    <3> HIDE DEF seen, next, final, either, g, more
    <3> QED
      BY <1>2, <3>1, <3>2, <3>3 DEF Frame
  <2> HIDE DEF g
  <2>3. Stands(g)
    <3>1. ~(top.child > 0) /\ top.clean
      BY <1>1, <1>2 DEF Stands
    <3> QED
      BY <2>2, <3>1 DEF Stands
  <2>4. ASSUME steady, ~mediumStop', NothingGood(top, Level(Len(stack)))
        PROVE  NothingGood(g, Level(Len(stack)))
    <3>1. ~GoodAt(c)
      <4> SUFFICES ASSUME GoodAt(c) PROVE FALSE
        OBVIOUS
      <4>1. out = "true"
        <5> HIDE DEF c
        <5> QED
          BY <1>4, <2>4, GoodReads
      <4> QED
        BY <1>6, <4>1 DEF Accepts, Bytes
    <3>2. \A n \in 1 .. Len(top.got) : ~GoodAt(dva.cands[n])
      BY <1>1, <1>2, <2>4 DEF NothingGood
    <3>3. \A n \in 1 .. Len(top.got) + 1 : ~GoodAt(dva.cands[n])
      <4>1. \A n \in 1 .. Len(top.got) + 1 : n \in 1 .. Len(top.got) \/ n = Len(top.got) + 1
        BY <1>2
      <4> QED
        BY <3>1, <3>2, <4>1
    <3>4. CASE more
      <4>1. g.i = top.i /\ DOMAIN g.got = 1 .. Len(top.got) + 1
        BY <1>2, <2>2, <3>4
      <4> QED
        BY <1>1, <1>2, <2>2, <2>4, <3>3, <4>1 DEF NothingGood
    <3>5. CASE ~more
      <4>1. g.i = top.i + 1 /\ DOMAIN g.got = {}
        BY <2>2, <3>5
      <4>2. ~Gives(top.ptr, top.i, Level(Len(stack)))
        <5>1. \A n \in DOMAIN dva.cands : ~GoodAt(dva.cands[n])
          <6>1. dva.cands \in Seq(Candidate)
            BY <1>2 DEF Dva
          <6>2. DOMAIN dva.cands = 1 .. Len(top.got) + 1
            BY <1>2, <1>3, <3>5, <6>1
          <6> QED
            BY <3>3, <6>2
        <5> QED
          BY <1>1, <1>2, <5>1 DEF Gives, DvaGives
      <4>3. \A x \in DOMAIN Dvas[top.ptr] : x < top.i + 1 => x < top.i \/ x = top.i
        BY <1>2
      <4> QED
        BY <1>2, <2>2, <2>4, <4>1, <4>2, <4>3 DEF NothingGood
    <3> QED
      BY <3>4, <3>5
  <2> QED
    BY <1>1, <2>1, <2>2, <2>3, <2>4, TopMissesNothing
<1> QED
  BY <1>5, <1>6

\* A candidate was read, for joining or as a header.
LEMMA TryCandidateMissesNothing ==
  ASSUME IInv, CopiesInv, TryCandidate
  PROVE  CopiesInv'
<1>1. /\ phase = "read" /\ ret = "none" /\ ret' = ret /\ HasDva /\ dva.how # "leaf"
      /\ Len(top.got) < Len(dva.cands) /\ UNCHANGED <<world, loop>> /\ [Next]_vars
  BY DEF TryCandidate, Reads, Reading, Next
<1>2. /\ top \in Frame /\ top.ptr \in Pointers /\ top.i \in Nat \ {0}
      /\ top.got \in Seq(Outcomes) /\ Stands(top) /\ Dvas[top.ptr] \in Seq(Dva)
      /\ top.i \in DOMAIN Dvas[top.ptr] /\ dva = Dvas[top.ptr][top.i] /\ dva \in Dva
  BY <1>1, TopReads
<1> DEFINE c == dva.cands[Len(top.got) + 1]
<1>3. PICK out \in Outcomes :
        /\ ReadLeaf(c.dev, c.at, out)
        /\ SetTop([top EXCEPT !.got = Append(@, out)])
  BY DEF TryCandidate
<1> DEFINE g == [top EXCEPT !.got = Append(@, out)]
<1>4. /\ g \in Frame /\ g.ptr = top.ptr /\ g.i = top.i /\ g.got = Append(top.got, out)
      /\ g.child = top.child /\ g.clean = top.clean
  <2> DEFINE seen == Append(top.got, out)
  <2>1. seen \in Seq(Outcomes)
    BY <1>2
  <2>2. g = [top EXCEPT !.got = seen]
    BY Zenon
  <2> HIDE DEF seen, g
  <2>3. g \in Frame /\ g.ptr = top.ptr /\ g.i = top.i /\ g.got = seen
        /\ g.child = top.child /\ g.clean = top.clean
    BY <1>2, <2>1, <2>2 DEF Frame
  <2> QED
    BY <2>3 DEF seen
<1>5. SetTop(g)
  BY <1>3
<1> HIDE DEF g
<1>6. Stands(g)
  BY <1>2, <1>4 DEF Stands
<1>7. ASSUME steady, ~mediumStop', NothingGood(top, Level(Len(stack)))
      PROVE  NothingGood(g, Level(Len(stack)))
  <2>1. GoodAt(c) => out = "true"
    <3> HIDE DEF c
    <3> QED
      BY <1>3, <1>7, GoodReads
  <2>2. ASSUME NEW n \in DOMAIN g.got, GoodAt(dva.cands[n])
        PROVE  g.got[n] = "true"
    <3>1. n \in 1 .. Len(top.got) \/ n = Len(top.got) + 1
      BY <1>2, <1>4, <2>2
    <3>2. CASE n \in 1 .. Len(top.got)
      <4>1. top.got[n] = "true"
        BY <1>2, <1>7, <2>2, <3>2 DEF NothingGood
      <4> QED
        BY <1>2, <1>4, <3>2, <4>1
    <3>3. CASE n = Len(top.got) + 1
      <4>1. out = "true"
        BY <2>1, <2>2, <3>3
      <4> QED
        BY <1>2, <1>4, <3>3, <4>1
    <3> QED
      BY <3>1, <3>2, <3>3
  <2> QED
    BY <1>1, <1>2, <1>4, <1>7, <2>2 DEF NothingGood
<1> QED
  BY <1>1, <1>4, <1>5, <1>6, <1>7, TopMissesNothing

\* The innermost call gives up a DVA that could not have given the block.
LEMMA GivenUpMissesNothing ==
  ASSUME IInv, CopiesInv, phase = "read", ret = "none",
         NEW e \in Errors, NEW m \in BOOLEAN,
         SetTop(FailDva(top, e, m)), UNCHANGED ret, UNCHANGED <<world, loop>>, [Next]_vars,
         ASSUME steady, ~mediumStop', NothingGood(top, Level(Len(stack)))
         PROVE  top.i \in DOMAIN Dvas[top.ptr] => ~Gives(top.ptr, top.i, Level(Len(stack)))
  PROVE  CopiesInv'
<1> DEFINE g == FailDva(top, e, m)
<1>1. top \in Frame
  BY TopReads
<1>2. g \in Frame /\ g.ptr = top.ptr
  BY <1>1, FailDvaRuns
<1>3. Stands(g)
  BY <1>1, FailDvaMissesNothing
<1>4. ASSUME steady, ~mediumStop', NothingGood(top, Level(Len(stack)))
      PROVE  NothingGood(g, Level(Len(stack)))
  <2>1. top.i \in DOMAIN Dvas[top.ptr] => ~Gives(top.ptr, top.i, Level(Len(stack)))
    BY <1>4
  <2> QED
    BY <1>1, <1>4, <2>1, FailDvaMissesNothing
<1>5. SetTop(g)
  OBVIOUS
<1> HIDE DEF g
<1> QED
  BY <1>2, <1>3, <1>4, <1>5, TopMissesNothing

\* Pieces that are all good join to the block.
LEMMA GoodPiecesJoin ==
  ASSUME HasDva, dva \in Dva, top.got \in Seq(Outcomes), AllTried,
         top.i \in DOMAIN Dvas[top.ptr], dva.how = "removed",
         NEW levels, NothingGood(top, levels),
         Gives(top.ptr, top.i, levels)
  PROVE  \E k \in 1 .. dva.ways : WayOutcome(k) = "true"
<1>1. PICK k \in 1 .. dva.ways : \A c \in Joins(dva, k) : GoodAt(dva.cands[c])
  BY DEF Gives, DvaGives, dva
<1>2. \A c \in Joins(dva, k) : top.got[c] = "true"
  <2>1. Joins(dva, k) \subseteq DOMAIN dva.cands
    BY DEF Joins
  <2>2. DOMAIN dva.cands = DOMAIN top.got
    BY DEF Dva, AllTried
  <2> QED
    BY <1>1, <2>1, <2>2 DEF NothingGood, dva
<1>3. {c \in Joins(dva, k) : top.got[c] \in Errors} = {}
  BY <1>2 DEF Errors
<1>4. WayOutcome(k) = "true"
  BY <1>2, <1>3 DEF WayOutcome
<1> QED
  BY <1>4

LEMMA JoinPiecesMissesNothing ==
  ASSUME IInv, CopiesInv, JoinPieces
  PROVE  CopiesInv'
<1>1. /\ phase = "read" /\ ret = "none" /\ HasDva /\ AllTried /\ dva.how = "removed"
      /\ UNCHANGED <<world, loop>> /\ UNCHANGED <<memory>> /\ [Next]_vars
  BY DEF JoinPieces, Reads, Reading, Next
<1>2. /\ top \in Frame /\ top.got \in Seq(Outcomes) /\ top.last \in Errors
      /\ top.i \in DOMAIN Dvas[top.ptr] /\ dva \in Dva
  BY <1>1, TopReads DEF Frame
<1> DEFINE accepted == {k \in 1 .. dva.ways :
                          WayOutcome(k) \in Bytes /\ Accepts(top.ptr, WayOutcome(k))}
           final == IF WayOutcome(dva.ways) \in Bytes THEN "mismatch" ELSE WayOutcome(dva.ways)
           e == MoreTelling(top.last, final)
           m == \E k \in 1 .. dva.ways : WayOutcome(k) \in Bytes
<1>3. IF accepted # {}
      THEN ret' = WayOutcome(First(accepted)) /\ UNCHANGED stack
      ELSE SetTop(FailDva(top, e, m)) /\ UNCHANGED ret
  BY DEF JoinPieces
<1>4. CASE accepted # {}
  <2>1. accepted \in SUBSET Nat
    OBVIOUS
  <2> HIDE DEF accepted
  <2>2. First(accepted) \in accepted
    BY <1>4, <2>1, FirstIsAMember
  <2>3. ret' \in Bytes /\ UNCHANGED stack
    BY <1>3, <1>4, <2>2 DEF accepted
  <2>4. ret' \notin Errors
    BY <2>3 DEF Bytes, Errors
  <2> QED
    BY <1>1, <2>3, <2>4, TopReturnsHopeless
<1>5. CASE accepted = {}
  <2>1. e \in Errors /\ m \in BOOLEAN
    <3>1. WayOutcome(dva.ways) \in Outcomes
      BY <1>1, WayIsAnOutcome DEF IInv, TypeOK
    <3>2. final \in Errors
      BY <3>1 DEF Outcomes, Errors
    <3> HIDE DEF final
    <3> QED
      BY <1>2, <3>2 DEF MoreTelling
  <2>2. SetTop(FailDva(top, e, m)) /\ UNCHANGED ret
    BY <1>3, <1>5
  <2>3. ASSUME NothingGood(top, Level(Len(stack))), Gives(top.ptr, top.i, Level(Len(stack)))
        PROVE  FALSE
    <3>1. PICK k \in 1 .. dva.ways : WayOutcome(k) = "true"
      BY <1>1, <1>2, <2>3, GoodPiecesJoin
    <3>2. k \in accepted
      BY <3>1 DEF Accepts, Bytes
    <3> QED
      BY <1>5, <3>2
  <2> HIDE DEF e, m, accepted, final
  <2> QED
    BY <1>1, <2>1, <2>2, <2>3, GivenUpMissesNothing
<1> QED
  BY <1>4, <1>5

\* A DVA that cannot be followed gives nothing.
LEMMA NotFollowedMissesNothing ==
  ASSUME IInv, CopiesInv, GangTooDeep \/ UnknownVdev
  PROVE  CopiesInv'
<1>1. /\ phase = "read" /\ ret = "none" /\ ret' = ret /\ HasDva
      /\ UNCHANGED <<world, loop>> /\ [Next]_vars
  BY DEF GangTooDeep, UnknownVdev, Reads, Reading, Next
<1>2. /\ top.i \in DOMAIN Dvas[top.ptr] /\ dva = Dvas[top.ptr][top.i]
      /\ Len(stack) \in Nat \ {0} /\ Len(stack) <= MaxDepth + 2
  BY <1>1, TopReads
<1>3. PICK e \in {"gang", "unknown"} : SetTop(FailDva(top, e, FALSE))
  BY DEF GangTooDeep, UnknownVdev
<1>4. e \in Errors
  BY DEF Errors
<1>5. ~Gives(top.ptr, top.i, Level(Len(stack)))
  <2>1. CASE GangTooDeep
    <3>1. Level(Len(stack)) = 0 /\ dva.how = "gang"
      BY <1>2, <2>1, LimitsAssumption DEF GangTooDeep, Reads, Level
    <3> QED
      BY <1>2, <3>1 DEF Gives
  <2>2. CASE UnknownVdev
    <3>1. dva.how = "unknown"
      BY <2>2 DEF UnknownVdev, Reads
    <3> QED
      BY <1>2, <3>1 DEF Gives, DvaGives
  <2> QED
    BY <2>1, <2>2
<1> QED
  BY <1>1, <1>3, <1>4, <1>5, GivenUpMissesNothing

\* When no DVA is left, none could have given the block.
LEMMA NoCopyLeftMissesNothing ==
  ASSUME IInv, CopiesInv, NoCopyLeft
  PROVE  CopiesInv'
<1>1. /\ phase = "read" /\ ret = "none" /\ ~HasDva /\ UNCHANGED stack
      /\ UNCHANGED <<world, loop>> /\ [Next]_vars
  BY DEF NoCopyLeft, Reading, Next
<1>2. /\ top.ptr \in Pointers /\ top.i \in Nat \ {0} /\ Dvas[top.ptr] \in Seq(Dva)
      /\ Level(Len(stack)) \in Nat
  <2>1. Level(Len(stack)) \in Nat
    BY <1>1, TopReads, LimitsAssumption DEF Level
  <2> QED
    BY <1>1, <2>1, TopReads
<1>3. ASSUME NothingGood(top, Level(Len(stack)))
      PROVE  top.ptr \notin Obtainable[Level(Len(stack))]
  <2>1. \A x \in DOMAIN Dvas[top.ptr] : x < top.i
    BY <1>1, <1>2 DEF HasDva
  <2>2. \A x \in DOMAIN Dvas[top.ptr] : ~Gives(top.ptr, x, Level(Len(stack)))
    BY <1>3, <2>1 DEF NothingGood
  <2> QED
    BY <1>2, <2>2, ObtainableIsARecursion
<1> QED
  BY <1>1, <1>3, TopReturnsHopeless

\* The m-th call goes on with f, alone or waiting for the child it asks for.
LEMMA CallerMissesNothing ==
  ASSUME IInv, CopiesInv, phase = "read", UNCHANGED <<world, loop>>, [Next]_vars,
         NEW m \in Nat \ {0}, m <= Len(stack), NEW f \in Frame,
         f.ptr = stack[m].ptr, Stands(f),
         stack' \in Seq(Frame), stack'[m] = f, \A n \in 1 .. m - 1 : stack'[n] = stack[n],
         NEW c \in Pointers, Len(stack') \in {m, m + 1},
         Len(stack') = m + 1 =>
           /\ m + 1 <= MaxDepth + 2 /\ f.child > 0
           /\ c = Dvas[f.ptr][f.i].children[f.child] /\ stack'[m + 1] = Call(c),
         ret' \notin Errors,
         ASSUME steady, ~mediumStop', MissNothing(stack, ret)
         PROVE  NothingGood(f, Level(m))
  PROVE  CopiesInv'
<1>1. stack \in Seq(Frame) /\ Len(stack) \in Nat /\ Chained(stack)
  BY DEF IInv, TypeOK, CallsOK, CopiesInv, CallsMissNothing
<1>2. /\ Call(c) \in Frame /\ Call(c).ptr = c /\ Stands(Call(c))
      /\ \A levels : NothingGood(Call(c), levels)
  BY CallMissesNothing, CallRuns
<1>3. \A n \in 1 .. Len(stack') : n \in 1 .. m - 1 \/ n = m \/ (n = m + 1 /\ Len(stack') = m + 1)
  OBVIOUS
<1>4. Chained(stack')
  <2>1. Len(stack') <= MaxDepth + 2
    BY <1>1, LimitsAssumption DEF Chained
  <2>2. \A n \in 1 .. Len(stack') : Stands(stack'[n])
    <3>1. \A n \in 1 .. m - 1 : Stands(stack[n])
      BY <1>1 DEF Chained
    <3> QED
      BY <1>2, <1>3, <3>1
  <2>3. ASSUME NEW n \in 1 .. Len(stack') - 1
        PROVE  /\ stack'[n].child > 0
               /\ stack'[n + 1].ptr = Dvas[stack'[n].ptr][stack'[n].i].children[stack'[n].child]
    <3>1. CASE n = m
      <4>1. Len(stack') = m + 1
        BY <3>1
      <4> QED
        BY <1>2, <3>1, <4>1
    <3>2. CASE n # m
      <4>1. n \in 1 .. m - 1 /\ n \in 1 .. Len(stack) - 1
        BY <1>1, <3>2
      <4>2. stack'[n] = stack[n]
        BY <4>1
      <4>3. stack'[n + 1].ptr = stack[n + 1].ptr
        <5>1. n + 1 = m \/ n + 1 \in 1 .. m - 1
          BY <4>1
        <5> QED
          BY <5>1
      <4> QED
        BY <1>1, <4>1, <4>2, <4>3 DEF Chained
    <3> QED
      BY <3>1, <3>2
  <2> QED
    BY <2>1, <2>2, <2>3 DEF Chained
<1>5. ASSUME steady, ~mediumStop'
      PROVE  MissNothing(stack', ret')
  <2>1. ~mediumStop
    BY <1>5, StopStays
  <2>2. MissNothing(stack, ret)
    BY <1>5, <2>1 DEF CopiesInv, CallsMissNothing
  <2>3. NothingGood(f, Level(m))
    BY <1>5, <2>2
  <2>4. \A n \in 1 .. m - 1 : NothingGood(stack[n], Level(n))
    BY <1>1, <2>2 DEF MissNothing
  <2>5. \A n \in 1 .. Len(stack') : NothingGood(stack'[n], Level(n))
    BY <1>2, <1>3, <2>3, <2>4
  <2> QED
    BY <2>5 DEF MissNothing
<1> QED
  BY <1>4, <1>5, CallsGoOn

\* A header that verified is among the candidates, if a good one is.
LEMMA OpenGangMissesNothing ==
  ASSUME IInv, CopiesInv, OpenGang
  PROVE  CopiesInv'
<1>1. /\ phase = "read" /\ ret = "none" /\ ret' = ret /\ HasDva /\ dva.how = "gang" /\ AllTried
      /\ Len(stack) - 1 <= MaxDepth
      /\ UNCHANGED <<world, loop>> /\ [Next]_vars
  BY DEF OpenGang, Reads, Reading, Next
<1>2. /\ top \in Frame /\ top.ptr \in Pointers /\ top.got \in Seq(Outcomes)
      /\ top.i \in DOMAIN Dvas[top.ptr] /\ dva = Dvas[top.ptr][top.i] /\ dva \in Dva
      /\ Len(stack) \in Nat \ {0} /\ top = stack[Len(stack)] /\ stack \in Seq(Frame)
  BY <1>1, TopReads, TopIsACall DEF IInv, TypeOK, CallsOK
<1>3. dva.cands # <<>> /\ dva.children # <<>>
  BY <1>1, <1>2, DvasAssumption
<1>4. CASE \E c \in DOMAIN top.got : top.got[c] = "true"
  <2> DEFINE f == [top EXCEPT !.child = 1]
             c == dva.children[1]
  <2>1. stack' = Append([stack EXCEPT ![Len(stack)] = f], Call(c))
    BY <1>2, <1>4 DEF OpenGang
  <2>2. /\ f \in Frame /\ f.ptr = top.ptr /\ f.i = top.i /\ f.child = 1
        /\ f.got = top.got /\ f.clean = top.clean
    BY <1>2 DEF Frame
  <2>3. c \in Pointers
    BY <1>2, <1>3 DEF Dva
  <2>4. Stands(f)
    <3>1. Stands(top) /\ ~(top.child > 0)
      BY <1>1, TopReads DEF OpenGang
    <3>2. f.clean
      BY <2>2, <3>1 DEF Stands
    <3> QED
      BY <1>1, <1>2, <2>2, <3>2 DEF Stands
  <2> HIDE DEF f
  <2>5. \A levels : NothingGood(top, levels) => NothingGood(f, levels)
    BY <2>2 DEF NothingGood
  <2>6. Call(c) \in Frame
    BY <2>3, CallRuns
  <2>7. c = Dvas[f.ptr][f.i].children[f.child]
    BY <1>2, <2>2
  <2> HIDE DEF c
  <2>8. /\ stack' \in Seq(Frame) /\ Len(stack') = Len(stack) + 1
        /\ \A n \in 1 .. Len(stack) - 1 : stack'[n] = stack[n]
        /\ stack'[Len(stack)] = f /\ stack'[Len(stack) + 1] = Call(c)
    BY <1>2, <2>1, <2>2, <2>6
  <2>9. Len(stack) + 1 <= MaxDepth + 2 /\ f.child > 0
    BY <1>1, <1>2, <2>2, LimitsAssumption
  <2>10. ASSUME MissNothing(stack, ret)
         PROVE  NothingGood(f, Level(Len(stack)))
    BY <1>2, <2>5, <2>10 DEF MissNothing
  <2>11. ret' \notin Errors
    BY <1>1 DEF Errors
  <2> DEFINE m == Len(stack)
  <2>12. /\ m \in Nat \ {0} /\ m <= Len(stack) /\ f.ptr = stack[m].ptr
         /\ \A n \in 1 .. m - 1 : stack'[n] = stack[n]
         /\ stack'[m] = f /\ Len(stack') \in {m, m + 1}
         /\ m + 1 <= MaxDepth + 2 /\ stack'[m + 1] = Call(c)
    BY <1>2, <2>2, <2>8, <2>9
  <2>13. MissNothing(stack, ret) => NothingGood(f, Level(m))
    BY <2>10
  <2> HIDE DEF m
  <2> QED
    BY <1>1, <2>2, <2>3, <2>4, <2>7, <2>8, <2>9, <2>11, <2>12, <2>13, CallerMissesNothing
<1>5. CASE ~(\E c \in DOMAIN top.got : top.got[c] = "true")
  <2> DEFINE final == top.got[Len(top.got)]
             e == IF final \in Bytes THEN "gang" ELSE final
  <2>1. SetTop(FailDva(top, e, FALSE))
    BY <1>5 DEF OpenGang
  <2>2. DOMAIN top.got = DOMAIN dva.cands /\ Len(top.got) \in DOMAIN top.got
    BY <1>1, <1>2, <1>3 DEF AllTried, Dva
  <2>3. e \in Errors
    BY <1>2, <2>2 DEF Outcomes, Errors
  <2> HIDE DEF e
  <2>4. ASSUME NothingGood(top, Level(Len(stack)))
        PROVE  ~Gives(top.ptr, top.i, Level(Len(stack)))
    <3>1. \A c \in DOMAIN dva.cands : ~GoodAt(dva.cands[c])
      BY <1>2, <1>5, <2>2, <2>4 DEF NothingGood
    <3> QED
      BY <1>1, <1>2, <3>1 DEF Gives, DvaGives
  <2> QED
    BY <1>1, <2>1, <2>3, <2>4, GivenUpMissesNothing
<1> QED
  BY <1>4, <1>5

\* A call replaces the two innermost ones, or two calls do.
OneCall(s, g) == Append(Popped(s), g)
TwoCalls(s, g, c) == Popped(s) \o <<g, c>>

\* t goes on as s did up to its last call but one, which is g in t.
GoesOn(s, t, g) ==
  /\ t \in Seq(Frame) /\ t[Len(s) - 1] = g
  /\ \A n \in 1 .. Len(s) - 2 : t[n] = s[n]

LEMMA OneInPlaceOfTwo ==
  ASSUME NEW s \in Seq(Frame), Len(s) > 1, NEW g \in Frame, NEW t, t = OneCall(s, g)
  PROVE  GoesOn(s, t, g) /\ Len(t) = Len(s) - 1
BY OneForTwo DEF OneCall, GoesOn

LEMMA TwoInPlaceOfTwo ==
  ASSUME NEW s \in Seq(Frame), Len(s) > 1, NEW g \in Frame, NEW c \in Frame,
         NEW t, t = TwoCalls(s, g, c)
  PROVE  GoesOn(s, t, g) /\ Len(t) = Len(s) /\ t[Len(s)] = c
<1> DEFINE pair == <<g, c>>
           u == Popped(s) \o pair
<1>2. pair \in Seq(Frame) /\ Len(pair) = 2 /\ pair[1] = g /\ pair[2] = c
  OBVIOUS
<1>3. t = u
  BY DEF TwoCalls
<1> HIDE DEF pair
<1>4. /\ u \in Seq(Frame) /\ Len(u) = Len(s) /\ u[Len(s) - 1] = pair[1] /\ u[Len(s)] = pair[2]
      /\ \A n \in 1 .. Len(s) - 2 : u[n] = s[n]
  BY <1>2, TwoForTwo
<1> HIDE DEF u
<1> QED
  BY <1>2, <1>3, <1>4 DEF GoesOn

\* The gang block whose child came back, and what that tells of it.
caller == stack[Len(stack) - 1]
listed == Dvas[caller.ptr][caller.i].children
innermost == stack[Len(stack)]

LEMMA ChildOfGang ==
  ASSUME IInv, CopiesInv, ChildRead
  PROVE  /\ stack \in Seq(Frame) /\ Len(stack) \in Nat /\ Len(stack) > 1
         /\ Len(stack) <= MaxDepth + 2
         /\ caller \in Frame /\ Stands(caller) /\ caller.ptr \in Pointers
         /\ caller.i \in DOMAIN Dvas[caller.ptr] /\ Dvas[caller.ptr][caller.i].how = "gang"
         /\ listed \in Seq(Pointers) /\ caller.child \in DOMAIN listed
         /\ innermost.ptr = listed[caller.child]
         /\ ret \in Outcomes /\ (ret = "false" => innermost.ptr \in Unchecked)
<1>1. /\ phase = "read" /\ ret # "none" /\ Len(stack) > 1
      /\ stack \in Seq(Frame) /\ Len(stack) \in Nat /\ ret \in Outcomes
  <2>1. phase = "read" /\ ret # "none" /\ Len(stack) > 1
    BY DEF ChildRead
  <2>2. CallsOK
    BY DEF IInv, TypeOK
  <2>3. stack \in Seq(Frame) /\ ret \in Outcomes \cup {"none"}
    BY <2>2 DEF CallsOK
  <2>4. Len(stack) \in Nat
    BY <2>3
  <2> QED
    BY <2>1, <2>3, <2>4
<1> DEFINE m == Len(stack) - 1
<1>2. m \in 1 .. Len(stack) - 1 /\ m \in 1 .. Len(stack) /\ m + 1 = Len(stack)
  BY <1>1
<1>3. Chained(stack)
  BY <1>1 DEF CopiesInv, CallsMissNothing
<1>4. /\ stack[m] \in Frame /\ Stands(stack[m]) /\ Waits(stack[m])
      /\ stack[m].child > 0
      /\ stack[m + 1].ptr = Dvas[stack[m].ptr][stack[m].i].children[stack[m].child]
      /\ Len(stack) <= MaxDepth + 2
  BY <1>1, <1>2, <1>3 DEF IInv, CallsNest, Chained
<1>5. caller = stack[m] /\ innermost = stack[m + 1]
  BY <1>2 DEF caller, innermost
<1>6. /\ caller.ptr \in Pointers /\ caller.i \in DOMAIN Dvas[caller.ptr]
      /\ Dvas[caller.ptr][caller.i].how = "gang"
      /\ caller.child \in 1 .. Len(listed) /\ innermost.ptr = listed[caller.child]
  <2> HIDE DEF m
  <2> QED
    BY <1>4, <1>5 DEF Frame, Stands, Waits, listed
<1>7. listed \in Seq(Pointers)
  <2>1. Dvas[caller.ptr][caller.i] \in Dva
    BY <1>6, DvasAssumption
  <2> QED
    BY <2>1 DEF Dva, listed
<1>8. ret = "false" => innermost.ptr \in Unchecked
  BY <1>1 DEF IInv, CallsNest, Accepts, Bytes, innermost
<1> QED
  BY <1>1, <1>4, <1>5, <1>6, <1>7, <1>8

\* What went wrong with one child goes for the gang block.
LEMMA ChildDecides ==
  ASSUME IInv, CopiesInv, ChildRead, MissNothing(stack, ret), NEW j \in DOMAIN listed,
         \/ ret \in Errors /\ j = caller.child
         \/ listed[j] \in Unchecked /\ caller.ptr \notin Unchecked
  PROVE  ~Gives(caller.ptr, caller.i, Level(Len(stack) - 1))
<1> DEFINE n == Level(Len(stack) - 1)
<1>1. n # 0 /\ n - 1 = Level(Len(stack))
  BY ChildOfGang, LimitsAssumption DEF Level
<1>2. listed[j] \notin Fit(caller.ptr, Obtainable[n - 1])
  <2>1. CASE ret \in Errors /\ j = caller.child
    <3>1. listed[j] \notin Obtainable[n - 1]
      <4> HIDE DEF n
      <4> QED
        BY <1>1, <2>1, ChildOfGang DEF MissNothing, innermost
    <3> QED
      BY <3>1 DEF Fit
  <2>2. CASE listed[j] \in Unchecked /\ caller.ptr \notin Unchecked
    BY <2>2 DEF Fit
  <2> QED
    BY <2>1, <2>2
<1>3. Dvas[caller.ptr][caller.i].how = "gang"
  BY ChildOfGang
<1> HIDE DEF n
<1>4. ~Gives(caller.ptr, caller.i, n)
  BY <1>1, <1>2, <1>3 DEF Gives, DvaGives, listed
<1> QED
  BY <1>4 DEF n

\* The caller goes on with f.
LEMMA GangMissesNothing ==
  ASSUME IInv, CopiesInv, ChildRead, NEW f \in Frame, f.ptr = caller.ptr, Stands(f),
         ret' \notin Errors, NEW c \in Pointers,
         \/ stack' = OneCall(stack, f)
         \/ /\ f.child > 0 /\ c = Dvas[f.ptr][f.i].children[f.child]
            /\ stack' = TwoCalls(stack, f, Call(c)),
         MissNothing(stack, ret) => NothingGood(f, Level(Len(stack) - 1))
  PROVE  CopiesInv'
<1>1. phase = "read" /\ UNCHANGED <<world, loop>> /\ [Next]_vars
  BY DEF ChildRead, Next
<1>2. stack \in Seq(Frame) /\ Len(stack) \in Nat /\ Len(stack) > 1
  BY ChildOfGang
<1>3. Call(c) \in Frame
  BY CallRuns
<1> DEFINE m == Len(stack) - 1
<1>4. m = Len(stack) - 1 /\ m \in Nat \ {0} /\ m <= Len(stack) /\ m # m + 1
      /\ m + 1 = Len(stack) /\ m - 1 = Len(stack) - 2
  <2> DEFINE n == Len(stack)
  <2>1. n \in Nat /\ n > 1
    BY <1>2
  <2> HIDE DEF n
  <2>2. n - 1 \in Nat \ {0} /\ n - 1 <= n /\ n - 1 # (n - 1) + 1
        /\ (n - 1) + 1 = n /\ (n - 1) - 1 = n - 2
    BY <2>1
  <2> QED
    BY <2>2 DEF n
<1>5. m + 1 <= MaxDepth + 2
  BY <1>2, ChildOfGang, LimitsAssumption
<1>6. f.ptr = stack[m].ptr
  BY DEF caller
<1>7. MissNothing(stack, ret) => NothingGood(f, Level(m))
  OBVIOUS
<1> HIDE DEF m
<1>8. /\ stack' \in Seq(Frame) /\ stack'[m] = f /\ \A n \in 1 .. m - 1 : stack'[n] = stack[n]
      /\ Len(stack') \in {m, m + 1}
      /\ Len(stack') = m + 1 => /\ f.child > 0 /\ c = Dvas[f.ptr][f.i].children[f.child]
                                /\ stack'[m + 1] = Call(c)
  <2>1. CASE stack' = OneCall(stack, f)
    <3>1. /\ stack' \in Seq(Frame) /\ Len(stack') = m /\ stack'[m] = f
          /\ \A n \in 1 .. m - 1 : stack'[n] = stack[n]
      <4>1. GoesOn(stack, stack', f) /\ Len(stack') = Len(stack) - 1
        BY <1>2, <2>1, OneInPlaceOfTwo
      <4> QED
        BY <1>4, <4>1 DEF GoesOn
    <3> QED
      BY <1>4, <3>1
  <2>2. CASE /\ f.child > 0 /\ c = Dvas[f.ptr][f.i].children[f.child]
             /\ stack' = TwoCalls(stack, f, Call(c))
    <3>1. /\ stack' \in Seq(Frame) /\ Len(stack') = m + 1 /\ stack'[m] = f
          /\ stack'[m + 1] = Call(c) /\ \A n \in 1 .. m - 1 : stack'[n] = stack[n]
      <4> DEFINE k == Call(c)
      <4>1. k \in Frame /\ stack' = TwoCalls(stack, f, k)
        BY <1>3, <2>2
      <4> HIDE DEF k
      <4>2. GoesOn(stack, stack', f) /\ Len(stack') = Len(stack) /\ stack'[Len(stack)] = k
        BY <1>2, <4>1, TwoInPlaceOfTwo
      <4> QED
        BY <1>4, <4>2 DEF k, GoesOn
    <3> QED
      BY <2>2, <3>1
  <2> QED
    BY <2>1, <2>2
<1> QED
  BY <1>1, <1>4, <1>5, <1>6, <1>7, <1>8, CallerMissesNothing

\* The caller gives up its gang DVA: something is wrong with child j.
LEMMA GangGivenUp ==
  ASSUME IInv, CopiesInv, ChildRead, NEW e \in Errors, NEW m \in BOOLEAN,
         stack' = OneCall(stack, FailDva(caller, e, m)), ret' = "none",
         NEW j \in DOMAIN listed,
         \/ ret \in Errors /\ j = caller.child
         \/ listed[j] \in Unchecked /\ caller.ptr \notin Unchecked
  PROVE  CopiesInv'
<1> DEFINE g == FailDva(caller, e, m)
<1>1. caller \in Frame
  BY ChildOfGang
<1>2. g \in Frame /\ g.ptr = caller.ptr /\ Stands(g) /\ caller.ptr \in Pointers
  BY <1>1, FailDvaRuns, FailDvaMissesNothing DEF Frame
<1> DEFINE levels == Level(Len(stack) - 1)
<1>3. ASSUME MissNothing(stack, ret)
      PROVE  NothingGood(g, levels)
  <2>1. ~Gives(caller.ptr, caller.i, levels)
    BY <1>3, ChildDecides
  <2>2. NothingGood(caller, levels)
    <3>1. Len(stack) - 1 \in 1 .. Len(stack)
      BY ChildOfGang
    <3> QED
      BY <1>3, <3>1 DEF MissNothing, caller
  <2> HIDE DEF levels
  <2> QED
    BY <1>1, <2>1, <2>2, FailDvaMissesNothing
<1>4. ret' \notin Errors
  BY DEF Errors
<1>5. stack' = OneCall(stack, g)
  OBVIOUS
<1> HIDE DEF g
<1> QED
  BY <1>2, <1>3, <1>4, <1>5, GangMissesNothing

LEMMA ChildReadMissesNothing ==
  ASSUME IInv, CopiesInv, ChildRead
  PROVE  CopiesInv'
<1> DEFINE clean == caller.clean /\ ret = "true"
           whole == IF clean THEN "true" ELSE "false"
<1>1. /\ caller \in Frame /\ Stands(caller) /\ caller.ptr \in Pointers
      /\ caller.i \in DOMAIN Dvas[caller.ptr] /\ Dvas[caller.ptr][caller.i].how = "gang"
      /\ listed \in Seq(Pointers) /\ caller.child \in DOMAIN listed
      /\ innermost.ptr = listed[caller.child]
      /\ ret \in Outcomes /\ (ret = "false" => innermost.ptr \in Unchecked)
  BY ChildOfGang
<1>2. MissNothing(stack, ret) => NothingGood(caller, Level(Len(stack) - 1))
  <2>1. Len(stack) - 1 \in 1 .. Len(stack)
    BY ChildOfGang
  <2> QED
    BY <2>1 DEF MissNothing, caller
<1>3. Len(listed) \in Nat /\ DOMAIN listed = 1 .. Len(listed) /\ caller.child \in Nat
  BY <1>1
\* One wrong child is enough for wrong bytes, and only a child without a
\* checksum can be wrong.
<1>4. ASSUME ret \notin Errors, ~clean
      PROVE  \E j \in 1 .. caller.child : listed[j] \in Unchecked
  <2>1. CASE ~caller.clean
    <3>1. PICK j \in 1 .. caller.child - 1 : listed[j] \in Unchecked
      BY <1>1, <2>1 DEF Stands, listed
    <3>2. j \in 1 .. caller.child
      BY <1>3, <3>1
    <3> QED
      BY <3>1, <3>2
  <2>2. CASE caller.clean
    <3>1. ret = "false"
      BY <1>1, <1>4, <2>2 DEF Outcomes, Bytes
    <3>2. listed[caller.child] \in Unchecked
      BY <1>1, <3>1
    <3>3. caller.child \in 1 .. caller.child
      BY <1>1, <1>3
    <3> QED
      BY <3>2, <3>3
  <2> QED
    BY <2>1, <2>2
<1>5. CASE ret \in Errors
  <2>1. stack' = OneCall(stack, FailDva(caller, ret, FALSE)) /\ ret' = "none"
    BY <1>5 DEF ChildRead, OneCall, Popped, caller
  <2> QED
    BY <1>1, <1>5, <2>1, GangGivenUp
<1>6. CASE ret \notin Errors /\ caller.child < Len(listed)
  <2> DEFINE next == caller.child + 1
             f == [caller EXCEPT !.child = @ + 1, !.clean = clean]
             c == listed[next]
  <2>1. stack' = TwoCalls(stack, f, Call(c)) /\ ret' = "none"
    BY <1>6 DEF ChildRead, TwoCalls, Popped, caller, listed
  <2>2. next \in Nat /\ next \in DOMAIN listed /\ next > 0 /\ next - 1 = caller.child
    BY <1>3, <1>6
  <2>3. clean \in BOOLEAN
    BY <1>1 DEF Frame
  <2>4. f = [caller EXCEPT !.child = next, !.clean = clean]
    BY Zenon
  <2>5. ~clean => \E j \in 1 .. next - 1 : listed[j] \in Unchecked
    BY <1>4, <1>6, <2>2
  <2>6. c \in Pointers
    BY <1>1, <2>2
  <2> HIDE DEF clean, next, f
  <2>7. /\ f \in Frame /\ f.ptr = caller.ptr /\ f.i = caller.i /\ f.got = caller.got
        /\ f.child = next /\ f.clean = clean
    BY <1>1, <2>2, <2>3, <2>4 DEF Frame
  <2>8. Stands(f)
    BY <1>1, <2>2, <2>5, <2>7 DEF Stands, listed
  <2>9. MissNothing(stack, ret) => NothingGood(f, Level(Len(stack) - 1))
    BY <1>2, <2>7 DEF NothingGood
  <2>10. f.child > 0 /\ c = Dvas[f.ptr][f.i].children[f.child]
    BY <2>2, <2>7 DEF listed
  <2>11. ret' \notin Errors
    BY <2>1 DEF Errors
  <2> HIDE DEF c
  <2> QED
    BY <2>1, <2>6, <2>7, <2>8, <2>9, <2>10, <2>11, GangMissesNothing
<1>7. CASE ret \notin Errors /\ ~(caller.child < Len(listed)) /\ Accepts(caller.ptr, whole)
  <2>1. stack' = OneCall(stack, caller) /\ ret' = whole
    BY <1>7 DEF ChildRead, OneCall, Popped, caller, listed
  <2>2. ret' \notin Errors
    BY <2>1 DEF Errors
  <2> QED
    BY <1>1, <1>2, <2>1, <2>2, GangMissesNothing
<1>8. CASE ret \notin Errors /\ ~(caller.child < Len(listed)) /\ ~Accepts(caller.ptr, whole)
  <2>1. stack' = OneCall(stack, FailDva(caller, "mismatch", TRUE)) /\ ret' = "none"
    BY <1>8 DEF ChildRead, OneCall, Popped, caller, listed
  <2>2. ~clean /\ caller.ptr \notin Unchecked
    BY <1>8 DEF Accepts
  <2>3. PICK j \in 1 .. caller.child : listed[j] \in Unchecked
    <3> HIDE DEF clean
    <3> QED
      BY <1>4, <1>8, <2>2
  <2>4. j \in DOMAIN listed
    BY <1>1, <1>3, <2>3
  <2>5. "mismatch" \in Errors
    BY DEF Errors
  <2> QED
    BY <2>1, <2>2, <2>3, <2>4, <2>5, GangGivenUp
<1> HIDE DEF clean, whole
<1> QED
  BY <1>5, <1>6, <1>7, <1>8

-----------------------------------------------------------------------------
\* What the block loop makes of it.

\* A block is delivered: as less than bytes only if it cannot be had.
LEMMA DeliverMissesNothing ==
  ASSUME IInv, CopiesInv, UNCHANGED world, NEW got, NEW why, Deliver(got, why),
         steady /\ got \notin Bytes \cup {"hole", "stop"} => Hopeless(block)
  PROVE  CopiesInv'
<1> DEFINE r == [got |-> got, why |-> why]
           n == Len(results) + 1
<1>1. results \in Seq([got : Kept \cup {"hole", "zero", "stop", "aborted"},
                       why : Errors \cup {"none"}])
  BY DEF IInv, TypeOK, LoopOK
<1>2. results' = Append(results, r) /\ phase' \in {"next", "done"} /\ r.got = got
  BY DEF Deliver
<1> HIDE DEF r
<1>3. /\ DOMAIN results = 1 .. Len(results) /\ DOMAIN results' = 1 .. n /\ Len(results) \in Nat
      /\ \A k \in DOMAIN results : results'[k] = results[k]
      /\ results'[n] = r
  BY <1>1, <1>2
<1>4. /\ UNCHANGED <<steady, vol>> /\ \A b : Hopeless(b)' <=> Hopeless(b)
  BY MissNext DEF world
<1>5. ASSUME steady, NEW k \in DOMAIN results', results'[k].got \notin Bytes \cup {"hole", "stop"}
      PROVE  Hopeless(vol[k])
  <2>1. CASE k = n
    <3>1. Hopeless(block)
      BY <1>2, <1>3, <1>5, <2>1
    <3> QED
      BY <2>1, <3>1 DEF block
  <2>2. CASE k \in DOMAIN results
    <3>1. results[k].got \notin Bytes \cup {"hole", "stop"}
      BY <1>3, <1>5, <2>2
    <3> QED
      BY <1>5, <2>2, <3>1 DEF CopiesInv, FailuresAreHopeless
  <2> QED
    BY <1>3, <1>5, <2>1, <2>2
<1>6. \A k : Hopeless(vol[k])' <=> Hopeless(vol[k])
  <2>1. vol' = vol
    BY <1>4
  <2> QED
    BY <1>4, <2>1
<1>7. FailuresAreHopeless'
  BY <1>2, <1>4, <1>5, <1>6 DEF FailuresAreHopeless
<1>8. CallsMissNothing'
  BY <1>2 DEF CallsMissNothing
<1> QED
  BY <1>7, <1>8 DEF CopiesInv

\* Nothing is delivered.
LEMMA NoDeliveryMissesNothing ==
  ASSUME CopiesInv, UNCHANGED <<world, results>>,
         phase' = "read" => Chained(stack') /\ MissNothing(stack', ret'),
         steady /\ phase' \in {"salvage", "explain"} => Hopeless(block)
  PROVE  CopiesInv'
<1>1. /\ UNCHANGED <<steady, vol, block, results>> /\ \A b : Hopeless(b)' <=> Hopeless(b)
      /\ \A st, r : MissNothing(st, r)' <=> MissNothing(st, r)
  BY MissNext DEF world, block
<1>2. CallsMissNothing'
  <2>1. MissNothing(stack, ret)' <=> MissNothing(stack', ret')
    BY <1>1
  <2> QED
    BY <2>1 DEF CallsMissNothing
<1>3. FailuresAreHopeless'
  <2>1. Hopeless(block)' <=> Hopeless(block)
    BY <1>1
  <2>2. \A k : Hopeless(vol[k])' <=> Hopeless(vol[k])
    BY <1>1
  <2> QED
    BY <1>1, <2>1, <2>2 DEF FailuresAreHopeless, CopiesInv
<1> QED
  BY <1>2, <1>3 DEF CopiesInv

\* The outermost call begins.
LEMMA OutermostMissesNothing ==
  ASSUME CopiesInv, UNCHANGED <<world, results>>, NEW p \in Pointers,
         stack' = <<Call(p)>>, ret' = "none", phase' = "read"
  PROVE  CopiesInv'
<1> DEFINE c == Call(p)
<1>1. Stands(c) /\ \A levels : NothingGood(c, levels)
  BY CallMissesNothing
<1>2. stack' = <<c>>
  OBVIOUS
<1> HIDE DEF c
<1>3. Len(stack') = 1 /\ stack'[1] = c /\ \A n \in 1 .. Len(stack') : n = 1
  BY <1>2
<1>4. Chained(stack')
  <2>1. Len(stack') <= MaxDepth + 2 /\ \A n \in 1 .. Len(stack') - 1 : FALSE
    BY <1>3, LimitsAssumption
  <2> QED
    BY <1>1, <1>3, <2>1 DEF Chained
<1>5. MissNothing(stack', ret')
  BY <1>1, <1>3 DEF MissNothing, Errors
<1> QED
  BY <1>4, <1>5, NoDeliveryMissesNothing

\* A failed read of one of its pointers tells that the block cannot be had.
LEMMA FailureIsHopeless ==
  ASSUME IInv, CopiesInv, BlockRead, BlockAnswer \in Errors \ {"stop"}, steady
  PROVE  Hopeless(block)
<1>1. /\ phase = "read" /\ ret # "none" /\ Len(stack) = 1 /\ ~mediumStop
      /\ ret \in Outcomes /\ top = stack[1]
  BY DEF BlockRead, BlockAnswer, IInv, TypeOK, CallsOK, top
<1>2. level \in DOMAIN block.path /\ top.ptr = block.path[level]
  <2>1. level \in 1 .. Len(block.path) /\ top.ptr = block.path[level] /\ Len(results) < Len(vol)
    BY <1>1 DEF IInv, CallsNest
  <2>2. block.path \in Seq(Pointers)
    BY <2>1, BlockOfVolume DEF IInv, TypeOK
  <2> QED
    BY <2>1, <2>2
<1>3. CASE ret \in Bytes
  <2>1. top.ptr \in Sealed
    BY <1>1, <1>3 DEF BlockAnswer, Bytes, Errors
  <2> QED
    BY <1>2, <2>1 DEF Hopeless
<1>4. CASE ret \notin Bytes
  <2>1. MissNothing(stack, ret) /\ ret \in Errors
    BY <1>1, <1>4 DEF CopiesInv, CallsMissNothing, Outcomes
  <2>2. Level(Len(stack)) = MaxDepth + 1
    BY <1>1, LimitsAssumption DEF Level
  <2>3. top.ptr \notin Obtainable[MaxDepth + 1]
    BY <1>1, <2>1, <2>2 DEF MissNothing
  <2> QED
    BY <1>2, <2>3 DEF Hopeless
<1> QED
  BY <1>3, <1>4

LEMMA BlockReadMissesNothing ==
  ASSUME IInv, CopiesInv, BlockRead
  PROVE  CopiesInv'
<1>1. /\ phase = "read" /\ ret' = "none" /\ UNCHANGED world /\ Len(results) < Len(vol)
      /\ level \in 1 .. Len(block.path)
  BY DEF BlockRead, IInv, CallsNest
<1>2. CASE /\ BlockAnswer \in Bytes /\ level < Len(block.path)
           /\ stack' = <<Call(block.path[level + 1])>>
           /\ UNCHANGED <<phase, err, sal, results>>
  <2>1. block.path[level + 1] \in Pointers
    <3>1. block.path \in Seq(Pointers)
      BY <1>1, BlockOfVolume DEF IInv, TypeOK
    <3> QED
      BY <1>1, <1>2, <3>1
  <2> QED
    BY <1>1, <1>2, <2>1, OutermostMissesNothing
<1>3. CASE BlockAnswer \in Bytes /\ Deliver(IF block.hole THEN "hole" ELSE BlockAnswer, "none")
  <2>1. (IF block.hole THEN "hole" ELSE BlockAnswer) \in Bytes \cup {"hole", "stop"}
    BY <1>3
  <2> QED
    BY <1>1, <1>3, <2>1, DeliverMissesNothing
<1>4. CASE Deliver("stop", BlockAnswer)
  BY <1>1, <1>4, DeliverMissesNothing
<1>5. CASE BlockAnswer \in Errors \ {"stop"}
           /\ (Deliver("aborted", BlockAnswer) \/ Deliver("zero", BlockAnswer))
  BY <1>1, <1>5, FailureIsHopeless, DeliverMissesNothing
<1>6. CASE BlockAnswer \in Errors \ {"stop"} /\ phase' = "salvage" /\ UNCHANGED results
  BY <1>1, <1>6, FailureIsHopeless, NoDeliveryMissesNothing
<1> QED
  BY <1>2, <1>3, <1>4, <1>5, <1>6 DEF BlockRead

\* The salvage comes only after such a failure.
LEMMA SalvageMissesNothing ==
  ASSUME IInv, CopiesInv, TrySalvage \/ NotSalvaged \/ EndSalvage \/ EndExplain
  PROVE  CopiesInv'
<1>1. phase \in {"salvage", "explain"} /\ UNCHANGED world
  BY DEF TrySalvage, NotSalvaged, EndSalvage, EndExplain
<1>2. steady => Hopeless(block)
  BY <1>1 DEF CopiesInv, FailuresAreHopeless
<1>3. CASE UNCHANGED results /\ phase' \in {"salvage", "explain"}
  BY <1>1, <1>2, <1>3, NoDeliveryMissesNothing
<1>4. CASE \E got, why : Deliver(got, why)
  BY <1>1, <1>2, <1>4, DeliverMissesNothing
<1> QED
  BY <1>1, <1>3, <1>4 DEF TrySalvage, NotSalvaged, EndSalvage, EndExplain

LEMMA StepMissesNothing == IInv /\ CopiesInv /\ [Next]_vars => CopiesInv'
<1> SUFFICES ASSUME IInv, CopiesInv, [Next]_vars PROVE CopiesInv'
  OBVIOUS
<1>1. CASE HoleBlock
  <2>1. Deliver("hole", "none") /\ UNCHANGED world
    BY <1>1 DEF HoleBlock
  <2> QED
    BY <2>1, DeliverMissesNothing
<1>2. CASE StartBlock
  <2>1. /\ Len(results) < Len(vol) /\ block.path # <<>> /\ ret' = ret /\ phase = "next"
        /\ stack' = <<Call(block.path[1])>> /\ phase' = "read" /\ UNCHANGED <<world, results>>
    BY <1>2 DEF StartBlock
  <2>2. block.path[1] \in Pointers
    <3>1. block.path \in Seq(Pointers)
      BY <2>1, BlockOfVolume DEF IInv, TypeOK
    <3> QED
      BY <2>1, <3>1
  <2>3. ret' = "none"
    BY <2>1 DEF IInv, CallsNest
  <2> QED
    BY <2>1, <2>2, <2>3, OutermostMissesNothing
<1>3. CASE TryLeaf
  BY <1>3, TryLeafMissesNothing
<1>4. CASE TryCandidate
  BY <1>4, TryCandidateMissesNothing
<1>5. CASE JoinPieces
  BY <1>5, JoinPiecesMissesNothing
<1>6. CASE OpenGang
  BY <1>6, OpenGangMissesNothing
<1>7. CASE GangTooDeep \/ UnknownVdev
  BY <1>7, NotFollowedMissesNothing
<1>8. CASE NoCopyLeft
  BY <1>8, NoCopyLeftMissesNothing
<1>9. CASE ChildRead
  BY <1>9, ChildReadMissesNothing
<1>10. CASE BlockRead
  BY <1>10, BlockReadMissesNothing
<1>11. CASE TrySalvage \/ NotSalvaged \/ EndSalvage \/ EndExplain
  BY <1>11, SalvageMissesNothing
<1>12. CASE Finish
  <2>1. phase' = "done" /\ UNCHANGED <<world, results>>
    BY <1>12 DEF Finish
  <2> QED
    BY <2>1, NoDeliveryMissesNothing
<1>13. CASE UNCHANGED vars
  <2>1. UNCHANGED <<world, results, phase, stack, ret, steady, block, mediumStop>>
    BY <1>13 DEF vars, loop, world, memory, block
  <2>2. CASE phase = "read"
    <3>1. UNCHANGED <<world, loop>>
      BY <1>13 DEF vars
    <3> QED
      BY <2>1, <2>2, <3>1, CallsGoOn DEF CopiesInv, CallsMissNothing
  <2>3. CASE phase # "read"
    BY <2>1, <2>3, NoDeliveryMissesNothing DEF CopiesInv, FailuresAreHopeless
  <2> QED
    BY <2>2, <2>3
<1>14. CASE Done
  BY <1>13, <1>14 DEF Done
<1> QED
  BY <1>1, <1>2, <1>3, <1>4, <1>5, <1>6, <1>7, <1>8, <1>9, <1>10, <1>11, <1>12, <1>13, <1>14
     DEF Next

\* read_raw_verified, read_verified, read_verified_remapped, read_gang: every
\* copy is tried, a mirror side, a way to join the pieces of a removed vdev, a
\* gang header and its children, so a block with one good copy on a member that
\* is there is never written as zeros, whatever is wrong with its other copies.
THEOREM AGoodCopyIsFoundHolds == Spec => []AGoodCopyIsFound
<1>1. Init => CopiesInv
  BY DEF Init, CopiesInv, CallsMissNothing, FailuresAreHopeless
<1>2. CopiesInv => AGoodCopyIsFound
  BY DEF CopiesInv, FailuresAreHopeless, AGoodCopyIsFound, Hopeless
<1> QED
  BY <1>1, <1>2, InvHolds, StepMissesNothing, PTL DEF Spec
=============================================================================
