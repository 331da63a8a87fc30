-------------------------- MODULE PtsWaiter_proofs --------------------------
(***************************************************************************)
(* Lemmas about the methods of PtsWaiter: what the counting of one update  *)
(* does to the box and what it hands out to be applied, that the count     *)
(* stays tied to the points covered, and when a wait has a timer.  They    *)
(* are stated for any box, any set of updates and any server, so that the  *)
(* channels and the account cite the same ones.                            *)
(***************************************************************************)
EXTENDS PtsWaiter, FiniteSetTheorems, TLAPS

-----------------------------------------------------------------------------
(* Points: the updates of a log cover disjoint intervals. *)

Intervals(L) ==
    /\ \A u \in L : u.pts \in Nat /\ u.count \in Nat /\ u.count > 0 /\ u.count <= u.pts
    /\ \A u, v \in L : u = v \/ u.pts <= Before(v) \/ v.pts <= Before(u)

\* The points after a up to c.
LEMMA IntervalSize ==
    ASSUME NEW a \in Int, NEW c \in Int
    PROVE  IsFiniteSet((a + 1)..c) /\ (a <= c => Cardinality((a + 1)..c) = c - a)
<1> DEFINE b == a + 1
<1>1. b \in Int
  OBVIOUS
<1>2. IsFiniteSet(b..c) /\ Cardinality(b..c) = IF b > c THEN 0 ELSE c - b + 1
  <2> HIDE DEF b
  <2> QED BY <1>1, FS_Interval
<1>3. CASE a = c
  BY <1>2, <1>3
<1>4. CASE a < c
  BY <1>2, <1>4
<1> QED BY <1>2, <1>3, <1>4

\* An update of the log covers as many points as its count says.
LEMMA PointsOfUpdate ==
    ASSUME NEW u, u.pts \in Nat, u.count \in Nat, u.count <= u.pts
    PROVE  IsFiniteSet(Points(u)) /\ Cardinality(Points(u)) = u.count
<1>1. u.pts - u.count \in Int /\ u.pts - u.count <= u.pts
  OBVIOUS
<1>2. IsFiniteSet(Points(u)) /\ Cardinality(Points(u)) = u.pts - (u.pts - u.count)
  BY <1>1, IntervalSize DEF Points
<1> QED BY <1>2

\* What a set of updates of the log covers lies within its bounds.
LEMMA CoveredBounds ==
    ASSUME NEW S, \A v \in S : v.pts \in Nat /\ v.count \in Nat, NEW b \in Nat, NEW l \in Nat,
           \A v \in S : b <= Before(v) /\ v.pts <= l
    PROVE  /\ Covered(S) \subseteq (b + 1)..l
           /\ IsFiniteSet(Covered(S))
           /\ b <= l => Cardinality(Covered(S)) \in Nat /\ Cardinality(Covered(S)) <= l - b
<1>1. ASSUME NEW p \in Covered(S) PROVE p \in (b + 1)..l
  <2>1. PICK v \in S : p \in Points(v)
    BY DEF Covered
  <2>2. v.pts \in Nat /\ v.count \in Nat /\ b <= v.pts - v.count /\ v.pts <= l
    BY DEF Before
  <2> QED BY <2>1, <2>2 DEF Points
<1>2. IsFiniteSet((b + 1)..l) /\ (b <= l => Cardinality((b + 1)..l) = l - b)
  BY IntervalSize
<1>3. Covered(S) \in SUBSET ((b + 1)..l)
  BY <1>1
<1>4. IsFiniteSet(Covered(S)) /\ Cardinality(Covered(S)) <= Cardinality((b + 1)..l)
  BY <1>2, <1>3, FS_Subset
<1> QED BY <1>1, <1>2, <1>4, FS_CardinalityType

\* One more update of the log adds its count to what is covered.
LEMMA CoverOneMore ==
    ASSUME NEW L, Intervals(L), NEW S \in SUBSET L, NEW u \in L, u \notin S,
           NEW top \in Nat, \A v \in L : v.pts <= top
    PROVE  Cardinality(Covered(S \union {u})) = Cardinality(Covered(S)) + u.count
<1>1. Covered(S \union {u}) = Covered(S) \union Points(u)
  BY DEF Covered
<1>2. \A v \in L : v.pts \in Nat /\ v.count \in Nat /\ v.count <= v.pts
  BY DEF Intervals
<1>3. Covered(S) \intersect Points(u) = {}
  <2>1. ASSUME NEW p \in Covered(S), p \in Points(u) PROVE FALSE
    <3>1. PICK v \in S : p \in Points(v)
      BY DEF Covered
    <3>2. v \in L /\ v # u
      OBVIOUS
    <3>3. v.pts <= u.pts - u.count \/ u.pts <= v.pts - v.count
      BY <3>2 DEF Intervals, Before
    <3> QED BY <1>2, <2>1, <3>1, <3>2, <3>3 DEF Points
  <2> QED BY <2>1
<1>4. IsFiniteSet(Covered(S))
  <2>1. \A v \in S : 0 <= Before(v) /\ v.pts <= top
    BY <1>2 DEF Before
  <2> QED BY <1>2, <2>1, CoveredBounds
<1>5. IsFiniteSet(Points(u)) /\ Cardinality(Points(u)) = u.count
  BY <1>2, PointsOfUpdate
<1>6. Cardinality(Covered(S) \union Points(u)) =
         Cardinality(Covered(S)) + Cardinality(Points(u)) - Cardinality({})
  BY <1>3, <1>4, <1>5, FS_Union
<1>7. Cardinality(Covered(S)) \in Int /\ Cardinality({}) = 0 /\ u.count \in Int
  BY <1>2, <1>4, FS_EmptySet, FS_CardinalityType
<1>8. Cardinality(Covered(S) \union Points(u)) = Cardinality(Covered(S)) + u.count - 0
  BY ONLY <1>5, <1>6, <1>7
<1>9. Cardinality(Covered(S) \union Points(u)) = Cardinality(Covered(S)) + u.count
  BY ONLY <1>7, <1>8
<1> QED BY ONLY <1>1, <1>9

\* When the counts meet, no update up to there is missing.
LEMMA CountsMeet ==
    ASSUME NEW L, Intervals(L), NEW S \in SUBSET L,
           NEW b \in Nat, NEW l \in Nat, b <= l,
           \A u \in L : u.pts <= b \/ b <= Before(u),
           \A v \in S : b <= Before(v) /\ v.pts <= l,
           Cardinality(Covered(S)) = l - b
    PROVE  \A u \in L : u.pts <= l => u.pts <= b \/ u \in S
<1>1. SUFFICES ASSUME NEW u \in L, u.pts <= l, ~(u.pts <= b)
               PROVE  u \in S
  OBVIOUS
<1>2. \A v \in L : v.pts \in Nat /\ v.count \in Nat /\ v.count > 0
  BY DEF Intervals
<1>3. Covered(S) \in SUBSET ((b + 1)..l)
  BY <1>2, CoveredBounds
<1>4. IsFiniteSet((b + 1)..l) /\ Cardinality((b + 1)..l) = l - b
  BY IntervalSize
<1>5. Covered(S) = (b + 1)..l
  BY <1>3, <1>4, FS_Subset
<1>6. u.pts \in Covered(S)
  BY <1>1, <1>2, <1>5
<1>7. PICK v \in S : u.pts \in Points(v)
  BY <1>6 DEF Covered
<1>8. v \in L /\ (v = u \/ v.pts <= u.pts - u.count \/ u.pts <= v.pts - v.count)
  BY DEF Intervals, Before
<1> QED BY <1>2, <1>7, <1>8 DEF Points

-----------------------------------------------------------------------------
(* The methods: what becomes of the box and what it hands out. *)

LEMMA LargerIsBound ==
    ASSUME NEW a \in Nat, NEW b \in Nat
    PROVE  Larger(a, b) \in Nat /\ Larger(a, b) >= a /\ Larger(a, b) >= b
  BY DEF Larger

\* Counting an update moves `last' and `count' and nothing else.
LEMMA CountedFields ==
    ASSUME NEW Upd, NEW b \in BoxType(Nat, Upd), NEW u, u.pts \in Nat, u.count \in Nat
    PROVE  LET c == Counted(b, u)
           IN  /\ c \in BoxType(Nat, Upd)
               /\ c.last = Larger(b.last, u.pts) /\ c.count = b.count + u.count
               /\ c.good = b.good /\ c.queue = b.queue
               /\ c.waitSkipped = b.waitSkipped /\ c.requesting = b.requesting
<1>1. b.last \in Nat /\ u.pts \in Nat /\ b.count + u.count \in Nat
  BY DEF BoxType
<1>2. Larger(b.last, u.pts) \in Nat
  BY <1>1, LargerIsBound
<1>3. Counted(b, u) \in BoxType(Nat, Upd)
  BY <1>1, <1>2 DEF Counted, BoxType
<1>4. /\ Counted(b, u).last = Larger(b.last, u.pts)
      /\ Counted(b, u).count = b.count + u.count
      /\ Counted(b, u).good = b.good /\ Counted(b, u).queue = b.queue
      /\ Counted(b, u).waitSkipped = b.waitSkipped
      /\ Counted(b, u).requesting = b.requesting
  BY DEF Counted, BoxType
<1> QED BY <1>3, <1>4

\* Starting to wait keeps the numbers; the queue goes if the deadline was
\* over at once.
LEMMA StartWaitingFields ==
    ASSUME NEW Upd, NEW b \in BoxType(Nat, Upd), NEW deadline \in Deadlines
    PROVE  LET d == StartWaitingForSkipped(b, deadline)
           IN  /\ d \in BoxType(Nat, Upd)
               /\ d.good = b.good /\ d.last = b.last /\ d.count = b.count
               /\ d.waitSkipped /\ d.queue \in {{}, b.queue}
               /\ ~d.requesting => d.queue = b.queue
<1>1. CASE deadline = "over"
  BY <1>1 DEF StartWaitingForSkipped, StartTimer, SetRequesting, BoxType
<1>2. CASE deadline # "over"
  BY <1>2 DEF StartWaitingForSkipped, StartTimer, BoxType
<1> QED BY <1>1, <1>2

\* Queueing an update keeps the rest.
LEMMA SkippedFields ==
    ASSUME NEW Upd, NEW b \in BoxType(Nat, Upd), NEW u \in Upd
    PROVE  LET d == Skipped(b, u)
           IN  /\ d \in BoxType(Nat, Upd)
               /\ d.good = b.good /\ d.last = b.last /\ d.count = b.count
               /\ d.waitSkipped = b.waitSkipped /\ d.requesting = b.requesting
               /\ d.queue = b.queue \union {u}
  BY DEF Skipped, BoxType

\* Applying the skipped queue empties it, or there was no wait.
LEMMA ApplySkippedFields ==
    ASSUME NEW Upd, NEW b \in BoxType(Nat, Upd)
    PROVE  LET r == ApplySkipped(b)
           IN  /\ r.box \in BoxType(Nat, Upd)
               /\ r.box.good = b.good /\ r.box.last = b.last /\ r.box.count = b.count
               /\ r.box.requesting = b.requesting
               /\ b.waitSkipped => r.box.queue = {} /\ r.applied = b.queue
               /\ ~b.waitSkipped => r.box = b /\ r.applied = {}
<1>1. CASE b.waitSkipped
  BY <1>1 DEF ApplySkipped, StopWaitingForSkipped, CheckForWaiting, BoxType
<1>2. CASE ~b.waitSkipped
  BY <1>2 DEF ApplySkipped
<1> QED BY <1>1, <1>2

\* check() on a box in use: the update is counted; the claim moves exactly
\* when the counts meet, and otherwise the box waits.
LEMMA CheckFields ==
    ASSUME NEW Upd, NEW b \in BoxType(Nat, Upd), NEW u, u.pts \in Nat, u.count \in Nat,
           NEW deadline \in Deadlines, ~b.requesting, Inited(b)
    PROVE  LET d == Check(b, u, deadline)
           IN  /\ d \in BoxType(Nat, Upd)
               /\ d.last = Larger(b.last, u.pts) /\ d.count = b.count + u.count
               /\ Gap(d) <=> Gap(Counted(b, u))
               /\ ~Gap(d) => /\ d.good = d.last /\ ~d.requesting
                             /\ d.queue = b.queue
                             /\ d.waitSkipped <=> b.waitSkipped
               /\ Gap(d) => /\ d.good = b.good /\ d.waitSkipped
                            /\ d.queue \in {{}, b.queue}
                            /\ ~d.requesting => d.queue = b.queue
<1> DEFINE c == Counted(b, u)
           d == Check(b, u, deadline)
<1>1. /\ c \in BoxType(Nat, Upd)
      /\ c.last = Larger(b.last, u.pts) /\ c.count = b.count + u.count
      /\ c.good = b.good /\ c.queue = b.queue
      /\ c.waitSkipped = b.waitSkipped /\ c.requesting = b.requesting
  BY CountedFields
<1>2. CASE Gap(c)
  <2>1. d = StartWaitingForSkipped(c, deadline)
    BY <1>2 DEF Check
  <2>2. /\ d \in BoxType(Nat, Upd)
        /\ d.good = c.good /\ d.last = c.last /\ d.count = c.count
        /\ d.waitSkipped /\ d.queue \in {{}, c.queue}
        /\ ~d.requesting => d.queue = c.queue
    BY ONLY <1>1, <2>1, StartWaitingFields, deadline \in Deadlines
  <2>3. d.last = Larger(b.last, u.pts) /\ d.count = b.count + u.count
    BY ONLY <1>1, <2>2, Zenon
  <2>4. Gap(d) /\ Gap(c)
    BY <1>2, <2>2 DEF Gap
  <2> HIDE DEF c, d
  <2> QED BY ONLY <1>1, <2>2, <2>3, <2>4 DEF c, d
<1>3. CASE ~Gap(c)
  <2>1. d = [c EXCEPT !.good = c.last]
    BY <1>3 DEF Check
  <2>2. /\ d \in BoxType(Nat, Upd)
        /\ d.good = c.last /\ d.last = c.last /\ d.count = c.count
        /\ d.queue = c.queue /\ d.waitSkipped = c.waitSkipped /\ d.requesting = c.requesting
    <3> HIDE DEF c, d
    <3> QED BY <1>1, <2>1 DEF BoxType
  <2>3. d.last = Larger(b.last, u.pts) /\ d.count = b.count + u.count
    BY ONLY <1>1, <2>2, Zenon
  <2>4. ~Gap(d) /\ ~Gap(c) /\ d.good = d.last /\ ~d.requesting
    <3> HIDE DEF c, d
    <3> QED BY <1>1, <1>3, <2>2 DEF Gap
  <2> HIDE DEF c, d
  <2> QED BY ONLY <1>1, <2>2, <2>3, <2>4 DEF c, d
<1> QED BY <1>2, <1>3

\* What an updateAndApply() of u on box b must do, r being its result: `kept'
\* holds what it must not drop while no difference is requested.
Outcome(b, u, r, kept) ==
    /\ b.requesting => r.box.requesting /\ r.box.good = b.good /\ r.box.last = b.last
    /\ ~b.requesting /\ Old(b, u) => r.box = b /\ r.applied = {}
    /\ ~b.requesting /\ ~Old(b, u) /\ ~Inited(b) =>
          /\ r.box.good = u.pts /\ r.box.last = u.pts /\ r.box.count = u.pts
          /\ r.box.queue = {} /\ ~r.box.requesting
          /\ kept \subseteq r.applied
    /\ ~b.requesting /\ ~Old(b, u) /\ Inited(b) =>
          /\ r.box.last = Larger(b.last, u.pts)
          /\ r.box.count = b.count + u.count
          /\ ~Gap(r.box) => /\ r.box.good = r.box.last /\ ~r.box.requesting
                            /\ r.box.queue = {}
                            /\ (b.queue \union kept) \subseteq r.applied
          /\ Gap(r.box) => /\ r.box.good = b.good
                           /\ ~r.box.requesting =>
                                /\ (b.queue \union kept) \subseteq (r.applied \union r.box.queue)
                                /\ r.box.queue # {} => r.box.waitSkipped

\* updateAndApply() with a payload keeps the type of the box, applies only
\* what was queued or given, and has the outcome above.
LEMMA UpdateAndApplyOutcome ==
    ASSUME NEW Upd, NEW b \in BoxType(Nat, Upd), NEW u \in Upd, u.pts \in Nat, u.count \in Nat,
           NEW deadline \in Deadlines, u.count > 0,
           ~b.requesting /\ b.queue # {} => b.waitSkipped,
           ~b.requesting /\ ~Inited(b) => b.queue = {}
    PROVE  LET r == UpdateAndApply(b, u, deadline)
           IN  /\ r.box \in BoxType(Nat, Upd) /\ r.applied \subseteq b.queue \union {u}
               /\ Outcome(b, u, r, {u})
<1> DEFINE r == UpdateAndApply(b, u, deadline)
<1>1. CASE b.requesting
  <2>1. UpdatedPasses(b, u) /\ Updated(b, u, deadline) = b
    BY <1>1 DEF UpdatedPasses, Updated, UpdatedCount
  <2>2. CASE ~b.waitSkipped \/ b.queue = {}
    <3>1. r.box = b /\ r.applied = {u}
      BY <2>1, <2>2 DEF UpdateAndApply
    <3> QED BY <1>1, <3>1 DEF Outcome
  <2>3. CASE ~(~b.waitSkipped \/ b.queue = {})
    <3> DEFINE s == Skipped(b, u)
    <3>1. r = ApplySkipped(s)
      BY <2>1, <2>3 DEF UpdateAndApply
    <3>2. /\ s \in BoxType(Nat, Upd) /\ s.good = b.good /\ s.last = b.last
          /\ s.requesting = b.requesting
          /\ s.queue = b.queue \union {u}
      BY SkippedFields
    <3>3. /\ r.box \in BoxType(Nat, Upd) /\ r.box.good = s.good /\ r.box.last = s.last
          /\ r.box.requesting = s.requesting /\ r.applied \subseteq s.queue
      <4> HIDE DEF s, r
      <4> QED BY <3>1, <3>2, ApplySkippedFields
    <3> HIDE DEF s, r
    <3> QED BY <1>1, <3>2, <3>3 DEF Outcome, r
  <2> QED BY <2>2, <2>3
<1>2. CASE ~b.requesting /\ Old(b, u)
  <2>1. ~UpdatedPasses(b, u) /\ Updated(b, u, deadline) = b
    BY <1>2 DEF UpdatedPasses, Updated, UpdatedCount
  <2>2. r.box = b /\ r.applied = {}
    BY <2>1 DEF UpdateAndApply
  <2> QED BY <1>2, <2>2 DEF Outcome
<1>3. CASE ~b.requesting /\ ~Old(b, u) /\ ~Inited(b)
  <2> DEFINE d == InitPts(b, u.pts)
  <2>1. /\ d \in BoxType(Nat, Upd) /\ d.good = u.pts /\ d.last = u.pts /\ d.count = u.pts
        /\ d.queue = {} /\ ~d.requesting
    BY <1>3 DEF InitPts, BoxType
  <2>2. UpdatedPasses(b, u) /\ Updated(b, u, deadline) = d
    BY <1>3 DEF UpdatedPasses, Updated, UpdatedCount, CheckPasses, Check
  <2>3. r.box = d /\ r.applied = {u}
    <3> HIDE DEF d
    <3> QED BY <2>1, <2>2 DEF UpdateAndApply
  <2> HIDE DEF d, r
  <2> QED BY <1>3, <2>1, <2>3 DEF Outcome, r
<1>4. CASE ~b.requesting /\ ~Old(b, u) /\ Inited(b)
  <2> DEFINE d == Check(b, u, deadline)
  <2>1. /\ d \in BoxType(Nat, Upd)
        /\ d.last = Larger(b.last, u.pts) /\ d.count = b.count + u.count
        /\ Gap(d) <=> Gap(Counted(b, u))
        /\ ~Gap(d) => /\ d.good = d.last /\ ~d.requesting
                      /\ d.queue = b.queue
                      /\ d.waitSkipped <=> b.waitSkipped
        /\ Gap(d) => /\ d.good = b.good /\ d.waitSkipped
                     /\ ~d.requesting => d.queue = b.queue
    BY <1>4, CheckFields
  <2>2. CASE ~Gap(d)
    <3>1. UpdatedPasses(b, u) /\ Updated(b, u, deadline) = d
      BY <1>4, <2>1, <2>2 DEF UpdatedPasses, Updated, UpdatedCount, CheckPasses
    <3>2. CASE ~d.waitSkipped \/ d.queue = {}
      <4>1. r.box = d /\ r.applied = {u} /\ d.queue = {}
        <5> HIDE DEF d
        <5> QED BY <1>4, <2>1, <2>2, <3>1, <3>2 DEF UpdateAndApply
      <4> HIDE DEF d, r
      <4> QED BY <1>4, <2>1, <2>2, <4>1 DEF Outcome, r
    <3>3. CASE ~(~d.waitSkipped \/ d.queue = {})
      <4> DEFINE s == Skipped(d, u)
      <4>1. r = ApplySkipped(s)
        <5> HIDE DEF d
        <5> QED BY <3>1, <3>3 DEF UpdateAndApply
      <4>2. /\ s \in BoxType(Nat, Upd)
            /\ s.good = d.good /\ s.last = d.last /\ s.count = d.count
            /\ s.waitSkipped /\ s.requesting = d.requesting
            /\ s.queue = d.queue \union {u}
        <5> HIDE DEF d
        <5> QED BY <2>1, <3>3, SkippedFields
      <4>3. /\ r.box \in BoxType(Nat, Upd)
            /\ r.box.good = d.good /\ r.box.last = d.last /\ r.box.count = d.count
            /\ ~r.box.requesting /\ r.box.queue = {} /\ r.applied = b.queue \union {u}
        <5> HIDE DEF d, s, r
        <5> QED BY <2>1, <2>2, <4>1, <4>2, ApplySkippedFields
      <4>4. ~Gap(r.box) /\ r.box.good = r.box.last
        <5> HIDE DEF d, s, r
        <5> QED BY <2>1, <2>2, <4>3 DEF Gap
      <4> HIDE DEF d, r
      <4> QED BY <1>4, <2>1, <4>3, <4>4 DEF Outcome, r
    <3> QED BY <3>2, <3>3
  <2>3. CASE Gap(d)
    <3> DEFINE s == Skipped(d, u)
    <3>1. ~UpdatedPasses(b, u) /\ Updated(b, u, deadline) = s
      BY <1>4, <2>1, <2>3 DEF UpdatedPasses, Updated, UpdatedCount, CheckPasses
    <3>2. r.box = s /\ r.applied = {}
      <4> HIDE DEF s
      <4> QED BY <3>1 DEF UpdateAndApply
    <3>3. /\ s \in BoxType(Nat, Upd)
          /\ s.good = d.good /\ s.last = d.last /\ s.count = d.count
          /\ s.waitSkipped = d.waitSkipped /\ s.requesting = d.requesting
          /\ s.queue = d.queue \union {u}
      <4> HIDE DEF d
      <4> QED BY <2>1, SkippedFields
    <3>4. Gap(s)
      <4> HIDE DEF d, s
      <4> QED BY <2>3, <3>3 DEF Gap
    <3> HIDE DEF d, s, r
    <3> QED BY <1>4, <2>1, <2>3, <3>2, <3>3, <3>4 DEF Outcome, r
  <2> QED BY <2>2, <2>3
<1> QED BY <1>1, <1>2, <1>3, <1>4

\* updateAndApply() without a payload has the same outcome for the updates
\* queued before; the caller's own change is none of the box's business.
LEMMA UpdateAndApplyCountOutcome ==
    ASSUME NEW Upd, NEW b \in BoxType(Nat, Upd), NEW u, u.pts \in Nat, u.count \in Nat,
           NEW deadline \in Deadlines,
           ~b.requesting /\ b.queue # {} => b.waitSkipped,
           ~b.requesting /\ ~Inited(b) => b.queue = {}
    PROVE  LET r == UpdateAndApplyCount(b, u, deadline)
           IN  /\ r.box \in BoxType(Nat, Upd) /\ r.applied \subseteq b.queue
               /\ Outcome(b, u, r, {})
<1> DEFINE r == UpdateAndApplyCount(b, u, deadline)
<1>1. CASE b.requesting
  <2>1. r = ApplySkipped(b)
    BY <1>1 DEF UpdatedPasses, UpdateAndApplyCount, UpdatedCount
  <2>2. /\ r.box \in BoxType(Nat, Upd) /\ r.box.good = b.good /\ r.box.last = b.last
        /\ r.box.requesting = b.requesting /\ r.applied \subseteq b.queue
    <3> HIDE DEF r
    <3> QED BY <2>1, ApplySkippedFields
  <2> HIDE DEF r
  <2> QED BY <1>1, <2>2 DEF Outcome, r
<1>2. CASE ~b.requesting /\ Old(b, u)
  <2>1. r.box = b /\ r.applied = {}
    BY <1>2 DEF UpdatedPasses, UpdateAndApplyCount, UpdatedCount
  <2> QED BY <1>2, <2>1 DEF Outcome
<1>3. CASE ~b.requesting /\ ~Old(b, u) /\ ~Inited(b)
  <2> DEFINE d == InitPts(b, u.pts)
  <2>1. /\ d \in BoxType(Nat, Upd) /\ d.good = u.pts /\ d.last = u.pts /\ d.count = u.pts
        /\ d.queue = {} /\ ~d.requesting
    BY <1>3 DEF InitPts, BoxType
  <2>2. r = ApplySkipped(d)
    BY <1>3 DEF UpdatedPasses, UpdateAndApplyCount, UpdatedCount, CheckPasses, Check
  <2>3. /\ r.box \in BoxType(Nat, Upd)
        /\ r.box.good = d.good /\ r.box.last = d.last /\ r.box.count = d.count
        /\ ~r.box.requesting /\ r.box.queue = {} /\ r.applied = {}
    <3> HIDE DEF d, r
    <3> QED BY <2>1, <2>2, ApplySkippedFields
  <2> HIDE DEF d, r
  <2> QED BY <1>3, <2>1, <2>3 DEF Outcome, r
<1>4. CASE ~b.requesting /\ ~Old(b, u) /\ Inited(b)
  <2> DEFINE d == Check(b, u, deadline)
  <2>1. /\ d \in BoxType(Nat, Upd)
        /\ d.last = Larger(b.last, u.pts) /\ d.count = b.count + u.count
        /\ Gap(d) <=> Gap(Counted(b, u))
        /\ ~Gap(d) => /\ d.good = d.last /\ ~d.requesting
                      /\ d.queue = b.queue
                      /\ d.waitSkipped <=> b.waitSkipped
        /\ Gap(d) => /\ d.good = b.good /\ d.waitSkipped
                     /\ d.queue \in {{}, b.queue}
                     /\ ~d.requesting => d.queue = b.queue
    BY <1>4, CheckFields
  <2>2. CASE Gap(d) /\ u.count # 0
    <3>1. r.box = d /\ r.applied = {}
      BY <1>4, <2>1, <2>2 DEF UpdatedPasses, UpdateAndApplyCount, UpdatedCount, CheckPasses
    <3> HIDE DEF d, r
    <3> QED BY <1>4, <2>1, <2>2, <3>1 DEF Outcome, r
  <2>3. CASE ~Gap(d) \/ u.count = 0
    <3>1. r = ApplySkipped(d)
      BY <1>4, <2>1, <2>3 DEF UpdatedPasses, UpdateAndApplyCount, UpdatedCount, CheckPasses
    <3>2. /\ r.box \in BoxType(Nat, Upd)
          /\ r.box.good = d.good /\ r.box.last = d.last /\ r.box.count = d.count
          /\ r.box.requesting = d.requesting
          /\ r.applied = d.queue /\ r.box.queue = {}
      <4>1. d.waitSkipped \/ d.queue = {}
        BY <1>4, <2>1
      <4> HIDE DEF d, r
      <4> QED BY <2>1, <3>1, <4>1, ApplySkippedFields
    <3>3. Gap(r.box) <=> Gap(d)
      <4> HIDE DEF d, r
      <4> QED BY <3>2 DEF Gap
    <3>4. d.queue \subseteq b.queue
      BY <2>1
    <3>5. ~Gap(d) => r.box.good = r.box.last
      <4> HIDE DEF d, r
      <4> QED BY <2>1, <3>2
    <3> HIDE DEF d, r
    <3> QED BY <1>4, <2>1, <3>2, <3>3, <3>4, <3>5 DEF Outcome, r
  <2> QED BY <2>2, <2>3
<1> QED BY <1>1, <1>2, <1>3, <1>4

-----------------------------------------------------------------------------
(* Waiting: what keeps a missing update, and the short poll, from being      *)
(* forgotten.                                                                *)

\* A box that misses an update waits for it, with its timer.
Waiting(b) == Inited(b) /\ Gap(b) /\ ~b.requesting => b.timer /\ b.waitSkipped

\* The next short poll is ahead, or a request in its place is under way.
Polling(b) == b.waitShortPoll /\ (b.timer \/ b.requesting)

\* Nothing is queued that lies beyond the largest pts.
QueueBelow(b) == \A v \in b.queue : v.pts <= b.last

\* check() starts the wait when it finds an update missing, and leaves a
\* short poll alone.
LEMMA CheckWaits ==
    ASSUME NEW Upd, \A v \in Upd : v.pts \in Nat /\ v.count \in Nat,
           NEW b \in BoxType(Nat, Upd), NEW u, u.pts \in Nat, u.count \in Nat,
           NEW deadline \in Deadlines, ~b.requesting, QueueBelow(b)
    PROVE  LET d == Check(b, u, deadline)
           IN  /\ d \in BoxType(Nat, Upd) /\ d.queue \subseteq b.queue
               /\ Waiting(d) /\ QueueBelow(d) /\ u.pts <= d.last
               /\ Polling(b) => Polling(d)
               /\ Gap(d) <=> Inited(b) /\ Gap(Counted(b, u))
               /\ ~Gap(d) => d.good = d.last /\ ~d.requesting
<1> DEFINE d == Check(b, u, deadline)
           c == Counted(b, u)
<1>1. \A v \in Upd : v.pts \in Nat
  OBVIOUS
<1>2. CASE ~Inited(b)
  <2>1. d = InitPts(b, u.pts)
    BY <1>2 DEF Check
  <2>2. /\ d \in BoxType(Nat, Upd) /\ d.queue = {} /\ ~d.requesting
        /\ d.good = u.pts /\ d.last = u.pts /\ d.count = u.pts
        /\ d.timer = b.timer /\ d.waitShortPoll = b.waitShortPoll
    BY <2>1 DEF InitPts, BoxType
  <2> HIDE DEF d
  <2> QED BY <1>2, <2>2 DEF Waiting, Polling, QueueBelow, Gap, d
<1>3. CASE Inited(b)
  <2>1. /\ d \in BoxType(Nat, Upd)
        /\ d.last = Larger(b.last, u.pts) /\ d.count = b.count + u.count
        /\ Gap(d) <=> Gap(c)
        /\ ~Gap(d) => d.good = d.last /\ ~d.requesting /\ d.queue = b.queue
        /\ d.queue \in {{}, b.queue}
    BY <1>3, CheckFields
  <2>2. d.last >= b.last /\ u.pts <= d.last /\ d.last \in Nat /\ b.last \in Nat
    <3>1. b.last \in Nat /\ u.pts \in Nat
      BY DEF BoxType
    <3> HIDE DEF d
    <3> QED BY <2>1, <3>1, LargerIsBound
  <2>3. QueueBelow(d)
    <3>1. \A v \in d.queue : v \in b.queue /\ v.pts \in Nat
      BY <1>1, <2>1 DEF BoxType
    <3> HIDE DEF d
    <3> QED BY <2>2, <3>1 DEF QueueBelow
  <2>4. /\ Gap(c) => d.waitSkipped /\ (d.timer \/ d.requesting)
        /\ d.waitShortPoll = b.waitShortPoll
        /\ Polling(b) => d.timer \/ d.requesting
    <3>1. c.timer = b.timer /\ c.waitShortPoll = b.waitShortPoll /\ c.requesting = b.requesting
          /\ c \in BoxType(Nat, Upd)
      <4>1. c \in BoxType(Nat, Upd)
        BY CountedFields
      <4> QED BY <4>1 DEF Counted, BoxType
    <3> HIDE DEF c
    <3>2. CASE Gap(c)
      <4>1. d = StartWaitingForSkipped(c, deadline)
        BY <1>3, <3>2 DEF Check, c
      <4>2. CASE deadline = "over"
        BY <3>1, <4>1, <4>2 DEF StartWaitingForSkipped, StartTimer, SetRequesting, BoxType
      <4>3. CASE deadline # "over"
        BY <3>1, <4>1, <4>3 DEF StartWaitingForSkipped, StartTimer, BoxType
      <4> QED BY <4>2, <4>3
    <3>3. CASE ~Gap(c)
      <4>1. d = [c EXCEPT !.good = c.last]
        BY <1>3, <3>3 DEF Check, c
      <4> HIDE DEF d
      <4> QED BY <3>1, <3>3, <4>1 DEF Polling, BoxType
    <3> QED BY <3>2, <3>3
  <2> HIDE DEF d, c
  <2> QED BY <1>3, <2>1, <2>2, <2>3, <2>4 DEF Waiting, Polling, d, c
<1> QED BY <1>2, <1>3

\* Applying the queue ends the wait for what was missing, and no other.
LEMMA ApplySkippedWaits ==
    ASSUME NEW Upd, NEW b \in BoxType(Nat, Upd), QueueBelow(b)
    PROVE  LET r == ApplySkipped(b)
           IN  /\ QueueBelow(r.box) /\ (Polling(b) => Polling(r.box))
               /\ b.requesting \/ ~Gap(b) => Waiting(r.box)
<1> DEFINE r == ApplySkipped(b)
<1>1. CASE b.waitSkipped
  <2>1. /\ r.box.last = b.last /\ r.box.count = b.count /\ r.box.requesting = b.requesting
        /\ r.box.queue = {} /\ r.box.waitShortPoll = b.waitShortPoll
        /\ r.box.timer = (b.timer /\ b.waitShortPoll)
    BY <1>1 DEF ApplySkipped, StopWaitingForSkipped, CheckForWaiting, BoxType
  <2> HIDE DEF r
  <2> QED BY <2>1 DEF Waiting, QueueBelow, Polling, Gap, r
<1>2. CASE ~b.waitSkipped
  <2>1. r.box = b
    BY <1>2 DEF ApplySkipped
  <2> QED BY <2>1 DEF Waiting
<1> QED BY <1>1, <1>2

\* What a box does when it is given an update: the short poll stays ahead.
\* If the update has points, the box goes on waiting for what is missing, and
\* whatever it applies lies below the pts it then claims.
WellGiven(b, r, points) ==
    /\ QueueBelow(r.box)
    /\ Polling(b) => Polling(r.box)
    /\ points /\ Waiting(b) => Waiting(r.box)
    /\ points /\ ~b.requesting => \A v \in r.applied : v.pts <= r.box.good

\* updateAndApply() with a payload.
LEMMA UpdateAndApplyWaits ==
    ASSUME NEW Upd, \A v \in Upd : v.pts \in Nat /\ v.count \in Nat,
           NEW b \in BoxType(Nat, Upd), NEW u \in Upd, NEW deadline \in Deadlines,
           u.count > 0, ~b.requesting, QueueBelow(b),
           ~Inited(b) => b.queue = {}
    PROVE  WellGiven(b, UpdateAndApply(b, u, deadline), TRUE)
<1> DEFINE r == UpdateAndApply(b, u, deadline)
           d == Check(b, u, deadline)
<1>0. u.pts \in Nat /\ u.count \in Nat
  OBVIOUS
<1>1. CASE Old(b, u)
  <2>1. r.box = b /\ r.applied = {}
    BY <1>1 DEF UpdateAndApply, UpdatedPasses, Updated, UpdatedCount
  <2> HIDE DEF r
  <2> QED BY <2>1 DEF WellGiven, r
<1>2. CASE ~Old(b, u)
  <2>1. /\ d \in BoxType(Nat, Upd) /\ d.queue \subseteq b.queue
        /\ Waiting(d) /\ QueueBelow(d) /\ u.pts <= d.last
        /\ Polling(b) => Polling(d)
        /\ Gap(d) <=> Inited(b) /\ Gap(Counted(b, u))
        /\ ~Gap(d) => d.good = d.last /\ ~d.requesting
    BY <1>0, CheckWaits
  <2>2. UpdatedCount(b, u, deadline) = d /\ (UpdatedPasses(b, u) <=> ~Gap(d))
    BY <1>2, <2>1 DEF UpdatedCount, UpdatedPasses, CheckPasses
  <2> HIDE DEF d
  <2> DEFINE s == Skipped(d, u)
  <2>3. /\ s \in BoxType(Nat, Upd) /\ s.good = d.good /\ s.last = d.last /\ s.count = d.count
        /\ s.waitSkipped = d.waitSkipped /\ s.requesting = d.requesting
        /\ s.queue = d.queue \union {u} /\ s.timer = d.timer /\ s.waitShortPoll = d.waitShortPoll
    BY <2>1 DEF Skipped, BoxType
  <2> HIDE DEF s
  <2>4. Waiting(s) /\ QueueBelow(s) /\ (Polling(d) => Polling(s)) /\ (Gap(s) <=> Gap(d))
    BY <2>1, <2>3 DEF Waiting, QueueBelow, Polling, Gap, Inited
  <2>5. CASE Gap(d)
    <3>1. r.box = s /\ r.applied = {}
      BY <1>2, <2>2, <2>5 DEF UpdateAndApply, Updated, s
    <3> HIDE DEF r
    <3> QED BY <2>1, <2>4, <3>1 DEF WellGiven, r
  <2>6. CASE ~Gap(d)
    <3>1. Updated(b, u, deadline) = d
      BY <2>2, <2>6 DEF Updated
    <3>2. CASE ~d.waitSkipped \/ d.queue = {}
      <4>1. r.box = d /\ r.applied = {u}
        BY <2>2, <2>6, <3>1, <3>2 DEF UpdateAndApply
      <4> HIDE DEF r
      <4> QED BY <2>1, <2>6, <4>1 DEF WellGiven, r
    <3>3. CASE ~(~d.waitSkipped \/ d.queue = {})
      <4>1. r = ApplySkipped(s)
        BY <2>2, <2>6, <3>1, <3>3 DEF UpdateAndApply, s
      <4>2. Waiting(r.box) /\ QueueBelow(r.box) /\ (Polling(s) => Polling(r.box))
        <5> HIDE DEF r
        <5> QED BY <2>3, <2>4, <2>6, <4>1, ApplySkippedWaits
      <4>3. r.box.good = s.good /\ r.applied = s.queue
        <5> HIDE DEF r
        <5> QED BY <2>3, <3>3, <4>1, ApplySkippedFields
      <4>4. \A v \in r.applied : v.pts <= r.box.good
        <5> HIDE DEF r
        <5> QED BY <2>1, <2>3, <2>4, <2>6, <4>3 DEF QueueBelow
      <4> HIDE DEF r
      <4> QED BY <2>1, <2>4, <4>2, <4>4 DEF WellGiven, r
    <3> QED BY <3>2, <3>3
  <2> QED BY <2>5, <2>6
<1> QED BY <1>1, <1>2

\* updateAndApply() without one.  A count of zero ends the wait for a missing
\* update: this says little of it, unless the box is not in use.
LEMMA UpdateAndApplyCountWaits ==
    ASSUME NEW Upd, \A v \in Upd : v.pts \in Nat /\ v.count \in Nat,
           NEW b \in BoxType(Nat, Upd), NEW u, u.pts \in Nat, u.count \in Nat,
           NEW deadline \in Deadlines,
           QueueBelow(b)
    PROVE  WellGiven(b, UpdateAndApplyCount(b, u, deadline),
                     u.count > 0 \/ ~Inited(b) \/ b.requesting)
<1> DEFINE r == UpdateAndApplyCount(b, u, deadline)
           d == Check(b, u, deadline)
<1>1. CASE b.requesting
  <2>1. r = ApplySkipped(b)
    BY <1>1 DEF UpdateAndApplyCount, UpdatedPasses, UpdatedCount
  <2>2. Waiting(r.box) /\ QueueBelow(r.box) /\ (Polling(b) => Polling(r.box))
    <3> HIDE DEF r
    <3> QED BY <1>1, <2>1, ApplySkippedWaits
  <2> HIDE DEF r
  <2> QED BY <1>1, <2>2 DEF WellGiven, r
<1>2. CASE ~b.requesting /\ Old(b, u)
  <2>1. r.box = b /\ r.applied = {}
    BY <1>2 DEF UpdateAndApplyCount, UpdatedPasses, UpdatedCount
  <2> HIDE DEF r
  <2> QED BY <2>1 DEF WellGiven, r
<1>3. CASE ~b.requesting /\ ~Old(b, u)
  <2>1. /\ d \in BoxType(Nat, Upd) /\ d.queue \subseteq b.queue
        /\ Waiting(d) /\ QueueBelow(d) /\ u.pts <= d.last
        /\ Polling(b) => Polling(d)
        /\ Gap(d) <=> Inited(b) /\ Gap(Counted(b, u))
        /\ ~Gap(d) => d.good = d.last /\ ~d.requesting
    BY <1>3, CheckWaits
  <2>2. UpdatedCount(b, u, deadline) = d /\ (UpdatedPasses(b, u) <=> ~Gap(d) \/ u.count = 0)
    BY <1>3, <2>1 DEF UpdatedCount, UpdatedPasses, CheckPasses
  <2> HIDE DEF d
  <2>3. CASE ~UpdatedPasses(b, u)
    <3>1. r.box = d /\ r.applied = {}
      BY <2>2, <2>3 DEF UpdateAndApplyCount
    <3> HIDE DEF r
    <3> QED BY <2>1, <3>1 DEF WellGiven, r
  <2>4. CASE UpdatedPasses(b, u)
    <3>1. r = ApplySkipped(d)
      BY <2>2, <2>4 DEF UpdateAndApplyCount
    <3> HIDE DEF r
    <3>2. /\ QueueBelow(r.box) /\ (Polling(d) => Polling(r.box))
          /\ ~Gap(d) => Waiting(r.box)
      BY <2>1, <3>1, ApplySkippedWaits
    <3>3. r.box.good = d.good /\ r.applied \subseteq d.queue
      BY <2>1, <3>1, ApplySkippedFields
    <3>4. Gap(d) => Inited(b) /\ u.count = 0
      BY <2>1, <2>2, <2>4
    <3>5. ~Gap(d) => \A v \in r.applied : v.pts <= r.box.good
      BY <2>1, <3>3 DEF QueueBelow
    <3>6. u.count > 0 \/ ~Inited(b) \/ b.requesting => ~Gap(d)
      BY <1>3, <3>4
    <3> QED BY <2>1, <3>2, <3>5, <3>6 DEF WellGiven, r
  <2> QED BY <2>3, <2>4
<1> QED BY <1>1, <1>2, <1>3

-----------------------------------------------------------------------------
(* Counting: a box in use counts points of a log, and what it claims to     *)
(* have reached never passes an update that is not known.                   *)

\* No update of the log straddles pts.
NoneAcross(L, pts) == \A u \in L : u.pts <= pts \/ pts <= Before(u)

\* The box started to count at base, and has counted these updates since.
Counting(L, b, k, base, counted) ==
    /\ base \in Nat /\ NoneAcross(L, base) /\ counted \subseteq L
    /\ base <= b.good /\ b.good <= b.last
    /\ b.count = base + Cardinality(Covered(counted))
    /\ \A v \in counted : base <= Before(v) /\ v.pts <= b.last
    /\ counted \subseteq k \union b.queue

\* What holds of a box that is given the updates of the log L up to top, k
\* being what is known: a box in use knows its pts and has not counted those
\* that are still to come.
Sound(L, top, b, k, rest) ==
    /\ b \in BoxType(Nat, L) /\ k \subseteq L /\ b.good <= top /\ b.last <= top
    /\ \A v \in L : v.pts <= b.good => v \in k
    /\ ~b.requesting =>
          /\ Inited(b) /\ (b.queue # {} => Gap(b) /\ b.waitSkipped)
          /\ \E base, counted : Counting(L, b, k, base, counted) /\ counted \intersect rest = {}

\* The box b is given the update u, and r is what comes of it; the caller has
\* applied extra itself.
Gives(L, top, b, k, rest, u, r, kept, extra) ==
    /\ Intervals(L) /\ top \in Nat /\ \A v \in L : v.pts <= top
    /\ Sound(L, top, b, k, rest) /\ u \in L /\ u \in rest
    /\ extra \subseteq L /\ u \in kept \union extra
    /\ Outcome(b, u, r, kept) /\ r.box \in BoxType(Nat, L) /\ r.applied \subseteq L

\* The box has become d: it is sound for what is known and still to come now,
\* and has not moved its claim back.
Gave(L, top, b, k, rest, d) ==
    /\ Sound(L, top, d, k, rest) /\ d.good >= b.good
    /\ b.requesting => d.requesting /\ d.good = b.good
    /\ d.requesting => d.good = b.good

\* Giving an update that is still to come keeps a box sound, and never moves
\* the claim back.
LEMMA GivenStaysSound ==
    ASSUME NEW L, NEW top, NEW b, NEW k, NEW rest, NEW u, NEW r, NEW kept, NEW extra,
           Gives(L, top, b, k, rest, u, r, kept, extra)
    PROVE  Gave(L, top, b, k \union r.applied \union extra, rest \ {u}, r.box)
<1> DEFINE d == r.box
           j == k \union r.applied \union extra
<1> HIDE DEF d, j
<1> USE DEF Gives, Gave
<1>0. /\ u.pts \in Nat /\ u.count \in Nat /\ u.count > 0 /\ u.pts <= top
      /\ b.good \in Nat /\ b.last \in Nat /\ b.count \in Nat /\ b.good <= top /\ b.last <= top
      /\ d.good \in Nat /\ d.last \in Nat /\ d.count \in Nat
      /\ \A v \in L : v.pts \in Nat /\ v.count \in Nat
      /\ d \in BoxType(Nat, L) /\ j \subseteq L /\ k \subseteq j
      /\ r.applied \subseteq j /\ extra \subseteq j
      /\ \A v \in L : v.pts <= b.good => v \in k
  BY DEF Sound, Intervals, BoxType, d, j
<1>1. CASE b.requesting
  <2>1. d.requesting /\ d.good = b.good /\ d.last = b.last
    BY <1>1 DEF Outcome, d
  <2> QED BY <1>0, <2>1 DEF Sound, d, j
<1>2. CASE ~b.requesting
  <2>1. PICK base, counted : Counting(L, b, k, base, counted) /\ counted \intersect rest = {}
    BY <1>2 DEF Sound
  <2>2. Inited(b) /\ u \notin counted /\ b.good > 0
    BY <1>2, <2>1 DEF Sound, Inited
  <2>3. /\ base \in Nat /\ NoneAcross(L, base) /\ counted \in SUBSET L
        /\ base <= b.good /\ b.good <= b.last
        /\ b.count = base + Cardinality(Covered(counted))
        /\ \A v \in counted : base <= Before(v) /\ v.pts <= b.last
        /\ counted \subseteq k \union b.queue
    BY <2>1 DEF Counting
  <2>4. CASE Old(b, u)
    <3>1. d = b
      BY <1>2, <2>4 DEF Outcome, d
    <3>2. Counting(L, d, j, base, counted)
      BY <1>0, <2>3, <3>1 DEF Counting
    <3>3. Inited(d) /\ (d.queue # {} => Gap(d) /\ d.waitSkipped)
      BY <1>2, <3>1 DEF Sound
    <3>4. counted \intersect (rest \ {u}) = {}
      BY <2>1
    <3> QED BY <1>0, <1>2, <3>1, <3>2, <3>3, <3>4 DEF Sound, d, j
  <2>5. CASE ~Old(b, u)
    <3> DEFINE more == counted \union {u}
    <3>1. /\ d.last = Larger(b.last, u.pts) /\ d.count = b.count + u.count
          /\ ~Gap(d) => /\ d.good = d.last /\ ~d.requesting /\ d.queue = {}
                        /\ (b.queue \union kept) \subseteq r.applied
          /\ Gap(d) => /\ d.good = b.good
                       /\ ~d.requesting =>
                            /\ (b.queue \union kept) \subseteq (r.applied \union d.queue)
                            /\ d.queue # {} => d.waitSkipped
      BY <1>2, <2>2, <2>5 DEF Outcome, d
    <3>2. d.last >= b.last /\ d.last >= u.pts /\ d.last <= top
      BY <1>0, <3>1 DEF Larger
    <3>3. d.good >= b.good /\ d.good <= d.last /\ base <= d.good /\ d.good <= top /\ Inited(d)
      BY <1>0, <2>2, <2>3, <3>1, <3>2 DEF Inited
    <3>4. \A v \in more : base <= Before(v) /\ v.pts <= d.last
      <4>1. base <= Before(u)
        BY <1>0, <2>3, <2>5 DEF NoneAcross, Old, Before
      <4>2. \A v \in counted : v.pts <= d.last
        <5>1. \A v \in counted : v.pts \in Nat
          BY <1>0, <2>3
        <5> QED BY <1>0, <2>3, <3>2, <5>1
      <4> QED BY <2>3, <3>2, <4>1, <4>2
    <3>5. more \in SUBSET L
      BY <2>3
    <3>6. d.count = base + Cardinality(Covered(more))
      <4>1. Cardinality(Covered(more)) = Cardinality(Covered(counted)) + u.count
        BY <2>2, <2>3, CoverOneMore
      <4>2. Cardinality(Covered(counted)) \in Nat
        <5>1. \A v \in counted : v.pts \in Nat /\ v.count \in Nat
          BY <1>0, <2>3
        <5>2. base <= b.last
          BY <1>0, <2>3
        <5> QED BY <1>0, <2>3, <5>1, <5>2, CoveredBounds
      <4> HIDE DEF more
      <4> QED BY <1>0, <2>3, <3>1, <4>1, <4>2
    <3>7. ~d.requesting => more \subseteq j \union d.queue
      BY <1>0, <2>3, <3>1
    <3>8. \A v \in L : v.pts <= d.good => v \in j
      <4>1. CASE Gap(d)
        BY <1>0, <3>1, <4>1
      <4>2. CASE ~Gap(d)
        <5>1. d.good = d.last /\ d.last = d.count /\ ~d.requesting /\ d.queue = {}
          BY <3>1, <4>2 DEF Gap
        <5>2. Cardinality(Covered(more)) = d.last - base /\ base <= d.last
          <6>1. Cardinality(Covered(more)) \in Nat
            <7>1. \A v \in more : v.pts \in Nat /\ v.count \in Nat
              BY <1>0, <3>5
            <7>2. base <= d.last
              BY <1>0, <2>3, <3>3
            <7> HIDE DEF more
            <7> QED BY <1>0, <2>3, <3>4, <7>1, <7>2, CoveredBounds
          <6> HIDE DEF more
          <6> QED BY <1>0, <2>3, <3>3, <3>6, <5>1, <6>1
        <5>3. \A v \in L : v.pts <= d.last => v.pts <= base \/ v \in more
          <6> HIDE DEF more
          <6> QED BY <1>0, <2>3, <3>4, <3>5, <5>2, CountsMeet DEF NoneAcross
        <5>4. \A v \in L : v.pts <= base => v \in k
          BY <1>0, <2>3
        <5>5. more \subseteq j
          BY <3>7, <5>1
        <5> QED BY <1>0, <5>1, <5>3, <5>4, <5>5
      <4> QED BY <4>1, <4>2
    <3>9. ~d.requesting => Counting(L, d, j, base, more)
      BY <2>3, <3>3, <3>4, <3>5, <3>6, <3>7 DEF Counting
    <3>10. ~d.requesting => (d.queue # {} => Gap(d) /\ d.waitSkipped)
      BY <3>1
    <3>11. more \intersect (rest \ {u}) = {}
      BY <2>1
    <3>12. d.requesting => d.good = b.good
      BY <3>1
    <3> HIDE DEF more
    <3>13. Sound(L, top, d, j, rest \ {u})
      BY <1>0, <3>2, <3>3, <3>8, <3>9, <3>10, <3>11 DEF Sound
    <3> QED BY <1>2, <3>3, <3>12, <3>13 DEF d, j
  <2> QED BY <2>4, <2>5
<1> QED BY <1>1, <1>2

\* A sound box meets what the methods rely on.
LEMMA SoundIsReady ==
    ASSUME NEW L, NEW top, NEW b, NEW k, NEW rest, Sound(L, top, b, k, rest)
    PROVE  /\ b \in BoxType(Nat, L) /\ b.queue \subseteq L
           /\ ~b.requesting /\ b.queue # {} => b.waitSkipped
           /\ ~b.requesting => Inited(b)
  BY DEF Sound, BoxType

\* updateAndApply() with a payload, of a sound box that waits as it should.
LEMMA UpdateAndApplySound ==
    ASSUME NEW L, Intervals(L), NEW top \in Nat, \A v \in L : v.pts <= top,
           NEW b, NEW k, NEW rest, Sound(L, top, b, k, rest), Waiting(b), QueueBelow(b),
           NEW u \in L, u \in rest, NEW deadline \in Deadlines
    PROVE  LET r == UpdateAndApply(b, u, deadline)
           IN  /\ Gave(L, top, b, k \union r.applied, rest \ {u}, r.box)
               /\ Waiting(r.box) /\ QueueBelow(r.box)
               /\ r.box \in BoxType(Nat, L) /\ r.applied \subseteq L
<1> DEFINE r == UpdateAndApply(b, u, deadline)
<1>1. /\ b \in BoxType(Nat, L) /\ b.queue \subseteq L
      /\ ~b.requesting /\ b.queue # {} => b.waitSkipped
      /\ ~b.requesting => Inited(b)
  BY SoundIsReady
<1>2. u.pts \in Nat /\ u.count \in Nat /\ u.count > 0 /\ \A v \in L : v.pts \in Nat /\ v.count \in Nat
  BY DEF Intervals
<1>3. /\ r.box \in BoxType(Nat, L) /\ r.applied \subseteq b.queue \union {u}
      /\ Outcome(b, u, r, {u})
  <2> HIDE DEF r
  <2> QED BY <1>1, <1>2, UpdateAndApplyOutcome DEF r
<1>4. Waiting(r.box) /\ QueueBelow(r.box)
  <2>1. CASE b.requesting
    <3> DEFINE s == Skipped(b, u)
    <3>1. UpdatedPasses(b, u) /\ Updated(b, u, deadline) = b
      BY <2>1 DEF UpdatedPasses, Updated, UpdatedCount
    <3>2. r.box.requesting
      BY <1>3, <2>1 DEF Outcome
    <3>3. CASE ~b.waitSkipped \/ b.queue = {}
      BY <3>1, <3>3 DEF UpdateAndApply
    <3>4. CASE ~(~b.waitSkipped \/ b.queue = {})
      <4>1. r = ApplySkipped(s)
        BY <3>1, <3>4 DEF UpdateAndApply
      <4>2. s \in BoxType(Nat, L) /\ s.waitSkipped
        BY <1>1, <3>4 DEF Skipped, BoxType
      <4>3. r.box.queue = {}
        <5> HIDE DEF r, s
        <5> QED BY <4>1, <4>2, ApplySkippedFields
      <4> HIDE DEF r
      <4> QED BY <3>2, <4>3 DEF Waiting, QueueBelow
    <3> QED BY <3>3, <3>4
  <2>2. CASE ~b.requesting
    <3>1. WellGiven(b, r, TRUE)
      <4> HIDE DEF r
      <4> QED BY <1>1, <1>2, <2>2, UpdateAndApplyWaits DEF r
    <3> HIDE DEF r
    <3> QED BY <3>1 DEF WellGiven
  <2> QED BY <2>1, <2>2
<1>5. r.applied \subseteq L /\ u \in {u} \union {} /\ k \union r.applied \union {} = k \union r.applied
  BY <1>1, <1>3
<1> HIDE DEF r
<1>6. Gave(L, top, b, k \union r.applied \union {}, rest \ {u}, r.box)
  <2>1. Gives(L, top, b, k, rest, u, r, {u}, {})
    BY <1>3, <1>5 DEF Gives
  <2> QED BY <2>1, GivenStaysSound
<1> QED BY <1>3, <1>4, <1>5, <1>6 DEF r

\* updateAndApply() without one: the caller has applied the update itself.
LEMMA UpdateAndApplyCountSound ==
    ASSUME NEW L, Intervals(L), NEW top \in Nat, \A v \in L : v.pts <= top,
           NEW b, NEW k, NEW rest, Sound(L, top, b, k, rest), Waiting(b), QueueBelow(b),
           NEW u \in L, u \in rest, NEW deadline \in Deadlines
    PROVE  LET r == UpdateAndApplyCount(b, u, deadline)
           IN  /\ Gave(L, top, b, k \union (r.applied \union {u}), rest \ {u}, r.box)
               /\ Waiting(r.box) /\ QueueBelow(r.box)
               /\ r.box \in BoxType(Nat, L) /\ r.applied \subseteq L
<1> DEFINE r == UpdateAndApplyCount(b, u, deadline)
<1>1. /\ b \in BoxType(Nat, L) /\ b.queue \subseteq L
      /\ ~b.requesting /\ b.queue # {} => b.waitSkipped
      /\ ~b.requesting => Inited(b)
  BY SoundIsReady
<1>2. u.pts \in Nat /\ u.count \in Nat /\ u.count > 0 /\ \A v \in L : v.pts \in Nat /\ v.count \in Nat
  BY DEF Intervals
<1> HIDE DEF r
<1>3. /\ r.box \in BoxType(Nat, L) /\ r.applied \subseteq b.queue
      /\ Outcome(b, u, r, {})
  BY <1>1, <1>2, UpdateAndApplyCountOutcome DEF r
<1>4. WellGiven(b, r, u.count > 0 \/ ~Inited(b) \/ b.requesting)
  BY <1>1, <1>2, UpdateAndApplyCountWaits DEF r
<1>5. Waiting(r.box) /\ QueueBelow(r.box)
  BY <1>2, <1>4 DEF WellGiven
<1>6. /\ r.applied \subseteq L /\ u \in {} \union {u} /\ {u} \in SUBSET L
      /\ k \union r.applied \union {u} = k \union (r.applied \union {u})
  BY <1>1, <1>3
<1>7. Gave(L, top, b, k \union r.applied \union {u}, rest \ {u}, r.box)
  <2>1. Gives(L, top, b, k, rest, u, r, {}, {u})
    BY <1>3, <1>6 DEF Gives
  <2> QED BY <2>1, GivenStaysSound
<1> QED BY <1>3, <1>5, <1>6, <1>7 DEF r

\* init() to a pts of the log up to which everything is known.
LEMMA InitPtsSound ==
    ASSUME NEW L, Intervals(L), NEW top \in Nat, NEW b, b \in BoxType(Nat, L),
           NEW pts \in Nat, pts > 0, pts <= top, NoneAcross(L, pts),
           NEW k \in SUBSET L, \A v \in L : v.pts <= pts => v \in k, NEW rest
    PROVE  LET d == InitPts(b, pts)
           IN  /\ Sound(L, top, d, k, rest) /\ Sound(L, top, SetRequesting(d, FALSE), k, rest)
               /\ ~Gap(d) /\ d.good = pts /\ d.queue = {} /\ d.requesting = b.requesting
<1> DEFINE d == InitPts(b, pts)
           e == SetRequesting(d, FALSE)
<1>1. /\ d \in BoxType(Nat, L) /\ d.good = pts /\ d.last = pts /\ d.count = pts /\ d.queue = {}
      /\ d.requesting = b.requesting
      /\ e \in BoxType(Nat, L) /\ e.good = pts /\ e.last = pts /\ e.count = pts /\ e.queue = {}
  BY DEF InitPts, SetRequesting, BoxType
<1> HIDE DEF d, e
<1>2. Cardinality(Covered({})) = 0
  <2>1. Covered({}) = {}
    BY DEF Covered
  <2> QED BY <2>1, FS_EmptySet
<1>3. Counting(L, d, k, pts, {}) /\ Counting(L, e, k, pts, {})
  BY <1>1, <1>2 DEF Counting
<1>4. Sound(L, top, d, k, rest) /\ Sound(L, top, e, k, rest)
  BY <1>1, <1>3 DEF Sound, Inited
<1> QED BY <1>1, <1>4 DEF d, e, Gap

\* A sound box stays so when less is to come, and when its flags change: it
\* keeps its numbers and its queue, or is requesting.
LEMMA SoundFlags ==
    ASSUME NEW L, NEW top, NEW b, NEW k, NEW rest, Sound(L, top, b, k, rest),
           NEW some \in SUBSET rest, NEW d \in BoxType(Nat, L),
           d.good = b.good, d.last = b.last,
           \/ d.requesting
           \/ /\ ~b.requesting /\ d.count = b.count /\ d.queue = b.queue
              /\ d.waitSkipped = b.waitSkipped
    PROVE  Sound(L, top, d, k, some)
<1>1. CASE d.requesting
  BY <1>1 DEF Sound
<1>2. CASE /\ ~d.requesting /\ ~b.requesting /\ d.count = b.count /\ d.queue = b.queue
           /\ d.waitSkipped = b.waitSkipped
  <2>1. PICK base, counted : Counting(L, b, k, base, counted) /\ counted \intersect rest = {}
    BY <1>2 DEF Sound
  <2>2. Counting(L, d, k, base, counted) /\ counted \intersect some = {}
    BY <1>2, <2>1 DEF Counting
  <2>3. Inited(d) /\ (d.queue # {} => Gap(d) /\ d.waitSkipped)
    BY <1>2 DEF Sound, Inited, Gap
  <2> QED BY <1>2, <2>2, <2>3 DEF Sound
<1> QED BY <1>1, <1>2

\* A sound box stays so when the server makes an update.
LEMMA SoundGrows ==
    ASSUME NEW L, Intervals(L), NEW top \in Nat, \A v \in L : v.pts <= top,
           NEW b, NEW k, NEW rest, Sound(L, top, b, k, rest),
           NEW u, u.pts \in Nat, u.count \in Nat, u.count > 0, Before(u) = top,
           NEW M, M = L \union {u}, NEW more, more \subseteq rest \union {u}
    PROVE  Sound(M, u.pts, b, k, more)
<1>1. /\ b \in BoxType(Nat, L) /\ b.good \in Nat /\ b.last \in Nat /\ b.good <= top /\ b.last <= top
      /\ k \subseteq L /\ \A v \in L : v.pts <= b.good => v \in k
      /\ u.pts > top /\ u \notin L
  BY DEF Sound, BoxType, Before
<1>2. b \in BoxType(Nat, M) /\ k \subseteq M /\ b.good <= u.pts /\ b.last <= u.pts
  BY <1>1 DEF BoxType
<1>3. \A v \in M : v.pts <= b.good => v \in k
  BY <1>1
<1>4. CASE ~b.requesting
  <2>1. PICK base, counted : Counting(L, b, k, base, counted) /\ counted \intersect rest = {}
    BY <1>4 DEF Sound
  <2>2. NoneAcross(M, base) /\ counted \subseteq M
    BY <1>1, <2>1 DEF NoneAcross, Counting
  <2>3. Counting(M, b, k, base, counted)
    BY <2>1, <2>2 DEF Counting
  <2>4. counted \intersect more = {}
    BY <1>1, <2>1 DEF Counting
  <2>5. Inited(b) /\ (b.queue # {} => Gap(b) /\ b.waitSkipped)
    BY <1>4 DEF Sound
  <2> HIDE DEF Sound
  <2> QED BY <1>2, <1>3, <1>4, <2>3, <2>4, <2>5 DEF Sound
<1> QED BY <1>2, <1>3, <1>4 DEF Sound
=============================================================================
