-------------------------- MODULE Downloads_proofs --------------------------
(***************************************************************************)
(* Proofs about Downloads for all files and streams, all their sizes and   *)
(* all limits, as long as no token is refused while parts are held back    *)
(* for their hashes: no part is lost or loaded twice, a file that is done  *)
(* has all its parts and, as long as the data centre has no more on its    *)
(* way than all its sessions may hold, the amounts add up and no assertion *)
(* of the manager or of a task fails.                                      *)
(***************************************************************************)
EXTENDS Downloads, FiniteSetTheorems, SequenceTheorems, WellFoundedInduction, TLAPS

-----------------------------------------------------------------------------
(* What the manager is made of.                                              *)

\* A session may hold what it begins with, or more.
SessionType == [requested : Int, successes : Int, max : {i \in Int : i >= StartWaited}]

BalanceType ==
    [timeouts : Int, index : Int, times : Int, removed : BOOLEAN, total : Int]

EntryType == [task : Tasks, priority : Int]

IsSeq(q) == \E S : q \in Seq(S)

IsRequest(r) ==
    /\ r = [kind |-> r.kind, offset |-> r.offset, session |-> r.session,
            amount |-> r.amount, late |-> r.late, renewed |-> r.renewed,
            awaits |-> r.awaits]
    /\ r.offset \in Parts /\ r.session \in Nat

IsPosted(c) ==
    /\ c.call = "hashes" => c.task \in Tasks
    /\ c.call # "hashes" => c.session \in Nat

Held(k) == DOMAIN k.unchecked
Taken(k) == Offsets(k) \union Held(k)
Queried(k) == {e.offset : e \in k.requested}

TaskShape(k) ==
    /\ k = [status |-> k.status, sent |-> k.sent, unchecked |-> k.unchecked,
            hashes |-> k.hashes, cdn |-> k.cdn, renewed |-> k.renewed,
            renewing |-> k.renewing, next |-> k.next, written |-> k.written,
            requested |-> k.requested, level |-> k.level, priority |-> k.priority,
            wanted |-> k.wanted]
    /\ IsSeq(k.sent) /\ \A r \in ToSet(k.sent) : IsRequest(r)
    /\ k.unchecked = [o \in Held(k) |-> k.unchecked[o]]
    /\ Held(k) \subseteq Parts /\ \A o \in Held(k) : k.unchecked[o] \in Nat
    /\ k.cdn \in BOOLEAN /\ k.next \in Nat /\ k.level \in Nat /\ k.priority \in Nat
    /\ k.requested \subseteq [offset : Parts, priority : 0 .. k.level]

IsManager(m) ==
    m = [sessions |-> m.sessions, balance |-> m.balance, queue |-> m.queue,
         killing |-> m.killing, resetting |-> m.resetting, posted |-> m.posted,
         task |-> m.task, broken |-> m.broken]

Shape(m) ==
    /\ IsManager(m)
    /\ m.sessions \in Seq(SessionType) /\ Len(m.sessions) > 0
    /\ m.balance \in BalanceType /\ m.queue \in Seq(EntryType)
    /\ m.killing \in BOOLEAN /\ m.broken \in BOOLEAN
    /\ IsSeq(m.posted) /\ \A c \in ToSet(m.posted) : IsPosted(c)
    /\ m.task = [t \in Tasks |-> m.task[t]]
    /\ \A t \in Tasks : TaskShape(m.task[t])

-----------------------------------------------------------------------------
(* The parts of a task.  G are the parts in hand: they are of the task, and   *)
(* neither sent nor held back nor written.                                   *)

Alone(q) == \A i, j \in DOMAIN q : q[i].offset = q[j].offset => i = j

\* A request is made for an offset at a time, and hashes are asked for once, for
\* a part that is held back.
RequestsOK(k) ==
    /\ Alone(k.sent)
    /\ \A r, e \in ToSet(k.sent) : r.kind = "hashes" /\ e.kind = "hashes" => r.offset = e.offset
    /\ \A r \in ToSet(k.sent) :
          /\ r.kind = "hashes" <=> r.offset \in Held(k)
          /\ r.awaits = "reference" => r.kind = "part"

\* Nothing is held back but of what the CDN sends.
KindsOK(k) ==
    k.cdn \/ (Held(k) = {} /\ \A r \in ToSet(k.sent) : r.kind = "part")

FileOK(k, G) ==
    /\ k.requested = {}
    /\ k.status = "loading" =>
          /\ k.next \in 0 .. Size
          /\ 0 .. k.next - 1 = k.written \union Taken(k) \union G
          /\ (Taken(k) \union G) \intersect k.written = {}
    /\ k.status # "loading" => Taken(k) \union G = {}
    /\ k.status = "done" => k.written = Parts

StreamOK(k, G) ==
    /\ \A e, f \in k.requested : e.offset = f.offset => e = f
    /\ Queried(k) \intersect (Taken(k) \union G) = {}
    /\ k.wanted \subseteq Queried(k) \union Taken(k) \union G
    /\ k.status # "loading" => k.wanted = {}

AsksFor(m, t) == AsksHashes(m.task[t]) \/ HashesCall(t) \in ToSet(m.posted)

\* due: hashes are about to be asked for, for these tasks
TaskOK(m, t, G, due) ==
    /\ RequestsOK(m.task[t])
    /\ t \in Files => FileOK(m.task[t], G)
    /\ t \in Streams => StreamOK(m.task[t], G)
    /\ G \intersect Taken(m.task[t]) = {}
    /\ m.task[t].status = "loading" /\ Held(m.task[t]) # {} => t \in due \/ AsksFor(m, t)

-----------------------------------------------------------------------------
(* The sessions.  x is what the last session is said to wait for besides.     *)

InSessions(m) ==
    \A t \in Tasks :
        /\ \A r \in ToSet(m.task[t].sent) : r.session \in DOMAIN m.sessions
        /\ \A o \in Held(m.task[t]) : m.task[t].unchecked[o] \in DOMAIN m.sessions

Adds(m, x) ==
    /\ \A i \in DOMAIN m.sessions :
          m.sessions[i].requested =
              Cardinality(SentIn(m, i)) + (IF i = Len(m.sessions) THEN x ELSE 0)
    /\ m.balance.total = Cardinality(Sent(m))

Idle0(m) == m.killing => Sent(m) = {}

Sorted(q) == \A i, j \in DOMAIN q : i < j => q[i].priority >= q[j].priority

Queued(m, t) == \E i \in DOMAIN m.queue : m.queue[i].task = t

BalanceOK(m, x) ==
    /\ InSessions(m) /\ Adds(m, x) /\ Idle0(m) /\ Sorted(m.queue)
    /\ \A t \in Tasks : Taken(m.task[t]) # {} => Queued(m, t)
    /\ ~m.broken

\* While task t is handled; scope tells whether the sessions are looked at as well.
Good(scope, m, x, t, G, due) ==
    /\ Shape(m)
    /\ TaskOK(m, t, G, due)
    /\ \A u \in Tasks \ {t} : TaskOK(m, u, {}, {}) /\ KindsOK(m.task[u])
    /\ scope = "all" => BalanceOK(m, x)

\* The inductive invariant.
Fine(scope, m, x) ==
    /\ Shape(m)
    /\ \A u \in Tasks : TaskOK(m, u, {}, {}) /\ KindsOK(m.task[u])
    /\ scope = "all" => BalanceOK(m, x)

-----------------------------------------------------------------------------
(* Numbers.                                                                  *)

LEMMA Constants ==
    /\ IsFiniteSet(Tasks) /\ Files \intersect Streams = {} /\ Tasks = Files \union Streams
    /\ Size \in Nat \ {0} /\ StartWaited \in Nat \ {0} /\ MaxWaited \in Nat \ {0}
    /\ MaxSessions \in Nat \ {0} /\ RemoveAfter \in Nat \ {0} /\ Successes \in Nat \ {0}
    /\ MaxRemoves \in Nat \ {0} /\ Levels \subseteq Nat /\ Asked \subseteq Parts
    /\ Parts = 0 .. Size - 1 /\ Parts \subseteq Nat
  BY DownloadsAssumption DEF Tasks, Parts

LEMMA LeastNat ==
    ASSUME NEW S, S \subseteq Nat, S # {}
    PROVE  \E l \in S : \A k \in S : l <= k
<1>1. PICK l \in S : \A k \in S : ~(<<k, l>> \in OpToRel(<, Nat))
  BY NatLessThanWellFounded, WFMin
<1>2. \A k \in S : ~(k < l)
  BY <1>1 DEF OpToRel
<1> QED BY <1>2

LEMMA MinIn ==
    ASSUME NEW S, S \subseteq Nat, S # {}
    PROVE  Min(S) \in S /\ \A k \in S : Min(S) <= k
  BY LeastNat DEF Min

LEMMA MaxIn ==
    ASSUME NEW n \in Nat, NEW S, S \subseteq 0 .. n, S # {}
    PROVE  Max(S) \in S /\ \A k \in S : k <= Max(S)
<1> DEFINE T == {n - k : k \in S}
<1>0. \A k \in S : k \in Nat /\ n - k \in Nat /\ n - (n - k) = k
  <2>1. \A k \in 0 .. n : k \in Nat /\ n - k \in Nat /\ n - (n - k) = k
    OBVIOUS
  <2> QED BY <2>1
<1>1. T \subseteq Nat /\ T # {}
  BY <1>0
<1>2. PICK l \in T : \A k \in T : l <= k
  BY <1>1, LeastNat
<1>3. n - l \in S /\ \A k \in S : n - l >= k
  <2>1. n - l \in S /\ l \in Nat
    BY <1>0
  <2>2. ASSUME NEW k \in S PROVE n - l >= k
    <3>1. n - k \in T
      OBVIOUS
    <3>2. l <= n - k
      BY <1>2, <3>1
    <3> QED BY <1>0, <2>1, <3>2
  <2> QED BY <2>1, <2>2
<1> QED BY <1>3 DEF Max

\* What holds first and is kept by every step holds at the end.
LEMMA ByNumber ==
    ASSUME NEW n \in Nat, NEW P, 0 \in P, \A k \in 1 .. n : k - 1 \in P => k \in P
    PROVE  n \in P
<1> DEFINE Bad == {k \in Nat : k <= n /\ k \notin P}
<1>1. Bad = {}
  <2>1. SUFFICES ASSUME Bad # {} PROVE FALSE
    OBVIOUS
  <2>2. PICK k \in Bad : \A j \in Bad : k <= j
    BY <2>1, LeastNat
  <2>3. k \in 1 .. n /\ k - 1 \notin Bad /\ k - 1 \in Nat /\ k - 1 <= n
    BY <2>2
  <2> QED BY <2>3
<1> QED BY <1>1

\* Of numbers in a row one is the least, and the first of those.
LEMMA FirstLeastIs ==
    ASSUME NEW n \in Nat, n > 0, NEW v \in [1 .. n -> Int]
    PROVE  \E i \in 1 .. n : \A j \in 1 .. n : v[i] < v[j] \/ (v[i] = v[j] /\ i <= j)
<1> DEFINE P == {k \in 0 .. n : k > 0 =>
              \E i \in 1 .. k : \A j \in 1 .. k : v[i] < v[j] \/ (v[i] = v[j] /\ i <= j)}
<1>1. 0 \in P
  OBVIOUS
<1>2. \A k \in 1 .. n : k - 1 \in P => k \in P
  <2> SUFFICES ASSUME NEW k \in 1 .. n, k - 1 \in P
               PROVE  \E i \in 1 .. k : \A j \in 1 .. k : v[i] < v[j] \/ (v[i] = v[j] /\ i <= j)
    BY SMTT(30)
  <2>1. CASE k = 1
    BY <2>1
  <2>2. CASE k # 1
    <3>1. PICK i \in 1 .. k - 1 : \A j \in 1 .. k - 1 : v[i] < v[j] \/ (v[i] = v[j] /\ i <= j)
      BY <2>2
    <3>2. \A j \in 1 .. k : j \in 1 .. n /\ (j = k \/ j \in 1 .. k - 1)
      OBVIOUS
    <3>3. i \in 1 .. n /\ i <= k /\ v[i] \in Int /\ v[k] \in Int /\ \A j \in 1 .. n : v[j] \in Int
      BY <3>1
    <3>4. CASE v[i] <= v[k]
      BY <3>1, <3>2, <3>3, <3>4
    <3>5. CASE v[k] < v[i]
      <4>1. ASSUME NEW j \in 1 .. k PROVE v[k] < v[j] \/ (v[k] = v[j] /\ k <= j)
        BY <3>1, <3>2, <3>3, <3>5
      <4> QED BY <4>1
    <3> QED BY <3>3, <3>4, <3>5
  <2> QED BY <2>1, <2>2
<1>3. n \in P
  <2> HIDE DEF P
  <2> QED BY <1>1, <1>2, ByNumber
<1> QED BY <1>3

-----------------------------------------------------------------------------
(* Loops.  Their steps are told apart by name, so that one lemma serves all. *)

Redirect(n, t, r, session) ==
    LET cancelled == CancelRequest(n, t, r)
        index == ChooseSessionIndex(cancelled)
    IN  IF r.session # session THEN n
        ELSE IF r.kind = "hashes" THEN cancelled
        ELSE MakeRequest(Expects(cancelled, index < session), t, r.offset, index)

TrySend(n, total, i) == IF n.balance.total < total + i - 1 THEN n ELSE TrySendNextPart(n)

FeedOne(n, t, offset, good) ==
    IF offset \notin good THEN n
    ELSE FeedPart([n EXCEPT !.task[t].unchecked =
                      [o \in DOMAIN @ \ {offset} |-> @[o]]], t, offset)

AskAgain(n, t, r) ==
    IF r.awaits # "reference" THEN n
    ELSE MakeRequest(FinishSentRequest(n, t, r), t, r.offset, r.session)

\* a is what the loop is about, e the element it has come to.
Each(kind, a, e, m) ==
    CASE kind = "cancel"   -> CancelRequest(m, a[1], e)
      [] kind = "cancelAt" -> (IF e.offset = a[2] THEN CancelRequest(m, a[1], e) ELSE m)
      [] kind = "try"      -> TrySend(m, a[1], e)
      [] kind = "redirect" -> Redirect(m, a[1], e, a[2])
      [] kind = "remove"   -> RemoveSessionFrom(m, e.task, a[1])
      [] kind = "finish"   -> FinishSentRequest(m, a[1], e)
      [] kind = "make"     -> MakeRequest(m, a[1], e.offset, e.session)
      [] kind = "feed"     -> FeedOne(m, a[1], e, a[2])
      [] kind = "again"    -> AskAgain(m, a[1], e)

Folded(S, f, b, kind, r, q) ==
    f = [x \in SUBSET S |-> IF x = {} THEN b ELSE Each(kind, r, q[Max(x)], f[x \ {Max(x)}])]

LEMMA FoldedExists ==
    ASSUME NEW m \in Nat, NEW S, S \subseteq 0 .. m, NEW b, NEW kind, NEW r, NEW q
    PROVE  \E f : Folded(S, f, b, kind, r, q)
<1> DEFINE Small(n) == {x \in SUBSET S : Cardinality(x) <= n}
           FoldStep(x, f) == IF x = {} THEN b ELSE Each(kind, r, q[Max(x)], f[x \ {Max(x)}])
           G(n, f) == [x \in Small(n) |-> FoldStep(x, f)]
           None == {n \in Nat : ~ \E f : f = G(n, f)}
<1>0. IsFiniteSet(S)
  <2>1. 0 \in Int /\ m \in Int
    OBVIOUS
  <2> QED BY <2>1, FS_Interval, FS_Subset
<1>1. ASSUME NEW x \in SUBSET S PROVE IsFiniteSet(x) /\ Cardinality(x) \in Nat
  BY <1>0, FS_Subset, FS_CardinalityType
<1>2. ASSUME NEW x \in SUBSET S, x # {}
      PROVE  /\ Max(x) \in x /\ x \ {Max(x)} \in SUBSET S
             /\ Cardinality(x \ {Max(x)}) = Cardinality(x) - 1
  <2>1. Max(x) \in x
    <3>1. x \subseteq 0 .. m
      OBVIOUS
    <3> QED BY <1>2, <3>1, MaxIn
  <2> QED BY <1>1, <2>1, FS_RemoveElement
<1>3. 0 \notin None
  <2> DEFINE f == [x \in Small(0) |-> b]
  <2>1. ASSUME NEW x \in Small(0) PROVE x = {}
    BY <1>1, <1>2, FS_EmptySet
  <2>2. ASSUME NEW x \in Small(0) PROVE f[x] = FoldStep(x, f)
    BY <2>1
  <2>3. f = G(0, f)
    <3> HIDE DEF FoldStep, Small
    <3> QED BY <2>2
  <2> QED BY <2>3
<1>4. ASSUME NEW n \in Nat, n \notin None PROVE n + 1 \notin None
  <2>1. PICK f : f = G(n, f)
    BY <1>4
  <2> DEFINE g == [x \in Small(n + 1) |-> FoldStep(x, f)]
  <2>2. ASSUME NEW x \in Small(n + 1), x # {} PROVE x \ {Max(x)} \in Small(n)
    <3>1. x \in SUBSET S /\ Cardinality(x) <= n + 1
      OBVIOUS
    <3>2. x \ {Max(x)} \in SUBSET S /\ Cardinality(x \ {Max(x)}) = Cardinality(x) - 1
      BY <1>2, <2>2, <3>1
    <3> QED BY <1>1, <3>1, <3>2
  <2>3. ASSUME NEW y \in Small(n) PROVE f[y] = FoldStep(y, f) /\ y \in Small(n + 1)
    <3>1. y \in Small(n + 1)
      BY <1>1
    <3> HIDE DEF FoldStep, Small
    <3> QED BY <2>1, <3>1
  <2>4. ASSUME NEW y \in Small(n) PROVE g[y] = f[y]
    <3> HIDE DEF FoldStep, Small
    <3> QED BY <2>3
  <2>5. ASSUME NEW x \in Small(n + 1) PROVE FoldStep(x, f) = FoldStep(x, g)
    <3>1. CASE x = {}
      BY <3>1
    <3>2. CASE x # {}
      <4>1. f[x \ {Max(x)}] = g[x \ {Max(x)}]
        BY <2>2, <2>4, <3>2
      <4> HIDE DEF g
      <4> QED BY <4>1
    <3> QED BY <3>1, <3>2
  <2>6. g = G(n + 1, g)
    <3> HIDE DEF FoldStep, Small
    <3> QED BY <2>5
  <2> QED BY <2>6
<1>5. None = {}
  <2>1. SUFFICES ASSUME None # {} PROVE FALSE
    OBVIOUS
  <2>2. None \subseteq Nat
    OBVIOUS
  <2> HIDE DEF None
  <2>3. PICK l \in None : \A k \in None : l <= k
    BY <2>1, <2>2, LeastNat
  <2>4. l \in Nat /\ l # 0
    BY <1>3, <2>2, <2>3
  <2>5. l - 1 \in Nat /\ l - 1 \notin None /\ (l - 1) + 1 = l
    BY <2>3, <2>4
  <2> QED BY <1>4, <2>3, <2>5
<1>6. PICK f : f = G(Cardinality(S), f)
  <2>1. Cardinality(S) \in Nat
    BY <1>0, FS_CardinalityType
  <2> QED BY <1>5, <2>1
<1>7. Small(Cardinality(S)) = SUBSET S
  BY <1>0, FS_Subset
<1>8. Folded(S, f, b, kind, r, q)
  <2> HIDE DEF Small
  <2> QED BY <1>6, <1>7 DEF Folded
<1> QED BY <1>8


Fold(S, b, kind, r, q) == CHOOSE f : Folded(S, f, b, kind, r, q)

LEMMA FoldIs ==
    ASSUME NEW hi \in Nat, NEW b, NEW kind, NEW r, NEW q,
           NEW f, f = Fold(1 .. hi, b, kind, r, q)
    PROVE  /\ f[1 .. 0] = b
           /\ \A n \in 1 .. hi : f[1 .. n] = Each(kind, r, q[n], f[1 .. n - 1])
<1>1. 1 .. hi \subseteq 0 .. hi
  OBVIOUS
<1>2. Folded(1 .. hi, f, b, kind, r, q)
  BY <1>1, FoldedExists DEF Fold
<1>3. f[{}] = b /\ \A x \in SUBSET (1 .. hi) : x # {} =>
                      f[x] = Each(kind, r, q[Max(x)], f[x \ {Max(x)}])
  BY <1>2 DEF Folded
<1>4. 1 .. 0 = {}
  OBVIOUS
<1>5. ASSUME NEW n \in 1 .. hi PROVE f[1 .. n] = Each(kind, r, q[n], f[1 .. n - 1])
  <2>0. n \in Nat /\ 1 <= n /\ n <= hi
    OBVIOUS
  <2>1. 1 .. n \subseteq 1 .. hi /\ n \in 1 .. n /\ 1 .. n # {} /\ 1 .. n \subseteq 0 .. hi
    BY ONLY hi \in Nat, <2>0, SMTT(20)
  <2>2. Max(1 .. n) \in 1 .. n /\ \A k \in 1 .. n : k <= Max(1 .. n)
    BY <2>1, MaxIn
  <2>3. Max(1 .. n) = n
    BY <2>1, <2>2
  <2>4. (1 .. n) \ {n} = 1 .. n - 1
    OBVIOUS
  <2> QED BY ZenonT(60), <1>3, <2>1, <2>3, <2>4
<1> QED BY <1>3, <1>4, <1>5

\* The states a loop goes through.
Goes(g, kind, a, q, m, n) ==
    /\ g[0] = m /\ g[Len(q)] = n
    /\ \A k \in 1 .. Len(q) : g[k] = Each(kind, a, q[k], g[k - 1])

LEMMA FoldGoes ==
    ASSUME NEW m, NEW kind, NEW a, NEW q, Len(q) \in Nat, DOMAIN q = 1 .. Len(q),
           NEW n, n = Fold(DOMAIN q, m, kind, a, q)[DOMAIN q]
    PROVE  \E g : Goes(g, kind, a, q, m, n)
<1> DEFINE hi == Len(q)
           f == Fold(1 .. hi, m, kind, a, q)
           g == [k \in 0 .. hi |-> f[1 .. k]]
<1>1. n = f[1 .. hi]
  OBVIOUS
<1>2. /\ f[1 .. 0] = m
      /\ \A k \in 1 .. hi : f[1 .. k] = Each(kind, a, q[k], f[1 .. k - 1])
  <2>1. hi \in Nat
    OBVIOUS
  <2> HIDE DEF hi
  <2> QED BY <2>1, FoldIs
<1> HIDE DEF f
<1>3. g[0] = m /\ g[hi] = n
  BY <1>1, <1>2
<1>4. ASSUME NEW k \in 1 .. hi PROVE g[k] = Each(kind, a, q[k], g[k - 1])
  <2>1. k \in 0 .. hi /\ k - 1 \in 0 .. hi
    OBVIOUS
  <2>2. g[k] = f[1 .. k] /\ g[k - 1] = f[1 .. k - 1]
    BY <2>1
  <2> HIDE DEF g, hi
  <2> QED BY <1>2, <2>2
<1>5. Goes(g, kind, a, q, m, n)
  <2> HIDE DEF g
  <2> QED BY <1>3, <1>4 DEF Goes
<1> HIDE DEF g
<1> QED BY <1>5

\* The states the loops start from, or end in.
MovesHeld(m, t, session) ==
    LET held == {o \in DOMAIN m.task[t].unchecked : m.task[t].unchecked[o] = session}
    IN  [Expects(m, held # {} => ChooseSessionIndex(m) < session)
                     EXCEPT !.task[t].unchecked =
                     [o \in DOMAIN @ |-> IF o \in held THEN ChooseSessionIndex(m) ELSE @[o]]]

Tries == [i \in 1 .. MaxSessions * MaxWaited |-> i]
InOrder == [i \in 1 .. Size |-> i - 1]

Fuller(m) ==
    LET last == Len(m.sessions)
        times == IF m.balance.index = last THEN Min({m.balance.times + 1, MaxRemoves}) ELSE 1
    IN  [m EXCEPT !.balance.index = last, !.balance.times = times,
                  !.balance.removed = TRUE, !.balance.timeouts = 0,
                  !.sessions[last].requested = @ + MaxWaited * MaxSessions]

WithoutLast(m, moved) ==
    Late([Expects(moved, moved.sessions[Len(m.sessions)].requested = MaxWaited * MaxSessions)
             EXCEPT !.sessions = [i \in 1 .. Len(m.sessions) - 1 |-> @[i]]])

Finishes(m, t) ==
    LET Finish(n, r) == FinishSentRequest(n, t, r) IN FoldLeft(Finish, m, m.task[t].sent)

AsksAgain(m, t) ==
    LET Again(n, r) == AskAgain(n, t, r) IN FoldLeft(Again, m, m.task[t].sent)

DropsAll(c, t) == [c EXCEPT !.task[t].unchecked = <<>>]
DropsOne(c, t, offset) ==
    [c EXCEPT !.task[t].unchecked = [o \in DOMAIN @ \ {offset} |-> @[o]]]

LEMMA CancelGoes ==
    ASSUME NEW m, NEW t,
           Len(m.task[t].sent) \in Nat, DOMAIN m.task[t].sent = 1 .. Len(m.task[t].sent)
    PROVE  \E g, c : Goes(g, "cancel", <<t>>, m.task[t].sent, m, c) /\ CancelAllRequests(m, t) = DropsAll(c, t)
<1> DEFINE q == m.task[t].sent
           a == <<t>>
           kind == "cancel"
           f == CHOOSE f : f = [x \in SUBSET (DOMAIN q) |->
                      IF x = {} THEN m ELSE CancelRequest(f[x \ {Max(x)}], t, q[Max(x)])]
           c == f[DOMAIN q]
<1>1. CancelAllRequests(m, t) = DropsAll(c, t)
  BY DEF CancelAllRequests, DropsAll, FoldLeft, MapThenFoldSet
<1>2. f = Fold(DOMAIN q, m, kind, a, q)
  BY ZenonT(60) DEF Fold, Folded, Each
<1>3. Len(q) \in Nat /\ DOMAIN q = 1 .. Len(q)
  OBVIOUS
<1> HIDE DEF a, kind, f, q
<1>4. \E g : Goes(g, kind, a, q, m, c)
  BY <1>2, <1>3, FoldGoes
<1> HIDE DEF c
<1> QED BY <1>1, <1>4 DEF a, kind, q

LEMMA CancelAtGoes ==
    ASSUME NEW m, NEW t, NEW offset,
           Len(m.task[t].sent) \in Nat, DOMAIN m.task[t].sent = 1 .. Len(m.task[t].sent)
    PROVE  \E g, c : Goes(g, "cancelAt", <<t, offset>>, m.task[t].sent, m, c) /\ CancelRequestForOffset(m, t, offset) = DropsOne(c, t, offset)
<1> DEFINE q == m.task[t].sent
           a == <<t, offset>>
           kind == "cancelAt"
           f == CHOOSE f : f = [x \in SUBSET (DOMAIN q) |->
                      IF x = {} THEN m ELSE (IF q[Max(x)].offset = offset THEN CancelRequest(f[x \ {Max(x)}], t, q[Max(x)]) ELSE f[x \ {Max(x)}])]
           c == f[DOMAIN q]
<1>1. CancelRequestForOffset(m, t, offset) = DropsOne(c, t, offset)
  BY DEF CancelRequestForOffset, DropsOne, FoldLeft, MapThenFoldSet
<1>2. f = Fold(DOMAIN q, m, kind, a, q)
  BY ZenonT(60) DEF Fold, Folded, Each
<1>3. Len(q) \in Nat /\ DOMAIN q = 1 .. Len(q)
  OBVIOUS
<1> HIDE DEF a, kind, f, q
<1>4. \E g : Goes(g, kind, a, q, m, c)
  BY <1>2, <1>3, FoldGoes
<1> HIDE DEF c
<1> QED BY <1>1, <1>4 DEF a, kind, q

LEMMA TryGoes ==
    ASSUME NEW m,
           Len(Tries) \in Nat, DOMAIN Tries = 1 .. Len(Tries)
    PROVE  \E g, c : Goes(g, "try", <<m.balance.total>>, Tries, m, c) /\ CheckSendNext(m) = c
<1> DEFINE q == Tries
           a == <<m.balance.total>>
           kind == "try"
           f == CHOOSE f : f = [x \in SUBSET (DOMAIN q) |->
                      IF x = {} THEN m ELSE TrySend(f[x \ {Max(x)}], m.balance.total, q[Max(x)])]
           c == f[DOMAIN q]
<1>1. CheckSendNext(m) = c
  BY DEF CheckSendNext, TrySend, Tries, FoldLeft, MapThenFoldSet
<1>2. f = Fold(DOMAIN q, m, kind, a, q)
  BY ZenonT(60) DEF Fold, Folded, Each
<1>3. Len(q) \in Nat /\ DOMAIN q = 1 .. Len(q)
  OBVIOUS
<1> HIDE DEF a, kind, f, q
<1>4. \E g : Goes(g, kind, a, q, m, c)
  BY <1>2, <1>3, FoldGoes
<1> HIDE DEF c
<1> QED BY <1>1, <1>4 DEF a, kind, q

LEMMA RedirectGoes ==
    ASSUME NEW m, NEW t, NEW session,
           Len(m.task[t].sent) \in Nat, DOMAIN m.task[t].sent = 1 .. Len(m.task[t].sent)
    PROVE  \E g, c : Goes(g, "redirect", <<t, session>>, m.task[t].sent, MovesHeld(m, t, session), c) /\ RemoveSessionFrom(m, t, session) = c
<1> DEFINE q == m.task[t].sent
           a == <<t, session>>
           kind == "redirect"
           f == CHOOSE f : f = [x \in SUBSET (DOMAIN q) |->
                      IF x = {} THEN MovesHeld(m, t, session) ELSE Redirect(f[x \ {Max(x)}], t, q[Max(x)], session)]
           c == f[DOMAIN q]
<1>1. RemoveSessionFrom(m, t, session) = c
  BY DEF RemoveSessionFrom, Redirect, MovesHeld, FoldLeft, MapThenFoldSet
<1>2. f = Fold(DOMAIN q, MovesHeld(m, t, session), kind, a, q)
  BY ZenonT(60) DEF Fold, Folded, Each
<1>3. Len(q) \in Nat /\ DOMAIN q = 1 .. Len(q)
  OBVIOUS
<1> HIDE DEF a, kind, f, q
<1>4. \E g : Goes(g, kind, a, q, MovesHeld(m, t, session), c)
  BY <1>2, <1>3, FoldGoes
<1> HIDE DEF c
<1> QED BY <1>1, <1>4 DEF a, kind, q

LEMMA RemoveGoes ==
    ASSUME NEW m,
           Len(m.queue) \in Nat, DOMAIN m.queue = 1 .. Len(m.queue)
    PROVE  \E g, c : Goes(g, "remove", <<Len(m.sessions)>>, m.queue, Fuller(m), c) /\ RemoveSession(m) = WithoutLast(m, c)
<1> DEFINE q == m.queue
           a == <<Len(m.sessions)>>
           kind == "remove"
           f == CHOOSE f : f = [x \in SUBSET (DOMAIN q) |->
                      IF x = {} THEN Fuller(m) ELSE RemoveSessionFrom(f[x \ {Max(x)}], q[Max(x)].task, Len(m.sessions))]
           c == f[DOMAIN q]
<1>1. RemoveSession(m) = WithoutLast(m, c)
  BY DEF RemoveSession, Fuller, WithoutLast, FoldLeft, MapThenFoldSet
<1>2. f = Fold(DOMAIN q, Fuller(m), kind, a, q)
  BY ZenonT(60) DEF Fold, Folded, Each
<1>3. Len(q) \in Nat /\ DOMAIN q = 1 .. Len(q)
  OBVIOUS
<1> HIDE DEF a, kind, f, q
<1>4. \E g : Goes(g, kind, a, q, Fuller(m), c)
  BY <1>2, <1>3, FoldGoes
<1> HIDE DEF c
<1> QED BY <1>1, <1>4 DEF a, kind, q

LEMMA FinishGoes ==
    ASSUME NEW m, NEW t,
           Len(m.task[t].sent) \in Nat, DOMAIN m.task[t].sent = 1 .. Len(m.task[t].sent)
    PROVE  \E g, c : Goes(g, "finish", <<t>>, m.task[t].sent, m, c) /\ Finishes(m, t) = c
<1> DEFINE q == m.task[t].sent
           a == <<t>>
           kind == "finish"
           f == CHOOSE f : f = [x \in SUBSET (DOMAIN q) |->
                      IF x = {} THEN m ELSE FinishSentRequest(f[x \ {Max(x)}], t, q[Max(x)])]
           c == f[DOMAIN q]
<1>1. Finishes(m, t) = c
  BY DEF Finishes, FoldLeft, MapThenFoldSet
<1>2. f = Fold(DOMAIN q, m, kind, a, q)
  BY ZenonT(60) DEF Fold, Folded, Each
<1>3. Len(q) \in Nat /\ DOMAIN q = 1 .. Len(q)
  OBVIOUS
<1> HIDE DEF a, kind, f, q
<1>4. \E g : Goes(g, kind, a, q, m, c)
  BY <1>2, <1>3, FoldGoes
<1> HIDE DEF c
<1> QED BY <1>1, <1>4 DEF a, kind, q

LEMMA MakeGoes ==
    ASSUME NEW m, NEW t,
           Len(m.task[t].sent) \in Nat, DOMAIN m.task[t].sent = 1 .. Len(m.task[t].sent)
    PROVE  \E g, c : Goes(g, "make", <<t>>, m.task[t].sent, Finishes(m, t), c) /\ ResendAll(m, t) = c
<1> DEFINE q == m.task[t].sent
           a == <<t>>
           kind == "make"
           f == CHOOSE f : f = [x \in SUBSET (DOMAIN q) |->
                      IF x = {} THEN Finishes(m, t) ELSE MakeRequest(f[x \ {Max(x)}], t, q[Max(x)].offset, q[Max(x)].session)]
           c == f[DOMAIN q]
<1>1. ResendAll(m, t) = c
  BY DEF ResendAll, Finishes, FoldLeft, MapThenFoldSet
<1>2. f = Fold(DOMAIN q, Finishes(m, t), kind, a, q)
  BY ZenonT(60) DEF Fold, Folded, Each
<1>3. Len(q) \in Nat /\ DOMAIN q = 1 .. Len(q)
  OBVIOUS
<1> HIDE DEF a, kind, f, q
<1>4. \E g : Goes(g, kind, a, q, Finishes(m, t), c)
  BY <1>2, <1>3, FoldGoes
<1> HIDE DEF c
<1> QED BY <1>1, <1>4 DEF a, kind, q

LEMMA FeedGoes ==
    ASSUME NEW m, NEW t, NEW good,
           Len(InOrder) \in Nat, DOMAIN InOrder = 1 .. Len(InOrder)
    PROVE  \E g, c : Goes(g, "feed", <<t, good>>, InOrder, m, c) /\ FeedChecked(m, t, good) = c
<1> DEFINE q == InOrder
           a == <<t, good>>
           kind == "feed"
           f == CHOOSE f : f = [x \in SUBSET (DOMAIN q) |->
                      IF x = {} THEN m ELSE FeedOne(f[x \ {Max(x)}], t, q[Max(x)], good)]
           c == f[DOMAIN q]
<1>1. FeedChecked(m, t, good) = c
  BY DEF FeedChecked, FeedOne, InOrder, FoldLeft, MapThenFoldSet
<1>2. f = Fold(DOMAIN q, m, kind, a, q)
  BY ZenonT(60) DEF Fold, Folded, Each
<1>3. Len(q) \in Nat /\ DOMAIN q = 1 .. Len(q)
  OBVIOUS
<1> HIDE DEF a, kind, f, q
<1>4. \E g : Goes(g, kind, a, q, m, c)
  BY <1>2, <1>3, FoldGoes
<1> HIDE DEF c
<1> QED BY <1>1, <1>4 DEF a, kind, q

LEMMA AgainGoes ==
    ASSUME NEW m, NEW t,
           Len(m.task[t].sent) \in Nat, DOMAIN m.task[t].sent = 1 .. Len(m.task[t].sent)
    PROVE  \E g, c : Goes(g, "again", <<t>>, m.task[t].sent, m, c) /\ AsksAgain(m, t) = c
<1> DEFINE q == m.task[t].sent
           a == <<t>>
           kind == "again"
           f == CHOOSE f : f = [x \in SUBSET (DOMAIN q) |->
                      IF x = {} THEN m ELSE AskAgain(f[x \ {Max(x)}], t, q[Max(x)])]
           c == f[DOMAIN q]
<1>1. AsksAgain(m, t) = c
  BY DEF AsksAgain, AskAgain, FoldLeft, MapThenFoldSet
<1>2. f = Fold(DOMAIN q, m, kind, a, q)
  BY ZenonT(60) DEF Fold, Folded, Each
<1>3. Len(q) \in Nat /\ DOMAIN q = 1 .. Len(q)
  OBVIOUS
<1> HIDE DEF a, kind, f, q
<1>4. \E g : Goes(g, kind, a, q, m, c)
  BY <1>2, <1>3, FoldGoes
<1> HIDE DEF c
<1> QED BY <1>1, <1>4 DEF a, kind, q

-----------------------------------------------------------------------------
(* Sequences.                                                                *)

LEMMA SeqLen ==
    ASSUME NEW q, IsSeq(q)
    PROVE  Len(q) \in Nat /\ DOMAIN q = 1 .. Len(q)
  BY DEF IsSeq

LEMMA InToSet ==
    ASSUME NEW q, IsSeq(q), NEW e
    PROVE  e \in ToSet(q) <=> \E i \in 1 .. Len(q) : q[i] = e
  BY SeqLen DEF ToSet

LEMMA EmptyIs ==
    ASSUME NEW q, q = <<>>
    PROVE  IsSeq(q) /\ ToSet(q) = {} /\ Alone(q)
<1>1. q \in Seq({})
  OBVIOUS
<1>2. DOMAIN q = {}
  OBVIOUS
<1>3. IsSeq(q)
  BY <1>1 DEF IsSeq
<1>4. ToSet(q) = {}
  BY <1>2 DEF ToSet
<1>5. Alone(q)
  BY <1>2 DEF Alone
<1> QED BY <1>3, <1>4, <1>5

LEMMA NoneIs ==
    ASSUME NEW q, IsSeq(q), ToSet(q) = {}
    PROVE  q = <<>>
<1>1. PICK S : q \in Seq(S)
  BY DEF IsSeq
<1>2. Len(q) = 0
  <2>1. Len(q) \in Nat /\ DOMAIN q = 1 .. Len(q) /\ DOMAIN q = {}
    BY SeqLen DEF ToSet
  <2> QED BY <2>1
<1> QED BY <1>1, <1>2

LEMMA AppendIs ==
    ASSUME NEW q, IsSeq(q), NEW e, NEW p, p = Append(q, e)
    PROVE  /\ IsSeq(p) /\ ToSet(p) = ToSet(q) \union {e}
           /\ (Alone(q) /\ \A r \in ToSet(q) : r.offset # e.offset) => Alone(p)
<1>1. PICK S : q \in Seq(S)
  BY DEF IsSeq
<1>2. /\ p \in Seq(S \union {e}) /\ Len(q) \in Nat /\ Len(p) = Len(q) + 1
      /\ \A i \in 1 .. Len(q) : p[i] = q[i]
      /\ p[Len(q) + 1] = e
  <2>1. q \in Seq(S \union {e}) /\ e \in S \union {e}
    BY <1>1
  <2> QED BY <2>1
<1>3. IsSeq(p)
  BY <1>2 DEF IsSeq
<1>4. /\ DOMAIN p = 1 .. Len(q) + 1 /\ DOMAIN q = 1 .. Len(q)
      /\ \A i \in 1 .. Len(q) + 1 : i \in 1 .. Len(q) \/ i = Len(q) + 1
      /\ \A i \in 1 .. Len(q) : i \in 1 .. Len(q) + 1
      /\ Len(q) + 1 \in 1 .. Len(q) + 1
  BY <1>1, <1>2
<1>5. ToSet(p) = ToSet(q) \union {e}
  BY <1>2, <1>4 DEF ToSet
<1>6. ASSUME Alone(q), \A r \in ToSet(q) : r.offset # e.offset PROVE Alone(p)
  <2>1. \A i \in 1 .. Len(q) : q[i].offset # e.offset
    BY <1>4, <1>6 DEF ToSet
  <2> QED BY <1>2, <1>4, <1>6, <2>1 DEF Alone
<1> QED BY <1>3, <1>5, <1>6

\* What is left of a sequence without its element i.
LEMMA RemoveAtIs ==
    ASSUME NEW S, NEW q \in Seq(S), NEW i \in 1 .. Len(q), NEW p, p = RemoveAt(q, i)
    PROVE  /\ p \in Seq(S) /\ Len(p) = Len(q) - 1
           /\ \A j \in 1 .. Len(p) : p[j] = IF j < i THEN q[j] ELSE q[j + 1]
<1>0. Len(q) \in Nat /\ i \in Nat /\ i > 0 /\ i <= Len(q)
  OBVIOUS
<1> DEFINE a == SubSeq(q, 1, i - 1)
           b == SubSeq(q, i + 1, Len(q))
<1>1. p = a \o b
  BY DEF RemoveAt
<1>2. a \in Seq(S) /\ Len(a) = i - 1 /\ \A j \in 1 .. i - 1 : a[j] = q[j]
  BY <1>0
<1>3. b \in Seq(S) /\ Len(b) = Len(q) - i /\ \A j \in 1 .. Len(q) - i : b[j] = q[i + j]
  <2>1. b \in Seq(S)
    BY <1>0
  <2>2. Len(b) = Len(q) - i
    BY <1>0
  <2>3. ASSUME NEW j \in 1 .. Len(q) - i PROVE b[j] = q[i + j]
    <3>1. b[j] = q[(i + 1) + j - 1]
      BY <1>0
    <3>2. (i + 1) + j - 1 = i + j
      BY <1>0
    <3> QED BY <3>1, <3>2
  <2> QED BY <2>1, <2>2, <2>3
<1> HIDE DEF a, b
<1>4. p \in Seq(S) /\ Len(p) = Len(q) - 1
  BY <1>0, <1>1, <1>2, <1>3
<1>5. ASSUME NEW j \in 1 .. Len(p) PROVE p[j] = IF j < i THEN q[j] ELSE q[j + 1]
  <2>1. CASE j < i
    BY <1>0, <1>1, <1>2, <1>3, <1>4, <2>1
  <2>2. CASE ~(j < i)
    <3>1. j - (i - 1) \in 1 .. Len(q) - i /\ i + (j - (i - 1)) = j + 1 /\ j > Len(a)
      BY <1>0, <1>2, <1>4, <2>2
    <3>2. p[j] = b[j - Len(a)]
      BY <1>0, <1>1, <1>2, <1>3, <1>4, <3>1
    <3> QED BY <1>2, <1>3, <2>2, <3>1, <3>2
  <2> QED BY <2>1, <2>2
<1> QED BY <1>4, <1>5

LEMMA RemoveFirstIs ==
    ASSUME NEW q, IsSeq(q), Alone(q), NEW e \in ToSet(q), NEW p, p = RemoveFirst(q, e)
    PROVE  IsSeq(p) /\ ToSet(p) = ToSet(q) \ {e} /\ Alone(p)
<1>1. PICK S : q \in Seq(S)
  BY DEF IsSeq
<1> DEFINE at == {k \in 1 .. Len(q) : q[k] = e}
           i == Min(at)
<1>2. DOMAIN q = 1 .. Len(q) /\ Len(q) \in Nat
  BY <1>1
<1>3. at # {} /\ at \subseteq Nat
  BY <1>2 DEF ToSet
<1>4. p = RemoveAt(q, i)
  BY <1>3 DEF RemoveFirst, SelectInSeq
<1>5. i \in 1 .. Len(q) /\ q[i] = e
  BY <1>3, MinIn
<1> HIDE DEF i
<1>6. /\ p \in Seq(S) /\ Len(p) = Len(q) - 1
      /\ \A j \in 1 .. Len(p) : p[j] = IF j < i THEN q[j] ELSE q[j + 1]
  BY SMTT(30), <1>1, <1>4, <1>5, RemoveAtIs
<1>7. \A j \in 1 .. Len(q) : q[j].offset = q[i].offset => j = i
  BY <1>2, <1>5 DEF Alone
<1>8. DOMAIN p = 1 .. Len(q) - 1
  BY <1>6
<1>9. ToSet(p) \subseteq ToSet(q) \ {e}
  <2> SUFFICES ASSUME NEW j \in 1 .. Len(q) - 1 PROVE p[j] \in ToSet(q) /\ p[j] # e
    BY <1>8 DEF ToSet
  <2>1. j \in 1 .. Len(q) /\ j + 1 \in 1 .. Len(q)
    BY <1>2
  <2> DEFINE J == IF j < i THEN j ELSE j + 1
  <2>2. J \in 1 .. Len(q) /\ J # i /\ p[j] = q[J]
    BY <1>2, <1>5, <1>6, <2>1
  <2> HIDE DEF J
  <2>3. q[J] # e
    BY <1>5, <1>7, <2>2
  <2> QED BY <1>2, <2>2, <2>3 DEF ToSet
<1>10. ToSet(q) \ {e} \subseteq ToSet(p)
  <2> SUFFICES ASSUME NEW j \in 1 .. Len(q), q[j] # e PROVE q[j] \in ToSet(p)
    BY <1>2 DEF ToSet
  <2>1. j # i
    BY <1>5
  <2>2. CASE j < i
    <3>1. j \in 1 .. Len(q) - 1 /\ p[j] = q[j]
      BY <1>2, <1>5, <1>6, <2>2
    <3> QED BY <1>8, <3>1 DEF ToSet
  <2>3. CASE j > i
    <3>1. j - 1 \in 1 .. Len(q) - 1 /\ ~(j - 1 < i) /\ (j - 1) + 1 = j
      BY <1>2, <1>5, <2>3
    <3>2. p[j - 1] = q[j]
      BY <1>6, <3>1
    <3> QED BY <1>8, <3>1, <3>2 DEF ToSet
  <2> QED BY <1>2, <1>5, <2>1, <2>2, <2>3
<1>11. Alone(p)
  <2> SUFFICES ASSUME NEW j \in 1 .. Len(q) - 1, NEW k \in 1 .. Len(q) - 1,
                      p[j].offset = p[k].offset
               PROVE  j = k
    BY <1>8 DEF Alone
  <2> DEFINE J == IF j < i THEN j ELSE j + 1
             K == IF k < i THEN k ELSE k + 1
  <2>1. J \in 1 .. Len(q) /\ K \in 1 .. Len(q) /\ p[j] = q[J] /\ p[k] = q[K]
    BY <1>2, <1>5, <1>6
  <2>2. J = K
    <3> HIDE DEF J, K
    <3> QED BY <1>2, <2>1 DEF Alone
  <2> QED BY <1>5, <2>2
<1> QED BY <1>6, <1>9, <1>10, <1>11 DEF IsSeq

\* The same requests, marked in some way.
LEMMA MarkedIs ==
    ASSUME NEW q, IsSeq(q), Alone(q), NEW p, DOMAIN p = DOMAIN q, p = [i \in DOMAIN q |-> p[i]],
           \A i \in DOMAIN q : p[i].offset = q[i].offset
    PROVE  IsSeq(p) /\ Alone(p) /\ ToSet(p) = {p[i] : i \in DOMAIN q}
<1>1. Len(q) \in Nat /\ DOMAIN q = 1 .. Len(q)
  BY SeqLen
<1>2. p \in [1 .. Len(q) -> {p[i] : i \in DOMAIN q}]
  BY <1>1
<1>3. p \in Seq({p[i] : i \in DOMAIN q})
  BY <1>1, <1>2
<1> QED BY <1>3 DEF IsSeq, Alone, ToSet

LEMMA TailIs ==
    ASSUME NEW q, IsSeq(q), q # <<>>, NEW p, p = Tail(q)
    PROVE  IsSeq(p) /\ ToSet(q) = {Head(q)} \union ToSet(p)
<1>1. PICK S : q \in Seq(S)
  BY DEF IsSeq
<1>2. /\ p \in Seq(S) /\ Len(q) \in Nat /\ Len(q) > 0 /\ Len(p) = Len(q) - 1 /\ Head(q) = q[1]
      /\ \A i \in 1 .. Len(p) : p[i] = q[i + 1]
  BY <1>1
<1>3. DOMAIN q = 1 .. Len(q) /\ DOMAIN p = 1 .. Len(q) - 1
  BY <1>1, <1>2
<1>4. ToSet(q) \subseteq {Head(q)} \union ToSet(p)
  <2> SUFFICES ASSUME NEW i \in 1 .. Len(q), i # 1 PROVE q[i] \in ToSet(p)
    BY <1>2, <1>3 DEF ToSet
  <2>1. i - 1 \in 1 .. Len(q) - 1 /\ (i - 1) + 1 = i
    BY <1>2
  <2>2. p[i - 1] = q[i]
    BY <1>2, <2>1
  <2> QED BY <1>3, <2>1, <2>2 DEF ToSet
<1>5. {Head(q)} \union ToSet(p) \subseteq ToSet(q)
  <2>1. 1 \in 1 .. Len(q) /\ \A i \in 1 .. Len(q) - 1 : i + 1 \in 1 .. Len(q)
    BY <1>2
  <2> QED BY <1>2, <1>3, <2>1 DEF ToSet
<1> QED BY <1>2, <1>4, <1>5 DEF IsSeq

-----------------------------------------------------------------------------
(* What was sent, counted.                                                   *)

LEMMA SentFinite ==
    ASSUME NEW m, NEW i
    PROVE  /\ IsFiniteSet(Sent(m)) /\ Cardinality(Sent(m)) \in Nat
           /\ IsFiniteSet(SentIn(m, i)) /\ Cardinality(SentIn(m, i)) \in Nat
<1>1. IsFiniteSet(Tasks \X Parts)
  <2>1. IsFiniteSet(Parts)
    <3>1. 0 \in Int /\ Size - 1 \in Int
      BY Constants
    <3> QED BY <3>1, FS_Interval, Constants
  <2> QED BY <2>1, Constants, FS_Product
<1>2. Sent(m) \subseteq Tasks \X Parts /\ SentIn(m, i) \subseteq Tasks \X Parts
  BY DEF Sent, SentIn
<1> QED BY <1>1, <1>2, FS_Subset, FS_CardinalityType

LEMMA InSent ==
    ASSUME NEW m, NEW u \in Tasks, NEW o \in Parts, NEW i
    PROVE  /\ <<u, o>> \in Sent(m) <=> o \in Offsets(m.task[u])
           /\ <<u, o>> \in SentIn(m, i) <=>
                  \E r \in ToSet(m.task[u].sent) : r.offset = o /\ r.session = i
  BY DEF Sent, SentIn

\* The same offsets of the same sessions.
LEMMA SentAlike ==
    ASSUME NEW m, NEW n,
           \A u \in Tasks : \A o \in Parts : \A i \in Nat :
               (\E r \in ToSet(m.task[u].sent) : r.offset = o /\ r.session = i) <=>
               (\E r \in ToSet(n.task[u].sent) : r.offset = o /\ r.session = i),
           \A u \in Tasks : Offsets(n.task[u]) = Offsets(m.task[u])
    PROVE  Sent(n) = Sent(m) /\ \A i \in Nat : SentIn(n, i) = SentIn(m, i)
<1>1. Sent(n) = Sent(m)
  <2>1. \A p \in Tasks \X Parts : p[1] \in Tasks
    OBVIOUS
  <2> QED BY <2>1 DEF Sent
<1>2. ASSUME NEW i \in Nat PROVE SentIn(n, i) = SentIn(m, i)
  <2>1. \A p \in Tasks \X Parts : p[1] \in Tasks /\ p[2] \in Parts
    OBVIOUS
  <2> QED BY <2>1 DEF SentIn
<1> QED BY <1>1, <1>2

\* n has sent one request more.
OneMore(m, n, t, r) ==
    /\ r.offset \in Parts /\ r.offset \notin Offsets(m.task[t])
    /\ \A u \in Tasks \ {t} : n.task[u] = m.task[u]
    /\ ToSet(n.task[t].sent) = ToSet(m.task[t].sent) \union {r}

LEMMA SentMore ==
    ASSUME NEW m, NEW n, NEW t \in Tasks, NEW r, OneMore(m, n, t, r)
    PROVE  /\ Cardinality(Sent(n)) = Cardinality(Sent(m)) + 1
           /\ \A i \in Nat : Cardinality(SentIn(n, i)) =
                  Cardinality(SentIn(m, i)) + (IF i = r.session THEN 1 ELSE 0)
<1> DEFINE o == r.offset
<1> USE DEF OneMore
<1>0. \A p \in Tasks \X Parts : p[1] \in Tasks /\ p[2] \in Parts /\ p = <<p[1], p[2]>>
  OBVIOUS
<1>1. Sent(n) = Sent(m) \union {<<t, o>>} /\ <<t, o>> \notin Sent(m)
  <2>1. ASSUME NEW u \in Tasks, NEW b \in Parts
        PROVE  b \in Offsets(n.task[u]) <=> b \in Offsets(m.task[u]) \/ (u = t /\ b = o)
    BY DEF Offsets
  <2>2. <<t, o>> \in Tasks \X Parts
    OBVIOUS
  <2> QED BY <1>0, <2>1, <2>2 DEF Sent
<1>2. \A i \in Nat : /\ SentIn(n, i) = SentIn(m, i) \union (IF i = r.session THEN {<<t, o>>} ELSE {})
                     /\ <<t, o>> \notin SentIn(m, i)
  <2> TAKE i \in Nat
  <2>1. ASSUME NEW u \in Tasks, NEW b \in Parts
        PROVE  (\E e \in ToSet(n.task[u].sent) : e.offset = b /\ e.session = i) <=>
               \/ \E e \in ToSet(m.task[u].sent) : e.offset = b /\ e.session = i
               \/ u = t /\ b = o /\ i = r.session
    <3>1. CASE u = t
      BY <3>1
    <3>2. CASE u # t
      BY <3>2
    <3> QED BY <3>1, <3>2
  <2>2. \A e \in ToSet(m.task[t].sent) : e.offset # o
    BY DEF Offsets
  <2>3. <<t, o>> \in Tasks \X Parts
    OBVIOUS
  <2> QED BY <1>0, <2>1, <2>2, <2>3 DEF SentIn
<1>3. Cardinality(Sent(n)) = Cardinality(Sent(m)) + 1
  BY <1>1, SentFinite, FS_AddElement
<1>4. ASSUME NEW i \in Nat
      PROVE  Cardinality(SentIn(n, i)) =
                 Cardinality(SentIn(m, i)) + (IF i = r.session THEN 1 ELSE 0)
  <2>1. IsFiniteSet(SentIn(m, i)) /\ Cardinality(SentIn(m, i)) \in Nat
    BY SentFinite
  <2>2. CASE i = r.session
    <3>1. SentIn(n, i) = SentIn(m, i) \union {<<t, o>>} /\ <<t, o>> \notin SentIn(m, i)
      BY <1>2, <2>2
    <3>2. Cardinality(SentIn(n, i)) = Cardinality(SentIn(m, i)) + 1
      BY <2>1, <3>1, FS_AddElement
    <3> QED BY <2>2, <3>2
  <2>3. CASE i # r.session
    <3>1. SentIn(n, i) = SentIn(m, i)
      BY <1>2, <2>3
    <3> QED BY <2>1, <2>3, <3>1
  <2> QED BY <2>2, <2>3
<1> QED BY <1>3, <1>4

LEMMA SentFewer ==
    ASSUME NEW m, NEW n, NEW t \in Tasks, NEW r \in ToSet(m.task[t].sent), r.offset \in Parts,
           \A u \in Tasks \ {t} : n.task[u] = m.task[u],
           ToSet(n.task[t].sent) = ToSet(m.task[t].sent) \ {r},
           \A e \in ToSet(m.task[t].sent) : e.offset = r.offset => e = r
    PROVE  /\ Cardinality(Sent(n)) = Cardinality(Sent(m)) - 1
           /\ \A i \in Nat : Cardinality(SentIn(n, i)) =
                  Cardinality(SentIn(m, i)) - (IF i = r.session THEN 1 ELSE 0)
<1>1. ToSet(m.task[t].sent) = ToSet(n.task[t].sent) \union {r}
  OBVIOUS
<1>2. r.offset \notin Offsets(n.task[t])
  BY DEF Offsets
<1>3. \A u \in Tasks \ {t} : m.task[u] = n.task[u]
  OBVIOUS
<1>4. /\ Cardinality(Sent(m)) = Cardinality(Sent(n)) + 1
      /\ \A i \in Nat : Cardinality(SentIn(m, i)) =
                  Cardinality(SentIn(n, i)) + (IF i = r.session THEN 1 ELSE 0)
  <2>1. OneMore(n, m, t, r)
    BY <1>1, <1>2, <1>3 DEF OneMore
  <2> QED BY <2>1, SentMore
<1>5. Cardinality(Sent(n)) \in Nat /\ \A i \in Nat : Cardinality(SentIn(n, i)) \in Nat
  BY SentFinite
<1> QED BY <1>4, <1>5

LEMMA SentNone ==
    ASSUME NEW m, \A i \in DOMAIN m.sessions : Cardinality(SentIn(m, i)) = 0,
           InSessions(m), \A u \in Tasks : \A r \in ToSet(m.task[u].sent) : r.offset \in Parts
    PROVE  Sent(m) = {}
<1> SUFFICES ASSUME NEW p \in Sent(m) PROVE FALSE
  OBVIOUS
<1>1. p \in Tasks \X Parts /\ p[1] \in Tasks /\ p[2] \in Offsets(m.task[p[1]])
  BY DEF Sent
<1>2. PICK r \in ToSet(m.task[p[1]].sent) : r.offset = p[2]
  BY <1>1 DEF Offsets
<1>3. p \in SentIn(m, r.session) /\ r.session \in DOMAIN m.sessions
  BY <1>1, <1>2 DEF SentIn, InSessions
<1> QED BY <1>3, SentFinite, FS_EmptySet

\* Nothing is sent of a task that holds no part.
LEMMA SentEmpty ==
    ASSUME NEW m, NEW u \in Tasks, NEW i \in Nat, Sent(m) = {}, TaskShape(m.task[u])
    PROVE  Offsets(m.task[u]) = {} /\ ToSet(m.task[u].sent) = {} /\ SentIn(m, i) = {}
<1>1. \A o \in Parts : o \notin Offsets(m.task[u])
  BY InSent
<1>2. ToSet(m.task[u].sent) = {}
  BY <1>1 DEF Offsets, TaskShape, IsRequest
<1>3. SentIn(m, i) \subseteq Sent(m)
  BY DEF Sent, SentIn, Offsets
<1> QED BY <1>2, <1>3 DEF Offsets

-----------------------------------------------------------------------------
(* One request made, and one finished.                                       *)

\* k and l are told apart by nothing but what was sent.
KeepsAll(k, l) ==
    /\ l.status = k.status /\ l.unchecked = k.unchecked /\ l.hashes = k.hashes
    /\ l.cdn = k.cdn /\ l.renewed = k.renewed /\ l.renewing = k.renewing
    /\ l.next = k.next /\ l.written = k.written /\ l.requested = k.requested
    /\ l.level = k.level /\ l.priority = k.priority /\ l.wanted = k.wanted

Awaiting(k) == {r.awaits : r \in ToSet(k.sent)}

\* m and n are told apart by what t has sent and sessions wait for, and by
\* what was posted.
Beside(m, n, t) ==
    /\ n.queue = m.queue /\ Len(n.sessions) = Len(m.sessions)
    /\ Awaiting(n.task[t]) \subseteq Awaiting(m.task[t]) \union {"server"}
    /\ \A u \in Tasks \ {t} : n.task[u] = m.task[u]
    /\ KeepsAll(m.task[t], n.task[t])
    /\ ToSet(m.posted) \subseteq ToSet(n.posted)

LEMMA BesideSame == ASSUME NEW m, NEW t PROVE Beside(m, m, t)
  BY DEF Beside, KeepsAll

LEMMA BesideTwice ==
    ASSUME NEW m, NEW n, NEW d, NEW t, Beside(m, n, t), Beside(n, d, t)
    PROVE  Beside(m, d, t)
  BY DEF Beside, KeepsAll

\* The same, but for what is held back and who asks.
Near(m, n, t) ==
    /\ n.queue = m.queue
    /\ \A u \in Tasks \ {t} : n.task[u] = m.task[u]
    /\ n.task[t].status = m.task[t].status /\ n.task[t].renewing = m.task[t].renewing
    /\ n.task[t].next = m.task[t].next /\ n.task[t].written = m.task[t].written
    /\ n.task[t].requested = m.task[t].requested
    /\ Awaiting(n.task[t]) \subseteq Awaiting(m.task[t]) \union {"server"}

LEMMA BesideNear ==
    ASSUME NEW m, NEW n, NEW t, Beside(m, n, t)
    PROVE  Near(m, n, t)
  BY DEF Beside, KeepsAll, Near

LEMMA NearTwice ==
    ASSUME NEW m, NEW n, NEW d, NEW t, Near(m, n, t), Near(n, d, t)
    PROVE  Near(m, d, t)
  BY DEF Near

LEMMA NearPut ==
    ASSUME NEW m, NEW n, NEW t \in Tasks, n.queue = m.queue,
           \A u \in Tasks \ {t} : n.task[u] = m.task[u],
           n.task[t].status = m.task[t].status, n.task[t].renewing = m.task[t].renewing,
           n.task[t].next = m.task[t].next, n.task[t].written = m.task[t].written,
           n.task[t].requested = m.task[t].requested, n.task[t].sent = m.task[t].sent
    PROVE  Near(m, n, t)
  BY DEF Near, Awaiting

LEMMA ShapeFields ==
    ASSUME NEW m, Shape(m), NEW t \in Tasks
    PROVE  /\ TaskShape(m.task[t]) /\ IsSeq(m.task[t].sent)
           /\ \A r \in ToSet(m.task[t].sent) : IsRequest(r) /\ r.offset \in Parts /\ r.session \in Nat
           /\ Offsets(m.task[t]) \subseteq Parts /\ Held(m.task[t]) \subseteq Parts
           /\ DOMAIN m.sessions = 1 .. Len(m.sessions) /\ Len(m.sessions) \in Nat
           /\ \A i \in DOMAIN m.sessions : m.sessions[i] \in SessionType
  BY DEF Shape, TaskShape, IsRequest, Offsets

LEMMA ShapeNumbers ==
    ASSUME NEW m, Shape(m)
    PROVE  /\ DOMAIN m.sessions = 1 .. Len(m.sessions) /\ Len(m.sessions) \in Nat /\ Len(m.sessions) > 0
           /\ DOMAIN m.sessions \subseteq Nat
           /\ \A i \in DOMAIN m.sessions : m.sessions[i].requested \in Int /\ m.sessions[i].max \in Int
           /\ m.balance.total \in Int /\ m.balance.timeouts \in Int
<1>1. m.sessions \in Seq(SessionType) /\ Len(m.sessions) > 0 /\ m.balance \in BalanceType
  BY DEF Shape
<1>0. DOMAIN m.sessions = 1 .. Len(m.sessions) /\ Len(m.sessions) \in Nat
  BY <1>1
<1>2. \A i \in DOMAIN m.sessions : m.sessions[i] \in SessionType
  BY <1>0, <1>1
<1>3. ASSUME NEW i \in DOMAIN m.sessions
      PROVE  m.sessions[i].requested \in Int /\ m.sessions[i].max \in Int
  BY <1>2 DEF SessionType
<1>4. m.balance.total \in Int /\ m.balance.timeouts \in Int
  BY <1>1 DEF BalanceType
<1>5. 1 .. Len(m.sessions) \subseteq Nat
  BY <1>0
<1> QED BY <1>0, <1>1, <1>3, <1>4, <1>5

LEMMA ChangedIs ==
    ASSUME NEW m, Shape(m), NEW i \in Nat, NEW delta \in {1, -1},
           NEW n, n = ChangeRequestedAmount(m, i, delta)
    PROVE  /\ Shape(n) /\ n.queue = m.queue /\ n.posted = m.posted /\ n.task = m.task
           /\ n.broken = m.broken /\ Len(n.sessions) = Len(m.sessions)
           /\ \A j \in DOMAIN m.sessions : n.sessions[j].requested =
                  m.sessions[j].requested + (IF j = i THEN delta ELSE 0)
           /\ n.balance.total = m.balance.total + delta
           /\ delta = 1 => ~n.killing
           /\ delta = -1 => (n.killing <=> \/ m.killing
                                           \/ \A j \in DOMAIN n.sessions : n.sessions[j].requested <= 0)
<1> DEFINE s == [m.sessions EXCEPT ![i].requested = @ + delta]
           b == [m.balance EXCEPT !.total = @ + delta]
<1> DEFINE changed == [m EXCEPT !.sessions = s, !.balance = b]
           killing == IF delta = 1 THEN FALSE
                      ELSE m.killing \/ \A j \in DOMAIN s : s[j].requested <= 0
<1>0. m.sessions \in Seq(SessionType) /\ m.balance \in BalanceType /\ Len(m.sessions) \in Nat
      /\ DOMAIN m.sessions = 1 .. Len(m.sessions) /\ delta \in Int
  BY DEF Shape
<1>1. s \in Seq(SessionType) /\ Len(s) = Len(m.sessions) /\ DOMAIN s = DOMAIN m.sessions
  <2>1. \A j \in DOMAIN m.sessions : m.sessions[j] \in SessionType
    BY <1>0
  <2>2. DOMAIN s = 1 .. Len(m.sessions)
    BY <1>0
  <2>3. \A j \in 1 .. Len(m.sessions) : s[j] \in SessionType
    <3> SUFFICES ASSUME NEW j \in 1 .. Len(m.sessions) PROVE s[j] \in SessionType
      OBVIOUS
    <3> DEFINE e == m.sessions[j]
    <3>1. e \in SessionType
      BY <1>0, <2>1
    <3>2. s[j] = IF j = i THEN [e EXCEPT !.requested = @ + delta] ELSE e
      BY <1>0
    <3> HIDE DEF e, s
    <3>3. [e EXCEPT !.requested = @ + delta] \in SessionType
      <4>1. e.requested + delta \in Int
        BY <1>0, <3>1 DEF SessionType
      <4> QED BY <3>1, <4>1 DEF SessionType
    <3> QED BY <3>1, <3>2, <3>3
  <2>4. s = [j \in 1 .. Len(m.sessions) |-> s[j]]
    BY <1>0
  <2> HIDE DEF s
  <2> QED BY <1>0, <2>2, <2>3, <2>4
<1>2. \A j \in DOMAIN m.sessions : s[j].requested =
                  m.sessions[j].requested + (IF j = i THEN delta ELSE 0)
  <2>1. \A j \in DOMAIN m.sessions : m.sessions[j] \in SessionType
    BY <1>0
  <2> QED BY SMTT(30), <1>0, <2>1 DEF SessionType
<1>3. b \in BalanceType /\ b.total = m.balance.total + delta
  BY <1>0 DEF BalanceType
<1> HIDE DEF s, b
<1>4. IsManager(m) /\ m.killing \in BOOLEAN
  BY DEF Shape
<1>5. /\ changed.sessions = s /\ changed.balance = b /\ changed.queue = m.queue
      /\ changed.killing = m.killing /\ changed.posted = m.posted
      /\ changed.task = m.task /\ changed.broken = m.broken /\ IsManager(changed)
  <2> HIDE DEF changed
  <2>1. changed = [m EXCEPT !.sessions = s, !.balance = b]
    BY DEF changed
  <2> QED BY <1>4, <2>1 DEF IsManager
<1>6. n = [changed EXCEPT !.killing = killing]
  <2>1. delta > 0 <=> delta = 1
    OBVIOUS
  <2>2. CASE delta = 1
    BY <2>1, <2>2 DEF ChangeRequestedAmount, s, b
  <2>3. CASE delta = -1
    <3>1. n = [changed EXCEPT !.killing = @ \/ \A j \in DOMAIN changed.sessions : changed.sessions[j].requested <= 0]
      BY <2>1, <2>3 DEF ChangeRequestedAmount, s, b
    <3>2. killing = (changed.killing \/ \A j \in DOMAIN changed.sessions : changed.sessions[j].requested <= 0)
      BY <1>5, <2>3
    <3> HIDE DEF changed, killing
    <3> QED BY <3>1, <3>2
  <2> QED BY <2>2, <2>3
<1>7. killing \in BOOLEAN
  BY <1>4
<1> HIDE DEF changed
<1>8. /\ n.sessions = s /\ n.balance = b /\ n.queue = m.queue /\ n.posted = m.posted
      /\ n.task = m.task /\ n.broken = m.broken /\ n.killing = killing /\ IsManager(n)
  <2> HIDE DEF killing
  <2> QED BY <1>4, <1>5, <1>6 DEF IsManager
<1>9. Shape(n)
  <2> HIDE DEF killing
  <2> QED BY <1>1, <1>3, <1>7, <1>8 DEF Shape
<1>10. delta = 1 => ~n.killing
  BY <1>8
<1>11. delta = -1 => (n.killing <=> \/ m.killing
                                   \/ \A j \in DOMAIN n.sessions : n.sessions[j].requested <= 0)
  <2>1. n.sessions = s /\ n.killing = killing
    BY <1>8
  <2>2. SUFFICES ASSUME delta = -1
                 PROVE  n.killing = (m.killing \/ \A j \in DOMAIN s : s[j].requested <= 0)
    BY <2>1
  <2> QED BY <2>1, <2>2
<1> QED BY <1>1, <1>2, <1>3, <1>8, <1>9, <1>10, <1>11

\* n is m with task t replaced by k.
Puts(m, n, t, k) ==
    /\ n.sessions = m.sessions /\ n.balance = m.balance /\ n.queue = m.queue
    /\ n.killing = m.killing /\ n.posted = m.posted
    /\ n.task[t] = k /\ \A u \in Tasks \ {t} : n.task[u] = m.task[u]

Put(m, t, k, broken) == [[m EXCEPT !.task[t] = k] EXCEPT !.broken = broken]

LEMMA PutIs ==
    ASSUME NEW m, Shape(m), NEW t \in Tasks, NEW k, TaskShape(k),
           NEW broken \in BOOLEAN,
           NEW n, n = Put(m, t, k, broken)
    PROVE  Shape(n) /\ Puts(m, n, t, k) /\ n.broken = broken
<1>1. /\ n.sessions = m.sessions /\ n.balance = m.balance /\ n.queue = m.queue
      /\ n.killing = m.killing /\ n.posted = m.posted /\ n.resetting = m.resetting
      /\ n.task = [m.task EXCEPT ![t] = k] /\ n.broken = broken /\ IsManager(n)
  BY DEF Shape, IsManager, Put
<1>2. DOMAIN m.task = Tasks
  BY DEF Shape
<1>3. n.task[t] = k /\ \A u \in Tasks \ {t} : n.task[u] = m.task[u]
  BY <1>1, <1>2
<1>4. n.task = [u \in Tasks |-> n.task[u]]
  BY <1>1, <1>2
<1>5. \A u \in Tasks : TaskShape(n.task[u])
  BY <1>3 DEF Shape
<1> QED BY <1>1, <1>3, <1>4, <1>5 DEF Shape, Puts

LEMMA SentPut ==
    ASSUME NEW k, TaskShape(k), NEW sent, IsSeq(sent), \A r \in ToSet(sent) : IsRequest(r),
           NEW l, l = [k EXCEPT !.sent = sent]
    PROVE  TaskShape(l) /\ KeepsAll(k, l) /\ l.sent = sent
<1>1. KeepsAll(k, l) /\ l.sent = sent
      /\ l = [status |-> l.status, sent |-> l.sent, unchecked |-> l.unchecked,
            hashes |-> l.hashes, cdn |-> l.cdn, renewed |-> l.renewed,
            renewing |-> l.renewing, next |-> l.next, written |-> l.written,
            requested |-> l.requested, level |-> l.level, priority |-> l.priority,
            wanted |-> l.wanted]
  BY DEF TaskShape, KeepsAll
<1> QED BY <1>1 DEF TaskShape, KeepsAll, Held

LEMMA TaskKept ==
    ASSUME NEW m, NEW n, NEW u, NEW G, NEW due, n.task[u] = m.task[u],
           HashesCall(u) \in ToSet(m.posted) => HashesCall(u) \in ToSet(n.posted),
           TaskOK(m, u, G, due)
    PROVE  TaskOK(n, u, G, due)
<1>1. AsksFor(m, u) => AsksFor(n, u)
  BY DEF AsksFor
<1> QED BY <1>1 DEF TaskOK

\* The sessions wait for one request more, or less.
Moved(m, n, r, delta) ==
    /\ n.queue = m.queue /\ Len(n.sessions) = Len(m.sessions) /\ n.broken = m.broken
    /\ \A j \in DOMAIN m.sessions : n.sessions[j].requested =
            m.sessions[j].requested + (IF j = r.session THEN delta ELSE 0)
    /\ n.balance.total = m.balance.total + delta

LEMMA BalanceMore ==
    ASSUME NEW m, NEW n, NEW x \in Nat, NEW t \in Tasks, NEW r,
           Shape(m), Shape(n), BalanceOK(m, x), OneMore(m, n, t, r), Moved(m, n, r, 1), ~n.killing,
           n.task[t].unchecked = m.task[t].unchecked,
           r.session \in DOMAIN m.sessions, Queued(m, t)
    PROVE  BalanceOK(n, x)
<1>1. /\ DOMAIN n.sessions = DOMAIN m.sessions /\ DOMAIN m.sessions \subseteq Nat
      /\ \A i \in DOMAIN m.sessions : m.sessions[i].requested \in Int
      /\ m.balance.total \in Int
  BY ShapeNumbers DEF Moved
<1>2. InSessions(n)
  <2> SUFFICES ASSUME NEW u \in Tasks
               PROVE  /\ \A e \in ToSet(n.task[u].sent) : e.session \in DOMAIN n.sessions
                      /\ \A o \in Held(n.task[u]) : n.task[u].unchecked[o] \in DOMAIN n.sessions
    BY DEF InSessions
  <2>1. CASE u = t
    BY <1>1, <2>1 DEF BalanceOK, InSessions, OneMore, Held
  <2>2. CASE u # t
    BY <1>1, <2>2 DEF BalanceOK, InSessions, OneMore, Held
  <2> QED BY <2>1, <2>2
<1>3. Adds(n, x)
  <2>1. /\ Cardinality(Sent(n)) = Cardinality(Sent(m)) + 1
        /\ \A i \in Nat : Cardinality(SentIn(n, i)) =
                  Cardinality(SentIn(m, i)) + (IF i = r.session THEN 1 ELSE 0)
    BY SentMore
  <2>2. Cardinality(Sent(m)) \in Nat /\ \A i \in Nat : Cardinality(SentIn(m, i)) \in Nat
    BY SentFinite
  <2>3. n.balance.total = Cardinality(Sent(n))
    BY <2>1 DEF BalanceOK, Adds, Moved
  <2>4. ASSUME NEW i \in DOMAIN n.sessions
        PROVE  n.sessions[i].requested =
                   Cardinality(SentIn(n, i)) + (IF i = Len(n.sessions) THEN x ELSE 0)
    <3>1. i \in DOMAIN m.sessions /\ i \in Nat /\ Len(n.sessions) = Len(m.sessions)
      BY <1>1 DEF Moved
    <3>2. m.sessions[i].requested =
                   Cardinality(SentIn(m, i)) + (IF i = Len(m.sessions) THEN x ELSE 0)
      BY <3>1 DEF BalanceOK, Adds
    <3>3. n.sessions[i].requested = m.sessions[i].requested + (IF i = r.session THEN 1 ELSE 0)
      BY <3>1 DEF Moved
    <3>4. Cardinality(SentIn(n, i)) = Cardinality(SentIn(m, i)) + (IF i = r.session THEN 1 ELSE 0)
          /\ Cardinality(SentIn(m, i)) \in Nat
      BY <2>1, <2>2, <3>1
    <3> QED BY ONLY <3>1, <3>2, <3>3, <3>4, x \in Nat
  <2> QED BY <2>3, <2>4 DEF Adds
<1>4. \A u \in Tasks : Taken(n.task[u]) # {} => Queued(n, u)
  <2>1. \A u \in Tasks : Queued(m, u) <=> Queued(n, u)
    BY DEF Queued, Moved
  <2>2. \A u \in Tasks \ {t} : n.task[u] = m.task[u]
    BY DEF OneMore
  <2> QED BY <2>1, <2>2 DEF BalanceOK
<1> QED BY <1>2, <1>3, <1>4 DEF BalanceOK, Idle0, Moved

LEMMA BalanceFewer ==
    ASSUME NEW m, NEW n, NEW x \in Nat, NEW t \in Tasks, NEW r,
           Shape(m), Shape(n), BalanceOK(m, x), OneMore(n, m, t, r), Moved(m, n, r, -1),
           n.killing => \/ m.killing
                        \/ \A j \in DOMAIN n.sessions : n.sessions[j].requested <= 0,
           n.task[t].unchecked = m.task[t].unchecked
    PROVE  BalanceOK(n, x)
<1>1. /\ DOMAIN n.sessions = DOMAIN m.sessions /\ DOMAIN m.sessions \subseteq Nat
      /\ \A i \in DOMAIN m.sessions : m.sessions[i].requested \in Int
      /\ m.balance.total \in Int
  BY ShapeNumbers DEF Moved
<1>2. InSessions(n)
  <2> SUFFICES ASSUME NEW u \in Tasks
               PROVE  /\ \A e \in ToSet(n.task[u].sent) : e.session \in DOMAIN n.sessions
                      /\ \A o \in Held(n.task[u]) : n.task[u].unchecked[o] \in DOMAIN n.sessions
    BY DEF InSessions
  <2>1. CASE u = t
    BY <1>1, <2>1 DEF BalanceOK, InSessions, OneMore, Held
  <2>2. CASE u # t
    <3>1. m.task[u] = n.task[u]
      BY <2>2 DEF OneMore
    <3> QED BY <1>1, <3>1 DEF BalanceOK, InSessions, Held
  <2> QED BY <2>1, <2>2
<1>3. Adds(n, x)
  <2>1. /\ Cardinality(Sent(m)) = Cardinality(Sent(n)) + 1
        /\ \A i \in Nat : Cardinality(SentIn(m, i)) =
                  Cardinality(SentIn(n, i)) + (IF i = r.session THEN 1 ELSE 0)
    BY SentMore
  <2>2. Cardinality(Sent(n)) \in Nat /\ \A i \in Nat : Cardinality(SentIn(n, i)) \in Nat
    BY SentFinite
  <2>3. n.balance.total = Cardinality(Sent(n))
    BY <2>1, <2>2 DEF BalanceOK, Adds, Moved
  <2>4. ASSUME NEW i \in DOMAIN n.sessions
        PROVE  n.sessions[i].requested =
                   Cardinality(SentIn(n, i)) + (IF i = Len(n.sessions) THEN x ELSE 0)
    <3>1. i \in DOMAIN m.sessions /\ i \in Nat /\ Len(n.sessions) = Len(m.sessions)
      BY <1>1 DEF Moved
    <3>2. m.sessions[i].requested =
                   Cardinality(SentIn(m, i)) + (IF i = Len(m.sessions) THEN x ELSE 0)
      BY <3>1 DEF BalanceOK, Adds
    <3>3. n.sessions[i].requested = m.sessions[i].requested + (IF i = r.session THEN -1 ELSE 0)
      BY <3>1 DEF Moved
    <3>4. Cardinality(SentIn(m, i)) = Cardinality(SentIn(n, i)) + (IF i = r.session THEN 1 ELSE 0)
          /\ Cardinality(SentIn(n, i)) \in Nat
      BY <2>1, <2>2, <3>1
    <3> QED BY ONLY <3>1, <3>2, <3>3, <3>4, x \in Nat
  <2> QED BY <2>3, <2>4 DEF Adds
<1>4. \A u \in Tasks : Taken(n.task[u]) # {} => Queued(n, u)
  <2>1. \A u \in Tasks : Queued(m, u) <=> Queued(n, u)
    BY DEF Queued, Moved
  <2>2. \A u \in Tasks : Taken(n.task[u]) \subseteq Taken(m.task[u])
    BY DEF OneMore, Taken, Held, Offsets
  <2> QED BY <2>1, <2>2 DEF BalanceOK
<1>5. Idle0(n)
  <2>1. CASE m.killing
    <3>1. Sent(m) = {}
      BY <2>1 DEF BalanceOK, Idle0
    <3>2. <<t, r.offset>> \in Sent(m)
      <4>1. r.offset \in Offsets(m.task[t]) /\ r.offset \in Parts
        BY DEF OneMore, Offsets
      <4> QED BY <4>1, InSent
    <3> QED BY <3>1, <3>2
  <2>2. CASE \A j \in DOMAIN n.sessions : n.sessions[j].requested <= 0
    <3>1. \A j \in DOMAIN n.sessions : Cardinality(SentIn(n, j)) = 0
      <4> TAKE j \in DOMAIN n.sessions
      <4>1. Cardinality(SentIn(n, j)) \in Nat
        BY SentFinite
      <4>2. n.sessions[j].requested = Cardinality(SentIn(n, j)) + (IF j = Len(n.sessions) THEN x ELSE 0)
        BY <1>3 DEF Adds
      <4>3. n.sessions[j].requested <= 0
        BY <2>2
      <4> QED BY <4>1, <4>2, <4>3
    <3>2. \A u \in Tasks : \A e \in ToSet(n.task[u].sent) : e.offset \in Parts
      BY ShapeFields
    <3>3. Sent(n) = {}
      BY <1>2, <3>1, <3>2, SentNone
    <3> QED BY <3>3 DEF Idle0
  <2> QED BY <2>1, <2>2 DEF Idle0
<1> QED BY <1>2, <1>3, <1>4, <1>5 DEF BalanceOK, Moved

\* One request r of t was sent besides.
Placed(m, n, t, r) ==
    /\ IsRequest(r) /\ r.awaits = "server"
    /\ Shape(n) /\ Beside(m, n, t) /\ n.posted = m.posted /\ ~n.killing
    /\ n.task[t].sent = Append(m.task[t].sent, r)
    /\ n.broken = (m.broken \/ r.offset \in Offsets(m.task[t]))
    /\ \A j \in DOMAIN m.sessions : n.sessions[j].requested =
            m.sessions[j].requested + (IF j = r.session THEN 1 ELSE 0)
    /\ n.balance.total = m.balance.total + 1

LEMMA PlaceIs ==
    ASSUME NEW m, Shape(m), NEW t \in Tasks, NEW kind, NEW offset \in Parts, NEW i \in Nat,
           NEW n, n = PlaceSentRequest(m, t, kind, offset, i)
    PROVE  \E r : /\ r.kind = kind /\ r.offset = offset /\ r.session = i
                  /\ Placed(m, n, t, r)
<1> DEFINE d == ChangeRequestedAmount(m, i, 1)
           r == [kind   |-> kind, offset |-> offset, session |-> i,
                 amount |-> d.sessions[i].requested, late   |-> FALSE,
                 renewed |-> m.task[t].renewed, awaits |-> "server"]
           k == [m.task[t] EXCEPT !.sent = Append(@, r)]
           broken == m.broken \/ offset \in Offsets(m.task[t])
<1>1. 1 \in {1, -1}
  OBVIOUS
<1>2. /\ Shape(d) /\ d.queue = m.queue /\ d.posted = m.posted /\ d.task = m.task
      /\ d.broken = m.broken /\ Len(d.sessions) = Len(m.sessions)
      /\ \A j \in DOMAIN m.sessions : d.sessions[j].requested =
            m.sessions[j].requested + (IF j = i THEN 1 ELSE 0)
      /\ d.balance.total = m.balance.total + 1 /\ ~d.killing
  <2> HIDE DEF d
  <2>1. d = ChangeRequestedAmount(m, i, 1)
    BY DEF d
  <2> QED BY <1>1, <2>1, ChangedIs
<1>3. n = [[d EXCEPT !.task[t].sent = Append(@, r)] EXCEPT !.broken = @ \/ ~(offset \notin Offsets(m.task[t]))]
  BY DEF PlaceSentRequest, Expects
<1> HIDE DEF d
<1>4. IsRequest(r) /\ r.kind = kind /\ r.offset = offset /\ r.session = i /\ r.awaits = "server"
  BY DEF IsRequest
<1> HIDE DEF r
<1>5. TaskShape(m.task[t]) /\ IsSeq(m.task[t].sent) /\ \A e \in ToSet(m.task[t].sent) : IsRequest(e)
  BY ShapeFields
<1>6. TaskShape(k) /\ KeepsAll(m.task[t], k) /\ k.sent = Append(m.task[t].sent, r)
  <2> DEFINE sent == Append(m.task[t].sent, r)
  <2>1. IsSeq(sent) /\ ToSet(sent) = ToSet(m.task[t].sent) \union {r}
    BY <1>5, AppendIs
  <2>2. k = [m.task[t] EXCEPT !.sent = sent]
    OBVIOUS
  <2> HIDE DEF sent, k
  <2>3. TaskShape(k) /\ KeepsAll(m.task[t], k) /\ k.sent = sent
    BY <1>4, <1>5, <2>1, <2>2, SentPut
  <2> QED BY <2>3 DEF sent
<1>7. broken \in BOOLEAN
  BY DEF Shape
<1>8. n = Put(d, t, k, broken)
  <2>1. broken = (d.broken \/ ~(offset \notin Offsets(m.task[t])))
    BY <1>2
  <2>2. k = [d.task[t] EXCEPT !.sent = Append(@, r)]
    BY <1>2
  <2> HIDE DEF broken, k
  <2> DEFINE e == [d EXCEPT !.task[t] = k]
  <2>3. e = [d EXCEPT !.task[t].sent = Append(@, r)]
    BY <2>2
  <2>4. e.broken = d.broken
    BY <1>2 DEF Shape, IsManager
  <2> HIDE DEF e
  <2>5. n = [e EXCEPT !.broken = @ \/ ~(offset \notin Offsets(m.task[t]))]
    BY <1>3, <2>3
  <2>6. n = [e EXCEPT !.broken = broken]
    BY <2>1, <2>4, <2>5
  <2> QED BY <2>6 DEF e, Put
<1>9. Shape(n) /\ Puts(d, n, t, k) /\ n.broken = broken
  <2> HIDE DEF broken, k
  <2> QED BY <1>2, <1>6, <1>7, <1>8, PutIs
<1> HIDE DEF k
<1>10. Beside(m, n, t)
  <2>1. ToSet(n.task[t].sent) = ToSet(m.task[t].sent) \union {r}
    BY <1>5, <1>6, <1>9, AppendIs DEF Puts
  <2>2. Awaiting(n.task[t]) \subseteq Awaiting(m.task[t]) \union {"server"}
    BY <1>4, <2>1 DEF Awaiting
  <2> QED BY <1>2, <1>6, <1>9, <2>2 DEF Puts, Beside
<1>11. Placed(m, n, t, r)
  BY <1>2, <1>4, <1>6, <1>9, <1>10 DEF Puts, Placed
<1> QED BY <1>4, <1>11

\* A request is made for a part in hand, or for hashes of a part held back.
Called(m, t, G, kind, offset) ==
    /\ kind = "hashes" => offset \in Held(m.task[t]) /\ ~AsksHashes(m.task[t])
    /\ kind # "hashes" => offset \in G

Sends(m, n, t, r, G, due, later) ==
    /\ Shape(m) /\ TaskOK(m, t, G, due) /\ Placed(m, n, t, r)
    /\ Called(m, t, G, r.kind, r.offset)
    /\ t \in due /\ r.kind # "hashes" => t \in later

LEMMA TaskMore ==
    ASSUME NEW m, NEW n, NEW t \in Tasks, NEW r, NEW G, NEW due,
           NEW later, Sends(m, n, t, r, G, due, later)
    PROVE  /\ r.offset \notin Offsets(m.task[t])
           /\ ToSet(n.task[t].sent) = ToSet(m.task[t].sent) \union {r}
           /\ TaskOK(n, t, G \ {r.offset}, later)
<1> DEFINE k == m.task[t]
           l == n.task[t]
           B == G \ {r.offset}
<1> USE DEF Sends
<1>1. KeepsAll(k, l) /\ l.sent = Append(k.sent, r) /\ n.posted = m.posted /\ IsSeq(k.sent)
      /\ r.awaits = "server"
  BY ShapeFields DEF Placed, Beside
<1>2. RequestsOK(k) /\ G \intersect Taken(k) = {}
  BY DEF TaskOK
<1>3. r.offset \notin Offsets(k)
  BY <1>2 DEF Called, AsksHashes, Offsets, Taken, RequestsOK
<1>4. ToSet(l.sent) = ToSet(k.sent) \union {r} /\ Alone(l.sent)
  <2>1. \A e \in ToSet(k.sent) : e.offset # r.offset
    BY <1>3 DEF Offsets
  <2>2. Alone(k.sent)
    BY <1>2 DEF RequestsOK
  <2> DEFINE q == k.sent
             p == l.sent
  <2>3. IsSeq(q) /\ p = Append(q, r)
    BY <1>1
  <2> HIDE DEF q, p
  <2>4. ToSet(p) = ToSet(q) \union {r} /\ (Alone(q) /\ (\A e \in ToSet(q) : e.offset # r.offset) => Alone(p))
    BY <2>3, AppendIs
  <2> QED BY <2>1, <2>2, <2>4 DEF q, p
<1> HIDE DEF k, l
<1>5. Held(l) = Held(k) /\ Offsets(l) = Offsets(k) \union {r.offset}
  BY <1>1, <1>4 DEF KeepsAll, Held, Offsets
<1>6. Taken(l) = Taken(k) \union {r.offset} /\ Taken(l) \union B = Taken(k) \union G
      /\ B \intersect Taken(l) = {}
  <2>1. CASE r.kind = "hashes"
    <3>1. r.offset \in Taken(k)
      BY <2>1 DEF Called, Taken, k
    <3> QED BY <1>2, <1>5, <3>1 DEF Taken, k
  <2>2. CASE r.kind # "hashes"
    <3>1. r.offset \in G
      BY <2>2 DEF Called
    <3> QED BY <1>2, <1>5, <3>1 DEF Taken, k
  <2> QED BY <2>1, <2>2
<1>7. RequestsOK(l)
  <2>1. r.kind = "hashes" <=> r.offset \in Held(k)
    BY <1>2 DEF Called, Taken, k
  <2>2. r.kind = "hashes" => \A e \in ToSet(k.sent) : e.kind # "hashes"
    BY DEF Called, AsksHashes, k
  <2>3. \A e, f \in ToSet(l.sent) : e.kind = "hashes" /\ f.kind = "hashes" => e.offset = f.offset
    BY <1>2, <1>4, <2>2 DEF RequestsOK
  <2> QED BY <1>1, <1>2, <1>4, <1>5, <2>1, <2>3 DEF RequestsOK
<1>8. t \in Files => FileOK(l, B)
  <2>1. t \in Files => FileOK(k, G)
    BY DEF TaskOK, k
  <2> QED BY <1>1, <1>6, <2>1 DEF FileOK, KeepsAll
<1>9. t \in Streams => StreamOK(l, B)
  <2>1. t \in Streams => StreamOK(k, G)
    BY DEF TaskOK, k
  <2>2. Queried(l) = Queried(k)
    BY <1>1 DEF Queried, KeepsAll
  <2> HIDE DEF B
  <2>3. t \in Streams => Queried(l) \intersect (Taken(l) \union B) = {}
    BY <1>6, <2>1, <2>2 DEF StreamOK
  <2>4. t \in Streams => l.wanted \subseteq Queried(l) \union Taken(l) \union B
    BY <1>1, <1>6, <2>1, <2>2 DEF StreamOK, KeepsAll
  <2> QED BY <1>1, <2>1, <2>3, <2>4 DEF StreamOK, KeepsAll
<1>10. l.status = "loading" /\ Held(l) # {} => t \in later \/ AsksFor(n, t)
  <2>1. k.status = "loading" /\ Held(k) # {} => t \in due \/ AsksFor(m, t)
    BY DEF TaskOK, k
  <2>2. AsksFor(m, t) => AsksFor(n, t)
    BY <1>1, <1>4 DEF AsksFor, AsksHashes, k, l
  <2>3. r.kind = "hashes" => AsksFor(n, t)
    BY <1>4 DEF AsksFor, AsksHashes, l
  <2> QED BY <1>1, <1>5, <2>1, <2>2, <2>3 DEF KeepsAll
<1> QED BY <1>3, <1>4, <1>6, <1>7, <1>8, <1>9, <1>10 DEF TaskOK, k, l

MayPlace(scope, m, t, G, due, kind, offset, i, H, later) ==
    /\ H = G \ {offset} /\ offset \in Parts /\ i \in Nat /\ Called(m, t, G, kind, offset)
    /\ scope = "all" => i \in DOMAIN m.sessions /\ Queued(m, t)
    /\ t \in due /\ kind # "hashes" => t \in later

Made(m, n, t, kind, offset, i) ==
    \E r : /\ r.kind = kind /\ r.offset = offset /\ r.session = i /\ r.awaits = "server"
           /\ ToSet(n.task[t].sent) = ToSet(m.task[t].sent) \union {r}

LEMMA PlaceOK ==
    ASSUME NEW scope, NEW m, NEW x \in Nat, NEW t \in Tasks, NEW G, NEW due,
           Good(scope, m, x, t, G, due), NEW kind, NEW offset, NEW i, NEW H, NEW later,
           MayPlace(scope, m, t, G, due, kind, offset, i, H, later),
           NEW n, n = PlaceSentRequest(m, t, kind, offset, i)
    PROVE  /\ Good(scope, n, x, t, H, later)
           /\ Beside(m, n, t) /\ n.posted = m.posted
           /\ Made(m, n, t, kind, offset, i)
<1>0. /\ H = G \ {offset} /\ offset \in Parts /\ i \in Nat /\ Called(m, t, G, kind, offset)
      /\ scope = "all" => i \in DOMAIN m.sessions /\ Queued(m, t)
      /\ t \in due /\ kind # "hashes" => t \in later
  BY DEF MayPlace
<1>1. Shape(m) /\ TaskOK(m, t, G, due)
  BY DEF Good
<1>2. PICK r : /\ r.kind = kind /\ r.offset = offset /\ r.session = i
               /\ Placed(m, n, t, r)
  BY <1>0, <1>1, PlaceIs
<1>3. /\ Shape(n) /\ Beside(m, n, t) /\ n.posted = m.posted /\ ~n.killing
      /\ n.broken = (m.broken \/ offset \in Offsets(m.task[t]))
  BY <1>2 DEF Placed
<1>4. /\ offset \notin Offsets(m.task[t])
      /\ ToSet(n.task[t].sent) = ToSet(m.task[t].sent) \union {r}
      /\ TaskOK(n, t, H, later)
  <2>1. Sends(m, n, t, r, G, due, later)
    BY <1>0, <1>1, <1>2 DEF Sends
  <2>2. /\ r.offset \notin Offsets(m.task[t])
        /\ ToSet(n.task[t].sent) = ToSet(m.task[t].sent) \union {r}
        /\ TaskOK(n, t, G \ {r.offset}, later)
    BY ONLY t \in Tasks, <2>1, TaskMore
  <2> QED BY <1>0, <1>2, <2>2
<1>5. \A u \in Tasks \ {t} : TaskOK(n, u, {}, {}) /\ KindsOK(n.task[u])
  <2> TAKE u \in Tasks \ {t}
  <2>1. n.task[u] = m.task[u] /\ ToSet(n.posted) = ToSet(m.posted)
    BY <1>3 DEF Beside
  <2>2. TaskOK(m, u, {}, {}) /\ KindsOK(m.task[u])
    BY DEF Good
  <2> QED BY <2>1, <2>2, TaskKept
<1>6. ASSUME scope = "all" PROVE BalanceOK(n, x)
  <2>1. BalanceOK(m, x) /\ r.session \in DOMAIN m.sessions /\ Queued(m, t)
    BY <1>0, <1>2, <1>6 DEF Good
  <2>2. OneMore(m, n, t, r)
    BY <1>0, <1>2, <1>3, <1>4 DEF OneMore, Beside
  <2>3. Moved(m, n, r, 1) /\ n.task[t].unchecked = m.task[t].unchecked
    <3>1. n.broken = m.broken
      BY <1>1, <1>3, <1>4 DEF Shape
    <3> QED BY <1>2, <3>1 DEF Placed, Beside, Moved, KeepsAll
  <2> QED BY <1>1, <1>3, <2>1, <2>2, <2>3, BalanceMore
<1> QED BY <1>2, <1>3, <1>4, <1>5, <1>6 DEF Good, Placed, Made

\* The request r of t is sent no more.
Finished(m, n, t, r) ==
    /\ Shape(n) /\ Beside(m, n, t) /\ n.posted = m.posted /\ n.broken = m.broken
    /\ ToSet(n.task[t].sent) = ToSet(m.task[t].sent) \ {r} /\ Alone(n.task[t].sent)
    /\ \A j \in DOMAIN m.sessions : n.sessions[j].requested =
            m.sessions[j].requested + (IF j = r.session THEN -1 ELSE 0)
    /\ n.balance.total = m.balance.total + -1
    /\ n.killing => \/ m.killing
                    \/ \A j \in DOMAIN n.sessions : n.sessions[j].requested <= 0

LEMMA FinishIs ==
    ASSUME NEW m, Shape(m), NEW t \in Tasks, NEW r \in ToSet(m.task[t].sent),
           Alone(m.task[t].sent), NEW n, n = FinishSentRequest(m, t, r)
    PROVE  Finished(m, n, t, r)
<1> DEFINE d == ChangeRequestedAmount(m, r.session, -1)
           sent == RemoveFirst(m.task[t].sent, r)
           k == [m.task[t] EXCEPT !.sent = sent]
<1>0. r.session \in Nat /\ TaskShape(m.task[t]) /\ IsSeq(m.task[t].sent)
      /\ \A e \in ToSet(m.task[t].sent) : IsRequest(e)
  BY ShapeFields
<1>1. -1 \in {1, -1} /\ ~(-1 = 1)
  OBVIOUS
<1>2. /\ Shape(d) /\ d.queue = m.queue /\ d.posted = m.posted /\ d.task = m.task
      /\ d.broken = m.broken /\ Len(d.sessions) = Len(m.sessions)
      /\ \A j \in DOMAIN m.sessions : d.sessions[j].requested =
            m.sessions[j].requested + (IF j = r.session THEN -1 ELSE 0)
      /\ d.balance.total = m.balance.total + -1
      /\ d.killing <=> \/ m.killing
                       \/ \A j \in DOMAIN d.sessions : d.sessions[j].requested <= 0
  <2> DEFINE i == r.session
             delta == -1
  <2>1. d = ChangeRequestedAmount(m, i, delta) /\ delta \in {1, -1} /\ i \in Nat /\ delta = -1
    BY <1>0
  <2> HIDE DEF d, i, delta
  <2>2. /\ Shape(d) /\ d.queue = m.queue /\ d.posted = m.posted /\ d.task = m.task
        /\ d.broken = m.broken /\ Len(d.sessions) = Len(m.sessions)
        /\ \A j \in DOMAIN m.sessions : d.sessions[j].requested =
              m.sessions[j].requested + (IF j = i THEN delta ELSE 0)
        /\ d.balance.total = m.balance.total + delta
        /\ delta = -1 => (d.killing <=> \/ m.killing
                                        \/ \A j \in DOMAIN d.sessions : d.sessions[j].requested <= 0)
    BY <2>1, ChangedIs
  <2> QED BY <2>1, <2>2 DEF i
<1>3. n = [d EXCEPT !.task[t].sent = RemoveFirst(@, r)]
  BY DEF FinishSentRequest
<1> HIDE DEF d
<1>4. IsSeq(sent) /\ ToSet(sent) = ToSet(m.task[t].sent) \ {r} /\ Alone(sent)
  <2> DEFINE q == m.task[t].sent
  <2>1. IsSeq(q) /\ Alone(q) /\ r \in ToSet(q) /\ sent = RemoveFirst(q, r)
    BY <1>0
  <2> HIDE DEF q, sent
  <2>2. IsSeq(sent) /\ ToSet(sent) = ToSet(q) \ {r} /\ Alone(sent)
    BY <2>1, RemoveFirstIs
  <2> QED BY <2>2 DEF q
<1>5. TaskShape(k) /\ KeepsAll(m.task[t], k) /\ k.sent = sent
  <2>2. k = [m.task[t] EXCEPT !.sent = sent]
    OBVIOUS
  <2> HIDE DEF sent, k
  <2> QED BY <1>0, <1>4, <2>2, SentPut
<1>6. n = Put(d, t, k, d.broken) /\ d.broken \in BOOLEAN
  <2>1. k = [d.task[t] EXCEPT !.sent = RemoveFirst(@, r)]
    BY <1>2
  <2> HIDE DEF k
  <2>2. n = [d EXCEPT !.task[t] = k]
    BY <1>3, <2>1
  <2>3. IsManager(d) /\ d.broken \in BOOLEAN
    BY <1>2 DEF Shape
  <2> DEFINE e == [d EXCEPT !.task[t] = k]
  <2>4. IsManager(e) /\ e.broken = d.broken
    BY <2>3 DEF IsManager
  <2> HIDE DEF e
  <2>5. e = [e EXCEPT !.broken = d.broken]
    BY <2>4 DEF IsManager
  <2> QED BY <2>2, <2>3, <2>5 DEF e, Put
<1>7. Shape(n) /\ Puts(d, n, t, k) /\ n.broken = d.broken
  <2> HIDE DEF k
  <2> QED BY <1>2, <1>5, <1>6, PutIs
<1> HIDE DEF k, sent
<1>8. Beside(m, n, t)
  <2>1. ToSet(n.task[t].sent) \subseteq ToSet(m.task[t].sent)
    BY <1>4, <1>5, <1>7 DEF Puts, sent
  <2>2. Awaiting(n.task[t]) \subseteq Awaiting(m.task[t]) \union {"server"}
    BY <2>1 DEF Awaiting
  <2> QED BY <1>2, <1>5, <1>7, <2>2 DEF Puts, Beside
<1> QED BY <1>2, <1>4, <1>5, <1>7, <1>8 DEF Puts, Finished

\* The part of a request that is not for hashes comes to hand.
Frees(G, r, H) ==
    /\ r.kind = "hashes" => H = G
    /\ r.kind # "hashes" => H = G \union {r.offset}

LEMMA TaskFewer ==
    ASSUME NEW m, NEW n, NEW t \in Tasks, NEW r \in ToSet(m.task[t].sent), NEW G, NEW due,
           TaskOK(m, t, G, due), Finished(m, n, t, r), NEW H, Frees(G, r, H),
           NEW later, t \in due \/ r.kind = "hashes" => t \in later
    PROVE  TaskOK(n, t, H, later)
<1> DEFINE k == m.task[t]
           l == n.task[t]
<1>1. KeepsAll(k, l) /\ n.posted = m.posted /\ ToSet(l.sent) = ToSet(k.sent) \ {r} /\ Alone(l.sent)
  BY DEF Finished, Beside
<1>2. RequestsOK(k) /\ G \intersect Taken(k) = {}
  BY DEF TaskOK
<1>3. r \in ToSet(k.sent) /\ \A e \in ToSet(k.sent) : e.offset = r.offset => e = r
  BY <1>2 DEF RequestsOK, Alone, ToSet
<1> HIDE DEF k, l
<1>4. Held(l) = Held(k) /\ Offsets(l) = Offsets(k) \ {r.offset} /\ r.offset \in Offsets(k)
  BY <1>1, <1>3 DEF KeepsAll, Held, Offsets
<1>5. Taken(l) \union H = Taken(k) \union G /\ H \intersect Taken(l) = {}
  <2>1. r.kind = "hashes" <=> r.offset \in Held(k)
    BY <1>2, <1>3 DEF RequestsOK, k
  <2>2. CASE r.kind = "hashes"
    BY <1>2, <1>4, <2>1, <2>2 DEF Frees, Taken, k
  <2>3. CASE r.kind # "hashes"
    BY <1>2, <1>4, <2>1, <2>3 DEF Frees, Taken, k
  <2> QED BY <2>2, <2>3
<1>7. RequestsOK(l)
  BY <1>1, <1>2, <1>4 DEF RequestsOK, k
<1>8. t \in Files => FileOK(l, H)
  <2>1. t \in Files => FileOK(k, G)
    BY DEF TaskOK, k
  <2> QED BY <1>1, <1>5, <2>1 DEF FileOK, KeepsAll
<1>9. t \in Streams => StreamOK(l, H)
  <2>1. t \in Streams => StreamOK(k, G)
    BY DEF TaskOK, k
  <2>2. Queried(l) = Queried(k)
    BY <1>1 DEF Queried, KeepsAll
  <2>3. t \in Streams => Queried(l) \intersect (Taken(l) \union H) = {}
    BY <1>5, <2>1, <2>2 DEF StreamOK
  <2>4. t \in Streams => l.wanted \subseteq Queried(l) \union Taken(l) \union H
    BY <1>1, <1>5, <2>1, <2>2 DEF StreamOK, KeepsAll
  <2> QED BY <1>1, <2>1, <2>3, <2>4 DEF StreamOK, KeepsAll
<1>10. l.status = "loading" /\ Held(l) # {} => t \in later \/ AsksFor(n, t)
  <2>1. k.status = "loading" /\ Held(k) # {} => t \in due \/ AsksFor(m, t)
    BY DEF TaskOK, k
  <2>2. AsksFor(m, t) /\ r.kind # "hashes" => AsksFor(n, t)
    BY <1>1 DEF AsksFor, AsksHashes, k, l
  <2> QED BY <1>1, <1>4, <2>1, <2>2 DEF KeepsAll
<1> QED BY <1>5, <1>7, <1>8, <1>9, <1>10 DEF TaskOK, l

Unsent(m, n, t, r) ==
    /\ ToSet(n.task[t].sent) = ToSet(m.task[t].sent) \ {r}
    /\ \A e \in ToSet(n.task[t].sent) : e.offset # r.offset

Releases(G, r, H, t, due, later) ==
    /\ Frees(G, r, H)
    /\ t \in due \/ r.kind = "hashes" => t \in later

LEMMA FinishOK ==
    ASSUME NEW scope, NEW m, NEW x \in Nat, NEW t \in Tasks, NEW G, NEW due,
           Good(scope, m, x, t, G, due), NEW r \in ToSet(m.task[t].sent),
           NEW H, NEW later, Releases(G, r, H, t, due, later),
           NEW n, n = FinishSentRequest(m, t, r)
    PROVE  /\ Good(scope, n, x, t, H, later) /\ Beside(m, n, t) /\ n.posted = m.posted
           /\ Unsent(m, n, t, r)
<1>1. Shape(m) /\ TaskOK(m, t, G, due) /\ Alone(m.task[t].sent)
  BY DEF Good, TaskOK, RequestsOK
<1>2. Finished(m, n, t, r)
  BY <1>1, FinishIs
<1>3. TaskOK(n, t, H, later)
  <2>1. Frees(G, r, H) /\ (t \in due \/ r.kind = "hashes" => t \in later)
    BY DEF Releases
  <2> QED BY ONLY t \in Tasks, r \in ToSet(m.task[t].sent), <1>1, <1>2, <2>1, TaskFewer
<1>4. \A u \in Tasks \ {t} : TaskOK(n, u, {}, {}) /\ KindsOK(n.task[u])
  <2> TAKE u \in Tasks \ {t}
  <2>1. n.task[u] = m.task[u] /\ ToSet(n.posted) = ToSet(m.posted)
    BY <1>2 DEF Beside, Finished
  <2>2. TaskOK(m, u, {}, {}) /\ KindsOK(m.task[u])
    BY DEF Good
  <2> QED BY <2>1, <2>2, TaskKept
<1>5. \A e \in ToSet(n.task[t].sent) : e.offset # r.offset
  <2> TAKE e \in ToSet(n.task[t].sent)
  <2>1. e # r /\ e \in ToSet(m.task[t].sent)
    BY <1>2 DEF Finished
  <2> DEFINE q == m.task[t].sent
  <2>2. Alone(q) /\ e \in ToSet(q) /\ r \in ToSet(q) /\ e # r
    BY <1>1, <2>1
  <2> HIDE DEF q
  <2>3. PICK i, j \in DOMAIN q : e = q[i] /\ r = q[j]
    BY <2>2 DEF ToSet
  <2> QED BY ONLY <2>2, <2>3 DEF Alone
<1>6. ASSUME scope = "all" PROVE BalanceOK(n, x)
  <2>1. BalanceOK(m, x)
    BY <1>6 DEF Good
  <2>2. OneMore(n, m, t, r)
    <3>1. r.offset \in Parts /\ r.offset \notin Offsets(n.task[t])
      BY <1>1, <1>5, ShapeFields DEF Offsets
    <3>2. ToSet(m.task[t].sent) = ToSet(n.task[t].sent) \union {r}
      BY <1>2 DEF Finished
    <3> QED BY <1>2, <3>1, <3>2 DEF OneMore, Beside, Finished
  <2>3. Moved(m, n, r, -1) /\ n.task[t].unchecked = m.task[t].unchecked
    BY <1>2 DEF Finished, Beside, Moved, KeepsAll
  <2>4. n.killing => \/ m.killing
                     \/ \A j \in DOMAIN n.sessions : n.sessions[j].requested <= 0
    BY <1>2 DEF Finished
  <2> QED BY <1>1, <1>2, <2>1, <2>2, <2>3, <2>4, BalanceFewer DEF Finished
<1> QED BY <1>2, <1>3, <1>4, <1>5, <1>6 DEF Good, Finished, Unsent

-----------------------------------------------------------------------------
(* What else changes of a task, and what is posted.                          *)

LEMMA GoodFine ==
    ASSUME NEW scope, NEW m, NEW x \in Nat, NEW t \in Tasks
    PROVE  Good(scope, m, x, t, {}, {}) /\ KindsOK(m.task[t]) <=> Fine(scope, m, x)
<1>1. (\A u \in Tasks \ {t} : TaskOK(m, u, {}, {}) /\ KindsOK(m.task[u])) /\ TaskOK(m, t, {}, {}) /\ KindsOK(m.task[t])
      <=> \A u \in Tasks : TaskOK(m, u, {}, {}) /\ KindsOK(m.task[u])
  OBVIOUS
<1> QED BY <1>1 DEF Good, Fine

\* Hashes are asked for, or are due still.
LEMMA GoodDue ==
    ASSUME NEW scope, NEW m, NEW x, NEW t, NEW G, NEW due, Good(scope, m, x, t, G, due),
           NEW later, t \in due => t \in later \/ AsksFor(m, t)
    PROVE  Good(scope, m, x, t, G, later)
<1>1. TaskOK(m, t, G, later)
  BY DEF Good, TaskOK
<1> QED BY <1>1 DEF Good

\* The same offsets of the same sessions.
Alike(p, q) ==
    /\ {r.offset : r \in ToSet(p)} = {r.offset : r \in ToSet(q)}
    /\ \A o \in Parts, i \in Nat :
          (\E r \in ToSet(p) : r.offset = o /\ r.session = i) <=>
          (\E r \in ToSet(q) : r.offset = o /\ r.session = i)

LEMMA AlikeSame == ASSUME NEW q PROVE Alike(q, q)
  BY DEF Alike

\* The parts held back belong to sessions there are, and a task that has sent
\* something or holds something back is in the queue.
Backed(m, t, k) ==
    /\ \A o \in Held(k) : k.unchecked[o] \in DOMAIN m.sessions
    /\ Taken(k) # {} => Queued(m, t)

LEMMA BalanceKept ==
    ASSUME NEW m, NEW n, NEW x \in Nat, NEW t \in Tasks, NEW k, Shape(m), Shape(n),
           Puts(m, n, t, k), n.broken = m.broken, BalanceOK(m, x),
           Alike(m.task[t].sent, k.sent), Backed(m, t, k)
    PROVE  BalanceOK(n, x)
<1>1. Sent(n) = Sent(m) /\ \A i \in Nat : SentIn(n, i) = SentIn(m, i)
  <2>1. \A u \in Tasks : Offsets(n.task[u]) = Offsets(m.task[u])
    <3> TAKE u \in Tasks
    <3>1. CASE u = t
      BY <3>1 DEF Puts, Alike, Offsets
    <3>2. CASE u # t
      BY <3>2 DEF Puts
    <3> QED BY <3>1, <3>2
  <2>2. \A u \in Tasks : \A o \in Parts : \A i \in Nat :
               (\E r \in ToSet(m.task[u].sent) : r.offset = o /\ r.session = i) <=>
               (\E r \in ToSet(n.task[u].sent) : r.offset = o /\ r.session = i)
    <3> TAKE u \in Tasks
    <3>1. CASE u = t
      BY <3>1 DEF Puts, Alike
    <3>2. CASE u # t
      BY <3>2 DEF Puts
    <3> QED BY <3>1, <3>2
  <2> QED BY <2>1, <2>2, SentAlike
<1>2. DOMAIN n.sessions = DOMAIN m.sessions /\ DOMAIN m.sessions \subseteq Nat
  BY ShapeNumbers DEF Puts
<1>3. InSessions(n)
  <2> SUFFICES ASSUME NEW u \in Tasks
               PROVE  /\ \A e \in ToSet(n.task[u].sent) : e.session \in DOMAIN n.sessions
                      /\ \A o \in Held(n.task[u]) : n.task[u].unchecked[o] \in DOMAIN n.sessions
    BY DEF InSessions
  <2>1. CASE u # t
    BY <1>2, <2>1 DEF BalanceOK, InSessions, Puts
  <2>2. CASE u = t
    <3>1. \A o \in Held(n.task[u]) : n.task[u].unchecked[o] \in DOMAIN n.sessions
      BY <1>2, <2>2 DEF Backed, Puts
    <3>2. ASSUME NEW e \in ToSet(n.task[t].sent) PROVE e.session \in DOMAIN m.sessions
      <4>1. e.offset \in Parts /\ e.session \in Nat
        BY ShapeFields
      <4>2. PICK r \in ToSet(m.task[t].sent) : r.offset = e.offset /\ r.session = e.session
        BY <4>1 DEF Alike, Puts
      <4> QED BY <4>2 DEF BalanceOK, InSessions
    <3> QED BY <1>2, <2>2, <3>1, <3>2
  <2> QED BY <2>1, <2>2
<1>4. Adds(n, x)
  <2>1. \A i \in DOMAIN m.sessions : SentIn(n, i) = SentIn(m, i)
    BY <1>1, <1>2
  <2>2. n.sessions = m.sessions /\ n.balance = m.balance /\ Adds(m, x)
    BY DEF Puts, BalanceOK
  <2> QED BY <1>1, <2>1, <2>2 DEF Adds
<1>5. \A u \in Tasks : Taken(n.task[u]) # {} => Queued(n, u)
  <2>1. \A u \in Tasks : Queued(m, u) <=> Queued(n, u)
    BY DEF Queued, Puts
  <2> QED BY <2>1 DEF Puts, Backed, BalanceOK
<1> QED BY <1>1, <1>3, <1>4, <1>5 DEF BalanceOK, Idle0, Puts

LEMMA PutOK ==
    ASSUME NEW scope, NEW m, NEW n, NEW x \in Nat, NEW t \in Tasks, NEW k, NEW G, NEW due,
           NEW H, NEW later, Shape(n), Puts(m, n, t, k), n.broken = m.broken,
           Good(scope, m, x, t, G, due), TaskOK(n, t, H, later),
           scope = "all" => Alike(m.task[t].sent, k.sent) /\ Backed(m, t, k)
    PROVE  Good(scope, n, x, t, H, later)
<1>1. \A u \in Tasks \ {t} : TaskOK(n, u, {}, {}) /\ KindsOK(n.task[u])
  <2> TAKE u \in Tasks \ {t}
  <2>1. n.task[u] = m.task[u] /\ ToSet(n.posted) = ToSet(m.posted)
    BY DEF Puts
  <2>2. TaskOK(m, u, {}, {}) /\ KindsOK(m.task[u])
    BY DEF Good
  <2> QED BY <2>1, <2>2, TaskKept
<1>2. ASSUME scope = "all" PROVE BalanceOK(n, x)
  <2>1. Shape(m) /\ BalanceOK(m, x)
    BY <1>2 DEF Good
  <2> QED BY <1>2, <2>1, BalanceKept
<1> QED BY <1>1, <1>2 DEF Good

Post(m, c) == [m EXCEPT !.posted = Append(@, c)]

LEMMA PostIs ==
    ASSUME NEW m, Shape(m), NEW c, IsPosted(c), NEW n, n = Post(m, c)
    PROVE  /\ Shape(n) /\ ToSet(n.posted) = ToSet(m.posted) \union {c}
           /\ n.sessions = m.sessions /\ n.balance = m.balance /\ n.queue = m.queue
           /\ n.killing = m.killing /\ n.broken = m.broken /\ n.task = m.task
<1> DEFINE posted == Append(m.posted, c)
<1>1. /\ n.sessions = m.sessions /\ n.balance = m.balance /\ n.queue = m.queue
      /\ n.killing = m.killing /\ n.broken = m.broken /\ n.task = m.task
      /\ n.posted = posted /\ IsManager(n)
  <2>1. IsManager(m)
    BY DEF Shape
  <2>2. n = [m EXCEPT !.posted = posted]
    BY DEF Post
  <2> HIDE DEF posted
  <2> QED BY <2>1, <2>2 DEF IsManager
<1>2. IsSeq(posted) /\ ToSet(posted) = ToSet(m.posted) \union {c}
  <2> DEFINE q == m.posted
  <2>1. IsSeq(q) /\ posted = Append(q, c)
    BY DEF Shape
  <2> HIDE DEF q, posted
  <2>2. IsSeq(posted) /\ ToSet(posted) = ToSet(q) \union {c}
    BY <2>1, AppendIs
  <2> QED BY <2>2 DEF q
<1> HIDE DEF posted
<1>3. Shape(n)
  BY <1>1, <1>2 DEF Shape
<1> QED BY <1>1, <1>2, <1>3

\* What does not change the task changes nothing that is said of it, and of the
\* sessions nothing when they do not change.
LEMMA SentOf ==
    ASSUME NEW m, NEW n, n.task = m.task
    PROVE  Sent(n) = Sent(m) /\ \A i : SentIn(n, i) = SentIn(m, i)
  BY DEF Sent, SentIn

LEMMA BalanceSame ==
    ASSUME NEW m, NEW n, NEW x, BalanceOK(m, x), n.task = m.task, n.sessions = m.sessions,
           n.balance.total = m.balance.total, n.queue = m.queue, n.broken = m.broken,
           n.killing => m.killing
    PROVE  BalanceOK(n, x)
<1>1. Sent(n) = Sent(m) /\ \A i : SentIn(n, i) = SentIn(m, i)
  BY SentOf
<1>2. InSessions(n) /\ Idle0(n) /\ Sorted(n.queue) /\ ~n.broken
  BY <1>1 DEF BalanceOK, InSessions, Idle0
<1>3. Adds(n, x)
  BY <1>1 DEF BalanceOK, Adds
<1>4. \A u \in Tasks : Taken(n.task[u]) # {} => Queued(n, u)
  BY DEF BalanceOK, Queued
<1> QED BY <1>2, <1>3, <1>4 DEF BalanceOK

Posted(m, n, c) == ToSet(n.posted) = ToSet(m.posted) \union {c}

LEMMA PostOK ==
    ASSUME NEW scope, NEW m, NEW x \in Nat, NEW t \in Tasks, NEW G, NEW due,
           Good(scope, m, x, t, G, due), NEW c, IsPosted(c),
           NEW n, n = Post(m, c)
    PROVE  Good(scope, n, x, t, G, due) /\ Posted(m, n, c) /\ Beside(m, n, t) /\ n.task = m.task
<1>1. Shape(m)
  BY DEF Good
<1>2. /\ Shape(n) /\ ToSet(n.posted) = ToSet(m.posted) \union {c}
      /\ n.sessions = m.sessions /\ n.balance = m.balance /\ n.queue = m.queue
      /\ n.killing = m.killing /\ n.broken = m.broken /\ n.task = m.task
  BY <1>1, PostIs
<1>3. \A u \in Tasks \ {t} : TaskOK(n, u, {}, {}) /\ KindsOK(n.task[u])
  BY <1>2, TaskKept DEF Good
<1>4. TaskOK(n, t, G, due)
  BY <1>2, TaskKept DEF Good
<1>5. ASSUME scope = "all" PROVE BalanceOK(n, x)
  <2>1. BalanceOK(m, x)
    BY <1>5 DEF Good
  <2> QED BY <1>2, <2>1, BalanceSame
<1>6. Beside(m, n, t)
  BY <1>2 DEF Beside, KeepsAll
<1> QED BY <1>2, <1>3, <1>4, <1>5, <1>6 DEF Good, Posted

Cancels(scope, m, x, t, G, due, r, H, n) ==
    /\ Good(scope, m, x, t, G, due) /\ r \in ToSet(m.task[t].sent)
    /\ Frees(G, r, H) /\ n = CancelRequest(m, t, r)

LEMMA CancelRequestOK ==
    ASSUME NEW scope, NEW m, NEW x \in Nat, NEW t \in Tasks, NEW G, NEW due, NEW r,
           NEW H, NEW n, Cancels(scope, m, x, t, G, due, r, H, n)
    PROVE  /\ Good(scope, n, x, t, H, due) /\ Beside(m, n, t)
           /\ Unsent(m, n, t, r)
<1>0. /\ Good(scope, m, x, t, G, due) /\ r \in ToSet(m.task[t].sent)
      /\ Frees(G, r, H) /\ n = CancelRequest(m, t, r)
  BY DEF Cancels
<1> DEFINE d == FinishSentRequest(m, t, r)
           later == due \union (IF r.kind = "hashes" THEN {t} ELSE {})
<1>1. Releases(G, r, H, t, due, later)
  BY <1>0 DEF Releases
<1>2. /\ Good(scope, d, x, t, H, later) /\ Beside(m, d, t) /\ d.posted = m.posted
      /\ Unsent(m, d, t, r)
  <2> HIDE DEF later, d
  <2>1. d = FinishSentRequest(m, t, r)
    BY DEF d
  <2> QED BY <1>0, <1>1, <2>1, FinishOK
<1>3. n = IF r.kind = "hashes" /\ DOMAIN m.task[t].unchecked # {}
          THEN [d EXCEPT !.posted = Append(@, HashesCall(t))] ELSE d
  BY <1>0 DEF CancelRequest
<1>4. r.kind = "hashes" => DOMAIN m.task[t].unchecked # {}
  BY <1>0 DEF Good, TaskOK, RequestsOK, Held
<1>5. CASE r.kind # "hashes"
  <2>1. n = d /\ later = due
    BY <1>3, <1>5
  <2> HIDE DEF d, later
  <2> QED BY <1>2, <2>1
<1>6. CASE r.kind = "hashes"
  <2>1. n = Post(d, HashesCall(t)) /\ IsPosted(HashesCall(t))
    BY <1>3, <1>4, <1>6 DEF IsPosted, HashesCall, Post
  <2> HIDE DEF d, later
  <2>2. /\ Good(scope, n, x, t, H, later) /\ Posted(d, n, HashesCall(t))
        /\ Beside(d, n, t) /\ n.task = d.task
    BY ONLY x \in Nat, t \in Tasks, <1>2, <2>1, PostOK
  <2>3. AsksFor(n, t)
    BY <2>2 DEF AsksFor, Posted
  <2>4. Good(scope, n, x, t, H, due)
    BY <2>2, <2>3, GoodDue
  <2>5. Beside(m, n, t)
    BY <1>2, <2>2, BesideTwice
  <2> QED BY <1>2, <2>2, <2>4, <2>5 DEF Unsent
<1> QED BY <1>5, <1>6

\* Nothing that was sent is finished, and nothing is asked for when nothing is held.
AsksMore(m, n, t) ==
    /\ ToSet(m.task[t].sent) \subseteq ToSet(n.task[t].sent)
    /\ Held(m.task[t]) = {} => n = m

LEMMA RequestMoreHashesOK ==
    ASSUME NEW scope, NEW m, NEW x \in Nat, NEW t \in Tasks, NEW G, NEW due,
           Good(scope, m, x, t, G, due), KindsOK(m.task[t]),
           NEW n, n = RequestMoreHashes(m, t)
    PROVE  /\ Good(scope, n, x, t, G, {}) /\ KindsOK(n.task[t]) /\ Beside(m, n, t)
           /\ AsksMore(m, n, t)
<1> DEFINE unchecked == m.task[t].unchecked
           offset == Min(DOMAIN unchecked)
           i == unchecked[offset]
<1>1. CASE AsksHashes(m.task[t]) \/ DOMAIN unchecked = {}
  <2>1. n = m
    BY <1>1 DEF RequestMoreHashes
  <2>2. TaskOK(m, t, G, {})
    BY <1>1 DEF Good, TaskOK, Held, AsksFor
  <2> QED BY <2>1, <2>2, BesideSame DEF Good, AsksMore
<1>2. CASE ~AsksHashes(m.task[t]) /\ DOMAIN unchecked # {}
  <2>1. n = PlaceSentRequest(m, t, "hashes", offset, i)
    BY <1>2 DEF RequestMoreHashes
  <2>2. offset \in Held(m.task[t]) /\ offset \in Parts /\ i \in Nat
    <3>1. Shape(m) /\ TaskShape(m.task[t]) /\ Held(m.task[t]) = DOMAIN unchecked
      BY ShapeFields DEF Good, Held
    <3>2. DOMAIN unchecked \subseteq Nat /\ DOMAIN unchecked # {} /\ DOMAIN unchecked \subseteq Parts
      BY <1>2, <3>1, Constants DEF TaskShape
    <3>3. offset \in DOMAIN unchecked
      BY <3>2, MinIn
    <3> QED BY <3>1, <3>2, <3>3 DEF TaskShape
  <2>3. scope = "all" => i \in DOMAIN m.sessions /\ Queued(m, t)
    BY <2>2 DEF Good, BalanceOK, InSessions, Taken
  <2>4. Called(m, t, G, "hashes", offset)
    BY <1>2, <2>2 DEF Called
  <2>5. G \ {offset} = G
    BY <2>2 DEF Good, TaskOK, Taken
  <2> DEFINE kind == "hashes"
             later == {}
  <2>6. kind = "hashes"
    OBVIOUS
  <2> HIDE DEF offset, i, unchecked, kind, later
  <2>7. Good(scope, n, x, t, G, later) /\ Beside(m, n, t) /\ Made(m, n, t, kind, offset, i)
    <3>1. MayPlace(scope, m, t, G, due, kind, offset, i, G, later)
      BY <2>2, <2>3, <2>4, <2>5, <2>6 DEF MayPlace, kind
    <3>2. n = PlaceSentRequest(m, t, kind, offset, i)
      BY <2>1 DEF kind
    <3>3. Good(scope, m, x, t, G, due)
      OBVIOUS
    <3> QED BY ONLY x \in Nat, t \in Tasks, <3>1, <3>2, <3>3, PlaceOK
  <2>8. KindsOK(n.task[t])
    <3>1. m.task[t].cdn
      BY <2>2 DEF KindsOK
    <3> QED BY <2>7, <3>1 DEF KindsOK, Beside, KeepsAll
  <2>9. AsksMore(m, n, t)
    BY <2>2, <2>7 DEF Made, AsksMore
  <2> QED BY <2>7, <2>8, <2>9 DEF later
<1> QED BY <1>1, <1>2

\* What is left of a loop over the requests of a task.
Rest(q, k) == {q[i] : i \in k + 1 .. Len(q)}

LEMMA RestIs ==
    ASSUME NEW q, IsSeq(q), Alone(q)
    PROVE  /\ Rest(q, 0) = ToSet(q) /\ Rest(q, Len(q)) = {}
           /\ \A k \in 1 .. Len(q) : /\ q[k] \in Rest(q, k - 1) /\ q[k] \in ToSet(q)
                                     /\ Rest(q, k) = Rest(q, k - 1) \ {q[k]}
           /\ \A k \in 0 .. Len(q) : Rest(q, k) \subseteq ToSet(q)
<1>1. DOMAIN q = 1 .. Len(q) /\ Len(q) \in Nat
  BY SeqLen
<1>2. Rest(q, 0) = ToSet(q)
  <2>1. 0 + 1 .. Len(q) = 1 .. Len(q)
    BY <1>1
  <2> QED BY <1>1, <2>1 DEF Rest, ToSet
<1>3. Rest(q, Len(q)) = {}
  <2>1. Len(q) + 1 .. Len(q) = {}
    BY <1>1
  <2> QED BY <2>1 DEF Rest
<1>4. ASSUME NEW k \in 1 .. Len(q)
      PROVE  /\ q[k] \in Rest(q, k - 1) /\ q[k] \in ToSet(q)
             /\ Rest(q, k) = Rest(q, k - 1) \ {q[k]}
  <2>1. k - 1 + 1 .. Len(q) = (k + 1 .. Len(q)) \union {k} /\ k \notin k + 1 .. Len(q)
    BY <1>1
  <2>2. \A i \in k + 1 .. Len(q) : i \in 1 .. Len(q)
    BY <1>1
  <2>3. \A i \in k + 1 .. Len(q) : q[i] # q[k]
    BY <1>1, <2>1, <2>2 DEF Alone
  <2>4. Rest(q, k - 1) = Rest(q, k) \union {q[k]}
    BY <2>1 DEF Rest
  <2>5. q[k] \notin Rest(q, k)
    BY <2>3 DEF Rest
  <2> QED BY <1>1, <2>4, <2>5 DEF ToSet
<1>5. ASSUME NEW k \in 0 .. Len(q) PROVE Rest(q, k) \subseteq ToSet(q)
  <2>1. \A i \in k + 1 .. Len(q) : i \in 1 .. Len(q)
    BY <1>1
  <2> QED BY <1>1, <2>1 DEF Rest, ToSet
<1> QED BY <1>2, <1>3, <1>4, <1>5

-----------------------------------------------------------------------------
(* Requests cancelled.                                                       *)

\* d is m, but of what t had sent only left is sent still.
Cancelling(scope, m, x, t, due, d, H, left) ==
    Good(scope, d, x, t, H, due) /\ Beside(m, d, t) /\ ToSet(d.task[t].sent) = left

LEMMA CancelAllOK ==
    ASSUME NEW scope, NEW m, NEW x \in Nat, NEW t \in Tasks, NEW G, NEW due,
           Good(scope, m, x, t, G, due), NEW n, n = CancelAllRequests(m, t)
    PROVE  \E c, H : /\ Cancelling(scope, m, x, t, due, c, H, {})
                     /\ n = DropsAll(c, t)
<1> DEFINE q == m.task[t].sent
           a == <<t>>
           kind == "cancel"
<1>1. IsSeq(q) /\ Alone(q) /\ Len(q) \in Nat /\ DOMAIN q = 1 .. Len(q)
  <2>1. IsSeq(q) /\ Alone(q)
    BY ShapeFields DEF Good, TaskOK, RequestsOK
  <2> QED BY <2>1, SeqLen
<1>2. PICK g, c : Goes(g, kind, a, q, m, c) /\ n = DropsAll(c, t)
  BY <1>1, CancelGoes
<1>3. a[1] = t /\ kind = "cancel"
  OBVIOUS
<1> HIDE DEF q, a, kind
<1> DEFINE P == {k \in 0 .. Len(q) : \E H : Cancelling(scope, m, x, t, due, g[k], H, Rest(q, k))}
<1>4. 0 \in P
  <2>1. g[0] = m /\ Rest(q, 0) = ToSet(q)
    BY <1>1, <1>2, RestIs DEF Goes
  <2>2. Cancelling(scope, m, x, t, due, g[0], G, Rest(q, 0))
    BY <2>1, BesideSame DEF Cancelling, q
  <2> QED BY <1>1, <2>2
<1>5. ASSUME NEW k \in 1 .. Len(q), k - 1 \in P PROVE k \in P
  <2> DEFINE d == g[k - 1]
             e == g[k]
             r == q[k]
  <2>1. PICK H : Cancelling(scope, m, x, t, due, d, H, Rest(q, k - 1))
    BY <1>5
  <2>2. e = CancelRequest(d, t, r)
    BY <1>2, <1>3 DEF Goes, Each
  <2>3. r \in Rest(q, k - 1) /\ Rest(q, k) = Rest(q, k - 1) \ {r}
    BY <1>1, RestIs
  <2> HIDE DEF d, e, r
  <2> DEFINE I == IF r.kind = "hashes" THEN H ELSE H \union {r.offset}
  <2>4. Frees(H, r, I)
    BY DEF Frees
  <2> HIDE DEF I
  <2>5. Good(scope, e, x, t, I, due) /\ Beside(d, e, t) /\ Unsent(d, e, t, r)
    <3>1. Cancels(scope, d, x, t, H, due, r, I, e)
      BY <2>1, <2>2, <2>3, <2>4 DEF Cancelling, Cancels
    <3> QED BY ONLY x \in Nat, t \in Tasks, <3>1, CancelRequestOK
  <2>6. Cancelling(scope, m, x, t, due, e, I, Rest(q, k))
    BY <2>1, <2>3, <2>5, BesideTwice DEF Cancelling, Unsent
  <2> QED BY <1>1, <2>6 DEF e
<1>6. Len(q) \in P
  <2> HIDE DEF P
  <2> QED BY <1>1, <1>4, <1>5, ByNumber
<1>7. Rest(q, Len(q)) = {} /\ g[Len(q)] = c
  BY <1>1, <1>2, RestIs DEF Goes
<1>8. PICK H : Cancelling(scope, m, x, t, due, c, H, {})
  BY <1>6, <1>7
<1> QED BY <1>2, <1>8

Left(q, offset, k) == {r \in ToSet(q) : r.offset # offset \/ r \in Rest(q, k)}

\* c is m, but the part is sent no more.
CancelsOne(scope, m, x, t, offset, c, H) ==
    /\ H \subseteq {offset}
    /\ Cancelling(scope, m, x, t, {}, c, H, {r \in ToSet(m.task[t].sent) : r.offset # offset})

LEMMA CancelSomeOK ==
    ASSUME NEW scope, NEW m, NEW x \in Nat, NEW t \in Tasks, NEW offset,
           Fine(scope, m, x), NEW n, n = CancelRequestForOffset(m, t, offset)
    PROVE  \E c, H : CancelsOne(scope, m, x, t, offset, c, H) /\ n = DropsOne(c, t, offset)
<1>0. Good(scope, m, x, t, {}, {})
  BY DEF Fine, Good
<1> DEFINE q == m.task[t].sent
           a == <<t, offset>>
           kind == "cancelAt"
<1>1. IsSeq(q) /\ Alone(q) /\ Len(q) \in Nat /\ DOMAIN q = 1 .. Len(q)
  <2>1. IsSeq(q) /\ Alone(q)
    BY <1>0, ShapeFields DEF Good, TaskOK, RequestsOK
  <2> QED BY <2>1, SeqLen
<1>2. PICK g, c : /\ Goes(g, kind, a, q, m, c)
                  /\ n = DropsOne(c, t, offset)
  BY <1>1, CancelAtGoes
<1>3. a[1] = t /\ a[2] = offset /\ kind = "cancelAt"
  OBVIOUS
<1> HIDE DEF q, a, kind
<1> DEFINE P == {k \in 0 .. Len(q) :
                    \E H : H \subseteq {offset} /\ Cancelling(scope, m, x, t, {}, g[k], H, Left(q, offset, k))}
<1>4. 0 \in P
  <2>1. g[0] = m /\ Rest(q, 0) = ToSet(q)
    BY <1>1, <1>2, RestIs DEF Goes
  <2>2. Cancelling(scope, m, x, t, {}, g[0], {}, Left(q, offset, 0))
    BY <1>0, <2>1, BesideSame DEF Cancelling, q, Left
  <2> QED BY <1>1, <2>2
<1>5. ASSUME NEW k \in 1 .. Len(q), k - 1 \in P PROVE k \in P
  <2> DEFINE d == g[k - 1]
             e == g[k]
             r == q[k]
  <2>1. PICK H : H \subseteq {offset} /\ Cancelling(scope, m, x, t, {}, d, H, Left(q, offset, k - 1))
    BY <1>5
  <2>2. e = (IF r.offset = offset THEN CancelRequest(d, t, r) ELSE d)
    BY <1>2, <1>3 DEF Goes, Each
  <2>3. r \in Rest(q, k - 1) /\ Rest(q, k) = Rest(q, k - 1) \ {r} /\ r \in ToSet(q)
    BY <1>1, RestIs
  <2> HIDE DEF d, e, r
  <2>4. CASE r.offset # offset
    <3>1. e = d /\ Left(q, offset, k) = Left(q, offset, k - 1)
      BY <2>2, <2>3, <2>4 DEF Left
    <3> QED BY <1>1, <2>1, <3>1 DEF e
  <2>5. CASE r.offset = offset
    <3> DEFINE I == IF r.kind = "hashes" THEN H ELSE H \union {r.offset}
    <3>1. Frees(H, r, I) /\ I \subseteq {offset}
      BY <2>1, <2>5 DEF Frees
    <3>2. Left(q, offset, k) = Left(q, offset, k - 1) \ {r} /\ r \in Left(q, offset, k - 1)
      BY <2>3, <2>5 DEF Left
    <3> HIDE DEF I
    <3>3. Good(scope, e, x, t, I, {}) /\ Beside(d, e, t) /\ Unsent(d, e, t, r)
      <4> DEFINE due == {}
      <4>1. Cancels(scope, d, x, t, H, due, r, I, e)
        BY <2>1, <2>2, <2>5, <3>1, <3>2 DEF Cancelling, Cancels
      <4> HIDE DEF due
      <4>2. Good(scope, e, x, t, I, due) /\ Beside(d, e, t) /\ Unsent(d, e, t, r)
        BY ONLY x \in Nat, t \in Tasks, <4>1, CancelRequestOK
      <4> QED BY <4>2 DEF due
    <3>4. Cancelling(scope, m, x, t, {}, e, I, Left(q, offset, k))
      BY <2>1, <3>2, <3>3, BesideTwice DEF Cancelling, Unsent
    <3> QED BY <1>1, <3>1, <3>4 DEF e
  <2> QED BY <2>4, <2>5
<1>6. Len(q) \in P
  <2> HIDE DEF P
  <2> QED BY <1>1, <1>4, <1>5, ByNumber
<1>7. Left(q, offset, Len(q)) = {r \in ToSet(q) : r.offset # offset} /\ g[Len(q)] = c
  BY <1>1, <1>2, RestIs DEF Goes, Left
<1>8. PICK H : H \subseteq {offset} /\ Cancelling(scope, m, x, t, {}, c, H, {r \in ToSet(q) : r.offset # offset})
  BY <1>6, <1>7
<1>9. CancelsOne(scope, m, x, t, offset, c, H)
  BY <1>8 DEF q, CancelsOne
<1> QED BY <1>2, <1>9

-----------------------------------------------------------------------------
(* The queue.                                                                *)

InQueue(q, u) == \E i \in DOMAIN q : q[i].task = u

\* p is q, in order if it was, with t or without it.
Reordered(q, p, t) ==
    /\ p \in Seq(EntryType) /\ (Sorted(q) => Sorted(p))
    /\ \A u \in Tasks \ {t} : InQueue(q, u) => InQueue(p, u)

\* A task is in the queue once, and a file waits behind what is of the newest
\* generation or in it.
Neat(q) ==
    /\ \A i, j \in DOMAIN q : q[i].task = q[j].task => i = j
    /\ \A i \in DOMAIN q : q[i].task \in Files => q[i].priority <= 0

LEMMA EntriesAre ==
    ASSUME NEW q \in Seq(EntryType)
    PROVE  /\ DOMAIN q = 1 .. Len(q) /\ Len(q) \in Nat
           /\ \A i \in DOMAIN q : q[i] \in EntryType /\ q[i].task \in Tasks /\ q[i].priority \in Int
<1>1. DOMAIN q = 1 .. Len(q) /\ Len(q) \in Nat
  OBVIOUS
<1>2. \A i \in DOMAIN q : q[i] \in EntryType
  BY <1>1
<1> QED BY <1>1, <1>2 DEF EntryType

LEMMA WithoutTaskIs ==
    ASSUME NEW q \in Seq(EntryType), NEW t \in Tasks, NEW p, p = WithoutTask(q, t)
    PROVE  /\ Reordered(q, p, t)
           /\ \A u : InQueue(p, u) => InQueue(q, u)
           /\ Neat(q) => Neat(p) /\ ~InQueue(p, t)
<1>0. DOMAIN q = 1 .. Len(q) /\ Len(q) \in Nat
  BY EntriesAre
<1> DEFINE at == {k \in 1 .. Len(q) : q[k].task = t}
           i == Min(at)
<1>1. CASE at = {}
  <2>1. p = q
    BY <1>1 DEF WithoutTask, RemoveFirstMatch
  <2>2. ~InQueue(q, t)
    BY <1>0, <1>1 DEF InQueue
  <2> QED BY <2>1, <2>2 DEF Reordered
<1>2. CASE at # {}
  <2>1. p = RemoveAt(q, i)
    BY <1>2 DEF WithoutTask, RemoveFirstMatch, SelectInSeq
  <2>2. at \subseteq Nat
    BY <1>0
  <2>3. i \in 1 .. Len(q) /\ q[i].task = t
    <3>1. i \in at
      <4> HIDE DEF at
      <4> QED BY <1>2, <2>2, MinIn
    <3> QED BY <3>1
  <2> HIDE DEF i, at
  <2>4. /\ p \in Seq(EntryType) /\ Len(p) = Len(q) - 1
        /\ \A j \in 1 .. Len(p) : p[j] = IF j < i THEN q[j] ELSE q[j + 1]
    BY SMTT(30), <2>1, <2>3, RemoveAtIs
  <2>5. DOMAIN p = 1 .. Len(q) - 1
    BY <2>4, EntriesAre
  <2> DEFINE From(j) == IF j < i THEN j ELSE j + 1
  <2>6. ASSUME NEW j \in DOMAIN p PROVE From(j) \in DOMAIN q /\ p[j] = q[From(j)]
    BY <1>0, <2>3, <2>4, <2>5
  <2>7. ASSUME NEW j \in DOMAIN p, NEW k \in DOMAIN p, j < k PROVE From(j) < From(k)
    BY <1>0, <2>3, <2>5, <2>7
  <2>8. ASSUME Sorted(q) PROVE Sorted(p)
    <3> HIDE DEF From
    <3> QED BY <2>6, <2>7, <2>8 DEF Sorted
  <2>9. ASSUME NEW u \in Tasks \ {t}, InQueue(q, u) PROVE InQueue(p, u)
    <3>1. PICK j \in 1 .. Len(q) : q[j].task = u
      BY <1>0, <2>9 DEF InQueue
    <3>2. j # i
      BY <2>3, <3>1
    <3>3. CASE j < i
      <4>1. j \in 1 .. Len(q) - 1 /\ p[j] = q[j]
        BY <1>0, <2>3, <2>4, <3>3
      <4> QED BY <2>5, <3>1, <4>1 DEF InQueue
    <3>4. CASE i < j
      <4>1. j - 1 \in 1 .. Len(q) - 1 /\ ~(j - 1 < i) /\ j - 1 + 1 = j
        BY <1>0, <2>3, <3>4
      <4>2. p[j - 1] = q[j]
        BY <2>4, <4>1
      <4> QED BY <2>5, <3>1, <4>1, <4>2 DEF InQueue
    <3> QED BY <1>0, <2>3, <3>2, <3>3, <3>4
  <2>10. ASSUME NEW u, InQueue(p, u) PROVE InQueue(q, u)
    <3> HIDE DEF From
    <3> QED BY <2>6, <2>10 DEF InQueue
  <2>11. ASSUME Neat(q) PROVE Neat(p)
    <3>1. ASSUME NEW j \in DOMAIN p, NEW k \in DOMAIN p, p[j].task = p[k].task PROVE j = k
      <4>1. From(j) = From(k)
        <5> HIDE DEF From
        <5> QED BY <2>6, <2>11, <3>1 DEF Neat
      <4> QED BY <1>0, <2>3, <2>5, <4>1
    <3>2. ASSUME NEW j \in DOMAIN p, p[j].task \in Files PROVE p[j].priority <= 0
      <4> HIDE DEF From
      <4> QED BY <2>6, <2>11, <3>2 DEF Neat
    <3> QED BY <3>1, <3>2 DEF Neat
  <2>12. ASSUME Neat(q), InQueue(p, t) PROVE FALSE
    <3>1. PICK j \in DOMAIN p : p[j].task = t
      BY <2>12 DEF InQueue
    <3>2. From(j) \in DOMAIN q /\ q[From(j)].task = t
      BY <2>6, <3>1
    <3>3. From(j) = i
      <4> HIDE DEF From
      <4> QED BY <1>0, <2>3, <2>12, <3>2 DEF Neat
    <3> QED BY <1>0, <2>3, <2>5, <3>3
  <2> QED BY <2>4, <2>8, <2>9, <2>10, <2>11, <2>12 DEF Reordered
<1> QED BY <1>1, <1>2

\* A sequence with e put at i.
LEMMA InsertAtIs ==
    ASSUME NEW S, NEW q \in Seq(S), NEW e \in S, NEW i \in 1 .. Len(q) + 1,
           NEW p, p = InsertAt(q, i, e)
    PROVE  /\ p \in Seq(S) /\ Len(p) = Len(q) + 1
           /\ \A j \in 1 .. Len(p) : p[j] = IF j < i THEN q[j] ELSE IF j = i THEN e ELSE q[j - 1]
<1>0. Len(q) \in Nat /\ i \in Nat /\ i > 0 /\ i <= Len(q) + 1
  OBVIOUS
<1> DEFINE a == SubSeq(q, 1, i - 1)
           b == SubSeq(q, i, Len(q))
           c == a \o <<e>>
<1>1. p = c \o b
  BY DEF InsertAt
<1>2. a \in Seq(S) /\ Len(a) = i - 1 /\ \A j \in 1 .. i - 1 : a[j] = q[j]
  BY <1>0
<1>3. b \in Seq(S) /\ Len(b) = Len(q) - i + 1 /\ \A j \in 1 .. Len(q) - i + 1 : b[j] = q[i + j - 1]
  <2>1. b \in Seq(S)
    BY <1>0
  <2>2. Len(b) = Len(q) - i + 1
    BY <1>0
  <2>3. ASSUME NEW j \in 1 .. Len(q) - i + 1 PROVE b[j] = q[i + j - 1]
    BY <1>0
  <2> QED BY <2>1, <2>2, <2>3
<1> HIDE DEF a, b
<1>4. c = Append(a, e)
  BY <1>2, AppendIsConcat
<1>5. c \in Seq(S) /\ Len(c) = i /\ (\A j \in 1 .. i - 1 : c[j] = q[j]) /\ c[i] = e
  <2> HIDE DEF c
  <2>1. c \in Seq(S) /\ Len(c) = Len(a) + 1 /\ (\A j \in 1 .. Len(a) : c[j] = a[j]) /\ c[Len(a) + 1] = e
    BY <1>2, <1>4
  <2> QED BY <1>0, <1>2, <2>1
<1> HIDE DEF c
<1>6. p \in Seq(S) /\ Len(p) = Len(q) + 1
  BY <1>0, <1>1, <1>3, <1>5
<1>7. ASSUME NEW j \in 1 .. Len(p)
      PROVE  p[j] = IF j < i THEN q[j] ELSE IF j = i THEN e ELSE q[j - 1]
  <2>1. CASE j <= i
    <3>1. p[j] = c[j]
      BY <1>0, <1>1, <1>3, <1>5, <1>6, <2>1
    <3> QED BY <1>0, <1>5, <2>1, <3>1
  <2>2. CASE j > i
    <3>1. p[j] = b[j - i]
      BY SMTT(30), <1>0, <1>1, <1>3, <1>5, <1>6, <2>2
    <3>2. j - i \in 1 .. Len(q) - i + 1 /\ i + (j - i) - 1 = j - 1
      BY <1>0, <1>6, <2>2
    <3> QED BY <1>0, <1>3, <2>2, <3>1, <3>2
  <2> QED BY <1>0, <2>1, <2>2
<1> QED BY <1>6, <1>7

\* In a queue in order what is above a priority comes first.
LEMMA AboveIs ==
    ASSUME NEW q \in Seq(EntryType), NEW priority \in Int, NEW above,
           above = Cardinality({i \in DOMAIN q : q[i].priority > priority})
    PROVE  /\ above \in 0 .. Len(q)
           /\ Sorted(q) => /\ \A i \in DOMAIN q : i <= above => q[i].priority > priority
                           /\ \A i \in DOMAIN q : i > above => q[i].priority <= priority
<1>0. DOMAIN q = 1 .. Len(q) /\ Len(q) \in Nat /\ \A i \in DOMAIN q : q[i].priority \in Int
  BY EntriesAre
<1> DEFINE A == {i \in DOMAIN q : q[i].priority > priority}
<1>1. above \in 0 .. Len(q)
  <2>1. IsFiniteSet(1 .. Len(q)) /\ Cardinality(1 .. Len(q)) = Len(q)
    <3>1. 1 \in Int /\ Len(q) \in Int /\ (IF 1 > Len(q) THEN 0 ELSE Len(q) - 1 + 1) = Len(q)
      BY <1>0
    <3>2. IsFiniteSet(1 .. Len(q)) /\ Cardinality(1 .. Len(q)) = IF 1 > Len(q) THEN 0 ELSE Len(q) - 1 + 1
      BY <1>0, FS_Interval
    <3> QED BY <3>1, <3>2
  <2>2. A \subseteq 1 .. Len(q)
    BY <1>0
  <2>3. IsFiniteSet(A) /\ Cardinality(A) <= Cardinality(1 .. Len(q))
    BY <2>1, <2>2, FS_Subset
  <2>4. Cardinality(A) \in Nat
    BY <2>3, FS_CardinalityType
  <2> QED BY <1>0, <2>1, <2>3, <2>4
<1>2. ASSUME Sorted(q)
      PROVE  /\ \A i \in DOMAIN q : i <= above => q[i].priority > priority
             /\ \A i \in DOMAIN q : i > above => q[i].priority <= priority
  <2> DEFINE B == DOMAIN q \ A
  <2>1. \E k \in 0 .. Len(q) : A = 1 .. k
    <3>1. CASE B = {}
      BY <1>0, <3>1
    <3>2. CASE B # {}
      <4>1. B \subseteq Nat
        BY <1>0
      <4>2. PICK l \in B : \A i \in B : l <= i
        BY <3>2, <4>1, LeastNat
      <4>3. l \in 1 .. Len(q) /\ q[l].priority <= priority
        BY <1>0, <4>2
      <4>4. ASSUME NEW i \in 1 .. Len(q) PROVE i \in A <=> i < l
        <5>1. i < l => i \in A
          BY <1>0, <4>2, <4>3
        <5>2. ASSUME i >= l PROVE i \notin A
          <6>1. q[l].priority >= q[i].priority
            BY <1>0, <1>2, <4>3, <5>2 DEF Sorted
          <6> QED BY <1>0, <4>3, <6>1
        <5> QED BY <4>3, <5>1, <5>2
      <4>5. A = 1 .. l - 1
        <5>1. A \subseteq 1 .. Len(q)
          BY <1>0
        <5> HIDE DEF A
        <5>2. ASSUME NEW i \in A PROVE i \in 1 .. l - 1
          BY <1>0, <4>3, <4>4, <5>1
        <5>3. ASSUME NEW i \in 1 .. l - 1 PROVE i \in A
          <6>1. i \in 1 .. Len(q) /\ i < l
            BY <1>0, <4>3
          <6> QED BY <4>4, <6>1
        <5> QED BY <5>2, <5>3
      <4> QED BY <1>0, <4>3, <4>5
    <3> QED BY <3>1, <3>2
  <2>2. PICK k \in 0 .. Len(q) : A = 1 .. k
    BY <2>1
  <2>3. above = k
    <3>1. 1 \in Int /\ k \in Int /\ (IF 1 > k THEN 0 ELSE k - 1 + 1) = k
      BY <1>0
    <3>2. Cardinality(1 .. k) = IF 1 > k THEN 0 ELSE k - 1 + 1
      BY <3>1, FS_Interval
    <3> QED BY <2>2, <3>1, <3>2
  <2>4. ASSUME NEW i \in DOMAIN q PROVE i \in A <=> i <= above
    <3> HIDE DEF A
    <3> QED BY <1>0, <2>2, <2>3
  <2>5. ASSUME NEW i \in DOMAIN q
        PROVE  (i <= above => q[i].priority > priority) /\ (i > above => q[i].priority <= priority)
    <3>1. i \in Nat /\ above \in Nat /\ q[i].priority \in Int
      BY <1>0, <1>1
    <3>2. q[i].priority > priority <=> i <= above
      BY <2>4
    <3> QED BY <3>1, <3>2
  <2> QED BY <2>5
<1> QED BY <1>1, <1>2

LEMMA QueueEnqueueIs ==
    ASSUME NEW q \in Seq(EntryType), NEW t \in Tasks, NEW priority \in Int,
           NEW p, p = QueueEnqueue(q, t, priority)
    PROVE  /\ Reordered(q, p, t) /\ InQueue(p, t)
           /\ \A u : InQueue(p, u) => u = t \/ InQueue(q, u)
           /\ Neat(q) /\ (t \in Files => priority <= 0) => Neat(p)
<1> DEFINE others == WithoutTask(q, t)
           above == Cardinality({i \in DOMAIN others : others[i].priority > priority})
           e == [task |-> t, priority |-> priority]
           at == above + 1
<1>1. p = InsertAt(others, at, e)
  BY DEF QueueEnqueue
<1>2. /\ Reordered(q, others, t)
      /\ \A u : InQueue(others, u) => InQueue(q, u)
      /\ Neat(q) => Neat(others) /\ ~InQueue(others, t)
  <2> HIDE DEF others
  <2>1. others = WithoutTask(q, t)
    BY DEF others
  <2> QED BY <2>1, WithoutTaskIs
<1>3. e \in EntryType /\ e.task = t /\ e.priority = priority
  BY DEF EntryType
<1>4. others \in Seq(EntryType)
  BY <1>2 DEF Reordered
<1> HIDE DEF others, e
<1>5. DOMAIN others = 1 .. Len(others) /\ Len(others) \in Nat
      /\ \A i \in DOMAIN others : others[i].priority \in Int
  BY <1>4, EntriesAre
<1>6. /\ above \in 0 .. Len(others)
      /\ Sorted(others) => /\ \A i \in DOMAIN others : i <= above => others[i].priority > priority
                           /\ \A i \in DOMAIN others : i > above => others[i].priority <= priority
  <2> HIDE DEF above
  <2>1. above = Cardinality({i \in DOMAIN others : others[i].priority > priority})
    BY DEF above
  <2> QED BY <1>4, <2>1, AboveIs
<1> HIDE DEF above
<1>7. at \in 1 .. Len(others) + 1 /\ at = above + 1
  BY <1>5, <1>6
<1> HIDE DEF at
<1>8. /\ p \in Seq(EntryType) /\ Len(p) = Len(others) + 1
      /\ \A j \in 1 .. Len(p) : p[j] = IF j < at THEN others[j]
                                       ELSE IF j = at THEN e ELSE others[j - 1]
  BY <1>1, <1>3, <1>4, <1>7, InsertAtIs
<1>9. DOMAIN p = 1 .. Len(others) + 1
  BY <1>8, EntriesAre
<1>10. InQueue(p, t)
  BY <1>3, <1>7, <1>8, <1>9 DEF InQueue
<1>11. ASSUME NEW u \in Tasks \ {t}, InQueue(q, u) PROVE InQueue(p, u)
  <2>1. PICK j \in 1 .. Len(others) : others[j].task = u
    BY <1>2, <1>5, <1>11 DEF Reordered, InQueue
  <2>2. CASE j < at
    <3>1. j \in 1 .. Len(others) + 1 /\ p[j] = others[j]
      BY <1>5, <1>8, <2>2
    <3> QED BY <1>9, <2>1, <3>1 DEF InQueue
  <2>3. CASE ~(j < at)
    <3>1. j + 1 \in 1 .. Len(others) + 1 /\ ~(j + 1 < at) /\ j + 1 # at /\ j + 1 - 1 = j
      BY <1>5, <1>7, <2>3
    <3>2. p[j + 1] = others[j]
      BY <1>8, <3>1
    <3> QED BY <1>9, <2>1, <3>1, <3>2 DEF InQueue
  <2> QED BY <2>2, <2>3
<1>12. ASSUME Sorted(q) PROVE Sorted(p)
  <2>1. Sorted(others)
    BY <1>2, <1>12 DEF Reordered
  <2>2. /\ \A i \in 1 .. Len(others) : i <= above => others[i].priority > priority
        /\ \A i \in 1 .. Len(others) : i > above => others[i].priority <= priority
        /\ \A i, j \in 1 .. Len(others) : i < j => others[i].priority >= others[j].priority
        /\ \A i \in 1 .. Len(others) : others[i].priority \in Int
    BY <1>5, <1>6, <2>1 DEF Sorted
  <2> SUFFICES ASSUME NEW i \in 1 .. Len(others) + 1, NEW j \in 1 .. Len(others) + 1, i < j
               PROVE  p[i].priority >= p[j].priority
    BY <1>9 DEF Sorted
  <2>3. p[i] = IF i < at THEN others[i] ELSE IF i = at THEN e ELSE others[i - 1]
    BY <1>8
  <2>4. p[j] = IF j < at THEN others[j] ELSE IF j = at THEN e ELSE others[j - 1]
    BY <1>8
  <2>5. CASE j < at
    <3>1. i \in 1 .. Len(others) /\ j \in 1 .. Len(others) /\ i < at
      BY <1>5, <1>7, <2>5
    <3> QED BY <2>2, <2>3, <2>4, <2>5, <3>1
  <2>6. CASE j = at
    <3>1. i \in 1 .. Len(others) /\ i <= above /\ i < at
      BY <1>5, <1>6, <1>7, <2>6
    <3>2. p[i] = others[i] /\ p[j] = e
      BY <2>3, <2>4, <2>6, <3>1
    <3> QED BY <1>3, <2>2, <3>1, <3>2
  <2>7. CASE j > at
    <3>1. j - 1 \in 1 .. Len(others) /\ p[j] = others[j - 1] /\ j - 1 > above
      BY <1>5, <1>6, <1>7, <2>4, <2>7
    <3>2. CASE i < at
      <4>1. i \in 1 .. Len(others) /\ i < j - 1 /\ p[i] = others[i]
        BY <1>5, <1>7, <2>3, <2>7, <3>2
      <4> QED BY <2>2, <3>1, <4>1
    <3>3. CASE i = at
      <4>1. p[i] = e
        BY <2>3, <3>3
      <4> QED BY <1>3, <2>2, <3>1, <4>1
    <3>4. CASE i > at
      <4>1. i - 1 \in 1 .. Len(others) /\ i - 1 < j - 1 /\ p[i] = others[i - 1]
        BY <1>5, <1>7, <2>3, <3>4
      <4> QED BY <2>2, <3>1, <4>1
    <3> QED BY <1>7, <3>2, <3>3, <3>4
  <2> QED BY <1>7, <2>5, <2>6, <2>7
<1>13. \A u \in Tasks \ {t} : InQueue(q, u) => InQueue(p, u)
  BY <1>11
<1>14. Sorted(q) => Sorted(p)
  BY <1>12
<1> DEFINE From(j) == IF j < at THEN j ELSE j - 1
<1>15. ASSUME NEW j \in DOMAIN p, j # at PROVE From(j) \in DOMAIN others /\ p[j] = others[From(j)]
  <2>1. j \in 1 .. Len(others) + 1
    BY <1>9
  <2>2. CASE j < at
    <3>1. From(j) = j /\ j \in 1 .. Len(others)
      BY <1>5, <1>7, <2>1, <2>2
    <3> QED BY <1>5, <1>8, <2>1, <2>2, <3>1
  <2>3. CASE ~(j < at)
    <3>1. From(j) = j - 1 /\ j - 1 \in 1 .. Len(others)
      BY <1>5, <1>7, <1>15, <2>1, <2>3
    <3> QED BY <1>5, <1>8, <1>15, <2>1, <2>3, <3>1
  <2> QED BY <2>2, <2>3
<1>16. ASSUME NEW j \in DOMAIN p, NEW k \in DOMAIN p, j # at, k # at, From(j) = From(k) PROVE j = k
  BY <1>5, <1>7, <1>9, <1>16
<1>20. at \in DOMAIN p /\ p[at] = e
  BY <1>5, <1>7, <1>8, <1>9
<1> HIDE DEF From
<1>17. ASSUME NEW u, InQueue(p, u) PROVE u = t \/ InQueue(q, u)
  <2>1. PICK j \in DOMAIN p : p[j].task = u
    BY <1>17 DEF InQueue
  <2>2. CASE j = at
    BY <1>3, <1>20, <2>1, <2>2
  <2>3. CASE j # at
    <3>1. InQueue(others, u)
      BY <1>15, <2>1, <2>3 DEF InQueue
    <3> QED BY <1>2, <3>1
  <2> QED BY <2>2, <2>3
<1>18. ASSUME Neat(q), t \in Files => priority <= 0 PROVE Neat(p)
  <2>1. Neat(others) /\ \A i \in DOMAIN others : others[i].task # t
    BY <1>2, <1>18 DEF InQueue
  <2>2. ASSUME NEW j \in DOMAIN p, NEW k \in DOMAIN p, p[j].task = p[k].task PROVE j = k
    <3>1. CASE j = at \/ k = at
      BY <1>3, <1>15, <1>20, <2>1, <2>2, <3>1
    <3>2. CASE j # at /\ k # at
      BY <1>15, <1>16, <2>1, <2>2, <3>2 DEF Neat
    <3> QED BY <3>1, <3>2
  <2>3. ASSUME NEW j \in DOMAIN p, p[j].task \in Files PROVE p[j].priority <= 0
    <3>1. CASE j = at
      BY <1>3, <1>18, <1>20, <2>3, <3>1
    <3>2. CASE j # at
      BY <1>15, <2>1, <2>3, <3>2 DEF Neat
    <3> QED BY <3>1, <3>2
  <2> QED BY <2>2, <2>3 DEF Neat
<1>19. Reordered(q, p, t)
  BY <1>8, <1>13, <1>14 DEF Reordered
<1> QED BY <1>10, <1>17, <1>18, <1>19

-----------------------------------------------------------------------------
(* A part is sent when there is room.                                        *)

LEMMA ChooseIs ==
    ASSUME NEW m, Shape(m), NEW i, i = ChooseSessionIndex(m)
    PROVE  /\ i \in DOMAIN m.sessions
           /\ \A j \in DOMAIN m.sessions :
                  \/ m.sessions[i].requested < m.sessions[j].requested
                  \/ m.sessions[i].requested = m.sessions[j].requested /\ i <= j
<1> DEFINE s == m.sessions
           v == [j \in 1 .. Len(s) |-> s[j].requested]
           Least(k) == \A j \in DOMAIN s : \/ s[k].requested < s[j].requested
                                           \/ s[k].requested = s[j].requested /\ k <= j
<1>1. DOMAIN s = 1 .. Len(s) /\ Len(s) \in Nat /\ Len(s) > 0 /\ v \in [1 .. Len(s) -> Int]
      /\ \A j \in DOMAIN s : s[j].requested \in Int
  <2>1. DOMAIN s = 1 .. Len(s) /\ Len(s) \in Nat /\ Len(s) > 0
        /\ \A j \in DOMAIN s : s[j].requested \in Int
    BY ShapeNumbers
  <2> HIDE DEF s
  <2> QED BY <2>1
<1>2. i = CHOOSE k \in DOMAIN s : Least(k)
  BY DEF ChooseSessionIndex, FirstLeast
<1> HIDE DEF s
<1>3. \E k \in 1 .. Len(s) : \A j \in 1 .. Len(s) : v[k] < v[j] \/ (v[k] = v[j] /\ k <= j)
  <2> DEFINE n == Len(s)
  <2>1. n \in Nat /\ n > 0 /\ v \in [1 .. n -> Int]
    BY <1>1
  <2> HIDE DEF n, v
  <2>2. \E k \in 1 .. n : \A j \in 1 .. n : v[k] < v[j] \/ (v[k] = v[j] /\ k <= j)
    BY <2>1, FirstLeastIs
  <2> QED BY <2>2 DEF n
<1>4. \E k \in DOMAIN s : Least(k)
  BY <1>1, <1>3
<1>5. i \in DOMAIN s /\ Least(i)
  <2> HIDE DEF Least
  <2> QED BY <1>2, <1>4
<1> QED BY <1>5 DEF s

Best(m) ==
    LET Busy(s) == IF s.requested < s.max THEN s.requested ELSE MaxWaited
    IN  FirstLeast(m.sessions, Busy)

LEMMA BestIs ==
    ASSUME NEW m, Shape(m), NEW i, i = Best(m)
    PROVE  i \in DOMAIN m.sessions
<1> DEFINE s == m.sessions
           Busy(e) == IF e.requested < e.max THEN e.requested ELSE MaxWaited
           v == [j \in 1 .. Len(s) |-> Busy(s[j])]
           Least(k) == \A j \in DOMAIN s : \/ Busy(s[k]) < Busy(s[j])
                                           \/ Busy(s[k]) = Busy(s[j]) /\ k <= j
<1>1. DOMAIN s = 1 .. Len(s) /\ Len(s) \in Nat /\ Len(s) > 0 /\ v \in [1 .. Len(s) -> Int]
  <2>1. DOMAIN s = 1 .. Len(s) /\ Len(s) \in Nat /\ Len(s) > 0
        /\ \A j \in DOMAIN s : s[j].requested \in Int
    BY ShapeNumbers
  <2>2. MaxWaited \in Int
    BY Constants
  <2> HIDE DEF s
  <2> QED BY <2>1, <2>2
<1>2. i = CHOOSE k \in DOMAIN s : Least(k)
  BY DEF Best, FirstLeast
<1> HIDE DEF s, Busy
<1>3. \E k \in 1 .. Len(s) : \A j \in 1 .. Len(s) : v[k] < v[j] \/ (v[k] = v[j] /\ k <= j)
  <2> DEFINE n == Len(s)
  <2>1. n \in Nat /\ n > 0 /\ v \in [1 .. n -> Int]
    BY <1>1
  <2> HIDE DEF n, v
  <2>2. \E k \in 1 .. n : \A j \in 1 .. n : v[k] < v[j] \/ (v[k] = v[j] /\ k <= j)
    BY <2>1, FirstLeastIs
  <2> QED BY <2>2 DEF n
<1>4. \E k \in DOMAIN s : Least(k)
  BY <1>1, <1>3
<1>5. i \in DOMAIN s
  <2> HIDE DEF Least
  <2> QED BY <1>2, <1>4
<1> QED BY <1>5 DEF s

KindOf(k) == IF k.cdn THEN "cdn" ELSE "part"

MayMake(scope, m, x, t, G, due, offset, i, H, n) ==
    /\ Good(scope, m, x, t, G, due) /\ offset \in G /\ offset \in Parts /\ i \in Nat
    /\ scope = "all" => i \in DOMAIN m.sessions /\ Queued(m, t)
    /\ H = G \ {offset} /\ n = MakeRequest(m, t, offset, i)

KindsKept(m, n, t) == KindsOK(m.task[t]) => KindsOK(n.task[t])

LEMMA MakeOK ==
    ASSUME NEW scope, NEW m, NEW x \in Nat, NEW t \in Tasks, NEW G, NEW due, NEW offset,
           NEW i, NEW H, NEW n, MayMake(scope, m, x, t, G, due, offset, i, H, n)
    PROVE  /\ Good(scope, n, x, t, H, due) /\ Beside(m, n, t) /\ n.posted = m.posted
           /\ Made(m, n, t, KindOf(m.task[t]), offset, i) /\ KindsKept(m, n, t)
<1> DEFINE kind == KindOf(m.task[t])
<1>1. n = PlaceSentRequest(m, t, kind, offset, i) /\ kind # "hashes"
  BY DEF MayMake, MakeRequest, KindOf
<1>2. MayPlace(scope, m, t, G, due, kind, offset, i, H, due)
  BY <1>1 DEF MayMake, MayPlace, Called
<1>3. Good(scope, m, x, t, G, due)
  BY DEF MayMake
<1> HIDE DEF kind
<1>4. Good(scope, n, x, t, H, due) /\ Beside(m, n, t) /\ n.posted = m.posted
      /\ Made(m, n, t, kind, offset, i)
  BY ONLY x \in Nat, t \in Tasks, <1>1, <1>2, <1>3, PlaceOK
<1>5. KindsKept(m, n, t)
  <2>1. n.task[t].cdn = m.task[t].cdn /\ Held(n.task[t]) = Held(m.task[t])
    BY <1>4 DEF Beside, KeepsAll, Held
  <2>2. m.task[t].cdn \/ kind = "part"
    BY DEF kind, KindOf
  <2>3. PICK r : /\ r.kind = kind
                 /\ ToSet(n.task[t].sent) = ToSet(m.task[t].sent) \union {r}
    BY <1>4 DEF Made
  <2> QED BY <2>1, <2>2, <2>3 DEF KindsKept, KindsOK
<1> QED BY <1>4, <1>5 DEF kind

\* Something besides hashes is asked for.
AsksParts(k) == \E r \in ToSet(k.sent) : r.kind # "hashes"

LEMMA MadeAsks ==
    ASSUME NEW m, NEW n, NEW t, NEW k, NEW offset, NEW i,
           Made(m, n, t, KindOf(k), offset, i)
    PROVE  AsksParts(n.task[t])
  BY DEF Made, KindOf, AsksParts

LEMMA FrontIs ==
    ASSUME NEW level \in Nat, NEW requested,
           requested \subseteq [offset : Parts, priority : 0 .. level], requested # {}
    PROVE  FrontRequested(requested) \in requested
<1> DEFINE P == {e.priority : e \in requested}
           p == Max(P)
           O == {e.offset : e \in {f \in requested : f.priority = p}}
<1>1. \A e \in requested : e.priority \in 0 .. level /\ e.priority \in Nat /\ e.offset \in Parts /\ e.offset \in Nat
  BY Constants
<1>2. p \in P /\ \A k \in P : k <= p
  <2>1. P \subseteq 0 .. level /\ P # {}
    BY <1>1
  <2> HIDE DEF P
  <2> QED BY <2>1, MaxIn
<1> HIDE DEF p
<1>3. O # {} /\ O \subseteq Nat
  BY <1>1, <1>2
<1>4. PICK l \in O : \A k \in O : l <= k
  <2> HIDE DEF O
  <2> QED BY <1>3, LeastNat
<1>5. PICK e \in requested : e.priority = p /\ e.offset = l
  BY <1>4
<1>6. ASSUME NEW f \in requested
      PROVE  e.priority > f.priority \/ (e.priority = f.priority /\ e.offset <= f.offset)
  <2>1. f.priority <= p /\ f.priority \in Nat /\ p \in Nat
    BY <1>1, <1>2, <1>5
  <2>2. CASE f.priority = p
    BY <1>4, <1>5, <2>2
  <2>3. CASE f.priority # p
    BY <1>5, <2>1, <2>3
  <2> QED BY <2>2, <2>3
<1> QED BY <1>5, <1>6 DEF FrontRequested

-----------------------------------------------------------------------------
(* What else is set of a task.                                               *)

SetTask(m, t, k) == [m EXCEPT !.task[t] = k]

\* What is said of the record of a task alone.
PartsOK(t, k, G) ==
    /\ RequestsOK(k)
    /\ t \in Files => FileOK(k, G)
    /\ t \in Streams => StreamOK(k, G)
    /\ G \intersect Taken(k) = {}

IsTask(k) ==
    k = [status |-> k.status, sent |-> k.sent, unchecked |-> k.unchecked,
         hashes |-> k.hashes, cdn |-> k.cdn, renewed |-> k.renewed,
         renewing |-> k.renewing, next |-> k.next, written |-> k.written,
         requested |-> k.requested, level |-> k.level, priority |-> k.priority,
         wanted |-> k.wanted]

\* What the shape of a task depends on is kept.
SameShape(k, l) ==
    /\ l.sent = k.sent /\ l.unchecked = k.unchecked /\ l.cdn = k.cdn
    /\ l.next = k.next /\ l.level = k.level /\ l.priority = k.priority
    /\ l.requested = k.requested

LEMMA RecordOf ==
    ASSUME NEW k, TaskShape(k)
    PROVE  IsTask(k)
  BY DEF TaskShape, IsTask

LEMMA ShapeKept ==
    ASSUME NEW k, NEW l, TaskShape(k), IsTask(l), SameShape(k, l)
    PROVE  TaskShape(l) /\ Taken(l) = Taken(k) /\ Held(l) = Held(k) /\ Queried(l) = Queried(k)
<1>1. Taken(l) = Taken(k) /\ Held(l) = Held(k) /\ Queried(l) = Queried(k)
  BY DEF SameShape, Taken, Offsets, Held, Queried
<1> QED BY <1>1 DEF TaskShape, IsTask, SameShape

LEMMA SetIs ==
    ASSUME NEW m, Shape(m), NEW t \in Tasks, NEW k, TaskShape(k), NEW n, n = SetTask(m, t, k)
    PROVE  Shape(n) /\ Puts(m, n, t, k) /\ n.broken = m.broken
<1> DEFINE broken == m.broken
<1>1. IsManager(m) /\ broken \in BOOLEAN
  BY DEF Shape
<1>2. IsManager(n) /\ n.broken = broken
  BY <1>1 DEF IsManager, SetTask
<1> HIDE DEF broken
<1>3. n = [n EXCEPT !.broken = broken]
  BY <1>2 DEF IsManager
<1>4. n = Put(m, t, k, broken)
  BY <1>3 DEF Put, SetTask
<1>5. Shape(n) /\ Puts(m, n, t, k) /\ n.broken = broken
  BY <1>1, <1>4, PutIs
<1> QED BY <1>5 DEF broken

\* Nothing new is held back.
HoldsLess(k, l) ==
    /\ l.sent = k.sent /\ Held(l) \subseteq Held(k)
    /\ \A o \in Held(l) : l.unchecked[o] = k.unchecked[o]

LEMMA BackedLess ==
    ASSUME NEW m, NEW x, NEW t \in Tasks, NEW k, BalanceOK(m, x), HoldsLess(m.task[t], k)
    PROVE  Backed(m, t, k)
<1>1. Taken(k) \subseteq Taken(m.task[t])
  BY DEF HoldsLess, Taken, Offsets
<1> QED BY <1>1 DEF HoldsLess, BalanceOK, InSessions, Backed

MaySet(scope, m, x, t, G, due, k, H, later) ==
    /\ Good(scope, m, x, t, G, due) /\ TaskShape(k) /\ PartsOK(t, k, H)
    /\ k.sent = m.task[t].sent /\ (HoldsLess(m.task[t], k) \/ (scope = "all" => Backed(m, t, k)))
    /\ k.status = "loading" /\ Held(k) # {} => t \in later \/ AsksFor(m, t)

LEMMA SetOK ==
    ASSUME NEW scope, NEW m, NEW x \in Nat, NEW t \in Tasks, NEW G, NEW due, NEW k, NEW H,
           NEW later, MaySet(scope, m, x, t, G, due, k, H, later), NEW n, n = SetTask(m, t, k)
    PROVE  Good(scope, n, x, t, H, later) /\ Puts(m, n, t, k) /\ n.broken = m.broken
<1>1. /\ Good(scope, m, x, t, G, due) /\ TaskShape(k) /\ PartsOK(t, k, H)
      /\ k.sent = m.task[t].sent /\ Shape(m)
  BY DEF MaySet, Good
<1>2. Shape(n) /\ Puts(m, n, t, k) /\ n.broken = m.broken
  BY <1>1, SetIs
<1>3. TaskOK(n, t, H, later)
  <2>1. k.status = "loading" /\ Held(k) # {} => t \in later \/ AsksFor(m, t)
    BY DEF MaySet
  <2>2. n.task[t] = k /\ n.posted = m.posted
    BY <1>2 DEF Puts
  <2>3. AsksFor(m, t) => AsksFor(n, t)
    BY <1>1, <2>2 DEF AsksFor, AsksHashes
  <2> QED BY <1>1, <2>1, <2>2, <2>3 DEF TaskOK, PartsOK
<1>4. scope = "all" => Alike(m.task[t].sent, k.sent) /\ Backed(m, t, k)
  <2>1. ASSUME scope = "all" PROVE BalanceOK(m, x)
    BY <1>1, <2>1 DEF Good
  <2>2. scope = "all" => Backed(m, t, k)
    BY <2>1, BackedLess DEF MaySet
  <2> QED BY <1>1, <2>2, AlikeSame
<1>5. Good(scope, n, x, t, H, later)
  BY <1>1, <1>2, <1>3, <1>4, PutOK
<1> QED BY <1>2, <1>5

LEMMA PartsOf ==
    ASSUME NEW scope, NEW m, NEW x \in Nat, NEW t \in Tasks, NEW G, NEW due,
           Good(scope, m, x, t, G, due)
    PROVE  /\ Shape(m) /\ TaskShape(m.task[t]) /\ PartsOK(t, m.task[t], G)
           /\ TaskOK(m, t, G, due)
  BY ShapeFields DEF Good, TaskOK, PartsOK

MayLoad(scope, m, x, t, i, n) ==
    /\ Fine(scope, m, x) /\ ReadyToRequest(m, t) /\ i \in Nat
    /\ scope = "all" => i \in DOMAIN m.sessions /\ Queued(m, t)
    /\ n = LoadPart(m, t, i)

\* A part is asked for, of task t.
Loads(m, n, t) ==
    /\ n.queue = m.queue /\ n.balance.total = m.balance.total + 1
    /\ \A u \in Tasks \ {t} : n.task[u] = m.task[u]
    /\ n.task[t].status = m.task[t].status /\ n.task[t].renewing = m.task[t].renewing
    /\ n.task[t].written = m.task[t].written
    /\ Awaiting(n.task[t]) \subseteq Awaiting(m.task[t]) \union {"server"}

LEMMA LoadPartOK ==
    ASSUME NEW scope, NEW m, NEW x \in Nat, NEW t \in Tasks, NEW i, NEW n,
           MayLoad(scope, m, x, t, i, n)
    PROVE  Fine(scope, n, x) /\ Loads(m, n, t)
<1> DEFINE k == m.task[t]
           front == FrontRequested(k.requested)
           none == {}
<1>1. /\ Fine(scope, m, x) /\ ReadyToRequest(m, t) /\ i \in Nat
      /\ scope = "all" => i \in DOMAIN m.sessions /\ Queued(m, t)
      /\ n = LoadPart(m, t, i)
  BY DEF MayLoad
<1>2. Good(scope, m, x, t, none, none) /\ KindsOK(k)
  BY <1>1, GoodFine
<1>3. TaskShape(k) /\ PartsOK(t, k, none) /\ IsManager(m) /\ m.task = [u \in Tasks |-> m.task[u]]
  <2> HIDE DEF none, k
  <2>1. Shape(m) /\ TaskShape(m.task[t]) /\ PartsOK(t, m.task[t], none)
    BY <1>2, PartsOf
  <2> QED BY <2>1 DEF k, Shape
\* The record k becomes l, with the part in hand.
<1>4. ASSUME NEW l, NEW offset \in Parts, TaskShape(l), PartsOK(t, l, {offset}), KindsOK(l),
             HoldsLess(k, l), l.status = k.status, l.renewing = k.renewing, l.written = k.written,
             n = MakeRequest(SetTask(m, t, l), t, offset, i)
      PROVE  Fine(scope, n, x) /\ Loads(m, n, t)
  <2> DEFINE d == SetTask(m, t, l)
             G == {offset}
  <2>1. k.status = "loading" /\ Held(k) # {} => AsksFor(m, t)
    BY <1>2 DEF Good, TaskOK
  <2>2. l.status = "loading" /\ Held(l) # {} => t \in none \/ AsksFor(m, t)
    BY <1>4, <2>1 DEF HoldsLess
  <2>3. offset \in G /\ G \ {offset} = none
    OBVIOUS
  <2>4. MaySet(scope, m, x, t, none, none, l, G, none)
    <3> HIDE DEF none
    <3> QED BY <1>2, <1>4, <2>2 DEF MaySet, HoldsLess
  <2>5. d = SetTask(m, t, l) /\ n = MakeRequest(d, t, offset, i) /\ PartsOK(t, l, G)
    BY <1>4
  <2> HIDE DEF d, G, none
  <2>6. Good(scope, d, x, t, G, none) /\ Puts(m, d, t, l) /\ d.broken = m.broken
    BY ONLY x \in Nat, t \in Tasks, <2>4, <2>5, SetOK
  <2>7. MayMake(scope, d, x, t, G, none, offset, i, none, n)
    <3>1. Queued(m, t) => Queued(d, t)
      BY <2>6 DEF Queued, Puts
    <3>2. DOMAIN d.sessions = DOMAIN m.sessions
      BY <2>6 DEF Puts
    <3> QED BY <1>1, <1>4, <2>3, <2>5, <2>6, <3>1, <3>2 DEF MayMake
  <2>8. Good(scope, n, x, t, none, none) /\ KindsKept(d, n, t) /\ Beside(d, n, t)
    BY ONLY x \in Nat, t \in Tasks, <2>7, MakeOK
  <2>9. KindsOK(n.task[t])
    BY <1>4, <2>6, <2>8 DEF KindsKept, Puts
  <2>10. n.balance.total = d.balance.total + 1
    <3> DEFINE kind == KindOf(d.task[t])
    <3>1. n = PlaceSentRequest(d, t, kind, offset, i)
      BY <2>5 DEF MakeRequest, KindOf
    <3>2. Shape(d) /\ i \in Nat
      BY <1>1, <2>6 DEF Good
    <3>3. PICK e : Placed(d, n, t, e)
      <4> HIDE DEF kind
      <4> QED BY <1>4, <3>1, <3>2, PlaceIs
    <3> QED BY <3>3 DEF Placed, Moved
  <2>11. Loads(m, n, t)
    <3>1. Awaiting(d.task[t]) = Awaiting(m.task[t])
      BY <1>4, <2>6 DEF Puts, Awaiting, HoldsLess
    <3>2. n.queue = m.queue /\ n.balance.total = m.balance.total + 1
      BY <2>6, <2>8, <2>10 DEF Beside, Puts
    <3>3. \A u \in Tasks \ {t} : n.task[u] = m.task[u]
      BY <2>6, <2>8 DEF Beside, Puts
    <3>4. /\ n.task[t].status = m.task[t].status /\ n.task[t].renewing = m.task[t].renewing
          /\ n.task[t].written = m.task[t].written
      BY <1>4, <2>6, <2>8 DEF Beside, Puts, KeepsAll
    <3>5. Awaiting(n.task[t]) \subseteq Awaiting(m.task[t]) \union {"server"}
      BY <2>8, <3>1 DEF Beside
    <3> QED BY <3>2, <3>3, <3>4, <3>5 DEF Loads
  <2> QED BY <2>8, <2>9, <2>11, GoodFine DEF none
<1>5. CASE t \in Files
  <2> DEFINE l == [k EXCEPT !.next = @ + 1]
             offset == k.next
  <2>1. k.status = "loading" /\ k.next < Size
    BY <1>1, <1>5 DEF ReadyToRequest
  <2>2. offset \in Parts /\ offset \in Nat /\ Size \in Nat
    BY <1>3, <2>1, Constants DEF TaskShape
  <2>3. /\ TaskShape(l) /\ l.status = k.status /\ l.sent = k.sent /\ l.unchecked = k.unchecked
        /\ l.cdn = k.cdn /\ l.next = k.next + 1 /\ l.written = k.written /\ l.requested = k.requested
        /\ l.renewing = k.renewing
    BY <1>3, <2>2 DEF TaskShape, Held
  <2>4. n = MakeRequest(SetTask(m, t, l), t, offset, i)
    <3>1. SetTask(m, t, l) = [m EXCEPT !.task[t].next = @ + 1]
      BY DEF SetTask
    <3> QED BY <1>1, <1>5, <3>1 DEF LoadPart
  <2> HIDE DEF l
  <2>5. Taken(l) = Taken(k) /\ Held(l) = Held(k) /\ t \notin Streams
    BY <1>5, <2>3, Constants DEF Taken, Offsets, Held
  <2>6. FileOK(l, {offset}) /\ {offset} \intersect Taken(l) = {}
    <3>1. /\ k.requested = {} /\ k.next \in 0 .. Size
          /\ 0 .. k.next - 1 = k.written \union Taken(k)
          /\ Taken(k) \intersect k.written = {}
      BY <1>3, <1>5, <2>1 DEF PartsOK, FileOK
    <3>2. l.next \in 0 .. Size /\ 0 .. l.next - 1 = 0 .. k.next - 1 \union {offset}
          /\ offset \notin 0 .. k.next - 1
      BY <2>1, <2>2, <2>3
    <3> QED BY <2>1, <2>3, <2>5, <3>1, <3>2 DEF FileOK
  <2>7. PartsOK(t, l, {offset}) /\ KindsOK(l) /\ HoldsLess(k, l)
    BY <1>2, <1>3, <1>5, <2>3, <2>5, <2>6 DEF PartsOK, RequestsOK, KindsOK, HoldsLess
  <2> QED BY <1>4, <2>2, <2>3, <2>4, <2>7
<1>6. CASE t \notin Files
  <2> DEFINE l == [k EXCEPT !.requested = @ \ {front}]
             offset == front.offset
  <2>1. front \in k.requested /\ offset \in Parts
    <3>1. k.level \in Nat /\ k.requested \subseteq [offset : Parts, priority : 0 .. k.level]
          /\ k.requested # {}
      BY <1>1, <1>3, <1>6 DEF ReadyToRequest, TaskShape
    <3>2. front \in k.requested
      BY <3>1, FrontIs
    <3> QED BY <3>1, <3>2
  <2>2. n = MakeRequest(SetTask(m, t, l), t, offset, i)
    <3>1. SetTask(m, t, l) = [m EXCEPT !.task[t].requested = @ \ {front}]
      BY DEF SetTask
    <3> QED BY <1>1, <1>6, <3>1 DEF LoadPart
  <2> HIDE DEF front
  <2>3. /\ TaskShape(l) /\ l.status = k.status /\ l.sent = k.sent /\ l.unchecked = k.unchecked
        /\ l.cdn = k.cdn /\ l.requested = k.requested \ {front} /\ l.wanted = k.wanted
        /\ l.renewing = k.renewing /\ l.written = k.written
    BY <1>3 DEF TaskShape, Held
  <2> HIDE DEF l
  <2>4. Taken(l) = Taken(k) /\ Held(l) = Held(k) /\ t \in Streams
    BY <1>6, <2>3 DEF Taken, Offsets, Held, Tasks
  <2>5. StreamOK(k, {})
    BY <1>3, <2>4 DEF PartsOK
  <2>6. Queried(l) = Queried(k) \ {offset} /\ offset \in Queried(k)
    BY <2>1, <2>3, <2>5 DEF StreamOK, Queried
  <2>7. StreamOK(l, {offset}) /\ {offset} \intersect Taken(l) = {}
    BY <2>3, <2>4, <2>5, <2>6 DEF StreamOK
  <2>8. PartsOK(t, l, {offset}) /\ KindsOK(l) /\ HoldsLess(k, l)
    BY <1>2, <1>3, <1>6, <2>3, <2>4, <2>7 DEF PartsOK, RequestsOK, KindsOK, HoldsLess
  <2> QED BY <1>4, <2>1, <2>2, <2>3, <2>8
<1> QED BY <1>5, <1>6

\* Nothing is sent: all sessions are full, or no task has a part to load.
Stuck(m) ==
    LET i == Best(m)
        next == IF m.queue = <<>> THEN {} ELSE NextTasks(m, m.balance.total > 0)
    IN  m.sessions[i].requested + 1 > m.sessions[i].max \/ next = {}

LEMMA TrySendIs ==
    ASSUME NEW scope, NEW m, NEW x \in Nat, Fine(scope, m, x), NEW n, n = TrySendNextPart(m)
    PROVE  \/ n = m /\ Stuck(m)
           \/ \E t \in Tasks, i \in Nat : MayLoad(scope, m, x, t, i, n)
<1> DEFINE i == Best(m)
           next == IF m.queue = <<>> THEN {} ELSE NextTasks(m, m.balance.total > 0)
           full == m.sessions[i].requested + 1 > m.sessions[i].max
           t == m.queue[Min(next)].task
<1>1. n = IF full \/ next = {} THEN m ELSE LoadPart(m, t, i)
  BY DEF TrySendNextPart, Best
<1>2. CASE full \/ next = {}
  BY <1>1, <1>2 DEF Stuck
<1>3. CASE ~full /\ next # {}
  <2>0. Shape(m) /\ m.queue \in Seq(EntryType)
    BY DEF Fine, Shape
  <2>1. i \in DOMAIN m.sessions /\ i \in Nat
    <3>1. i = Best(m)
      OBVIOUS
    <3> HIDE DEF i
    <3>2. i \in DOMAIN m.sessions
      BY <2>0, <3>1, BestIs
    <3> QED BY <2>0, <3>2, ShapeNumbers
  <2>2. /\ next \subseteq DOMAIN m.queue
        /\ \A j \in next : ReadyToRequest(m, m.queue[j].task)
    BY DEF NextTasks
  <2>3. /\ DOMAIN m.queue = 1 .. Len(m.queue) /\ Len(m.queue) \in Nat
        /\ \A j \in DOMAIN m.queue : m.queue[j].task \in Tasks
    BY <2>0, EntriesAre
  <2>4. Min(next) \in next
    <3>1. next \subseteq Nat /\ next # {}
      BY <1>3, <2>2, <2>3
    <3> HIDE DEF next
    <3> QED BY <3>1, MinIn
  <2>5. t \in Tasks /\ ReadyToRequest(m, t) /\ Queued(m, t)
    <3> HIDE DEF next
    <3> QED BY <2>2, <2>3, <2>4 DEF Queued
  <2>6. n = LoadPart(m, t, i)
    BY <1>1, <1>3
  <2> HIDE DEF t, i, next, full
  <2>7. MayLoad(scope, m, x, t, i, n)
    BY <2>1, <2>5, <2>6 DEF MayLoad
  <2> QED BY ONLY <2>1, <2>5, <2>7
<1> QED BY <1>2, <1>3

LEMMA TrySendOK ==
    ASSUME NEW scope, NEW m, NEW x \in Nat, Fine(scope, m, x), NEW n, n = TrySendNextPart(m)
    PROVE  Fine(scope, n, x)
  BY TrySendIs, LoadPartOK

LEMMA CheckSendNextOK ==
    ASSUME NEW scope, NEW m, NEW x \in Nat, Fine(scope, m, x), NEW n, n = CheckSendNext(m)
    PROVE  Fine(scope, n, x)
<1> DEFINE q == Tries
           hi == MaxSessions * MaxWaited
           a == <<m.balance.total>>
           kind == "try"
<1>1. hi \in Nat /\ q = [i \in 1 .. hi |-> i]
  BY Constants DEF Tries
<1>2. Len(q) \in Nat /\ DOMAIN q = 1 .. Len(q)
  <2> HIDE DEF hi, q
  <2>1. IsSeq(q)
    <3>1. q \in Seq(Nat)
      BY <1>1
    <3> QED BY <3>1 DEF IsSeq
  <2> QED BY <2>1, SeqLen
<1>3. PICK g, c : Goes(g, kind, a, q, m, c) /\ n = c
  BY <1>2, TryGoes
<1>4. kind = "try"
  OBVIOUS
<1> HIDE DEF q, hi, a, kind
<1> DEFINE P == {k \in 0 .. Len(q) : Fine(scope, g[k], x)}
<1>5. 0 \in P
  BY <1>2, <1>3 DEF Goes
<1>6. ASSUME NEW k \in 1 .. Len(q), k - 1 \in P PROVE k \in P
  <2> DEFINE d == g[k - 1]
             e == g[k]
  <2>1. e = d \/ e = TrySendNextPart(d)
    BY <1>3, <1>4 DEF Goes, Each, TrySend
  <2>2. Fine(scope, d, x)
    BY <1>6
  <2> HIDE DEF d, e
  <2>3. Fine(scope, e, x)
    BY <2>1, <2>2, TrySendOK
  <2> QED BY <1>2, <2>3 DEF e
<1>7. Len(q) \in P
  <2> HIDE DEF P
  <2> QED BY <1>2, <1>5, <1>6, ByNumber
<1> QED BY <1>3, <1>7 DEF Goes

\* The queue is put in another order, or the task leaves it.
LEMMA ReorderedOK ==
    ASSUME NEW scope, NEW m, NEW x \in Nat, Fine(scope, m, x), NEW t \in Tasks, NEW p, NEW n,
           n = [m EXCEPT !.queue = p] \/ n = [m EXCEPT !.queue = p, !.resetting = TRUE],
           Reordered(m.queue, p, t), InQueue(p, t) \/ Taken(m.task[t]) = {}
    PROVE  Fine(scope, n, x)
<1>1. /\ n.sessions = m.sessions /\ n.balance = m.balance /\ n.queue = p
      /\ n.killing = m.killing /\ n.posted = m.posted /\ n.task = m.task
      /\ n.broken = m.broken /\ IsManager(n)
  BY DEF Fine, Shape, IsManager
<1>2. Shape(n)
  BY <1>1 DEF Fine, Shape, Reordered
<1>3. ASSUME NEW u \in Tasks PROVE TaskOK(n, u, {}, {}) /\ KindsOK(n.task[u])
  BY <1>1 DEF Fine, TaskOK, AsksFor
<1>4. ASSUME scope = "all" PROVE BalanceOK(n, x)
  <2>1. BalanceOK(m, x)
    BY <1>4 DEF Fine
  <2>2. Sent(n) = Sent(m) /\ \A i : SentIn(n, i) = SentIn(m, i)
    BY <1>1, SentOf
  <2>3. InSessions(n) /\ Idle0(n) /\ Adds(n, x)
    BY <1>1, <2>1, <2>2 DEF BalanceOK, InSessions, Idle0, Adds
  <2>4. Sorted(n.queue) /\ ~n.broken
    BY <1>1, <2>1 DEF BalanceOK, Reordered
  <2>5. ASSUME NEW u \in Tasks, Taken(n.task[u]) # {} PROVE Queued(n, u)
    <3>1. InQueue(m.queue, u)
      BY <1>1, <2>1, <2>5 DEF BalanceOK, Queued, InQueue
    <3>2. InQueue(p, u)
      BY <1>1, <2>5, <3>1 DEF Reordered
    <3> QED BY <1>1, <3>2 DEF InQueue, Queued
  <2> QED BY <2>3, <2>4, <2>5 DEF BalanceOK
<1> QED BY <1>2, <1>3, <1>4 DEF Fine

LEMMA RemoveFromQueueOK ==
    ASSUME NEW scope, NEW m, NEW x \in Nat, Fine(scope, m, x), NEW t \in Tasks,
           Taken(m.task[t]) = {}, NEW n, n = RemoveFromQueue(m, t)
    PROVE  Fine(scope, n, x)
<1> DEFINE p == WithoutTask(m.queue, t)
           d == [m EXCEPT !.queue = p]
<1>1. n = CheckSendNext(d)
  BY DEF RemoveFromQueue
<1>2. p = WithoutTask(m.queue, t) /\ d = [m EXCEPT !.queue = p] /\ m.queue \in Seq(EntryType)
  BY DEF Fine, Shape
<1> HIDE DEF d, p
<1>3. Reordered(m.queue, p, t)
  BY <1>2, WithoutTaskIs
<1>4. Fine(scope, d, x)
  BY <1>2, <1>3, ReorderedOK
<1> QED BY <1>1, <1>4, CheckSendNextOK

LEMMA EnqueueOK ==
    ASSUME NEW scope, NEW m, NEW x \in Nat, Fine(scope, m, x), NEW t \in Tasks,
           NEW priority \in Int, NEW n, n = Enqueue(m, t, priority)
    PROVE  Fine(scope, n, x)
<1> DEFINE p == QueueEnqueue(m.queue, t, priority)
           d == [m EXCEPT !.queue = p, !.resetting = TRUE]
<1>1. n = CheckSendNext(d)
  BY DEF Enqueue
<1>2. /\ p = QueueEnqueue(m.queue, t, priority) /\ m.queue \in Seq(EntryType)
      /\ d = [m EXCEPT !.queue = p, !.resetting = TRUE]
  BY DEF Fine, Shape
<1> HIDE DEF d, p
<1>3. Reordered(m.queue, p, t) /\ InQueue(p, t)
  BY <1>2, QueueEnqueueIs
<1>4. Fine(scope, d, x)
  BY <1>2, <1>3, ReorderedOK
<1> QED BY <1>1, <1>4, CheckSendNextOK

-----------------------------------------------------------------------------
(* How a task ends.                                                          *)

MayDestroy(m, t, status) ==
    /\ status \in {"done", "failed", "closed"}
    /\ status = "done" => m.task[t].written = Parts

\* t has nothing sent or to send any more, and is in the queue still if it was.
Ends(scope, m, x, t, status, d) ==
    /\ Fine(scope, d, x) /\ Taken(d.task[t]) = {} /\ d.queue = m.queue
    /\ \A u \in Tasks \ {t} : d.task[u] = m.task[u]
    /\ d.task[t].status = status /\ d.task[t].requested = {}

LEMMA DestroyIs ==
    ASSUME NEW scope, NEW m, NEW x \in Nat, NEW t \in Tasks, NEW G, NEW due,
           Good(scope, m, x, t, G, due), NEW status, MayDestroy(m, t, status),
           NEW n, n = Destroy(m, t, status)
    PROVE  \E d : Ends(scope, m, x, t, status, d) /\ n = RemoveFromQueue(d, t)
<1> DEFINE a == CancelAllRequests(m, t)
           k == [NewTask EXCEPT !.status = status, !.written = m.task[t].written]
           d == [a EXCEPT !.task[t] = k]
           none == {}
<1>1. n = RemoveFromQueue(d, t)
  BY DEF Destroy
<1>2. PICK c, H : /\ Cancelling(scope, m, x, t, due, c, H, {})
                  /\ a = DropsAll(c, t)
  <2>1. a = CancelAllRequests(m, t)
    OBVIOUS
  <2> HIDE DEF a
  <2> QED BY <2>1, CancelAllOK
<1> HIDE DEF a
<1>3. Good(scope, c, x, t, H, due) /\ Beside(m, c, t) /\ ToSet(c.task[t].sent) = {}
  BY <1>2 DEF Cancelling
<1>4. c.task[t].sent = <<>>
  <2>1. IsSeq(c.task[t].sent)
    BY <1>3, ShapeFields DEF Good
  <2> QED BY <1>3, <2>1, NoneIs
<1>5. /\ k.status = status /\ k.sent = <<>> /\ k.unchecked = <<>> /\ k.cdn = FALSE
      /\ k.next = 0 /\ k.written = m.task[t].written /\ k.requested = {} /\ k.level = 0
      /\ k.priority = 0 /\ k.wanted = {}
  BY DEF NewTask
<1>13. k = [status |-> k.status, sent |-> k.sent, unchecked |-> k.unchecked,
            hashes |-> k.hashes, cdn |-> k.cdn, renewed |-> k.renewed,
            renewing |-> k.renewing, next |-> k.next, written |-> k.written,
            requested |-> k.requested, level |-> k.level, priority |-> k.priority,
            wanted |-> k.wanted]
  <2> DEFINE b == NewTask
             w == m.task[t].written
  <2>1. b = [status |-> b.status, sent |-> b.sent, unchecked |-> b.unchecked,
            hashes |-> b.hashes, cdn |-> b.cdn, renewed |-> b.renewed,
            renewing |-> b.renewing, next |-> b.next, written |-> b.written,
            requested |-> b.requested, level |-> b.level, priority |-> b.priority,
            wanted |-> b.wanted]
    BY DEF NewTask
  <2>2. k = [b EXCEPT !.status = status, !.written = w]
    OBVIOUS
  <2> HIDE DEF k, b, w
  <2> QED BY <2>1, <2>2
<1>6. d = SetTask(c, t, k)
  <2> HIDE DEF k
  <2>1. IsManager(c)
    BY <1>3 DEF Good, Shape
  <2>2. a = [c EXCEPT !.task[t].unchecked = <<>>]
    BY <1>2 DEF DropsAll
  <2> DEFINE e == [c EXCEPT !.task[t] = k]
  <2>3. a.task = [c.task EXCEPT ![t].unchecked = <<>>] /\ IsManager(a)
        /\ a.sessions = c.sessions /\ a.balance = c.balance /\ a.queue = c.queue
        /\ a.killing = c.killing /\ a.resetting = c.resetting /\ a.posted = c.posted
        /\ a.broken = c.broken
    BY <2>1, <2>2 DEF IsManager
  <2>4. [a.task EXCEPT ![t] = k] = [c.task EXCEPT ![t] = k]
    BY <2>3
  <2> QED BY <2>1, <2>3, <2>4 DEF IsManager, SetTask
<1> HIDE DEF k, d
<1>7. Held(k) = {} /\ ToSet(k.sent) = {} /\ Taken(k) = {} /\ Queried(k) = {} /\ Alone(k.sent)
  <2>1. Held(k) = {} /\ ToSet(k.sent) = {}
    BY <1>3, <1>4, <1>5 DEF Held
  <2> QED BY <1>5, <2>1 DEF Taken, Offsets, Queried, Alone
<1>8. TaskShape(k) /\ KindsOK(k)
  <2>1. k.unchecked = [o \in Held(k) |-> k.unchecked[o]]
    BY <1>5, <1>7
  <2>2. IsSeq(k.sent)
    BY <1>5, EmptyIs
  <2>3. /\ k.cdn \in BOOLEAN
        /\ k.next \in Nat /\ k.level \in Nat /\ k.priority \in Nat
        /\ k.requested \subseteq [offset : Parts, priority : 0 .. k.level]
    <3>1. k.cdn \in BOOLEAN
      BY Zenon, <1>5
    <3>2. k.next \in Nat /\ k.level \in Nat /\ k.priority \in Nat
      BY <1>5
    <3>3. k.requested \subseteq [offset : Parts, priority : 0 .. k.level]
      BY Zenon, <1>5
    <3> QED BY <3>1, <3>2, <3>3
  <2>4. \A r \in ToSet(k.sent) : IsRequest(r) /\ r.kind = "part"
    BY <1>7
  <2>5. Held(k) \subseteq Parts /\ \A o \in Held(k) : k.unchecked[o] \in Nat
    BY <1>7
  <2> QED BY <1>7, <1>13, <2>1, <2>2, <2>3, <2>4, <2>5 DEF TaskShape, KindsOK
<1>9. PartsOK(t, k, none)
  <2>1. RequestsOK(k)
    BY <1>7 DEF RequestsOK
  <2>2. FileOK(k, {}) /\ StreamOK(k, {})
    BY <1>5, <1>7 DEF FileOK, StreamOK, MayDestroy
  <2> QED BY <1>7, <2>1, <2>2 DEF PartsOK
<1>10. MaySet(scope, c, x, t, H, due, k, none, none)
  <2>1. HoldsLess(c.task[t], k)
    BY <1>4, <1>5, <1>7 DEF HoldsLess
  <2> HIDE DEF none
  <2> QED BY <1>3, <1>4, <1>5, <1>7, <1>8, <1>9, <2>1 DEF MaySet
<1> HIDE DEF none
<1>11. Good(scope, d, x, t, none, none) /\ Puts(c, d, t, k) /\ d.broken = c.broken
  BY ONLY x \in Nat, t \in Tasks, <1>6, <1>10, SetOK
<1>12. Fine(scope, d, x) /\ Taken(d.task[t]) = {}
  BY <1>7, <1>8, <1>11, GoodFine DEF none, Puts
<1>14. d.queue = m.queue /\ \A u \in Tasks \ {t} : d.task[u] = m.task[u]
  BY <1>3, <1>11 DEF Puts, Beside
<1>15. d.task[t].status = status /\ d.task[t].requested = {}
  BY <1>5, <1>11 DEF Puts
<1> QED BY <1>1, <1>12, <1>14, <1>15 DEF Ends

LEMMA DestroyOK ==
    ASSUME NEW scope, NEW m, NEW x \in Nat, NEW t \in Tasks, NEW G, NEW due,
           Good(scope, m, x, t, G, due), NEW status, MayDestroy(m, t, status),
           NEW n, n = Destroy(m, t, status)
    PROVE  Fine(scope, n, x)
<1>1. PICK d : Ends(scope, m, x, t, status, d) /\ n = RemoveFromQueue(d, t)
  BY DestroyIs
<1> QED BY <1>1, RemoveFromQueueOK DEF Ends

MayFail(scope, m, x, t, G, due, n) ==
    Good(scope, m, x, t, G, due) /\ KindsOK(m.task[t]) /\ n = CancelOnFail(m, t)

LEMMA CancelOnFailOK ==
    ASSUME NEW scope, NEW m, NEW x \in Nat, NEW t \in Tasks, NEW G, NEW due, NEW n,
           MayFail(scope, m, x, t, G, due, n)
    PROVE  Fine(scope, n, x)
<1>1. Good(scope, m, x, t, G, due) /\ KindsOK(m.task[t]) /\ n = CancelOnFail(m, t)
  BY DEF MayFail
<1>2. CASE t \in Files
  <2> DEFINE status == "failed"
  <2>1. n = Destroy(m, t, status) /\ MayDestroy(m, t, status)
    BY <1>1, <1>2 DEF CancelOnFail, MayDestroy
  <2> HIDE DEF status
  <2> QED BY ONLY x \in Nat, t \in Tasks, <1>1, <2>1, DestroyOK
<1>3. CASE t \notin Files
  <2> DEFINE k == m.task[t]
             none == {}
             l == [k EXCEPT !.status = "failed", !.wanted = {}]
  <2>1. TaskShape(k) /\ PartsOK(t, k, G)
    <3> HIDE DEF k
    <3>1. TaskShape(m.task[t]) /\ PartsOK(t, m.task[t], G)
      BY <1>1, PartsOf
    <3> QED BY <3>1 DEF k
  <2>2. n = SetTask(m, t, l)
    BY <1>1, <1>3 DEF CancelOnFail, SetTask
  <2> HIDE DEF k
  <2>9. SameShape(k, l) /\ IsTask(l) /\ l.status = "failed" /\ l.wanted = {}
    <3>1. IsTask(k) /\ l = [k EXCEPT !.status = "failed", !.wanted = {}]
      BY <2>1, RecordOf
    <3> HIDE DEF l
    <3> QED BY <3>1 DEF IsTask, SameShape
  <2>3. /\ TaskShape(l) /\ l.status = "failed" /\ l.sent = k.sent /\ l.unchecked = k.unchecked
        /\ l.cdn = k.cdn /\ l.requested = k.requested /\ l.wanted = {}
    BY <2>1, <2>9, ShapeKept DEF SameShape
  <2> HIDE DEF l
  <2>4. Taken(l) = Taken(k) /\ Held(l) = Held(k)
    BY <2>3 DEF Taken, Offsets, Held
  <2>5. PartsOK(t, l, none)
    BY <1>3, <2>1, <2>3, <2>4 DEF PartsOK, RequestsOK, StreamOK, Queried
  <2>6. MaySet(scope, m, x, t, G, due, l, none, none)
    <3> HIDE DEF none
    <3> QED BY <1>1, <2>3, <2>4, <2>5 DEF MaySet, HoldsLess, k
  <2>7. KindsOK(l)
    BY <1>1, <2>3, <2>4 DEF KindsOK, k
  <2> HIDE DEF none
  <2>8. Good(scope, n, x, t, none, none) /\ Puts(m, n, t, l) /\ n.broken = m.broken
    BY ONLY x \in Nat, t \in Tasks, <2>2, <2>6, SetOK
  <2> QED BY <2>7, <2>8, GoodFine DEF none, Puts
<1> QED BY <1>2, <1>3

\* A part in hand is fed.
MayFeed(scope, m, x, t, offset, due, n) ==
    Good(scope, m, x, t, {offset}, due) /\ offset \in Parts /\ n = FeedPart(m, t, offset)

HoldsAsMuch(m, n, t) ==
    \/ Held(m.task[t]) = {}
    \/ Held(n.task[t]) = Held(m.task[t]) /\ n.task[t].sent = m.task[t].sent

LEMMA FineGood ==
    ASSUME NEW scope, NEW m, NEW x \in Nat, Fine(scope, m, x), NEW t \in Tasks, NEW due
    PROVE  Good(scope, m, x, t, {}, due) /\ KindsOK(m.task[t])
  BY DEF Fine, Good, TaskOK

\* What the part does to its task, which ends when it was the last.
Feeds(m, d, t) ==
    /\ d.queue = m.queue /\ \A u \in Tasks \ {t} : d.task[u] = m.task[u]
    /\ d.task[t].status = m.task[t].status /\ d.task[t].renewing = m.task[t].renewing
    /\ d.task[t].next = m.task[t].next /\ d.task[t].requested = m.task[t].requested
    /\ d.task[t].sent = m.task[t].sent /\ Held(d.task[t]) = Held(m.task[t])

Fed(d, t, n) ==
    \/ n = d /\ (t \in Files => HaveSentRequests(d.task[t]) \/ d.task[t].next < Size)
    \/ /\ t \in Files /\ Taken(d.task[t]) = {}
       /\ MayDestroy(d, t, "done") /\ n = Destroy(d, t, "done")

LEMMA FeedPartIs ==
    ASSUME NEW scope, NEW m, NEW x \in Nat, NEW t \in Tasks, NEW offset, NEW due, NEW n,
           MayFeed(scope, m, x, t, offset, due, n)
    PROVE  \E d : Good(scope, d, x, t, {}, due) /\ KindsKept(m, d, t) /\ Feeds(m, d, t) /\ Fed(d, t, n)
<1> DEFINE k == m.task[t]
           G == {offset}
           none == {}
<1>1. Good(scope, m, x, t, G, due) /\ offset \in Parts /\ n = FeedPart(m, t, offset)
  BY DEF MayFeed
<1>2. TaskShape(k) /\ PartsOK(t, k, G) /\ IsManager(m) /\ m.broken \in BOOLEAN
  <2> HIDE DEF k, G
  <2>1. TaskShape(m.task[t]) /\ PartsOK(t, m.task[t], G) /\ Shape(m)
    BY <1>1, PartsOf
  <2> QED BY <2>1 DEF k, Shape
<1>3. k.status = "loading" /\ Held(k) # {} => t \in due \/ AsksFor(m, t)
  BY <1>1 DEF Good, TaskOK
\* The record k becomes l, with nothing in hand.
<1>4. ASSUME NEW l, TaskShape(l), PartsOK(t, l, none), l.status = k.status, l.sent = k.sent,
             l.unchecked = k.unchecked, l.cdn = k.cdn, l.renewing = k.renewing, l.next = k.next,
             l.requested = k.requested, NEW d, d = SetTask(m, t, l)
      PROVE  Good(scope, d, x, t, none, due) /\ d.task[t] = l /\ KindsKept(m, d, t)
             /\ Held(l) = Held(k) /\ d.task[t].sent = k.sent /\ Feeds(m, d, t)
  <2>1. MaySet(scope, m, x, t, G, due, l, none, due)
    <3> HIDE DEF none, G
    <3> QED BY <1>1, <1>3, <1>4 DEF MaySet, HoldsLess, Held
  <2> HIDE DEF none, G
  <2>2. Good(scope, d, x, t, none, due) /\ Puts(m, d, t, l) /\ d.broken = m.broken
    BY ONLY x \in Nat, t \in Tasks, <1>4, <2>1, SetOK
  <2> QED BY <1>4, <2>2 DEF Puts, KindsKept, KindsOK, Held, Feeds
<1>5. CASE t \in Streams
  <2> DEFINE l == [k EXCEPT !.wanted = @ \ {offset}]
  <2>1. t \notin Files
    BY <1>5, Constants
  <2>2. n = SetTask(m, t, l)
    <3>1. n = [m EXCEPT !.task[t].wanted = @ \ {offset}]
      BY <1>1, <1>5, <2>1 DEF FeedPart
    <3> QED BY <3>1 DEF SetTask
  <2> HIDE DEF k
  <2>7. SameShape(k, l) /\ IsTask(l) /\ l.status = k.status /\ l.wanted = k.wanted \ {offset}
        /\ l.renewing = k.renewing
    <3>1. IsTask(k)
      BY <1>2, RecordOf
    <3> QED BY <3>1 DEF IsTask, SameShape
  <2>3. /\ TaskShape(l) /\ l.status = k.status /\ l.sent = k.sent /\ l.unchecked = k.unchecked
        /\ l.cdn = k.cdn /\ l.requested = k.requested /\ l.wanted = k.wanted \ {offset}
        /\ l.renewing = k.renewing /\ l.next = k.next
    BY <1>2, <2>7, ShapeKept DEF SameShape
  <2> HIDE DEF l
  <2>4. Taken(l) = Taken(k) /\ Held(l) = Held(k)
    BY <2>3 DEF Taken, Offsets, Held
  <2>5. PartsOK(t, l, none)
    BY <1>2, <1>5, <2>1, <2>3, <2>4 DEF PartsOK, RequestsOK, StreamOK, Queried
  <2>6. Good(scope, n, x, t, none, due) /\ KindsKept(m, n, t) /\ Feeds(m, n, t)
    BY <1>4, <2>2, <2>3, <2>5
  <2> QED BY <2>1, <2>6 DEF Fed
<1>6. CASE t \in Files
  <2> DEFINE l == [k EXCEPT !.written = @ \union {offset}]
             d == SetTask(m, t, l)
  <2>1. t \notin Streams
    BY <1>6, Constants
  <2>2. /\ FileOK(k, G) /\ k.status = "loading"
    BY <1>2, <1>6 DEF PartsOK, FileOK
  <2>3. Expects(m, k.status = "loading") = m
    <3>1. m = [m EXCEPT !.broken = @ \/ FALSE]
      <4> DEFINE b == m.broken \/ FALSE
      <4>1. b = m.broken
        BY <1>2
      <4> HIDE DEF b
      <4>2. m = [m EXCEPT !.broken = b]
        BY <1>2, <4>1 DEF IsManager
      <4> QED BY <4>2 DEF b
    <3> QED BY <2>2, <3>1 DEF Expects
  <2>4. n = IF ~HaveSentRequests(d.task[t]) /\ d.task[t].next >= Size THEN Destroy(d, t, "done") ELSE d
    <3>1. [Expects(m, m.task[t].status = "loading") EXCEPT !.task[t].written = @ \union {offset}] = d
      BY <2>3 DEF SetTask
    <3> QED BY <1>1, <1>6, <2>1, <3>1 DEF FeedPart
  <2> HIDE DEF k
  <2>12. SameShape(k, l) /\ IsTask(l) /\ l.status = k.status /\ l.written = k.written \union {offset}
        /\ l.renewing = k.renewing
    <3>1. IsTask(k)
      BY <1>2, RecordOf
    <3> QED BY <3>1 DEF IsTask, SameShape
  <2>5. /\ TaskShape(l) /\ l.status = k.status /\ l.sent = k.sent /\ l.unchecked = k.unchecked
        /\ l.cdn = k.cdn /\ l.requested = k.requested /\ l.written = k.written \union {offset}
        /\ l.next = k.next /\ l.renewing = k.renewing
    BY <1>2, <2>12, ShapeKept DEF SameShape
  <2>6. d = SetTask(m, t, l)
    OBVIOUS
  <2> HIDE DEF l, d
  <2>7. Taken(l) = Taken(k) /\ Held(l) = Held(k)
    BY <2>5 DEF Taken, Offsets, Held
  <2>8. PartsOK(t, l, none)
    <3>1. FileOK(l, none)
      BY <1>2, <2>2, <2>5, <2>7 DEF FileOK, PartsOK
    <3> QED BY <1>2, <1>6, <2>1, <2>5, <2>7, <3>1 DEF PartsOK, RequestsOK
  <2>9. Good(scope, d, x, t, none, due) /\ d.task[t] = l /\ KindsKept(m, d, t) /\ Held(l) = Held(k)
        /\ d.task[t].sent = k.sent /\ Feeds(m, d, t)
    BY <1>4, <2>5, <2>6, <2>8
  <2>10. CASE ~(~HaveSentRequests(l) /\ l.next >= Size)
    <3>1. n = d /\ (HaveSentRequests(l) \/ l.next < Size)
      <4>1. l.next \in Nat
        BY <2>5 DEF TaskShape
      <4> QED BY <2>4, <2>9, <2>10, <4>1, Constants
    <3>2. Fed(d, t, n)
      BY <2>9, <3>1 DEF Fed
    <3> QED BY <2>9, <3>2
  <2>11. CASE ~HaveSentRequests(l) /\ l.next >= Size
    <3> DEFINE status == "done"
    <3>1. n = Destroy(d, t, status)
      BY <2>4, <2>9, <2>11
    <3>2. l.sent = <<>> /\ Held(l) = {}
      BY <2>11 DEF HaveSentRequests, Held
    <3>3. Taken(l) = {}
      BY <3>2, EmptyIs DEF Taken, Offsets
    <3>4. l.written = Parts
      <4>1. l.next \in 0 .. Size /\ 0 .. l.next - 1 = l.written \union Taken(l) \union none
        BY <1>6, <2>2, <2>5, <2>8 DEF PartsOK, FileOK
      <4>2. l.next = Size
        BY <2>11, <4>1, Constants
      <4> QED BY <3>3, <4>1, <4>2 DEF Parts
    <3>5. MayDestroy(d, t, status)
      BY <2>9, <3>4 DEF MayDestroy
    <3>6. Fed(d, t, n)
      BY <1>6, <2>9, <3>1, <3>3, <3>5 DEF Fed
    <3> QED BY <2>9, <3>6
  <2> QED BY <2>10, <2>11
<1> QED BY <1>5, <1>6 DEF Tasks

LEMMA FeedPartOK ==
    ASSUME NEW scope, NEW m, NEW x \in Nat, NEW t \in Tasks, NEW offset, NEW due, NEW n,
           MayFeed(scope, m, x, t, offset, due, n)
    PROVE  Good(scope, n, x, t, {}, due) /\ KindsKept(m, n, t) /\ HoldsAsMuch(m, n, t)
<1> DEFINE none == {}
           status == "done"
<1>1. PICK d : Good(scope, d, x, t, none, due) /\ KindsKept(m, d, t) /\ Feeds(m, d, t) /\ Fed(d, t, n)
  <2> HIDE DEF none
  <2>1. {} = none
    BY DEF none
  <2> QED BY <2>1, FeedPartIs
<1>2. CASE n = d
  BY <1>1, <1>2 DEF Feeds, HoldsAsMuch
<1>3. CASE n # d
  <2>1. MayDestroy(d, t, status) /\ n = Destroy(d, t, status) /\ Taken(d.task[t]) = {}
    BY <1>1, <1>3 DEF Fed
  <2>2. Held(m.task[t]) = {}
    BY <1>1, <2>1 DEF Feeds, Taken
  <2> HIDE DEF none, status
  <2>3. Fine(scope, n, x)
    BY ONLY x \in Nat, t \in Tasks, <1>1, <2>1, DestroyOK
  <2>4. Good(scope, n, x, t, none, due) /\ KindsOK(n.task[t])
    BY <2>3, FineGood DEF none
  <2> QED BY <2>2, <2>4 DEF KindsKept, HoldsAsMuch, none
<1> QED BY <1>2, <1>3

\* A part held back comes to hand.
LetGo(m, t, offset) ==
    [m EXCEPT !.task[t].unchecked = [o \in DOMAIN @ \ {offset} |-> @[o]]]

MayLetGo(scope, m, x, t, offset, due, n) ==
    /\ Good(scope, m, x, t, {}, due) /\ ~AsksHashes(m.task[t])
    /\ offset \in Held(m.task[t]) /\ n = LetGo(m, t, offset)

LetsGo(m, n, t, offset) ==
    /\ Held(n.task[t]) = Held(m.task[t]) \ {offset} /\ n.task[t].sent = m.task[t].sent
    /\ KindsKept(m, n, t) /\ Near(m, n, t)

LEMMA LetGoOK ==
    ASSUME NEW scope, NEW m, NEW x \in Nat, NEW t \in Tasks, NEW offset, NEW due, NEW n,
           MayLetGo(scope, m, x, t, offset, due, n)
    PROVE  Good(scope, n, x, t, {offset}, due) /\ LetsGo(m, n, t, offset)
<1> DEFINE k == m.task[t]
           left == [o \in Held(k) \ {offset} |-> k.unchecked[o]]
           l == [k EXCEPT !.unchecked = left]
           G == {offset}
           none == {}
<1>1. /\ Good(scope, m, x, t, none, due) /\ ~AsksHashes(k)
      /\ offset \in Held(k) /\ n = LetGo(m, t, offset)
  BY DEF MayLetGo
<1>2. TaskShape(k) /\ PartsOK(t, k, none)
  <2> HIDE DEF k, none
  <2>1. TaskShape(m.task[t]) /\ PartsOK(t, m.task[t], none)
    BY <1>1, PartsOf
  <2> QED BY <2>1 DEF k
<1>3. k.status = "loading" /\ Held(k) # {} => t \in due \/ AsksFor(m, t)
  BY <1>1 DEF Good, TaskOK
<1>4. n = SetTask(m, t, l)
  BY <1>1 DEF LetGo, SetTask, Held
<1>5. l = [k EXCEPT !.unchecked = left]
  OBVIOUS
<1> HIDE DEF k, l
<1>6. IsTask(k)
  BY <1>2, RecordOf
<1>7. /\ IsTask(l) /\ l.status = k.status /\ l.sent = k.sent /\ l.unchecked = left
      /\ l.cdn = k.cdn /\ l.next = k.next /\ l.written = k.written /\ l.requested = k.requested
      /\ l.level = k.level /\ l.priority = k.priority /\ l.wanted = k.wanted
      /\ l.renewing = k.renewing
  <2> HIDE DEF left
  <2> QED BY <1>5, <1>6 DEF IsTask
<1>8. /\ Held(l) = Held(k) \ {offset}
      /\ \A o \in Held(l) : l.unchecked[o] = k.unchecked[o]
      /\ l.unchecked = [o \in Held(l) |-> l.unchecked[o]]
  BY <1>7 DEF Held
<1>9. TaskShape(l)
  <2> HIDE DEF left
  <2>1. Held(l) \subseteq Parts /\ \A o \in Held(l) : l.unchecked[o] \in Nat
    BY <1>2, <1>8 DEF TaskShape
  <2>2. IsSeq(l.sent) /\ \A r \in ToSet(l.sent) : IsRequest(r)
    BY <1>2, <1>7 DEF TaskShape
  <2>3. l.cdn \in BOOLEAN /\ l.next \in Nat /\ l.level \in Nat /\ l.priority \in Nat
        /\ l.requested \subseteq [offset : Parts, priority : 0 .. l.level]
    BY <1>2, <1>7 DEF TaskShape
  <2>4. IsTask(l)
    BY <1>7
  <2>5. l.unchecked = [o \in Held(l) |-> l.unchecked[o]]
    BY Zenon, <1>8
  <2> QED BY ONLY <2>1, <2>2, <2>3, <2>4, <2>5 DEF TaskShape, IsTask
<1>10. Taken(k) = Taken(l) \union G /\ G \intersect Taken(l) = {} /\ Queried(l) = Queried(k)
  <2>1. offset \notin Offsets(k)
    BY <1>1, <1>2 DEF PartsOK, RequestsOK, Offsets, AsksHashes
  <2> QED BY <1>1, <1>7, <1>8, <2>1 DEF Taken, Offsets, Queried
<1>11. PartsOK(t, l, G)
  <2>1. RequestsOK(l)
    BY <1>1, <1>2, <1>7, <1>8 DEF PartsOK, RequestsOK, AsksHashes
  <2>2. t \in Files => FileOK(l, G)
    BY <1>2, <1>7, <1>10 DEF PartsOK, FileOK
  <2>3. t \in Streams => StreamOK(l, G)
    BY <1>2, <1>7, <1>10 DEF PartsOK, StreamOK
  <2> QED BY <1>10, <2>1, <2>2, <2>3 DEF PartsOK
<1>12. MaySet(scope, m, x, t, none, due, l, G, due)
  <2> HIDE DEF none, G, left
  <2> QED BY <1>1, <1>3, <1>7, <1>8, <1>9, <1>11 DEF MaySet, HoldsLess, k
<1> HIDE DEF none, G, left
<1>13. Good(scope, n, x, t, G, due) /\ Puts(m, n, t, l) /\ n.broken = m.broken
  BY ONLY x \in Nat, t \in Tasks, <1>4, <1>12, SetOK
<1>14. Near(m, n, t)
  BY <1>7, <1>13, NearPut DEF Puts, k
<1>15. LetsGo(m, n, t, offset)
  BY <1>1, <1>7, <1>8, <1>13, <1>14 DEF LetsGo, Puts, KindsKept, KindsOK, k
<1> QED BY <1>13, <1>15 DEF G

\* Before the part k is looked at.
Feeding(scope, m, x, t, good, k) ==
    /\ Good(scope, m, x, t, {}, {t}) /\ KindsOK(m.task[t])
    /\ \A o \in good : o >= k => o \in Held(m.task[t]) /\ ~AsksHashes(m.task[t])

\* One part is looked at, and fed if it is good.
FeedsOne(scope, x, d, e, t, offset) ==
    \E f : LetsGo(d, f, t, offset) /\ MayFeed(scope, f, x, t, offset, {t}, e)

LEMMA FeedOneIs ==
    ASSUME NEW scope, NEW d, NEW x \in Nat, NEW t \in Tasks, NEW good, good \subseteq Parts,
           NEW offset \in Parts, NEW k, k = offset + 1, Feeding(scope, d, x, t, good, offset),
           NEW e, e = FeedOne(d, t, offset, good)
    PROVE  /\ Feeding(scope, e, x, t, good, k)
           /\ e = d \/ (offset \in Held(d.task[t]) /\ FeedsOne(scope, x, d, e, t, offset))
<1> DEFINE due == {t}
<1>1. k \in Nat /\ offset \in Nat /\ \A o \in good : o \in Nat /\ (o >= k => o >= offset /\ o # offset)
  BY Constants
<1>2. offset >= offset
  BY <1>1
<1>3. CASE offset \notin good
  <2>1. e = d
    BY <1>3 DEF FeedOne
  <2>2. Feeding(scope, e, x, t, good, k)
    BY <1>1, <2>1 DEF Feeding
  <2> QED BY <2>1, <2>2
<1>4. CASE offset \in good
  <2> DEFINE f == LetGo(d, t, offset)
  <2>1. e = FeedPart(f, t, offset)
    BY <1>4 DEF FeedOne, LetGo
  <2>2. MayLetGo(scope, d, x, t, offset, due, f)
    BY <1>2, <1>4 DEF MayLetGo, Feeding
  <2> HIDE DEF f, due
  <2>3. Good(scope, f, x, t, {offset}, due) /\ LetsGo(d, f, t, offset)
    BY ONLY x \in Nat, t \in Tasks, <2>2, LetGoOK
  <2>4. MayFeed(scope, f, x, t, offset, due, e)
    BY <2>1, <2>3 DEF MayFeed
  <2>5. Good(scope, e, x, t, {}, due) /\ KindsKept(f, e, t) /\ HoldsAsMuch(f, e, t)
    BY ONLY x \in Nat, t \in Tasks, <2>4, FeedPartOK
  <2>6. KindsOK(e.task[t])
    BY <2>3, <2>5 DEF Feeding, LetsGo, KindsKept
  <2>7. ASSUME NEW o \in good, o >= k PROVE o \in Held(e.task[t]) /\ ~AsksHashes(e.task[t])
    <3>1. o \in Held(d.task[t]) /\ ~AsksHashes(d.task[t]) /\ o # offset
      BY <1>1, <2>7 DEF Feeding
    <3>2. o \in Held(f.task[t]) /\ ~AsksHashes(f.task[t])
      BY <2>3, <3>1 DEF LetsGo, AsksHashes
    <3> QED BY <2>5, <3>2 DEF HoldsAsMuch, AsksHashes
  <2>8. Feeding(scope, e, x, t, good, k)
    BY <2>5, <2>6, <2>7 DEF Feeding, due
  <2>9. offset \in Held(d.task[t])
    BY <1>2, <1>4 DEF Feeding
  <2> QED BY <2>3, <2>4, <2>8, <2>9 DEF FeedsOne, due
<1> QED BY <1>3, <1>4

LEMMA FeedCheckedOK ==
    ASSUME NEW scope, NEW m, NEW x \in Nat, NEW t \in Tasks, NEW good, good \subseteq Parts,
           Feeding(scope, m, x, t, good, 0), NEW n, n = FeedChecked(m, t, good)
    PROVE  Feeding(scope, n, x, t, good, Size)
<1> DEFINE q == InOrder
           a == <<t, good>>
           kind == "feed"
<1>1. /\ Len(q) = Size /\ DOMAIN q = 1 .. Len(q) /\ Size \in Nat
      /\ \A k \in 1 .. Size : q[k] = k - 1
  <2>1. Size \in Nat /\ q = [i \in 1 .. Size |-> i - 1]
    BY Constants DEF InOrder
  <2> HIDE DEF q
  <2>2. q \in Seq(Int)
    BY <2>1
  <2>3. DOMAIN q = 1 .. Size /\ \A k \in 1 .. Size : q[k] = k - 1
    BY <2>1
  <2>4. Len(q) \in Nat /\ DOMAIN q = 1 .. Len(q)
    BY <2>2
  <2>5. Len(q) = Size
    BY <2>1, <2>3, <2>4
  <2> QED BY <2>1, <2>3, <2>4, <2>5
<1>2. PICK g, c : Goes(g, kind, a, q, m, c) /\ n = c
  BY <1>1, FeedGoes
<1>3. kind = "feed" /\ a[1] = t /\ a[2] = good
  OBVIOUS
<1> HIDE DEF q, a, kind
<1> DEFINE P == {k \in 0 .. Len(q) : Feeding(scope, g[k], x, t, good, k)}
<1>4. 0 \in P
  BY <1>1, <1>2 DEF Goes
<1>5. ASSUME NEW k \in 1 .. Len(q), k - 1 \in P PROVE k \in P
  <2> DEFINE d == g[k - 1]
             e == g[k]
             offset == k - 1
  <2>1. e = FeedOne(d, t, offset, good)
    BY <1>1, <1>2, <1>3 DEF Goes, Each
  <2>2. Feeding(scope, d, x, t, good, offset)
    BY <1>5
  <2>3. k = offset + 1 /\ offset \in Parts
    BY <1>1, Constants
  <2> HIDE DEF d, e, offset
  <2>4. Feeding(scope, e, x, t, good, k)
    BY <2>1, <2>2, <2>3, FeedOneIs
  <2> QED BY <1>1, <2>4 DEF e
<1>6. Len(q) \in P
  <2> HIDE DEF P
  <2> QED BY <1>1, <1>4, <1>5, ByNumber
<1> QED BY <1>1, <1>2, <1>6 DEF Goes

MayCheck(scope, m, x, t, wrong, n) ==
    /\ Good(scope, m, x, t, {}, {t}) /\ KindsOK(m.task[t]) /\ ~AsksHashes(m.task[t])
    /\ n = CheckUnchecked(m, t, wrong)

\* The parts held back that are good are fed, and then the task fails, has ended
\* or asks for more hashes.
Checks(scope, m, x, t, n) ==
    \E good, fed :
        /\ good \subseteq Parts /\ Feeding(scope, m, x, t, good, 0) /\ fed = FeedChecked(m, t, good)
        /\ \/ MayFail(scope, fed, x, t, {}, {t}, n)
           \/ n = fed
           \/ Beside(fed, n, t) /\ AsksMore(fed, n, t)

LEMMA CheckUncheckedOK ==
    ASSUME NEW scope, NEW m, NEW x \in Nat, NEW t \in Tasks, NEW wrong, NEW n,
           MayCheck(scope, m, x, t, wrong, n)
    PROVE  Fine(scope, n, x) /\ Checks(scope, m, x, t, n)
<1> DEFINE known == DOMAIN m.task[t].unchecked \intersect m.task[t].hashes
           good == {o \in known : \A w \in wrong \intersect known : o < w}
           fed == FeedChecked(m, t, good)
           none == {}
           due == {t}
<1>1. /\ Good(scope, m, x, t, none, due) /\ KindsOK(m.task[t]) /\ ~AsksHashes(m.task[t])
      /\ n = CheckUnchecked(m, t, wrong)
  BY DEF MayCheck
<1>2. \/ n = CancelOnFail(fed, t)
      \/ n = fed /\ fed.task[t].status = "done"
      \/ n = RequestMoreHashes(fed, t)
  <2>1. n = CASE good # known \/ known = {} -> CancelOnFail(fed, t)
              [] fed.task[t].status = "done" -> fed
              [] OTHER -> RequestMoreHashes(fed, t)
    BY <1>1 DEF CheckUnchecked
  <2> HIDE DEF known, good, fed
  <2> QED BY <2>1
<1>3. good \subseteq Held(m.task[t])
  BY DEF Held
<1>4. fed = FeedChecked(m, t, good)
  OBVIOUS
<1> HIDE DEF good, fed
<1>5. good \subseteq Parts
  BY <1>1, <1>3, ShapeFields DEF Good
<1>6. Feeding(scope, m, x, t, good, 0)
  BY <1>1, <1>3 DEF Feeding
<1>7. Good(scope, fed, x, t, none, due) /\ KindsOK(fed.task[t])
  <2>1. Feeding(scope, fed, x, t, good, Size)
    BY <1>4, <1>5, <1>6, FeedCheckedOK
  <2> QED BY <2>1 DEF Feeding
<1>11. ASSUME \/ MayFail(scope, fed, x, t, none, due, n) \/ n = fed
              \/ Beside(fed, n, t) /\ AsksMore(fed, n, t)
       PROVE  Checks(scope, m, x, t, n)
  BY <1>4, <1>5, <1>6, <1>11 DEF Checks
<1> HIDE DEF none, due
<1>8. CASE n = CancelOnFail(fed, t)
  <2>1. MayFail(scope, fed, x, t, none, due, n)
    BY <1>7, <1>8 DEF MayFail
  <2>2. Fine(scope, n, x)
    BY ONLY x \in Nat, t \in Tasks, <2>1, CancelOnFailOK
  <2> QED BY <1>11, <2>1, <2>2
<1>9. CASE n = fed /\ fed.task[t].status = "done"
  <2>1. Good(scope, n, x, t, none, {})
    BY <1>7, <1>9 DEF Good, TaskOK
  <2> QED BY <1>7, <1>9, <1>11, <2>1, GoodFine DEF none
<1>10. CASE n = RequestMoreHashes(fed, t)
  <2>1. /\ Good(scope, n, x, t, none, {}) /\ KindsOK(n.task[t]) /\ Beside(fed, n, t)
        /\ AsksMore(fed, n, t)
    BY <1>7, <1>10, RequestMoreHashesOK
  <2> QED BY <1>11, <2>1, GoodFine DEF none
<1> QED BY <1>2, <1>8, <1>9, <1>10

MayHold(scope, m, x, t, r) ==
    /\ Good(scope, m, x, t, {r.offset}, {}) /\ m.task[t].cdn
    /\ r.offset \in Parts /\ r.session \in Nat
    /\ scope = "all" => r.session \in DOMAIN m.sessions /\ Queued(m, t)

\* The part is held back, or fed, or the task fails.
Takes(scope, m, x, t, r, n) ==
    \/ \E d : /\ Near(m, d, t) /\ d.task[t].sent = m.task[t].sent
              /\ Beside(d, n, t) /\ AsksMore(d, n, t)
    \/ MayFeed(scope, m, x, t, r.offset, {}, n)
    \/ MayFail(scope, m, x, t, {r.offset}, {}, n)

LEMMA CdnPartOK ==
    ASSUME NEW scope, NEW m, NEW x \in Nat, NEW t \in Tasks, NEW r, NEW good, NEW n,
           MayHold(scope, m, x, t, r), n = CdnPart(m, t, r, good)
    PROVE  Fine(scope, n, x) /\ Takes(scope, m, x, t, r, n)
<1> DEFINE k == m.task[t]
           offset == r.offset
           G == {offset}
           none == {}
           due == {t}
           more == [o \in Held(k) \union {offset} |-> IF o \in Held(k) THEN k.unchecked[o] ELSE r.session]
           l == [k EXCEPT !.unchecked = more]
           d == SetTask(m, t, l)
<1>1. /\ Good(scope, m, x, t, G, none) /\ k.cdn /\ offset \in Parts /\ r.session \in Nat
      /\ scope = "all" => r.session \in DOMAIN m.sessions /\ Queued(m, t)
  BY DEF MayHold
<1>2. /\ TaskShape(k) /\ PartsOK(t, k, G)
      /\ G \intersect Taken(k) = {} /\ KindsOK(k)
  <2> HIDE DEF k, none, G
  <2>1. TaskShape(m.task[t]) /\ PartsOK(t, m.task[t], G)
    BY <1>1, PartsOf
  <2> QED BY <1>1, <2>1 DEF k, PartsOK, KindsOK
<1>3. \/ n = RequestMoreHashes(d, t)
      \/ n = FeedPart(m, t, offset)
      \/ n = CancelOnFail(m, t)
  <2>1. [m EXCEPT !.task[t].unchecked =
            [o \in DOMAIN @ \union {r.offset} |-> IF o \in DOMAIN @ THEN @[o] ELSE r.session]] = d
    BY DEF SetTask, Held
  <2>2. n = CASE offset \notin k.hashes -> RequestMoreHashes(d, t)
              [] offset \in k.hashes /\ good -> FeedPart(m, t, offset)
              [] OTHER -> CancelOnFail(m, t)
    BY <2>1 DEF CdnPart
  <2> HIDE DEF d, k, offset
  <2> QED BY <2>2
<1>4. CASE n = RequestMoreHashes(d, t)
  <2>1. l = [k EXCEPT !.unchecked = more] /\ d = SetTask(m, t, l)
    OBVIOUS
  <2> HIDE DEF d, l, k, offset
  <2>2. IsTask(k)
    BY <1>2, RecordOf
  <2>3. /\ IsTask(l) /\ l.status = k.status /\ l.sent = k.sent /\ l.unchecked = more
        /\ l.cdn = k.cdn /\ l.next = k.next /\ l.written = k.written /\ l.requested = k.requested
        /\ l.level = k.level /\ l.priority = k.priority /\ l.wanted = k.wanted
        /\ l.renewing = k.renewing
    <3> HIDE DEF more
    <3> QED BY <2>1, <2>2 DEF IsTask
  <2>4. /\ Held(l) = Held(k) \union {offset}
        /\ \A o \in Held(l) : l.unchecked[o] = IF o \in Held(k) THEN k.unchecked[o] ELSE r.session
        /\ l.unchecked = [o \in Held(l) |-> l.unchecked[o]]
    BY <2>3 DEF Held
  <2> HIDE DEF more
  <2>5. TaskShape(l)
    <3>1. Held(l) \subseteq Parts /\ \A o \in Held(l) : l.unchecked[o] \in Nat
      BY <1>1, <1>2, <2>4 DEF TaskShape
    <3>2. IsSeq(l.sent) /\ \A e \in ToSet(l.sent) : IsRequest(e)
      BY <1>2, <2>3 DEF TaskShape
    <3>3. l.cdn \in BOOLEAN /\ l.next \in Nat /\ l.level \in Nat /\ l.priority \in Nat
          /\ l.requested \subseteq [offset : Parts, priority : 0 .. l.level]
      BY <1>2, <2>3 DEF TaskShape
    <3>4. IsTask(l)
      BY <2>3
    <3>5. l.unchecked = [o \in Held(l) |-> l.unchecked[o]]
      BY <2>4
    <3> QED BY ONLY <3>1, <3>2, <3>3, <3>4, <3>5 DEF TaskShape, IsTask
  <2>6. Taken(l) = Taken(k) \union G /\ Queried(l) = Queried(k)
    BY <2>3, <2>4 DEF Taken, Offsets, Queried
  <2>7. PartsOK(t, l, none)
    <3>1. RequestsOK(l)
      <4>1. \A e \in ToSet(k.sent) : e.offset # offset
        BY <1>2 DEF Taken, Offsets
      <4> QED BY <1>2, <2>3, <2>4, <4>1 DEF PartsOK, RequestsOK
    <3>2. t \in Files => FileOK(l, none)
      BY <1>2, <2>3, <2>6 DEF PartsOK, FileOK
    <3>3. t \in Streams => StreamOK(l, none)
      BY <1>2, <2>3, <2>6 DEF PartsOK, StreamOK
    <3> QED BY <3>1, <3>2, <3>3 DEF PartsOK
  <2>8. MaySet(scope, m, x, t, G, none, l, none, due)
    <3>1. ASSUME scope = "all" PROVE Backed(m, t, l)
      <4>1. InSessions(m)
        BY <1>1, <3>1 DEF Good, BalanceOK
      <4>2. \A o \in Held(k) : k.unchecked[o] \in DOMAIN m.sessions
        BY <4>1 DEF InSessions, k
      <4> QED BY <1>1, <2>4, <3>1, <4>2 DEF Backed
    <3>2. l.sent = m.task[t].sent
      BY <2>3 DEF k
    <3>3. Good(scope, m, x, t, G, none) /\ t \in due
      BY <1>1
    <3> HIDE DEF none, G, due
    <3> QED BY <2>5, <2>7, <3>1, <3>2, <3>3 DEF MaySet
  <2> HIDE DEF none, G, due
  <2>9. Good(scope, d, x, t, none, due) /\ Puts(m, d, t, l) /\ d.broken = m.broken
    BY ONLY x \in Nat, t \in Tasks, <2>1, <2>8, SetOK
  <2>10. KindsOK(d.task[t])
    BY <1>1, <2>3, <2>9 DEF Puts, KindsOK
  <2>11. /\ Good(scope, n, x, t, none, {}) /\ KindsOK(n.task[t])
         /\ Beside(d, n, t) /\ AsksMore(d, n, t)
    BY <1>4, <2>9, <2>10, RequestMoreHashesOK
  <2>12. Near(m, d, t) /\ d.task[t].sent = m.task[t].sent
    BY <2>3, <2>9, NearPut DEF Puts, k
  <2>13. Takes(scope, m, x, t, r, n)
    BY <2>11, <2>12 DEF Takes
  <2> QED BY <2>11, <2>13, GoodFine DEF none
<1>5. CASE n = FeedPart(m, t, offset)
  <2>1. MayFeed(scope, m, x, t, offset, none, n)
    BY <1>1, <1>5 DEF MayFeed
  <2>4. Takes(scope, m, x, t, r, n)
    BY <2>1 DEF Takes
  <2> HIDE DEF none, offset
  <2>2. Good(scope, n, x, t, {}, none) /\ KindsKept(m, n, t) /\ HoldsAsMuch(m, n, t)
    BY ONLY x \in Nat, t \in Tasks, <2>1, FeedPartOK
  <2>3. KindsOK(n.task[t])
    BY <1>2, <2>2 DEF KindsKept
  <2> QED BY <2>2, <2>3, <2>4, GoodFine DEF none
<1>6. CASE n = CancelOnFail(m, t)
  <2>1. MayFail(scope, m, x, t, G, none, n)
    BY <1>1, <1>2, <1>6 DEF MayFail
  <2>2. Takes(scope, m, x, t, r, n)
    BY <2>1 DEF Takes
  <2> HIDE DEF none, G
  <2>3. Fine(scope, n, x)
    BY ONLY x \in Nat, t \in Tasks, <2>1, CancelOnFailOK
  <2> QED BY <2>2, <2>3
<1> QED BY <1>3, <1>4, <1>5, <1>6

-----------------------------------------------------------------------------
(* What was sent is sent again.                                              *)

OffsetsOf(S) == {r.offset : r \in S}

\* What t had sent is sent no more but for left, and the rest is in hand.
Finishing(scope, m, x, t, G, due, d, left) ==
    /\ Good(scope, d, x, t, G \union (Offsets(m.task[t]) \ OffsetsOf(left)), due)
    /\ Beside(m, d, t) /\ ToSet(d.task[t].sent) = left

MayResend(scope, m, x, t, G, due) ==
    Good(scope, m, x, t, G, due) /\ Held(m.task[t]) = {}

LEMMA FinishesOK ==
    ASSUME NEW scope, NEW m, NEW x \in Nat, NEW t \in Tasks, NEW G, NEW due,
           MayResend(scope, m, x, t, G, due), NEW n, n = Finishes(m, t)
    PROVE  Finishing(scope, m, x, t, G, due, n, {})
<1> DEFINE q == m.task[t].sent
           a == <<t>>
           kind == "finish"
<1>0. Good(scope, m, x, t, G, due) /\ Held(m.task[t]) = {}
  BY DEF MayResend
<1>1. IsSeq(q) /\ Alone(q) /\ Len(q) \in Nat /\ DOMAIN q = 1 .. Len(q)
  <2>1. IsSeq(q) /\ Alone(q)
    BY <1>0, ShapeFields DEF Good, TaskOK, RequestsOK
  <2> QED BY <2>1, SeqLen
<1>2. PICK g, c : Goes(g, kind, a, q, m, c) /\ n = c
  BY <1>1, FinishGoes
<1>3. a[1] = t /\ kind = "finish"
  OBVIOUS
<1>4. Offsets(m.task[t]) = OffsetsOf(ToSet(q)) /\ \A r \in ToSet(q) : r.kind # "hashes"
  BY <1>0 DEF Offsets, OffsetsOf, Good, TaskOK, RequestsOK
<1> HIDE DEF q, a, kind
<1> DEFINE P == {k \in 0 .. Len(q) : Finishing(scope, m, x, t, G, due, g[k], Rest(q, k))}
<1>5. 0 \in P
  <2>1. g[0] = m /\ Rest(q, 0) = ToSet(q)
    BY <1>1, <1>2, RestIs DEF Goes
  <2>2. Offsets(m.task[t]) \ OffsetsOf(Rest(q, 0)) = {}
    BY <1>4, <2>1
  <2>3. G \union (Offsets(m.task[t]) \ OffsetsOf(Rest(q, 0))) = G
    BY <2>2
  <2>4. Finishing(scope, m, x, t, G, due, g[0], Rest(q, 0))
    BY <1>0, <2>1, <2>3, BesideSame DEF Finishing, q
  <2> QED BY <1>1, <2>4
<1>6. ASSUME NEW k \in 1 .. Len(q), k - 1 \in P PROVE k \in P
  <2> DEFINE d == g[k - 1]
             e == g[k]
             r == q[k]
             old == Rest(q, k - 1)
             left == Rest(q, k)
             H == G \union (Offsets(m.task[t]) \ OffsetsOf(old))
             I == G \union (Offsets(m.task[t]) \ OffsetsOf(left))
  <2>1. Good(scope, d, x, t, H, due) /\ Beside(m, d, t) /\ ToSet(d.task[t].sent) = old
    BY <1>6 DEF Finishing
  <2>2. e = FinishSentRequest(d, t, r)
    BY <1>2, <1>3 DEF Goes, Each
  <2>3. r \in old /\ left = old \ {r} /\ r \in ToSet(q) /\ r.kind # "hashes"
    BY <1>1, <1>4, RestIs
  <2>4. \A f \in left : f.offset # r.offset
    <3>1. k - 1 \in 0 .. Len(q)
      BY <1>1
    <3>2. old \subseteq ToSet(q)
      BY <1>1, <3>1, RestIs
    <3>3. ASSUME NEW f \in ToSet(q), f.offset = r.offset PROVE f = r
      <4>1. PICK i \in 1 .. Len(q) : q[i] = f
        BY <1>1, InToSet
      <4> QED BY <1>1, <3>3, <4>1 DEF Alone
    <3> QED BY <2>3, <3>2, <3>3
  <2> HIDE DEF d, e, r, old, left
  <2>5. r.offset \in Offsets(m.task[t]) /\ OffsetsOf(left) = OffsetsOf(old) \ {r.offset}
    BY <1>4, <2>3, <2>4 DEF OffsetsOf
  <2>6. I = H \union {r.offset}
    BY <2>5
  <2> HIDE DEF H, I
  <2>7. Releases(H, r, I, t, due, due)
    BY <2>3, <2>6 DEF Releases, Frees
  <2>8. Good(scope, e, x, t, I, due) /\ Beside(d, e, t) /\ e.posted = d.posted /\ Unsent(d, e, t, r)
    <3>1. r \in ToSet(d.task[t].sent) /\ Good(scope, d, x, t, H, due)
      BY <2>1, <2>3
    <3> QED BY ONLY x \in Nat, t \in Tasks, <2>2, <2>7, <3>1, FinishOK
  <2>9. Finishing(scope, m, x, t, G, due, e, left)
    BY <2>1, <2>3, <2>8, BesideTwice DEF Finishing, Unsent, I
  <2> QED BY <1>1, <2>9 DEF e, left
<1>7. Len(q) \in P
  <2> HIDE DEF P
  <2> QED BY <1>1, <1>5, <1>6, ByNumber
<1>8. Rest(q, Len(q)) = {}
  BY <1>1, RestIs
<1> QED BY <1>2, <1>7, <1>8 DEF Goes

\* What t had sent is sent again but for left, which is in hand still.
Making(scope, m, x, t, G, due, d, left) ==
    /\ Good(scope, d, x, t, G \union OffsetsOf(left), due)
    /\ Beside(m, d, t) /\ \A r \in ToSet(d.task[t].sent) : r.kind = KindOf(m.task[t])

LEMMA ResendAllOK ==
    ASSUME NEW scope, NEW m, NEW x \in Nat, NEW t \in Tasks, NEW G, NEW due,
           MayResend(scope, m, x, t, G, due), NEW n, n = ResendAll(m, t)
    PROVE  Good(scope, n, x, t, G, due) /\ Beside(m, n, t) /\ KindsOK(n.task[t])
<1> DEFINE q == m.task[t].sent
           a == <<t>>
           kind == "make"
           b == Finishes(m, t)
<1>0. Good(scope, m, x, t, G, due) /\ Held(m.task[t]) = {}
  BY DEF MayResend
<1>1. IsSeq(q) /\ Alone(q) /\ Len(q) \in Nat /\ DOMAIN q = 1 .. Len(q)
  <2>1. IsSeq(q) /\ Alone(q)
    BY <1>0, ShapeFields DEF Good, TaskOK, RequestsOK
  <2> QED BY <2>1, SeqLen
<1>2. PICK g, c : Goes(g, kind, a, q, b, c) /\ n = c
  BY <1>1, MakeGoes
<1>3. a[1] = t /\ kind = "make" /\ b = Finishes(m, t)
  OBVIOUS
<1>4. Offsets(m.task[t]) = OffsetsOf(ToSet(q)) /\ G \intersect Offsets(m.task[t]) = {}
  BY <1>0 DEF Offsets, OffsetsOf, Good, TaskOK, Taken
<1>5. \A r \in ToSet(q) : /\ r.offset \in Parts /\ r.session \in Nat
                          /\ scope = "all" => r.session \in DOMAIN m.sessions /\ Queued(m, t)
  <2>1. Shape(m)
    BY <1>0 DEF Good
  <2>2. \A r \in ToSet(q) : r.offset \in Parts /\ r.session \in Nat
    BY <2>1, ShapeFields
  <2>3. ASSUME NEW r \in ToSet(q), scope = "all" PROVE r.session \in DOMAIN m.sessions /\ Queued(m, t)
    <3>1. BalanceOK(m, x)
      BY <1>0, <2>3 DEF Good
    <3>2. r.offset \in Taken(m.task[t])
      BY DEF Taken, Offsets
    <3> QED BY <3>1, <3>2 DEF BalanceOK, InSessions
  <2> QED BY <2>2, <2>3
<1> HIDE DEF b
<1>6. Finishing(scope, m, x, t, G, due, b, {})
  BY <1>3, FinishesOK
<1> HIDE DEF q, a, kind
<1> DEFINE P == {k \in 0 .. Len(q) : Making(scope, m, x, t, G, due, g[k], Rest(q, k))}
<1>7. 0 \in P
  <2>1. g[0] = b /\ Rest(q, 0) = ToSet(q)
    BY <1>1, <1>2, RestIs DEF Goes
  <2>2. OffsetsOf({}) = {}
    BY DEF OffsetsOf
  <2>3. G \union (Offsets(m.task[t]) \ OffsetsOf({})) = G \union OffsetsOf(Rest(q, 0))
    BY <1>4, <2>1, <2>2
  <2>4. Making(scope, m, x, t, G, due, g[0], Rest(q, 0))
    BY <1>6, <2>1, <2>3 DEF Finishing, Making
  <2> QED BY <1>1, <2>4
<1>8. ASSUME NEW k \in 1 .. Len(q), k - 1 \in P PROVE k \in P
  <2> DEFINE d == g[k - 1]
             e == g[k]
             r == q[k]
             old == Rest(q, k - 1)
             left == Rest(q, k)
             H == G \union OffsetsOf(old)
             I == G \union OffsetsOf(left)
  <2>1. /\ Good(scope, d, x, t, H, due) /\ Beside(m, d, t)
        /\ \A f \in ToSet(d.task[t].sent) : f.kind = KindOf(m.task[t])
    BY <1>8 DEF Making
  <2>2. e = MakeRequest(d, t, r.offset, r.session)
    BY <1>2, <1>3 DEF Goes, Each
  <2>3. r \in old /\ left = old \ {r} /\ r \in ToSet(q)
    BY <1>1, RestIs
  <2>4. \A f \in left : f.offset # r.offset
    <3>1. k - 1 \in 0 .. Len(q)
      BY <1>1
    <3>2. old \subseteq ToSet(q)
      BY <1>1, <3>1, RestIs
    <3>3. ASSUME NEW f \in ToSet(q), f.offset = r.offset PROVE f = r
      <4>1. PICK i \in 1 .. Len(q) : q[i] = f
        BY <1>1, InToSet
      <4> QED BY <1>1, <3>3, <4>1 DEF Alone
    <3> QED BY <2>3, <3>2, <3>3
  <2> HIDE DEF d, e, r, old, left
  <2>5. r.offset \notin G /\ r.offset \in OffsetsOf(old) /\ OffsetsOf(left) = OffsetsOf(old) \ {r.offset}
    BY <1>4, <2>3, <2>4 DEF OffsetsOf
  <2>6. I = H \ {r.offset} /\ r.offset \in H
    BY <2>5
  <2> HIDE DEF H, I
  <2> DEFINE offset == r.offset
             i == r.session
  <2>7. MayMake(scope, d, x, t, H, due, offset, i, I, e)
    <3>1. DOMAIN d.sessions = DOMAIN m.sessions
      <4>1. Shape(d) /\ Shape(m) /\ Len(d.sessions) = Len(m.sessions)
        BY <1>0, <2>1 DEF Good, Beside
      <4> QED BY <4>1, ShapeNumbers
    <3>2. Queued(m, t) => Queued(d, t)
      BY <2>1 DEF Beside, Queued
    <3> QED BY <1>5, <2>1, <2>2, <2>3, <2>6, <3>1, <3>2 DEF MayMake
  <2> HIDE DEF offset, i
  <2>8. /\ Good(scope, e, x, t, I, due) /\ Beside(d, e, t) /\ e.posted = d.posted
        /\ Made(d, e, t, KindOf(d.task[t]), offset, i) /\ KindsKept(d, e, t)
    BY ONLY x \in Nat, t \in Tasks, <2>7, MakeOK
  <2>9. KindOf(d.task[t]) = KindOf(m.task[t])
    BY <2>1 DEF KindOf, Beside, KeepsAll
  <2>10. \A f \in ToSet(e.task[t].sent) : f.kind = KindOf(m.task[t])
    BY <2>1, <2>8, <2>9 DEF Made
  <2>11. Making(scope, m, x, t, G, due, e, left)
    BY <2>1, <2>8, <2>10, BesideTwice DEF Making, I
  <2> QED BY <1>1, <2>11 DEF e, left
<1>9. Len(q) \in P
  <2> HIDE DEF P
  <2> QED BY <1>1, <1>7, <1>8, ByNumber
<1>10. Rest(q, Len(q)) = {} /\ OffsetsOf({}) = {}
  BY <1>1, RestIs DEF OffsetsOf
<1>11. G \union OffsetsOf({}) = G
  BY <1>10
<1>12. /\ Good(scope, n, x, t, G, due) /\ Beside(m, n, t)
       /\ \A f \in ToSet(n.task[t].sent) : f.kind = KindOf(m.task[t])
  BY <1>2, <1>9, <1>10, <1>11 DEF Goes, Making
<1>13. KindsOK(n.task[t])
  BY <1>0, <1>12 DEF KindsOK, KindOf, Beside, KeepsAll, Held
<1> QED BY <1>12, <1>13

MayChange(scope, m, x, t, r, cdn) ==
    /\ Good(scope, m, x, t, {r.offset}, {}) /\ KindsOK(m.task[t]) /\ cdn \in BOOLEAN
    /\ r.offset \in Parts /\ r.session \in Nat
    /\ scope = "all" => r.session \in DOMAIN m.sessions /\ Queued(m, t)
    /\ cdn # m.task[t].cdn => Held(m.task[t]) = {}

LEMMA ChangeCDNParamsOK ==
    ASSUME NEW scope, NEW m, NEW x \in Nat, NEW t \in Tasks, NEW r, NEW cdn, NEW hashes,
           MayChange(scope, m, x, t, r, cdn), NEW n, n = ChangeCDNParams(m, t, r, cdn, hashes)
    PROVE  Fine(scope, n, x) /\ Near(m, n, t) /\ AsksParts(n.task[t])
<1> DEFINE k == m.task[t]
           offset == r.offset
           i == r.session
           G == {offset}
           none == {}
           l == [k EXCEPT !.cdn = cdn, !.hashes = @ \union hashes]
           d == SetTask(m, t, l)
           e == IF cdn # k.cdn THEN ResendAll(d, t) ELSE d
<1>1. /\ Good(scope, m, x, t, G, none) /\ KindsOK(k) /\ cdn \in BOOLEAN
      /\ offset \in Parts /\ i \in Nat
      /\ scope = "all" => i \in DOMAIN m.sessions /\ Queued(m, t)
      /\ cdn # k.cdn => Held(k) = {}
  BY DEF MayChange
<1>2. TaskShape(k) /\ PartsOK(t, k, G)
  <2> HIDE DEF k, G
  <2>1. TaskShape(m.task[t]) /\ PartsOK(t, m.task[t], G)
    BY <1>1, PartsOf
  <2> QED BY <2>1 DEF k
<1>3. k.status = "loading" /\ Held(k) # {} => AsksFor(m, t)
  BY <1>1 DEF Good, TaskOK
<1>4. n = MakeRequest(e, t, offset, i)
  <2>1. [m EXCEPT !.task[t].cdn = cdn, !.task[t].hashes = @ \union hashes] = d
    <3>1. IsManager(m) /\ m.task = [u \in Tasks |-> m.task[u]]
      BY <1>1 DEF Good, Shape
    <3> DEFINE c == [m EXCEPT !.task[t].cdn = cdn, !.task[t].hashes = @ \union hashes]
               task == [m.task EXCEPT ![t] = l]
    <3>2. c = [m EXCEPT !.task = [[m.task EXCEPT ![t].cdn = cdn] EXCEPT ![t].hashes = @ \union hashes]]
      BY ZenonT(60), <3>1 DEF IsManager
    <3>3. [[m.task EXCEPT ![t].cdn = cdn] EXCEPT ![t].hashes = @ \union hashes] = task
      <4> DEFINE old == m.task
      <4>1. old = [u \in Tasks |-> old[u]] /\ k = old[t]
        BY <3>1
      <4> HIDE DEF old, k
      <4>2. [[old EXCEPT ![t].cdn = cdn] EXCEPT ![t].hashes = @ \union hashes]
               = [old EXCEPT ![t] = [k EXCEPT !.cdn = cdn, !.hashes = @ \union hashes]]
        BY <4>1
      <4> QED BY <4>2 DEF old
    <3>4. d = [m EXCEPT !.task = task]
      BY DEF SetTask
    <3> HIDE DEF task
    <3> QED BY <3>2, <3>3, <3>4
  <2>2. ChangeCDNParams(m, t, r, cdn, hashes)
          = MakeRequest(IF cdn # m.task[t].cdn THEN ResendAll(d, t) ELSE d, t, r.offset, r.session)
    <3> HIDE DEF d
    <3> QED BY <2>1 DEF ChangeCDNParams
  <2> HIDE DEF d
  <2> QED BY <2>2
<1>5. l = [k EXCEPT !.cdn = cdn, !.hashes = @ \union hashes] /\ d = SetTask(m, t, l)
  OBVIOUS
<1>6. e = IF cdn # k.cdn THEN ResendAll(d, t) ELSE d
  OBVIOUS
<1> HIDE DEF e, d, l, k, offset, i
<1>7. IsTask(k)
  BY <1>2, RecordOf
<1>8. /\ IsTask(l) /\ l.status = k.status /\ l.sent = k.sent /\ l.unchecked = k.unchecked
      /\ l.cdn = cdn /\ l.next = k.next /\ l.written = k.written /\ l.requested = k.requested
      /\ l.level = k.level /\ l.priority = k.priority /\ l.wanted = k.wanted
      /\ l.renewing = k.renewing
  BY <1>5, <1>7 DEF IsTask
<1>9. Held(l) = Held(k) /\ Taken(l) = Taken(k) /\ Queried(l) = Queried(k)
  BY <1>8 DEF Held, Taken, Offsets, Queried
<1>10. TaskShape(l)
  <2>1. Held(l) \subseteq Parts /\ \A o \in Held(l) : l.unchecked[o] \in Nat
    BY <1>2, <1>8, <1>9 DEF TaskShape
  <2>2. IsSeq(l.sent) /\ \A f \in ToSet(l.sent) : IsRequest(f)
    BY <1>2, <1>8 DEF TaskShape
  <2>3. l.cdn \in BOOLEAN /\ l.next \in Nat /\ l.level \in Nat /\ l.priority \in Nat
        /\ l.requested \subseteq [offset : Parts, priority : 0 .. l.level]
    BY <1>1, <1>2, <1>8 DEF TaskShape
  <2>4. IsTask(l)
    BY <1>8
  <2>5. l.unchecked = [o \in Held(l) |-> l.unchecked[o]]
    BY <1>2, <1>8, <1>9 DEF TaskShape
  <2> QED BY ONLY <2>1, <2>2, <2>3, <2>4, <2>5 DEF TaskShape, IsTask
<1>11. PartsOK(t, l, G)
  <2>1. RequestsOK(l) /\ G \intersect Taken(l) = {}
    BY <1>2, <1>8, <1>9 DEF PartsOK, RequestsOK
  <2>2. t \in Files => FileOK(l, G)
    BY <1>2, <1>8, <1>9 DEF PartsOK, FileOK
  <2>3. t \in Streams => StreamOK(l, G)
    BY <1>2, <1>8, <1>9 DEF PartsOK, StreamOK
  <2> QED BY <2>1, <2>2, <2>3 DEF PartsOK
<1>12. MaySet(scope, m, x, t, G, none, l, G, none)
  <2> HIDE DEF none, G
  <2>1. HoldsLess(m.task[t], l) /\ l.sent = m.task[t].sent
    BY <1>8, <1>9 DEF HoldsLess, k
  <2> QED BY <1>1, <1>3, <1>8, <1>9, <1>10, <1>11, <2>1 DEF MaySet
<1>20. G \ {offset} = none /\ offset \in G
  OBVIOUS
<1> HIDE DEF none, G
<1>13. Good(scope, d, x, t, G, none) /\ Puts(m, d, t, l) /\ d.broken = m.broken
  BY ONLY x \in Nat, t \in Tasks, <1>5, <1>12, SetOK
<1>21. Near(m, d, t)
  BY <1>8, <1>13, NearPut DEF Puts, k
<1>14. /\ Good(scope, e, x, t, G, none) /\ KindsOK(e.task[t]) /\ Near(m, e, t)
       /\ scope = "all" => i \in DOMAIN e.sessions /\ Queued(e, t)
  <2>1. CASE cdn # k.cdn
    <3>1. MayResend(scope, d, x, t, G, none) /\ e = ResendAll(d, t)
      BY <1>1, <1>6, <1>9, <1>13, <2>1 DEF MayResend, Puts
    <3>2. Good(scope, e, x, t, G, none) /\ Beside(d, e, t) /\ KindsOK(e.task[t])
      BY ONLY x \in Nat, t \in Tasks, <3>1, ResendAllOK
    <3>3. DOMAIN e.sessions = DOMAIN m.sessions /\ (Queued(m, t) => Queued(e, t))
      <4>1. Shape(e) /\ Shape(m) /\ Len(e.sessions) = Len(m.sessions) /\ e.queue = m.queue
        BY <1>1, <1>13, <3>2 DEF Good, Beside, Puts
      <4> QED BY <4>1, ShapeNumbers DEF Queued
    <3>4. Near(m, e, t)
      BY <1>21, <3>2, BesideNear, NearTwice
    <3> QED BY <1>1, <3>2, <3>3, <3>4
  <2>2. CASE cdn = k.cdn
    <3>1. e = d /\ KindsOK(l)
      BY <1>1, <1>6, <1>8, <1>9, <2>2 DEF KindsOK
    <3> QED BY <1>1, <1>13, <1>21, <3>1 DEF Puts, Queued
  <2> QED BY <2>1, <2>2
<1>15. MayMake(scope, e, x, t, G, none, offset, i, none, n)
  BY <1>1, <1>4, <1>14, <1>20 DEF MayMake
<1>16. Good(scope, n, x, t, none, none) /\ KindsKept(e, n, t) /\ Beside(e, n, t)
       /\ Made(e, n, t, KindOf(e.task[t]), offset, i)
  BY ONLY x \in Nat, t \in Tasks, <1>15, MakeOK
<1>17. Near(m, n, t)
  BY <1>14, <1>16, BesideNear, NearTwice
<1>18. AsksParts(n.task[t])
  BY <1>16, MadeAsks
<1> QED BY <1>14, <1>16, <1>17, <1>18, GoodFine DEF none, KindsKept

\* The requests that wait for a reference are made again.
LEMMA AsksAgainOK ==
    ASSUME NEW scope, NEW m, NEW x \in Nat, NEW t \in Tasks, Fine(scope, m, x),
           NEW n, n = AsksAgain(m, t)
    PROVE  /\ Fine(scope, n, x) /\ Near(m, n, t)
           /\ AsksParts(m.task[t]) => AsksParts(n.task[t])
           /\ "reference" \notin Awaiting(n.task[t])
<1> DEFINE q == m.task[t].sent
           a == <<t>>
           kind == "again"
           none == {}
           Again(d, k) == /\ Good(scope, d, x, t, none, none) /\ KindsOK(d.task[t])
                          /\ Beside(m, d, t) /\ Rest(q, k) \subseteq ToSet(d.task[t].sent)
                          /\ AsksParts(m.task[t]) => AsksParts(d.task[t])
                          /\ \A f \in ToSet(d.task[t].sent) : f.awaits = "reference" => f \in Rest(q, k)
<1>0. Good(scope, m, x, t, none, none) /\ KindsOK(m.task[t])
  BY GoodFine
<1>1. IsSeq(q) /\ Alone(q) /\ Len(q) \in Nat /\ DOMAIN q = 1 .. Len(q)
  <2>1. IsSeq(q) /\ Alone(q)
    BY <1>0, ShapeFields DEF Good, TaskOK, RequestsOK
  <2> QED BY <2>1, SeqLen
<1>2. PICK g, c : Goes(g, kind, a, q, m, c) /\ n = c
  BY <1>1, AgainGoes
<1>3. a[1] = t /\ kind = "again"
  OBVIOUS
<1>5. \A r \in ToSet(q) :
          /\ r.offset \in Parts /\ r.session \in Nat
          /\ scope = "all" => r.session \in DOMAIN m.sessions /\ Queued(m, t)
          /\ r.awaits = "reference" => r.kind # "hashes"
  <2>1. Shape(m)
    BY <1>0 DEF Good
  <2>2. \A r \in ToSet(q) : r.offset \in Parts /\ r.session \in Nat
    BY <2>1, ShapeFields
  <2>3. ASSUME NEW r \in ToSet(q), scope = "all" PROVE r.session \in DOMAIN m.sessions /\ Queued(m, t)
    <3>1. BalanceOK(m, x)
      BY <1>0, <2>3 DEF Good
    <3>2. r.offset \in Taken(m.task[t])
      BY DEF Taken, Offsets
    <3> QED BY <3>1, <3>2 DEF BalanceOK, InSessions
  <2>4. \A r \in ToSet(q) : r.awaits = "reference" => r.kind # "hashes"
    BY <1>0 DEF Good, TaskOK, RequestsOK
  <2> QED BY <2>2, <2>3, <2>4
<1> HIDE DEF q, a, kind
<1> DEFINE P == {k \in 0 .. Len(q) : Again(g[k], k)}
<1>7. 0 \in P
  <2>1. g[0] = m /\ Rest(q, 0) = ToSet(q)
    BY <1>1, <1>2, RestIs DEF Goes
  <2>2. Again(m, 0)
    BY <1>0, <2>1, BesideSame DEF q
  <2> QED BY <1>1, <2>1, <2>2
<1>8. ASSUME NEW k \in 1 .. Len(q), k - 1 \in P PROVE k \in P
  <2> DEFINE d == g[k - 1]
             e == g[k]
             r == q[k]
             old == Rest(q, k - 1)
             left == Rest(q, k)
  <2>1. /\ Good(scope, d, x, t, none, none) /\ KindsOK(d.task[t])
        /\ Beside(m, d, t) /\ old \subseteq ToSet(d.task[t].sent)
        /\ AsksParts(m.task[t]) => AsksParts(d.task[t])
        /\ \A f \in ToSet(d.task[t].sent) : f.awaits = "reference" => f \in old
    BY <1>8
  <2>2. e = IF r.awaits # "reference" THEN d
            ELSE MakeRequest(FinishSentRequest(d, t, r), t, r.offset, r.session)
    BY <1>2, <1>3 DEF Goes, Each, AskAgain
  <2>3. r \in old /\ left = old \ {r} /\ r \in ToSet(q)
    BY <1>1, RestIs
  <2> HIDE DEF d, e, r, old, left
  <2>4. CASE r.awaits # "reference"
    <3>1. Again(e, k)
      BY <2>1, <2>2, <2>3, <2>4 DEF left
    <3> QED BY <1>1, <3>1 DEF e
  <2>5. CASE r.awaits = "reference"
    <3> DEFINE f == FinishSentRequest(d, t, r)
               offset == r.offset
               i == r.session
               G == {offset}
    <3>1. e = MakeRequest(f, t, offset, i)
      BY <2>2, <2>5
    <3>2. f = FinishSentRequest(d, t, r) /\ r \in ToSet(d.task[t].sent)
      BY <2>1, <2>3
    <3>3. G \ {offset} = none /\ offset \in G
      OBVIOUS
    <3>4. Releases(none, r, G, t, none, none)
      BY <1>5, <2>3, <2>5 DEF Releases, Frees
    <3>5. Good(scope, d, x, t, none, none)
      BY <2>1
    <3> HIDE DEF f, G, none
    <3>6. Good(scope, f, x, t, G, none) /\ Beside(d, f, t) /\ f.posted = d.posted /\ Unsent(d, f, t, r)
      BY ONLY x \in Nat, t \in Tasks, <3>2, <3>4, <3>5, FinishOK
    <3>7. Beside(m, f, t) /\ KindsOK(f.task[t])
      BY ZenonT(60), <2>1, <3>6, BesideTwice DEF Unsent, Beside, KeepsAll, KindsOK, Held
    <3>8. MayMake(scope, f, x, t, G, none, offset, i, none, e)
      <4>1. DOMAIN f.sessions = DOMAIN m.sessions
        <5>1. Shape(f) /\ Shape(m) /\ Len(f.sessions) = Len(m.sessions)
          BY <1>0, <3>6, <3>7 DEF Good, Beside
        <5> QED BY <5>1, ShapeNumbers
      <4>2. Queued(m, t) => Queued(f, t)
        BY <3>7 DEF Beside, Queued
      <4> QED BY <1>5, <2>3, <3>1, <3>3, <3>6, <4>1, <4>2 DEF MayMake
    <3> HIDE DEF offset, i
    <3>9. /\ Good(scope, e, x, t, none, none) /\ Beside(f, e, t) /\ e.posted = f.posted
          /\ Made(f, e, t, KindOf(f.task[t]), offset, i) /\ KindsKept(f, e, t)
      BY ONLY x \in Nat, t \in Tasks, <3>8, MakeOK
    <3>10. left \subseteq ToSet(e.task[t].sent)
      BY <2>1, <2>3, <3>6, <3>9 DEF Unsent, Made
    <3>11. AsksParts(e.task[t])
      BY <3>9, MadeAsks
    <3>12. \A s \in ToSet(e.task[t].sent) : s.awaits = "reference" => s \in left
      <4>1. "server" # "reference"
        OBVIOUS
      <4> QED BY <2>1, <2>3, <3>6, <3>9, <4>1 DEF Unsent, Made
    <3>13. Again(e, k)
      BY <3>7, <3>9, <3>10, <3>11, <3>12, BesideTwice DEF KindsKept, left
    <3> QED BY <1>1, <3>13 DEF e
  <2> QED BY <2>4, <2>5
<1>9. Len(q) \in P
  <2> HIDE DEF P
  <2> QED BY <1>1, <1>7, <1>8, ByNumber
<1>10. /\ Good(scope, n, x, t, none, none) /\ KindsOK(n.task[t]) /\ Beside(m, n, t)
       /\ AsksParts(m.task[t]) => AsksParts(n.task[t])
       /\ \A f \in ToSet(n.task[t].sent) : f.awaits = "reference" => f \in Rest(q, Len(q))
  BY <1>2, <1>9 DEF Goes
<1>11. "reference" \notin Awaiting(n.task[t])
  <2>1. Rest(q, Len(q)) = {}
    BY <1>1, RestIs
  <2> QED BY <1>10, <2>1 DEF Awaiting
<1> QED BY <1>10, <1>11, GoodFine, BesideNear

-----------------------------------------------------------------------------
(* Requests are marked.                                                      *)

Labelled(e, r) ==
    /\ IsRequest(r) /\ r.kind = e.kind /\ r.offset = e.offset /\ r.session = e.session
    /\ r.awaits = "reference" => r.kind = "part"

Labels(q, p) ==
    DOMAIN p = DOMAIN q /\ p = [i \in DOMAIN q |-> p[i]] /\ \A i \in DOMAIN q : Labelled(q[i], p[i])

\* l is k, with marks on what was sent.
Relabels(k, l) ==
    /\ KeepsAll(k, l) /\ TaskShape(l) /\ RequestsOK(l) /\ Offsets(l) = Offsets(k)
    /\ Alike(k.sent, l.sent) /\ (KindsOK(k) => KindsOK(l)) /\ (AsksHashes(k) => AsksHashes(l))

LEMMA RelabelIs ==
    ASSUME NEW k, TaskShape(k), RequestsOK(k), NEW p, Labels(k.sent, p),
           NEW l, l = [k EXCEPT !.sent = p]
    PROVE  Relabels(k, l)
<1> DEFINE q == k.sent
<1>1. IsSeq(q) /\ Alone(q) /\ DOMAIN q = 1 .. Len(q)
  <2>1. IsSeq(q) /\ Alone(q)
    BY DEF TaskShape, RequestsOK
  <2> QED BY <2>1, SeqLen
<1>2. DOMAIN p = DOMAIN q /\ p = [i \in DOMAIN q |-> p[i]] /\ \A i \in DOMAIN q : Labelled(q[i], p[i])
  BY DEF Labels
<1>3. IsTask(k)
  BY RecordOf
<1>4. IsTask(l) /\ KeepsAll(k, l) /\ l.sent = p
  BY <1>3 DEF IsTask, KeepsAll
<1>5. IsSeq(p) /\ Alone(p) /\ ToSet(p) = {p[i] : i \in DOMAIN q}
  <2> HIDE DEF q
  <2> QED BY SMTT(30), <1>1, <1>2, MarkedIs DEF Labelled
<1>6. ToSet(q) = {q[i] : i \in DOMAIN q}
  BY DEF ToSet
<1> HIDE DEF q
<1>7. \A r \in ToSet(p) : \E e \in ToSet(q) : Labelled(e, r)
  BY <1>2, <1>5, <1>6
<1>8. \A e \in ToSet(q) : \E r \in ToSet(p) : Labelled(e, r)
  BY <1>2, <1>5, <1>6
<1>9. Held(l) = Held(k)
  BY <1>4 DEF KeepsAll, Held
<1>10. TaskShape(l)
  <2>1. \A r \in ToSet(p) : IsRequest(r)
    BY <1>7 DEF Labelled
  <2> QED BY <1>4, <1>5, <1>9, <2>1 DEF TaskShape, IsTask, KeepsAll
<1>11. RequestsOK(l)
  <2>1. \A r \in ToSet(p) : /\ r.kind = "hashes" <=> r.offset \in Held(k)
                            /\ r.awaits = "reference" => r.kind = "part"
    BY <1>7 DEF Labelled, RequestsOK, q
  <2>2. \A r, e \in ToSet(p) : r.kind = "hashes" /\ e.kind = "hashes" => r.offset = e.offset
    <3> TAKE r, e \in ToSet(p)
    <3>1. PICK f \in ToSet(q) : Labelled(f, r)
      BY <1>7
    <3>2. PICK h \in ToSet(q) : Labelled(h, e)
      BY <1>7
    <3> QED BY <3>1, <3>2 DEF Labelled, RequestsOK, q
  <2> QED BY <1>4, <1>5, <1>9, <2>1, <2>2 DEF RequestsOK
<1>12. Offsets(l) = Offsets(k)
  <2>1. Offsets(l) \subseteq Offsets(k)
    BY <1>4, <1>7 DEF Labelled, Offsets, q
  <2>2. Offsets(k) \subseteq Offsets(l)
    BY <1>4, <1>8 DEF Labelled, Offsets, q
  <2> QED BY <2>1, <2>2
<1>13. Alike(k.sent, l.sent)
  <2>1. {r.offset : r \in ToSet(k.sent)} = {r.offset : r \in ToSet(l.sent)}
    BY <1>12 DEF Offsets
  <2>2. ASSUME NEW o \in Parts, NEW i \in Nat
        PROVE  (\E r \in ToSet(k.sent) : r.offset = o /\ r.session = i) <=>
               (\E r \in ToSet(l.sent) : r.offset = o /\ r.session = i)
    BY <1>4, <1>7, <1>8 DEF Labelled, q
  <2> QED BY <2>1, <2>2 DEF Alike
<1>14. KindsOK(k) => KindsOK(l)
  BY <1>4, <1>7, <1>9 DEF KindsOK, Labelled, KeepsAll, q
<1>15. AsksHashes(k) => AsksHashes(l)
  BY <1>4, <1>8 DEF AsksHashes, Labelled, q
<1> QED BY <1>4, <1>10, <1>11, <1>12, <1>13, <1>14, <1>15 DEF Relabels

LEMMA RelabelOK ==
    ASSUME NEW m, NEW n, NEW t \in Tasks, NEW G, NEW due, TaskOK(m, t, G, due),
           Relabels(m.task[t], n.task[t]), n.posted = m.posted
    PROVE  TaskOK(n, t, G, due)
<1> DEFINE k == m.task[t]
           l == n.task[t]
<1>1. /\ KeepsAll(k, l) /\ RequestsOK(l) /\ Offsets(l) = Offsets(k)
      /\ AsksHashes(k) => AsksHashes(l)
  BY DEF Relabels
<1> HIDE DEF k, l
<1>2. Held(l) = Held(k) /\ Taken(l) = Taken(k) /\ Queried(l) = Queried(k)
  BY <1>1 DEF KeepsAll, Held, Taken, Queried
<1>3. t \in Files => FileOK(l, G)
  BY <1>1, <1>2 DEF TaskOK, FileOK, KeepsAll, k
<1>4. t \in Streams => StreamOK(l, G)
  BY <1>1, <1>2 DEF TaskOK, StreamOK, KeepsAll, k
<1>5. AsksFor(m, t) => AsksFor(n, t)
  BY <1>1 DEF AsksFor, k, l
<1> QED BY <1>1, <1>2, <1>3, <1>4, <1>5 DEF TaskOK, KeepsAll, k, l

MayAwait(scope, m, x, t, r, what) ==
    /\ Fine(scope, m, x) /\ r \in ToSet(m.task[t].sent)
    /\ what = "reference" => r.kind = "part"

\* A request of t waits for something else.
Awaited(m, n, t, what) ==
    /\ n.queue = m.queue /\ \A u \in Tasks \ {t} : n.task[u] = m.task[u]
    /\ KeepsAll(m.task[t], n.task[t]) /\ Taken(n.task[t]) = Taken(m.task[t])
    /\ Awaiting(n.task[t]) \subseteq Awaiting(m.task[t]) \union {what}
    /\ AsksParts(m.task[t]) => AsksParts(n.task[t])

LEMMA AwaitOK ==
    ASSUME NEW scope, NEW m, NEW x \in Nat, NEW t \in Tasks, NEW r, NEW what,
           MayAwait(scope, m, x, t, r, what), NEW n, n = Await(m, t, r, what)
    PROVE  Fine(scope, n, x) /\ Awaited(m, n, t, what)
<1> DEFINE k == m.task[t]
           q == k.sent
           none == {}
           p == [i \in DOMAIN q |-> IF q[i] = r THEN [r EXCEPT !.awaits = what] ELSE q[i]]
           l == [k EXCEPT !.sent = p]
<1>1. /\ Fine(scope, m, x) /\ r \in ToSet(q) /\ (what = "reference" => r.kind = "part")
  BY DEF MayAwait
<1>2. Good(scope, m, x, t, none, none) /\ KindsOK(k)
  BY <1>1, GoodFine
<1>3. /\ TaskShape(k) /\ RequestsOK(k) /\ Shape(m) /\ DOMAIN q = 1 .. Len(q)
      /\ \A e \in ToSet(q) : IsRequest(e) /\ (e.awaits = "reference" => e.kind = "part")
  <2>1. Shape(m) /\ TaskShape(m.task[t]) /\ PartsOK(t, m.task[t], none) /\ TaskOK(m, t, none, none)
    <3> HIDE DEF none
    <3> QED BY <1>2, PartsOf
  <2>2. IsSeq(q)
    BY <2>1 DEF TaskShape
  <2>3. DOMAIN q = 1 .. Len(q)
    BY <2>2, SeqLen
  <2> QED BY <2>1, <2>3 DEF PartsOK, TaskShape, RequestsOK
<1>4. n = SetTask(m, t, l)
  BY DEF Await, SetTask
<1> HIDE DEF k, l
<1>5. Labels(q, p)
  <2>1. ASSUME NEW i \in DOMAIN q PROVE Labelled(q[i], p[i])
    <3>1. q[i] \in ToSet(q)
      BY DEF ToSet
    <3>2. CASE q[i] # r
      BY <1>3, <3>1, <3>2 DEF Labelled
    <3>3. CASE q[i] = r
      <4> DEFINE e == [r EXCEPT !.awaits = what]
      <4>1. IsRequest(r)
        BY <1>1, <1>3
      <4>2. e.kind = r.kind /\ e.offset = r.offset /\ e.session = r.session /\ e.awaits = what
            /\ e = [kind |-> e.kind, offset |-> e.offset, session |-> e.session,
                    amount |-> e.amount, late |-> e.late, renewed |-> e.renewed,
                    awaits |-> e.awaits]
        BY <4>1 DEF IsRequest
      <4>3. p[i] = e
        BY <3>3
      <4> HIDE DEF e, p
      <4> QED BY <1>1, <3>3, <4>1, <4>2, <4>3 DEF Labelled, IsRequest
    <3> QED BY <3>2, <3>3
  <2>2. DOMAIN p = DOMAIN q /\ p = [i \in DOMAIN q |-> p[i]]
    OBVIOUS
  <2> HIDE DEF p, q
  <2> QED BY <2>1, <2>2 DEF Labels
<1>12. l.sent = p /\ DOMAIN p = DOMAIN q
  BY <1>3 DEF l, TaskShape
<1>13. ASSUME NEW i \in DOMAIN q
       PROVE  p[i].awaits \in {q[i].awaits, what} /\ p[i].kind = q[i].kind
  <2>1. CASE q[i] # r
    BY <2>1
  <2>2. CASE q[i] = r
    <3>1. IsRequest(r)
      BY <1>1, <1>3
    <3>2. p[i] = [r EXCEPT !.awaits = what]
      BY <2>2
    <3> QED BY <2>2, <3>1, <3>2 DEF IsRequest
  <2> QED BY <2>1, <2>2
<1> HIDE DEF p
<1>14. Awaiting(l) \subseteq Awaiting(k) \union {what} /\ (AsksParts(k) => AsksParts(l))
  <2>1. ToSet(l.sent) = {p[i] : i \in DOMAIN q} /\ ToSet(k.sent) = {q[i] : i \in DOMAIN q}
    BY <1>12 DEF ToSet, q
  <2> HIDE DEF q
  <2> QED BY <1>13, <2>1 DEF Awaiting, AsksParts
<1>6. Relabels(k, l)
  BY <1>3, <1>5, RelabelIs DEF l, q
<1>7. Shape(n) /\ Puts(m, n, t, l) /\ n.broken = m.broken
  BY <1>3, <1>4, <1>6, SetIs DEF Relabels
<1>8. TaskOK(n, t, {}, {})
  <2> HIDE DEF none
  <2>1. TaskOK(m, t, none, none) /\ n.task[t] = l /\ n.posted = m.posted
    BY <1>2, <1>7 DEF Good, Puts
  <2>2. Relabels(m.task[t], n.task[t])
    BY <1>6, <2>1 DEF k
  <2>3. TaskOK(n, t, none, none)
    BY <2>1, <2>2, RelabelOK
  <2> QED BY <2>3 DEF none
<1>9. scope = "all" => Alike(m.task[t].sent, l.sent) /\ Backed(m, t, l)
  <2>1. ASSUME scope = "all" PROVE Backed(m, t, l)
    <3>1. BalanceOK(m, x)
      BY <1>1, <2>1 DEF Fine
    <3>2. Taken(l) = Taken(k) /\ Held(l) = Held(k) /\ l.unchecked = k.unchecked
      BY <1>6 DEF Relabels, KeepsAll, Taken, Held
    <3> QED BY <3>1, <3>2 DEF BalanceOK, InSessions, Backed, k
  <2> QED BY <1>6, <2>1 DEF Relabels, k
<1>10. Good(scope, n, x, t, none, none)
  BY <1>2, <1>7, <1>8, <1>9, PutOK
<1>11. KindsOK(n.task[t])
  BY <1>2, <1>6, <1>7 DEF Relabels, Puts
<1>15. Awaited(m, n, t, what)
  <2>1. KeepsAll(k, l) /\ Taken(l) = Taken(k)
    BY <1>6 DEF Relabels, KeepsAll, Taken, Held
  <2> QED BY <1>7, <1>14, <2>1 DEF Awaited, Puts, k
<1> QED BY <1>10, <1>11, <1>15, GoodFine

\* l is k to all that is said of its parts.
Similar(k, l) ==
    /\ l.status = k.status /\ l.sent = k.sent /\ l.unchecked = k.unchecked /\ l.cdn = k.cdn
    /\ l.next = k.next /\ l.written = k.written /\ l.requested = k.requested
    /\ \/ l.wanted = k.wanted
       \/ l.status = "loading" /\ l.wanted \subseteq k.wanted \union Queried(k) \union Taken(k)

MayTouch(scope, m, x, t, G, due, l) ==
    Good(scope, m, x, t, G, due) /\ TaskShape(l) /\ Similar(m.task[t], l)

LEMMA TouchOK ==
    ASSUME NEW scope, NEW m, NEW x \in Nat, NEW t \in Tasks, NEW G, NEW due, NEW l,
           MayTouch(scope, m, x, t, G, due, l), NEW n, n = SetTask(m, t, l)
    PROVE  Good(scope, n, x, t, G, due) /\ KindsKept(m, n, t) /\ Puts(m, n, t, l)
<1> DEFINE k == m.task[t]
<1>1. Good(scope, m, x, t, G, due) /\ TaskShape(l) /\ Similar(k, l)
  BY DEF MayTouch
<1>2. PartsOK(t, k, G)
  <2> HIDE DEF k
  <2>1. PartsOK(t, m.task[t], G)
    BY <1>1, PartsOf
  <2> QED BY <2>1 DEF k
<1>3. k.status = "loading" /\ Held(k) # {} => t \in due \/ AsksFor(m, t)
  BY <1>1 DEF Good, TaskOK
<1> HIDE DEF k
<1>4. Held(l) = Held(k) /\ Taken(l) = Taken(k) /\ Queried(l) = Queried(k)
  BY <1>1 DEF Similar, Held, Taken, Offsets, Queried
<1>5. PartsOK(t, l, G)
  <2>1. RequestsOK(l) /\ G \intersect Taken(l) = {}
    BY <1>1, <1>2, <1>4 DEF PartsOK, RequestsOK, Similar
  <2>2. t \in Files => FileOK(l, G)
    BY <1>1, <1>2, <1>4 DEF PartsOK, FileOK, Similar
  <2>3. t \in Streams => StreamOK(l, G)
    BY <1>1, <1>2, <1>4 DEF PartsOK, StreamOK, Similar
  <2> QED BY <2>1, <2>2, <2>3 DEF PartsOK
<1>6. MaySet(scope, m, x, t, G, due, l, G, due)
  <2>1. HoldsLess(m.task[t], l) /\ l.sent = m.task[t].sent
    BY <1>1, <1>4 DEF HoldsLess, Similar, k
  <2>2. l.status = "loading" /\ Held(l) # {} => t \in due \/ AsksFor(m, t)
    BY <1>1, <1>3, <1>4 DEF Similar
  <2> QED BY <1>1, <1>5, <2>1, <2>2 DEF MaySet
<1>7. Good(scope, n, x, t, G, due) /\ Puts(m, n, t, l) /\ n.broken = m.broken
  BY ONLY x \in Nat, t \in Tasks, <1>6, n = SetTask(m, t, l), SetOK
<1>8. KindsKept(m, n, t)
  BY <1>1, <1>4, <1>7 DEF KindsKept, KindsOK, Puts, Similar, k
<1> QED BY <1>7, <1>8

AddHashesIs(m, n, t) ==
    \E l : Similar(m.task[t], l) /\ l.renewing = m.task[t].renewing /\ Puts(m, n, t, l)

LEMMA AddHashesOK ==
    ASSUME NEW scope, NEW m, NEW x \in Nat, NEW t \in Tasks, NEW G, NEW due, NEW hashes,
           Good(scope, m, x, t, G, due), NEW n, n = AddHashes(m, t, hashes)
    PROVE  Good(scope, n, x, t, G, due) /\ KindsKept(m, n, t) /\ AddHashesIs(m, n, t)
<1> DEFINE k == m.task[t]
           l == [k EXCEPT !.hashes = @ \union hashes]
<1>1. TaskShape(k)
  BY ShapeFields DEF Good
<1>2. n = SetTask(m, t, l) /\ l = [k EXCEPT !.hashes = @ \union hashes]
  BY DEF AddHashes, SetTask
<1> HIDE DEF l, k
<1>3. IsTask(k)
  BY <1>1, RecordOf
<1>4. IsTask(l) /\ SameShape(k, l) /\ Similar(k, l) /\ l.renewing = k.renewing
  BY <1>2, <1>3 DEF IsTask, SameShape, Similar
<1>5. TaskShape(l)
  BY <1>1, <1>4, ShapeKept
<1>6. MayTouch(scope, m, x, t, G, due, l)
  BY <1>4, <1>5 DEF MayTouch, k
<1>7. Good(scope, n, x, t, G, due) /\ KindsKept(m, n, t) /\ Puts(m, n, t, l)
  BY ONLY x \in Nat, t \in Tasks, <1>2, <1>6, TouchOK
<1> QED BY <1>4, <1>7 DEF AddHashesIs, k

-----------------------------------------------------------------------------
(* A session is taken away.                                                  *)

LEMMA ExpectsIs ==
    ASSUME NEW m, Shape(m), NEW c \in BOOLEAN, NEW n, n = Expects(m, c)
    PROVE  /\ Shape(n) /\ n.broken = (m.broken \/ ~c)
           /\ n.sessions = m.sessions /\ n.balance = m.balance /\ n.queue = m.queue
           /\ n.killing = m.killing /\ n.resetting = m.resetting /\ n.posted = m.posted
           /\ n.task = m.task
<1> DEFINE broken == m.broken \/ ~c
<1>1. IsManager(m) /\ n = [m EXCEPT !.broken = broken] /\ broken \in BOOLEAN
  BY DEF Shape, Expects
<1> HIDE DEF broken
<1>2. /\ n.broken = broken /\ IsManager(n)
      /\ n.sessions = m.sessions /\ n.balance = m.balance /\ n.queue = m.queue
      /\ n.killing = m.killing /\ n.resetting = m.resetting /\ n.posted = m.posted
      /\ n.task = m.task
  BY <1>1 DEF IsManager
<1>3. Shape(n)
  BY <1>1, <1>2 DEF Shape
<1> QED BY <1>2, <1>3 DEF broken

Holds(scope, c) == c \in BOOLEAN /\ (scope = "all" => c)

LEMMA ExpectsOK ==
    ASSUME NEW scope, NEW m, NEW x \in Nat, NEW t \in Tasks, NEW G, NEW due,
           Good(scope, m, x, t, G, due), NEW c, Holds(scope, c), NEW n, n = Expects(m, c)
    PROVE  Good(scope, n, x, t, G, due) /\ Beside(m, n, t) /\ n.task = m.task
<1>1. /\ Shape(n) /\ n.broken = (m.broken \/ ~c)
      /\ n.sessions = m.sessions /\ n.balance = m.balance /\ n.queue = m.queue
      /\ n.killing = m.killing /\ n.resetting = m.resetting /\ n.posted = m.posted
      /\ n.task = m.task
  BY ExpectsIs DEF Good, Holds
<1>2. \A u \in Tasks \ {t} : TaskOK(n, u, {}, {}) /\ KindsOK(n.task[u])
  BY <1>1, TaskKept DEF Good
<1>3. TaskOK(n, t, G, due)
  BY <1>1, TaskKept DEF Good
<1>4. ASSUME scope = "all" PROVE BalanceOK(n, x)
  <2>1. BalanceOK(m, x) /\ n.broken = m.broken
    BY <1>1, <1>4 DEF Good, Holds, Shape
  <2> QED BY <1>1, <2>1, BalanceSame
<1>5. Beside(m, n, t)
  BY <1>1 DEF Beside, KeepsAll
<1> QED BY <1>1, <1>2, <1>3, <1>4, <1>5 DEF Good

\* The session s goes, and is said to wait for more than it is worth asking.
Removes(scope, m, x, s) ==
    /\ s \in Nat
    /\ scope = "all" => s = Len(m.sessions) /\ s > 1 /\ Cardinality(Sent(m)) <= x

LEMMA ChosenBefore ==
    ASSUME NEW scope, scope = "all", NEW m, NEW x \in Nat, NEW t, NEW G, NEW due,
           Good(scope, m, x, t, G, due), NEW s, Removes(scope, m, x, s),
           NEW i, i = ChooseSessionIndex(m)
    PROVE  i < s
<1>1. Shape(m) /\ Adds(m, x) /\ s = Len(m.sessions) /\ s > 1 /\ Cardinality(Sent(m)) <= x /\ s \in Nat
  BY DEF Good, BalanceOK, Removes
<1>2. /\ i \in DOMAIN m.sessions
      /\ \A j \in DOMAIN m.sessions :
             \/ m.sessions[i].requested < m.sessions[j].requested
             \/ m.sessions[i].requested = m.sessions[j].requested /\ i <= j
  BY <1>1, ChooseIs
<1>3. DOMAIN m.sessions = 1 .. s
  BY <1>1, ShapeNumbers
<1>4. 1 \in DOMAIN m.sessions /\ s \in DOMAIN m.sessions /\ 1 # s
  <2>1. s \in Nat /\ s > 1
    BY <1>1
  <2>2. 1 \in 1 .. s /\ s \in 1 .. s /\ 1 # s
    BY ONLY <2>1
  <2> QED BY ONLY <1>3, <2>2
<1>5. /\ m.sessions[s].requested = Cardinality(SentIn(m, s)) + x
      /\ m.sessions[1].requested = Cardinality(SentIn(m, 1)) + 0
  BY <1>1, <1>4 DEF Adds
<1>6. Cardinality(SentIn(m, 1)) <= Cardinality(Sent(m))
  <2>1. SentIn(m, 1) \subseteq Sent(m)
    BY DEF SentIn, Sent, Offsets
  <2> QED BY <2>1, SentFinite, FS_Subset
<1>7. Cardinality(SentIn(m, s)) \in Nat /\ Cardinality(SentIn(m, 1)) \in Nat /\ Cardinality(Sent(m)) \in Nat
  BY SentFinite
<1>8. i # s
  <2> SUFFICES ASSUME i = s PROVE FALSE
    OBVIOUS
  <2>1. m.sessions[s].requested <= m.sessions[1].requested /\ ~(m.sessions[s].requested = m.sessions[1].requested)
    BY <1>1, <1>2, <1>4, <1>5, <1>6, <1>7
  <2> QED BY <1>1, <1>5, <1>6, <1>7, <2>1
<1> QED BY <1>1, <1>2, <1>3, <1>8

\* What changes of t when a session is taken from it.
Away(m, n, t) ==
    /\ n.queue = m.queue /\ Len(n.sessions) = Len(m.sessions)
    /\ \A u \in Tasks \ {t} : n.task[u] = m.task[u]
    /\ Offsets(n.task[t]) \subseteq Offsets(m.task[t])

Spared(m, n, t) ==
    /\ Near(m, n, t) /\ Held(n.task[t]) = Held(m.task[t])
    /\ AsksParts(m.task[t]) => AsksParts(n.task[t])

LEMMA SparedTwice ==
    ASSUME NEW m, NEW n, NEW d, NEW t, Spared(m, n, t), Spared(n, d, t)
    PROVE  Spared(m, d, t)
  BY NearTwice DEF Spared

SameWork(k, l) ==
    /\ l.status = k.status /\ l.renewing = k.renewing /\ l.next = k.next
    /\ l.written = k.written /\ l.requested = k.requested
    /\ Awaiting(l) \subseteq Awaiting(k) \union {"server"}
    /\ Held(l) = Held(k) /\ Offsets(l) \subseteq Offsets(k)
    /\ AsksParts(k) => AsksParts(l)

\* What the tasks do is not changed, only the sessions they do it in.
AllSpared(m, n) == n.queue = m.queue /\ \A u \in Tasks : SameWork(m.task[u], n.task[u])

LEMMA AllSparedSame ==
    ASSUME NEW m, NEW n, n.queue = m.queue, n.task = m.task
    PROVE  AllSpared(m, n)
  BY DEF AllSpared, SameWork

LEMMA AllSparedTwice ==
    ASSUME NEW m, NEW n, NEW d, AllSpared(m, n), AllSpared(n, d)
    PROVE  AllSpared(m, d)
<1>1. ASSUME NEW u \in Tasks PROVE SameWork(m.task[u], d.task[u])
  <2>1. SameWork(m.task[u], n.task[u]) /\ SameWork(n.task[u], d.task[u])
    BY DEF AllSpared
  <2> QED BY <2>1 DEF SameWork
<1> QED BY <1>1 DEF AllSpared

LEMMA SparedAll ==
    ASSUME NEW m, NEW n, NEW t, Away(m, n, t), Spared(m, n, t)
    PROVE  AllSpared(m, n)
<1>1. ASSUME NEW u \in Tasks, u # t PROVE SameWork(m.task[u], n.task[u])
  <2>1. n.task[u] = m.task[u]
    BY <1>1 DEF Away
  <2> QED BY <2>1 DEF SameWork
<1>2. SameWork(m.task[t], n.task[t])
  BY DEF Away, Spared, Near, SameWork
<1> QED BY <1>1, <1>2 DEF AllSpared, Away

HeldBefore(m, t, s) == \A o \in Held(m.task[t]) : m.task[t].unchecked[o] # s

LEMMA MovesHeldOK ==
    ASSUME NEW scope, NEW m, NEW x \in Nat, NEW t \in Tasks, Fine(scope, m, x),
           NEW s, Removes(scope, m, x, s), NEW n, n = MovesHeld(m, t, s)
    PROVE  /\ Fine(scope, n, x) /\ Away(m, n, t) /\ n.task[t].sent = m.task[t].sent
           /\ Spared(m, n, t)
           /\ scope = "all" => HeldBefore(n, t, s)
<1> DEFINE k == m.task[t]
           held == {o \in DOMAIN k.unchecked : k.unchecked[o] = s}
           i == ChooseSessionIndex(m)
           c == held # {} => i < s
           d == Expects(m, c)
           none == {}
           moved == [o \in Held(k) |-> IF o \in held THEN i ELSE k.unchecked[o]]
           l == [k EXCEPT !.unchecked = moved]
<1>1. Good(scope, m, x, t, none, none) /\ KindsOK(k) /\ Shape(m)
  BY GoodFine DEF Fine
<1>2. i \in DOMAIN m.sessions /\ i \in Nat
  <2>1. i = ChooseSessionIndex(m)
    OBVIOUS
  <2> HIDE DEF i
  <2>2. i \in DOMAIN m.sessions
    BY <1>1, <2>1, ChooseIs
  <2> QED BY <1>1, <2>2, ShapeNumbers
<1>3. scope = "all" => i < s
  <2>1. i = ChooseSessionIndex(m)
    OBVIOUS
  <2> HIDE DEF i, none
  <2> QED BY <1>1, <2>1, ChosenBefore
<1>4. Holds(scope, c)
  BY <1>3 DEF Holds
<1>5. n = [d EXCEPT !.task[t].unchecked = [o \in DOMAIN @ |-> IF o \in held THEN i ELSE @[o]]]
  BY DEF MovesHeld
<1>6. d = Expects(m, c)
  OBVIOUS
<1>7. moved = [o \in Held(k) |-> moved[o]] /\ \A o \in Held(k) : moved[o] = i \/ (moved[o] = k.unchecked[o] /\ moved[o] # s)
  BY DEF Held
<1> HIDE DEF d, c, i, none
<1>8. Good(scope, d, x, t, none, none) /\ Beside(m, d, t) /\ d.task = m.task
  BY <1>1, <1>4, <1>6, ExpectsOK
<1>9. n = SetTask(d, t, l)
  <2>1. k = d.task[t]
    BY <1>8
  <2>2. moved = [o \in DOMAIN k.unchecked |-> IF o \in held THEN i ELSE k.unchecked[o]]
    BY DEF Held
  <2> HIDE DEF moved, k, held
  <2> QED BY <1>5, <2>1, <2>2 DEF SetTask
<1>10. l = [k EXCEPT !.unchecked = moved]
  OBVIOUS
<1>11. TaskShape(k) /\ PartsOK(t, k, none)
  <2> HIDE DEF k
  <2>1. TaskShape(m.task[t]) /\ PartsOK(t, m.task[t], none)
    BY <1>1, PartsOf
  <2> QED BY <2>1 DEF k
<1>12. k.status = "loading" /\ Held(k) # {} => AsksFor(m, t)
  BY <1>1 DEF Good, TaskOK, none
<1> HIDE DEF l, k, moved, held
<1>13. IsTask(k)
  BY <1>11, RecordOf
<1>14. /\ IsTask(l) /\ l.status = k.status /\ l.sent = k.sent /\ l.unchecked = moved
      /\ l.cdn = k.cdn /\ l.renewing = k.renewing /\ l.next = k.next /\ l.written = k.written /\ l.requested = k.requested
      /\ l.level = k.level /\ l.priority = k.priority /\ l.wanted = k.wanted
  BY <1>10, <1>13 DEF IsTask
<1>15. Held(l) = Held(k) /\ Offsets(l) = Offsets(k) /\ Taken(l) = Taken(k) /\ Queried(l) = Queried(k)
  <2>1. DOMAIN moved = Held(k)
    BY <1>7
  <2> QED BY <1>14, <2>1 DEF Held, Taken, Offsets, Queried
<1>16. TaskShape(l)
  <2>1. Held(l) \subseteq Parts
    BY <1>11, <1>15 DEF TaskShape
  <2>2. \A o \in Held(l) : l.unchecked[o] \in Nat
    BY <1>2, <1>7, <1>11, <1>14, <1>15 DEF TaskShape
  <2>3. IsSeq(l.sent) /\ \A f \in ToSet(l.sent) : IsRequest(f)
    BY <1>11, <1>14 DEF TaskShape
  <2>4. l.cdn \in BOOLEAN /\ l.next \in Nat /\ l.level \in Nat /\ l.priority \in Nat
        /\ l.requested \subseteq [offset : Parts, priority : 0 .. l.level]
    BY <1>11, <1>14 DEF TaskShape
  <2>5. IsTask(l)
    BY <1>14
  <2>6. l.unchecked = [o \in Held(l) |-> l.unchecked[o]]
    BY <1>7, <1>14, <1>15
  <2> QED BY ONLY <2>1, <2>2, <2>3, <2>4, <2>5, <2>6 DEF TaskShape, IsTask
<1>17. PartsOK(t, l, none)
  <2>1. RequestsOK(l) /\ none \intersect Taken(l) = {}
    BY <1>11, <1>14, <1>15 DEF PartsOK, RequestsOK
  <2>2. t \in Files => FileOK(l, none)
    BY <1>11, <1>14, <1>15 DEF PartsOK, FileOK
  <2>3. t \in Streams => StreamOK(l, none)
    BY <1>11, <1>14, <1>15 DEF PartsOK, StreamOK
  <2> QED BY <2>1, <2>2, <2>3 DEF PartsOK
<1>18. MaySet(scope, d, x, t, none, none, l, none, none)
  <2>1. ASSUME scope = "all" PROVE Backed(d, t, l)
    <3>1. BalanceOK(d, x) /\ d.task[t] = k /\ DOMAIN d.sessions = DOMAIN m.sessions
      <4>1. Shape(d) /\ Len(d.sessions) = Len(m.sessions)
        BY <1>8 DEF Good, Beside
      <4> QED BY <1>1, <1>8, <2>1, <4>1, ShapeNumbers DEF Good, k
    <3>2. \A o \in Held(k) : k.unchecked[o] \in DOMAIN d.sessions
      BY <3>1 DEF BalanceOK, InSessions
    <3>3. \A o \in Held(l) : l.unchecked[o] \in DOMAIN d.sessions
      BY <1>2, <1>7, <1>14, <1>15, <3>1, <3>2
    <3>4. Taken(l) # {} => Queued(d, t)
      BY <1>15, <3>1 DEF BalanceOK
    <3> QED BY <3>3, <3>4 DEF Backed
  <2>2. l.sent = d.task[t].sent
    BY <1>8, <1>14 DEF k
  <2>3. l.status = "loading" /\ Held(l) # {} => t \in none \/ AsksFor(d, t)
    BY <1>8, <1>12, <1>14, <1>15 DEF AsksFor, Beside
  <2> QED BY <1>8, <1>16, <1>17, <2>1, <2>2, <2>3 DEF MaySet
<1>19. Good(scope, n, x, t, none, none) /\ Puts(d, n, t, l) /\ n.broken = d.broken
  BY ONLY x \in Nat, t \in Tasks, <1>9, <1>18, SetOK
<1>20. KindsOK(n.task[t])
  BY <1>1, <1>14, <1>15, <1>19 DEF KindsOK, Puts
<1>21. Fine(scope, n, x)
  BY <1>19, <1>20, GoodFine DEF none
<1>22. Away(m, n, t) /\ n.task[t].sent = m.task[t].sent
  BY <1>8, <1>14, <1>15, <1>19 DEF Away, Puts, Beside, k
<1>23. ASSUME scope = "all" PROVE HeldBefore(n, t, s)
  <2>1. i < s /\ s \in Nat
    BY <1>3, <1>23 DEF Removes
  <2> QED BY <1>2, <1>7, <1>14, <1>15, <1>19, <2>1 DEF HeldBefore, Puts
<1>24. Spared(m, n, t)
  <2>1. Near(m, d, t)
    BY <1>8, BesideNear
  <2>2. Near(d, n, t)
    BY <1>8, <1>14, <1>19, NearPut DEF Puts, k
  <2>3. Held(n.task[t]) = Held(m.task[t])
    BY <1>15, <1>19 DEF Puts, k
  <2> QED BY <1>22, <2>1, <2>2, <2>3, NearTwice DEF Spared, AsksParts
<1> QED BY <1>21, <1>22, <1>23, <1>24

LEMMA RemovesKept ==
    ASSUME NEW scope, NEW m, NEW n, NEW x \in Nat, NEW t \in Tasks, NEW s,
           Removes(scope, m, x, s), Away(m, n, t)
    PROVE  Removes(scope, n, x, s)
<1>1. Sent(n) \subseteq Sent(m)
  <2> SUFFICES ASSUME NEW p \in Sent(n) PROVE p \in Sent(m)
    OBVIOUS
  <2>1. p \in Tasks \X Parts /\ p[1] \in Tasks /\ p[2] \in Offsets(n.task[p[1]])
    BY DEF Sent
  <2>2. Offsets(n.task[p[1]]) \subseteq Offsets(m.task[p[1]])
    <3>1. CASE p[1] = t
      BY <3>1 DEF Away
    <3>2. CASE p[1] # t
      BY <2>1, <3>2 DEF Away, Offsets
    <3> QED BY <3>1, <3>2
  <2> QED BY <2>1, <2>2 DEF Sent
<1>2. Cardinality(Sent(n)) <= Cardinality(Sent(m)) /\ Cardinality(Sent(n)) \in Nat /\ Cardinality(Sent(m)) \in Nat
  BY <1>1, SentFinite, FS_Subset
<1>3. s \in Nat /\ Len(n.sessions) = Len(m.sessions)
  BY DEF Removes, Away
<1>4. ASSUME scope = "all" PROVE s = Len(n.sessions) /\ s > 1 /\ Cardinality(Sent(n)) <= x
  BY <1>2, <1>3, <1>4 DEF Removes
<1> QED BY <1>3, <1>4 DEF Removes

\* While what t has sent in s is sent in other sessions; left is yet to come.
Redirecting(scope, m, x, t, s, d, left) ==
    /\ Good(scope, d, x, t, {}, {}) /\ KindsOK(d.task[t]) /\ Beside(m, d, t)
    /\ Offsets(d.task[t]) \subseteq Offsets(m.task[t]) /\ left \subseteq ToSet(d.task[t].sent)
    /\ AsksParts(m.task[t]) => AsksParts(d.task[t])
    /\ scope = "all" => \A r \in ToSet(d.task[t].sent) : r.session = s => r \in left

LEMMA RedirectOK ==
    ASSUME NEW scope, NEW m, NEW x \in Nat, NEW t \in Tasks, NEW s, Fine(scope, m, x),
           Removes(scope, m, x, s), NEW d, NEW old, Redirecting(scope, m, x, t, s, d, old),
           NEW r \in old, NEW left, left = old \ {r}, NEW n, n = Redirect(d, t, r, s)
    PROVE  Redirecting(scope, m, x, t, s, n, left)
<1>1. /\ Good(scope, d, x, t, {}, {}) /\ KindsOK(d.task[t]) /\ Beside(m, d, t)
      /\ Offsets(d.task[t]) \subseteq Offsets(m.task[t]) /\ old \subseteq ToSet(d.task[t].sent)
      /\ AsksParts(m.task[t]) => AsksParts(d.task[t])
  BY DEF Redirecting
<1>2. scope = "all" => \A e \in ToSet(d.task[t].sent) : e.session = s => e \in old
  BY DEF Redirecting
<1> DEFINE c == CancelRequest(d, t, r)
           i == ChooseSessionIndex(c)
           offset == r.offset
           below == i < s
           f == Expects(c, below)
           none == {}
           G == {offset}
<1>3. n = IF r.session # s THEN d ELSE IF r.kind = "hashes" THEN c ELSE MakeRequest(f, t, offset, i)
  BY DEF Redirect
<1>4. c = CancelRequest(d, t, r) /\ i = ChooseSessionIndex(c) /\ f = Expects(c, below)
  OBVIOUS
<1>5. CASE r.session # s
  <2>1. n = d
    BY <1>3, <1>5
  <2> QED BY <1>1, <1>2, <1>5, <2>1 DEF Redirecting
<1>6. CASE r.session = s /\ r.kind = "hashes"
  <2>1. n = c
    BY <1>3, <1>6
  <2> HIDE DEF c, none
  <2>2. Cancels(scope, d, x, t, none, none, r, none, c)
    BY <1>1, <1>4, <1>6 DEF Cancels, Frees, none
  <2>3. Good(scope, c, x, t, none, none) /\ Beside(d, c, t) /\ Unsent(d, c, t, r)
    BY ONLY x \in Nat, t \in Tasks, <2>2, CancelRequestOK
  <2>4. KindsOK(c.task[t])
    BY <1>1, <2>3 DEF KindsOK, Beside, KeepsAll, Unsent, Held
  <2>5. Offsets(c.task[t]) \subseteq Offsets(m.task[t])
    BY <1>1, <2>3 DEF Offsets, Unsent
  <2>6. Beside(m, c, t)
    BY <1>1, <2>3, BesideTwice
  <2>7. left \subseteq ToSet(c.task[t].sent)
    BY <1>1, <2>3 DEF Unsent
  <2>8. scope = "all" => \A e \in ToSet(c.task[t].sent) : e.session = s => e \in left
    BY <1>2, <2>3 DEF Unsent
  <2>9. AsksParts(m.task[t]) => AsksParts(c.task[t])
    BY <1>1, <1>6, <2>3 DEF Unsent, AsksParts
  <2> QED BY <2>1, <2>3, <2>4, <2>5, <2>6, <2>7, <2>8, <2>9 DEF Redirecting, none
<1>7. CASE r.session = s /\ r.kind # "hashes"
  <2>1. n = MakeRequest(f, t, offset, i) /\ offset = r.offset
    BY <1>3, <1>7
  <2>2. Cancels(scope, d, x, t, none, none, r, G, c)
    BY <1>1, <1>7 DEF Cancels, Frees
  <2>3. offset \in Parts /\ offset \in Offsets(m.task[t])
    <3>1. Shape(d)
      BY <1>1 DEF Good
    <3>2. r.offset \in Parts
      BY <1>1, <3>1, ShapeFields
    <3> QED BY <1>1, <3>2 DEF Offsets
  <2>4. G \ {offset} = none /\ offset \in G
    OBVIOUS
  <2> HIDE DEF c, none, G, i, f
  <2>5. Good(scope, c, x, t, G, none) /\ Beside(d, c, t) /\ Unsent(d, c, t, r)
    BY ONLY x \in Nat, t \in Tasks, <2>2, CancelRequestOK
  <2>6. Beside(m, c, t) /\ Offsets(c.task[t]) \subseteq Offsets(m.task[t])
    BY <1>1, <2>5, BesideTwice DEF Offsets, Unsent
  <2>7. Removes(scope, c, x, s)
    <3>1. Away(m, c, t)
      BY <2>6 DEF Away, Beside
    <3> QED BY <3>1, RemovesKept
  <2>8. i \in DOMAIN c.sessions /\ i \in Nat
    <3>1. Shape(c)
      BY <2>5 DEF Good
    <3> QED BY <1>4, <3>1, ChooseIs, ShapeNumbers
  <2>9. scope = "all" => below
    BY <1>4, <2>5, <2>7, ChosenBefore
  <2>10. Holds(scope, below)
    BY <2>9 DEF Holds
  <2> HIDE DEF below
  <2>11. Good(scope, f, x, t, G, none) /\ Beside(c, f, t) /\ f.task = c.task
    BY ONLY x \in Nat, t \in Tasks, <1>4, <2>5, <2>10, ExpectsOK
  <2>12. MayMake(scope, f, x, t, G, none, offset, i, none, n)
    <3>1. ASSUME scope = "all" PROVE i \in DOMAIN f.sessions /\ Queued(f, t)
      <4>1. Shape(f) /\ Shape(c) /\ Len(f.sessions) = Len(c.sessions)
        BY <2>5, <2>11 DEF Good, Beside
      <4>2. Queued(m, t)
        <5>1. BalanceOK(m, x)
          BY <3>1 DEF Fine
        <5> QED BY <2>3, <5>1 DEF BalanceOK, Taken
      <4>3. f.queue = m.queue
        BY <2>6, <2>11 DEF Beside
      <4> QED BY <2>8, <4>1, <4>2, <4>3, ShapeNumbers DEF Queued
    <3> QED BY <2>1, <2>3, <2>4, <2>8, <2>11, <3>1 DEF MayMake
  <2> HIDE DEF offset
  <2>13. /\ Good(scope, n, x, t, none, none) /\ Beside(f, n, t) /\ n.posted = f.posted
         /\ Made(f, n, t, KindOf(f.task[t]), offset, i) /\ KindsKept(f, n, t)
    BY ONLY x \in Nat, t \in Tasks, <2>12, MakeOK
  <2>14. KindsOK(n.task[t])
    <3>1. KindsOK(c.task[t])
      BY <1>1, <2>5 DEF KindsOK, Beside, KeepsAll, Unsent, Held
    <3> QED BY <2>11, <2>13, <3>1 DEF KindsKept
  <2>15. Beside(m, n, t)
    BY <2>6, <2>11, <2>13, BesideTwice
  <2>16. PICK e : /\ e.offset = offset /\ e.session = i
                  /\ ToSet(n.task[t].sent) = ToSet(c.task[t].sent) \union {e}
    BY <2>11, <2>13 DEF Made
  <2>17. Offsets(n.task[t]) \subseteq Offsets(m.task[t])
    BY <2>3, <2>6, <2>16 DEF Offsets
  <2>18. left \subseteq ToSet(n.task[t].sent)
    BY <1>1, <2>5, <2>16 DEF Unsent
  <2>19. ASSUME scope = "all" PROVE \A b \in ToSet(n.task[t].sent) : b.session = s => b \in left
    <3>1. i # s
      <4>1. i < s /\ s \in Nat /\ i \in Nat
        BY <2>8, <2>9, <2>19 DEF below, Removes
      <4> QED BY ONLY <4>1
    <3>2. \A b \in ToSet(c.task[t].sent) : b.session = s => b \in left
      BY <1>2, <2>5, <2>19 DEF Unsent
    <3> QED BY <2>16, <3>1, <3>2
  <2>20. AsksParts(n.task[t])
    BY <2>13, MadeAsks
  <2> QED BY <2>13, <2>14, <2>15, <2>17, <2>18, <2>19, <2>20 DEF Redirecting, none
<1> QED BY <1>5, <1>6, <1>7

Free(m, t, s) == HeldBefore(m, t, s) /\ \A r \in ToSet(m.task[t].sent) : r.session # s

LEMMA RemoveFromOK ==
    ASSUME NEW scope, NEW m, NEW x \in Nat, NEW t \in Tasks, Fine(scope, m, x),
           NEW s, Removes(scope, m, x, s), NEW n, n = RemoveSessionFrom(m, t, s)
    PROVE  /\ Fine(scope, n, x) /\ Away(m, n, t) /\ Spared(m, n, t)
           /\ scope = "all" => Free(n, t, s)
<1> DEFINE q == m.task[t].sent
           a == <<t, s>>
           kind == "redirect"
           b == MovesHeld(m, t, s)
<1>1. IsSeq(q) /\ Alone(q) /\ Len(q) \in Nat /\ DOMAIN q = 1 .. Len(q)
  <2>1. Shape(m) /\ TaskOK(m, t, {}, {})
    BY DEF Fine
  <2>2. IsSeq(q) /\ Alone(q)
    BY <2>1, ShapeFields DEF TaskOK, RequestsOK
  <2> QED BY <2>2, SeqLen
<1>2. PICK g, c : Goes(g, kind, a, q, b, c) /\ n = c
  BY <1>1, RedirectGoes
<1>3. a[1] = t /\ a[2] = s /\ kind = "redirect" /\ b = MovesHeld(m, t, s)
  OBVIOUS
<1> HIDE DEF q, a, kind, b
<1>4. /\ Fine(scope, b, x) /\ Away(m, b, t) /\ b.task[t].sent = q /\ Spared(m, b, t)
      /\ scope = "all" => HeldBefore(b, t, s)
  <2>1. /\ Fine(scope, b, x) /\ Away(m, b, t) /\ b.task[t].sent = m.task[t].sent
        /\ Spared(m, b, t)
        /\ scope = "all" => HeldBefore(b, t, s)
    BY <1>3, MovesHeldOK
  <2> QED BY <2>1 DEF q
<1>5. Removes(scope, b, x, s)
  BY <1>4, RemovesKept
<1> DEFINE P == {k \in 0 .. Len(q) : Redirecting(scope, b, x, t, s, g[k], Rest(q, k))}
<1>6. 0 \in P
  <2>1. g[0] = b /\ Rest(q, 0) = ToSet(q)
    BY <1>1, <1>2, RestIs DEF Goes
  <2>2. Good(scope, b, x, t, {}, {}) /\ KindsOK(b.task[t])
    BY <1>4, GoodFine
  <2>3. Redirecting(scope, b, x, t, s, b, ToSet(q))
    BY <1>4, <2>2, BesideSame DEF Redirecting
  <2> QED BY <1>1, <2>1, <2>3
<1>7. ASSUME NEW k \in 1 .. Len(q), k - 1 \in P PROVE k \in P
  <2> DEFINE d == g[k - 1]
             e == g[k]
             r == q[k]
             old == Rest(q, k - 1)
             left == Rest(q, k)
  <2>1. Redirecting(scope, b, x, t, s, d, old)
    BY <1>7
  <2>2. e = Redirect(d, t, r, s)
    BY <1>2, <1>3 DEF Goes, Each
  <2>3. r \in old /\ left = old \ {r}
    BY <1>1, RestIs
  <2> HIDE DEF d, e, r, old, left
  <2>4. Redirecting(scope, b, x, t, s, e, left)
    BY <1>4, <1>5, <2>1, <2>2, <2>3, RedirectOK
  <2> QED BY <1>1, <2>4 DEF e, left
<1>8. Len(q) \in P
  <2> HIDE DEF P
  <2> QED BY <1>1, <1>6, <1>7, ByNumber
<1>9. Redirecting(scope, b, x, t, s, n, {})
  BY <1>1, <1>2, <1>8, RestIs DEF Goes
<1>10. Fine(scope, n, x)
  BY <1>9, GoodFine DEF Redirecting
<1>11. Away(m, n, t)
  BY <1>4, <1>9 DEF Away, Redirecting, Beside
<1>12. scope = "all" => Free(n, t, s)
  BY <1>4, <1>9 DEF Free, HeldBefore, Redirecting, Beside, KeepsAll, Held
<1>13. Spared(m, n, t)
  <2>1. Near(b, n, t) /\ Held(n.task[t]) = Held(b.task[t])
        /\ (AsksParts(b.task[t]) => AsksParts(n.task[t]))
    BY <1>9, BesideNear DEF Redirecting, Beside, KeepsAll, Held
  <2> QED BY <1>4, <2>1, SparedTwice DEF Spared
<1> QED BY <1>10, <1>11, <1>12, <1>13

-----------------------------------------------------------------------------
(* The sessions and the balance change, and no task does.                    *)

Adjusts(m, n) ==
    /\ IsManager(n) /\ n.sessions \in Seq(SessionType) /\ Len(n.sessions) > 0
    /\ n.balance \in BalanceType /\ n.queue \in Seq(EntryType) /\ n.killing \in BOOLEAN
    /\ n.task = m.task /\ n.posted = m.posted /\ n.broken = m.broken

LEMMA AdjustShape ==
    ASSUME NEW m, NEW n, Shape(m), Adjusts(m, n)
    PROVE  Shape(n)
  BY DEF Shape, Adjusts

LEMMA AdjustOK ==
    ASSUME NEW scope, NEW m, NEW n, NEW x, NEW y, Fine(scope, m, x), Adjusts(m, n),
           scope = "all" => BalanceOK(n, y)
    PROVE  Fine(scope, n, y)
<1>1. Shape(n)
  BY AdjustShape DEF Fine
<1>2. \A u \in Tasks : TaskOK(n, u, {}, {}) /\ KindsOK(n.task[u])
  <2> TAKE u \in Tasks
  <2>1. TaskOK(m, u, {}, {}) /\ KindsOK(m.task[u])
    BY DEF Fine
  <2>2. n.task[u] = m.task[u] /\ n.posted = m.posted
    BY DEF Adjusts
  <2> QED BY <2>1, <2>2, TaskKept
<1> QED BY <1>1, <1>2 DEF Fine

LEMMA AdjustGood ==
    ASSUME NEW scope, NEW m, NEW n, NEW x, NEW y, NEW t \in Tasks, NEW G, NEW due,
           Good(scope, m, x, t, G, due), Adjusts(m, n), scope = "all" => BalanceOK(n, y)
    PROVE  Good(scope, n, y, t, G, due)
<1>1. Shape(n)
  BY AdjustShape DEF Good
<1>2. \A u \in Tasks \ {t} : TaskOK(n, u, {}, {}) /\ KindsOK(n.task[u])
  <2> TAKE u \in Tasks \ {t}
  <2>1. TaskOK(m, u, {}, {}) /\ KindsOK(m.task[u])
    BY DEF Good
  <2>2. n.task[u] = m.task[u] /\ n.posted = m.posted
    BY DEF Adjusts
  <2> QED BY <2>1, <2>2, TaskKept
<1>3. TaskOK(n, t, G, due)
  <2>1. n.task[t] = m.task[t] /\ n.posted = m.posted /\ TaskOK(m, t, G, due)
    BY DEF Adjusts, Good
  <2> QED BY <2>1, TaskKept
<1> QED BY <1>1, <1>2, <1>3 DEF Good

\* There may be new sessions, and nothing waits in those.
AmountsKept(m, n) ==
    /\ Adjusts(m, n) /\ n.queue = m.queue /\ (n.killing => m.killing)
    /\ n.balance.total = m.balance.total /\ Len(m.sessions) <= Len(n.sessions)
    /\ \A i \in DOMAIN n.sessions : n.sessions[i].requested =
            IF i \in DOMAIN m.sessions THEN m.sessions[i].requested ELSE 0

LEMMA AmountsOK ==
    ASSUME NEW m, NEW n, Shape(m), BalanceOK(m, 0), AmountsKept(m, n)
    PROVE  BalanceOK(n, 0)
<1>1. Adjusts(m, n) /\ n.task = m.task /\ n.queue = m.queue /\ n.broken = m.broken
  BY DEF AmountsKept, Adjusts
<1>2. Shape(n)
  BY <1>1, AdjustShape
<1>3. /\ DOMAIN m.sessions = 1 .. Len(m.sessions) /\ DOMAIN n.sessions = 1 .. Len(n.sessions)
      /\ Len(m.sessions) \in Nat /\ Len(n.sessions) \in Nat /\ Len(m.sessions) <= Len(n.sessions)
  BY <1>2, ShapeNumbers DEF AmountsKept
<1>4. DOMAIN m.sessions \subseteq DOMAIN n.sessions
  BY <1>3
<1>5. Sent(n) = Sent(m) /\ \A i : SentIn(n, i) = SentIn(m, i)
  BY <1>1, SentOf
<1>6. InSessions(n)
  BY <1>1, <1>4 DEF InSessions, BalanceOK
<1>7. Adds(n, 0)
  <2> SUFFICES ASSUME NEW i \in DOMAIN n.sessions
               PROVE  n.sessions[i].requested = Cardinality(SentIn(n, i)) + 0
    BY <1>5 DEF Adds, BalanceOK, AmountsKept
  <2>1. Cardinality(SentIn(n, i)) \in Nat
    BY SentFinite
  <2>2. CASE i \in DOMAIN m.sessions
    <3>1. m.sessions[i].requested = Cardinality(SentIn(m, i)) + 0
      BY <2>2 DEF BalanceOK, Adds
    <3> QED BY <1>5, <2>1, <2>2, <3>1 DEF AmountsKept
  <2>3. CASE i \notin DOMAIN m.sessions
    <3>1. SentIn(m, i) = {}
      <4> SUFFICES ASSUME NEW p \in SentIn(m, i) PROVE FALSE
        OBVIOUS
      <4>1. p \in Tasks \X Parts /\ p[1] \in Tasks
        BY DEF SentIn
      <4>2. PICK u \in Tasks : \E r \in ToSet(m.task[u].sent) : r.session = i
        BY <4>1 DEF SentIn
      <4>3. InSessions(m)
        BY DEF BalanceOK
      <4>4. PICK r \in ToSet(m.task[u].sent) : r.session = i
        BY <4>2
      <4>5. r.session \in DOMAIN m.sessions
        BY ONLY <4>3, u \in Tasks, r \in ToSet(m.task[u].sent) DEF InSessions
      <4> QED BY <2>3, <4>4, <4>5
    <3>2. Cardinality(SentIn(n, i)) = 0
      BY <1>5, <3>1, FS_EmptySet
    <3>3. n.sessions[i].requested = 0
      BY <2>3 DEF AmountsKept
    <3> QED BY <3>2, <3>3
  <2> QED BY <2>2, <2>3
<1>8. Idle0(n) /\ Sorted(n.queue) /\ ~n.broken
  BY <1>1, <1>5 DEF BalanceOK, Idle0, AmountsKept
<1>9. \A u \in Tasks : Taken(n.task[u]) # {} => Queued(n, u)
  BY <1>1 DEF BalanceOK, Queued
<1> QED BY <1>6, <1>7, <1>8, <1>9 DEF BalanceOK

LEMMA AmountsFine ==
    ASSUME NEW scope, NEW m, NEW n, Fine(scope, m, 0), AmountsKept(m, n)
    PROVE  Fine(scope, n, 0)
<1>1. scope = "all" => BalanceOK(n, 0)
  BY AmountsOK DEF Fine
<1> DEFINE x == 0
<1>2. Fine(scope, m, x) /\ Adjusts(m, n) /\ (scope = "all" => BalanceOK(n, x))
  BY <1>1 DEF AmountsKept
<1> HIDE DEF x
<1>3. Fine(scope, n, x)
  BY <1>2, AdjustOK
<1> QED BY <1>3 DEF x

LEMMA AmountsGood ==
    ASSUME NEW scope, NEW m, NEW n, NEW t \in Tasks, NEW G, NEW due,
           Good(scope, m, 0, t, G, due), AmountsKept(m, n)
    PROVE  Good(scope, n, 0, t, G, due)
<1>1. scope = "all" => BalanceOK(n, 0)
  BY AmountsOK DEF Good
<1> DEFINE x == 0
<1>2. Good(scope, m, x, t, G, due) /\ Adjusts(m, n) /\ (scope = "all" => BalanceOK(n, x))
  BY <1>1 DEF AmountsKept
<1> HIDE DEF x
<1>3. Good(scope, n, x, t, G, due)
  BY <1>2, AdjustGood
<1> QED BY <1>3 DEF x

\* All that is sent is marked.
LEMMA LateIs ==
    ASSUME NEW m, Shape(m), \A u \in Tasks : RequestsOK(m.task[u]), NEW n, n = Late(m)
    PROVE  /\ Shape(n) /\ \A u \in Tasks : Relabels(m.task[u], n.task[u])
           /\ n.sessions = m.sessions /\ n.balance = m.balance /\ n.queue = m.queue
           /\ n.killing = m.killing /\ n.posted = m.posted /\ n.broken = m.broken
           /\ AllSpared(m, n)
<1> DEFINE task == [u \in Tasks |->
               [m.task[u] EXCEPT !.sent = [i \in DOMAIN @ |-> [@[i] EXCEPT !.late = TRUE]]]]
<1>1. n = [m EXCEPT !.task = task] /\ IsManager(m)
  <2>1. n = [m EXCEPT !.task = task]
    BY DEF Late
  <2> QED BY <2>1 DEF Shape
<1>2. ASSUME NEW u \in Tasks PROVE Relabels(m.task[u], task[u]) /\ SameWork(m.task[u], task[u])
  <2> DEFINE k == m.task[u]
             q == k.sent
             p == [i \in DOMAIN q |-> [q[i] EXCEPT !.late = TRUE]]
             l == task[u]
  <2>1. l = [k EXCEPT !.sent = p]
    OBVIOUS
  <2>2. TaskShape(k) /\ RequestsOK(k)
    BY ShapeFields
  <2>3. \A e \in ToSet(q) : IsRequest(e) /\ (e.awaits = "reference" => e.kind = "part")
    BY <2>2 DEF TaskShape, RequestsOK
  <2> HIDE DEF task, l, k
  <2>4. Labels(q, p) /\ \A i \in DOMAIN q : p[i].awaits = q[i].awaits
    <3>1. ASSUME NEW i \in DOMAIN q PROVE Labelled(q[i], p[i]) /\ p[i].awaits = q[i].awaits
      <4> DEFINE r == q[i]
                 e == [r EXCEPT !.late = TRUE]
      <4>1. r \in ToSet(q)
        BY DEF ToSet
      <4>2. IsRequest(r) /\ (r.awaits = "reference" => r.kind = "part")
        BY <2>3, <4>1
      <4>3. p[i] = e
        OBVIOUS
      <4>6. e = [r EXCEPT !.late = TRUE] /\ IsRequest(r)
        BY <4>2
      <4> HIDE DEF r, e, p
      <4>4. e.kind = r.kind /\ e.offset = r.offset /\ e.session = r.session /\ e.awaits = r.awaits
            /\ e = [kind |-> e.kind, offset |-> e.offset, session |-> e.session,
                    amount |-> e.amount, late |-> e.late, renewed |-> e.renewed,
                    awaits |-> e.awaits]
        BY ONLY <4>6 DEF IsRequest
      <4>5. Labelled(r, p[i])
        BY <4>2, <4>3, <4>4 DEF Labelled, IsRequest
      <4> QED BY <4>3, <4>4, <4>5 DEF r
    <3>2. DOMAIN p = DOMAIN q /\ p = [i \in DOMAIN q |-> p[i]]
      OBVIOUS
    <3> HIDE DEF p, q
    <3> QED BY <3>1, <3>2 DEF Labels
  <2> HIDE DEF p
  <2>5. Relabels(k, l)
    BY <2>1, <2>2, <2>4, RelabelIs DEF q
  <2>6. SameWork(k, l)
    <3>1. l.sent = p /\ KeepsAll(k, l) /\ Offsets(l) = Offsets(k)
      <4>1. IsTask(k) /\ l = [k EXCEPT !.sent = p]
        BY <2>1, <2>2, RecordOf
      <4>2. l.sent = p
        BY <4>1 DEF IsTask
      <4> QED BY <2>5, <4>2 DEF Relabels
    <3>2. DOMAIN p = DOMAIN q /\ \A i \in DOMAIN q : p[i].kind = q[i].kind /\ p[i].awaits = q[i].awaits
      BY <2>4 DEF Labels, Labelled
    <3> HIDE DEF q
    <3>3. Awaiting(l) \subseteq Awaiting(k)
      BY <3>1, <3>2 DEF Awaiting, ToSet, q
    <3>4. AsksParts(k) => AsksParts(l)
      BY <3>1, <3>2 DEF AsksParts, ToSet, q
    <3> QED BY <3>1, <3>3, <3>4 DEF SameWork, KeepsAll, Held
  <2> QED BY <2>5, <2>6 DEF k, l
<1>3. task = [u \in Tasks |-> task[u]]
  OBVIOUS
<1> HIDE DEF task
<1>4. /\ n.sessions = m.sessions /\ n.balance = m.balance /\ n.queue = m.queue
      /\ n.killing = m.killing /\ n.posted = m.posted /\ n.broken = m.broken
      /\ n.task = task /\ IsManager(n)
  BY <1>1 DEF IsManager
<1>5. Shape(n)
  <2>1. \A u \in Tasks : TaskShape(n.task[u])
    BY <1>2, <1>4 DEF Relabels
  <2> QED BY <1>3, <1>4, <2>1 DEF Shape
<1>6. AllSpared(m, n)
  BY <1>2, <1>4 DEF AllSpared
<1> QED BY <1>2, <1>4, <1>5, <1>6

LEMMA LateOK ==
    ASSUME NEW scope, NEW m, NEW x \in Nat, Fine(scope, m, x), NEW n, n = Late(m)
    PROVE  Fine(scope, n, x)
<1>1. /\ Shape(n) /\ \A u \in Tasks : Relabels(m.task[u], n.task[u])
      /\ n.sessions = m.sessions /\ n.balance = m.balance /\ n.queue = m.queue
      /\ n.killing = m.killing /\ n.posted = m.posted /\ n.broken = m.broken
  <2>1. Shape(m) /\ \A u \in Tasks : RequestsOK(m.task[u])
    BY DEF Fine, TaskOK
  <2> QED BY <2>1, LateIs
<1>0. \A u \in Tasks : Relabels(m.task[u], n.task[u])
  BY <1>1
<1>2. ASSUME NEW u \in Tasks PROVE TaskOK(n, u, {}, {}) /\ KindsOK(n.task[u])
  <2> DEFINE none == {}
  <2>1. TaskOK(m, u, none, none) /\ KindsOK(m.task[u]) /\ Relabels(m.task[u], n.task[u])
    BY <1>0 DEF Fine
  <2> HIDE DEF none
  <2>2. TaskOK(n, u, none, none)
    BY <1>1, <2>1, RelabelOK
  <2> QED BY <2>1, <2>2 DEF none, Relabels
<1>3. ASSUME scope = "all" PROVE BalanceOK(n, x)
  <2>1. BalanceOK(m, x)
    BY <1>3 DEF Fine
  <2>2. \A u \in Tasks : Offsets(n.task[u]) = Offsets(m.task[u]) /\ Held(n.task[u]) = Held(m.task[u])
                         /\ n.task[u].unchecked = m.task[u].unchecked
    BY <1>0 DEF Relabels, KeepsAll, Held
  <2>3. Sent(n) = Sent(m) /\ \A i \in Nat : SentIn(n, i) = SentIn(m, i)
    <3>1. ASSUME NEW u \in Tasks, NEW o \in Parts, NEW i \in Nat
          PROVE  (\E r \in ToSet(m.task[u].sent) : r.offset = o /\ r.session = i) <=>
                 (\E r \in ToSet(n.task[u].sent) : r.offset = o /\ r.session = i)
      <4>1. Alike(m.task[u].sent, n.task[u].sent)
        BY <1>0 DEF Relabels
      <4> QED BY <4>1 DEF Alike
    <3>2. \A u \in Tasks : Offsets(n.task[u]) = Offsets(m.task[u])
      BY <2>2
    <3> QED BY <3>1, <3>2, SentAlike
  <2>4. InSessions(n)
    <3>1. ASSUME NEW u \in Tasks, NEW r \in ToSet(n.task[u].sent) PROVE r.session \in DOMAIN m.sessions
      <4>1. Alike(m.task[u].sent, n.task[u].sent)
        BY <1>0 DEF Relabels
      <4>2. r.offset \in Parts /\ r.session \in Nat
        BY <1>1, ShapeFields
      <4>3. PICK e \in ToSet(m.task[u].sent) : e.offset = r.offset /\ e.session = r.session
        BY <4>1, <4>2 DEF Alike
      <4> QED BY <2>1, <4>3 DEF BalanceOK, InSessions
    <3>2. ASSUME NEW u \in Tasks, NEW o \in Held(n.task[u])
          PROVE  n.task[u].unchecked[o] \in DOMAIN m.sessions
      <4>1. o \in Held(m.task[u]) /\ n.task[u].unchecked = m.task[u].unchecked
        BY <2>2
      <4>2. m.task[u].unchecked[o] \in DOMAIN m.sessions
        BY <2>1, <4>1 DEF BalanceOK, InSessions
      <4> QED BY <4>1, <4>2
    <3> QED BY <1>1, <3>1, <3>2 DEF InSessions
  <2>5. Adds(n, x)
    <3>1. DOMAIN m.sessions \subseteq Nat
      <4>1. Shape(m)
        BY DEF Fine
      <4> QED BY <4>1, ShapeNumbers
    <3>2. \A i \in DOMAIN m.sessions : SentIn(n, i) = SentIn(m, i)
      BY <2>3, <3>1
    <3> QED BY <1>1, <2>1, <2>3, <3>2 DEF BalanceOK, Adds
  <2>6. ASSUME NEW u \in Tasks, Taken(n.task[u]) # {} PROVE Queued(n, u)
    <3>1. Taken(m.task[u]) # {}
      BY <2>2, <2>6 DEF Taken
    <3> QED BY <1>1, <2>1, <3>1 DEF BalanceOK, Queued
  <2> QED BY <1>1, <2>1, <2>3, <2>4, <2>5, <2>6 DEF BalanceOK, Idle0
<1> QED BY <1>1, <1>2, <1>3 DEF Fine

LEMMA MinTwo ==
    ASSUME NEW a \in Int, NEW b \in Int
    PROVE  Min({a, b}) \in {a, b} /\ Min({a, b}) \in Int
<1>1. \E k \in {a, b} : \A j \in {a, b} : k <= j
  OBVIOUS
<1>2. Min({a, b}) \in {a, b}
  BY <1>1 DEF Min
<1> QED BY <1>2

\* What is sent has room in the sessions there may be.
Room(scope, m) == scope = "all" => Cardinality(Sent(m)) <= MaxWaited * MaxSessions

LEMMA FullerOK ==
    ASSUME NEW scope, NEW m, Fine(scope, m, 0), Room(scope, m), Len(m.sessions) > 1,
           NEW x, x = MaxWaited * MaxSessions, NEW n, n = Fuller(m),
           NEW s, s = Len(m.sessions)
    PROVE  /\ Fine(scope, n, x) /\ x \in Nat /\ Removes(scope, n, x, s) /\ n.queue = m.queue
           /\ Len(n.sessions) = s /\ n.task = m.task
<1> DEFINE last == Len(m.sessions)
           b == m.balance
           both == {b.times + 1, MaxRemoves}
           times == IF b.index = last THEN Min(both) ELSE 1
           balance == [b EXCEPT !.index = last, !.times = times, !.removed = TRUE, !.timeouts = 0]
           e == m.sessions[last]
           more == [e EXCEPT !.requested = @ + x]
           sessions == [m.sessions EXCEPT ![last] = more]
<1>1. Shape(m) /\ IsManager(m) /\ m.sessions \in Seq(SessionType) /\ b \in BalanceType
      /\ m.queue \in Seq(EntryType) /\ m.killing \in BOOLEAN
  BY DEF Fine, Shape
<1>2. x \in Nat
  <2>1. MaxWaited \in Nat /\ MaxSessions \in Nat
    BY Constants
  <2> QED BY ONLY <2>1, x = MaxWaited * MaxSessions
<1>3. last \in Nat /\ last \in DOMAIN m.sessions /\ DOMAIN m.sessions = 1 .. last /\ e \in SessionType
  <2>1. Len(m.sessions) \in Nat /\ Len(m.sessions) > 0 /\ DOMAIN m.sessions = 1 .. Len(m.sessions)
    BY <1>1, ShapeNumbers
  <2>2. last \in DOMAIN m.sessions
    BY <2>1
  <2> QED BY <1>1, <2>1, <2>2
<1>4. n = [m EXCEPT !.sessions = sessions, !.balance = balance]
  BY <1>1 DEF Fuller, IsManager
<1>5. times \in Int
  <2>1. b.times + 1 \in Int /\ MaxRemoves \in Int
    BY <1>1, Constants DEF BalanceType
  <2>2. Min(both) \in Int
    BY <2>1, MinTwo
  <2> HIDE DEF both
  <2> QED BY <2>2
<1> HIDE DEF times
<1>6. balance \in BalanceType /\ balance.total = b.total
  <2>1. balance = [b EXCEPT !.index = last, !.times = times, !.removed = TRUE, !.timeouts = 0]
    OBVIOUS
  <2>2. b \in BalanceType /\ last \in Int /\ times \in Int
    BY <1>1, <1>3, <1>5
  <2> DEFINE b1 == [b EXCEPT !.index = last]
             b2 == [b1 EXCEPT !.times = times]
             b3 == [b2 EXCEPT !.removed = TRUE]
             b4 == [b3 EXCEPT !.timeouts = 0]
  <2>3. balance = b4
    BY <2>1
  <2> HIDE DEF b, last, balance
  <2>4. b1 \in BalanceType /\ b1.total = b.total
    BY ONLY <2>2 DEF BalanceType
  <2> HIDE DEF b1
  <2>5. b2 \in BalanceType /\ b2.total = b1.total
    BY ONLY <2>2, <2>4 DEF BalanceType
  <2> HIDE DEF b2
  <2>6. b3 \in BalanceType /\ b3.total = b2.total
    BY ONLY <2>5 DEF BalanceType
  <2> HIDE DEF b3
  <2>7. b4 \in BalanceType /\ b4.total = b3.total
    BY ONLY <2>6 DEF BalanceType
  <2> HIDE DEF b4
  <2> QED BY ONLY <2>3, <2>4, <2>5, <2>6, <2>7
<1> HIDE DEF balance
<1>7. more \in SessionType /\ more.requested = e.requested + x
  <2>1. e \in SessionType /\ x \in Int
    BY <1>2, <1>3
  <2> HIDE DEF e
  <2> QED BY <2>1 DEF SessionType
<1> HIDE DEF more
<1>8. /\ sessions \in Seq(SessionType) /\ Len(sessions) = last /\ DOMAIN sessions = DOMAIN m.sessions
      /\ \A i \in DOMAIN m.sessions : sessions[i] = IF i = last THEN more ELSE m.sessions[i]
  BY <1>1, <1>3, <1>7
<1> HIDE DEF sessions
<1>9. /\ n.sessions = sessions /\ n.balance = balance /\ n.queue = m.queue
      /\ n.killing = m.killing /\ n.task = m.task /\ n.posted = m.posted /\ n.broken = m.broken
      /\ IsManager(n)
  BY <1>1, <1>4 DEF IsManager
<1>10. Adjusts(m, n)
  BY <1>1, <1>3, <1>6, <1>8, <1>9 DEF Adjusts
<1>11. Sent(n) = Sent(m) /\ \A i : SentIn(n, i) = SentIn(m, i)
  BY <1>9, SentOf
<1>12. ASSUME scope = "all" PROVE BalanceOK(n, x)
  <2>1. BalanceOK(m, 0)
    BY <1>12 DEF Fine
  <2>2. InSessions(n) /\ Idle0(n) /\ Sorted(n.queue) /\ ~n.broken
    BY <1>8, <1>9, <1>11, <2>1 DEF BalanceOK, InSessions, Idle0
  <2>3. Adds(n, x)
    <3>1. \A i \in DOMAIN m.sessions : Cardinality(SentIn(m, i)) \in Nat
      BY SentFinite
    <3>2. \A i \in DOMAIN m.sessions :
              m.sessions[i].requested = Cardinality(SentIn(m, i)) + (IF i = last THEN 0 ELSE 0)
      BY <2>1 DEF BalanceOK, Adds
    <3>3. \A i \in DOMAIN m.sessions : m.sessions[i].requested = Cardinality(SentIn(m, i))
      BY <3>1, <3>2
    <3>4. ASSUME NEW i \in DOMAIN n.sessions
          PROVE  n.sessions[i].requested =
                     Cardinality(SentIn(n, i)) + (IF i = Len(n.sessions) THEN x ELSE 0)
      <4>1. i \in DOMAIN m.sessions /\ Cardinality(SentIn(m, i)) \in Nat /\ SentIn(n, i) = SentIn(m, i)
        BY <1>8, <1>9, <1>11, SentFinite
      <4>2. CASE i = last
        <5>1. n.sessions[i].requested = m.sessions[i].requested + x
          BY <1>7, <1>8, <1>9, <4>1, <4>2 DEF e
        <5> QED BY <1>8, <1>9, <3>3, <4>1, <4>2, <5>1
      <4>3. CASE i # last
        <5>1. n.sessions[i] = m.sessions[i]
          BY <1>8, <1>9, <4>1, <4>3
        <5> QED BY <1>8, <1>9, <3>3, <4>1, <4>3, <5>1
      <4> QED BY <4>2, <4>3
    <3>5. n.balance.total = Cardinality(Sent(n))
      BY <1>6, <1>9, <1>11, <2>1 DEF BalanceOK, Adds
    <3> QED BY <3>4, <3>5 DEF Adds
  <2>4. \A u \in Tasks : Taken(n.task[u]) # {} => Queued(n, u)
    <3>1. \A u \in Tasks : Taken(m.task[u]) # {} => Queued(m, u)
      BY <2>1 DEF BalanceOK
    <3>2. n.queue = m.queue /\ n.task = m.task
      BY <1>9
    <3> QED BY ONLY <3>1, <3>2 DEF Queued
  <2> QED BY <2>2, <2>3, <2>4 DEF BalanceOK
<1> DEFINE zero == 0
<1>13. Fine(scope, m, zero)
  OBVIOUS
<1> HIDE DEF zero
<1>14. Fine(scope, n, x)
  BY <1>10, <1>12, <1>13, AdjustOK
<1>15. Removes(scope, n, x, s)
  <2>1. s \in Nat /\ Len(n.sessions) = s /\ s > 1
    BY <1>3, <1>8, <1>9
  <2>2. scope = "all" => Cardinality(Sent(n)) <= x
    BY <1>11 DEF Room
  <2> QED BY <2>1, <2>2 DEF Removes
<1> QED BY <1>2, <1>8, <1>9, <1>14, <1>15

LEMMA ShorterOK ==
    ASSUME NEW scope, NEW m, NEW c, NEW x \in Nat, x = MaxWaited * MaxSessions, Fine(scope, c, x),
           NEW s \in Nat, s = Len(m.sessions), s = Len(c.sessions), s > 1,
           scope = "all" => \A u \in Tasks : Free(c, u, s),
           NEW n, n = WithoutLast(m, c)
    PROVE  Fine(scope, n, 0) /\ AllSpared(c, n)
<1> DEFINE cond == c.sessions[s].requested = x
           f == Expects(c, cond)
           short == [i \in 1 .. s - 1 |-> f.sessions[i]]
           b == [f EXCEPT !.sessions = short]
           zero == 0
<1>0. zero \in Nat /\ zero = 0 /\ cond \in BOOLEAN
  OBVIOUS
<1>1. n = Late(b)
  BY DEF WithoutLast
<1>2. Shape(c) /\ s - 1 \in Nat /\ s - 1 > 0
  BY DEF Fine
<1>3. ASSUME scope = "all" PROVE /\ BalanceOK(c, x) /\ \A u \in Tasks : Free(c, u, s)
                                 /\ SentIn(c, s) = {} /\ cond
  <2>1. BalanceOK(c, x) /\ \A u \in Tasks : Free(c, u, s)
    BY <1>3 DEF Fine
  <2>2. SentIn(c, s) = {}
    <3> SUFFICES ASSUME NEW p \in SentIn(c, s) PROVE FALSE
      OBVIOUS
    <3>1. p \in Tasks \X Parts /\ p[1] \in Tasks
      BY DEF SentIn
    <3>2. PICK u \in Tasks : \E r \in ToSet(c.task[u].sent) : r.session = s
      BY <3>1 DEF SentIn
    <3> QED BY <2>1, <3>2 DEF Free
  <2>3. s \in DOMAIN c.sessions
    BY <1>2, ShapeNumbers
  <2>4. c.sessions[s].requested = Cardinality(SentIn(c, s)) + x
    BY <2>1, <2>3 DEF BalanceOK, Adds
  <2>5. Cardinality(SentIn(c, s)) = 0
    BY <2>2, FS_EmptySet
  <2> QED BY <2>1, <2>2, <2>4, <2>5
<1>4. f = Expects(c, cond)
  OBVIOUS
<1> HIDE DEF cond, f
<1>5. /\ Shape(f) /\ f.broken = (c.broken \/ ~cond)
      /\ f.sessions = c.sessions /\ f.balance = c.balance /\ f.queue = c.queue
      /\ f.killing = c.killing /\ f.posted = c.posted /\ f.task = c.task
  BY <1>0, <1>2, <1>4, ExpectsIs
<1>14. short = [i \in 1 .. s - 1 |-> c.sessions[i]]
  BY <1>5
<1>6. /\ short \in Seq(SessionType) /\ Len(short) = s - 1 /\ DOMAIN short = 1 .. s - 1
      /\ \A i \in 1 .. s - 1 : short[i] = c.sessions[i] /\ i \in DOMAIN c.sessions
  <2>1. c.sessions \in Seq(SessionType) /\ DOMAIN c.sessions = 1 .. s
    BY <1>2, ShapeNumbers DEF Shape
  <2>2. \A i \in 1 .. s - 1 : i \in 1 .. s
    BY <1>2
  <2> HIDE DEF short
  <2>3. \A i \in 1 .. s - 1 : short[i] = c.sessions[i] /\ short[i] \in SessionType
    BY <1>14, <2>1, <2>2
  <2>4. DOMAIN short = 1 .. s - 1 /\ short \in [1 .. s - 1 -> SessionType]
    BY <1>14, <2>3
  <2>5. short \in Seq(SessionType) /\ Len(short) = s - 1
    BY <1>2, <2>4
  <2> QED BY <2>1, <2>2, <2>3, <2>4, <2>5
<1>7. b = [f EXCEPT !.sessions = short] /\ IsManager(f)
  BY <1>5 DEF Shape
<1> HIDE DEF short, b
<1>8. /\ b.sessions = short /\ b.balance = c.balance /\ b.queue = c.queue /\ b.killing = c.killing
      /\ b.posted = c.posted /\ b.task = c.task /\ b.broken = f.broken /\ IsManager(b)
  BY <1>5, <1>7 DEF IsManager
<1>9. Shape(b)
  BY <1>2, <1>5, <1>6, <1>8 DEF Shape
<1>10. Sent(b) = Sent(c) /\ \A i : SentIn(b, i) = SentIn(c, i)
  BY <1>8, SentOf
<1>11. ASSUME scope = "all" PROVE BalanceOK(b, zero)
  <2>1. BalanceOK(c, x) /\ ~b.broken /\ \A u \in Tasks : Free(c, u, s)
    BY <1>3, <1>5, <1>8, <1>11 DEF BalanceOK
  <2>2. DOMAIN c.sessions = 1 .. s
    BY <1>2, ShapeNumbers
  <2>3. \A i \in DOMAIN c.sessions : i # s => i \in DOMAIN b.sessions
    BY <1>6, <1>8, <2>2
  <2>4. InSessions(b)
    <3>1. ASSUME NEW u \in Tasks, NEW r \in ToSet(b.task[u].sent) PROVE r.session \in DOMAIN b.sessions
      <4>1. r \in ToSet(c.task[u].sent)
        BY <1>8
      <4>2. r.session \in DOMAIN c.sessions /\ r.session # s
        BY <2>1, <4>1 DEF BalanceOK, InSessions, Free
      <4> QED BY <2>3, <4>2
    <3>2. ASSUME NEW u \in Tasks, NEW o \in Held(b.task[u])
          PROVE  b.task[u].unchecked[o] \in DOMAIN b.sessions
      <4>1. o \in Held(c.task[u]) /\ b.task[u] = c.task[u]
        BY <1>8
      <4>2. c.task[u].unchecked[o] \in DOMAIN c.sessions
        BY <2>1, <4>1 DEF BalanceOK, InSessions
      <4>3. c.task[u].unchecked[o] # s
        BY <2>1, <4>1 DEF Free, HeldBefore
      <4> QED BY <2>3, <4>1, <4>2, <4>3
    <3> QED BY <3>1, <3>2 DEF InSessions
  <2>5. Adds(b, zero)
    <3>1. ASSUME NEW i \in DOMAIN b.sessions
          PROVE  b.sessions[i].requested = Cardinality(SentIn(b, i)) + (IF i = Len(b.sessions) THEN zero ELSE 0)
      <4>1. i \in 1 .. s - 1 /\ i \in DOMAIN c.sessions /\ b.sessions[i] = c.sessions[i]
        BY <1>6, <1>8
      <4>2. i # s
        BY <1>2, <4>1
      <4>3. c.sessions[i].requested = Cardinality(SentIn(c, i)) + 0
        BY <2>1, <4>1, <4>2 DEF BalanceOK, Adds
      <4>4. Cardinality(SentIn(c, i)) \in Nat
        BY SentFinite
      <4> QED BY <1>0, <1>10, <4>1, <4>3, <4>4
    <3>2. b.balance.total = Cardinality(Sent(b))
      BY <1>8, <1>10, <2>1 DEF BalanceOK, Adds
    <3> QED BY <3>1, <3>2 DEF Adds
  <2>6. \A u \in Tasks : Taken(b.task[u]) # {} => Queued(b, u)
    BY <1>8, <2>1 DEF BalanceOK, Queued
  <2> QED BY <1>8, <1>10, <2>1, <2>4, <2>5, <2>6 DEF BalanceOK, Idle0
<1>12. Fine(scope, b, zero)
  <2>1. \A u \in Tasks : TaskOK(b, u, {}, {}) /\ KindsOK(b.task[u])
    <3> TAKE u \in Tasks
    <3>1. TaskOK(c, u, {}, {}) /\ KindsOK(c.task[u]) /\ b.task[u] = c.task[u] /\ b.posted = c.posted
      BY <1>8 DEF Fine
    <3> QED BY <3>1, TaskKept
  <2> QED BY <1>9, <1>11, <2>1 DEF Fine
<1> HIDE DEF zero
<1>13. Fine(scope, n, zero)
  BY <1>0, <1>1, <1>12, LateOK
<1>15. AllSpared(b, n)
  <2>1. \A u \in Tasks : RequestsOK(b.task[u])
    BY <1>12 DEF Fine, TaskOK
  <2> QED BY <1>1, <1>9, <2>1, LateIs
<1>16. AllSpared(c, n)
  BY <1>8, <1>15, AllSparedSame, AllSparedTwice
<1> QED BY <1>13, <1>16 DEF zero

LEMMA RemoveSessionOK ==
    ASSUME NEW scope, NEW m, Fine(scope, m, 0), Room(scope, m), Len(m.sessions) > 1,
           NEW n, n = RemoveSession(m)
    PROVE  Fine(scope, n, 0) /\ AllSpared(m, n)
<1> DEFINE q == m.queue
           s == Len(m.sessions)
           a == <<s>>
           kind == "remove"
           b == Fuller(m)
           x == MaxWaited * MaxSessions
<1>1. q \in Seq(EntryType) /\ Len(q) \in Nat /\ DOMAIN q = 1 .. Len(q)
      /\ \A i \in DOMAIN q : q[i].task \in Tasks
  <2>1. q \in Seq(EntryType)
    BY DEF Fine, Shape
  <2> HIDE DEF q
  <2> QED BY <2>1, EntriesAre
<1>2. PICK g, c : Goes(g, kind, a, q, b, c) /\ n = WithoutLast(m, c)
  BY <1>1, RemoveGoes
<1>3. a[1] = s /\ kind = "remove" /\ b = Fuller(m) /\ x = MaxWaited * MaxSessions /\ s = Len(m.sessions)
  OBVIOUS
<1> HIDE DEF a, kind, b, x, s
<1>5. /\ Fine(scope, b, x) /\ x \in Nat /\ Removes(scope, b, x, s) /\ b.queue = q
      /\ Len(b.sessions) = s /\ AllSpared(m, b)
  BY <1>3, FullerOK, AllSparedSame DEF q
<1> DEFINE Removing(d, k) ==
              /\ Fine(scope, d, x) /\ Removes(scope, d, x, s) /\ d.queue = q /\ Len(d.sessions) = s
              /\ AllSpared(m, d)
              /\ scope = "all" => \A j \in 1 .. k : Free(d, q[j].task, s)
           P == {k \in 0 .. Len(q) : Removing(g[k], k)}
<1> HIDE DEF q
<1>6. 0 \in P
  <2>1. g[0] = b
    BY <1>2 DEF Goes
  <2>2. \A j \in 1 .. 0 : FALSE
    OBVIOUS
  <2> QED BY <1>1, <1>5, <2>1, <2>2
<1>7. ASSUME NEW k \in 1 .. Len(q), k - 1 \in P PROVE k \in P
  <2> DEFINE d == g[k - 1]
             e == g[k]
             t == q[k].task
  <2>1. /\ Fine(scope, d, x) /\ Removes(scope, d, x, s) /\ d.queue = q /\ Len(d.sessions) = s
        /\ AllSpared(m, d)
        /\ scope = "all" => \A j \in 1 .. k - 1 : Free(d, q[j].task, s)
    BY <1>7
  <2>2. e = RemoveSessionFrom(d, t, s) /\ t \in Tasks
    <3>1. k \in DOMAIN q
      BY <1>1
    <3> QED BY <1>1, <1>2, <1>3, <3>1 DEF Goes, Each
  <2> HIDE DEF d, e, t
  <2>3. Fine(scope, e, x) /\ Away(d, e, t) /\ Spared(d, e, t) /\ (scope = "all" => Free(e, t, s))
    BY <1>5, <2>1, <2>2, RemoveFromOK
  <2>4. Removes(scope, e, x, s)
    BY <1>5, <2>1, <2>2, <2>3, RemovesKept
  <2>5. ASSUME scope = "all", NEW j \in 1 .. k PROVE Free(e, q[j].task, s)
    <3>1. CASE q[j].task = t
      BY <2>3, <2>5, <3>1
    <3>2. CASE q[j].task # t
      <4>1. j # k /\ j \in 1 .. k - 1 /\ j \in DOMAIN q
        BY <1>1, <3>2 DEF t
      <4>2. Free(d, q[j].task, s) /\ q[j].task \in Tasks
        BY <1>1, <2>1, <2>5, <4>1
      <4>3. e.task[q[j].task] = d.task[q[j].task]
        BY <2>3, <3>2, <4>2 DEF Away
      <4> QED BY <4>2, <4>3 DEF Free, HeldBefore
    <3> QED BY <3>1, <3>2
  <2>7. AllSpared(m, e)
    BY <2>1, <2>3, SparedAll, AllSparedTwice
  <2>6. Removing(e, k)
    BY <2>1, <2>3, <2>4, <2>5, <2>7 DEF Away
  <2> QED BY <1>1, <2>6 DEF e
<1>8. Len(q) \in P
  <2> HIDE DEF P
  <2> QED BY <1>1, <1>6, <1>7, ByNumber
<1>9. /\ Fine(scope, c, x) /\ c.queue = q /\ Len(c.sessions) = s /\ AllSpared(m, c)
      /\ scope = "all" => \A j \in 1 .. Len(q) : Free(c, q[j].task, s)
  BY <1>2, <1>8 DEF Goes
<1>10. ASSUME scope = "all", NEW u \in Tasks PROVE Free(c, u, s)
  <2>1. CASE Taken(c.task[u]) = {}
    BY <2>1 DEF Taken, Offsets, Free, HeldBefore
  <2>2. CASE Taken(c.task[u]) # {}
    <3>1. Queued(c, u)
      BY <1>9, <1>10, <2>2 DEF Fine, BalanceOK
    <3>2. PICK i \in 1 .. Len(q) : q[i].task = u
      BY <1>1, <1>9, <3>1 DEF Queued
    <3> QED BY <1>9, <1>10, <3>2
  <2> QED BY <2>1, <2>2
<1>11. s \in Nat /\ s > 1
  <2>1. Shape(m)
    BY DEF Fine
  <2> QED BY <1>3, <2>1, ShapeNumbers
<1> QED BY <1>2, <1>3, <1>5, <1>9, <1>10, <1>11, ShorterOK, AllSparedTwice

LEMMA AmountsSame ==
    ASSUME NEW m, Shape(m)
    PROVE  AmountsKept(m, m)
<1>1. Adjusts(m, m)
  BY DEF Shape, Adjusts
<1>2. Len(m.sessions) <= Len(m.sessions)
  BY ShapeNumbers
<1> QED BY <1>1, <1>2 DEF AmountsKept

LEMMA AmountsTwice ==
    ASSUME NEW m, NEW d, NEW n, Shape(m), AmountsKept(m, d), AmountsKept(d, n)
    PROVE  AmountsKept(m, n)
<1>1. Shape(d) /\ Adjusts(m, d) /\ Adjusts(d, n)
  BY AdjustShape DEF AmountsKept
<1>2. Shape(n)
  BY <1>1, AdjustShape
<1>3. /\ DOMAIN m.sessions = 1 .. Len(m.sessions) /\ DOMAIN d.sessions = 1 .. Len(d.sessions)
      /\ DOMAIN n.sessions = 1 .. Len(n.sessions)
      /\ Len(m.sessions) \in Nat /\ Len(d.sessions) \in Nat /\ Len(n.sessions) \in Nat
      /\ Len(m.sessions) <= Len(d.sessions) /\ Len(d.sessions) <= Len(n.sessions)
  BY <1>1, <1>2, ShapeNumbers DEF AmountsKept
<1>4. Adjusts(m, n)
  BY <1>1 DEF Adjusts
<1>5. ASSUME NEW i \in DOMAIN n.sessions
      PROVE  n.sessions[i].requested = IF i \in DOMAIN m.sessions THEN m.sessions[i].requested ELSE 0
  <2>1. i \in DOMAIN m.sessions => i \in DOMAIN d.sessions
    BY <1>3
  <2>2. n.sessions[i].requested = IF i \in DOMAIN d.sessions THEN d.sessions[i].requested ELSE 0
    BY DEF AmountsKept
  <2>3. i \in DOMAIN d.sessions =>
            d.sessions[i].requested = IF i \in DOMAIN m.sessions THEN m.sessions[i].requested ELSE 0
    BY DEF AmountsKept
  <2> QED BY <2>1, <2>2, <2>3
<1>6. Len(m.sessions) <= Len(n.sessions)
  BY <1>3
<1>7. n.queue = m.queue /\ (n.killing => m.killing) /\ n.balance.total = m.balance.total
  BY DEF AmountsKept
<1> QED BY <1>4, <1>5, <1>6, <1>7 DEF AmountsKept

LEMMA ClearedIs ==
    ASSUME NEW m, Shape(m), NEW n, n = WithoutSuccesses(m)
    PROVE  /\ AmountsKept(m, n) /\ Len(n.sessions) = Len(m.sessions) /\ n.balance = m.balance
           /\ n.task = m.task
<1> DEFINE q == m.sessions
           sessions == [i \in DOMAIN q |-> [q[i] EXCEPT !.successes = 0]]
<1>1. IsManager(m) /\ q \in Seq(SessionType) /\ Len(q) > 0
  BY DEF Shape
<1>2. n = [m EXCEPT !.sessions = sessions]
  BY DEF WithoutSuccesses
<1> HIDE DEF q
<1>3. DOMAIN q = 1 .. Len(q) /\ Len(q) \in Nat
  BY <1>1
<1>4. ASSUME NEW i \in DOMAIN q PROVE sessions[i] \in SessionType /\ sessions[i].requested = q[i].requested
  <2> DEFINE e == q[i]
             f == [e EXCEPT !.successes = 0]
  <2>1. e \in SessionType /\ sessions[i] = f
    BY <1>1, <1>3
  <2> HIDE DEF e, sessions
  <2>2. f \in SessionType /\ f.requested = e.requested
    BY <2>1 DEF SessionType
  <2> QED BY <2>1, <2>2 DEF e
<1>5. DOMAIN sessions = DOMAIN q
  OBVIOUS
<1>6. sessions \in Seq(SessionType) /\ Len(sessions) = Len(q)
  <2>1. sessions = [i \in 1 .. Len(q) |-> sessions[i]]
    BY <1>3
  <2> DEFINE k == Len(q)
  <2> HIDE DEF sessions
  <2>2. sessions \in [1 .. k -> SessionType] /\ k \in Nat
    BY <1>3, <1>4, <2>1
  <2> HIDE DEF k
  <2>3. sessions \in Seq(SessionType) /\ Len(sessions) = k
    BY <2>2
  <2> QED BY <2>3 DEF k
<1> HIDE DEF sessions
<1>7. /\ n.sessions = sessions /\ n.balance = m.balance /\ n.queue = m.queue
      /\ n.killing = m.killing /\ n.task = m.task /\ n.posted = m.posted /\ n.broken = m.broken
      /\ IsManager(n)
  BY <1>1, <1>2 DEF IsManager
<1>8. Adjusts(m, n)
  <2>1. m.balance \in BalanceType /\ m.queue \in Seq(EntryType) /\ m.killing \in BOOLEAN
    BY DEF Shape
  <2> QED BY <1>1, <1>6, <1>7, <2>1 DEF Adjusts
<1>9. AmountsKept(m, n)
  <2>1. \A i \in DOMAIN n.sessions : n.sessions[i].requested =
            IF i \in DOMAIN m.sessions THEN m.sessions[i].requested ELSE 0
    BY <1>4, <1>5, <1>7 DEF q
  <2>2. Len(m.sessions) <= Len(n.sessions)
    BY <1>3, <1>6, <1>7 DEF q
  <2> QED BY <1>7, <1>8, <2>1, <2>2 DEF AmountsKept
<1> QED BY <1>6, <1>7, <1>9 DEF q

LEMMA TimeoutsIs ==
    ASSUME NEW m, Shape(m), NEW k \in Int, NEW n, n = [m EXCEPT !.balance.timeouts = k]
    PROVE  /\ AmountsKept(m, n) /\ Len(n.sessions) = Len(m.sessions) /\ n.task = m.task
<1> DEFINE b == m.balance
           balance == [b EXCEPT !.timeouts = k]
<1>1. IsManager(m) /\ b \in BalanceType
  BY DEF Shape
<1>2. n = [m EXCEPT !.balance = balance]
  BY <1>1 DEF IsManager
<1>3. balance = [b EXCEPT !.timeouts = k]
  OBVIOUS
<1> HIDE DEF b, balance
<1>4. balance \in BalanceType /\ balance.total = b.total
  BY <1>1, <1>3 DEF BalanceType
<1>5. /\ n.sessions = m.sessions /\ n.balance = balance /\ n.queue = m.queue
      /\ n.killing = m.killing /\ n.task = m.task /\ n.posted = m.posted /\ n.broken = m.broken
      /\ IsManager(n)
  BY <1>1, <1>2 DEF IsManager
<1>6. Adjusts(m, n)
  BY <1>4, <1>5 DEF Adjusts, Shape
<1>7. \A i \in DOMAIN n.sessions : n.sessions[i].requested =
            IF i \in DOMAIN m.sessions THEN m.sessions[i].requested ELSE 0
  BY <1>5
<1>8. Len(m.sessions) <= Len(n.sessions)
  BY <1>5, ShapeNumbers
<1> QED BY <1>4, <1>5, <1>6, <1>7, <1>8 DEF AmountsKept, b

LEMMA SessionTimedOutOK ==
    ASSUME NEW scope, NEW m, Fine(scope, m, 0), Room(scope, m), NEW i \in Nat,
           NEW n, n = SessionTimedOut(m, i)
    PROVE  Fine(scope, n, 0) /\ AllSpared(m, n)
<1> DEFINE d == WithoutSuccesses(m)
           k == m.balance.timeouts + 1
           e == [d EXCEPT !.balance.timeouts = k]
           f == RemoveSession(d)
<1>1. Shape(m) /\ Len(m.sessions) \in Nat /\ Len(m.sessions) > 0 /\ m.balance.timeouts \in Int
  BY ShapeNumbers DEF Fine
<1>2. n = CASE i > Len(m.sessions) -> m
          [] i <= Len(m.sessions) /\ Len(m.sessions) = 1 -> d
          [] i <= Len(m.sessions) /\ Len(m.sessions) > 1 -> IF k < RemoveAfter THEN [d EXCEPT !.balance.timeouts = @ + 1] ELSE f
  BY DEF SessionTimedOut
<1>3. d = WithoutSuccesses(m)
  OBVIOUS
<1> HIDE DEF d, f
<1>4. AmountsKept(m, d) /\ Len(d.sessions) = Len(m.sessions) /\ d.balance = m.balance /\ d.task = m.task
  BY <1>1, <1>3, ClearedIs
<1>5. Fine(scope, d, 0) /\ Shape(d) /\ AllSpared(m, d)
  <2>1. Fine(scope, d, 0)
    BY <1>4, AmountsFine
  <2>2. AllSpared(m, d)
    BY <1>4, AllSparedSame DEF AmountsKept
  <2> QED BY <2>1, <2>2 DEF Fine
<1>6. e = [d EXCEPT !.balance.timeouts = @ + 1]
  BY <1>4
<1> HIDE DEF e
<1>7. n = m \/ n = d \/ (Len(m.sessions) > 1 /\ n = e) \/ (Len(m.sessions) > 1 /\ n = f)
  <2> DEFINE j == Len(m.sessions)
  <2>1. n = CASE i > j -> m
          [] i <= j /\ j = 1 -> d
          [] i <= j /\ j > 1 -> IF k < RemoveAfter THEN e ELSE f
    BY <1>2, <1>6
  <2>2. j \in Nat /\ j > 0
    BY <1>1
  <2> HIDE DEF j, k
  <2>3. CASE i > j
    <3>1. ~(i <= j)
      BY <2>2, <2>3
    <3> QED BY ONLY <2>1, <2>3, <3>1
  <2>4. CASE i <= j /\ j = 1
    <3>1. ~(i > j) /\ ~(j > 1)
      BY <2>2, <2>4
    <3> QED BY ONLY <2>1, <2>4, <3>1
  <2>5. CASE i <= j /\ j > 1
    <3>1. ~(i > j) /\ j # 1
      BY <2>2, <2>5
    <3>2. n = IF k < RemoveAfter THEN e ELSE f
      BY ONLY <2>1, <2>5, <3>1
    <3> QED BY <2>5, <3>2 DEF j
  <2> QED BY <2>2, <2>3, <2>4, <2>5
<1>8. Fine(scope, e, 0) /\ AllSpared(m, e)
  <2>1. k \in Int /\ e = [d EXCEPT !.balance.timeouts = k]
    BY <1>1 DEF e
  <2> HIDE DEF k
  <2>2. AmountsKept(d, e) /\ e.task = d.task
    BY <1>5, <2>1, TimeoutsIs
  <2>3. AllSpared(d, e)
    BY <2>2, AllSparedSame DEF AmountsKept
  <2> QED BY <1>5, <2>2, <2>3, AmountsFine, AllSparedTwice
<1>9. ASSUME Len(m.sessions) > 1 PROVE Fine(scope, f, 0) /\ AllSpared(m, f)
  <2>1. Room(scope, d)
    <3>1. Sent(d) = Sent(m)
      BY <1>4, SentOf
    <3> QED BY <3>1 DEF Room
  <2>2. Len(d.sessions) > 1 /\ f = RemoveSession(d)
    BY <1>4, <1>9 DEF f
  <2> QED BY <1>5, <2>1, <2>2, RemoveSessionOK, AllSparedTwice
<1>10. AllSpared(m, m)
  BY AllSparedSame
<1> QED BY <1>5, <1>7, <1>8, <1>9, <1>10

LEMMA RaisedIs ==
    ASSUME NEW s \in SessionType, NEW amount, NEW l, l = Raised(s, amount)
    PROVE  l \in SessionType /\ l.requested = s.requested
<1> DEFINE max == IF amount = s.max /\ s.max < MaxWaited THEN s.max + 1 ELSE s.max
           a == s.successes + 1
           b == Successes * MaxRemoves
           successes == Min({a, b})
           d == [s EXCEPT !.max = max]
           e == [d EXCEPT !.successes = successes]
<1>1. s.max \in Int /\ s.successes \in Int /\ s.requested \in Int
      /\ s = [requested |-> s.requested, successes |-> s.successes, max |-> s.max]
  BY DEF SessionType
<1>2. max \in Int /\ max >= StartWaited /\ a \in Int
  <2>1. s.max >= StartWaited /\ StartWaited \in Int
    BY Constants DEF SessionType
  <2> QED BY <1>1, <2>1
<1>3. b \in Int
  <2>1. Successes \in Int /\ MaxRemoves \in Int
    BY Constants
  <2> QED BY <2>1
<1> HIDE DEF a, b
<1>4. successes \in Int
  BY <1>2, <1>3, MinTwo
<1>5. l = [s EXCEPT !.max = max, !.successes = successes]
  <2>1. l = [s EXCEPT !.max = max, !.successes = Min({@ + 1, Successes * MaxRemoves})]
    BY DEF Raised
  <2>2. {s.successes + 1, Successes * MaxRemoves} = {a, b}
    BY DEF a, b
  <2> HIDE DEF max
  <2> QED BY <1>1, <2>1, <2>2
<1> HIDE DEF max, successes
<1>6. l = e
  BY <1>5
<1>7. d \in SessionType /\ d.requested = s.requested
  <2>1. max \in {i \in Int : i >= StartWaited}
    BY <1>2
  <2> QED BY <1>1, <2>1 DEF SessionType
<1> HIDE DEF d
<1>8. e \in SessionType /\ e.requested = d.requested
  BY <1>4, <1>7 DEF SessionType
<1> QED BY <1>6, <1>7, <1>8

\* One session is changed, but not what it waits for.
LEMMA SessionSet ==
    ASSUME NEW m, Shape(m), NEW i, NEW s, i \in DOMAIN m.sessions => s \in SessionType,
           i \in DOMAIN m.sessions => s.requested = m.sessions[i].requested,
           NEW n, n = [m EXCEPT !.sessions[i] = s]
    PROVE  AmountsKept(m, n) /\ Len(n.sessions) = Len(m.sessions) /\ n.balance = m.balance
           /\ n.task = m.task
<1> DEFINE q == m.sessions
           sessions == [q EXCEPT ![i] = s]
<1>1. IsManager(m) /\ q \in Seq(SessionType) /\ Len(q) > 0
  BY DEF Shape
<1>2. n = [m EXCEPT !.sessions = sessions]
  BY <1>1 DEF IsManager
<1>3. DOMAIN q = 1 .. Len(q) /\ Len(q) \in Nat /\ \A j \in DOMAIN q : q[j] \in SessionType
  <2> HIDE DEF q
  <2> QED BY <1>1
<1>4. ASSUME NEW j \in DOMAIN q
      PROVE  sessions[j] \in SessionType /\ sessions[j].requested = q[j].requested
  <2>1. CASE j = i
    BY <1>3, <2>1
  <2>2. CASE j # i
    BY <1>3, <2>2
  <2> QED BY <2>1, <2>2
<1> HIDE DEF q
<1>5. DOMAIN sessions = DOMAIN q
  BY <1>3
<1>6. sessions \in Seq(SessionType) /\ Len(sessions) = Len(q)
  <2>1. sessions = [j \in 1 .. Len(q) |-> sessions[j]]
    BY <1>3
  <2> DEFINE k == Len(q)
  <2> HIDE DEF sessions
  <2>2. sessions \in [1 .. k -> SessionType] /\ k \in Nat
    BY <1>3, <1>4, <2>1
  <2> HIDE DEF k
  <2>3. sessions \in Seq(SessionType) /\ Len(sessions) = k
    BY <2>2
  <2> QED BY <2>3 DEF k
<1> HIDE DEF sessions
<1>7. /\ n.sessions = sessions /\ n.balance = m.balance /\ n.queue = m.queue
      /\ n.killing = m.killing /\ n.task = m.task /\ n.posted = m.posted /\ n.broken = m.broken
      /\ IsManager(n)
  BY <1>1, <1>2 DEF IsManager
<1>8. Adjusts(m, n)
  <2>1. m.balance \in BalanceType /\ m.queue \in Seq(EntryType) /\ m.killing \in BOOLEAN
    BY DEF Shape
  <2> QED BY <1>1, <1>6, <1>7, <2>1 DEF Adjusts
<1>9. AmountsKept(m, n)
  <2>1. \A j \in DOMAIN n.sessions : n.sessions[j].requested =
            IF j \in DOMAIN m.sessions THEN m.sessions[j].requested ELSE 0
    BY <1>4, <1>5, <1>7 DEF q
  <2>2. Len(m.sessions) <= Len(n.sessions)
    BY <1>3, <1>6, <1>7 DEF q
  <2> QED BY <1>7, <1>8, <2>1, <2>2 DEF AmountsKept
<1> QED BY <1>6, <1>7, <1>9 DEF q

LEMMA SessionNew ==
    ASSUME NEW m, Shape(m), NEW n, n = [m EXCEPT !.sessions = Append(@, NewSession)]
    PROVE  AmountsKept(m, n) /\ n.task = m.task
<1> DEFINE q == m.sessions
           s == NewSession
           sessions == Append(q, s)
<1>1. IsManager(m) /\ q \in Seq(SessionType) /\ Len(q) > 0
  BY DEF Shape
<1>2. n = [m EXCEPT !.sessions = sessions]
  OBVIOUS
<1>3. s \in SessionType /\ s.requested = 0
  BY Constants DEF NewSession, SessionType
<1> HIDE DEF q, s
<1>4. DOMAIN q = 1 .. Len(q) /\ Len(q) \in Nat
  BY <1>1
<1>5. /\ sessions \in Seq(SessionType) /\ Len(sessions) = Len(q) + 1
      /\ DOMAIN sessions = 1 .. Len(q) + 1
      /\ \A j \in 1 .. Len(q) : sessions[j] = q[j]
      /\ sessions[Len(q) + 1] = s
  BY <1>1, <1>3, <1>4
<1> HIDE DEF sessions
<1>7. /\ n.sessions = sessions /\ n.balance = m.balance /\ n.queue = m.queue
      /\ n.killing = m.killing /\ n.task = m.task /\ n.posted = m.posted /\ n.broken = m.broken
      /\ IsManager(n)
  BY <1>1, <1>2 DEF IsManager
<1>8. Adjusts(m, n)
  <2>1. m.balance \in BalanceType /\ m.queue \in Seq(EntryType) /\ m.killing \in BOOLEAN
    BY DEF Shape
  <2>2. Len(sessions) > 0
    BY <1>4, <1>5
  <2> QED BY <1>5, <1>7, <2>1, <2>2 DEF Adjusts
<1>9. AmountsKept(m, n)
  <2>1. ASSUME NEW j \in DOMAIN sessions
        PROVE  sessions[j].requested = IF j \in DOMAIN q THEN q[j].requested ELSE 0
    <3>1. CASE j \in 1 .. Len(q)
      BY <1>4, <1>5, <3>1
    <3>2. CASE j \notin 1 .. Len(q)
      <4>1. j = Len(q) + 1
        BY <1>4, <1>5, <3>2
      <4> QED BY <1>3, <1>4, <1>5, <3>2, <4>1
    <3> QED BY <3>1, <3>2
  <2>2. Len(q) <= Len(sessions)
    BY <1>4, <1>5
  <2> QED BY <1>7, <1>8, <2>1, <2>2 DEF AmountsKept, q
<1> QED BY <1>7, <1>9

\* Sessions may be new; what was sent is not changed.
Grown(m, n) ==
    /\ n.task = m.task /\ n.queue = m.queue /\ DOMAIN m.sessions \subseteq DOMAIN n.sessions
    /\ ToSet(m.posted) \subseteq ToSet(n.posted)

LEMMA KeptGrown ==
    ASSUME NEW m, NEW n, Shape(m), AmountsKept(m, n)
    PROVE  Grown(m, n)
<1>1. Adjusts(m, n) /\ n.queue = m.queue /\ Len(m.sessions) <= Len(n.sessions)
  BY DEF AmountsKept
<1>2. Shape(n)
  BY <1>1, AdjustShape
<1>3. DOMAIN m.sessions \subseteq DOMAIN n.sessions
  <2>1. /\ DOMAIN m.sessions = 1 .. Len(m.sessions) /\ DOMAIN n.sessions = 1 .. Len(n.sessions)
        /\ Len(m.sessions) \in Nat /\ Len(n.sessions) \in Nat
    BY <1>2, ShapeNumbers
  <2> QED BY <1>1, <2>1
<1> QED BY <1>1, <1>3 DEF Adjusts, Grown

TimedOutCall(i) == [call |-> "timedOut", session |-> i]

LEMMA SucceededIs ==
    ASSUME NEW m, Shape(m), NEW r, r.session \in Nat, NEW pace,
           NEW n, n = RequestSucceeded(m, r, pace)
    PROVE  AmountsKept(m, n) \/ n = Post(m, TimedOutCall(r.session))
<1> DEFINE i == r.session
           s == Raised(m.sessions[i], r.amount)
           raised == [m EXCEPT !.sessions[i] = s]
           enough == \A j \in DOMAIN raised.sessions :
                     raised.sessions[j].successes >= (m.balance.times + 1) * Successes
           cleared == WithoutSuccesses(raised)
           fewer == [cleared EXCEPT !.balance.timeouts = @ - 1]
           more == [cleared EXCEPT !.sessions = Append(@, NewSession)]
           post == Post(m, TimedOutCall(i))
           one == r.late \/ r.amount > m.sessions[r.session].max
           two == pace = "slow"
           three == ~enough
           four == m.balance.timeouts > 0
           five == Len(m.sessions) = MaxSessions \/ (m.balance.removed /\ pace = "early")
<1>1. n = CASE one -> m
          [] two -> post
          [] three -> raised
          [] four -> fewer
          [] five -> cleared
          [] OTHER -> more
  <2>1. post = [m EXCEPT !.posted = Append(@, [call |-> "timedOut", session |-> r.session])]
    BY DEF Post, TimedOutCall
  <2>2. raised = [m EXCEPT !.sessions[r.session] = Raised(@, r.amount)]
    BY DEF Shape, IsManager
  <2> HIDE DEF post, raised
  <2>3. n = LET cl == WithoutSuccesses(raised)
            IN  CASE r.late \/ r.amount > m.sessions[r.session].max -> m
          [] pace = "slow" -> post
          [] ~enough -> raised
          [] m.balance.timeouts > 0 -> [cl EXCEPT !.balance.timeouts = @ - 1]
          [] Len(m.sessions) = MaxSessions \/ (m.balance.removed /\ pace = "early") -> cl
          [] OTHER -> [cl EXCEPT !.sessions = Append(@, NewSession)]
    BY <2>1, <2>2 DEF RequestSucceeded
  <2> QED BY <2>3
<1>2. raised = [m EXCEPT !.sessions[i] = s] /\ cleared = WithoutSuccesses(raised)
      /\ s = Raised(m.sessions[i], r.amount)
  OBVIOUS
<1>3. fewer = [cleared EXCEPT !.balance.timeouts = @ - 1] /\ more = [cleared EXCEPT !.sessions = Append(@, NewSession)]
  OBVIOUS
<1>4. post = Post(m, TimedOutCall(r.session))
  OBVIOUS
<1> HIDE DEF raised, cleared, fewer, more, post, one, two, three, four, five, s
<1>5. n = m \/ n = post \/ n = raised \/ n = fewer \/ n = cleared \/ n = more
  BY ONLY <1>1
<1>6. AmountsKept(m, raised) /\ Shape(raised)
  <2>1. i \in DOMAIN m.sessions => s \in SessionType /\ s.requested = m.sessions[i].requested
    <3> SUFFICES ASSUME i \in DOMAIN m.sessions PROVE s \in SessionType /\ s.requested = m.sessions[i].requested
      OBVIOUS
    <3> DEFINE e == m.sessions[i]
    <3>1. e \in SessionType
      BY DEF Shape
    <3>2. s = Raised(e, r.amount)
      BY <1>2
    <3> HIDE DEF e
    <3>3. s \in SessionType /\ s.requested = e.requested
      BY <3>1, <3>2, RaisedIs
    <3> QED BY <3>3 DEF e
  <2>2. i \in DOMAIN m.sessions => s \in SessionType
    BY <2>1
  <2>3. i \in DOMAIN m.sessions => s.requested = m.sessions[i].requested
    BY <2>1
  <2> HIDE DEF i
  <2>4. AmountsKept(m, raised)
    BY <1>2, <2>2, <2>3, SessionSet
  <2> QED BY <2>4, AdjustShape DEF AmountsKept
<1>7. AmountsKept(m, cleared) /\ Shape(cleared)
  <2>1. AmountsKept(raised, cleared)
    BY <1>2, <1>6, ClearedIs
  <2>2. AmountsKept(m, cleared)
    BY <1>6, <2>1, AmountsTwice
  <2> QED BY <2>2, AdjustShape DEF AmountsKept
<1>8. AmountsKept(m, fewer)
  <2> DEFINE k == cleared.balance.timeouts - 1
  <2>1. k \in Int
    BY <1>7, ShapeNumbers
  <2>2. fewer = [cleared EXCEPT !.balance.timeouts = k]
    BY <1>3
  <2> HIDE DEF k
  <2>3. AmountsKept(cleared, fewer)
    BY <1>7, <2>1, <2>2, TimeoutsIs
  <2> QED BY <1>7, <2>3, AmountsTwice
<1>9. AmountsKept(m, more)
  <2>1. AmountsKept(cleared, more)
    BY <1>3, <1>7, SessionNew
  <2> QED BY <1>7, <2>1, AmountsTwice
<1>10. AmountsKept(m, m)
  BY AmountsSame
<1> QED BY <1>4, <1>5, <1>6, <1>7, <1>8, <1>9, <1>10

LEMMA RequestSucceededOK ==
    ASSUME NEW scope, NEW m, NEW t \in Tasks, NEW G, NEW due, Good(scope, m, 0, t, G, due),
           NEW r, r.session \in Nat, NEW pace, NEW n, n = RequestSucceeded(m, r, pace)
    PROVE  Good(scope, n, 0, t, G, due) /\ Grown(m, n)
<1>1. Shape(m)
  BY DEF Good
<1>2. AmountsKept(m, n) \/ n = Post(m, TimedOutCall(r.session))
  BY <1>1, SucceededIs
<1>3. CASE AmountsKept(m, n)
  BY <1>1, <1>3, AmountsGood, KeptGrown
<1>4. CASE n = Post(m, TimedOutCall(r.session))
  <2> DEFINE c == TimedOutCall(r.session)
             x == 0
  <2>1. IsPosted(c) /\ n = Post(m, c) /\ Good(scope, m, x, t, G, due) /\ x \in Nat
    BY <1>4 DEF IsPosted, TimedOutCall
  <2> HIDE DEF c, x
  <2>2. Good(scope, n, x, t, G, due) /\ Beside(m, n, t) /\ n.task = m.task
    BY ONLY t \in Tasks, <2>1, PostOK
  <2>3. DOMAIN m.sessions = DOMAIN n.sessions
    <3>1. Shape(n) /\ Len(n.sessions) = Len(m.sessions)
      BY <2>2 DEF Good, Beside
    <3> QED BY <1>1, <3>1, ShapeNumbers
  <2> QED BY <2>2, <2>3 DEF Grown, Beside, x
<1> QED BY <1>2, <1>3, <1>4

-----------------------------------------------------------------------------
(* Timers.                                                                   *)

LEMMA KillSessionsOK ==
    ASSUME NEW scope, NEW m, Fine(scope, m, 0), m.killing, NEW n, n = KillSessions(m)
    PROVE  Fine(scope, n, 0) /\ n.queue = m.queue /\ n.task = m.task
<1> DEFINE cond == m.balance.total = 0 /\ \A i \in DOMAIN m.sessions : m.sessions[i].requested = 0
           f == Expects(m, cond)
           q == m.sessions
           sessions == [i \in DOMAIN q |-> NewSession]
           balance == NewBalance
           zero == 0
<1>1. Shape(m) /\ cond \in BOOLEAN
  BY DEF Fine
<1>2. ASSUME scope = "all" PROVE BalanceOK(m, 0) /\ Sent(m) = {} /\ cond
  <2>1. BalanceOK(m, 0) /\ Sent(m) = {}
    BY <1>2 DEF Fine, BalanceOK, Idle0
  <2>2. m.balance.total = 0
    BY <2>1, FS_EmptySet DEF BalanceOK, Adds
  <2>3. ASSUME NEW i \in DOMAIN m.sessions PROVE m.sessions[i].requested = 0
    <3>1. SentIn(m, i) \subseteq Sent(m)
      BY DEF SentIn, Sent, Offsets
    <3>2. Cardinality(SentIn(m, i)) = 0
      BY <2>1, <3>1, FS_EmptySet
    <3> QED BY <2>1, <2>3, <3>2 DEF BalanceOK, Adds
  <2> QED BY <2>1, <2>2, <2>3
<1>3. f = Expects(m, cond)
  OBVIOUS
<1>4. n = [f EXCEPT !.sessions = [i \in DOMAIN @ |-> NewSession], !.balance = NewBalance, !.killing = FALSE]
  BY DEF KillSessions
<1> HIDE DEF cond, f
<1>5. /\ Shape(f) /\ f.broken = (m.broken \/ ~cond)
      /\ f.sessions = m.sessions /\ f.queue = m.queue /\ f.posted = m.posted /\ f.task = m.task
  BY <1>1, <1>3, ExpectsIs
<1>6. n = [f EXCEPT !.sessions = sessions, !.balance = balance, !.killing = FALSE] /\ IsManager(f)
  BY <1>4, <1>5 DEF Shape
<1>7. balance \in BalanceType /\ balance.total = 0
  BY DEF NewBalance, BalanceType
<1> HIDE DEF q
<1>8. q \in Seq(SessionType) /\ DOMAIN q = 1 .. Len(q) /\ Len(q) \in Nat /\ Len(q) > 0
  BY <1>1, ShapeNumbers DEF Shape, q
<1>9. NewSession \in SessionType /\ NewSession.requested = 0
  BY Constants DEF NewSession, SessionType
<1>10. /\ sessions \in Seq(SessionType) /\ Len(sessions) = Len(q) /\ DOMAIN sessions = DOMAIN q
       /\ \A i \in DOMAIN sessions : sessions[i] = NewSession
  <2> DEFINE k == Len(q)
  <2>1. sessions \in [1 .. k -> SessionType] /\ k \in Nat
    BY <1>8, <1>9
  <2>2. DOMAIN sessions = DOMAIN q /\ \A i \in DOMAIN sessions : sessions[i] = NewSession
    OBVIOUS
  <2> HIDE DEF k, sessions
  <2>3. sessions \in Seq(SessionType) /\ Len(sessions) = k
    BY <2>1
  <2> QED BY <2>2, <2>3 DEF k
<1> HIDE DEF sessions, balance
<1>11. /\ n.sessions = sessions /\ n.balance = balance /\ n.queue = f.queue
       /\ n.killing = FALSE /\ n.task = f.task /\ n.posted = f.posted /\ n.broken = f.broken
       /\ IsManager(n)
  BY <1>6 DEF IsManager
<1>12. f.queue \in Seq(EntryType)
  BY <1>5 DEF Shape
<1>13. Adjusts(f, n)
  BY <1>7, <1>8, <1>10, <1>11, <1>12 DEF Adjusts
<1>14. ASSUME scope = "all" PROVE BalanceOK(n, zero)
  <2>1. BalanceOK(m, 0) /\ Sent(m) = {} /\ ~n.broken
    BY <1>2, <1>5, <1>11, <1>14 DEF BalanceOK
  <2>2. n.task = m.task /\ n.queue = m.queue
    BY <1>5, <1>11
  <2>3. Sent(n) = {} /\ \A i : SentIn(n, i) = {}
    <3>1. \A i : SentIn(m, i) \subseteq Sent(m)
      BY DEF SentIn, Sent, Offsets
    <3> QED BY <2>1, <2>2, <3>1, SentOf
  <2>4. InSessions(n)
    <3>1. DOMAIN n.sessions = DOMAIN m.sessions
      BY <1>10, <1>11 DEF q
    <3> QED BY <2>1, <2>2, <3>1 DEF BalanceOK, InSessions
  <2>5. Adds(n, zero)
    <3>1. Cardinality({}) = 0
      BY FS_EmptySet
    <3>2. ASSUME NEW i \in DOMAIN n.sessions
          PROVE  n.sessions[i].requested = Cardinality(SentIn(n, i)) + (IF i = Len(n.sessions) THEN zero ELSE 0)
      <4>1. n.sessions[i].requested = 0
        BY <1>9, <1>10, <1>11
      <4>2. Cardinality(SentIn(n, i)) = 0
        BY <2>3, <3>1
      <4>3. zero = 0
        OBVIOUS
      <4> QED BY <4>1, <4>2, <4>3
    <3>3. n.balance.total = Cardinality(Sent(n))
      BY <1>7, <1>11, <2>3, <3>1
    <3> QED BY <3>2, <3>3 DEF Adds
  <2>6. \A u \in Tasks : Taken(n.task[u]) # {} => Queued(n, u)
    BY <2>1, <2>2 DEF BalanceOK, Queued
  <2> QED BY <1>11, <2>1, <2>2, <2>4, <2>5, <2>6 DEF BalanceOK, Idle0
<1>15. Fine("none", f, zero)
  <2>1. \A u \in Tasks : TaskOK(f, u, {}, {}) /\ KindsOK(f.task[u])
    <3> TAKE u \in Tasks
    <3>1. TaskOK(m, u, {}, {}) /\ KindsOK(m.task[u]) /\ f.task[u] = m.task[u] /\ f.posted = m.posted
      BY <1>5 DEF Fine
    <3> QED BY <3>1, TaskKept
  <2> QED BY <1>5, <2>1 DEF Fine
<1> HIDE DEF zero
<1>16. Fine("none", n, zero)
  <2> DEFINE other == "none"
  <2>1. Fine(other, f, zero) /\ (other = "all" => BalanceOK(n, zero))
    BY <1>15
  <2> HIDE DEF other
  <2>2. Fine(other, n, zero)
    BY <1>13, <2>1, AdjustOK
  <2> QED BY <2>2 DEF other
<1>17. Fine(scope, n, zero)
  BY <1>14, <1>16 DEF Fine
<1> QED BY <1>5, <1>11, <1>17 DEF zero

LEMMA ResetGenerationOK ==
    ASSUME NEW scope, NEW m, Fine(scope, m, 0), NEW n, n = ResetGeneration(m)
    PROVE  /\ Fine(scope, n, 0) /\ n.task = m.task /\ (Neat(m.queue) => Neat(n.queue))
           /\ \A u : InQueue(n.queue, u) <=> InQueue(m.queue, u)
<1> DEFINE cond == Sorted(m.queue)
           f == Expects(m, cond)
           q == m.queue
           Older(e) == [e EXCEPT !.priority = IF @ = 0 THEN -1 ELSE @]
           queue == [i \in DOMAIN q |-> Older(q[i])]
           zero == 0
<1>1. Shape(m) /\ cond \in BOOLEAN
  BY DEF Fine, Sorted
<1>2. scope = "all" => BalanceOK(m, 0) /\ cond
  BY DEF Fine, BalanceOK
<1>3. f = Expects(m, cond)
  OBVIOUS
<1>4. n = [f EXCEPT !.queue = [i \in DOMAIN @ |-> Older(@[i])], !.resetting = FALSE]
  BY DEF ResetGeneration, Sorted
<1> HIDE DEF cond, f
<1>5. /\ Shape(f) /\ f.broken = (m.broken \/ ~cond) /\ f.balance = m.balance /\ f.killing = m.killing
      /\ f.sessions = m.sessions /\ f.queue = m.queue /\ f.posted = m.posted /\ f.task = m.task
  BY <1>1, <1>3, ExpectsIs
<1>6. n = [f EXCEPT !.queue = queue, !.resetting = FALSE] /\ IsManager(f)
  <2>1. f.queue = q /\ IsManager(f)
    BY <1>5 DEF Shape
  <2> HIDE DEF q
  <2> QED BY <1>4, <2>1
<1> HIDE DEF q
<1>7. q \in Seq(EntryType) /\ DOMAIN q = 1 .. Len(q) /\ Len(q) \in Nat
      /\ \A i \in DOMAIN q : q[i] \in EntryType /\ q[i].priority \in Int
  <2>1. q \in Seq(EntryType)
    BY <1>1 DEF Shape, q
  <2> QED BY <2>1, EntriesAre
<1>8. ASSUME NEW i \in DOMAIN q
      PROVE  /\ queue[i] \in EntryType /\ queue[i].task = q[i].task
             /\ queue[i].priority = IF q[i].priority = 0 THEN -1 ELSE q[i].priority
  <2> DEFINE e == q[i]
             p == IF e.priority = 0 THEN -1 ELSE e.priority
             l == [e EXCEPT !.priority = p]
  <2>1. queue[i] = l /\ e \in EntryType /\ e.priority \in Int
    BY <1>7
  <2> HIDE DEF queue, e
  <2>2. p \in Int
    BY <2>1
  <2>3. e = [task |-> e.task, priority |-> e.priority] /\ e.task \in Tasks
    BY <2>1 DEF EntryType
  <2>4. l = [e EXCEPT !.priority = p]
    OBVIOUS
  <2> HIDE DEF l, p
  <2>5. l.task = e.task /\ l.priority = p /\ l \in EntryType
    BY <2>2, <2>3, <2>4 DEF EntryType
  <2> QED BY <2>1, <2>5 DEF e, p
<1>9. DOMAIN queue = DOMAIN q
  OBVIOUS
<1>10. queue \in Seq(EntryType)
  <2> DEFINE k == Len(q)
  <2>1. queue = [i \in 1 .. k |-> queue[i]]
    BY <1>7
  <2> HIDE DEF queue
  <2>2. queue \in [1 .. k -> EntryType] /\ k \in Nat
    BY <1>7, <1>8, <2>1
  <2> HIDE DEF k
  <2> QED BY <2>2
<1> HIDE DEF queue
<1>11. /\ n.sessions = f.sessions /\ n.balance = f.balance /\ n.queue = queue
       /\ n.killing = f.killing /\ n.task = f.task /\ n.posted = f.posted /\ n.broken = f.broken
       /\ IsManager(n)
  BY <1>6 DEF IsManager
<1>12. Shape(n)
  BY <1>5, <1>10, <1>11 DEF Shape
<1>13. \A u \in Tasks : TaskOK(n, u, {}, {}) /\ KindsOK(n.task[u])
  <2> TAKE u \in Tasks
  <2>1. TaskOK(m, u, {}, {}) /\ KindsOK(m.task[u]) /\ n.task[u] = m.task[u] /\ n.posted = m.posted
    BY <1>5, <1>11 DEF Fine
  <2> QED BY <2>1, TaskKept
<1>14. ASSUME scope = "all" PROVE BalanceOK(n, 0)
  <2>1. BalanceOK(m, 0) /\ ~n.broken /\ Sorted(q)
    BY <1>2, <1>5, <1>11, <1>14 DEF BalanceOK, q
  <2>2. n.task = m.task /\ n.sessions = m.sessions /\ n.balance = m.balance /\ n.killing = m.killing
    BY <1>5, <1>11
  <2>3. Sent(n) = Sent(m) /\ \A i : SentIn(n, i) = SentIn(m, i)
    BY <2>2, SentOf
  <2>4. InSessions(n) /\ Idle0(n)
    BY <2>1, <2>2, <2>3 DEF BalanceOK, InSessions, Idle0
  <2>5. Adds(n, 0)
    BY <2>1, <2>2, <2>3 DEF BalanceOK, Adds
  <2>6. Sorted(queue)
    <3> SUFFICES ASSUME NEW i \in DOMAIN queue, NEW j \in DOMAIN queue, i < j
                 PROVE  queue[i].priority >= queue[j].priority
      BY DEF Sorted
    <3>1. q[i].priority >= q[j].priority /\ q[i].priority \in Int /\ q[j].priority \in Int
      BY <1>7, <1>9, <2>1 DEF Sorted
    <3>2. /\ queue[i].priority = IF q[i].priority = 0 THEN -1 ELSE q[i].priority
          /\ queue[j].priority = IF q[j].priority = 0 THEN -1 ELSE q[j].priority
      BY <1>8, <1>9
    <3> QED BY <3>1, <3>2
  <2>7. \A u \in Tasks : Taken(n.task[u]) # {} => Queued(n, u)
    <3> SUFFICES ASSUME NEW u \in Tasks, Taken(m.task[u]) # {} PROVE Queued(n, u)
      BY <2>2
    <3>1. PICK i \in DOMAIN q : q[i].task = u
      BY <2>1 DEF BalanceOK, Queued, q
    <3>2. i \in DOMAIN queue /\ queue[i].task = u
      BY <1>8, <1>9, <3>1
    <3> QED BY <1>11, <3>2 DEF Queued
  <2> QED BY <1>11, <2>1, <2>4, <2>5, <2>6, <2>7 DEF BalanceOK
<1>15. \A u : InQueue(queue, u) <=> InQueue(q, u)
  BY <1>8, <1>9 DEF InQueue
<1>16. Neat(q) => Neat(queue)
  <2> SUFFICES ASSUME Neat(q) PROVE Neat(queue)
    OBVIOUS
  <2>1. ASSUME NEW i \in DOMAIN queue, NEW j \in DOMAIN queue, queue[i].task = queue[j].task
        PROVE  i = j
    BY <1>8, <1>9, <2>1 DEF Neat
  <2>2. ASSUME NEW i \in DOMAIN queue, queue[i].task \in Files PROVE queue[i].priority <= 0
    BY <1>7, <1>8, <1>9, <2>2 DEF Neat
  <2> QED BY <2>1, <2>2 DEF Neat
<1> QED BY <1>5, <1>11, <1>12, <1>13, <1>14, <1>15, <1>16 DEF Fine, q

-----------------------------------------------------------------------------
(* Answers.                                                                  *)

\* The part of the request r was answered, and is in hand.
Hand(scope, m, x, t, r) ==
    /\ Good(scope, m, x, t, {r.offset}, {}) /\ KindsOK(m.task[t])
    /\ r.offset \in Parts /\ r.session \in Nat
    /\ scope = "all" => r.session \in DOMAIN m.sessions /\ Queued(m, t)

LEMMA FinishHand ==
    ASSUME NEW scope, NEW m, NEW x \in Nat, NEW t \in Tasks, Fine(scope, m, x),
           NEW r \in ToSet(m.task[t].sent), r.kind # "hashes",
           NEW n, n = FinishSentRequest(m, t, r)
    PROVE  Hand(scope, n, x, t, r) /\ Beside(m, n, t)
<1> DEFINE none == {}
           G == {r.offset}
<1>1. Good(scope, m, x, t, none, none) /\ KindsOK(m.task[t]) /\ Shape(m)
  BY GoodFine DEF Fine
<1>2. r.offset \in Parts /\ r.session \in Nat
  BY <1>1, ShapeFields
<1>3. Releases(none, r, G, t, none, none)
  BY DEF Releases, Frees
<1> HIDE DEF none, G
<1>4. Good(scope, n, x, t, G, none) /\ Beside(m, n, t) /\ Unsent(m, n, t, r)
  BY ONLY x \in Nat, t \in Tasks, <1>1, <1>3, r \in ToSet(m.task[t].sent),
          n = FinishSentRequest(m, t, r), FinishOK
<1>5. KindsOK(n.task[t])
  BY <1>1, <1>4 DEF KindsOK, Beside, KeepsAll, Unsent, Held
<1>6. ASSUME scope = "all" PROVE r.session \in DOMAIN n.sessions /\ Queued(n, t)
  <2>1. BalanceOK(m, x)
    BY <1>6 DEF Fine
  <2>2. r.offset \in Taken(m.task[t])
    BY DEF Taken, Offsets
  <2>3. r.session \in DOMAIN m.sessions /\ Queued(m, t)
    BY <2>1, <2>2 DEF BalanceOK, InSessions
  <2>4. Shape(n) /\ Len(n.sessions) = Len(m.sessions) /\ n.queue = m.queue
    BY <1>4 DEF Good, Beside
  <2> QED BY <1>1, <2>3, <2>4, ShapeNumbers DEF Queued
<1> QED BY <1>2, <1>4, <1>5, <1>6 DEF Hand, none, G

LEMMA SucceededHand ==
    ASSUME NEW scope, NEW m, NEW t \in Tasks, NEW r, Hand(scope, m, 0, t, r), NEW pace,
           NEW n, n = RequestSucceeded(m, r, pace)
    PROVE  Hand(scope, n, 0, t, r) /\ n.task = m.task /\ n.queue = m.queue
<1> DEFINE none == {}
           G == {r.offset}
<1>1. Good(scope, m, 0, t, G, none) /\ KindsOK(m.task[t]) /\ r.offset \in Parts /\ r.session \in Nat
  BY DEF Hand
<1> HIDE DEF G, none
<1>2. Good(scope, n, 0, t, G, none) /\ Grown(m, n)
  BY <1>1, RequestSucceededOK
<1>3. scope = "all" => r.session \in DOMAIN n.sessions /\ Queued(n, t)
  BY <1>2 DEF Hand, Grown, Queued
<1> QED BY <1>1, <1>2, <1>3 DEF Hand, Grown, G, none

Answer(m, t, r, pace) == RequestSucceeded(FinishSentRequest(m, t, r), r, pace)

LEMMA AnswerHand ==
    ASSUME NEW scope, NEW m, NEW t \in Tasks, Fine(scope, m, 0), NEW r \in ToSet(m.task[t].sent),
           r.kind # "hashes", NEW pace, NEW n, n = Answer(m, t, r, pace)
    PROVE  /\ Hand(scope, n, 0, t, r) /\ KeepsAll(m.task[t], n.task[t])
           /\ Near(m, n, t)
<1> DEFINE d == FinishSentRequest(m, t, r)
           x == 0
<1>1. n = RequestSucceeded(d, r, pace) /\ d = FinishSentRequest(m, t, r) /\ x = 0 /\ x \in Nat
  BY DEF Answer
<1> HIDE DEF d, x
<1>2. Fine(scope, m, x)
  BY <1>1
<1>3. Hand(scope, d, x, t, r) /\ Beside(m, d, t)
  BY <1>1, <1>2, FinishHand
<1>4. Hand(scope, n, 0, t, r) /\ n.task = d.task /\ n.queue = d.queue
  BY <1>1, <1>3, SucceededHand
<1> QED BY <1>3, <1>4 DEF Beside, KeepsAll, Near

LEMMA PartLoadedOK ==
    ASSUME NEW scope, NEW m, NEW t \in Tasks, Fine(scope, m, 0), NEW r \in ToSet(m.task[t].sent),
           r.kind # "hashes", NEW pace,
           NEW n, n = CheckSendNext(FeedPart(Answer(m, t, r, pace), t, r.offset))
    PROVE  Fine(scope, n, 0)
<1> DEFINE a == Answer(m, t, r, pace)
           offset == r.offset
           f == FeedPart(a, t, offset)
           none == {}
           x == 0
<1>1. a = Answer(m, t, r, pace) /\ f = FeedPart(a, t, offset) /\ n = CheckSendNext(f) /\ x \in Nat
  OBVIOUS
<1> HIDE DEF a, f
<1>2. Hand(scope, a, 0, t, r)
  BY <1>1, AnswerHand
<1>3. MayFeed(scope, a, x, t, offset, none, f) /\ KindsOK(a.task[t])
  BY <1>1, <1>2 DEF Hand, MayFeed
<1> HIDE DEF offset, none, x
<1>4. Good(scope, f, x, t, {}, none) /\ KindsKept(a, f, t)
  BY ONLY t \in Tasks, <1>1, <1>3, FeedPartOK
<1>5. Fine(scope, f, x)
  BY <1>1, <1>3, <1>4, GoodFine DEF none, KindsKept
<1>6. Fine(scope, n, x)
  BY <1>1, <1>5, CheckSendNextOK
<1> QED BY <1>6 DEF x

LEMMA RedirectedOK ==
    ASSUME NEW scope, NEW m, NEW t \in Tasks, Fine(scope, m, 0), NEW r \in ToSet(m.task[t].sent),
           r.kind # "hashes", NEW pace, NEW hashes,
           NEW n, n = CheckSendNext(ChangeCDNParams(Answer(m, t, r, pace), t, r, TRUE, hashes))
    PROVE  Fine(scope, n, 0)
<1> DEFINE a == Answer(m, t, r, pace)
           cdn == TRUE
           f == ChangeCDNParams(a, t, r, cdn, hashes)
           x == 0
<1>1. /\ a = Answer(m, t, r, pace) /\ f = ChangeCDNParams(a, t, r, cdn, hashes)
      /\ n = CheckSendNext(f) /\ x \in Nat
  OBVIOUS
<1> HIDE DEF a, f
<1>2. Hand(scope, a, 0, t, r)
  BY <1>1, AnswerHand
<1>3. MayChange(scope, a, x, t, r, cdn)
  <2>1. a.task[t].cdn \in BOOLEAN
    BY <1>2, ShapeFields DEF Hand, Good, TaskShape
  <2>2. cdn # a.task[t].cdn => Held(a.task[t]) = {}
    BY <1>2, <2>1 DEF Hand, KindsOK
  <2> QED BY <1>2, <2>2 DEF Hand, MayChange
<1> HIDE DEF cdn, x
<1>4. Fine(scope, f, x)
  BY ONLY t \in Tasks, <1>1, <1>3, ChangeCDNParamsOK
<1>5. Fine(scope, n, x)
  BY <1>1, <1>4, CheckSendNextOK
<1> QED BY <1>5 DEF x

LEMMA CdnPartLoadedOK ==
    ASSUME NEW scope, NEW m, NEW t \in Tasks, Fine(scope, m, 0), NEW r \in ToSet(m.task[t].sent),
           r.kind = "cdn", NEW pace, NEW good,
           NEW n, n = CheckSendNext(CdnPart(Answer(m, t, r, pace), t, r, good))
    PROVE  Fine(scope, n, 0)
<1> DEFINE a == Answer(m, t, r, pace)
           f == CdnPart(a, t, r, good)
           x == 0
<1>1. /\ a = Answer(m, t, r, pace) /\ f = CdnPart(a, t, r, good)
      /\ n = CheckSendNext(f) /\ x \in Nat
  OBVIOUS
<1> HIDE DEF a, f
<1>2. Hand(scope, a, 0, t, r) /\ KeepsAll(m.task[t], a.task[t])
  <2>1. r.kind # "hashes"
    OBVIOUS
  <2> QED BY <1>1, <2>1, AnswerHand
<1>3. m.task[t].cdn
  BY DEF Fine, KindsOK
<1>4. MayHold(scope, a, x, t, r)
  BY <1>2, <1>3 DEF Hand, MayHold, KeepsAll
<1> HIDE DEF x
<1>5. Fine(scope, f, x)
  BY ONLY t \in Tasks, <1>1, <1>4, CdnPartOK
<1>6. Fine(scope, n, x)
  BY <1>1, <1>5, CheckSendNextOK
<1> QED BY <1>6 DEF x

LEMMA ReuploadNeededOK ==
    ASSUME NEW scope, NEW m, NEW t \in Tasks, Fine(scope, m, 0), NEW r \in ToSet(m.task[t].sent),
           r.kind = "cdn",
           NEW n, n = PlaceSentRequest(FinishSentRequest(m, t, r), t, "reupload", r.offset, r.session)
    PROVE  Fine(scope, n, 0)
<1> DEFINE a == FinishSentRequest(m, t, r)
           offset == r.offset
           i == r.session
           G == {offset}
           none == {}
           kind == "reupload"
           x == 0
<1>1. /\ a = FinishSentRequest(m, t, r) /\ n = PlaceSentRequest(a, t, kind, offset, i)
      /\ x \in Nat /\ Fine(scope, m, x) /\ r.kind # "hashes"
  OBVIOUS
<1> HIDE DEF a, x
<1>2. Hand(scope, a, x, t, r) /\ Beside(m, a, t)
  BY <1>1, FinishHand
<1>3. m.task[t].cdn
  BY DEF Fine, KindsOK
<1>4. /\ Good(scope, a, x, t, G, none) /\ offset \in Parts /\ i \in Nat
      /\ scope = "all" => i \in DOMAIN a.sessions /\ Queued(a, t)
  BY <1>2 DEF Hand
<1>5. MayPlace(scope, a, t, G, none, kind, offset, i, none, none)
  BY <1>4 DEF MayPlace, Called
<1> HIDE DEF offset, i, G, none, kind
<1>6. Good(scope, n, x, t, none, none) /\ Beside(a, n, t)
  BY ONLY t \in Tasks, <1>1, <1>4, <1>5, PlaceOK
<1>7. KindsOK(n.task[t])
  BY <1>2, <1>3, <1>6 DEF KindsOK, Beside, KeepsAll
<1>8. Fine(scope, n, x)
  BY <1>1, <1>6, <1>7, GoodFine DEF none
<1> QED BY <1>8 DEF x

LEMMA ReuploadDoneOK ==
    ASSUME NEW scope, NEW m, NEW t \in Tasks, Fine(scope, m, 0), NEW r \in ToSet(m.task[t].sent),
           r.kind # "hashes", NEW hashes,
           NEW n, n = MakeRequest(AddHashes(FinishSentRequest(m, t, r), t, hashes),
                                  t, r.offset, r.session)
    PROVE  Fine(scope, n, 0)
<1> DEFINE a == FinishSentRequest(m, t, r)
           f == AddHashes(a, t, hashes)
           offset == r.offset
           i == r.session
           G == {offset}
           none == {}
           x == 0
<1>1. /\ a = FinishSentRequest(m, t, r) /\ f = AddHashes(a, t, hashes)
      /\ n = MakeRequest(f, t, offset, i) /\ x \in Nat /\ Fine(scope, m, x)
  OBVIOUS
<1> HIDE DEF a, f, x
<1>2. Hand(scope, a, x, t, r)
  BY <1>1, FinishHand
<1>3. /\ Good(scope, a, x, t, G, none) /\ KindsOK(a.task[t]) /\ offset \in Parts /\ i \in Nat
      /\ scope = "all" => i \in DOMAIN a.sessions /\ Queued(a, t)
  BY <1>2 DEF Hand
<1>4. offset \in G /\ none = G \ {offset}
  OBVIOUS
<1> HIDE DEF offset, i, G, none
<1>5. Good(scope, f, x, t, G, none) /\ KindsKept(a, f, t) /\ AddHashesIs(a, f, t)
  BY ONLY t \in Tasks, <1>1, <1>3, AddHashesOK
<1>6. scope = "all" => i \in DOMAIN f.sessions /\ Queued(f, t)
  BY <1>3, <1>5 DEF AddHashesIs, Puts, Queued
<1>7. MayMake(scope, f, x, t, G, none, offset, i, none, n)
  BY <1>1, <1>3, <1>4, <1>5, <1>6 DEF MayMake
<1>8. Good(scope, n, x, t, none, none) /\ KindsKept(f, n, t)
  BY ONLY t \in Tasks, <1>1, <1>7, MakeOK
<1>9. Fine(scope, n, x)
  BY <1>1, <1>3, <1>5, <1>8, GoodFine DEF none, KindsKept
<1> QED BY <1>9 DEF x

\* What was sent but for the hashes is sent still when what is held back is checked.
BringsHashes(scope, m, t, wrong, n) ==
    \E f : /\ MayCheck(scope, f, 0, t, wrong, n) /\ Near(m, f, t)
           /\ AsksParts(m.task[t]) => AsksParts(f.task[t])

\* Hashes came: nothing is asked for any more, until what is held back is checked.
LEMMA GetCdnFileHashesDoneOK ==
    ASSUME NEW scope, NEW m, NEW t \in Tasks, Fine(scope, m, 0), NEW r \in ToSet(m.task[t].sent),
           r.kind = "hashes", NEW hashes, NEW wrong,
           NEW n, n = CheckUnchecked(AddHashes(FinishSentRequest(m, t, r), t, hashes), t, wrong)
    PROVE  Fine(scope, n, 0) /\ BringsHashes(scope, m, t, wrong, n)
<1> DEFINE a == FinishSentRequest(m, t, r)
           f == AddHashes(a, t, hashes)
           due == {t}
           none == {}
           x == 0
<1>1. /\ a = FinishSentRequest(m, t, r) /\ f = AddHashes(a, t, hashes)
      /\ n = CheckUnchecked(f, t, wrong) /\ x \in Nat /\ Fine(scope, m, x)
  OBVIOUS
<1> HIDE DEF a, f, x
<1>2. Good(scope, m, x, t, none, none) /\ KindsOK(m.task[t]) /\ RequestsOK(m.task[t])
  BY <1>1, GoodFine DEF Fine, TaskOK
<1>3. Releases(none, r, none, t, none, due)
  BY DEF Releases, Frees
<1> HIDE DEF due, none
<1>4. Good(scope, a, x, t, none, due) /\ Beside(m, a, t) /\ Unsent(m, a, t, r)
  BY ONLY t \in Tasks, r \in ToSet(m.task[t].sent), <1>1, <1>2, <1>3, FinishOK
<1>5. KindsOK(a.task[t])
  BY <1>2, <1>4 DEF KindsOK, Beside, KeepsAll, Unsent, Held
<1>6. ~AsksHashes(a.task[t])
  BY <1>2, <1>4 DEF RequestsOK, Unsent, AsksHashes
<1>7. Good(scope, f, x, t, none, due) /\ KindsKept(a, f, t) /\ AddHashesIs(a, f, t)
  BY ONLY t \in Tasks, <1>1, <1>4, AddHashesOK
<1>8. KindsOK(f.task[t]) /\ ~AsksHashes(f.task[t])
  BY <1>5, <1>6, <1>7 DEF KindsKept, AddHashesIs, Similar, Puts, AsksHashes
<1>9. MayCheck(scope, f, x, t, wrong, n)
  BY <1>1, <1>7, <1>8 DEF MayCheck, none, due
<1>10. Fine(scope, n, x)
  BY ONLY t \in Tasks, <1>1, <1>9, CheckUncheckedOK
<1>11. Near(m, f, t)
  <2>1. Near(m, a, t)
    BY <1>4, BesideNear
  <2>2. Near(a, f, t)
    BY <1>7, NearPut DEF AddHashesIs, Similar, Puts
  <2> QED BY <2>1, <2>2, NearTwice
<1>12. AsksParts(m.task[t]) => AsksParts(f.task[t])
  BY <1>4, <1>7 DEF Unsent, AddHashesIs, Similar, Puts, AsksParts
<1> QED BY <1>9, <1>10, <1>11, <1>12 DEF x, BringsHashes

LEMMA TokenRefusedOK ==
    ASSUME NEW scope, NEW m, NEW t \in Tasks, Fine(scope, m, 0), NEW r \in ToSet(m.task[t].sent),
           Held(m.task[t]) = {}, NEW hashes,
           NEW n, n = ChangeCDNParams(FinishSentRequest(m, t, r), t, r, FALSE, hashes)
    PROVE  Fine(scope, n, 0)
<1> DEFINE a == FinishSentRequest(m, t, r)
           cdn == FALSE
           x == 0
<1>1. /\ a = FinishSentRequest(m, t, r) /\ n = ChangeCDNParams(a, t, r, cdn, hashes)
      /\ x \in Nat /\ Fine(scope, m, x)
  OBVIOUS
<1>2. r.kind # "hashes"
  BY DEF Fine, TaskOK, RequestsOK
<1> HIDE DEF a, x
<1>3. Hand(scope, a, x, t, r) /\ Beside(m, a, t)
  BY <1>1, <1>2, FinishHand
<1>4. Held(a.task[t]) = {}
  BY <1>3 DEF Beside, KeepsAll, Held
<1>5. MayChange(scope, a, x, t, r, cdn)
  BY <1>3, <1>4 DEF Hand, MayChange
<1> HIDE DEF cdn
<1>6. Fine(scope, n, x)
  BY ONLY t \in Tasks, <1>1, <1>5, ChangeCDNParamsOK
<1> QED BY <1>6 DEF x

LEMMA PartFailedOK ==
    ASSUME NEW scope, NEW m, NEW t \in Tasks, Fine(scope, m, 0), NEW r \in ToSet(m.task[t].sent),
           NEW n, n = CancelOnFail(Await(m, t, r, "nothing"), t)
    PROVE  Fine(scope, n, 0)
<1> DEFINE what == "nothing"
           a == Await(m, t, r, what)
           none == {}
           x == 0
<1>1. /\ a = Await(m, t, r, what) /\ n = CancelOnFail(a, t) /\ x \in Nat /\ Fine(scope, m, x)
  OBVIOUS
<1>2. MayAwait(scope, m, x, t, r, what)
  BY DEF MayAwait
<1> HIDE DEF a, x, what
<1>3. Fine(scope, a, x)
  BY ONLY t \in Tasks, <1>1, <1>2, AwaitOK
<1>4. MayFail(scope, a, x, t, none, none, n)
  BY <1>1, <1>3, FineGood DEF MayFail
<1> HIDE DEF none
<1>5. Fine(scope, n, x)
  BY ONLY t \in Tasks, <1>1, <1>4, CancelOnFailOK
<1> QED BY <1>5 DEF x

-----------------------------------------------------------------------------
(* What is set of a task between two events.                                 *)

LEMMA TouchFine ==
    ASSUME NEW scope, NEW m, NEW x \in Nat, Fine(scope, m, x), NEW t \in Tasks, NEW l,
           TaskShape(l), Similar(m.task[t], l), NEW n, n = SetTask(m, t, l)
    PROVE  Fine(scope, n, x) /\ Puts(m, n, t, l)
<1> DEFINE none == {}
<1>1. Good(scope, m, x, t, none, none) /\ KindsOK(m.task[t])
  BY GoodFine
<1> HIDE DEF none
<1>2. MayTouch(scope, m, x, t, none, none, l)
  BY <1>1 DEF MayTouch
<1>3. Good(scope, n, x, t, none, none) /\ KindsKept(m, n, t) /\ Puts(m, n, t, l)
  BY ONLY x \in Nat, t \in Tasks, <1>2, n = SetTask(m, t, l), TouchOK
<1> QED BY <1>1, <1>3, GoodFine DEF KindsKept, none

\* Nothing new is sent or held back, and what is said of the parts still holds.
Resets(t, k, l) ==
    /\ TaskShape(l) /\ PartsOK(t, l, {}) /\ l.sent = k.sent /\ l.unchecked = k.unchecked
    /\ l.cdn = k.cdn /\ (l.status = "loading" => k.status = "loading" \/ Held(k) = {})

LEMMA SetFine ==
    ASSUME NEW scope, NEW m, NEW x \in Nat, Fine(scope, m, x), NEW t \in Tasks, NEW l,
           Resets(t, m.task[t], l), NEW n, n = SetTask(m, t, l)
    PROVE  Fine(scope, n, x) /\ Puts(m, n, t, l)
<1> DEFINE none == {}
           k == m.task[t]
<1>1. Good(scope, m, x, t, none, none) /\ KindsOK(k)
  BY GoodFine
<1>2. PartsOK(t, l, none) /\ TaskShape(l) /\ l.sent = k.sent /\ l.unchecked = k.unchecked
      /\ l.cdn = k.cdn /\ (l.status = "loading" => k.status = "loading" \/ Held(k) = {})
  BY DEF Resets
<1>3. Held(l) = Held(k)
  BY <1>2 DEF Held
<1>4. k.status = "loading" /\ Held(k) # {} => AsksFor(m, t)
  BY DEF Fine, TaskOK
<1>5. MaySet(scope, m, x, t, none, none, l, none, none)
  <2> HIDE DEF none
  <2> QED BY <1>1, <1>2, <1>3, <1>4 DEF MaySet, HoldsLess
<1>6. KindsOK(l)
  BY <1>1, <1>2, <1>3 DEF KindsOK
<1> HIDE DEF none
<1>7. Good(scope, n, x, t, none, none) /\ Puts(m, n, t, l)
  BY ONLY x \in Nat, t \in Tasks, <1>5, n = SetTask(m, t, l), SetOK
<1> QED BY <1>6, <1>7, GoodFine DEF none, Puts

\* What is known of a task between two events.
LEMMA FineTask ==
    ASSUME NEW scope, NEW m, NEW x, Fine(scope, m, x), NEW t \in Tasks
    PROVE  /\ Shape(m) /\ TaskShape(m.task[t]) /\ IsTask(m.task[t]) /\ PartsOK(t, m.task[t], {})
           /\ IsManager(m) /\ m.task = [u \in Tasks |-> m.task[u]]
<1>1. Shape(m) /\ TaskShape(m.task[t]) /\ TaskOK(m, t, {}, {})
  BY ShapeFields DEF Fine
<1> QED BY <1>1, RecordOf DEF TaskOK, PartsOK, Shape

LEMMA ReferenceExpiredOK ==
    ASSUME NEW scope, NEW m, NEW t \in Tasks, Fine(scope, m, 0), NEW r \in ToSet(m.task[t].sent),
           r.kind = "part",
           NEW n, n = [Await(m, t, r, "reference") EXCEPT !.task[t].renewing = TRUE]
    PROVE  Fine(scope, n, 0)
<1> DEFINE what == "reference"
           a == Await(m, t, r, what)
           k == a.task[t]
           l == [k EXCEPT !.renewing = TRUE]
           x == 0
<1>1. /\ a = Await(m, t, r, what) /\ x \in Nat /\ Fine(scope, m, x)
      /\ n = SetTask(a, t, l) /\ l = [k EXCEPT !.renewing = TRUE]
  BY DEF SetTask
<1>2. MayAwait(scope, m, x, t, r, what)
  BY DEF MayAwait
<1> HIDE DEF a, x, what, l
<1>3. Fine(scope, a, x)
  BY ONLY t \in Tasks, <1>1, <1>2, AwaitOK
<1>4. TaskShape(k) /\ IsTask(k)
  BY <1>3, FineTask
<1> HIDE DEF k
<1>5. IsTask(l) /\ SameShape(k, l) /\ Similar(k, l)
  BY <1>1, <1>4 DEF IsTask, SameShape, Similar
<1>6. TaskShape(l) /\ Similar(a.task[t], l)
  BY <1>4, <1>5, ShapeKept DEF k
<1>7. Fine(scope, n, x)
  BY <1>1, <1>3, <1>6, TouchFine
<1> QED BY <1>7 DEF x

Came(m, t, renewed) ==
    [m EXCEPT !.task[t].renewing = FALSE, !.task[t].renewed = @ \/ renewed]

Renewed(m, a, t) ==
    /\ a.queue = m.queue /\ \A u \in Tasks \ {t} : a.task[u] = m.task[u]
    /\ a.task[t].status = m.task[t].status /\ a.task[t].next = m.task[t].next
    /\ a.task[t].written = m.task[t].written /\ a.task[t].sent = m.task[t].sent
    /\ a.task[t].renewing = FALSE

LEMMA CameIs ==
    ASSUME NEW scope, NEW m, NEW t \in Tasks, Fine(scope, m, 0), NEW renewed,
           NEW a, a = Came(m, t, renewed)
    PROVE  Fine(scope, a, 0) /\ Renewed(m, a, t)
<1> DEFINE k == m.task[t]
           old == m.task
           again == k.renewed \/ renewed
           l == [k EXCEPT !.renewing = FALSE, !.renewed = again]
           x == 0
<1>1. x \in Nat /\ Fine(scope, m, x)
  OBVIOUS
<1> HIDE DEF x
<1>2. TaskShape(k) /\ IsTask(k) /\ IsManager(m) /\ old = [u \in Tasks |-> old[u]]
  BY <1>1, FineTask
<1>3. a = SetTask(m, t, l)
  <2>1. a = [m EXCEPT !.task = [[m.task EXCEPT ![t].renewing = FALSE] EXCEPT ![t].renewed = again]]
    BY <1>2 DEF Came, IsManager
  <2>2. k = old[t]
    OBVIOUS
  <2>3. [[old EXCEPT ![t].renewing = FALSE] EXCEPT ![t].renewed = again] = [old EXCEPT ![t] = l]
    <3> HIDE DEF old, k, again
    <3> QED BY <1>2, <2>2
  <2> HIDE DEF again, l
  <2> QED BY <2>1, <2>3 DEF SetTask
<1>4. l = [k EXCEPT !.renewing = FALSE, !.renewed = again]
  OBVIOUS
<1> HIDE DEF k, l, again
<1>5. /\ IsTask(l) /\ SameShape(k, l) /\ Similar(k, l)
      /\ l.status = k.status /\ l.next = k.next /\ l.written = k.written
      /\ l.sent = k.sent /\ l.renewing = FALSE
  BY <1>2, <1>4 DEF IsTask, SameShape, Similar
<1>6. TaskShape(l) /\ Similar(m.task[t], l)
  BY <1>2, <1>5, ShapeKept DEF k
<1>7. Fine(scope, a, x) /\ Puts(m, a, t, l)
  BY <1>1, <1>3, <1>6, TouchFine
<1> QED BY <1>5, <1>7 DEF x, k, Puts, Renewed

LEMMA ReferenceCameOK ==
    ASSUME NEW scope, NEW m, NEW t \in Tasks, Fine(scope, m, 0), NEW renewed,
           NEW a, a = Came(m, t, renewed),
           NEW n, n = AsksAgain(a, t) \/ n = CancelOnFail(a, t)
    PROVE  Fine(scope, n, 0)
<1> DEFINE none == {}
           x == 0
<1>1. x \in Nat /\ Fine(scope, a, x)
  BY CameIs
<1> HIDE DEF x
<1>2. CASE n = AsksAgain(a, t)
  <2>1. Fine(scope, n, x)
    BY <1>1, <1>2, AsksAgainOK
  <2> QED BY <2>1 DEF x
<1>3. CASE n = CancelOnFail(a, t)
  <2>1. MayFail(scope, a, x, t, none, none, n)
    BY <1>1, <1>3, FineGood DEF MayFail
  <2> HIDE DEF none
  <2>2. Fine(scope, n, x)
    BY ONLY t \in Tasks, <1>1, <2>1, CancelOnFailOK
  <2> QED BY <2>2 DEF x
<1> QED BY <1>2, <1>3

-----------------------------------------------------------------------------
(* What the owners ask for.                                                  *)

Started(m, t, partial) ==
    [m EXCEPT !.task[t].status = "loading", !.task[t].next = partial,
              !.task[t].written = 0 .. partial - 1]

Begun(m, a, t, partial) ==
    /\ a.queue = m.queue /\ \A u \in Tasks \ {t} : a.task[u] = m.task[u]
    /\ a.task[t].status = "loading" /\ a.task[t].written = 0 .. partial - 1
    /\ Taken(a.task[t]) = {}

LEMMA StartedIs ==
    ASSUME NEW scope, NEW m, NEW t \in Files, Fine(scope, m, 0), m.task[t].status = "new",
           NEW partial \in Parts, NEW a, a = Started(m, t, partial)
    PROVE  Fine(scope, a, 0) /\ Begun(m, a, t, partial)
<1> DEFINE k == m.task[t]
           old == m.task
           parts == 0 .. partial - 1
           l == [k EXCEPT !.status = "loading", !.next = partial, !.written = parts]
           x == 0
<1>1. x \in Nat /\ x \in Int /\ Fine(scope, m, x) /\ t \in Tasks
  BY DEF Tasks
<1> HIDE DEF x
<1>2. /\ TaskShape(k) /\ IsTask(k) /\ PartsOK(t, k, {}) /\ IsManager(m)
      /\ old = [u \in Tasks |-> old[u]]
  BY <1>1, FineTask
<1>3. a = SetTask(m, t, l)
  <2>1. a = [m EXCEPT !.task = [[[m.task EXCEPT ![t].status = "loading"]
                                   EXCEPT ![t].next = partial] EXCEPT ![t].written = parts]]
    <3> HIDE DEF parts
    <3>1. a = [m EXCEPT !.task[t].status = "loading", !.task[t].next = partial,
              !.task[t].written = parts]
      BY DEF Started, parts
    <3> QED BY ZenonT(60), <1>2, <3>1 DEF IsManager
  <2>2. k = old[t]
    OBVIOUS
  <2>3. [[[old EXCEPT ![t].status = "loading"] EXCEPT ![t].next = partial]
           EXCEPT ![t].written = parts] = [old EXCEPT ![t] = l]
    <3> HIDE DEF old, k, parts
    <3> QED BY <1>1, <1>2, <2>2
  <2> HIDE DEF l, parts
  <2> QED BY <2>1, <2>3 DEF SetTask
<1>4. l = [k EXCEPT !.status = "loading", !.next = partial, !.written = parts]
  OBVIOUS
<1> HIDE DEF l
<1>5. /\ IsTask(l) /\ l.status = "loading" /\ l.next = partial /\ l.written = parts
      /\ l.sent = k.sent /\ l.unchecked = k.unchecked /\ l.cdn = k.cdn
      /\ l.level = k.level /\ l.priority = k.priority /\ l.requested = k.requested
  <2> HIDE DEF k, parts
  <2> QED BY <1>2, <1>4 DEF IsTask
<1>6. Taken(k) = {} /\ k.requested = {} /\ t \notin Streams
  BY <1>2, Constants DEF PartsOK, FileOK
<1> HIDE DEF k
<1>7. Held(l) = Held(k) /\ Taken(l) = {} /\ Held(k) = {}
  BY <1>5, <1>6 DEF Held, Taken, Offsets
<1>8. partial \in Nat /\ partial \in 0 .. Size
  BY Constants
<1>9. TaskShape(l)
  <2> HIDE DEF parts
  <2> QED BY <1>2, <1>5, <1>7, <1>8 DEF TaskShape, IsTask
<1>10. PartsOK(t, l, {})
  <2>1. RequestsOK(l)
    BY <1>2, <1>5, <1>7 DEF PartsOK, RequestsOK
  <2>2. FileOK(l, {})
    BY <1>5, <1>6, <1>7, <1>8 DEF FileOK
  <2> QED BY <1>6, <2>1, <2>2 DEF PartsOK
<1>11. Resets(t, m.task[t], l)
  BY <1>5, <1>7, <1>9, <1>10 DEF Resets, k
<1>12. Fine(scope, a, x) /\ Puts(m, a, t, l)
  BY <1>1, <1>3, <1>11, SetFine
<1> QED BY <1>5, <1>7, <1>12 DEF x, Puts, Begun

LEMMA StartOK ==
    ASSUME NEW scope, NEW m, NEW t \in Files, Fine(scope, m, 0), m.task[t].status = "new",
           NEW partial \in Parts, NEW n, n = Enqueue(Started(m, t, partial), t, 0)
    PROVE  Fine(scope, n, 0)
<1> DEFINE a == Started(m, t, partial)
           x == 0
<1>1. x \in Nat /\ x \in Int /\ n = Enqueue(a, t, x) /\ t \in Tasks /\ a = Started(m, t, partial)
  BY DEF Tasks
<1>2. Fine(scope, a, x)
  BY StartedIs
<1> HIDE DEF a, x
<1>3. Fine(scope, n, x)
  BY <1>1, <1>2, EnqueueOK
<1> QED BY <1>3 DEF x

LEMMA ClosedOK ==
    ASSUME NEW scope, NEW m, NEW t \in Tasks, Fine(scope, m, 0),
           NEW n, n = Destroy(m, t, "closed")
    PROVE  Fine(scope, n, 0)
<1> DEFINE none == {}
           status == "closed"
           x == 0
<1>1. n = Destroy(m, t, status) /\ MayDestroy(m, t, status) /\ x \in Nat /\ Fine(scope, m, x)
  BY DEF MayDestroy
<1>2. Good(scope, m, x, t, none, none)
  BY FineGood
<1> HIDE DEF none, status, x
<1>3. Fine(scope, n, x)
  BY ONLY t \in Tasks, <1>1, <1>2, DestroyOK
<1> QED BY <1>3 DEF x

LEMMA PriorityOf ==
    ASSUME NEW scope, NEW m, NEW x, Fine(scope, m, x), NEW t \in Tasks
    PROVE  m.task[t].priority \in Int
<1>1. TaskShape(m.task[t])
  BY FineTask
<1> QED BY <1>1 DEF TaskShape

LEMMA AddToQueueOK ==
    ASSUME NEW scope, NEW m, NEW x \in Nat, Fine(scope, m, x), NEW t \in Tasks,
           NEW n, n = AddToQueue(m, t)
    PROVE  Fine(scope, n, x)
<1> DEFINE priority == m.task[t].priority
<1>1. priority \in Int /\ n = Enqueue(m, t, priority)
  BY PriorityOf DEF AddToQueue
<1> HIDE DEF priority
<1> QED BY <1>1, EnqueueOK

\* t is asked for other parts, no more.
Stays(m, n, t) ==
    /\ n.queue = m.queue /\ \A u \in Tasks \ {t} : n.task[u] = m.task[u]
    /\ n.task[t].status = m.task[t].status

LEMMA WantsOK ==
    ASSUME NEW scope, NEW m, NEW x \in Nat, Fine(scope, m, x), NEW t \in Tasks,
           m.task[t].status = "loading", NEW offset,
           offset \in Taken(m.task[t]) \union Queried(m.task[t]),
           NEW n, n = Wants(m, t, offset)
    PROVE  Fine(scope, n, x) /\ Stays(m, n, t)
<1> DEFINE k == m.task[t]
           wanted == k.wanted \union {offset}
           l == [k EXCEPT !.wanted = wanted]
<1>1. TaskShape(k) /\ IsTask(k)
  BY FineTask
<1>2. n = SetTask(m, t, l)
  BY DEF Wants, SetTask
<1>3. l = [k EXCEPT !.wanted = wanted] /\ k.status = "loading"
  OBVIOUS
<1>4. wanted \subseteq k.wanted \union Queried(k) \union Taken(k)
  OBVIOUS
<1> HIDE DEF k, l, wanted
<1>5. IsTask(l) /\ SameShape(k, l) /\ Similar(k, l) /\ l.status = k.status
  BY <1>1, <1>3, <1>4 DEF IsTask, SameShape, Similar
<1>6. TaskShape(l) /\ Similar(m.task[t], l)
  BY <1>1, <1>5, ShapeKept DEF k
<1>7. Fine(scope, n, x) /\ Puts(m, n, t, l)
  BY <1>2, <1>6, TouchFine
<1> QED BY <1>5, <1>7 DEF Puts, Stays, k

LEMMA ForgetsOK ==
    ASSUME NEW scope, NEW m, NEW x \in Nat, Fine(scope, m, x), NEW t \in Tasks,
           m.task[t].status = "loading", NEW offset, NEW n, n = Forgets(m, t, offset)
    PROVE  Fine(scope, n, x) /\ Stays(m, n, t) /\ offset \notin n.task[t].wanted
<1> DEFINE k == m.task[t]
           wanted == k.wanted \ {offset}
           l == [k EXCEPT !.wanted = wanted]
<1>1. TaskShape(k) /\ IsTask(k)
  BY FineTask
<1>2. n = SetTask(m, t, l)
  BY DEF Forgets, SetTask
<1>3. l = [k EXCEPT !.wanted = wanted] /\ k.status = "loading"
  OBVIOUS
<1>4. wanted \subseteq k.wanted \union Queried(k) \union Taken(k) /\ offset \notin wanted
  OBVIOUS
<1> HIDE DEF k, l, wanted
<1>5. IsTask(l) /\ SameShape(k, l) /\ Similar(k, l) /\ l.wanted = wanted
      /\ l.status = k.status
  BY <1>1, <1>3, <1>4 DEF IsTask, SameShape, Similar
<1>6. TaskShape(l) /\ Similar(m.task[t], l)
  BY <1>1, <1>5, ShapeKept DEF k
<1>7. Fine(scope, n, x) /\ Puts(m, n, t, l)
  BY <1>2, <1>6, TouchFine
<1> QED BY <1>4, <1>5, <1>7 DEF Puts, Stays, k

\* What a stream has asked for, or held back, of a part is dropped.
LEMMA DropsOneOK ==
    ASSUME NEW scope, NEW m, NEW x \in Nat, NEW t \in Streams, NEW offset,
           NEW H, H \subseteq {offset}, Good(scope, m, x, t, H, {}), KindsOK(m.task[t]),
           offset \notin Offsets(m.task[t]), offset \notin m.task[t].wanted,
           NEW n, n = DropsOne(m, t, offset)
    PROVE  Fine(scope, n, x) /\ Stays(m, n, t)
<1> DEFINE k == m.task[t]
           left == [o \in Held(k) \ {offset} |-> k.unchecked[o]]
           l == [k EXCEPT !.unchecked = left]
           none == {}
<1>0. t \in Tasks /\ t \notin Files
  BY Constants DEF Tasks
<1>1. TaskShape(k) /\ PartsOK(t, k, H) /\ Good(scope, m, x, t, H, none)
  <2> HIDE DEF k, none
  <2>1. Good(scope, m, x, t, H, none)
    BY DEF none
  <2>2. TaskShape(m.task[t]) /\ PartsOK(t, m.task[t], H)
    BY <1>0, <2>1, PartsOf
  <2> QED BY <2>1, <2>2 DEF k
<1>2. k.status = "loading" /\ Held(k) # {} => AsksFor(m, t)
  BY DEF Good, TaskOK
<1>3. n = SetTask(m, t, l)
  BY DEF DropsOne, SetTask, Held
<1>4. l = [k EXCEPT !.unchecked = left]
  OBVIOUS
<1>5. KindsOK(k) /\ offset \notin Offsets(k) /\ offset \notin k.wanted
  OBVIOUS
<1> HIDE DEF k, l
<1>6. IsTask(k)
  BY <1>1, RecordOf
<1>7. /\ IsTask(l) /\ l.status = k.status /\ l.sent = k.sent /\ l.unchecked = left
      /\ l.cdn = k.cdn /\ l.next = k.next /\ l.written = k.written /\ l.requested = k.requested
      /\ l.level = k.level /\ l.priority = k.priority /\ l.wanted = k.wanted
  <2> HIDE DEF left
  <2> QED BY <1>4, <1>6 DEF IsTask
<1>8. /\ Held(l) = Held(k) \ {offset}
      /\ \A o \in Held(l) : l.unchecked[o] = k.unchecked[o]
      /\ l.unchecked = [o \in Held(l) |-> l.unchecked[o]]
  BY <1>7 DEF Held
<1>9. TaskShape(l)
  <2> HIDE DEF left
  <2>1. Held(l) \subseteq Parts /\ \A o \in Held(l) : l.unchecked[o] \in Nat
    BY <1>1, <1>8 DEF TaskShape
  <2>2. IsSeq(l.sent) /\ \A r \in ToSet(l.sent) : IsRequest(r)
    BY <1>1, <1>7 DEF TaskShape
  <2>3. l.cdn \in BOOLEAN /\ l.next \in Nat /\ l.level \in Nat /\ l.priority \in Nat
        /\ l.requested \subseteq [offset : Parts, priority : 0 .. l.level]
    BY <1>1, <1>7 DEF TaskShape
  <2>4. IsTask(l)
    BY <1>7
  <2>5. l.unchecked = [o \in Held(l) |-> l.unchecked[o]]
    BY Zenon, <1>8
  <2> QED BY ONLY <2>1, <2>2, <2>3, <2>4, <2>5 DEF TaskShape, IsTask
<1>10. /\ Taken(l) \subseteq Taken(k) /\ Queried(l) = Queried(k) /\ Offsets(l) = Offsets(k)
       /\ Taken(k) \union H \subseteq Taken(l) \union {offset}
  BY <1>7, <1>8 DEF Taken, Offsets, Queried
<1>11. PartsOK(t, l, none)
  <2>1. RequestsOK(l)
    <3>1. \A r \in ToSet(k.sent) : r.offset # offset
      BY <1>5 DEF Offsets
    <3> QED BY <1>1, <1>7, <1>8, <3>1 DEF PartsOK, RequestsOK
  <2>2. StreamOK(l, none)
    BY <1>1, <1>5, <1>7, <1>10 DEF PartsOK, StreamOK
  <2> QED BY <1>0, <2>1, <2>2 DEF PartsOK
<1>12. MaySet(scope, m, x, t, H, none, l, none, none)
  <2> HIDE DEF none, left
  <2> QED BY <1>1, <1>2, <1>7, <1>8, <1>9, <1>11 DEF MaySet, HoldsLess, k
<1>13. KindsOK(l)
  BY <1>5, <1>7, <1>8 DEF KindsOK
<1> HIDE DEF none, left
<1>14. Good(scope, n, x, t, none, none) /\ Puts(m, n, t, l)
  BY ONLY x \in Nat, <1>0, <1>3, <1>12, SetOK
<1> QED BY <1>0, <1>7, <1>13, <1>14, GoodFine DEF none, Puts, Stays, k

Unqueries(m, t, offset) == [m EXCEPT !.task[t].requested = {e \in @ : e.offset # offset}]

LEMMA UnqueriesOK ==
    ASSUME NEW scope, NEW m, NEW x \in Nat, Fine(scope, m, x), NEW t \in Tasks, NEW offset,
           offset \notin m.task[t].wanted, NEW n, n = Unqueries(m, t, offset)
    PROVE  Fine(scope, n, x) /\ Stays(m, n, t)
<1> DEFINE k == m.task[t]
           requested == {e \in k.requested : e.offset # offset}
           l == [k EXCEPT !.requested = requested]
<1>1. TaskShape(k) /\ IsTask(k) /\ PartsOK(t, k, {}) /\ offset \notin k.wanted
  BY FineTask
<1>2. n = SetTask(m, t, l)
  BY DEF Unqueries, SetTask
<1>3. l = [k EXCEPT !.requested = requested]
  OBVIOUS
<1>4. requested \subseteq k.requested /\ \A e \in k.requested : e.offset # offset => e \in requested
  OBVIOUS
<1> HIDE DEF k, l, requested
<1>5. /\ IsTask(l) /\ l.status = k.status /\ l.sent = k.sent /\ l.unchecked = k.unchecked
      /\ l.cdn = k.cdn /\ l.next = k.next /\ l.written = k.written /\ l.requested = requested
      /\ l.level = k.level /\ l.priority = k.priority /\ l.wanted = k.wanted
  BY <1>1, <1>3 DEF IsTask
<1>6. /\ Held(l) = Held(k) /\ Taken(l) = Taken(k) /\ Queried(l) \subseteq Queried(k)
      /\ Queried(k) \subseteq Queried(l) \union {offset}
  BY <1>4, <1>5 DEF Held, Taken, Offsets, Queried
<1>7. TaskShape(l)
  <2>1. l.requested \subseteq [offset : Parts, priority : 0 .. l.level]
    BY <1>1, <1>4, <1>5 DEF TaskShape
  <2>2. Held(l) \subseteq Parts /\ \A o \in Held(l) : l.unchecked[o] \in Nat
    BY <1>1, <1>5, <1>6 DEF TaskShape
  <2>3. IsSeq(l.sent) /\ \A r \in ToSet(l.sent) : IsRequest(r)
    BY <1>1, <1>5 DEF TaskShape
  <2>4. l.cdn \in BOOLEAN /\ l.next \in Nat /\ l.level \in Nat /\ l.priority \in Nat /\ IsTask(l)
    BY <1>1, <1>5 DEF TaskShape
  <2>5. l.unchecked = [o \in Held(l) |-> l.unchecked[o]]
    BY <1>1, <1>5, <1>6 DEF TaskShape
  <2> QED BY ONLY <2>1, <2>2, <2>3, <2>4, <2>5 DEF TaskShape, IsTask
<1>8. PartsOK(t, l, {})
  <2>1. RequestsOK(l)
    BY <1>1, <1>5, <1>6 DEF PartsOK, RequestsOK
  <2>2. t \in Files => FileOK(l, {})
    <3>1. k.requested = {} => l.requested = {}
      BY <1>4, <1>5
    <3> QED BY <1>1, <1>5, <1>6, <3>1 DEF PartsOK, FileOK
  <2>3. t \in Streams => StreamOK(l, {})
    <3>1. t \in Streams => StreamOK(k, {})
      BY <1>1 DEF PartsOK
    <3>2. t \in Streams => \A e, f \in l.requested : e.offset = f.offset => e = f
      BY <1>4, <1>5, <3>1 DEF StreamOK
    <3>3. t \in Streams => l.wanted \subseteq Queried(l) \union Taken(l)
      BY <1>1, <1>5, <1>6, <3>1 DEF StreamOK
    <3> QED BY <1>5, <1>6, <3>1, <3>2, <3>3 DEF StreamOK
  <2> QED BY <2>1, <2>2, <2>3 DEF PartsOK
<1>9. Resets(t, m.task[t], l)
  BY <1>5, <1>7, <1>8 DEF Resets, k
<1>10. Fine(scope, n, x) /\ Puts(m, n, t, l)
  BY <1>2, <1>9, SetFine
<1> QED BY <1>5, <1>10 DEF Puts, Stays, k

LEMMA CancelForOffsetOK ==
    ASSUME NEW scope, NEW m, NEW x \in Nat, Fine(scope, m, x), NEW t \in Streams, NEW offset,
           offset \notin m.task[t].wanted, NEW n, n = CancelForOffset(m, t, offset)
    PROVE  /\ Fine(scope, n, x)
           /\ \/ Stays(m, n, t)
              \/ \E d : Fine(scope, d, x) /\ Stays(m, d, t) /\ n = AddToQueue(d, t)
<1> DEFINE d == CancelRequestForOffset(m, t, offset)
<1>1. t \in Tasks /\ d = CancelRequestForOffset(m, t, offset)
  BY DEF Tasks
<1>2. n = Unqueries(m, t, offset) \/ n = d \/ n = AddToQueue(d, t)
  BY DEF CancelForOffset, Unqueries
<1> HIDE DEF d
<1>3. KindsOK(m.task[t])
  BY <1>1 DEF Fine
<1>4. PICK c, H : CancelsOne(scope, m, x, t, offset, c, H) /\ d = DropsOne(c, t, offset)
  BY <1>1, CancelSomeOK
<1>5. /\ H \subseteq {offset} /\ Good(scope, c, x, t, H, {}) /\ Beside(m, c, t)
      /\ ToSet(c.task[t].sent) = {r \in ToSet(m.task[t].sent) : r.offset # offset}
  BY <1>4 DEF CancelsOne, Cancelling
<1>6. offset \notin Offsets(c.task[t]) /\ offset \notin c.task[t].wanted
  BY <1>5 DEF Offsets, Beside, KeepsAll
<1>7. KindsOK(c.task[t])
  BY <1>3, <1>5 DEF KindsOK, Beside, KeepsAll, Held
<1>8. Fine(scope, d, x) /\ Stays(c, d, t)
  BY <1>4, <1>5, <1>6, <1>7, DropsOneOK
<1>9. Stays(m, d, t)
  BY <1>5, <1>8 DEF Stays, Beside, KeepsAll
<1> QED BY <1>1, <1>2, <1>8, <1>9, UnqueriesOK, AddToQueueOK

Asks(m, t, offset) ==
    [Wants(m, t, offset) EXCEPT !.task[t].requested =
        {e \in @ : e.offset # offset} \union {[offset |-> offset, priority |-> m.task[t].level]}]

LEMMA AsksOK ==
    ASSUME NEW scope, NEW m, NEW x \in Nat, Fine(scope, m, x), NEW t \in Streams,
           m.task[t].status = "loading", NEW offset \in Parts, offset \notin Taken(m.task[t]),
           NEW n, n = Asks(m, t, offset)
    PROVE  Fine(scope, n, x) /\ Stays(m, n, t)
<1> DEFINE k == m.task[t]
           old == m.task
           entry == [offset |-> offset, priority |-> k.level]
           wanted == k.wanted \union {offset}
           requested == {e \in k.requested : e.offset # offset} \union {entry}
           l == [k EXCEPT !.wanted = wanted, !.requested = requested]
<1>0. t \in Tasks /\ t \notin Files
  BY Constants DEF Tasks
<1>1. /\ TaskShape(k) /\ IsTask(k) /\ PartsOK(t, k, {}) /\ IsManager(m)
      /\ old = [u \in Tasks |-> old[u]]
  BY <1>0, FineTask
<1>2. k.status = "loading" /\ offset \notin Taken(k)
  OBVIOUS
<1>3. n = SetTask(m, t, l)
  <2> DEFINE a == Wants(m, t, offset)
  <2>1. a = [m EXCEPT !.task[t].wanted = wanted]
    BY DEF Wants
  <2>2. n = [a EXCEPT !.task[t].requested = {e \in @ : e.offset # offset} \union {entry}]
    BY DEF Asks
  <2> HIDE DEF a, wanted
  <2>3. a.task = [old EXCEPT ![t].wanted = wanted] /\ IsManager(a)
    BY <1>1, <2>1 DEF IsManager
  <2>4. a.task[t].requested = k.requested
    <3>1. a.task[t] = [old[t] EXCEPT !.wanted = wanted]
      BY <1>0, <1>1, <2>3
    <3> QED BY <1>1, <3>1 DEF IsTask
  <2>5. {e \in a.task[t].requested : e.offset # offset} \union {entry} = requested
    BY <2>4
  <2> HIDE DEF requested, entry
  <2>6. n = [a EXCEPT !.task[t].requested = requested]
    BY <2>2, <2>5
  <2>7. n = [m EXCEPT !.task = [[m.task EXCEPT ![t].wanted = wanted] EXCEPT ![t].requested = requested]]
    BY <1>1, <2>1, <2>6 DEF IsManager
  <2>8. k = old[t]
    OBVIOUS
  <2>9. [[old EXCEPT ![t].wanted = wanted] EXCEPT ![t].requested = requested] = [old EXCEPT ![t] = l]
    <3> HIDE DEF old, k
    <3> QED BY <1>0, <1>1, <2>8
  <2> HIDE DEF l
  <2> QED BY <2>7, <2>9 DEF SetTask
<1>4. l = [k EXCEPT !.wanted = wanted, !.requested = requested]
  OBVIOUS
<1>5. wanted = k.wanted \union {offset}
      /\ requested = {e \in k.requested : e.offset # offset} \union {entry}
      /\ entry = [offset |-> offset, priority |-> k.level]
  OBVIOUS
<1> HIDE DEF k, l, wanted, requested, entry
<1>6. /\ IsTask(l) /\ l.status = k.status /\ l.sent = k.sent /\ l.unchecked = k.unchecked
      /\ l.cdn = k.cdn /\ l.next = k.next /\ l.written = k.written /\ l.requested = requested
      /\ l.level = k.level /\ l.priority = k.priority /\ l.wanted = wanted
  BY <1>1, <1>4 DEF IsTask
<1>7. entry.offset = offset /\ entry \in [offset : Parts, priority : 0 .. k.level]
  <2>1. k.level \in Nat
    BY <1>1 DEF TaskShape
  <2> QED BY <1>5, <2>1
<1>8. /\ Held(l) = Held(k) /\ Taken(l) = Taken(k)
      /\ Queried(l) = (Queried(k) \ {offset}) \union {offset}
  <2>1. Held(l) = Held(k) /\ Taken(l) = Taken(k)
    BY <1>6 DEF Held, Taken, Offsets
  <2> QED BY <1>5, <1>6, <1>7, <2>1 DEF Queried
<1>9. TaskShape(l)
  <2>1. l.requested \subseteq [offset : Parts, priority : 0 .. l.level]
    BY <1>1, <1>5, <1>6, <1>7 DEF TaskShape
  <2>2. Held(l) \subseteq Parts /\ \A o \in Held(l) : l.unchecked[o] \in Nat
    BY <1>1, <1>6, <1>8 DEF TaskShape
  <2>3. IsSeq(l.sent) /\ \A r \in ToSet(l.sent) : IsRequest(r)
    BY <1>1, <1>6 DEF TaskShape
  <2>4. l.cdn \in BOOLEAN /\ l.next \in Nat /\ l.level \in Nat /\ l.priority \in Nat /\ IsTask(l)
    BY <1>1, <1>6 DEF TaskShape
  <2>5. l.unchecked = [o \in Held(l) |-> l.unchecked[o]]
    BY <1>1, <1>6, <1>8 DEF TaskShape
  <2> QED BY ONLY <2>1, <2>2, <2>3, <2>4, <2>5 DEF TaskShape, IsTask
<1>10. PartsOK(t, l, {})
  <2>1. RequestsOK(l)
    BY <1>1, <1>6, <1>8 DEF PartsOK, RequestsOK
  <2>2. StreamOK(l, {})
    <3>1. StreamOK(k, {})
      BY <1>1 DEF PartsOK
    <3>2. \A e, f \in l.requested : e.offset = f.offset => e = f
      BY <1>5, <1>6, <1>7, <3>1 DEF StreamOK
    <3>3. l.wanted \subseteq Queried(l) \union Taken(l)
      BY <1>5, <1>6, <1>8, <3>1 DEF StreamOK
    <3>4. Queried(l) \intersect Taken(l) = {}
      BY <1>2, <1>8, <3>1 DEF StreamOK
    <3> QED BY <1>2, <1>6, <3>2, <3>3, <3>4 DEF StreamOK
  <2> QED BY <1>0, <2>1, <2>2 DEF PartsOK
<1>11. Resets(t, m.task[t], l)
  BY <1>2, <1>6, <1>9, <1>10 DEF Resets, k
<1>12. Fine(scope, n, x) /\ Puts(m, n, t, l)
  BY <1>0, <1>3, <1>11, SetFine
<1> QED BY <1>6, <1>12 DEF Puts, Stays, k

LEMMA SetPriorityOK ==
    ASSUME NEW scope, NEW m, NEW x \in Nat, Fine(scope, m, x), NEW t \in Tasks,
           NEW priority \in Nat, NEW n, n = [m EXCEPT !.task[t].priority = priority]
    PROVE  Fine(scope, n, x) /\ Stays(m, n, t)
<1> DEFINE k == m.task[t]
           l == [k EXCEPT !.priority = priority]
<1>1. TaskShape(k) /\ IsTask(k)
  BY FineTask
<1>2. n = SetTask(m, t, l) /\ l = [k EXCEPT !.priority = priority]
  BY DEF SetTask
<1> HIDE DEF k, l
<1>3. /\ IsTask(l) /\ l.status = k.status /\ l.sent = k.sent /\ l.unchecked = k.unchecked
      /\ l.cdn = k.cdn /\ l.next = k.next /\ l.written = k.written /\ l.requested = k.requested
      /\ l.level = k.level /\ l.priority = priority /\ l.wanted = k.wanted
  BY <1>1, <1>2 DEF IsTask
<1>4. Held(l) = Held(k)
  BY <1>3 DEF Held
<1>5. TaskShape(l) /\ Similar(m.task[t], l)
  BY <1>1, <1>3, <1>4 DEF TaskShape, IsTask, Similar, k
<1>6. Fine(scope, n, x) /\ Puts(m, n, t, l)
  BY <1>2, <1>5, TouchFine
<1> QED BY <1>3, <1>6 DEF Puts, Stays, k

LEMMA ResetPrioritiesOK ==
    ASSUME NEW scope, NEW m, NEW x \in Nat, Fine(scope, m, x), NEW t \in Tasks,
           NEW n, n = [m EXCEPT !.task[t].level = @ + 1]
    PROVE  Fine(scope, n, x) /\ Stays(m, n, t)
<1> DEFINE k == m.task[t]
           level == k.level + 1
           l == [k EXCEPT !.level = level]
<1>1. TaskShape(k) /\ IsTask(k)
  BY FineTask
<1>2. n = SetTask(m, t, l) /\ l = [k EXCEPT !.level = level]
  BY DEF SetTask
<1>3. k.level \in Nat /\ level \in Nat /\ 0 .. k.level \subseteq 0 .. level
  BY <1>1 DEF TaskShape
<1> HIDE DEF k, l, level
<1>4. /\ IsTask(l) /\ l.status = k.status /\ l.sent = k.sent /\ l.unchecked = k.unchecked
      /\ l.cdn = k.cdn /\ l.next = k.next /\ l.written = k.written /\ l.requested = k.requested
      /\ l.level = level /\ l.priority = k.priority /\ l.wanted = k.wanted
  BY <1>1, <1>2 DEF IsTask
<1>5. Held(l) = Held(k)
  BY <1>4 DEF Held
<1>6. l.requested \subseteq [offset : Parts, priority : 0 .. l.level]
  BY <1>1, <1>3, <1>4 DEF TaskShape
<1>7. TaskShape(l) /\ Similar(m.task[t], l)
  BY <1>1, <1>3, <1>4, <1>5, <1>6 DEF TaskShape, IsTask, Similar, k
<1>8. Fine(scope, n, x) /\ Puts(m, n, t, l)
  BY <1>2, <1>7, TouchFine
<1> QED BY <1>4, <1>8 DEF Puts, Stays, k

\* What was posted is run.
LEMMA RunPostedOK ==
    ASSUME NEW scope, NEW m, Fine(scope, m, 0), Room(scope, m), m.posted # <<>>,
           NEW a, a = [m EXCEPT !.posted = Tail(@)], NEW first, first = Head(m.posted),
           NEW n, n = IF first.call = "hashes" THEN RequestMoreHashes(a, first.task)
                                              ELSE SessionTimedOut(a, first.session)
    PROVE  /\ Fine(scope, n, 0) /\ a.queue = m.queue /\ a.task = m.task
           /\ \/ AllSpared(a, n)
              \/ \E t \in Tasks : Beside(a, n, t) /\ AsksMore(a, n, t)
<1> DEFINE q == m.posted
           p == Tail(q)
           x == 0
<1>1. Shape(m) /\ IsManager(m) /\ IsSeq(q) /\ q # <<>> /\ \A c \in ToSet(q) : IsPosted(c)
  BY DEF Fine, Shape
<1>2. IsSeq(p) /\ ToSet(q) = {Head(q)} \union ToSet(p)
  <2>1. p = Tail(q) /\ IsSeq(q) /\ q # <<>>
    BY <1>1
  <2> HIDE DEF p, q
  <2> QED BY <2>1, TailIs
<1>3. /\ a.sessions = m.sessions /\ a.balance = m.balance /\ a.queue = m.queue
      /\ a.killing = m.killing /\ a.task = m.task /\ a.posted = p /\ a.broken = m.broken
      /\ IsManager(a)
  <2>1. a = [m EXCEPT !.posted = p]
    OBVIOUS
  <2> HIDE DEF p
  <2> QED BY <1>1, <2>1 DEF IsManager
<1>4. first \in ToSet(q) /\ IsPosted(first) /\ ToSet(q) = {first} \union ToSet(p)
  BY <1>1, <1>2
<1> HIDE DEF p
<1>5. Shape(a)
  BY <1>1, <1>2, <1>3 DEF Shape
<1>6. scope = "all" => BalanceOK(a, x)
  <2>1. scope = "all" => BalanceOK(m, x)
    BY DEF Fine
  <2> HIDE DEF x
  <2> QED BY <1>3, <2>1, BalanceSame
<1>7. \A u \in Tasks : HashesCall(u) # first => TaskOK(a, u, {}, {})
  <2> TAKE u \in Tasks
  <2>1. HashesCall(u) # first /\ HashesCall(u) \in ToSet(m.posted) => HashesCall(u) \in ToSet(a.posted)
    BY <1>3, <1>4
  <2>2. TaskOK(m, u, {}, {}) /\ a.task[u] = m.task[u]
    BY <1>3 DEF Fine
  <2> QED BY <2>1, <2>2, TaskKept
<1>8. \A u \in Tasks : KindsOK(a.task[u])
  BY <1>3 DEF Fine
<1>9. CASE first.call = "hashes"
  <2> DEFINE t == first.task
             none == {}
             due == {t}
  <2>1. t \in Tasks
    BY <1>4, <1>9 DEF IsPosted
  <2>2. TaskOK(a, t, none, due)
    BY <1>3, <2>1 DEF Fine, TaskOK
  <2>3. \A u \in Tasks \ {t} : TaskOK(a, u, {}, {})
    <3> TAKE u \in Tasks \ {t}
    <3>1. HashesCall(u).task = u
      BY DEF HashesCall
    <3>2. HashesCall(u) # first
      BY <3>1
    <3> QED BY <1>7, <3>2
  <2>4. Good(scope, a, x, t, none, due)
    <3> HIDE DEF none, due, x
    <3> QED BY <1>5, <1>6, <1>8, <2>2, <2>3 DEF Good
  <2>5. n = RequestMoreHashes(a, t) /\ KindsOK(a.task[t]) /\ x \in Nat
    BY <1>8, <1>9, <2>1
  <2> HIDE DEF t, none, due, x
  <2>6. /\ Good(scope, n, x, t, none, {}) /\ KindsOK(n.task[t])
        /\ Beside(a, n, t) /\ AsksMore(a, n, t)
    BY <2>1, <2>4, <2>5, RequestMoreHashesOK
  <2>7. Fine(scope, n, x)
    BY <2>1, <2>5, <2>6, GoodFine DEF none
  <2> QED BY <1>3, <2>1, <2>6, <2>7 DEF x
<1>10. CASE first.call # "hashes"
  <2>1. \A u \in Tasks : HashesCall(u) # first
    BY <1>10 DEF HashesCall
  <2>2. Fine(scope, a, 0)
    BY <1>5, <1>6, <1>7, <1>8, <2>1 DEF Fine
  <2>3. n = SessionTimedOut(a, first.session) /\ first.session \in Nat
    BY <1>4, <1>10 DEF IsPosted
  <2>4. Room(scope, a)
    <3>1. Sent(a) = Sent(m)
      BY <1>3, SentOf
    <3> QED BY <3>1 DEF Room
  <2> QED BY <1>3, <2>2, <2>3, <2>4, SessionTimedOutOK
<1> QED BY <1>9, <1>10

-----------------------------------------------------------------------------
(* The invariant.                                                            *)

\* A task as Init makes it.
Fresh(k) ==
    /\ IsTask(k) /\ k.sent = <<>> /\ k.unchecked = <<>> /\ k.cdn = FALSE
    /\ k.next = 0 /\ k.written = {} /\ k.requested = {} /\ k.level = 0
    /\ k.priority = 0 /\ k.wanted = {} /\ k.status # "done"

LEMMA FreshIs ==
    ASSUME NEW status, NEW k, k = [NewTask EXCEPT !.status = status], status # "done"
    PROVE  Fresh(k) /\ k.status = status
<1> DEFINE b == NewTask
<1>1. /\ b = [status |-> b.status, sent |-> b.sent, unchecked |-> b.unchecked,
            hashes |-> b.hashes, cdn |-> b.cdn, renewed |-> b.renewed,
            renewing |-> b.renewing, next |-> b.next, written |-> b.written,
            requested |-> b.requested, level |-> b.level, priority |-> b.priority,
            wanted |-> b.wanted]
      /\ b.sent = <<>> /\ b.unchecked = <<>> /\ b.cdn = FALSE
      /\ b.next = 0 /\ b.written = {} /\ b.requested = {} /\ b.level = 0
      /\ b.priority = 0 /\ b.wanted = {}
  BY DEF NewTask
<1>2. k = [b EXCEPT !.status = status]
  OBVIOUS
<1> HIDE DEF b
<1>3. IsTask(k) /\ k.status = status /\ k.sent = b.sent /\ k.unchecked = b.unchecked
      /\ k.cdn = b.cdn /\ k.next = b.next /\ k.written = b.written /\ k.requested = b.requested
      /\ k.level = b.level /\ k.priority = b.priority /\ k.wanted = b.wanted
  BY <1>1, <1>2 DEF IsTask
<1> QED BY <1>1, <1>3 DEF Fresh

LEMMA FreshOK ==
    ASSUME NEW t \in Tasks, NEW k, Fresh(k), t \in Files => k.status = "new"
    PROVE  /\ TaskShape(k) /\ KindsOK(k) /\ RequestsOK(k) /\ Held(k) = {} /\ Taken(k) = {}
           /\ ToSet(k.sent) = {} /\ (t \in Files => FileOK(k, {})) /\ (t \in Streams => StreamOK(k, {}))
<1>1. Held(k) = {} /\ ToSet(k.sent) = {} /\ IsSeq(k.sent) /\ Alone(k.sent)
  BY EmptyIs DEF Held, Fresh
<1>2. Taken(k) = {} /\ Queried(k) = {}
  BY <1>1 DEF Taken, Offsets, Queried, Fresh
<1>3. TaskShape(k)
  <2>1. k.unchecked = [o \in Held(k) |-> k.unchecked[o]]
    BY <1>1 DEF Fresh
  <2>2. k.cdn \in BOOLEAN
    BY Zenon DEF Fresh
  <2>3. k.next \in Nat /\ k.level \in Nat /\ k.priority \in Nat
    BY DEF Fresh
  <2>4. k.requested \subseteq [offset : Parts, priority : 0 .. k.level]
    BY Zenon DEF Fresh
  <2>5. IsTask(k) /\ Held(k) \subseteq Parts /\ \A o \in Held(k) : k.unchecked[o] \in Nat
    BY <1>1 DEF Fresh
  <2>6. \A r \in ToSet(k.sent) : IsRequest(r)
    BY <1>1
  <2> QED BY ONLY <1>1, <2>1, <2>2, <2>3, <2>4, <2>5, <2>6 DEF TaskShape, IsTask
<1>4. KindsOK(k) /\ RequestsOK(k)
  BY <1>1 DEF KindsOK, RequestsOK
<1>5. t \in Files => FileOK(k, {})
  BY <1>2 DEF FileOK, Fresh
<1>6. t \in Streams => StreamOK(k, {})
  BY <1>2 DEF StreamOK, Fresh
<1> QED BY <1>1, <1>2, <1>3, <1>4, <1>5, <1>6

LEMMA InitOK ==
    ASSUME NEW scope, Init
    PROVE  Fine(scope, manager, 0)
<1> DEFINE m == manager
           TaskOf(t) == [NewTask EXCEPT !.status = IF t \in Files THEN "new" ELSE "loading"]
           first == <<NewSession>>
<1>1. m = [sessions |-> first, balance |-> NewBalance, queue |-> <<>>, killing |-> FALSE,
           resetting |-> FALSE, posted |-> <<>>, task |-> [t \in Tasks |-> TaskOf(t)],
           broken |-> FALSE]
  BY DEF Init
<1>2. ASSUME NEW t \in Tasks
      PROVE  Fresh(TaskOf(t)) /\ (t \in Files => TaskOf(t).status = "new")
  <2> DEFINE status == IF t \in Files THEN "new" ELSE "loading"
             k == TaskOf(t)
  <2>1. k = [NewTask EXCEPT !.status = status] /\ status # "done"
    OBVIOUS
  <2> HIDE DEF k, status
  <2>2. Fresh(k) /\ k.status = status
    BY <2>1, FreshIs
  <2> QED BY <2>2 DEF k, status
<1> HIDE DEF TaskOf, first
<1>3. /\ m.sessions = first /\ m.balance = NewBalance /\ m.queue = <<>> /\ m.killing = FALSE
      /\ m.posted = <<>> /\ m.broken = FALSE /\ IsManager(m) /\ m.task = [t \in Tasks |-> m.task[t]]
      /\ \A t \in Tasks : m.task[t] = TaskOf(t)
  BY <1>1 DEF IsManager
<1> HIDE DEF m
<1>4. ASSUME NEW t \in Tasks
      PROVE  /\ TaskShape(m.task[t]) /\ KindsOK(m.task[t]) /\ RequestsOK(m.task[t])
             /\ Held(m.task[t]) = {} /\ Taken(m.task[t]) = {} /\ ToSet(m.task[t].sent) = {}
             /\ t \in Files => FileOK(m.task[t], {})
             /\ t \in Streams => StreamOK(m.task[t], {})
  BY <1>2, <1>3, FreshOK
<1>5. first \in Seq(SessionType) /\ Len(first) = 1 /\ DOMAIN first = {1} /\ first[1].requested = 0
  <2>1. NewSession \in SessionType /\ NewSession.requested = 0
    BY Constants DEF NewSession, SessionType
  <2> QED BY <2>1 DEF first
<1>6. NewBalance \in BalanceType /\ NewBalance.total = 0
  BY DEF NewBalance, BalanceType
<1>7. Shape(m)
  <2>1. m.queue \in Seq(EntryType)
    BY <1>3
  <2>2. IsSeq(m.posted) /\ ToSet(m.posted) = {}
    BY <1>3, EmptyIs
  <2>3. m.killing \in BOOLEAN /\ m.broken \in BOOLEAN
    BY Zenon, <1>3
  <2>4. m.sessions \in Seq(SessionType) /\ Len(m.sessions) > 0 /\ m.balance \in BalanceType
    BY <1>3, <1>5, <1>6
  <2> QED BY <1>3, <1>4, <2>1, <2>2, <2>3, <2>4 DEF Shape
<1>8. \A u \in Tasks : TaskOK(m, u, {}, {}) /\ KindsOK(m.task[u])
  BY <1>4 DEF TaskOK
<1>9. BalanceOK(m, 0)
  <2>1. Sent(m) = {} /\ \A i : SentIn(m, i) = {}
    BY <1>4 DEF Sent, SentIn, Offsets
  <2>2. Cardinality(Sent(m)) = 0 /\ \A i : Cardinality(SentIn(m, i)) = 0
    BY <2>1, FS_EmptySet
  <2>3. Adds(m, 0)
    BY <1>3, <1>5, <1>6, <2>2 DEF Adds
  <2>4. InSessions(m) /\ Idle0(m) /\ Sorted(m.queue)
    BY <1>3, <1>4, <2>1 DEF InSessions, Idle0, Sorted
  <2> QED BY <1>3, <1>4, <2>3, <2>4 DEF BalanceOK
<1> QED BY <1>7, <1>8, <1>9 DEF Fine, m

\* So far no token was refused while parts of its task were held back.
Unspoiled == spoiled = {}

LEMMA AnsweredOK ==
    ASSUME Unspoiled', NEW scope, Fine(scope, manager, 0), NEW t \in Tasks,
           NEW r \in Waiting(t), Answered(t, r)
    PROVE  Fine(scope, manager', 0)
<1> DEFINE m == manager
           n == manager'
<1>1. r \in ToSet(m.task[t].sent) /\ Fine(scope, m, 0)
  BY DEF Waiting
<1>2. ASSUME NEW pace, PartLoaded(t, r, pace) PROVE Fine(scope, n, 0)
  <2>1. r.kind # "hashes" /\ n = CheckSendNext(FeedPart(Answer(m, t, r, pace), t, r.offset))
    BY <1>2 DEF PartLoaded, Become, AfterSuccess, Answer
  <2> HIDE DEF m, n
  <2> QED BY <1>1, <2>1, PartLoadedOK
<1>3. ASSUME NEW pace, NEW hashes, Redirected(t, r, pace, hashes) PROVE Fine(scope, n, 0)
  <2>1. /\ r.kind # "hashes"
        /\ n = CheckSendNext(ChangeCDNParams(Answer(m, t, r, pace), t, r, TRUE, hashes))
    BY <1>3 DEF Redirected, Become, AfterSuccess, Answer
  <2> HIDE DEF m, n
  <2> QED BY <1>1, <2>1, RedirectedOK
<1>4. ASSUME NEW pace, NEW good, CdnPartLoaded(t, r, pace, good) PROVE Fine(scope, n, 0)
  <2>1. r.kind = "cdn" /\ n = CheckSendNext(CdnPart(Answer(m, t, r, pace), t, r, good))
    BY <1>4 DEF CdnPartLoaded, Become, AfterSuccess, Answer
  <2> HIDE DEF m, n
  <2> QED BY <1>1, <2>1, CdnPartLoadedOK
<1>5. ASSUME ReuploadDone(t, r) PROVE Fine(scope, n, 0)
  <2> DEFINE hashes == {r.offset}
  <2>1. /\ r.kind # "hashes"
        /\ n = MakeRequest(AddHashes(FinishSentRequest(m, t, r), t, hashes), t, r.offset, r.session)
    BY <1>5 DEF ReuploadDone, Become
  <2> HIDE DEF m, n, hashes
  <2> QED BY <1>1, <2>1, ReuploadDoneOK
<1>6. ASSUME NEW hashes, NEW wrong, GetCdnFileHashesDone(t, r, hashes, wrong)
      PROVE  Fine(scope, n, 0)
  <2>1. /\ r.kind = "hashes"
        /\ n = CheckUnchecked(AddHashes(FinishSentRequest(m, t, r), t, hashes), t, wrong)
    BY <1>6 DEF GetCdnFileHashesDone, Become
  <2> HIDE DEF m, n
  <2> QED BY <1>1, <2>1, GetCdnFileHashesDoneOK
<1>7. ASSUME ReuploadNeeded(t, r) PROVE Fine(scope, n, 0)
  <2>1. /\ r.kind = "cdn"
        /\ n = PlaceSentRequest(FinishSentRequest(m, t, r), t, "reupload", r.offset, r.session)
    BY <1>7 DEF ReuploadNeeded, Become
  <2> HIDE DEF m, n
  <2> QED BY <1>1, <2>1, ReuploadNeededOK
<1>8. ASSUME TokenRefused(t, r) PROVE Fine(scope, n, 0)
  <2> DEFINE hashes == {}
  <2>1. /\ Held(m.task[t]) = {}
        /\ n = ChangeCDNParams(FinishSentRequest(m, t, r), t, r, FALSE, hashes)
    BY <1>8 DEF TokenRefused, Unspoiled, Held
  <2> HIDE DEF m, n, hashes
  <2> QED BY <1>1, <2>1, TokenRefusedOK
<1>9. ASSUME PartFailed(t, r) PROVE Fine(scope, n, 0)
  <2>1. n = CancelOnFail(Await(m, t, r, "nothing"), t)
    BY <1>9 DEF PartFailed, Become
  <2> HIDE DEF m, n
  <2> QED BY <1>1, <2>1, PartFailedOK
<1>10. ASSUME ReferenceExpired(t, r) PROVE Fine(scope, n, 0)
  <2>1. /\ r.kind = "part"
        /\ n = [Await(m, t, r, "reference") EXCEPT !.task[t].renewing = TRUE]
    BY <1>10 DEF ReferenceExpired, Become
  <2> HIDE DEF m, n
  <2> QED BY <1>1, <2>1, ReferenceExpiredOK
<1> QED BY <1>2, <1>3, <1>4, <1>5, <1>6, <1>7, <1>8, <1>9, <1>10 DEF Answered

LEMMA CameOK ==
    ASSUME NEW scope, Fine(scope, manager, 0), NEW t \in Tasks, NEW renewed,
           ReferenceCame(t, renewed)
    PROVE  Fine(scope, manager', 0)
<1> DEFINE m == manager
           n == manager'
           a == Came(m, t, renewed)
<1>1. n = (IF a.task[t].renewed THEN AsksAgain(a, t) ELSE CancelOnFail(a, t))
  BY DEF ReferenceCame, Become, Came, AsksAgain, AskAgain
<1>2. a = Came(m, t, renewed) /\ Fine(scope, m, 0)
  OBVIOUS
<1> HIDE DEF m, n, a
<1>3. n = AsksAgain(a, t) \/ n = CancelOnFail(a, t)
  BY <1>1
<1>4. Fine(scope, n, 0)
  BY <1>2, <1>3, ReferenceCameOK
<1> QED BY <1>4 DEF n

LEMMA ReaderOK ==
    ASSUME NEW scope, Fine(scope, manager, 0), NEW t \in Streams, Reader(t)
    PROVE  Fine(scope, manager', 0)
<1> DEFINE m == manager
           n == manager'
           x == 0
<1>1. x \in Nat /\ Fine(scope, m, x) /\ t \in Tasks
  BY DEF Tasks
<1>2. ASSUME NEW offset \in Asked, Load(t, offset) PROVE Fine(scope, n, x)
  <2> DEFINE sent == HaveSentRequestForOffset(m.task[t], offset)
             entry == [offset |-> offset, priority |-> m.task[t].level]
             a == Asks(m, t, offset)
  <2>1. sent <=> offset \in Taken(m.task[t])
    BY DEF HaveSentRequestForOffset, Taken, Held
  <2>2. entry \in m.task[t].requested => offset \in Queried(m.task[t])
    BY DEF Queried
  <2>3. offset \in Parts /\ m.task[t].status = "loading"
    BY <1>2, Constants DEF Load, Live
  <2>4. IF sent \/ entry \in m.task[t].requested THEN n = Wants(m, t, offset)
                                                 ELSE n = AddToQueue(a, t)
    BY <1>2 DEF Load, Call, Asks
  <2> HIDE DEF m, n, x, sent, entry
  <2>5. CASE sent \/ entry \in m.task[t].requested
    BY <1>1, <2>1, <2>2, <2>3, <2>4, <2>5, WantsOK
  <2>6. CASE ~(sent \/ entry \in m.task[t].requested)
    <3>1. a = Asks(m, t, offset) /\ n = AddToQueue(a, t) /\ offset \notin Taken(m.task[t])
      BY <2>1, <2>4, <2>6
    <3> HIDE DEF a
    <3>2. Fine(scope, a, x)
      BY <1>1, <2>3, <3>1, AsksOK
    <3> QED BY <1>1, <3>1, <3>2, AddToQueueOK
  <2> QED BY <2>5, <2>6
<1>3. ASSUME NEW offset \in Asked, CancelLoad(t, offset) PROVE Fine(scope, n, x)
  <2> DEFINE a == Forgets(m, t, offset)
  <2>1. m.task[t].status = "loading" /\ a = Forgets(m, t, offset) /\ n = CancelForOffset(a, t, offset)
    BY <1>3 DEF CancelLoad, Live, Call
  <2> HIDE DEF m, n, x, a
  <2>2. Fine(scope, a, x) /\ offset \notin a.task[t].wanted
    BY <1>1, <2>1, ForgetsOK
  <2> QED BY <1>1, <2>1, <2>2, CancelForOffsetOK
<1>4. ASSUME NEW priority \in Levels, SetPriority(t, priority) PROVE Fine(scope, n, x)
  <2> DEFINE a == [m EXCEPT !.task[t].priority = priority]
  <2>1. n = a \/ n = AddToQueue(a, t)
    BY <1>4 DEF SetPriority, Call
  <2>2. a = [m EXCEPT !.task[t].priority = priority] /\ priority \in Nat
    BY Constants
  <2> HIDE DEF m, n, x, a
  <2>3. Fine(scope, a, x)
    BY <1>1, <2>2, SetPriorityOK
  <2> QED BY <1>1, <2>1, <2>3, AddToQueueOK
<1>5. ASSUME TryRemoveFromQueue(t) PROVE Fine(scope, n, x)
  <2>1. n = RemoveFromQueue(m, t) /\ ~HaveSentRequests(m.task[t])
    BY <1>5 DEF TryRemoveFromQueue, Set
  <2> HIDE DEF m, n, x
  <2>2. IsSeq(m.task[t].sent)
    BY <1>1, FineTask DEF TaskShape
  <2>3. Taken(m.task[t]) = {}
    BY <2>1, EmptyIs DEF HaveSentRequests, Taken, Offsets, Held
  <2> QED BY <1>1, <2>1, <2>3, RemoveFromQueueOK
<1>6. ASSUME ResetPriorities(t) PROVE Fine(scope, n, x)
  <2>1. n = [m EXCEPT !.task[t].level = @ + 1]
    BY <1>6 DEF ResetPriorities, Call
  <2> HIDE DEF m, n, x
  <2> QED BY <1>1, <2>1, ResetPrioritiesOK
<1>7. ASSUME Close(t) PROVE Fine(scope, n, x)
  <2>1. n = Destroy(m, t, "closed") /\ Fine(scope, m, 0)
    BY <1>7 DEF Close, Set
  <2> HIDE DEF m, n
  <2> QED BY <1>1, <2>1, ClosedOK
<1> QED BY <1>2, <1>3, <1>4, <1>5, <1>6, <1>7 DEF Reader

\* All that the last session is said to wait for when it goes is more than what
\* is sent, unless more is on its way than all sessions may hold.
Roomy == Cardinality(Sent(manager)) <= MaxWaited * MaxSessions

LEMMA NextOK ==
    ASSUME Unspoiled', NEW scope, Fine(scope, manager, 0), scope = "all" => Roomy,
           [Next]_vars
    PROVE  Fine(scope, manager', 0)
<1> DEFINE m == manager
           n == manager'
<1>0. Fine(scope, m, 0) /\ Room(scope, m)
  BY DEF Room, Roomy
<1>1. ASSUME NEW t \in Tasks, NEW r \in Waiting(t), Answered(t, r) PROVE Fine(scope, n, 0)
  BY <1>1, AnsweredOK
<1>2. ASSUME NEW t \in Tasks, NEW renewed, ReferenceCame(t, renewed) PROVE Fine(scope, n, 0)
  BY <1>2, CameOK
<1>3. ASSUME NEW t \in Files, Cancel(t) PROVE Fine(scope, n, 0)
  <2>1. n = Destroy(m, t, "closed") /\ t \in Tasks
    BY <1>3 DEF Cancel, Call, Tasks
  <2> HIDE DEF m, n
  <2> QED BY <1>0, <2>1, ClosedOK
<1>4. ASSUME NEW t \in Files, NEW partial \in Parts, Start(t, partial) PROVE Fine(scope, n, 0)
  <2>1. m.task[t].status = "new" /\ n = Enqueue(Started(m, t, partial), t, 0)
    BY <1>4 DEF Start, Set, Started
  <2> HIDE DEF m, n
  <2> QED BY <1>0, <2>1, StartOK
<1>5. ASSUME NEW t \in Streams, Reader(t) PROVE Fine(scope, n, 0)
  BY <1>5, ReaderOK
<1>6. ASSUME NEW i \in 1 .. MaxSessions, RestartsByTimeout(i) PROVE Fine(scope, n, 0)
  <2>1. n = SessionTimedOut(m, i) /\ i \in Nat
    BY <1>6 DEF RestartsByTimeout, Become
  <2> HIDE DEF m, n
  <2> QED BY <1>0, <2>1, SessionTimedOutOK
<1>7. ASSUME RunPosted PROVE Fine(scope, n, 0)
  <2> DEFINE a == [m EXCEPT !.posted = Tail(@)]
             first == Head(m.posted)
  <2>1. /\ m.posted # <<>> /\ a = [m EXCEPT !.posted = Tail(@)] /\ first = Head(m.posted)
        /\ n = IF first.call = "hashes" THEN RequestMoreHashes(a, first.task)
                                         ELSE SessionTimedOut(a, first.session)
    BY <1>7 DEF RunPosted, Set
  <2> HIDE DEF m, n, a, first
  <2> QED BY <1>0, <2>1, RunPostedOK
<1>8. ASSUME KillTimer PROVE Fine(scope, n, 0)
  <2>1. m.killing /\ n = KillSessions(m)
    BY <1>8 DEF KillTimer, Set
  <2> HIDE DEF m, n
  <2> QED BY <1>0, <2>1, KillSessionsOK
<1>9. ASSUME GenerationTimer PROVE Fine(scope, n, 0)
  <2>1. n = ResetGeneration(m)
    BY <1>9 DEF GenerationTimer, Set
  <2> HIDE DEF m, n
  <2> QED BY <1>0, <2>1, ResetGenerationOK
<1>10. ASSUME UNCHANGED vars PROVE Fine(scope, n, 0)
  BY <1>10 DEF vars
<1> QED BY <1>1, <1>2, <1>3, <1>4, <1>5, <1>6, <1>7, <1>8, <1>9, <1>10 DEF Next, Step

LEMMA SpoiledStays == [Next]_vars /\ Unspoiled' => Unspoiled
<1> SUFFICES ASSUME [Next]_vars PROVE spoiled \subseteq spoiled'
  BY DEF Unspoiled
<1>1. ASSUME NEW t \in Tasks, NEW r \in Waiting(t), Answered(t, r) PROVE spoiled \subseteq spoiled'
  BY <1>1 DEF Answered, PartLoaded, Redirected, CdnPartLoaded, ReuploadDone, ReuploadNeeded,
     GetCdnFileHashesDone, TokenRefused, PartFailed, ReferenceExpired, Become
<1>2. ASSUME NEW t \in Streams, Reader(t) PROVE spoiled' = spoiled
  BY <1>2 DEF Reader, Load, CancelLoad, SetPriority, TryRemoveFromQueue, ResetPriorities, Close,
     Call, Set
<1>3. ASSUME NEW t \in Tasks, NEW renewed, ReferenceCame(t, renewed) PROVE spoiled' = spoiled
  BY <1>3 DEF ReferenceCame, Become
<1>4. ASSUME NEW t \in Files, NEW partial, Cancel(t) \/ Start(t, partial) PROVE spoiled' = spoiled
  BY <1>4 DEF Cancel, Start, Call, Set
<1>5. ASSUME NEW i, RestartsByTimeout(i) PROVE spoiled' = spoiled
  BY <1>5 DEF RestartsByTimeout, Become
<1>6. ASSUME RunPosted \/ KillTimer \/ GenerationTimer PROVE spoiled' = spoiled
  BY <1>6 DEF RunPosted, KillTimer, GenerationTimer, Set
<1> QED BY <1>1, <1>2, <1>3, <1>4, <1>5, <1>6 DEF Next, Step, vars

-----------------------------------------------------------------------------
(* What holds of the tasks, whatever the sessions do.                        *)

TasksOK == Fine("tasks", manager, 0)

THEOREM TasksInvariance == Spec => [](Unspoiled => TasksOK)
<1>1. Init => TasksOK
  BY InitOK DEF TasksOK
<1>2. TasksOK /\ [Next]_vars /\ Unspoiled' => TasksOK'
  <2> DEFINE scope == "tasks"
  <2>1. scope = "all" => Roomy
    OBVIOUS
  <2> HIDE DEF scope
  <2>2. Fine(scope, manager, 0) /\ [Next]_vars /\ Unspoiled' => Fine(scope, manager', 0)
    BY <2>1, NextOK
  <2> QED BY <2>2 DEF scope, TasksOK
<1> QED BY <1>1, <1>2, SpoiledStays, PTL DEF Spec

LEMMA ComingIs ==
    ASSUME TasksOK, NEW t \in Tasks
    PROVE  /\ RequestsOK(manager.task[t])
           /\ t \in Files => FileOK(manager.task[t], {})
           /\ t \in Streams => StreamOK(manager.task[t], {})
           /\ manager.task[t].status = "loading" =>
                 Coming(t) = Queried(manager.task[t]) \union Taken(manager.task[t])
<1> DEFINE k == manager.task[t]
           asked == AsksHashes(k) \/ HashesCall(t) \in ToSet(manager.posted)
<1>1. TaskOK(manager, t, {}, {})
  BY DEF TasksOK, Fine
<1>2. Coming(t) = Queried(k) \union Offsets(k) \union (IF asked THEN Held(k) ELSE {})
  BY DEF Coming, Queried, Held
<1>3. k.status = "loading" /\ Held(k) # {} => asked
  BY <1>1 DEF TaskOK, AsksFor
<1> HIDE DEF asked, k
<1>4. k.status = "loading" => Coming(t) = Queried(k) \union Taken(k)
  BY <1>2, <1>3 DEF Taken
<1> QED BY <1>1, <1>4 DEF TaskOK, k

\* As long as no token is refused while parts are held back for their hashes: no
\* part is lost or loaded twice, through redirects to a CDN and back, parts
\* held back until hashes come, requests cancelled or sent again, and sessions
\* taken away: those a file has taken are in the file or on their way, and those
\* a reader waits for are on their way.
THEOREM NoPartIsLost == Spec => [](Unspoiled => PartIsComing)
<1>1. TasksOK => PartIsComing
  <2> SUFFICES ASSUME TasksOK PROVE PartIsComing
    OBVIOUS
  <2>1. ASSUME NEW t \in Files, Live(t)
        PROVE  /\ 0 .. manager.task[t].next - 1 = Coming(t) \union manager.task[t].written
               /\ Coming(t) \intersect manager.task[t].written = {}
    <3> DEFINE k == manager.task[t]
    <3>1. k.status = "loading" /\ FileOK(k, {}) /\ Coming(t) = Queried(k) \union Taken(k)
      BY <2>1, ComingIs DEF Live, Tasks
    <3> HIDE DEF k
    <3>2. Queried(k) = {}
      BY <3>1 DEF FileOK, Queried
    <3>3. 0 .. k.next - 1 = Coming(t) \union k.written /\ Coming(t) \intersect k.written = {}
      BY <3>1, <3>2 DEF FileOK
    <3> QED BY <3>3 DEF k
  <2>2. ASSUME NEW t \in Streams PROVE manager.task[t].wanted \subseteq Coming(t)
    <3> DEFINE k == manager.task[t]
    <3>1. StreamOK(k, {}) /\ (k.status = "loading" => Coming(t) = Queried(k) \union Taken(k))
      BY ComingIs DEF Tasks
    <3> HIDE DEF k
    <3>2. k.wanted \subseteq Coming(t)
      BY <3>1 DEF StreamOK
    <3> QED BY <3>2 DEF k
  <2> QED BY <2>1, <2>2 DEF PartIsComing
<1> QED BY <1>1, TasksInvariance, PTL

\* A file that is done has all its parts.
Whole == \A t \in Files : manager.task[t].status = "done" => manager.task[t].written = Parts

\* As long as no token is refused while parts are held back, the file that
\* mtpFileLoader finishes, from whichever event, has all its parts.
THEOREM DoneIsWhole == Spec => [](Unspoiled => Whole)
<1>1. TasksOK => Whole
  BY ComingIs DEF Whole, FileOK, Tasks
<1> QED BY <1>1, TasksInvariance, PTL

\* One request is made for an offset at a time, and hashes are asked for once, for
\* a part that is held back.
OneEach == \A t \in Tasks : RequestsOK(manager.task[t])

\* As long as no token is refused while parts are held back, _requestByOffset has one
\* request of each offset, and none but that of hashes for a part that is held back,
\* whatever is cancelled, redirected to another session or the CDN, or sent again
\* with a new file reference.
THEOREM OneRequestEach == Spec => [](Unspoiled => OneEach)
<1>1. TasksOK => OneEach
  BY ComingIs DEF OneEach
<1> QED BY <1>1, TasksInvariance, PTL

-----------------------------------------------------------------------------
(* What holds of the sessions as well, while there is room for what is sent. *)

AllOK == Fine("all", manager, 0)

THEOREM Invariance == Spec /\ []Roomy => [](Unspoiled => AllOK)
<1>1. Init => AllOK
  BY InitOK DEF AllOK
<1>2. AllOK /\ Roomy /\ [Next]_vars /\ Unspoiled' => AllOK'
  <2> DEFINE scope == "all"
  <2>1. Fine(scope, manager, 0) /\ Roomy /\ [Next]_vars /\ Unspoiled'
            => Fine(scope, manager', 0)
    <3> HIDE DEF scope
    <3> QED BY NextOK
  <2> QED BY <2>1 DEF AllOK
<1> QED BY <1>1, <1>2, SpoiledStays, PTL DEF Spec

LEMMA BalanceHolds == AllOK => BalanceOK(manager, 0) /\ Shape(manager)
  BY DEF AllOK, Fine

LEMMA AllAdds ==
    ASSUME AllOK
    PROVE  AmountsAdd
<1>1. Adds(manager, 0) /\ Shape(manager)
  BY BalanceHolds DEF BalanceOK
<1>2. ASSUME NEW i \in DOMAIN manager.sessions
      PROVE  manager.sessions[i].requested = Cardinality(SentIn(manager, i))
  <2>1. i \in Nat
    BY <1>1, ShapeNumbers
  <2>2. Cardinality(SentIn(manager, i)) \in Nat
    BY <2>1, SentFinite
  <2>3. manager.sessions[i].requested =
            Cardinality(SentIn(manager, i)) + (IF i = Len(manager.sessions) THEN 0 ELSE 0)
    BY <1>1 DEF Adds
  <2> QED BY <2>2, <2>3
<1> QED BY <1>1, <1>2 DEF AmountsAdd, Adds

\* As long as no token is refused while parts are held back, what each session, and
\* the data centre, is taken to wait for is what was sent there and not answered.
THEOREM AmountsAddUp == Spec /\ []Roomy => [](Unspoiled => AmountsAdd)
<1>1. AllOK => AmountsAdd
  BY AllAdds
<1> QED BY <1>1, Invariance, PTL

\* As long as no token is refused while parts are held back, no Expects, Ensures or
\* Assert of the manager and its tasks fails: what was sent in a session that goes is
\* sent in one that stays, nothing is on its way when idle sessions are stopped, and
\* one request is made for an offset at a time.  (Asserted is no stronger than that
\* here: nothing is spoiled.)
THEOREM NothingFails == Spec /\ []Roomy => [](Unspoiled => Asserted /\ ~manager.broken)
<1>1. AllOK => Asserted /\ ~manager.broken
  BY BalanceHolds DEF BalanceOK, Asserted
<1> QED BY <1>1, Invariance, PTL

LEMMA AlwaysRoomy ==
    ASSUME Cardinality(Tasks) * Size <= MaxWaited * MaxSessions
    PROVE  Roomy
<1> DEFINE S == Tasks \X Parts
<1>1. IsFiniteSet(Tasks) /\ Size \in Nat /\ Parts = 0 .. Size - 1
  BY Constants
<1>2. IsFiniteSet(Parts) /\ Cardinality(Parts) = Size
  BY <1>1, FS_Interval
<1>3. IsFiniteSet(S) /\ Cardinality(S) = Cardinality(Tasks) * Size
  BY <1>1, <1>2, FS_Product
<1>4. Sent(manager) \in SUBSET S
  BY DEF Sent
<1> HIDE DEF S
<1>5. Cardinality(Sent(manager)) <= Cardinality(S) /\ IsFiniteSet(Sent(manager))
  BY <1>3, <1>4, FS_Subset
<1>6. Cardinality(Tasks) \in Nat /\ Cardinality(S) \in Nat /\ Cardinality(Sent(manager)) \in Nat
  BY <1>1, <1>3, <1>5, FS_CardinalityType
<1> DEFINE most == MaxWaited * MaxSessions
           all == Cardinality(Tasks) * Size
<1>7. most \in Nat /\ all \in Nat /\ all <= most /\ Cardinality(S) = all
  BY <1>1, <1>3, <1>6, Constants
<1> HIDE DEF most, all
<1>8. Cardinality(Sent(manager)) <= most
  BY <1>5, <1>6, <1>7
<1> QED BY <1>8 DEF Roomy, most

\* With no more parts in all than the sessions may hold there always is room: the
\* amounts add up and nothing fails as long as no token is refused while parts are
\* held back, and no condition on the behaviour remains but that one.
THEOREM FewParts ==
    ASSUME Cardinality(Tasks) * Size <= MaxWaited * MaxSessions
    PROVE  Spec => [](Unspoiled => AmountsAdd /\ Asserted /\ ~manager.broken)
<1>1. Roomy
  BY AlwaysRoomy
<1> QED BY <1>1, AmountsAddUp, NothingFails, PTL
=============================================================================
