---------------------- MODULE DownloadsWaiting_proofs ----------------------
(***************************************************************************)
(* Proof that no download is left waiting as long as no token is refused   *)
(* while parts are held back: once nothing is awaited or posted and the    *)
(* readers are gone, every file that was started has ended.                *)
(***************************************************************************)
EXTENDS Downloads_proofs

-----------------------------------------------------------------------------
(* What a task waits for, and who sends what it may ask for.                 *)

\* What a task is in the queue for.  A file that is loading has something to
\* load or to wait for, and nothing it has sent is left without an answer.
Promises(u, k, queued) ==
    /\ k.status = "closed" => ~queued
    /\ u \in Streams => /\ k.status \in {"loading", "failed", "closed"}
                        /\ k.status = "closed" => Taken(k) = {}
    /\ u \in Files /\ k.status = "loading" =>
          /\ queued /\ k.written # Parts
          /\ Awaiting(k) \subseteq {"server"} \union (IF k.renewing THEN {"reference"} ELSE {})

Willing(m, u) == Promises(u, m.task[u], Queued(m, u))

\* All tasks but those that are handled.
EagerBut(m, S) == Neat(m.queue) /\ \A u \in Tasks \ S : Willing(m, u)

Eager(m) == EagerBut(m, {})

\* A file that could ask for a part is not left out, or something else is to come
\* that sends what there is room for.
NotLeft(m) ==
    \/ Cardinality(Files) >= StartWaited
    \/ \E u \in Streams : m.task[u].status # "closed"
    \/ \A u \in Files : ~ReadyToRequest(m, u)
    \/ \E u \in Files : AsksParts(m.task[u])

Sound(m) == Fine("all", m, 0)

\* What the manager is between two steps.
Going(m) == Sound(m) /\ Eager(m) /\ NotLeft(m)

LEMMA SoundIs ==
    ASSUME NEW m, Sound(m)
    PROVE  /\ Shape(m) /\ BalanceOK(m, 0) /\ Fine("all", m, 0) /\ m.queue \in Seq(EntryType)
           /\ \A u \in Tasks : TaskOK(m, u, {}, {}) /\ TaskShape(m.task[u])
  BY DEF Sound, Fine, Shape

\* So much is sent that not every file can be waiting for hashes alone.
LEMMA EnoughSent ==
    ASSUME NEW m, Sound(m), Eager(m), Cardinality(Sent(m)) >= StartWaited
    PROVE  NotLeft(m)
<1> SUFFICES ASSUME \A u \in Streams : m.task[u].status = "closed",
                    \A u \in Files : ~AsksParts(m.task[u])
             PROVE  Cardinality(Files) >= StartWaited
  BY DEF NotLeft
<1>1. \A p \in Sent(m) : p = <<p[1], p[2]>> /\ p[1] \in Tasks /\ p[2] \in Offsets(m.task[p[1]])
  BY DEF Sent
<1>2. ASSUME NEW p \in Sent(m) PROVE p[1] \in Files
  <2>1. p[1] \in Tasks /\ Taken(m.task[p[1]]) # {}
    BY <1>1 DEF Taken
  <2>2. ASSUME p[1] \in Streams PROVE FALSE
    <3>1. Willing(m, p[1])
      BY <2>1 DEF Eager, EagerBut
    <3> QED BY <2>1, <2>2, <3>1 DEF Willing, Promises
  <2> QED BY <2>1, <2>2 DEF Tasks
<1>3. ASSUME NEW p \in Sent(m), NEW e \in Sent(m), p[1] = e[1] PROVE p = e
  <2> DEFINE k == m.task[p[1]]
  <2>1. PICK r \in ToSet(k.sent) : r.offset = p[2]
    BY <1>1 DEF Offsets
  <2>2. PICK s \in ToSet(k.sent) : s.offset = e[2]
    BY <1>1, <1>3 DEF Offsets
  <2>3. r.kind = "hashes" /\ s.kind = "hashes"
    BY <1>2, <2>1, <2>2 DEF AsksParts
  <2>4. RequestsOK(k)
    BY <1>1, SoundIs DEF TaskOK
  <2>5. p[2] = e[2]
    <3> HIDE DEF k
    <3> QED BY <2>1, <2>2, <2>3, <2>4 DEF RequestsOK
  <2> QED BY <1>1, <1>3, <2>5
<1> DEFINE S == Sent(m)
           f == [p \in S |-> p[1]]
<1>4. f \in Injection(S, Files)
  <2>1. f \in [S -> Files]
    BY <1>2
  <2>2. \A a, b \in S : f[a] = f[b] => a = b
    BY <1>3
  <2> HIDE DEF f, S
  <2> QED BY <2>1, <2>2 DEF Injection, IsInjective
<1>5. IsFiniteSet(Files) /\ Cardinality(Files) \in Nat
  BY Constants, FS_Subset, FS_CardinalityType
<1>6. Cardinality(S) <= Cardinality(Files)
  <2> HIDE DEF f, S
  <2> QED BY <1>4, <1>5, FS_Injection
<1>7. Cardinality(S) \in Nat
  BY SentFinite
<1> QED BY <1>5, <1>6, <1>7, Constants

\* The sessions are full, or no file has a part to load.
LEMMA StuckLeaves ==
    ASSUME NEW m, Sound(m), Eager(m), Stuck(m)
    PROVE  NotLeft(m)
<1> DEFINE i == Best(m)
           next == IF m.queue = <<>> THEN {} ELSE NextTasks(m, m.balance.total > 0)
<1>0. Shape(m) /\ BalanceOK(m, 0) /\ m.queue \in Seq(EntryType)
  BY SoundIs
<1>1. CASE m.sessions[i].requested + 1 > m.sessions[i].max
  <2>1. i \in DOMAIN m.sessions /\ i \in Nat
    <3>1. i = Best(m)
      OBVIOUS
    <3> HIDE DEF i
    <3>2. i \in DOMAIN m.sessions
      BY <1>0, <3>1, BestIs
    <3> QED BY <1>0, <3>2, ShapeNumbers
  <2> HIDE DEF i
  <2>2. m.sessions[i].requested = Cardinality(SentIn(m, i))
    <3>1. m.sessions[i].requested =
              Cardinality(SentIn(m, i)) + (IF i = Len(m.sessions) THEN 0 ELSE 0)
      BY <1>0, <2>1 DEF BalanceOK, Adds
    <3> QED BY <3>1, SentFinite
  <2>3. m.sessions[i].max >= StartWaited /\ m.sessions[i].max \in Int
    <3>1. m.sessions \in Seq(SessionType)
      BY <1>0 DEF Shape
    <3>2. m.sessions[i] \in SessionType
      BY <2>1, <3>1
    <3> QED BY <3>2 DEF SessionType
  <2>4. Cardinality(SentIn(m, i)) <= Cardinality(Sent(m))
    <3>1. SentIn(m, i) \subseteq Sent(m)
      BY DEF SentIn, Sent, Offsets
    <3> QED BY <3>1, SentFinite, FS_Subset
  <2>5. Cardinality(Sent(m)) \in Nat /\ Cardinality(SentIn(m, i)) \in Nat
    BY SentFinite
  <2>6. Cardinality(Sent(m)) >= StartWaited
    BY <1>1, <2>2, <2>3, <2>4, <2>5, Constants
  <2> QED BY <2>6, EnoughSent
<1>2. CASE next = {}
  <2> SUFFICES ASSUME \A u \in Streams : m.task[u].status = "closed",
                      NEW u \in Files, ReadyToRequest(m, u)
               PROVE  FALSE
    BY DEF NotLeft
  <2>1. \A v \in Tasks : Willing(m, v)
    BY DEF Eager, EagerBut
  <2>2. m.task[u].status = "loading"
    BY DEF ReadyToRequest
  <2>3. Queued(m, u)
    BY <2>1, <2>2 DEF Willing, Promises, Tasks
  <2>4. PICK j \in DOMAIN m.queue : m.queue[j].task = u
    BY <2>3 DEF Queued
  <2>5. /\ DOMAIN m.queue = 1 .. Len(m.queue) /\ Len(m.queue) \in Nat
        /\ \A l \in DOMAIN m.queue : m.queue[l].task \in Tasks /\ m.queue[l].priority \in Int
    BY <1>0, EntriesAre
  <2>6. 1 \in DOMAIN m.queue /\ m.queue # <<>>
    BY <2>4, <2>5
  <2>7. m.queue[1].task \in Files
    <3> SUFFICES ASSUME m.queue[1].task \notin Files PROVE FALSE
      OBVIOUS
    <3>1. m.queue[1].task \in Streams /\ m.queue[1].task \in Tasks
      BY <2>5, <2>6 DEF Tasks
    <3>2. Queued(m, m.queue[1].task)
      BY <2>6 DEF Queued
    <3> QED BY <2>1, <3>1, <3>2 DEF Willing, Promises
  <2>8. m.queue[1].priority <= 0 /\ m.queue[1].priority \in Int
    BY <2>5, <2>6, <2>7 DEF Eager, EagerBut, Neat
  <2>9. j \in NextTasks(m, m.balance.total > 0)
    BY <2>4, <2>8 DEF NextTasks
  <2> QED BY <1>2, <2>6, <2>9
<1>3. m.sessions[i].requested + 1 > m.sessions[i].max \/ next = {}
  BY DEF Stuck
<1> QED BY <1>1, <1>2, <1>3

LEMMA QueuedSame ==
    ASSUME NEW m, NEW n, n.queue = m.queue
    PROVE  \A u : Queued(n, u) = Queued(m, u)
  BY DEF Queued

LEMMA WillingSame ==
    ASSUME NEW m, NEW n, NEW u, n.queue = m.queue, n.task[u] = m.task[u], Willing(m, u)
    PROVE  Willing(n, u)
<1>1. Queued(n, u) = Queued(m, u)
  BY QueuedSame
<1> QED BY <1>1 DEF Willing

\* What t asks for besides is awaited from the server.
LEMMA WillingMore ==
    ASSUME NEW m, NEW n, NEW t, n.queue = m.queue, Willing(m, t),
           n.task[t].status = m.task[t].status, n.task[t].renewing = m.task[t].renewing,
           n.task[t].written = m.task[t].written,
           Awaiting(n.task[t]) \subseteq Awaiting(m.task[t]) \union {"server"},
           t \in Streams /\ m.task[t].status = "closed" => Taken(n.task[t]) = {}
    PROVE  Willing(n, t)
<1>1. Queued(n, t) = Queued(m, t)
  BY QueuedSame
<1> DEFINE k == m.task[t]
           l == n.task[t]
           queued == Queued(m, t)
<1>2. Promises(t, k, queued)
  BY DEF Willing
<1>3. /\ l.status = k.status /\ l.renewing = k.renewing /\ l.written = k.written
      /\ Awaiting(l) \subseteq Awaiting(k) \union {"server"}
      /\ t \in Streams /\ k.status = "closed" => Taken(l) = {}
  OBVIOUS
<1> HIDE DEF k, l, queued
<1>4. Promises(t, l, queued)
  BY <1>2, <1>3 DEF Promises
<1> QED BY <1>1, <1>4 DEF Willing, l, queued

\* A part that is asked for leaves every promise kept.
LEMMA LoadEager ==
    ASSUME NEW m, Sound(m), Eager(m), NEW t \in Tasks, NEW i, NEW n,
           MayLoad("all", m, 0, t, i, n)
    PROVE  Sound(n) /\ Eager(n) /\ n.balance.total = m.balance.total + 1
<1>1. Fine("all", n, 0) /\ Loads(m, n, t)
  BY LoadPartOK
<1>2. ReadyToRequest(m, t) /\ Queued(m, t) /\ Willing(m, t)
  BY DEF MayLoad, Eager, EagerBut
<1>3. ASSUME NEW u \in Tasks \ {t} PROVE Willing(n, u)
  BY <1>1, WillingSame DEF Eager, EagerBut, Loads
<1>4. m.task[t].status # "closed"
  BY <1>2 DEF Willing, Promises
<1>5. Willing(n, t)
  BY <1>1, <1>2, <1>4, WillingMore DEF Loads
<1> QED BY <1>1, <1>3, <1>5 DEF Sound, Eager, EagerBut, Loads

LEMMA TryEager ==
    ASSUME NEW m, Sound(m), Eager(m), NEW n, n = TrySendNextPart(m)
    PROVE  /\ Sound(n) /\ Eager(n)
           /\ (n = m /\ Stuck(m)) \/ n.balance.total = m.balance.total + 1
<1>1. \/ n = m /\ Stuck(m)
      \/ \E t \in Tasks, i \in Nat : MayLoad("all", m, 0, t, i, n)
  BY TrySendIs DEF Sound
<1> QED BY <1>1, LoadEager

LEMMA StuckStays ==
    ASSUME NEW m, Stuck(m)
    PROVE  TrySendNextPart(m) = m
  BY DEF Stuck, TrySendNextPart, Best

\* Whatever was handled before, checkSendNext leaves no file out.
LEMMA CheckSendGoing ==
    ASSUME NEW m, Sound(m), Eager(m), NEW n, n = CheckSendNext(m)
    PROVE  Going(n)
<1> DEFINE q == Tries
           hi == MaxSessions * MaxWaited
           total == m.balance.total
           a == <<total>>
           kind == "try"
<1>1. hi \in Nat /\ q = [i \in 1 .. hi |-> i]
  BY Constants DEF Tries
<1>2. Len(q) \in Nat /\ DOMAIN q = 1 .. Len(q) /\ Len(q) = hi /\ \A i \in 1 .. hi : q[i] = i
  <2> HIDE DEF hi, q
  <2>1. IsSeq(q) /\ Len(q) = hi
    <3>1. q \in Seq(Nat) /\ Len(q) = hi
      BY <1>1
    <3> QED BY <3>1 DEF IsSeq
  <2>2. Len(q) \in Nat /\ DOMAIN q = 1 .. Len(q)
    BY <2>1, SeqLen
  <2> QED BY <1>1, <2>1, <2>2
<1>3. PICK g, c : Goes(g, kind, a, q, m, c) /\ n = c
  BY <1>2, TryGoes
<1>4. kind = "try" /\ a[1] = total /\ total = Cardinality(Sent(m)) /\ total \in Nat
  BY SoundIs, SentFinite DEF BalanceOK, Adds
<1> HIDE DEF q, hi, a, kind, total
<1> DEFINE P == {k \in 0 .. Len(q) : /\ Sound(g[k]) /\ Eager(g[k])
                                     /\ g[k].balance.total >= total + k \/ Stuck(g[k])}
<1>5. 0 \in P
  BY <1>2, <1>3, <1>4 DEF Goes, total
<1>6. ASSUME NEW k \in 1 .. Len(q), k - 1 \in P PROVE k \in P
  <2> DEFINE d == g[k - 1]
             e == g[k]
  <2>1. e = IF d.balance.total < total + k - 1 THEN d ELSE TrySendNextPart(d)
    <3>1. k \in 1 .. hi /\ q[k] = k
      BY <1>2
    <3> QED BY <1>3, <1>4, <3>1 DEF Goes, Each, TrySend
  <2>2. Sound(d) /\ Eager(d) /\ (d.balance.total >= total + (k - 1) \/ Stuck(d))
    BY <1>6
  <2>3. d.balance.total \in Int
    <3> HIDE DEF d
    <3> QED BY <2>2, SoundIs, ShapeNumbers
  <2> HIDE DEF d, e, P
  <2>4. CASE Stuck(d)
    <3>1. e = d
      BY <2>1, <2>4, StuckStays
    <3> QED BY <1>2, <2>2, <2>4, <3>1 DEF P, e
  <2>5. CASE ~Stuck(d)
    <3>1. d.balance.total >= total + (k - 1) /\ k \in Nat /\ total \in Nat
      BY <1>2, <1>4, <2>2, <2>5
    <3>2. e = TrySendNextPart(d)
      BY <2>1, <2>3, <3>1
    <3>3. Sound(e) /\ Eager(e) /\ e.balance.total = d.balance.total + 1
      BY <2>2, <2>5, <3>2, TryEager
    <3>4. e.balance.total >= total + k
      BY <2>3, <3>1, <3>3
    <3> QED BY <1>2, <3>3, <3>4 DEF P, e
  <2> QED BY <2>4, <2>5
<1>7. Len(q) \in P
  <2> HIDE DEF P
  <2> QED BY <1>2, <1>5, <1>6, ByNumber
<1>8. Sound(n) /\ Eager(n) /\ (n.balance.total >= total + hi \/ Stuck(n))
  BY <1>2, <1>3, <1>7 DEF Goes
<1>9. hi >= StartWaited /\ StartWaited \in Nat
  <2>1. MaxSessions \in Nat \ {0} /\ MaxWaited \in Nat /\ StartWaited <= MaxWaited /\ StartWaited \in Nat
    BY Constants, DownloadsAssumption
  <2>2. MaxWaited <= MaxSessions * MaxWaited
    BY <2>1
  <2>3. MaxSessions * MaxWaited \in Nat
    BY <2>1
  <2> QED BY <2>1, <2>2, <2>3 DEF hi
<1>10. CASE Stuck(n)
  BY <1>8, <1>10, StuckLeaves DEF Going
<1>11. CASE n.balance.total >= total + hi
  <2>1. n.balance.total = Cardinality(Sent(n)) /\ Cardinality(Sent(n)) \in Nat
    BY <1>8, SoundIs, SentFinite DEF BalanceOK, Adds
  <2>2. Cardinality(Sent(n)) >= StartWaited
    BY <1>1, <1>4, <1>9, <1>11, <2>1
  <2> QED BY <1>8, <2>2, EnoughSent DEF Going
<1> QED BY <1>8, <1>10, <1>11

-----------------------------------------------------------------------------
(* What keeps the promises.                                                  *)

LEMMA PromisesAs ==
    ASSUME NEW u, NEW k, NEW a \in BOOLEAN, NEW b \in BOOLEAN, a <=> b, Promises(u, k, a)
    PROVE  Promises(u, k, b)
<1>1. a = b
  OBVIOUS
<1> QED BY <1>1

\* t is another, and the queue the same but for t.
LEMMA EagerQueue ==
    ASSUME NEW m, NEW t \in Tasks, EagerBut(m, {t}), NEW n,
           \A u \in Tasks \ {t} : n.task[u] = m.task[u],
           \A u \in Tasks \ {t} : InQueue(n.queue, u) <=> InQueue(m.queue, u),
           Neat(n.queue), Promises(t, n.task[t], InQueue(n.queue, t))
    PROVE  Eager(n)
<1>1. ASSUME NEW u \in Tasks \ {t} PROVE Willing(n, u)
  <2> DEFINE k == m.task[u]
             a == InQueue(m.queue, u)
             b == InQueue(n.queue, u)
  <2>1. Promises(u, k, a)
    BY DEF EagerBut, Willing, Queued, InQueue
  <2>2. (a <=> b) /\ a \in BOOLEAN /\ b \in BOOLEAN
    BY DEF InQueue
  <2> HIDE DEF a, b, k
  <2>3. Promises(u, k, b)
    BY <2>1, <2>2, PromisesAs
  <2> QED BY <2>3 DEF k, b, Willing, Queued, InQueue
<1>2. Willing(n, t)
  BY DEF Willing, Queued, InQueue
<1> QED BY <1>1, <1>2 DEF Eager, EagerBut

LEMMA EagerButSame ==
    ASSUME NEW m, NEW t, EagerBut(m, {t}), NEW n, n.queue = m.queue,
           \A u \in Tasks \ {t} : n.task[u] = m.task[u]
    PROVE  EagerBut(n, {t})
  BY WillingSame DEF EagerBut

LEMMA EagerOne ==
    ASSUME NEW m, Eager(m), NEW t \in Tasks
    PROVE  EagerBut(m, {t}) /\ Willing(m, t)
  BY DEF Eager, EagerBut

LEMMA EagerAll ==
    ASSUME NEW m, NEW t \in Tasks, EagerBut(m, {t}), Willing(m, t)
    PROVE  Eager(m)
  BY DEF Eager, EagerBut

LEMMA EagerNear ==
    ASSUME NEW m, NEW n, NEW t \in Tasks, Eager(m), Near(m, n, t),
           t \in Streams /\ m.task[t].status = "closed" => Taken(n.task[t]) = {}
    PROVE  Eager(n)
<1>1. EagerBut(m, {t}) /\ Willing(m, t)
  BY EagerOne
<1>2. EagerBut(n, {t})
  BY <1>1, EagerButSame DEF Near
<1>3. Willing(n, t)
  BY <1>1, WillingMore DEF Near
<1> QED BY <1>2, <1>3, EagerAll

\* A file asks for a part, or a stream is open.
LEMMA NotLeftBy ==
    ASSUME NEW m, NEW t \in Tasks,
           t \in Files => AsksParts(m.task[t]), t \in Streams => m.task[t].status # "closed"
    PROVE  NotLeft(m)
  BY DEF NotLeft, Tasks

\* No file becomes ready, and whoever asked for parts does.
LEMMA NotLeftKept ==
    ASSUME NEW m, NEW n, NotLeft(m),
           \A u \in Tasks : n.task[u].status = m.task[u].status /\ n.task[u].next = m.task[u].next,
           \A u \in Files : AsksParts(m.task[u]) => AsksParts(n.task[u])
    PROVE  NotLeft(n)
<1>1. CASE \E u \in Streams : m.task[u].status # "closed"
  BY <1>1 DEF NotLeft, Tasks
<1>2. CASE \A u \in Files : ~ReadyToRequest(m, u)
  BY <1>2 DEF NotLeft, ReadyToRequest, Tasks
<1> QED BY <1>1, <1>2 DEF NotLeft

LEMMA NotLeftNear ==
    ASSUME NEW m, NEW n, NEW t \in Tasks, NotLeft(m), Near(m, n, t),
           AsksParts(m.task[t]) => AsksParts(n.task[t])
    PROVE  NotLeft(n)
<1>1. \A u \in Tasks : n.task[u].status = m.task[u].status /\ n.task[u].next = m.task[u].next
  BY DEF Near
<1>2. \A u \in Files : AsksParts(m.task[u]) => AsksParts(n.task[u])
  BY DEF Near, Tasks
<1> QED BY <1>1, <1>2, NotLeftKept

-----------------------------------------------------------------------------
(* Tasks that come and go.                                                   *)

LEMMA RemoveGoing ==
    ASSUME NEW m, Sound(m), NEW t \in Tasks, EagerBut(m, {t}), Promises(t, m.task[t], FALSE),
           Taken(m.task[t]) = {}, NEW n, n = RemoveFromQueue(m, t)
    PROVE  Going(n)
<1> DEFINE p == WithoutTask(m.queue, t)
           d == [m EXCEPT !.queue = p]
<1>1. n = CheckSendNext(d)
  BY DEF RemoveFromQueue
<1>2. /\ p = WithoutTask(m.queue, t) /\ d = [m EXCEPT !.queue = p] /\ m.queue \in Seq(EntryType)
      /\ Fine("all", m, 0) /\ IsManager(m)
  BY SoundIs DEF Shape
<1> HIDE DEF d, p
<1>3. d.queue = p /\ d.task = m.task
  BY <1>2 DEF IsManager
<1>4. /\ Reordered(m.queue, p, t) /\ Neat(p) /\ ~InQueue(p, t)
      /\ \A u : InQueue(p, u) => InQueue(m.queue, u)
  BY <1>2, WithoutTaskIs DEF EagerBut
<1>5. Sound(d)
  BY <1>2, <1>4, ReorderedOK DEF Sound
<1>6. Promises(t, m.task[t], InQueue(p, t))
  <2> DEFINE k == m.task[t]
             a == InQueue(p, t)
  <2>1. Promises(t, k, FALSE) /\ a \in BOOLEAN /\ (FALSE <=> a)
    BY <1>4 DEF InQueue
  <2> HIDE DEF k, a
  <2>2. Promises(t, k, a)
    BY <2>1, PromisesAs
  <2> QED BY <2>2 DEF k, a
<1>7. Eager(d)
  BY <1>3, <1>4, <1>6, EagerQueue DEF Reordered
<1> QED BY <1>1, <1>5, <1>7, CheckSendGoing

LEMMA EnqueueGoing ==
    ASSUME NEW m, Sound(m), NEW t \in Tasks, EagerBut(m, {t}), Promises(t, m.task[t], TRUE),
           NEW priority \in Int, t \in Files => priority <= 0,
           NEW n, n = Enqueue(m, t, priority)
    PROVE  Going(n)
<1> DEFINE p == QueueEnqueue(m.queue, t, priority)
           d == [m EXCEPT !.queue = p, !.resetting = TRUE]
<1>1. n = CheckSendNext(d)
  BY DEF Enqueue
<1>2. /\ p = QueueEnqueue(m.queue, t, priority) /\ m.queue \in Seq(EntryType)
      /\ d = [m EXCEPT !.queue = p, !.resetting = TRUE]
      /\ Fine("all", m, 0) /\ IsManager(m)
  BY SoundIs DEF Shape
<1> HIDE DEF d, p
<1>3. d.queue = p /\ d.task = m.task
  BY <1>2 DEF IsManager
<1>4. /\ Reordered(m.queue, p, t) /\ InQueue(p, t) /\ Neat(p)
      /\ \A u : InQueue(p, u) => u = t \/ InQueue(m.queue, u)
  BY <1>2, QueueEnqueueIs DEF EagerBut
<1>5. Sound(d)
  BY <1>2, <1>4, ReorderedOK DEF Sound
<1>6. Promises(t, m.task[t], InQueue(p, t))
  <2> DEFINE k == m.task[t]
             a == InQueue(p, t)
  <2>1. Promises(t, k, TRUE) /\ a \in BOOLEAN /\ (TRUE <=> a)
    BY <1>4 DEF InQueue
  <2> HIDE DEF k, a
  <2>2. Promises(t, k, a)
    BY <2>1, PromisesAs
  <2> QED BY <2>2 DEF k, a
<1>7. Eager(d)
  BY <1>3, <1>4, <1>6, EagerQueue DEF Reordered
<1> QED BY <1>1, <1>5, <1>7, CheckSendGoing

LEMMA DestroyGoing ==
    ASSUME NEW m, NEW t \in Tasks, NEW G, NEW due, Good("all", m, 0, t, G, due), EagerBut(m, {t}),
           NEW status, MayDestroy(m, t, status), t \in Streams => status = "closed",
           NEW n, n = Destroy(m, t, status)
    PROVE  Going(n)
<1>1. PICK d : Ends("all", m, 0, t, status, d) /\ n = RemoveFromQueue(d, t)
  BY DestroyIs
<1>2. Sound(d) /\ Taken(d.task[t]) = {} /\ EagerBut(d, {t}) /\ d.task[t].status = status
  BY <1>1, EagerButSame DEF Ends, Sound
<1>3. Promises(t, d.task[t], FALSE)
  BY <1>2 DEF MayDestroy, Promises
<1> QED BY <1>1, <1>2, <1>3, RemoveGoing

LEMMA FailGoing ==
    ASSUME NEW m, NEW t \in Tasks, NEW G, NEW due, NEW n,
           MayFail("all", m, 0, t, G, due, n), EagerBut(m, {t})
    PROVE  Going(n)
<1>1. Good("all", m, 0, t, G, due) /\ n = CancelOnFail(m, t)
  BY DEF MayFail
<1>2. CASE t \in Files
  <2>1. n = Destroy(m, t, "failed") /\ MayDestroy(m, t, "failed") /\ t \notin Streams
    BY <1>1, <1>2, Constants DEF CancelOnFail, MayDestroy
  <2> QED BY <1>1, <2>1, DestroyGoing
<1>3. CASE t \notin Files
  <2>1. IsManager(m) /\ m.task = [u \in Tasks |-> m.task[u]] /\ IsTask(m.task[t])
    <3>1. Shape(m) /\ TaskShape(m.task[t])
      BY <1>1, PartsOf
    <3> QED BY <3>1, RecordOf DEF Shape
  <2>2. n = [m EXCEPT !.task[t].status = "failed", !.task[t].wanted = {}]
    BY <1>1, <1>3 DEF CancelOnFail
  <2>3. /\ n.queue = m.queue /\ n.task[t].status = "failed"
        /\ \A u \in Tasks \ {t} : n.task[u] = m.task[u]
    BY <2>1, <2>2 DEF IsManager, IsTask
  <2>4. EagerBut(n, {t})
    BY <2>3, EagerButSame
  <2>5. Willing(n, t)
    BY <1>3, <2>3 DEF Willing, Promises
  <2>6. NotLeft(n)
    BY <1>3, <2>3, NotLeftBy
  <2>7. Sound(n)
    BY CancelOnFailOK DEF Sound
  <2> QED BY <2>4, <2>5, <2>6, <2>7, EagerAll DEF Going
<1> QED BY <1>2, <1>3

-----------------------------------------------------------------------------
(* Parts that come.                                                          *)

LEMMA FeedsOn ==
    ASSUME NEW m, NEW t \in Tasks, NEW offset, NEW due, NEW n,
           MayFeed("all", m, 0, t, offset, due, n), Eager(m)
    PROVE  Eager(n) /\ (NotLeft(m) => NotLeft(n))
<1>1. PICK d : Good("all", d, 0, t, {}, due) /\ Feeds(m, d, t) /\ Fed(d, t, n)
  BY FeedPartIs
<1>2. EagerBut(m, {t}) /\ Willing(m, t)
  BY EagerOne
<1>3. EagerBut(d, {t})
  BY <1>1, <1>2, EagerButSame DEF Feeds
<1>4. CASE n = d /\ (t \in Files => HaveSentRequests(d.task[t]) \/ d.task[t].next < Size)
  <2> DEFINE k == m.task[t]
             l == d.task[t]
             a == Queued(m, t)
  <2>1. /\ l.status = k.status /\ l.renewing = k.renewing /\ l.sent = k.sent
        /\ Taken(l) = Taken(k) /\ Awaiting(l) = Awaiting(k)
    BY <1>1 DEF Feeds, Taken, Offsets, Awaiting
  <2>2. Promises(t, k, a) /\ Queued(d, t) = a
    BY <1>1, <1>2, QueuedSame DEF Willing, Feeds
  <2>3. PartsOK(t, l, {}) /\ TaskShape(l)
    BY <1>1, PartsOf
  <2>4. ASSUME t \in Files, l.status = "loading" PROVE l.written # Parts
    <3>1. /\ l.next \in 0 .. Size /\ 0 .. l.next - 1 = l.written \union Taken(l)
          /\ Taken(l) \intersect l.written = {}
      BY <2>3, <2>4 DEF PartsOK, FileOK
    <3>2. CASE HaveSentRequests(l)
      <4>1. IsSeq(l.sent)
        BY <2>3 DEF TaskShape
      <4>2. Taken(l) # {}
        <5>1. CASE Held(l) # {}
          BY <5>1 DEF Taken
        <5>2. CASE l.sent # <<>>
          <6> HIDE DEF l
          <6>1. ToSet(l.sent) # {}
            BY <4>1, <5>2, NoneIs
          <6> QED BY <6>1 DEF Taken, Offsets
        <5> QED BY <3>2, <5>1, <5>2 DEF HaveSentRequests, Held
      <4>3. Taken(l) \subseteq Parts
        BY <2>3 DEF TaskShape, IsRequest, Taken, Offsets, Held
      <4> QED BY <3>1, <4>2, <4>3
    <3>3. CASE l.next < Size
      <4>1. Size - 1 \in Parts /\ Size - 1 \notin 0 .. l.next - 1
        BY <3>1, <3>3, Constants
      <4> QED BY <3>1, <4>1
    <3> QED BY <1>4, <2>4, <3>2, <3>3
  <2> HIDE DEF k, l, a
  <2>5. Promises(t, l, a)
    BY <2>1, <2>2, <2>4 DEF Promises
  <2>6. Willing(d, t)
    BY <2>2, <2>5 DEF Willing, l
  <2>7. Eager(n)
    BY <1>3, <1>4, <2>6, EagerAll
  <2>8. NotLeft(m) => NotLeft(n)
    <3>1. \A u \in Tasks : n.task[u].status = m.task[u].status /\ n.task[u].next = m.task[u].next
      BY <1>1, <1>4 DEF Feeds
    <3>2. \A u \in Files : AsksParts(m.task[u]) => AsksParts(n.task[u])
      BY <1>1, <1>4 DEF Feeds, AsksParts, Tasks
    <3> QED BY <3>1, <3>2, NotLeftKept
  <2> QED BY <2>7, <2>8
<1>5. CASE t \in Files /\ MayDestroy(d, t, "done") /\ n = Destroy(d, t, "done")
  <2>1. t \notin Streams
    BY <1>5, Constants
  <2>2. Going(n)
    BY <1>1, <1>3, <1>5, <2>1, DestroyGoing
  <2> QED BY <2>2 DEF Going
<1> QED BY <1>1, <1>4, <1>5 DEF Fed

LEMMA FeedsOneOn ==
    ASSUME NEW d, NEW e, NEW t \in Tasks, NEW offset \in Held(d.task[t]), Eager(d),
           FeedsOne("all", 0, d, e, t, offset)
    PROVE  Eager(e) /\ (NotLeft(d) => NotLeft(e))
<1>1. PICK f : LetsGo(d, f, t, offset) /\ MayFeed("all", f, 0, t, offset, {t}, e)
  BY DEF FeedsOne
<1>2. Near(d, f, t) /\ f.task[t].sent = d.task[t].sent
  BY <1>1 DEF LetsGo
<1>3. ~(t \in Streams /\ d.task[t].status = "closed")
  BY EagerOne DEF Willing, Promises, Taken
<1>4. Eager(f)
  BY <1>2, <1>3, EagerNear
<1>5. NotLeft(d) => NotLeft(f)
  BY <1>2, NotLeftNear DEF AsksParts
<1> QED BY <1>1, <1>4, <1>5, FeedsOn

LEMMA FeedsCheckedOn ==
    ASSUME NEW m, NEW t \in Tasks, NEW good, good \subseteq Parts, Eager(m),
           Feeding("all", m, 0, t, good, 0), NEW n, n = FeedChecked(m, t, good)
    PROVE  Eager(n) /\ (NotLeft(m) => NotLeft(n))
<1> DEFINE q == InOrder
           a == <<t, good>>
           kind == "feed"
<1>1. /\ Len(q) = Size /\ DOMAIN q = 1 .. Len(q) /\ Size \in Nat
      /\ \A k \in 1 .. Size : q[k] = k - 1
  <2>1. Size \in Nat /\ q = [i \in 1 .. Size |-> i - 1]
    BY Constants DEF InOrder
  <2> HIDE DEF q
  <2>2. q \in Seq(Int)
    BY <2>1
  <2>3. DOMAIN q = 1 .. Size /\ \A k \in 1 .. Size : q[k] = k - 1
    BY <2>1
  <2>4. Len(q) \in Nat /\ DOMAIN q = 1 .. Len(q)
    BY <2>2
  <2>5. Len(q) = Size
    BY <2>1, <2>3, <2>4
  <2> QED BY <2>1, <2>3, <2>4, <2>5
<1>2. PICK g, c : Goes(g, kind, a, q, m, c) /\ n = c
  BY <1>1, FeedGoes
<1>3. kind = "feed" /\ a[1] = t /\ a[2] = good
  OBVIOUS
<1> HIDE DEF q, a, kind
<1> DEFINE P == {k \in 0 .. Len(q) : /\ Feeding("all", g[k], 0, t, good, k)
                                     /\ Eager(g[k]) /\ (NotLeft(m) => NotLeft(g[k]))}
<1>4. 0 \in P
  BY <1>1, <1>2 DEF Goes
<1>5. ASSUME NEW k \in 1 .. Len(q), k - 1 \in P PROVE k \in P
  <2> DEFINE d == g[k - 1]
             e == g[k]
             offset == k - 1
  <2>1. e = FeedOne(d, t, offset, good)
    BY <1>1, <1>2, <1>3 DEF Goes, Each
  <2>2. Feeding("all", d, 0, t, good, offset) /\ Eager(d) /\ (NotLeft(m) => NotLeft(d))
    BY <1>5
  <2>3. k = offset + 1 /\ offset \in Parts
    BY <1>1, Constants
  <2> HIDE DEF d, e, offset
  <2>4. /\ Feeding("all", e, 0, t, good, k)
        /\ e = d \/ (offset \in Held(d.task[t]) /\ FeedsOne("all", 0, d, e, t, offset))
    BY <2>1, <2>2, <2>3, FeedOneIs
  <2>5. Eager(e) /\ (NotLeft(d) => NotLeft(e))
    BY <2>2, <2>4, FeedsOneOn
  <2> QED BY <1>1, <2>2, <2>4, <2>5 DEF e
<1>6. Len(q) \in P
  <2> HIDE DEF P
  <2> QED BY <1>1, <1>4, <1>5, ByNumber
<1> QED BY <1>1, <1>2, <1>6 DEF Goes

LEMMA MoreHashesOn ==
    ASSUME NEW m, NEW n, NEW t \in Tasks, Eager(m), Beside(m, n, t), AsksMore(m, n, t)
    PROVE  Eager(n) /\ (NotLeft(m) => NotLeft(n))
<1>1. CASE Held(m.task[t]) = {}
  BY <1>1 DEF AsksMore
<1>2. CASE Held(m.task[t]) # {}
  <2>1. ~(t \in Streams /\ m.task[t].status = "closed")
    BY <1>2, EagerOne DEF Willing, Promises, Taken
  <2>2. Near(m, n, t)
    BY BesideNear
  <2>3. AsksParts(m.task[t]) => AsksParts(n.task[t])
    BY DEF AsksMore, AsksParts
  <2> QED BY <2>1, <2>2, <2>3, EagerNear, NotLeftNear
<1> QED BY <1>1, <1>2

LEMMA ChecksOn ==
    ASSUME NEW m, NEW t \in Tasks, NEW n, Eager(m), Checks("all", m, 0, t, n)
    PROVE  Eager(n) /\ (NotLeft(m) => NotLeft(n))
<1>1. PICK good, fed :
          /\ good \subseteq Parts /\ Feeding("all", m, 0, t, good, 0) /\ fed = FeedChecked(m, t, good)
          /\ \/ MayFail("all", fed, 0, t, {}, {t}, n)
             \/ n = fed
             \/ Beside(fed, n, t) /\ AsksMore(fed, n, t)
  BY DEF Checks
<1>2. Eager(fed) /\ (NotLeft(m) => NotLeft(fed))
  BY <1>1, FeedsCheckedOn
<1>3. CASE MayFail("all", fed, 0, t, {}, {t}, n)
  BY <1>2, <1>3, EagerOne, FailGoing DEF Going
<1>4. CASE n = fed
  BY <1>2, <1>4
<1>5. CASE Beside(fed, n, t) /\ AsksMore(fed, n, t)
  BY <1>2, <1>5, MoreHashesOn
<1> QED BY <1>1, <1>3, <1>4, <1>5

LEMMA TakesOn ==
    ASSUME NEW m, NEW t \in Tasks, NEW r, NEW n, Eager(m), Takes("all", m, 0, t, r, n),
           ~(t \in Streams /\ m.task[t].status = "closed")
    PROVE  Eager(n)
<1>1. CASE MayFeed("all", m, 0, t, r.offset, {}, n)
  BY <1>1, FeedsOn
<1>2. CASE MayFail("all", m, 0, t, {r.offset}, {}, n)
  BY <1>2, EagerOne, FailGoing DEF Going
<1>3. ASSUME NEW d, Near(m, d, t), Beside(d, n, t), AsksMore(d, n, t) PROVE Eager(n)
  BY <1>3, EagerNear, MoreHashesOn
<1> QED BY <1>1, <1>2, <1>3 DEF Takes

-----------------------------------------------------------------------------
(* Answers.                                                                  *)

\* A stream that is closed has sent nothing.
LEMMA NotClosed ==
    ASSUME NEW m, Eager(m), NEW t \in Tasks, NEW r \in ToSet(m.task[t].sent)
    PROVE  ~(t \in Streams /\ m.task[t].status = "closed")
<1>1. Taken(m.task[t]) # {}
  BY DEF Taken, Offsets
<1> QED BY <1>1, EagerOne DEF Willing, Promises

LEMMA AnswerEager ==
    ASSUME NEW m, Going(m), NEW t \in Tasks, NEW r \in ToSet(m.task[t].sent), r.kind # "hashes",
           NEW pace, NEW n, n = Answer(m, t, r, pace)
    PROVE  /\ Hand("all", n, 0, t, r) /\ KeepsAll(m.task[t], n.task[t]) /\ Eager(n)
           /\ ~(t \in Streams /\ n.task[t].status = "closed")
<1>1. Hand("all", n, 0, t, r) /\ KeepsAll(m.task[t], n.task[t]) /\ Near(m, n, t)
  BY AnswerHand DEF Going, Sound
<1>2. ~(t \in Streams /\ m.task[t].status = "closed")
  BY NotClosed DEF Going
<1> QED BY <1>1, <1>2, EagerNear DEF Going, KeepsAll

LEMMA PartLoadedGoing ==
    ASSUME NEW m, Going(m), NEW t \in Tasks, NEW r \in ToSet(m.task[t].sent),
           r.kind # "hashes", NEW pace,
           NEW n, n = CheckSendNext(FeedPart(Answer(m, t, r, pace), t, r.offset))
    PROVE  Going(n)
<1> DEFINE a == Answer(m, t, r, pace)
           f == FeedPart(a, t, r.offset)
<1>1. Hand("all", a, 0, t, r) /\ Eager(a)
  BY AnswerEager
<1>2. n = CheckSendNext(f) /\ f = FeedPart(a, t, r.offset)
  OBVIOUS
<1> HIDE DEF a, f
<1>3. MayFeed("all", a, 0, t, r.offset, {}, f) /\ KindsOK(a.task[t])
  BY <1>1, <1>2 DEF Hand, MayFeed
<1>4. Good("all", f, 0, t, {}, {}) /\ KindsKept(a, f, t)
  BY <1>3, FeedPartOK
<1>5. Sound(f)
  BY <1>3, <1>4, GoodFine DEF KindsKept, Sound
<1>6. Eager(f)
  BY <1>1, <1>3, FeedsOn
<1> QED BY <1>2, <1>5, <1>6, CheckSendGoing

LEMMA RedirectedGoing ==
    ASSUME NEW m, Going(m), NEW t \in Tasks, NEW r \in ToSet(m.task[t].sent),
           r.kind # "hashes", NEW pace, NEW hashes,
           NEW n, n = CheckSendNext(ChangeCDNParams(Answer(m, t, r, pace), t, r, TRUE, hashes))
    PROVE  Going(n)
<1> DEFINE a == Answer(m, t, r, pace)
           cdn == TRUE
           f == ChangeCDNParams(a, t, r, cdn, hashes)
<1>1. /\ Hand("all", a, 0, t, r) /\ Eager(a)
      /\ ~(t \in Streams /\ a.task[t].status = "closed")
  BY AnswerEager
<1>2. n = CheckSendNext(f) /\ f = ChangeCDNParams(a, t, r, cdn, hashes)
  OBVIOUS
<1> HIDE DEF a, f
<1>3. MayChange("all", a, 0, t, r, cdn)
  <2>1. a.task[t].cdn \in BOOLEAN
    BY <1>1, ShapeFields DEF Hand, Good, TaskShape
  <2>2. cdn # a.task[t].cdn => Held(a.task[t]) = {}
    BY <1>1, <2>1 DEF Hand, KindsOK
  <2> QED BY <1>1, <2>2 DEF Hand, MayChange
<1> HIDE DEF cdn
<1>4. Sound(f) /\ Near(a, f, t)
  BY <1>2, <1>3, ChangeCDNParamsOK DEF Sound
<1>5. Eager(f)
  BY <1>1, <1>4, EagerNear
<1> QED BY <1>2, <1>4, <1>5, CheckSendGoing

LEMMA CdnPartLoadedGoing ==
    ASSUME NEW m, Going(m), NEW t \in Tasks, NEW r \in ToSet(m.task[t].sent),
           r.kind = "cdn", NEW pace, NEW good,
           NEW n, n = CheckSendNext(CdnPart(Answer(m, t, r, pace), t, r, good))
    PROVE  Going(n)
<1> DEFINE a == Answer(m, t, r, pace)
           f == CdnPart(a, t, r, good)
<1>1. /\ Hand("all", a, 0, t, r) /\ KeepsAll(m.task[t], a.task[t]) /\ Eager(a)
      /\ ~(t \in Streams /\ a.task[t].status = "closed")
  <2>1. r.kind # "hashes"
    OBVIOUS
  <2> QED BY <2>1, AnswerEager
<1>2. n = CheckSendNext(f) /\ f = CdnPart(a, t, r, good)
  OBVIOUS
<1> HIDE DEF a, f
<1>3. m.task[t].cdn
  BY DEF Going, Sound, Fine, KindsOK
<1>4. MayHold("all", a, 0, t, r)
  BY <1>1, <1>3 DEF Hand, MayHold, KeepsAll
<1>5. Sound(f) /\ Takes("all", a, 0, t, r, f)
  BY <1>2, <1>4, CdnPartOK DEF Sound
<1>6. Eager(f)
  BY <1>1, <1>5, TakesOn
<1> QED BY <1>2, <1>5, <1>6, CheckSendGoing

\* r is finished, and what is made of it asks for a part.
LEMMA AskedGoing ==
    ASSUME NEW m, Going(m), NEW t \in Tasks, NEW r \in ToSet(m.task[t].sent),
           NEW n, Sound(n), Near(m, n, t), AsksParts(n.task[t])
    PROVE  Going(n)
<1>1. ~(t \in Streams /\ m.task[t].status = "closed")
  BY NotClosed DEF Going
<1>2. Eager(n)
  BY <1>1, EagerNear DEF Going
<1>3. NotLeft(n)
  BY <1>1, NotLeftBy DEF Near
<1> QED BY <1>2, <1>3 DEF Going

LEMMA ReuploadNeededGoing ==
    ASSUME NEW m, Going(m), NEW t \in Tasks, NEW r \in ToSet(m.task[t].sent), r.kind = "cdn",
           NEW n, n = PlaceSentRequest(FinishSentRequest(m, t, r), t, "reupload", r.offset, r.session)
    PROVE  Going(n)
<1> DEFINE a == FinishSentRequest(m, t, r)
           kind == "reupload"
           i == r.session
<1>1. Fine("all", m, 0) /\ Sound(n)
  BY ReuploadNeededOK DEF Going, Sound
<1>2. a = FinishSentRequest(m, t, r) /\ r.kind # "hashes" /\ n = PlaceSentRequest(a, t, kind, r.offset, i)
  OBVIOUS
<1> HIDE DEF a
<1>3. Hand("all", a, 0, t, r) /\ Beside(m, a, t)
  BY <1>1, <1>2, FinishHand
<1>4. Shape(a) /\ r.offset \in Parts /\ i \in Nat /\ kind # "hashes"
  BY <1>3 DEF Hand, Good
<1> HIDE DEF kind, i
<1>5. PICK e : e.kind = kind /\ Placed(a, n, t, e)
  BY <1>2, <1>4, PlaceIs
<1>6. AsksParts(n.task[t])
  <2>1. IsSeq(a.task[t].sent)
    BY <1>4, ShapeFields
  <2>2. ToSet(n.task[t].sent) = ToSet(a.task[t].sent) \union {e}
    BY <1>5, <2>1, AppendIs DEF Placed
  <2> QED BY <1>4, <1>5, <2>2 DEF AsksParts
<1>7. Near(m, n, t)
  BY <1>3, <1>5, BesideTwice, BesideNear DEF Placed
<1> QED BY <1>1, <1>6, <1>7, AskedGoing

LEMMA ReuploadDoneGoing ==
    ASSUME NEW m, Going(m), NEW t \in Tasks, NEW r \in ToSet(m.task[t].sent), r.kind # "hashes",
           NEW hashes,
           NEW n, n = MakeRequest(AddHashes(FinishSentRequest(m, t, r), t, hashes),
                                  t, r.offset, r.session)
    PROVE  Going(n)
<1> DEFINE a == FinishSentRequest(m, t, r)
           f == AddHashes(a, t, hashes)
           G == {r.offset}
           offset == r.offset
           i == r.session
<1>1. Fine("all", m, 0) /\ Sound(n)
  BY ReuploadDoneOK DEF Going, Sound
<1>2. /\ a = FinishSentRequest(m, t, r) /\ f = AddHashes(a, t, hashes)
      /\ n = MakeRequest(f, t, offset, i) /\ offset \in G /\ {} = G \ {offset}
  OBVIOUS
<1> HIDE DEF a, f
<1>3. Hand("all", a, 0, t, r) /\ Beside(m, a, t)
  BY <1>1, <1>2, FinishHand
<1>4. /\ Good("all", a, 0, t, G, {}) /\ offset \in Parts /\ i \in Nat
      /\ i \in DOMAIN a.sessions /\ Queued(a, t)
  BY <1>3 DEF Hand
<1> HIDE DEF G, offset, i
<1>5. Good("all", f, 0, t, G, {}) /\ AddHashesIs(a, f, t)
  BY <1>2, <1>4, AddHashesOK
<1>6. i \in DOMAIN f.sessions /\ Queued(f, t)
  BY <1>4, <1>5 DEF AddHashesIs, Puts, Queued
<1>7. MayMake("all", f, 0, t, G, {}, offset, i, {}, n)
  BY <1>2, <1>4, <1>5, <1>6 DEF MayMake
<1>8. Beside(f, n, t) /\ Made(f, n, t, KindOf(f.task[t]), offset, i)
  BY <1>7, MakeOK
<1>9. AsksParts(n.task[t])
  BY <1>8, MadeAsks
<1>10. Near(a, f, t)
  BY <1>5, NearPut DEF AddHashesIs, Similar, Puts
<1>11. Near(m, n, t)
  BY <1>3, <1>8, <1>10, BesideNear, NearTwice
<1> QED BY <1>1, <1>9, <1>11, AskedGoing

\* Only what room was made for is not sent: NotLeft says what else is to come.
LEMMA GetCdnFileHashesDoneGoing ==
    ASSUME NEW m, Going(m), NEW t \in Tasks, NEW r \in ToSet(m.task[t].sent),
           r.kind = "hashes", NEW hashes, NEW wrong,
           NEW n, n = CheckUnchecked(AddHashes(FinishSentRequest(m, t, r), t, hashes), t, wrong)
    PROVE  Going(n)
<1>0. Fine("all", m, 0)
  BY DEF Going, Sound
<1>1. Fine("all", n, 0) /\ BringsHashes("all", m, t, wrong, n)
  BY <1>0, GetCdnFileHashesDoneOK
<1>2. PICK f : /\ MayCheck("all", f, 0, t, wrong, n) /\ Near(m, f, t)
               /\ AsksParts(m.task[t]) => AsksParts(f.task[t])
  BY <1>1 DEF BringsHashes
<1>3. ~(t \in Streams /\ m.task[t].status = "closed")
  BY NotClosed DEF Going
<1>4. Eager(f) /\ NotLeft(f)
  BY <1>2, <1>3, EagerNear, NotLeftNear DEF Going
<1>5. Checks("all", f, 0, t, n)
  BY <1>2, CheckUncheckedOK
<1>6. Eager(n) /\ NotLeft(n)
  BY <1>4, <1>5, ChecksOn
<1> QED BY <1>1, <1>6 DEF Going, Sound

LEMMA TokenRefusedGoing ==
    ASSUME NEW m, Going(m), NEW t \in Tasks, NEW r \in ToSet(m.task[t].sent),
           Held(m.task[t]) = {}, NEW hashes,
           NEW n, n = ChangeCDNParams(FinishSentRequest(m, t, r), t, r, FALSE, hashes)
    PROVE  Going(n)
<1> DEFINE a == FinishSentRequest(m, t, r)
           cdn == FALSE
<1>1. Fine("all", m, 0)
  BY DEF Going, Sound
<1>2. a = FinishSentRequest(m, t, r) /\ n = ChangeCDNParams(a, t, r, cdn, hashes)
  OBVIOUS
<1>3. r.kind # "hashes"
  BY <1>1 DEF Fine, TaskOK, RequestsOK
<1> HIDE DEF a
<1>4. Hand("all", a, 0, t, r) /\ Beside(m, a, t)
  BY <1>1, <1>2, <1>3, FinishHand
<1>5. Held(a.task[t]) = {}
  BY <1>4 DEF Beside, KeepsAll, Held
<1>6. MayChange("all", a, 0, t, r, cdn)
  BY <1>4, <1>5 DEF Hand, MayChange
<1> HIDE DEF cdn
<1>7. Sound(n) /\ Near(a, n, t) /\ AsksParts(n.task[t])
  BY <1>2, <1>6, ChangeCDNParamsOK DEF Sound
<1>8. Near(m, n, t)
  BY <1>4, <1>7, BesideNear, NearTwice
<1> QED BY <1>7, <1>8, AskedGoing

LEMMA PartFailedGoing ==
    ASSUME NEW m, Going(m), NEW t \in Tasks, NEW r \in ToSet(m.task[t].sent),
           NEW n, n = CancelOnFail(Await(m, t, r, "nothing"), t)
    PROVE  Going(n)
<1> DEFINE what == "nothing"
           a == Await(m, t, r, what)
<1>1. a = Await(m, t, r, what) /\ n = CancelOnFail(a, t)
  OBVIOUS
<1>2. MayAwait("all", m, 0, t, r, what)
  BY DEF MayAwait, Going, Sound
<1> HIDE DEF a, what
<1>3. Fine("all", a, 0) /\ Awaited(m, a, t, what)
  BY <1>1, <1>2, AwaitOK
<1>4. MayFail("all", a, 0, t, {}, {}, n)
  BY <1>1, <1>3, FineGood DEF MayFail
<1>5. EagerBut(a, {t})
  BY <1>3, EagerOne, EagerButSame DEF Awaited, Going
<1> QED BY <1>4, <1>5, FailGoing

LEMMA ReferenceExpiredGoing ==
    ASSUME NEW m, Going(m), NEW t \in Tasks, NEW r \in ToSet(m.task[t].sent), r.kind = "part",
           NEW a, a = Await(m, t, r, "reference"), NEW n, n = [a EXCEPT !.task[t].renewing = TRUE]
    PROVE  Going(n)
<1> DEFINE what == "reference"
<1>2. MayAwait("all", m, 0, t, r, what)
  BY DEF MayAwait, Going, Sound
<1>3. Fine("all", a, 0) /\ Awaited(m, a, t, what)
  <2>1. a = Await(m, t, r, what)
    BY DEF what
  <2> HIDE DEF what
  <2> QED BY <1>2, <2>1, AwaitOK
<1>4. IsManager(a) /\ a.task = [u \in Tasks |-> a.task[u]] /\ IsTask(a.task[t])
  BY <1>3, FineTask
<1>5. /\ n.queue = a.queue /\ \A u \in Tasks \ {t} : n.task[u] = a.task[u]
      /\ n.task[t].status = a.task[t].status /\ n.task[t].next = a.task[t].next
      /\ n.task[t].written = a.task[t].written /\ n.task[t].sent = a.task[t].sent
      /\ n.task[t].renewing = TRUE
  BY <1>4 DEF IsManager, IsTask
<1>6. Sound(n)
  BY ReferenceExpiredOK DEF Going, Sound
<1>7. EagerBut(n, {t})
  <2>1. EagerBut(m, {t})
    BY EagerOne DEF Going
  <2>2. n.queue = m.queue /\ \A u \in Tasks \ {t} : n.task[u] = m.task[u]
    BY <1>3, <1>5 DEF Awaited
  <2> QED BY ONLY <2>1, <2>2, EagerButSame
<1>8. Willing(n, t)
  <2> DEFINE k == m.task[t]
             l == n.task[t]
             queued == Queued(m, t)
  <2>1. Promises(t, k, queued) /\ Queued(n, t) = queued
    <3>1. n.queue = m.queue /\ Willing(m, t)
      BY <1>3, <1>5, EagerOne DEF Awaited, Going
    <3> QED BY <3>1, QueuedSame DEF Willing
  <2>2. l.status = k.status /\ l.written = k.written
        /\ Awaiting(l) \subseteq Awaiting(k) \union {"reference"} /\ l.renewing
    BY <1>3, <1>5 DEF Awaited, KeepsAll, Awaiting
  <2>3. ~(t \in Streams /\ k.status = "closed")
    BY NotClosed DEF Going
  <2> HIDE DEF k, l, queued
  <2>4. Promises(t, l, queued)
    BY <2>1, <2>2, <2>3 DEF Promises
  <2> QED BY <2>1, <2>4 DEF Willing, l
<1>9. NotLeft(n)
  <2>1. \A u \in Tasks : n.task[u].status = m.task[u].status /\ n.task[u].next = m.task[u].next
    BY <1>3, <1>5 DEF Awaited, KeepsAll
  <2>2. \A u \in Files : AsksParts(m.task[u]) => AsksParts(n.task[u])
    BY <1>3, <1>5 DEF Awaited, AsksParts, Tasks
  <2>3. NotLeft(m)
    BY DEF Going
  <2> QED BY ONLY <2>1, <2>2, <2>3, NotLeftKept
<1> QED BY <1>6, <1>7, <1>8, <1>9, EagerAll DEF Going

LEMMA ReferenceCameGoing ==
    ASSUME NEW m, Going(m), NEW t \in Tasks, NEW renewed, NEW a, a = Came(m, t, renewed),
           NEW n, n = AsksAgain(a, t) \/ n = CancelOnFail(a, t)
    PROVE  Going(n)
<1>1. Fine("all", m, 0)
  BY DEF Going, Sound
<1>2. Fine("all", a, 0) /\ Renewed(m, a, t)
  BY <1>1, CameIs
<1>3. /\ a.queue = m.queue /\ \A u \in Tasks \ {t} : a.task[u] = m.task[u]
      /\ a.task[t].status = m.task[t].status /\ a.task[t].next = m.task[t].next
      /\ a.task[t].written = m.task[t].written /\ a.task[t].sent = m.task[t].sent
      /\ a.task[t].renewing = FALSE
  BY <1>2 DEF Renewed
<1>4. EagerBut(m, {t}) /\ Willing(m, t)
  BY EagerOne DEF Going
<1>5. CASE n = CancelOnFail(a, t)
  <2>1. MayFail("all", a, 0, t, {}, {}, n)
    BY <1>1, <1>2, <1>5, FineGood DEF MayFail
  <2>2. EagerBut(a, {t})
    BY <1>2, <1>3, <1>4, EagerButSame
  <2> QED BY <2>1, <2>2, FailGoing
<1>6. CASE n = AsksAgain(a, t)
  <2>1. /\ Sound(n) /\ Near(a, n, t) /\ "reference" \notin Awaiting(n.task[t])
        /\ AsksParts(a.task[t]) => AsksParts(n.task[t])
    BY <1>1, <1>2, <1>6, AsksAgainOK DEF Sound
  <2>2. n.queue = m.queue /\ \A u \in Tasks \ {t} : n.task[u] = m.task[u]
    BY <1>2, <1>3, <2>1 DEF Near
  <2>3. EagerBut(n, {t})
    BY <1>4, <2>2, EagerButSame
  <2>4. Willing(n, t)
    <3> DEFINE k == m.task[t]
               l == n.task[t]
               queued == Queued(m, t)
    <3>1. Promises(t, k, queued) /\ Queued(n, t) = queued
      BY <1>4, <2>2, QueuedSame DEF Willing
    <3>2. /\ l.status = k.status /\ l.written = k.written /\ l.renewing = FALSE
          /\ Awaiting(l) \subseteq Awaiting(k) \union {"server"} /\ "reference" \notin Awaiting(l)
      BY <1>2, <1>3, <2>1 DEF Near, Awaiting
    <3>3. Taken(l) # {} => queued
      BY <2>1, <3>1, SoundIs DEF BalanceOK
    <3> HIDE DEF k, l, queued
    <3>4. Promises(t, l, queued)
      BY <3>1, <3>2, <3>3 DEF Promises
    <3> QED BY <3>1, <3>4 DEF Willing, l
  <2>5. NotLeft(n)
    <3>1. \A u \in Tasks : n.task[u].status = m.task[u].status /\ n.task[u].next = m.task[u].next
      BY <1>2, <1>3, <2>1 DEF Near
    <3>2. \A u \in Files : AsksParts(m.task[u]) => AsksParts(n.task[u])
      BY <1>2, <1>3, <2>1, <2>2 DEF AsksParts, Tasks
    <3> QED BY <3>1, <3>2, NotLeftKept DEF Going
  <2> QED BY <2>1, <2>3, <2>4, <2>5, EagerAll DEF Going
<1> QED BY <1>5, <1>6

-----------------------------------------------------------------------------
(* What the owners ask for.                                                  *)

LEMMA StartGoing ==
    ASSUME NEW m, Going(m), NEW t \in Files, m.task[t].status = "new", NEW partial \in Parts,
           NEW n, n = Enqueue(Started(m, t, partial), t, 0)
    PROVE  Going(n)
<1> DEFINE a == Started(m, t, partial)
           priority == 0
<1>0. Fine("all", m, 0)
  BY DEF Going, Sound
<1>1. /\ n = Enqueue(a, t, priority) /\ t \in Tasks /\ a = Started(m, t, partial)
      /\ priority \in Int /\ priority <= 0
  BY DEF Tasks
<1> HIDE DEF a, priority
<1>2. Sound(a) /\ Begun(m, a, t, partial)
  BY <1>0, <1>1, StartedIs DEF Sound
<1>3. EagerBut(a, {t})
  <2>1. EagerBut(m, {t})
    BY <1>1, EagerOne DEF Going
  <2> QED BY <1>2, <2>1, EagerButSame DEF Begun
<1>4. Promises(t, a.task[t], TRUE)
  <2> DEFINE l == a.task[t]
  <2>1. l.status = "loading" /\ l.written = 0 .. partial - 1 /\ Taken(l) = {} /\ t \notin Streams
    BY <1>2, Constants DEF Begun
  <2> HIDE DEF l
  <2>2. Awaiting(l) = {}
    BY <2>1 DEF Taken, Offsets, Awaiting
  <2>3. l.written # Parts
    <3>1. partial \in Parts /\ partial \notin 0 .. partial - 1
      BY Constants
    <3> QED BY <2>1, <3>1
  <2>4. Promises(t, l, TRUE)
    BY <2>1, <2>2, <2>3 DEF Promises
  <2> QED BY <2>4 DEF l
<1> QED BY <1>1, <1>2, <1>3, <1>4, EnqueueGoing

LEMMA ClosedGoing ==
    ASSUME NEW m, Going(m), NEW t \in Tasks, NEW n, n = Destroy(m, t, "closed")
    PROVE  Going(n)
<1> DEFINE none == {}
           status == "closed"
<1>1. n = Destroy(m, t, status) /\ MayDestroy(m, t, status) /\ status = "closed"
  BY DEF MayDestroy
<1>2. Good("all", m, 0, t, none, none)
  BY FineGood DEF Going, Sound
<1>3. EagerBut(m, {t})
  BY EagerOne DEF Going
<1> HIDE DEF none, status
<1> QED BY <1>1, <1>2, <1>3, DestroyGoing

\* The stream of a reader that has not gone.
IsOpen(m, t) == m.task[t].status \in {"loading", "failed"}

LEMMA OpenPromises ==
    ASSUME NEW m, NEW t \in Streams, IsOpen(m, t), NEW queued
    PROVE  Promises(t, m.task[t], queued)
<1>1. t \notin Files
  BY Constants
<1> QED BY <1>1 DEF IsOpen, Promises

LEMMA StaysGoing ==
    ASSUME NEW m, Going(m), NEW t \in Streams, IsOpen(m, t), NEW n, Sound(n), Stays(m, n, t)
    PROVE  Going(n) /\ IsOpen(n, t)
<1>1. t \in Tasks /\ t \notin Files
  BY Constants DEF Tasks
<1>2. EagerBut(n, {t})
  BY <1>1, EagerOne, EagerButSame DEF Going, Stays
<1>3. IsOpen(n, t)
  BY DEF Stays, IsOpen
<1>4. Willing(n, t)
  BY <1>3, OpenPromises DEF Willing
<1>5. NotLeft(n)
  BY <1>1, <1>3, NotLeftBy DEF IsOpen
<1> QED BY <1>1, <1>2, <1>3, <1>4, <1>5, EagerAll DEF Going

LEMMA AddGoing ==
    ASSUME NEW m, Going(m), NEW t \in Streams, IsOpen(m, t), NEW n, n = AddToQueue(m, t)
    PROVE  Going(n)
<1> DEFINE priority == m.task[t].priority
<1>1. t \in Tasks /\ t \notin Files
  BY Constants DEF Tasks
<1>2. Sound(m) /\ EagerBut(m, {t})
  BY <1>1, EagerOne DEF Going
<1>3. priority \in Int /\ n = Enqueue(m, t, priority)
  BY <1>1, <1>2, PriorityOf DEF AddToQueue, Sound
<1>4. Promises(t, m.task[t], TRUE)
  BY OpenPromises
<1> HIDE DEF priority
<1> QED BY <1>1, <1>2, <1>3, <1>4, EnqueueGoing

\* What a reader does leaves its stream open, but the last.
LEMMA ReaderGoing ==
    ASSUME Going(manager), NEW t \in Streams, Reader(t)
    PROVE  Going(manager')
<1> DEFINE m == manager
           n == manager'
           x == 0
<1>1. x \in Nat /\ x = 0 /\ Fine("all", m, x) /\ Going(m) /\ t \in Tasks
  BY DEF Tasks, Going, Sound
<1>2. ASSUME NEW offset \in Asked, Load(t, offset) PROVE Going(n)
  <2> DEFINE sent == HaveSentRequestForOffset(m.task[t], offset)
             entry == [offset |-> offset, priority |-> m.task[t].level]
             a == Asks(m, t, offset)
  <2>1. sent <=> offset \in Taken(m.task[t])
    BY DEF HaveSentRequestForOffset, Taken, Held
  <2>2. entry \in m.task[t].requested => offset \in Queried(m.task[t])
    BY DEF Queried
  <2>3. offset \in Parts /\ m.task[t].status = "loading" /\ IsOpen(m, t)
    BY <1>2, Constants DEF Load, Live, IsOpen
  <2>4. IF sent \/ entry \in m.task[t].requested THEN n = Wants(m, t, offset)
                                                 ELSE n = AddToQueue(a, t)
    BY <1>2 DEF Load, Call, Asks
  <2> HIDE DEF m, n, x, sent, entry
  <2>5. CASE sent \/ entry \in m.task[t].requested
    <3>1. Fine("all", n, x) /\ Stays(m, n, t)
      BY <1>1, <2>1, <2>2, <2>3, <2>4, <2>5, WantsOK
    <3> QED BY <1>1, <2>3, <3>1, StaysGoing DEF Sound
  <2>6. CASE ~(sent \/ entry \in m.task[t].requested)
    <3>1. a = Asks(m, t, offset) /\ n = AddToQueue(a, t) /\ offset \notin Taken(m.task[t])
      BY <2>1, <2>4, <2>6
    <3> HIDE DEF a
    <3>2. Fine("all", a, x) /\ Stays(m, a, t)
      BY <1>1, <2>3, <3>1, AsksOK
    <3>3. Going(a) /\ IsOpen(a, t)
      BY <1>1, <2>3, <3>2, StaysGoing DEF Sound
    <3> QED BY <3>1, <3>3, AddGoing
  <2> QED BY <2>5, <2>6
<1>3. ASSUME NEW offset \in Asked, CancelLoad(t, offset) PROVE Going(n)
  <2> DEFINE a == Forgets(m, t, offset)
  <2>1. m.task[t].status = "loading" /\ IsOpen(m, t) /\ a = Forgets(m, t, offset)
        /\ n = CancelForOffset(a, t, offset)
    BY <1>3 DEF CancelLoad, Live, Call, IsOpen
  <2> HIDE DEF m, n, x, a
  <2>2. Fine("all", a, x) /\ Stays(m, a, t) /\ offset \notin a.task[t].wanted
    BY <1>1, <2>1, ForgetsOK
  <2>3. Going(a) /\ IsOpen(a, t)
    BY <1>1, <2>1, <2>2, StaysGoing DEF Sound
  <2>4. /\ Fine("all", n, x)
        /\ \/ Stays(a, n, t)
           \/ \E d : Fine("all", d, x) /\ Stays(a, d, t) /\ n = AddToQueue(d, t)
    BY <1>1, <2>1, <2>2, CancelForOffsetOK
  <2>5. CASE Stays(a, n, t)
    BY <1>1, <2>3, <2>4, <2>5, StaysGoing DEF Sound
  <2>6. ASSUME NEW d, Fine("all", d, x), Stays(a, d, t), n = AddToQueue(d, t) PROVE Going(n)
    <3>1. Going(d) /\ IsOpen(d, t)
      BY <1>1, <2>3, <2>6, StaysGoing DEF Sound
    <3> QED BY <2>6, <3>1, AddGoing
  <2> QED BY <2>4, <2>5, <2>6
<1>4. ASSUME NEW priority \in Levels, SetPriority(t, priority) PROVE Going(n)
  <2> DEFINE a == [m EXCEPT !.task[t].priority = priority]
  <2>1. (n = a \/ n = AddToQueue(a, t)) /\ IsOpen(m, t)
    BY <1>4 DEF SetPriority, Call, Open, IsOpen
  <2>2. a = [m EXCEPT !.task[t].priority = priority] /\ priority \in Nat
    BY Constants
  <2> HIDE DEF m, n, x, a
  <2>3. Fine("all", a, x) /\ Stays(m, a, t)
    BY <1>1, <2>2, SetPriorityOK
  <2>4. Going(a) /\ IsOpen(a, t)
    BY <1>1, <2>1, <2>3, StaysGoing DEF Sound
  <2> QED BY <2>1, <2>4, AddGoing
<1>5. ASSUME TryRemoveFromQueue(t) PROVE Going(n)
  <2>1. n = RemoveFromQueue(m, t) /\ ~HaveSentRequests(m.task[t]) /\ IsOpen(m, t)
    BY <1>5 DEF TryRemoveFromQueue, Set, Open, IsOpen
  <2> HIDE DEF m, n, x
  <2>2. IsSeq(m.task[t].sent)
    BY <1>1, FineTask DEF TaskShape
  <2>3. Taken(m.task[t]) = {}
    BY <2>1, EmptyIs DEF HaveSentRequests, Taken, Offsets, Held
  <2>4. Sound(m) /\ EagerBut(m, {t})
    BY <1>1, EagerOne DEF Going
  <2>5. Promises(t, m.task[t], FALSE)
    BY <2>1, OpenPromises
  <2> QED BY <1>1, <2>1, <2>3, <2>4, <2>5, RemoveGoing
<1>6. ASSUME ResetPriorities(t) PROVE Going(n)
  <2>1. n = [m EXCEPT !.task[t].level = @ + 1] /\ IsOpen(m, t)
    BY <1>6 DEF ResetPriorities, Call, Open, IsOpen
  <2> HIDE DEF m, n, x
  <2>2. Fine("all", n, x) /\ Stays(m, n, t)
    BY <1>1, <2>1, ResetPrioritiesOK
  <2> QED BY <1>1, <2>1, <2>2, StaysGoing DEF Sound
<1>7. ASSUME Close(t) PROVE Going(n)
  <2>1. n = Destroy(m, t, "closed") /\ Going(m)
    BY <1>7 DEF Close, Set
  <2> HIDE DEF m, n
  <2> QED BY <1>1, <2>1, ClosedGoing
<1> QED BY <1>2, <1>3, <1>4, <1>5, <1>6, <1>7 DEF Reader

-----------------------------------------------------------------------------
(* Timers.                                                                   *)

LEMMA SparedGoing ==
    ASSUME NEW m, Going(m), NEW n, Sound(n), AllSpared(m, n)
    PROVE  Going(n)
<1>1. n.queue = m.queue /\ \A u \in Tasks : SameWork(m.task[u], n.task[u])
  BY DEF AllSpared
<1>2. Neat(n.queue) /\ \A u \in Tasks : Willing(m, u)
  BY <1>1 DEF Going, Eager, EagerBut
<1>3. ASSUME NEW u \in Tasks PROVE Willing(n, u)
  <2>1. SameWork(m.task[u], n.task[u]) /\ Willing(m, u)
    BY <1>1, <1>2
  <2>2. u \in Streams /\ m.task[u].status = "closed" => Taken(n.task[u]) = {}
    BY <2>1 DEF SameWork, Taken, Willing, Promises
  <2> QED BY <1>1, <2>1, <2>2, WillingMore DEF SameWork
<1>4. NotLeft(n)
  <2>1. \A u \in Tasks : n.task[u].status = m.task[u].status /\ n.task[u].next = m.task[u].next
    BY <1>1 DEF SameWork
  <2>2. \A u \in Files : AsksParts(m.task[u]) => AsksParts(n.task[u])
    BY <1>1 DEF SameWork, Tasks
  <2> QED BY <2>1, <2>2, NotLeftKept DEF Going
<1> QED BY <1>2, <1>3, <1>4 DEF Going, Eager, EagerBut

\* The tasks are the same, and in the queue as they were.
LEMMA OrderGoing ==
    ASSUME NEW m, Going(m), NEW n, Sound(n), n.task = m.task, Neat(n.queue),
           \A u : InQueue(n.queue, u) <=> InQueue(m.queue, u)
    PROVE  Going(n)
<1>1. ASSUME NEW u \in Tasks PROVE Willing(n, u)
  <2> DEFINE k == m.task[u]
             a == InQueue(m.queue, u)
             b == InQueue(n.queue, u)
  <2>1. Promises(u, k, a)
    BY DEF Going, Eager, EagerBut, Willing, Queued, InQueue
  <2>2. (a <=> b) /\ a \in BOOLEAN /\ b \in BOOLEAN
    BY DEF InQueue
  <2> HIDE DEF a, b, k
  <2>3. Promises(u, k, b)
    BY <2>1, <2>2, PromisesAs
  <2> QED BY <2>3 DEF k, b, Willing, Queued, InQueue
<1>2. NotLeft(n)
  BY NotLeftKept DEF Going
<1> QED BY <1>1, <1>2 DEF Going, Eager, EagerBut

LEMMA PostedGoing ==
    ASSUME NEW m, Going(m), Room("all", m), m.posted # <<>>,
           NEW a, a = [m EXCEPT !.posted = Tail(@)], NEW first, first = Head(m.posted),
           NEW n, n = IF first.call = "hashes" THEN RequestMoreHashes(a, first.task)
                                              ELSE SessionTimedOut(a, first.session)
    PROVE  Going(n)
<1>0. Fine("all", m, 0)
  BY DEF Going, Sound
<1>1. /\ Sound(n) /\ a.queue = m.queue /\ a.task = m.task
      /\ \/ AllSpared(a, n)
         \/ \E t \in Tasks : Beside(a, n, t) /\ AsksMore(a, n, t)
  BY <1>0, RunPostedOK DEF Sound
<1>2. CASE AllSpared(a, n)
  <2>1. AllSpared(m, n)
    BY <1>1, <1>2 DEF AllSpared
  <2> QED BY <1>1, <2>1, SparedGoing
<1>3. ASSUME NEW t \in Tasks, Beside(a, n, t), AsksMore(a, n, t) PROVE Going(n)
  <2>1. Eager(a) /\ NotLeft(a)
    <3>1. \A u \in Tasks : Willing(a, u)
      BY <1>1, WillingSame DEF Going, Eager, EagerBut
    <3>2. NotLeft(a)
      BY <1>1, NotLeftKept DEF Going
    <3> QED BY <1>1, <3>1, <3>2 DEF Going, Eager, EagerBut
  <2> QED BY <1>1, <1>3, <2>1, MoreHashesOn DEF Going
<1> QED BY <1>1, <1>2, <1>3

-----------------------------------------------------------------------------
(* Every step.                                                               *)

LEMMA AnsweredGoing ==
    ASSUME Unspoiled', Going(manager), NEW t \in Tasks, NEW r \in Waiting(t), Answered(t, r)
    PROVE  Going(manager')
<1> DEFINE m == manager
           n == manager'
<1>1. r \in ToSet(m.task[t].sent) /\ Going(m)
  BY DEF Waiting
<1>2. ASSUME NEW pace, PartLoaded(t, r, pace) PROVE Going(n)
  <2>1. r.kind # "hashes" /\ n = CheckSendNext(FeedPart(Answer(m, t, r, pace), t, r.offset))
    BY <1>2 DEF PartLoaded, Become, AfterSuccess, Answer
  <2> HIDE DEF m, n
  <2> QED BY <1>1, <2>1, PartLoadedGoing
<1>3. ASSUME NEW pace, NEW hashes, Redirected(t, r, pace, hashes) PROVE Going(n)
  <2>1. /\ r.kind # "hashes"
        /\ n = CheckSendNext(ChangeCDNParams(Answer(m, t, r, pace), t, r, TRUE, hashes))
    BY <1>3 DEF Redirected, Become, AfterSuccess, Answer
  <2> HIDE DEF m, n
  <2> QED BY <1>1, <2>1, RedirectedGoing
<1>4. ASSUME NEW pace, NEW good, CdnPartLoaded(t, r, pace, good) PROVE Going(n)
  <2>1. r.kind = "cdn" /\ n = CheckSendNext(CdnPart(Answer(m, t, r, pace), t, r, good))
    BY <1>4 DEF CdnPartLoaded, Become, AfterSuccess, Answer
  <2> HIDE DEF m, n
  <2> QED BY <1>1, <2>1, CdnPartLoadedGoing
<1>5. ASSUME ReuploadDone(t, r) PROVE Going(n)
  <2> DEFINE hashes == {r.offset}
  <2>1. /\ r.kind # "hashes"
        /\ n = MakeRequest(AddHashes(FinishSentRequest(m, t, r), t, hashes), t, r.offset, r.session)
    BY <1>5 DEF ReuploadDone, Become
  <2> HIDE DEF m, n, hashes
  <2> QED BY <1>1, <2>1, ReuploadDoneGoing
<1>6. ASSUME NEW hashes, NEW wrong, GetCdnFileHashesDone(t, r, hashes, wrong)
      PROVE  Going(n)
  <2>1. /\ r.kind = "hashes"
        /\ n = CheckUnchecked(AddHashes(FinishSentRequest(m, t, r), t, hashes), t, wrong)
    BY <1>6 DEF GetCdnFileHashesDone, Become
  <2> HIDE DEF m, n
  <2> QED BY <1>1, <2>1, GetCdnFileHashesDoneGoing
<1>7. ASSUME ReuploadNeeded(t, r) PROVE Going(n)
  <2>1. /\ r.kind = "cdn"
        /\ n = PlaceSentRequest(FinishSentRequest(m, t, r), t, "reupload", r.offset, r.session)
    BY <1>7 DEF ReuploadNeeded, Become
  <2> HIDE DEF m, n
  <2> QED BY <1>1, <2>1, ReuploadNeededGoing
<1>8. ASSUME TokenRefused(t, r) PROVE Going(n)
  <2> DEFINE hashes == {}
  <2>1. /\ Held(m.task[t]) = {}
        /\ n = ChangeCDNParams(FinishSentRequest(m, t, r), t, r, FALSE, hashes)
    BY <1>8 DEF TokenRefused, Unspoiled, Held
  <2> HIDE DEF m, n, hashes
  <2> QED BY <1>1, <2>1, TokenRefusedGoing
<1>9. ASSUME PartFailed(t, r) PROVE Going(n)
  <2>1. n = CancelOnFail(Await(m, t, r, "nothing"), t)
    BY <1>9 DEF PartFailed, Become
  <2> HIDE DEF m, n
  <2> QED BY <1>1, <2>1, PartFailedGoing
<1>10. ASSUME ReferenceExpired(t, r) PROVE Going(n)
  <2> DEFINE a == Await(m, t, r, "reference")
  <2>1. /\ r.kind = "part" /\ a = Await(m, t, r, "reference")
        /\ n = [a EXCEPT !.task[t].renewing = TRUE]
    BY <1>10 DEF ReferenceExpired, Become
  <2> HIDE DEF m, n, a
  <2> QED BY <1>1, <2>1, ReferenceExpiredGoing
<1> QED BY <1>2, <1>3, <1>4, <1>5, <1>6, <1>7, <1>8, <1>9, <1>10 DEF Answered

LEMMA CameGoing ==
    ASSUME Going(manager), NEW t \in Tasks, NEW renewed, ReferenceCame(t, renewed)
    PROVE  Going(manager')
<1> DEFINE m == manager
           n == manager'
           a == Came(m, t, renewed)
<1>1. n = (IF a.task[t].renewed THEN AsksAgain(a, t) ELSE CancelOnFail(a, t))
  BY DEF ReferenceCame, Become, Came, AsksAgain, AskAgain
<1>2. a = Came(m, t, renewed) /\ Going(m)
  OBVIOUS
<1> HIDE DEF m, n, a
<1>3. n = AsksAgain(a, t) \/ n = CancelOnFail(a, t)
  BY <1>1
<1>4. Going(n)
  BY <1>2, <1>3, ReferenceCameGoing
<1> QED BY <1>4 DEF n

LEMMA NextGoing ==
    ASSUME Unspoiled', Going(manager), Roomy, [Next]_vars
    PROVE  Going(manager')
<1> DEFINE m == manager
           n == manager'
<1>0. Going(m) /\ Fine("all", m, 0) /\ Room("all", m)
  BY DEF Room, Roomy, Going, Sound
<1>1. Sound(n)
  <2> DEFINE scope == "all"
  <2>1. Fine(scope, manager, 0) /\ (scope = "all" => Roomy)
    BY <1>0
  <2> HIDE DEF scope
  <2>2. Fine(scope, manager', 0)
    BY <2>1, NextOK
  <2> QED BY <2>2 DEF scope, Sound
<1>2. ASSUME NEW t \in Tasks, NEW r \in Waiting(t), Answered(t, r) PROVE Going(n)
  BY <1>2, AnsweredGoing
<1>3. ASSUME NEW t \in Tasks, NEW renewed, ReferenceCame(t, renewed) PROVE Going(n)
  BY <1>3, CameGoing
<1>4. ASSUME NEW t \in Files, Cancel(t) PROVE Going(n)
  <2>1. n = Destroy(m, t, "closed") /\ t \in Tasks
    BY <1>4 DEF Cancel, Call, Tasks
  <2> HIDE DEF m, n
  <2> QED BY <1>0, <2>1, ClosedGoing
<1>5. ASSUME NEW t \in Files, NEW partial \in Parts, Start(t, partial) PROVE Going(n)
  <2>1. m.task[t].status = "new" /\ n = Enqueue(Started(m, t, partial), t, 0)
    BY <1>5 DEF Start, Set, Started
  <2> HIDE DEF m, n
  <2> QED BY <1>0, <2>1, StartGoing
<1>6. ASSUME NEW t \in Streams, Reader(t) PROVE Going(n)
  BY <1>6, ReaderGoing
<1>7. ASSUME NEW i \in 1 .. MaxSessions, RestartsByTimeout(i) PROVE Going(n)
  <2>1. n = SessionTimedOut(m, i) /\ i \in Nat
    BY <1>7 DEF RestartsByTimeout, Become
  <2> HIDE DEF m, n
  <2>2. AllSpared(m, n)
    BY <1>0, <2>1, SessionTimedOutOK
  <2> QED BY <1>0, <1>1, <2>2, SparedGoing
<1>8. ASSUME RunPosted PROVE Going(n)
  <2> DEFINE a == [m EXCEPT !.posted = Tail(@)]
             first == Head(m.posted)
  <2>1. /\ m.posted # <<>> /\ a = [m EXCEPT !.posted = Tail(@)] /\ first = Head(m.posted)
        /\ n = IF first.call = "hashes" THEN RequestMoreHashes(a, first.task)
                                         ELSE SessionTimedOut(a, first.session)
    BY <1>8 DEF RunPosted, Set
  <2> HIDE DEF m, n, a, first
  <2> QED BY <1>0, <2>1, PostedGoing
<1>9. ASSUME KillTimer PROVE Going(n)
  <2>1. m.killing /\ n = KillSessions(m)
    BY <1>9 DEF KillTimer, Set
  <2> HIDE DEF m, n
  <2>2. n.queue = m.queue /\ n.task = m.task
    BY <1>0, <2>1, KillSessionsOK
  <2>3. AllSpared(m, n)
    BY <2>2, AllSparedSame
  <2> QED BY <1>0, <1>1, <2>3, SparedGoing
<1>10. ASSUME GenerationTimer PROVE Going(n)
  <2>1. n = ResetGeneration(m)
    BY <1>10 DEF GenerationTimer, Set
  <2> HIDE DEF m, n
  <2>2. n.task = m.task /\ Neat(n.queue) /\ \A u : InQueue(n.queue, u) <=> InQueue(m.queue, u)
    BY <1>0, <2>1, ResetGenerationOK DEF Going, Eager, EagerBut
  <2> QED BY <1>0, <1>1, <2>2, OrderGoing
<1>11. ASSUME UNCHANGED vars PROVE Going(n)
  BY <1>11 DEF vars
<1> QED BY <1>2, <1>3, <1>4, <1>5, <1>6, <1>7, <1>8, <1>9, <1>10, <1>11 DEF Next, Step

LEMMA InitGoing ==
    ASSUME Init
    PROVE  Going(manager)
<1> DEFINE m == manager
<1>1. m.queue = <<>> /\ \A t \in Tasks :
          m.task[t] = [NewTask EXCEPT !.status = IF t \in Files THEN "new" ELSE "loading"]
  BY DEF Init
<1>2. Sound(m)
  BY InitOK DEF Sound
<1> HIDE DEF m
<1>3. ASSUME NEW t \in Tasks
      PROVE  m.task[t].status = IF t \in Files THEN "new" ELSE "loading"
  <2> DEFINE status == IF t \in Files THEN "new" ELSE "loading"
             k == m.task[t]
  <2>1. k = [NewTask EXCEPT !.status = status] /\ status # "done"
    BY <1>1
  <2> HIDE DEF k, status
  <2>2. k.status = status
    BY <2>1, FreshIs
  <2> QED BY <2>2 DEF k, status
<1>4. Neat(m.queue)
  BY <1>1 DEF Neat
<1>5. ASSUME NEW t \in Tasks PROVE Willing(m, t)
  <2>1. t \in Streams => t \notin Files
    BY Constants
  <2> QED BY <1>3, <2>1 DEF Willing, Promises
<1>6. NotLeft(m)
  BY <1>3 DEF NotLeft, ReadyToRequest, Tasks
<1> QED BY <1>2, <1>4, <1>5, <1>6 DEF Going, Eager, EagerBut, m

LEMMA GoingOn ==
    ASSUME Going(manager)
    PROVE  NoneStuck
<1> DEFINE m == manager
<1>0. Sound(m) /\ NotLeft(m) /\ \A u \in Tasks : Willing(m, u)
  BY DEF Going, Eager, EagerBut
<1>1. ASSUME NEW t \in Files PROVE t \in Tasks /\ t \notin Streams /\ FileOK(m.task[t], {})
  <2>1. t \in Tasks /\ t \notin Streams
    BY Constants DEF Tasks
  <2> QED BY <1>0, <2>1, SoundIs DEF TaskOK
<1>2. ASSUME NEW t \in Files, Idle, Cardinality(Files) < StartWaited, Live(t) PROVE FALSE
  <2>1. /\ \A u \in Tasks : /\ \A r \in ToSet(m.task[u].sent) : r.awaits # "server"
                            /\ ~m.task[u].renewing
        /\ m.posted = <<>> /\ m.task[t].status = "loading"
    BY <1>2 DEF Idle, Waiting, Live
  <2>2. \A u \in Streams : m.task[u].status \notin {"loading", "failed"}
    BY <1>2 DEF Idle, Open, Tasks
  <2>3. ASSUME NEW u \in Files PROVE ToSet(m.task[u].sent) = {}
    <3>1. CASE m.task[u].status = "loading"
      <4>1. Awaiting(m.task[u]) \subseteq {"server"}
        BY <1>0, <1>1, <2>1, <3>1 DEF Willing, Promises
      <4> QED BY <1>1, <2>1, <4>1 DEF Awaiting
    <3>2. CASE m.task[u].status # "loading"
      <4>1. Taken(m.task[u]) = {}
        BY <1>1, <3>2 DEF FileOK
      <4> QED BY <4>1 DEF Taken, Offsets
    <3> QED BY <3>1, <3>2
  <2>4. \A u \in Streams : m.task[u].status = "closed"
    BY <1>0, <2>2 DEF Willing, Promises, Tasks
  <2>5. ~ReadyToRequest(m, t)
    <3>1. \A u \in Files : ~AsksParts(m.task[u])
      BY <2>3 DEF AsksParts
    <3>2. ~(Cardinality(Files) >= StartWaited)
      <4>1. Cardinality(Files) \in Nat /\ StartWaited \in Nat
        BY Constants, FS_Subset, FS_CardinalityType
      <4> QED BY <1>2, <4>1
    <3> QED BY <1>0, <2>4, <3>1, <3>2 DEF NotLeft
  <2> DEFINE k == m.task[t]
  <2>6. k.next = Size
    <3>1. k.next \in 0 .. Size /\ ~(k.next < Size)
      BY <1>1, <2>1, <2>5 DEF FileOK, ReadyToRequest
    <3> QED BY <3>1, Constants
  <2>7. Held(k) = {}
    <3>1. ToSet(m.posted) = {}
      BY <2>1, EmptyIs
    <3>2. ~AsksFor(m, t)
      BY <2>3, <3>1 DEF AsksFor, AsksHashes
    <3> QED BY <1>0, <1>1, <2>1, <3>2, SoundIs DEF TaskOK
  <2>8. Taken(k) = {}
    BY <2>3, <2>7 DEF Taken, Offsets
  <2>9. 0 .. Size - 1 = k.written
    BY <1>1, <2>1, <2>6, <2>8 DEF FileOK
  <2>10. k.written # Parts
    BY <1>0, <1>1, <2>1 DEF Willing, Promises
  <2> QED BY <2>9, <2>10 DEF Parts
<1>3. \A t \in Files : m.task[t].status = "done" => m.task[t].written = Parts
  BY <1>1 DEF FileOK
<1>4. Cardinality(Files) < StartWaited \/ Cardinality(Files) >= StartWaited
  <2>1. Cardinality(Files) \in Nat /\ StartWaited \in Nat
    BY Constants, FS_Subset, FS_CardinalityType
  <2> QED BY <2>1
<1> QED BY <1>2, <1>3, <1>4 DEF NoneStuck

\* As long as no token is refused while parts are held back, no download waits for an
\* event that does not come: a file that is loading is in the queue, what it has sent
\* is answered, and one that could ask for a part does, or else a file that has asked
\* for a part, whose answer sends what there is room for.  So, once nothing is awaited
\* or posted and the readers are gone, it has ended, if the files are fewer than what
\* a session waits for.
THEOREM NoneIsStuck == Spec /\ []Roomy => [](Unspoiled => NoneStuck)
<1> DEFINE I == Going(manager)
<1>1. Init => I
  BY InitGoing
<1>2. I /\ Roomy /\ [Next]_vars /\ Unspoiled' => I'
  BY NextGoing
<1>3. I => NoneStuck
  BY GoingOn
<1> QED BY <1>1, <1>2, <1>3, SpoiledStays, PTL DEF Spec

\* With no more parts in all than the sessions may hold there always is room: no file
\* is left waiting, with the conditions on tokens and on the number of files that
\* NoneIsStuck has and no other.
THEOREM FewPartsEnd ==
    ASSUME Cardinality(Tasks) * Size <= MaxWaited * MaxSessions
    PROVE  Spec => [](Unspoiled => NoneStuck)
<1>1. Roomy
  BY AlwaysRoomy
<1> QED BY <1>1, NoneIsStuck, PTL
=============================================================================
